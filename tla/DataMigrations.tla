--------------------------- MODULE DataMigrations ---------------------------
(***************************************************************************)
(* The data migrations (lib/data-migrations/controller.js) over the        *)
(* records of the models in moray.  A run of the controller migrates all   *)
(* models in parallel, each through its versions in order, in chunks of    *)
(* records it finds and puts back; a run that fails is retried.            *)
(***************************************************************************)
EXTENDS MorayBuckets, FiniteSetsExt

CONSTANTS
    Models,      \* the models with data migrations, buckets all of them
    Keys,        \* the records of a model
    DataVersion, \* the version of the last migration of a model
    ChunkSize,   \* how many records a find returns
    FindErrors   \* TRUE if moray's errors happen to finds, too

ASSUME DataMigrationsAssumption ==
    /\ Models \subseteq BucketNames
    /\ DataVersion \in Nat \ {0} /\ ChunkSize \in Nat \ {0}
    /\ FindErrors \in BOOLEAN

VARIABLES
    record,     \* in moray: version, value and etag of the records
    migration,  \* the runs of the controller: what each does for each model
    completed   \* _latestCompletedMigrations

migrationVars == <<migration, completed>>
MigrationRuns == DOMAIN migration

\* A model's work in a run: the phase, the version, the chunk it found
Work(phase, version, found) ==
    [phase |-> phase, version |-> version, found |-> found]
BackedOff == [m \in Models |-> Work("backoff", 1, << >>)]

In(r, m, phase) == up /\ migration[r][m].phase = phase
\* A record without a version is at version 0
ToMigrate(m, version) ==
    {k \in Keys : record[m][k].version \in {0, version - 1}}

-----------------------------------------------------------------------------
\* start: the controller's run backs off before it begins
StartMigrations == migration' = Append(migration, BackedOff)

\* runMigrations: every model begins, and what was completed is forgotten
RunMigrations(r) ==
    /\ \A m \in Models : In(r, m, "backoff")
    /\ migration' = [migration EXCEPT ![r] =
                       [m \in Models |-> Work("find", 1, << >>)]]
    /\ completed' = [m \in Models |-> 0]
    /\ UNCHANGED record

\* Some of the records to migrate; if there is none the version is completed
FindRecordsToMigrate(r, m) ==
    /\ In(r, m, "find")
    /\ LET version == migration[r][m].version
           keys == ToMigrate(m, version)
           size == Min({ChunkSize, Cardinality(keys)})
       IN \/ /\ keys # {}
             /\ \E chunk \in kSubset(size, keys) :
                  migration' = [migration EXCEPT ![r][m] =
                      Work("put", version, [k \in chunk |-> record[m][k]])]
             /\ UNCHANGED completed
          \/ /\ keys = {}
             /\ completed' = [completed EXCEPT ![m] = version]
             /\ migration' = [migration EXCEPT ![r][m] =
                    IF version < DataVersion
                    THEN Work("find", version + 1, << >>)
                    ELSE Work("done", version, << >>)]
    /\ UNCHANGED record

(* findRecordsToMigrate calls back at the end of the records only.  It      *)
(* retries an InvalidQueryError; after any other error nothing happens.     *)
FindFails(r, m) ==
    /\ In(r, m, "find") /\ FindErrors
    /\ migration' = [migration EXCEPT ![r][m].phase = "lost"]
    /\ UNCHANGED <<record, completed>>

\* Mutants: the batch is put without the etags; and a conflict is not told to
\* the controller
PutBatchBlindly(r, m) ==
    /\ In(r, m, "put")
    /\ LET found == migration[r][m].found
           version == migration[r][m].version
       IN /\ record' = [record EXCEPT ![m] = [k \in Keys |->
                 IF k \in DOMAIN found
                 THEN [found[k] EXCEPT !.version = version]
                 ELSE record[m][k]]]
          /\ migration' = [migration EXCEPT ![r][m] =
                              Work("find", version, << >>)]
    /\ UNCHANGED completed
PutBatchLost(r, m) ==
    /\ In(r, m, "put")
    /\ LET found == migration[r][m].found
       IN IF \A k \in DOMAIN found : record[m][k].etag = found[k].etag
          THEN PutBatchBlindly(r, m)
          ELSE /\ migration' = [migration EXCEPT ![r][m].phase = "lost"]
               /\ UNCHANGED <<record, completed>>

\* putBatch, all or nothing: a record that was put meanwhile has another etag
PutBatch(r, m) ==
    /\ In(r, m, "put")
    /\ LET found == migration[r][m].found
           version == migration[r][m].version
       IN IF \A k \in DOMAIN found : record[m][k].etag = found[k].etag
          THEN /\ record' = [record EXCEPT ![m] = [k \in Keys |->
                     IF k \in DOMAIN found
                     THEN [version |-> version, value |-> found[k].value,
                           etag |-> record[m][k].etag + 1]
                     ELSE record[m][k]]]
               /\ migration' = [migration EXCEPT ![r][m] =
                                  Work("find", version, << >>)]
          ELSE /\ migration' = [migration EXCEPT ![r][m] =
                                  Work("failed", version, << >>)]
               /\ UNCHANGED record
    /\ UNCHANGED completed

\* Retrying helps with some errors of moray and not with others
PutFails(r, m) ==
    /\ In(r, m, "put")
    /\ \E phase \in {"failed", "refused"} :
         migration' = [migration EXCEPT ![r][m] =
                         Work(phase, migration[r][m].version, << >>)]
    /\ UNCHANGED <<record, completed>>

\* All models have ended, and the run with the first of their errors
EndedWith(r, phase) ==
    /\ up
    /\ \A m \in Models : migration[r][m].phase \in {"done", "failed", "refused"}
    /\ \E m \in Models : migration[r][m].phase = phase

RetryMigrations(r) ==
    /\ EndedWith(r, "failed")
    /\ migration' = [migration EXCEPT ![r] = BackedOff]
    /\ UNCHANGED <<record, completed>>

MigrationsInit ==
    /\ record \in [Models -> [Keys -> [version : 0..DataVersion,
                                       value : {0}, etag : {0}]]]
    /\ migration = << >>
    /\ completed = [m \in Models |-> 0]
=============================================================================
