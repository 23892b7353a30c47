------------------------------ MODULE Startup ------------------------------
(***************************************************************************)
(* VMAPI's process from its start until it serves every request            *)
(* (server.js): the moray client connects, the buckets are set up and      *)
(* reindexed, then the data migrations run, beside the requests that are   *)
(* served once the buckets are set up (lib/interceptors.js) and /ping.     *)
(***************************************************************************)
EXTENDS DataMigrations

CONSTANTS
    MaxReconnects,  \* BOUND: connect events after the first of a process
    MaxWrites       \* BOUND: requests that put a record

ASSUME StartupAssumption == MaxReconnects \in Nat /\ MaxWrites \in Nat

VARIABLES
    reconnects,  \* connect events after the first
    writes       \* requests that put a record so far

vars == <<schema, toReindex, init, settingUp, reindexing, bucketsSetup, up,
          faults, record, migration, completed, reconnects, writes>>

Forget ==
    /\ migration' = << >>
    /\ completed' = [m \in Models |-> 0]

-----------------------------------------------------------------------------
Connect ==
    /\ up /\ init.runs = << >>
    /\ StartInit
    /\ UNCHANGED <<schema, toReindex, settingUp, reindexing, bucketsSetup, up,
                   faults, record, migrationVars, reconnects, writes>>

Reconnect ==
    /\ up /\ init.runs # << >>
    /\ reconnects < MaxReconnects
    /\ reconnects' = reconnects + 1
    /\ StartInit
    /\ UNCHANGED <<schema, toReindex, settingUp, reindexing, bucketsSetup, up,
                   faults, record, migrationVars, writes>>

\* A step of the initializer; if it ends the process all of it is forgotten
InitStep(i) ==
    /\ \/ SetupBuckets(i) \/ TrySetupBucket(i) \/ InvalidIndexesRemoval(i)
       \/ ReindexBuckets(i) \/ ReindexBucket(i)
    /\ IF up' THEN UNCHANGED migrationVars ELSE Forget
    /\ UNCHANGED <<record, reconnects, writes>>

InitFails(i) ==
    /\ SetupFails(i) \/ ReindexFails(i)
    /\ UNCHANGED <<record, migrationVars, reconnects, writes>>

\* 'done': the data migrations start
InitDone(i) ==
    /\ ReindexDone(i)
    /\ StartMigrations
    /\ UNCHANGED <<record, completed, reconnects, writes>>

MigrationStep(r) ==
    /\ \/ RunMigrations(r) \/ RetryMigrations(r)
       \/ \E m \in Models : FindRecordsToMigrate(r, m) \/ PutBatch(r, m)
    /\ UNCHANGED <<bucketVars, up, faults, reconnects, writes>>

MigrationFails(r) ==
    /\ faults < MaxFaults
    /\ faults' = faults + 1
    /\ \E m \in Models : FindFails(r, m) \/ PutFails(r, m)
    /\ UNCHANGED <<bucketVars, up, reconnects, writes>>

\* An error that retrying would not help is emitted, and ends the process
MigrationAborts(r) ==
    /\ EndedWith(r, "refused")
    /\ Abort
    /\ Forget
    /\ UNCHANGED <<schema, toReindex, faults, record, reconnects, writes>>

Restart ==
    /\ ~up
    /\ up' = TRUE
    /\ UNCHANGED <<bucketVars, faults, record, migrationVars, reconnects,
                   writes>>

\* Mutant: a request puts the record without the version
PutUnstamped(m, k) ==
    /\ up /\ bucketsSetup
    /\ writes < MaxWrites
    /\ writes' = writes + 1
    /\ record' = [record EXCEPT ![m][k] =
                    [version |-> 0, value |-> writes + 1, etag |-> @.etag + 1]]
    /\ UNCHANGED <<bucketVars, up, faults, migrationVars, reconnects>>

\* A request puts a record, at the latest version and whatever its etag
PutObject(m, k) ==
    /\ up /\ bucketsSetup
    /\ writes < MaxWrites
    /\ writes' = writes + 1
    /\ record' = [record EXCEPT ![m][k] =
                    [version |-> DataVersion, value |-> writes + 1,
                     etag |-> @.etag + 1]]
    /\ UNCHANGED <<bucketVars, up, faults, migrationVars, reconnects>>

\* listVms: a search that relies on a migration of the model
SearchAllowed(m, version) == up /\ completed[m] >= version

\* /ping, as far as the buckets go
Healthy ==
    /\ up /\ ~init.lastError
    /\ init.status \in {"BUCKETS_SETUP_DONE", "BUCKETS_REINDEX_DONE"}

-----------------------------------------------------------------------------
Init == BucketsInit /\ MigrationsInit /\ reconnects = 0 /\ writes = 0

Migrated == up /\ \A m \in Models : completed[m] = DataVersion
Quiet ==
    /\ Migrated
    /\ \A r \in MigrationRuns, m \in Models : migration[r][m].phase = "done"
    /\ \A i \in Runs : init.runs[i].process = "done"

Next ==
    \/ Connect \/ Reconnect \/ Restart
    \/ \E i \in Runs : InitStep(i) \/ InitFails(i) \/ InitDone(i)
    \/ \E r \in MigrationRuns :
         MigrationStep(r) \/ MigrationFails(r) \/ MigrationAborts(r)
    \/ \E m \in Models, k \in Keys : PutObject(m, k)
    \/ Quiet /\ UNCHANGED vars

Spec == Init /\ [][Next]_vars

\* The process is restarted, its client connects, timers fire, moray answers
FairSpec ==
    /\ Spec
    /\ WF_vars(Connect) /\ WF_vars(Restart)
    /\ WF_vars(\E i \in Runs : InitStep(i) \/ InitDone(i))
    /\ WF_vars(\E r \in MigrationRuns : MigrationStep(r) \/ MigrationAborts(r))
-----------------------------------------------------------------------------
(* PROPERTIES *)

\* The shape of the state, and that the flags that keep a second call from
\* working on the buckets are those of the one run that does
TypeOK ==
    /\ \A i \in Runs : init.runs[i].at \in DOMAIN Buckets
    /\ settingUp = (\E i \in Runs : At(i, "setup", FALSE))
    /\ reindexing = (\E i \in Runs : At(i, "reindex", FALSE))
    /\ \A m \in Models : completed[m] \in 0..DataVersion

\* A search that relies on a migration is let through only when no record is
\* left that lacks what the migration adds, whatever requests put meanwhile
SearchSeesAll ==
    \A m \in Models, version \in 1..DataVersion :
        SearchAllowed(m, version) =>
            \A k \in Keys : record[m][k].version >= version

\* The data migrations write records only when every bucket is updated and
\* reindexed, which a record with a field of a new index could not survive
Indexed ==
    \A b \in BucketNames : schema[b] >= NewVersion /\ toReindex[b] = 0
MigratesIndexed ==
    [][(record' # record /\ writes' = writes) => Indexed]_vars

\* A data migration never undoes what a request put since it found the record
WritesKept ==
    [][writes' = writes => \A m \in Models, k \in Keys :
                             record'[m][k].value = record[m][k].value]_vars

\* VMAPI is healthy, to those who ask /ping, only when every bucket has the
\* version its endpoints rely on, and these are served
HealthyIsSetUp ==
    Healthy => bucketsSetup /\ \A b \in BucketNames : schema[b] >= NewVersion

\* The start comes to an end: with errors of moray, restarts and reconnections
\* every data migration is completed in the end and stays so
StartupEnds ==
    (\A b \in BucketNames : ~Incompatible(b)) => <>[]Migrated
=============================================================================
