---------------------------- MODULE MorayBuckets ----------------------------
(***************************************************************************)
(* How VMAPI sets its moray buckets up when it starts and reindexes their  *)
(* rows (lib/moray/moray-buckets-initializer.js, lib/apis/moray.js).  Each *)
(* connect event of the moray client starts the initializer once more, so  *)
(* several of its runs may be under way, each in one of two processes that *)
(* are retried with a back-off until they succeed.                         *)
(***************************************************************************)
EXTENDS Naturals, Sequences, FiniteSets

CONSTANTS
    Buckets,         \* the buckets, in the order of the configuration
    NewVersion,      \* the version of their schemas in this VMAPI
    LostIndexes,     \* the versions that have an index which it lacks
    Chunks,          \* how many calls reindex a bucket that was updated
    MaxFaults        \* BOUND: errors of moray over a behaviour

ASSUME MorayBucketsAssumption ==
    /\ Buckets \in Seq(STRING) /\ Buckets # << >>
    /\ NewVersion \in Nat \ {0} /\ Chunks \in Nat /\ MaxFaults \in Nat
    /\ LostIndexes \subseteq 1..(NewVersion - 1)

VARIABLES
    schema,        \* in moray: the version of each bucket, 0 if there is none
    toReindex,     \* in moray: calls left until its rows are reindexed
    init,          \* the initializer's runs and its status and last error
    settingUp,     \* _settingUpBuckets
    reindexing,    \* _reindexingBuckets
    bucketsSetup,  \* _bucketsSetup
    up,            \* whether the process runs
    faults         \* errors of moray so far

bucketVars == <<schema, toReindex, init, settingUp, reindexing, bucketsSetup>>

BucketNames == {Buckets[i] : i \in DOMAIN Buckets}
Runs == DOMAIN init.runs
NoInit == [runs |-> << >>, status |-> "NOT_STARTED", lastError |-> FALSE]

\* A run waits for its back-off, or works on a bucket
Waiting(process) == [process |-> process, waits |-> TRUE, at |-> 1]
At(i, process, waits) ==
    up /\ init.runs[i].process = process /\ init.runs[i].waits = waits
BucketOf(i) == Buckets[init.runs[i].at]

\* An exception nobody catches, or an 'error' event nobody listens to
Abort ==
    /\ up' = FALSE
    /\ init' = NoInit
    /\ settingUp' = FALSE /\ reindexing' = FALSE /\ bucketsSetup' = FALSE

-----------------------------------------------------------------------------
\* 'connect': start, whose first process backs off before it begins
StartInit ==
    init' = [init EXCEPT !.runs = Append(@, Waiting("setup")),
                         !.status = "STARTED"]

\* setupBuckets and reindexBuckets throw while a call of theirs is under way
SetupBuckets(i) ==
    /\ At(i, "setup", TRUE)
    /\ IF settingUp THEN Abort
       ELSE /\ settingUp' = TRUE
            /\ init' = [init EXCEPT !.runs[i].waits = FALSE]
            /\ UNCHANGED <<up, reindexing, bucketsSetup>>
    /\ UNCHANGED <<schema, toReindex, faults>>

NeedsUpdate(b) == schema[b] \in 1..(NewVersion - 1)
Incompatible(b) == schema[b] \in LostIndexes

\* Mutant: an off-by-one leaves out the last bucket
TrySetupAllButLast(i) ==
    /\ At(i, "setup", FALSE)
    /\ ~Incompatible(BucketOf(i))
    /\ schema' = [schema EXCEPT ![BucketOf(i)] =
                    IF @ < NewVersion THEN NewVersion ELSE @]
    /\ init' = [runs |-> [init.runs EXCEPT ![i] = Waiting("reindex")],
                status |-> "BUCKETS_SETUP_DONE", lastError |-> FALSE]
    /\ settingUp' = FALSE /\ bucketsSetup' = TRUE
    /\ UNCHANGED <<toReindex, reindexing, up, faults>>

TrySetupBucket(i) ==
    /\ At(i, "setup", FALSE)
    /\ ~Incompatible(BucketOf(i))
    /\ schema' = [schema EXCEPT ![BucketOf(i)] =
                    IF @ < NewVersion THEN NewVersion ELSE @]
    /\ toReindex' = [toReindex EXCEPT ![BucketOf(i)] =
                       IF NeedsUpdate(BucketOf(i)) THEN Chunks ELSE @]
    /\ IF init.runs[i].at < Len(Buckets)
       THEN /\ init' = [init EXCEPT !.runs[i].at = @ + 1]
            /\ UNCHANGED <<settingUp, bucketsSetup>>
       ELSE /\ init' = [runs |-> [init.runs EXCEPT ![i] = Waiting("reindex")],
                        status |-> "BUCKETS_SETUP_DONE", lastError |-> FALSE]
            /\ settingUp' = FALSE /\ bucketsSetup' = TRUE
    /\ UNCHANGED <<reindexing, up, faults>>

\* Mutant: the call stays in progress
SetupFailsInProgress(i) ==
    /\ At(i, "setup", FALSE)
    /\ faults < MaxFaults
    /\ faults' = faults + 1
    /\ init' = [init EXCEPT !.runs[i] = Waiting("setup"), !.lastError = TRUE]
    /\ UNCHANGED <<schema, toReindex, settingUp, reindexing, bucketsSetup, up>>

\* A transient error backs off; the others end the process
SetupFails(i) ==
    /\ At(i, "setup", FALSE)
    /\ faults < MaxFaults
    /\ faults' = faults + 1
    /\ settingUp' = FALSE
    /\ init' = [init EXCEPT !.runs[i] = Waiting("setup"), !.lastError = TRUE]
    /\ UNCHANGED <<schema, toReindex, reindexing, bucketsSetup, up>>

InvalidIndexesRemoval(i) ==
    /\ At(i, "setup", FALSE)
    /\ Incompatible(BucketOf(i))
    /\ Abort
    /\ UNCHANGED <<schema, toReindex, faults>>

ReindexBuckets(i) ==
    /\ At(i, "reindex", TRUE)
    /\ IF reindexing THEN Abort
       ELSE /\ reindexing' = TRUE
            /\ init' = [init EXCEPT !.runs[i].waits = FALSE]
            /\ UNCHANGED <<up, settingUp, bucketsSetup>>
    /\ UNCHANGED <<schema, toReindex, faults>>

\* The last call for a bucket is the one that finds no row
ReindexBucket(i) ==
    /\ At(i, "reindex", FALSE)
    /\ \/ /\ toReindex[BucketOf(i)] > 0
          /\ toReindex' = [toReindex EXCEPT ![BucketOf(i)] = @ - 1]
          /\ UNCHANGED init
       \/ /\ toReindex[BucketOf(i)] = 0
          /\ init.runs[i].at < Len(Buckets)
          /\ init' = [init EXCEPT !.runs[i].at = @ + 1]
          /\ UNCHANGED toReindex
    /\ UNCHANGED <<schema, settingUp, reindexing, bucketsSetup, up, faults>>

\* Mutant: done whether or not rows are left
ReindexDoneEarly(i) ==
    /\ At(i, "reindex", FALSE)
    /\ reindexing' = FALSE
    /\ init' = [runs |-> [init.runs EXCEPT ![i] = Waiting("done")],
                status |-> "BUCKETS_REINDEX_DONE", lastError |-> FALSE]
    /\ UNCHANGED <<schema, toReindex, settingUp, bucketsSetup, up, faults>>

\* ... and the initializer emits 'done'
ReindexDone(i) ==
    /\ At(i, "reindex", FALSE)
    /\ toReindex[BucketOf(i)] = 0 /\ init.runs[i].at = Len(Buckets)
    /\ reindexing' = FALSE
    /\ init' = [runs |-> [init.runs EXCEPT ![i] = Waiting("done")],
                status |-> "BUCKETS_REINDEX_DONE", lastError |-> FALSE]
    /\ UNCHANGED <<schema, toReindex, settingUp, bucketsSetup, up, faults>>

\* Errors of reindexing are transient, all of them
ReindexFails(i) ==
    /\ At(i, "reindex", FALSE)
    /\ faults < MaxFaults
    /\ faults' = faults + 1
    /\ reindexing' = FALSE
    /\ init' = [init EXCEPT !.runs[i] = Waiting("reindex"), !.lastError = TRUE]
    /\ UNCHANGED <<schema, toReindex, settingUp, bucketsSetup, up>>

BucketsInit ==
    /\ schema \in [BucketNames -> 0..(NewVersion + 1)]
    /\ toReindex = [b \in BucketNames |-> 0]
    /\ init = NoInit
    /\ settingUp = FALSE /\ reindexing = FALSE /\ bucketsSetup = FALSE
    /\ up = TRUE /\ faults = 0
=============================================================================
