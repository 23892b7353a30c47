--------------------------- MODULE Startup_proofs ---------------------------
(***************************************************************************)
(* What the start of a process promises about the buckets, for any buckets *)
(* and versions and any number of errors, reconnections and restarts.  The *)
(* initializer's runs overlap, and what one of them relies on must outlast *)
(* the others: versions only grow, and rows of a bucket that has the new   *)
(* version are never marked to be reindexed again.                         *)
(***************************************************************************)
EXTENDS Startup, TLAPS

RunType == [process : {"setup", "reindex", "done"}, waits : BOOLEAN,
            at : DOMAIN Buckets]
Statuses == {"NOT_STARTED", "STARTED", "BUCKETS_SETUP_DONE",
             "BUCKETS_REINDEX_DONE"}

BShape ==
    /\ schema \in [BucketNames -> Nat]
    /\ toReindex \in [BucketNames -> Nat]
    /\ bucketsSetup \in BOOLEAN
    /\ init \in [runs : Seq(RunType), status : Statuses, lastError : BOOLEAN]

Updated == \A b \in BucketNames : schema[b] >= NewVersion

\* How far a run has come is true of the buckets
RunOK(run) ==
    /\ run.process \in {"reindex", "done"} => Updated /\ bucketsSetup
    /\ run.process = "setup" =>
           \A n \in 1..(run.at - 1) : schema[Buckets[n]] >= NewVersion
    /\ run.process = "reindex" =>
           \A n \in 1..(run.at - 1) : toReindex[Buckets[n]] = 0
    /\ run.process = "done" => Indexed

StatusOK ==
    init.status \in {"BUCKETS_SETUP_DONE", "BUCKETS_REINDEX_DONE"} =>
        bucketsSetup /\ Updated

MigrationsOK == \A r \in MigrationRuns : Indexed

GoodRuns == {run \in RunType : RunOK(run)}

BInv == BShape /\ init.runs \in Seq(GoodRuns) /\ StatusOK /\ MigrationsOK

\* What steps do to the buckets but for the end of the process
Grows ==
    /\ \A b \in BucketNames : schema'[b] >= schema[b]
    /\ \A b \in BucketNames :
         schema[b] >= NewVersion /\ toReindex[b] = 0 => toReindex'[b] = 0
    /\ bucketsSetup => bucketsSetup'

-----------------------------------------------------------------------------
LEMMA BucketFacts ==
  /\ Len(Buckets) \in Nat \ {0} /\ DOMAIN Buckets = 1..Len(Buckets)
  /\ \A n \in DOMAIN Buckets : Buckets[n] \in BucketNames
  /\ \A b \in BucketNames : \E n \in DOMAIN Buckets : b = Buckets[n]
  /\ NewVersion \in Nat \ {0}
  BY MorayBucketsAssumption DEF BucketNames

LEMMA WaitingType ==
  ASSUME NEW process \in {"setup", "reindex", "done"}
  PROVE  /\ Waiting(process) \in RunType
         /\ Waiting(process).process = process /\ Waiting(process).at = 1
  BY BucketFacts DEF Waiting, RunType

(* What a run has done stays done.                                         *)
LEMMA RunKept ==
  ASSUME BShape, BShape', Grows, NEW run \in RunType, RunOK(run)
  PROVE  RunOK(run)'
<1>1. \A n \in 1..(run.at - 1) : n \in DOMAIN Buckets
  BY BucketFacts DEF RunType
<1>2. \A b \in BucketNames :
        /\ schema[b] \in Nat /\ schema'[b] \in Nat
        /\ schema[b] >= NewVersion => schema'[b] >= NewVersion
  BY BucketFacts DEF BShape, Grows
<1>3. Updated => Updated'
  BY <1>2 DEF Updated
<1>4. Indexed => Indexed'
  BY <1>2 DEF Indexed, Grows
<1>5. ASSUME run.process = "setup", NEW n \in 1..(run.at - 1)
      PROVE  schema'[Buckets[n]] >= NewVersion
  <2>1. n \in DOMAIN Buckets /\ Buckets[n] \in BucketNames
    BY <1>1, BucketFacts
  <2> QED BY <1>2, <1>5, <2>1 DEF RunOK
<1>6. ASSUME run.process = "reindex", NEW n \in 1..(run.at - 1)
      PROVE  toReindex'[Buckets[n]] = 0
  <2>1. n \in DOMAIN Buckets /\ Buckets[n] \in BucketNames
    BY <1>1, BucketFacts
  <2> QED BY <1>6, <2>1 DEF RunOK, Updated, Grows
<1>7. bucketsSetup => bucketsSetup'
  BY DEF Grows
<1> QED BY <1>3, <1>4, <1>5, <1>6, <1>7 DEF RunOK

LEMMA GoodRunsKept ==
  ASSUME BShape, BShape', Grows
  PROVE  /\ GoodRuns \subseteq GoodRuns'
         /\ Seq(GoodRuns) \subseteq Seq(GoodRuns')
         /\ Indexed => Indexed'
<1>1. GoodRuns \subseteq GoodRuns'
  BY RunKept DEF GoodRuns
<1>2. Indexed => Indexed'
  BY BucketFacts DEF Indexed, Grows, BShape
<1> QED BY <1>1, <1>2

(* A run goes on, the others as they are.                                  *)
LEMMA OneRun ==
  ASSUME BInv, BShape', Grows, NEW i \in Runs, NEW run \in RunType,
         init'.runs = [init.runs EXCEPT ![i] = run], RunOK(run)',
         StatusOK', migration' = migration
  PROVE  BInv'
<1>1. init.runs \in Seq(GoodRuns') /\ run \in GoodRuns'
  BY GoodRunsKept DEF BInv, GoodRuns
<1>2. init'.runs \in Seq(GoodRuns')
  <2>1. i \in 1..Len(init.runs)
    BY DEF BInv, Runs
  <2> HIDE DEF GoodRuns
  <2> QED BY <1>1, <2>1
<1>3. MigrationsOK'
  BY GoodRunsKept DEF BInv, MigrationsOK, MigrationRuns
<1> QED BY <1>2, <1>3 DEF BInv

LEMMA Aborted ==
  ASSUME BInv, Abort, UNCHANGED <<schema, toReindex>>, Forget
  PROVE  BInv'
<1>1. init' = NoInit /\ bucketsSetup' = FALSE /\ migration' = << >>
  BY DEF Abort, Forget
<1>2. << >> \in Seq(RunType) /\ DOMAIN << >> = {}
  OBVIOUS
<1>3. BShape'
  BY <1>1, <1>2 DEF BInv, BShape, NoInit, Statuses
<1>4. init'.runs \in Seq(GoodRuns') /\ StatusOK' /\ MigrationsOK'
  BY <1>1, <1>2 DEF NoInit, StatusOK, MigrationsOK, MigrationRuns
<1> QED BY <1>3, <1>4 DEF BInv

(* Nothing happens to the buckets, and data migrations go on if any do.    *)
LEMMA BucketsAlone ==
  ASSUME BInv, UNCHANGED bucketVars,
         \/ migration' = migration \/ migration' = << >>
         \/ \E r \in MigrationRuns : TRUE
  PROVE  BInv'
<1>1. /\ UNCHANGED <<schema, toReindex, bucketsSetup, init>>
  BY DEF bucketVars
<1>2. BShape' /\ StatusOK' /\ (Indexed => Indexed')
  BY <1>1 DEF BInv, BShape, StatusOK, Updated, Indexed
<1>3. Grows
  BY <1>1, BucketFacts DEF BInv, BShape, Grows
<1>4. init'.runs \in Seq(GoodRuns')
  BY <1>1, <1>2, <1>3, GoodRunsKept DEF BInv
<1>5. MigrationsOK'
  BY <1>2 DEF BInv, MigrationsOK, MigrationRuns
<1> QED BY <1>2, <1>4, <1>5 DEF BInv

LEMMA StartKeeps ==
  ASSUME BInv, StartInit, migration' = migration,
         UNCHANGED <<schema, toReindex, bucketsSetup>>
  PROVE  BInv'
<1> DEFINE run == Waiting("setup")
<1>1. run \in RunType /\ run.process = "setup" /\ run.at = 1
  BY WaitingType
<1>2. /\ init'.runs = Append(init.runs, run) /\ init'.status = "STARTED"
      /\ init' \in [runs : Seq(RunType), status : Statuses,
                    lastError : BOOLEAN]
  <2>1. /\ init' = [init EXCEPT !.runs = Append(init.runs, run),
                               !.status = "STARTED"]
        /\ init \in [runs : Seq(RunType), status : Statuses,
                     lastError : BOOLEAN]
    BY DEF StartInit, BInv, BShape
  <2>2. Append(init.runs, run) \in Seq(RunType)
    BY <1>1, <2>1
  <2> HIDE DEF run
  <2> QED BY <2>1, <2>2 DEF Statuses
<1>3. BShape' /\ StatusOK'
  BY <1>2 DEF BInv, BShape, StatusOK
<1>4. Grows
  BY BucketFacts DEF BInv, BShape, Grows
<1>5. RunOK(run)'
  <2>1. 1..(run.at - 1) = {} /\ run.process = "setup"
    BY <1>1
  <2> QED BY <2>1 DEF RunOK
<1>6. init'.runs \in Seq(GoodRuns')
  <2>1. init.runs \in Seq(GoodRuns') /\ run \in GoodRuns'
    BY <1>1, <1>3, <1>4, <1>5, GoodRunsKept DEF BInv, GoodRuns
  <2> HIDE DEF GoodRuns, run
  <2> QED BY <1>2, <2>1
<1>7. MigrationsOK'
  BY DEF BInv, MigrationsOK, MigrationRuns, Indexed
<1> QED BY <1>3, <1>6, <1>7 DEF BInv

(* A step of the initializer.                                              *)
LEMMA InitStepKeeps ==
  ASSUME BInv, NEW i \in Runs, InitStep(i)
  PROVE  BInv'
<1>0. PICK run : run = init.runs[i]
  OBVIOUS
<1>1. /\ init \in [runs : Seq(RunType), status : Statuses,
                    lastError : BOOLEAN]
      /\ run \in RunType /\ RunOK(run) /\ i \in 1..Len(init.runs)
      /\ run.at \in DOMAIN Buckets /\ BucketOf(i) = Buckets[run.at]
      /\ BucketOf(i) \in BucketNames
  <2>1. run \in GoodRuns /\ i \in 1..Len(init.runs)
    BY <1>0 DEF BInv, Runs
  <2> QED BY <1>0, <2>1, BucketFacts
       DEF BInv, BShape, GoodRuns, BucketOf, RunType
<1>R. ASSUME NEW r \in RunType
      PROVE  [init.runs EXCEPT ![i] = r] \in Seq(RunType)
  BY <1>1
<1>2. CASE ~up'
  <2>1. Abort /\ Forget /\ UNCHANGED <<schema, toReindex>>
    BY <1>2, <1>1 DEF InitStep, SetupBuckets, TrySetupBucket,
       InvalidIndexesRemoval, ReindexBuckets, ReindexBucket, At
  <2> QED BY <2>1, Aborted
<1>3. ASSUME up', SetupBuckets(i) \/ ReindexBuckets(i) PROVE BInv'
  <2> DEFINE next == [run EXCEPT !.waits = FALSE]
  <2>1. /\ UNCHANGED <<schema, toReindex, bucketsSetup, migration>>
        /\ init' = [init EXCEPT !.runs = [init.runs EXCEPT ![i] = next]]
    BY <1>0, <1>1, <1>3 DEF InitStep, SetupBuckets, ReindexBuckets, Abort,
       migrationVars
  <2>2. next \in RunType /\ next.process = run.process /\ next.at = run.at
    BY <1>1 DEF RunType
  <2>3. RunOK(next)'
    BY <1>0, <1>1, <2>1, <2>2 DEF RunOK, Updated, Indexed
  <2> HIDE DEF next
  <2>4. /\ init'.runs = [init.runs EXCEPT ![i] = next]
        /\ init'.status = init.status
        /\ BShape'
    BY <1>R, <1>0, <1>1, <2>1, <2>2 DEF BInv, BShape
  <2>5. Grows
    BY <2>1, BucketFacts DEF BInv, BShape, Grows
  <2>6. StatusOK'
    BY <2>1, <2>4 DEF BInv, StatusOK, Updated
  <2> QED BY <2>1, <2>2, <2>3, <2>4, <2>5, <2>6, OneRun
<1>4. ASSUME up', TrySetupBucket(i) PROVE BInv'
  <2> DEFINE b == BucketOf(i)
  <2>1. /\ run.process = "setup" /\ UNCHANGED <<migration, reindexing>>
        /\ schema' = [schema EXCEPT ![b] =
                        IF schema[b] < NewVersion THEN NewVersion
                                                  ELSE schema[b]]
        /\ toReindex' = [toReindex EXCEPT ![b] =
                           IF NeedsUpdate(b) THEN Chunks ELSE toReindex[b]]
    BY <1>0, <1>4 DEF TrySetupBucket, InitStep, At, migrationVars
  <2>2. /\ schema' \in [BucketNames -> Nat]
        /\ toReindex' \in [BucketNames -> Nat]
        /\ \A c \in BucketNames : schema'[c] >= schema[c]
        /\ \A c \in BucketNames :
             schema[c] >= NewVersion /\ toReindex[c] = 0 => toReindex'[c] = 0
        /\ schema'[b] >= NewVersion
    <3>1. /\ schema \in [BucketNames -> Nat] /\ toReindex \in [BucketNames -> Nat]
          /\ b \in BucketNames /\ NewVersion \in Nat /\ Chunks \in Nat
      BY <1>0, <1>1, <2>1, BucketFacts, MorayBucketsAssumption
         DEF BInv, BShape
    <3>2. /\ schema' \in [BucketNames -> Nat]
          /\ \A c \in BucketNames : schema'[c] >= schema[c]
          /\ schema'[b] >= NewVersion
      BY <2>1, <3>1
    <3>3. /\ toReindex' \in [BucketNames -> Nat]
          /\ \A c \in BucketNames : c # b => toReindex'[c] = toReindex[c]
      BY <2>1, <3>1
    <3>4. schema[b] >= NewVersion => toReindex'[b] = toReindex[b]
      BY <2>1, <3>1 DEF NeedsUpdate
    <3> QED BY <3>2, <3>3, <3>4
  <2>3. \A n \in 1..run.at : schema'[Buckets[n]] >= NewVersion
    <3> SUFFICES ASSUME NEW n \in 1..run.at
                 PROVE  schema'[Buckets[n]] >= NewVersion
      OBVIOUS
    <3>1. n \in DOMAIN Buckets /\ Buckets[n] \in BucketNames
      BY <1>0, <1>1, BucketFacts
    <3>2. CASE n = run.at
      BY <1>0, <1>1, <2>2, <3>2
    <3>3. CASE n # run.at
      <4>1. n \in 1..(run.at - 1)
        BY <3>3, <1>1, BucketFacts
      <4>2. schema[Buckets[n]] >= NewVersion
        BY <4>1, <1>1, <2>1 DEF RunOK
      <4> QED BY <4>2, <3>1, <2>2, BucketFacts DEF BInv, BShape
    <3> QED BY <3>2, <3>3
  <2>4. CASE run.at < Len(Buckets)
    <3> DEFINE next == [run EXCEPT !.at = run.at + 1]
    <3>1. /\ init' = [init EXCEPT !.runs = [init.runs EXCEPT ![i] = next]]
          /\ UNCHANGED bucketsSetup
      BY <1>0, <1>1, <1>4, <2>4 DEF TrySetupBucket
    <3>2. next \in RunType /\ next.process = "setup"
          /\ next.at - 1 = run.at
      <4>1. run.at + 1 \in DOMAIN Buckets /\ run.at \in Nat
        BY <1>1, <2>4, BucketFacts
      <4>2. next \in RunType /\ next.at = run.at + 1
            /\ next.process = run.process
        BY <1>1, <4>1 DEF RunType
      <4> QED BY <2>1, <4>1, <4>2
    <3>3. RunOK(next)'
      BY <2>3, <3>2 DEF RunOK
    <3> HIDE DEF next
    <3>4. /\ init'.runs = [init.runs EXCEPT ![i] = next]
          /\ init'.status = init.status
          /\ BShape'
      BY <1>R, <1>0, <1>1, <2>2, <3>1, <3>2 DEF BInv, BShape
    <3>5. Grows
      BY <2>2, <3>1 DEF Grows
    <3>6. StatusOK'
      BY <2>2, <3>1, <3>4, BucketFacts DEF BInv, BShape, StatusOK, Updated
    <3> QED BY <2>1, <3>2, <3>3, <3>4, <3>5, <3>6, OneRun
  <2>5. CASE run.at >= Len(Buckets)
    <3> DEFINE next == Waiting("reindex")
    <3>1. /\ init' = [runs |-> [init.runs EXCEPT ![i] = next],
                      status |-> "BUCKETS_SETUP_DONE", lastError |-> FALSE]
          /\ bucketsSetup' = TRUE
      BY <1>0, <1>1, <1>4, <2>5, BucketFacts DEF TrySetupBucket
    <3>2. next \in RunType /\ next.process = "reindex" /\ next.at = 1
      BY WaitingType
    <3>3. Updated'
      BY <1>0, <1>1, <2>3, <2>5, BucketFacts DEF Updated
    <3> HIDE DEF next
    <3>4. RunOK(next)'
      <4>1. 1..(next.at - 1) = {}
        BY <3>2
      <4> QED BY <3>1, <3>2, <3>3, <4>1 DEF RunOK
    <3>5. /\ init'.runs = [init.runs EXCEPT ![i] = next]
          /\ BShape'
      BY <1>R, <1>0, <1>1, <2>2, <3>1, <3>2 DEF BInv, BShape, Statuses
    <3>6. Grows
      BY <2>2, <3>1 DEF Grows
    <3>7. StatusOK'
      BY <3>1, <3>3 DEF StatusOK
    <3> QED BY <2>1, <3>2, <3>4, <3>5, <3>6, <3>7, OneRun
  <2> QED BY <1>0, <1>1, <2>4, <2>5, BucketFacts
<1>5. ASSUME up', ReindexBucket(i) PROVE BInv'
  <2> DEFINE b == BucketOf(i)
  <2>1. /\ run.process = "reindex"
        /\ UNCHANGED <<migration, schema, bucketsSetup>>
    BY <1>0, <1>5 DEF ReindexBucket, InitStep, At, migrationVars
  <2>2. CASE /\ toReindex[b] > 0 /\ UNCHANGED init
             /\ toReindex' = [toReindex EXCEPT ![b] = toReindex[b] - 1]
    <3>1. /\ toReindex' \in [BucketNames -> Nat]
          /\ \A c \in BucketNames : toReindex[c] = 0 => toReindex'[c] = 0
      BY <1>0, <1>1, <2>2 DEF BInv, BShape
    <3>2. BShape' /\ Grows
      BY <2>1, <2>2, <3>1, BucketFacts DEF BInv, BShape, Grows
    <3>3. RunOK(run)'
      BY <1>0, <1>1, <3>2, RunKept DEF BInv
    <3>4. init'.runs = [init.runs EXCEPT ![i] = run]
      BY <1>0, <1>1, <2>2
    <3>5. StatusOK'
      BY <2>1, <2>2 DEF BInv, StatusOK, Updated
    <3> QED BY <1>0, <1>1, <2>1, <3>2, <3>3, <3>4, <3>5, OneRun
  <2>3. CASE /\ toReindex[b] = 0 /\ run.at < Len(Buckets)
             /\ UNCHANGED toReindex
             /\ init' = [init EXCEPT !.runs[i].at = run.at + 1]
    <3> DEFINE next == [run EXCEPT !.at = run.at + 1]
    <3>1. init' = [init EXCEPT !.runs = [init.runs EXCEPT ![i] = next]]
      BY <1>0, <1>1, <2>3
    <3>2. next \in RunType /\ next.process = "reindex"
          /\ next.at - 1 = run.at
      <4>1. run.at + 1 \in DOMAIN Buckets /\ run.at \in Nat
        BY <1>1, <2>3, BucketFacts
      <4>2. next \in RunType /\ next.at = run.at + 1
            /\ next.process = run.process
        BY <1>1, <4>1 DEF RunType
      <4> QED BY <2>1, <4>1, <4>2
    <3>3. \A n \in 1..run.at : toReindex'[Buckets[n]] = 0
      BY <1>0, <1>1, <2>1, <2>3, BucketFacts DEF RunOK
    <3>4. RunOK(next)'
      BY <1>0, <1>1, <2>1, <3>2, <3>3 DEF RunOK, Updated
    <3> HIDE DEF next
    <3>5. /\ init'.runs = [init.runs EXCEPT ![i] = next]
          /\ init'.status = init.status
          /\ BShape'
      BY ZenonT(60), <1>R, <1>0, <1>1, <2>1, <2>3, <3>1, <3>2 DEF BInv, BShape
    <3>6. Grows
      BY <2>1, <2>3, BucketFacts DEF BInv, BShape, Grows
    <3>7. StatusOK'
      BY <2>1, <3>5 DEF BInv, StatusOK, Updated
    <3> QED BY <2>1, <3>2, <3>4, <3>5, <3>6, <3>7, OneRun
  <2> QED BY <1>0, <1>5, <2>2, <2>3 DEF ReindexBucket
<1>6. ASSUME up', InvalidIndexesRemoval(i) PROVE BInv'
  BY <1>6 DEF InvalidIndexesRemoval, Abort
<1> QED BY <1>2, <1>3, <1>4, <1>5, <1>6 DEF InitStep

(* An error sends a run back to its back-off, 'done' on to the migrations. *)
LEMMA InitEndsKeep ==
  ASSUME BInv, NEW i \in Runs, InitFails(i) \/ InitDone(i)
  PROVE  BInv'
<1>0. PICK run : run = init.runs[i]
  OBVIOUS
<1>1. /\ init \in [runs : Seq(RunType), status : Statuses,
                    lastError : BOOLEAN]
      /\ run \in RunType /\ RunOK(run) /\ i \in 1..Len(init.runs)
      /\ run.at \in DOMAIN Buckets /\ BucketOf(i) = Buckets[run.at]
  <2>1. run \in GoodRuns /\ i \in 1..Len(init.runs)
    BY <1>0 DEF BInv, Runs
  <2> QED BY <1>0, <2>1 DEF BInv, BShape, GoodRuns, BucketOf, RunType
<1>R. ASSUME NEW r \in RunType
      PROVE  [init.runs EXCEPT ![i] = r] \in Seq(RunType)
  BY <1>1
<1>2. UNCHANGED <<schema, toReindex, bucketsSetup>>
  BY DEF InitFails, InitDone, SetupFails, ReindexFails, ReindexDone
<1>3. Grows
  BY <1>2, BucketFacts DEF BInv, BShape, Grows
<1>4. ASSUME NEW process \in {"setup", "reindex"}, run.process = process,
             init' = [init EXCEPT !.runs = [@ EXCEPT ![i] = Waiting(process)],
                                  !.lastError = TRUE],
             migration' = migration
      PROVE  BInv'
  <2> DEFINE next == Waiting(process)
  <2>1. next \in RunType /\ next.process = process /\ next.at = 1
    BY WaitingType
  <2>2. [init.runs EXCEPT ![i] = next] \in Seq(RunType)
    BY <2>1, <1>R
  <2>3. init' = [init EXCEPT !.runs = [init.runs EXCEPT ![i] = next],
                             !.lastError = TRUE]
    BY <1>4
  <2> HIDE DEF next
  <2>4. /\ init'.runs = [init.runs EXCEPT ![i] = next]
        /\ init'.status = init.status
        /\ BShape'
    BY <1>1, <1>2, <2>2, <2>3 DEF BInv, BShape
  <2>5. RunOK(next)'
    <3>1. 1..(next.at - 1) = {}
      BY <2>1
    <3> QED BY <1>1, <1>2, <1>4, <2>1, <3>1 DEF RunOK, Updated
  <2>6. StatusOK'
    BY <1>2, <2>4 DEF BInv, StatusOK, Updated
  <2> QED BY <1>3, <1>4, <2>1, <2>4, <2>5, <2>6, OneRun
<1>5. CASE InitFails(i)
  <2>1. migration' = migration
    BY <1>5 DEF InitFails, migrationVars
  <2>2. CASE SetupFails(i)
    BY <1>0, <1>4, <2>1, <2>2 DEF SetupFails, At
  <2>3. CASE ReindexFails(i)
    BY <1>0, <1>4, <2>1, <2>3 DEF ReindexFails, At
  <2> QED BY <1>5, <2>2, <2>3 DEF InitFails
<1>6. CASE InitDone(i)
  <2> DEFINE next == Waiting("done")
  <2>1. next \in RunType /\ next.process = "done" /\ next.at = 1
    BY WaitingType
  <2>2. init' = [runs |-> [init.runs EXCEPT ![i] = next],
                 status |-> "BUCKETS_REINDEX_DONE", lastError |-> FALSE]
    BY <1>6 DEF InitDone, ReindexDone
  <2>3. [init.runs EXCEPT ![i] = next] \in Seq(RunType)
    BY <2>1, <1>R
  <2> HIDE DEF next
  <2>4. /\ init'.runs = [init.runs EXCEPT ![i] = next]
        /\ BShape'
    BY <1>1, <1>2, <2>2, <2>3 DEF BInv, BShape, Statuses
  <2>5. Updated /\ bucketsSetup /\ Indexed
    <3>1. /\ run.process = "reindex" /\ run.at = Len(Buckets)
          /\ toReindex[Buckets[run.at]] = 0
      BY <1>0, <1>1, <1>6 DEF InitDone, ReindexDone, At
    <3>2. \A n \in DOMAIN Buckets : toReindex[Buckets[n]] = 0
      <4>1. \A n \in DOMAIN Buckets : n = run.at \/ n \in 1..(run.at - 1)
        BY <3>1, BucketFacts
      <4> QED BY <1>1, <3>1, <4>1 DEF RunOK
    <3>3. Updated /\ bucketsSetup
      BY <1>1, <3>1 DEF RunOK
    <3> QED BY <3>2, <3>3, BucketFacts DEF Updated, Indexed
  <2>6. Updated' /\ bucketsSetup' /\ Indexed'
    BY <1>2, <2>5 DEF Updated, Indexed
  <2>7. RunOK(next)' /\ StatusOK' /\ MigrationsOK'
    BY <2>1, <2>6 DEF RunOK, StatusOK, MigrationsOK
  <2>8. init'.runs \in Seq(GoodRuns')
    <3>1. init.runs \in Seq(GoodRuns') /\ next \in GoodRuns'
      BY <1>3, <2>1, <2>4, <2>7, GoodRunsKept DEF BInv, GoodRuns
    <3> HIDE DEF GoodRuns
    <3> QED BY <1>1, <2>4, <3>1
  <2> QED BY <2>4, <2>7, <2>8 DEF BInv
<1> QED BY <1>5, <1>6

LEMMA InitBInv == Init => BInv
<1> SUFFICES ASSUME Init PROVE BInv
  OBVIOUS
<1>1. << >> \in Seq(RunType) /\ << >> \in Seq(GoodRuns) /\ DOMAIN << >> = {}
  OBVIOUS
<1>2. \A n \in 0..(NewVersion + 1) : n \in Nat
  BY BucketFacts
<1>3. BShape
  BY <1>1, <1>2 DEF Init, BucketsInit, BShape, NoInit, Statuses
<1> QED
  BY <1>1, <1>3 DEF Init, BucketsInit, MigrationsInit, BInv, NoInit, StatusOK,
     MigrationsOK, MigrationRuns

LEMMA StepBInv == BInv /\ [Next]_vars => BInv'
<1> SUFFICES ASSUME BInv, [Next]_vars PROVE BInv'
  OBVIOUS
<1>1. CASE Connect \/ Reconnect
  BY <1>1, StartKeeps DEF Connect, Reconnect, migrationVars
<1>2. CASE \E i \in Runs : InitStep(i) \/ InitFails(i) \/ InitDone(i)
  BY <1>2, InitStepKeeps, InitEndsKeep
<1>3. CASE \E r \in MigrationRuns : MigrationStep(r) \/ MigrationFails(r)
  BY <1>3, BucketsAlone DEF MigrationStep, MigrationFails
<1>4. CASE \E r \in MigrationRuns : MigrationAborts(r)
  BY <1>4, Aborted DEF MigrationAborts
<1>5. CASE Restart \/ \E m \in Models, k \in Keys : PutObject(m, k)
  BY <1>5, BucketsAlone DEF Restart, PutObject, migrationVars
<1>6. CASE UNCHANGED vars
  BY <1>6, BucketsAlone DEF vars, bucketVars, migrationVars
<1> QED BY <1>1, <1>2, <1>3, <1>4, <1>5, <1>6 DEF Next

(* /ping says that the process is healthy only when every bucket has the   *)
(* version its endpoints rely on, though another run of the initializer    *)
(* may just be setting them up.                                            *)
THEOREM HealthyAsPinged == Spec => []HealthyIsSetUp
<1>1. BInv => HealthyIsSetUp
  BY DEF BInv, StatusOK, HealthyIsSetUp, Healthy, Updated
<1> QED BY <1>1, InitBInv, StepBInv, PTL DEF Spec

LEMMA WritesCounted == Spec => [](writes \in Nat)
<1>1. Init => writes \in Nat
  BY DEF Init
<1>2. writes \in Nat /\ [Next]_vars => (writes \in Nat)'
  BY DEF Next, Connect, Reconnect, Restart, InitStep, InitFails, InitDone,
     MigrationStep, MigrationFails, MigrationAborts, PutObject, vars
<1> QED BY <1>1, <1>2, PTL DEF Spec

LEMMA StepIndexed ==
  BInv /\ writes \in Nat /\ [Next]_vars =>
      [(record' # record /\ writes' = writes) => Indexed]_vars
<1> SUFFICES ASSUME BInv, writes \in Nat, Next,
                    record' # record, writes' = writes
             PROVE  Indexed
  OBVIOUS
<1>1. CASE \E r \in MigrationRuns : TRUE
  BY <1>1 DEF BInv, MigrationsOK
<1>2. CASE ~\E r \in MigrationRuns : TRUE
  <2>1. \A m \in Models, k \in Keys : ~PutObject(m, k)
    BY DEF PutObject
  <2> QED
    BY <1>2, <2>1 DEF Next, Connect, Reconnect, Restart, InitStep, InitFails,
       InitDone, migrationVars, vars
<1> QED BY <1>1, <1>2

(* Data migrations write when the buckets are updated and reindexed only,  *)
(* and no other run of the initializer makes that untrue again.            *)
THEOREM MigratesWhenIndexed == Spec => MigratesIndexed
<1>1. Spec => []BInv
  BY InitBInv, StepBInv, PTL DEF Spec
<1> QED BY <1>1, WritesCounted, StepIndexed, PTL DEF Spec, MigratesIndexed

-----------------------------------------------------------------------------
(***************************************************************************)
(* What the data migrations of a process promise beside its requests, for  *)
(* any models, records and versions, any chunk size and any number of      *)
(* controllers at work.  They rest on etags: what was found is still what  *)
(* is there if the etag is, so that versions only grow and values stay.    *)
(* With the flags of the buckets, that makes the type of the whole state.  *)
(***************************************************************************)

Record == [version : 0..DataVersion, value : Nat, etag : Nat]
Phases == {"backoff", "find", "put", "done", "failed", "refused", "lost"}
Founds == {<< >>} \cup UNION {[S -> Record] : S \in SUBSET Keys}
Works == [phase : Phases, version : 1..DataVersion, found : Founds]

DShape ==
    /\ record \in [Models -> [Keys -> Record]]
    /\ completed \in [Models -> 0..DataVersion]
    /\ writes \in Nat

\* All records are at the version before, and what was found at most there
WorkOK(w, m) ==
    /\ w.phase \in {"find", "put"} =>
           \A k \in Keys : record[m][k].version >= w.version - 1
    /\ w.phase = "put" =>
           \A k \in Keys \cap DOMAIN w.found :
               /\ w.found[k] \in Record
               /\ w.found[k].version <= w.version
               /\ w.found[k].etag <= record[m][k].etag
               /\ w.found[k].etag = record[m][k].etag =>
                      w.found[k] = record[m][k]

\* The runs that are under way
GoodMigrations == {f \in [Models -> Works] : \A m \in Models : WorkOK(f[m], m)}

CompletedOK ==
    \A m \in Models, k \in Keys : record[m][k].version >= completed[m]

DInv == DShape /\ migration \in Seq(GoodMigrations) /\ CompletedOK

\* What steps do to the records
Renews ==
    \A m \in Models, k \in Keys :
        /\ record'[m][k].version >= record[m][k].version
        /\ record'[m][k].etag >= record[m][k].etag
        /\ record'[m][k].etag = record[m][k].etag =>
               record'[m][k] = record[m][k]

-----------------------------------------------------------------------------
LEMMA RecordFacts ==
  ASSUME DShape, NEW m \in Models, NEW k \in Keys
  PROVE  /\ record[m][k] \in Record
         /\ record[m][k].version \in 0..DataVersion
         /\ record[m][k].value \in Nat /\ record[m][k].etag \in Nat
         /\ DataVersion \in Nat \ {0}
  BY DataMigrationsAssumption DEF DShape, Record

LEMMA WorkKept ==
  ASSUME DShape, DShape', Renews,
         NEW m \in Models, NEW w \in Works, WorkOK(w, m)
  PROVE  WorkOK(w, m)'
<1>1. w.version \in 1..DataVersion
  BY DEF Works
<1>2. ASSUME w.phase \in {"find", "put"}, NEW k \in Keys
      PROVE  record'[m][k].version >= w.version - 1
  <2>1. record[m][k].version >= w.version - 1
    BY <1>2 DEF WorkOK
  <2>2. record'[m][k].version >= record[m][k].version
    BY DEF Renews
  <2>3. record[m][k].version \in Nat /\ record'[m][k].version \in Nat
    BY DataMigrationsAssumption DEF DShape, Record
  <2> QED BY <1>1, <2>1, <2>2, <2>3, DataMigrationsAssumption
<1>3. ASSUME w.phase = "put", NEW k \in Keys \cap DOMAIN w.found
      PROVE  /\ w.found[k] \in Record
             /\ w.found[k].version <= w.version
             /\ w.found[k].etag <= record'[m][k].etag
             /\ w.found[k].etag = record'[m][k].etag =>
                    w.found[k] = record'[m][k]
  <2>1. /\ w.found[k] \in Record /\ w.found[k].version <= w.version
        /\ w.found[k].etag <= record[m][k].etag
        /\ w.found[k].etag = record[m][k].etag => w.found[k] = record[m][k]
    BY <1>3 DEF WorkOK
  <2>2. /\ record'[m][k].etag >= record[m][k].etag
        /\ record'[m][k].etag = record[m][k].etag =>
               record'[m][k] = record[m][k]
    BY DEF Renews
  <2>3. /\ w.found[k].etag \in Nat
        /\ record[m][k].etag \in Nat /\ record'[m][k].etag \in Nat
    BY <2>1 DEF DShape, Record
  <2>4. w.found[k].etag = record'[m][k].etag =>
            w.found[k].etag = record[m][k].etag
    BY <2>1, <2>2, <2>3
  <2> QED BY <2>1, <2>2, <2>3, <2>4
<1> QED BY <1>2, <1>3 DEF WorkOK

LEMMA RunsKept ==
  ASSUME DShape, DShape', Renews
  PROVE  /\ GoodMigrations \subseteq GoodMigrations'
         /\ Seq(GoodMigrations) \subseteq Seq(GoodMigrations')
<1>1. GoodMigrations \subseteq GoodMigrations'
  BY WorkKept DEF GoodMigrations
<1> QED BY <1>1

(* What is there stays as it is.                                           *)
LEMMA RecordsAlone ==
  ASSUME DShape, record' = record, completed' \in [Models -> 0..DataVersion],
         writes' = writes
  PROVE  DShape' /\ Renews
<1>1. DShape'
  BY DEF DShape
<1> QED BY <1>1, RecordFacts DEF Renews

(* One model's work in a run goes on.                                      *)
LEMMA WorkGoesOn ==
  ASSUME DInv, DShape', Renews, NEW r \in MigrationRuns, NEW m \in Models,
         NEW w \in Works, migration' = [migration EXCEPT ![r][m] = w],
         WorkOK(w, m)'
  PROVE  migration' \in Seq(GoodMigrations')
<1>0. PICK old : old = migration[r]
  OBVIOUS
<1>1. old \in GoodMigrations /\ r \in 1..Len(migration)
  BY <1>0 DEF DInv, MigrationRuns
<1> DEFINE f == [old EXCEPT ![m] = w]
<1>2. f \in [Models -> Works]
  BY <1>1 DEF GoodMigrations
<1>3. \A n \in Models : WorkOK(f[n], n)'
  <2> SUFFICES ASSUME NEW n \in Models PROVE WorkOK(f[n], n)'
    OBVIOUS
  <2>1. CASE n = m
    <3>1. f[n] = w
      BY <1>1, <2>1 DEF GoodMigrations
    <3> QED BY <2>1, <3>1
  <2>2. CASE n # m
    <3>1. f[n] = old[n] /\ old[n] \in Works /\ WorkOK(old[n], n)
      BY <1>1, <2>2 DEF GoodMigrations
    <3>2. WorkOK(old[n], n)'
      BY <3>1, WorkKept DEF DInv
    <3> QED BY <3>1, <3>2
  <2> QED BY <2>1, <2>2
<1>4. f \in GoodMigrations'
  BY <1>2, <1>3 DEF GoodMigrations
<1>5. migration' = [migration EXCEPT ![r] = f]
  BY <1>0
<1>6. migration \in Seq(GoodMigrations')
  BY RunsKept DEF DInv
<1> HIDE DEF f
<1> QED
  <2> HIDE DEF GoodMigrations
  <2> QED BY <1>1, <1>4, <1>5, <1>6

LEMMA WorkType ==
  ASSUME NEW phase \in Phases, NEW version \in 1..DataVersion,
         NEW found \in Founds
  PROVE  /\ Work(phase, version, found) \in Works
         /\ Work(phase, version, found).phase = phase
         /\ Work(phase, version, found).version = version
         /\ Work(phase, version, found).found = found
  BY DEF Work, Works

LEMMA NothingFound ==
  << >> \in Founds /\ (\A k \in Keys : k \notin DOMAIN << >>)
  /\ DataVersion \in Nat \ {0} /\ 1 \in 1..DataVersion
  BY DataMigrationsAssumption DEF Founds

(* A model finds records, or that all of them are at the version.          *)
LEMMA FindKeeps ==
  ASSUME DInv, NEW r \in MigrationRuns, NEW m \in Models,
         FindRecordsToMigrate(r, m), writes' = writes
  PROVE  DInv'
<1>0. PICK old : old = migration[r][m]
  OBVIOUS
<1>1. old \in Works /\ WorkOK(old, m) /\ old.phase = "find"
  BY <1>0 DEF DInv, MigrationRuns, GoodMigrations, FindRecordsToMigrate, In
<1>2. /\ old.version \in 1..DataVersion /\ DataVersion \in Nat \ {0}
      /\ \A k \in Keys : record[m][k].version >= old.version - 1
  BY <1>1, DataMigrationsAssumption DEF Works, WorkOK
<1>3. record' = record /\ completed' \in [Models -> 0..DataVersion]
  <2>1. /\ record' = record
        /\ completed' \in {completed, [completed EXCEPT ![m] = old.version]}
    BY <1>0 DEF FindRecordsToMigrate
  <2> QED BY <1>2, <2>1 DEF DInv, DShape
<1>4. DShape' /\ Renews
  BY <1>3, RecordsAlone DEF DInv
<1>5. ASSUME NEW chunk \in SUBSET ToMigrate(m, old.version),
             migration' = [migration EXCEPT ![r][m] =
                 Work("put", old.version, [k \in chunk |-> record[m][k]])],
             UNCHANGED completed
      PROVE  DInv'
  <2>1. chunk \in SUBSET Keys
    BY DEF ToMigrate
  <2>2. PICK found : found = [k \in chunk |-> record[m][k]]
    OBVIOUS
  <2>3. found \in [chunk -> Record]
    BY <2>1, <2>2, RecordFacts DEF DInv
  <2>4. found \in Founds
    BY <2>1, <2>3 DEF Founds
  <2> DEFINE w == Work("put", old.version, found)
  <2>5. /\ w \in Works /\ w.phase = "put" /\ w.version = old.version
        /\ w.found = found
    BY <1>2, <2>4, WorkType DEF Phases
  <2>6. migration' = [migration EXCEPT ![r][m] = w]
    BY <1>5, <2>2
  <2> HIDE DEF w
  <2>7. ASSUME NEW k \in Keys \cap DOMAIN w.found
        PROVE  /\ w.found[k] = record[m][k] /\ w.found[k] \in Record
               /\ w.found[k].version <= w.version
    <3>1. k \in chunk /\ w.found[k] = record[m][k]
      BY <2>2, <2>3, <2>5
    <3>2. record[m][k].version \in {0, old.version - 1}
      BY <3>1 DEF ToMigrate
    <3> QED BY <1>2, <2>5, <3>1, <3>2, RecordFacts DEF DInv
  <2>8. \A k \in Keys : record[m][k].etag <= record[m][k].etag
    BY RecordFacts DEF DInv
  <2>9. WorkOK(w, m)'
    BY <1>2, <1>3, <2>5, <2>7, <2>8 DEF WorkOK
  <2> QED BY <1>3, <1>4, <1>5, <2>5, <2>6, <2>9, WorkGoesOn
        DEF DInv, CompletedOK
<1>6. ASSUME ToMigrate(m, old.version) = {},
             completed' = [completed EXCEPT ![m] = old.version],
             migration' = [migration EXCEPT ![r][m] =
                 IF old.version < DataVersion
                 THEN Work("find", old.version + 1, << >>)
                 ELSE Work("done", old.version, << >>)]
      PROVE  DInv'
  <2>1. \A k \in Keys : record[m][k].version >= old.version
    <3> SUFFICES ASSUME NEW k \in Keys
                 PROVE  record[m][k].version >= old.version
      OBVIOUS
    <3>1. record[m][k].version # old.version - 1
      BY <1>6 DEF ToMigrate
    <3>2. record[m][k].version \in 0..DataVersion
      BY RecordFacts DEF DInv
    <3> QED BY <1>2, <3>1, <3>2
  <2> DEFINE w == IF old.version < DataVersion
                  THEN Work("find", old.version + 1, << >>)
                  ELSE Work("done", old.version, << >>)
  <2>2. /\ w \in Works /\ w.phase # "put"
        /\ w.phase = "find" => w.version = old.version + 1
    BY <1>2, WorkType, NothingFound DEF Phases
  <2>3. migration' = [migration EXCEPT ![r][m] = w]
    BY <1>6
  <2> HIDE DEF w
  <2>4. WorkOK(w, m)'
    <3>1. w.phase = "find" => w.version - 1 = old.version
      BY <1>2, <2>2
    <3> QED BY <1>3, <2>1, <2>2, <3>1 DEF WorkOK
  <2>5. CompletedOK'
    BY <1>3, <1>6, <2>1 DEF DInv, DShape, CompletedOK
  <2>6. migration' \in Seq(GoodMigrations')
    BY <1>4, <2>2, <2>3, <2>4, WorkGoesOn
  <2> QED BY <1>4, <2>5, <2>6 DEF DInv
<1>7. CASE \E chunk \in SUBSET ToMigrate(m, old.version) :
             /\ migration' = [migration EXCEPT ![r][m] =
                   Work("put", old.version, [k \in chunk |-> record[m][k]])]
             /\ UNCHANGED completed
  BY <1>5, <1>7
<1> QED BY <1>0, <1>6, <1>7 DEF FindRecordsToMigrate, kSubset

(* A batch is put, or conflicts with what a request put meanwhile.         *)
LEMMA PutKeeps ==
  ASSUME DInv, NEW r \in MigrationRuns, NEW m \in Models,
         PutBatch(r, m), writes' = writes
  PROVE  /\ DInv'
         /\ \A n \in Models, k \in Keys :
              record'[n][k].value = record[n][k].value
<1>0. PICK old : old = migration[r][m]
  OBVIOUS
<1>1. old \in Works /\ WorkOK(old, m) /\ old.phase = "put"
  BY <1>0 DEF DInv, MigrationRuns, GoodMigrations, PutBatch, In
<1>2. /\ old.version \in 1..DataVersion /\ DataVersion \in Nat \ {0}
      /\ \A k \in Keys : record[m][k].version >= old.version - 1
  BY <1>1, DataMigrationsAssumption DEF Works, WorkOK
<1>3. ASSUME NEW phase \in {"find", "failed"}, DShape', Renews,
             migration' = [migration EXCEPT ![r][m] =
                             Work(phase, old.version, << >>)]
      PROVE  DInv'
  <2> DEFINE w == Work(phase, old.version, << >>)
  <2>1. w \in Works /\ w.phase = phase /\ w.version = old.version
    BY <1>2, WorkType, NothingFound DEF Phases
  <2> HIDE DEF w
  <2>2. \A k \in Keys : record'[m][k].version >= old.version - 1
    <3> SUFFICES ASSUME NEW k \in Keys
                 PROVE  record'[m][k].version >= old.version - 1
      OBVIOUS
    <3>1. record'[m][k].version >= record[m][k].version
      BY <1>3 DEF Renews
    <3>2. record[m][k].version \in Nat /\ record'[m][k].version \in Nat
      BY <1>2, <1>3 DEF DInv, DShape, Record
    <3> QED BY <1>2, <3>1, <3>2
  <2>3. WorkOK(w, m)'
    BY <2>1, <2>2 DEF WorkOK
  <2>4. migration' = [migration EXCEPT ![r][m] = w]
    BY <1>3 DEF w
  <2>5. CompletedOK'
    <3>1. completed' = completed
      BY DEF PutBatch
    <3> SUFFICES ASSUME NEW n \in Models, NEW k \in Keys
                 PROVE  record'[n][k].version >= completed[n]
      BY <3>1 DEF CompletedOK
    <3>2. /\ record'[n][k].version >= record[n][k].version
          /\ record[n][k].version >= completed[n]
      BY <1>3 DEF Renews, DInv, CompletedOK
    <3>3. /\ record[n][k].version \in Nat /\ record'[n][k].version \in Nat
          /\ completed[n] \in Nat
      BY <1>2, <1>3 DEF DInv, DShape, Record
    <3> QED BY <3>2, <3>3
  <2> QED BY <1>3, <2>1, <2>3, <2>4, <2>5, WorkGoesOn DEF DInv
<1>4. CASE \A k \in DOMAIN old.found : record[m][k].etag = old.found[k].etag
  <2> DEFINE new == [k \in Keys |->
                       IF k \in DOMAIN old.found
                       THEN [version |-> old.version,
                             value |-> old.found[k].value,
                             etag |-> record[m][k].etag + 1]
                       ELSE record[m][k]]
  <2>1. /\ record' = [record EXCEPT ![m] = new]
        /\ migration' = [migration EXCEPT ![r][m] =
                            Work("find", old.version, << >>)]
        /\ completed' = completed
    BY <1>0, <1>4 DEF PutBatch
  <2>2. ASSUME NEW k \in Keys
        PROVE  /\ new[k] \in Record
               /\ new[k].value = record[m][k].value
               /\ new[k].version >= record[m][k].version
               /\ \/ new[k] = record[m][k]
                  \/ new[k].etag > record[m][k].etag
    <3>1. /\ record[m][k] \in Record /\ record[m][k].version \in 0..DataVersion
          /\ record[m][k].value \in Nat /\ record[m][k].etag \in Nat
      BY RecordFacts DEF DInv
    <3>2. CASE k \in DOMAIN old.found
      <4>1. /\ old.found[k] = record[m][k]
            /\ old.found[k].version <= old.version
        BY <1>1, <1>4, <3>2 DEF WorkOK
      <4>2. new[k] = [version |-> old.version, value |-> record[m][k].value,
                      etag |-> record[m][k].etag + 1]
        BY <3>2, <4>1
      <4>3. /\ new[k].version = old.version
            /\ new[k].value = record[m][k].value
            /\ new[k].etag = record[m][k].etag + 1
        BY <4>2
      <4>4. new[k] \in Record
        BY <1>2, <3>1, <4>2 DEF Record
      <4> QED BY <1>2, <3>1, <4>1, <4>3, <4>4
    <3>3. CASE k \notin DOMAIN old.found
      <4>1. new[k] = record[m][k]
        BY <3>3
      <4> QED BY <3>1, <4>1
    <3> QED BY <3>2, <3>3
  <2>3. new \in [Keys -> Record]
    BY <2>2
  <2> HIDE DEF new
  <2>4. DShape'
    BY <2>1, <2>3 DEF DInv, DShape
  <2>5. \A n \in Models, k \in Keys :
          record'[n][k] = IF n = m THEN new[k] ELSE record[n][k]
    BY <2>1 DEF DInv, DShape
  <2>6. ASSUME NEW n \in Models, NEW k \in Keys
        PROVE  /\ record'[n][k].version >= record[n][k].version
               /\ record'[n][k].etag >= record[n][k].etag
               /\ record'[n][k].etag = record[n][k].etag =>
                      record'[n][k] = record[n][k]
               /\ record'[n][k].value = record[n][k].value
    <3>1. /\ record[n][k].version \in 0..DataVersion
          /\ record[n][k].etag \in Nat
      BY RecordFacts DEF DInv
    <3>2. CASE n # m
      <4>1. record'[n][k] = record[n][k]
        BY <2>5, <3>2
      <4> QED BY <3>1, <4>1, <1>2
    <3>3. CASE n = m
      <4>1. record'[n][k] = new[k] /\ new[k].etag \in Nat
        BY <2>5, <2>2, <3>3 DEF Record
      <4> QED BY <2>2, <3>1, <3>3, <4>1, <1>2
    <3> QED BY <3>2, <3>3
  <2>7. Renews
    BY <2>6 DEF Renews
  <2> QED BY <1>3, <2>1, <2>4, <2>6, <2>7
<1>5. CASE ~\A k \in DOMAIN old.found : record[m][k].etag = old.found[k].etag
  <2>1. /\ record' = record /\ completed' = completed
        /\ migration' = [migration EXCEPT ![r][m] =
                            Work("failed", old.version, << >>)]
    BY <1>0, <1>5 DEF PutBatch
  <2>2. DShape' /\ Renews
    BY <2>1, RecordsAlone DEF DInv, DShape
  <2> QED BY <1>3, <2>1, <2>2
<1> QED BY <1>4, <1>5

(* A run that starts, is retried or fails leaves the records alone.        *)
LEMMA RunChanges ==
  ASSUME DInv, NEW r \in MigrationRuns, record' = record, writes' = writes,
         \/ RunMigrations(r) \/ RetryMigrations(r)
         \/ \E m \in Models : FindFails(r, m) \/ PutFails(r, m)
  PROVE  DInv'
<1>1. /\ DShape' /\ Renews
      /\ \/ completed' = completed
         \/ completed' = [m \in Models |-> 0]
  <2>1. completed' = completed \/ completed' = [m \in Models |-> 0]
    BY DEF RunMigrations, RetryMigrations, FindFails, PutFails
  <2>2. completed' \in [Models -> 0..DataVersion]
    BY <2>1, DataMigrationsAssumption DEF DInv, DShape
  <2> QED BY <2>1, <2>2, RecordsAlone DEF DInv
<1>2. CompletedOK'
  BY <1>1, RecordFacts DEF DInv, CompletedOK
<1>3. ASSUME NEW phase \in {"backoff", "find"},
             migration' = [migration EXCEPT ![r] =
                             [m \in Models |-> Work(phase, 1, << >>)]]
      PROVE  DInv'
  <2> DEFINE f == [m \in Models |-> Work(phase, 1, << >>)]
  <2>1. \A m \in Models : f[m] \in Works /\ f[m].phase = phase
                           /\ f[m].version = 1
    BY WorkType, NothingFound DEF Phases
  <2>2. f \in [Models -> Works]
    BY <2>1
  <2> HIDE DEF f
  <2>3. \A m \in Models : WorkOK(f[m], m)'
    BY <2>1, RecordFacts DEF DInv, WorkOK
  <2>4. f \in GoodMigrations'
    BY <2>2, <2>3 DEF GoodMigrations
  <2>5. migration \in Seq(GoodMigrations') /\ r \in 1..Len(migration)
    BY <1>1, RunsKept DEF DInv, MigrationRuns
  <2>6. migration' \in Seq(GoodMigrations')
    <3>1. migration' = [migration EXCEPT ![r] = f]
      BY <1>3 DEF f
    <3> HIDE DEF GoodMigrations
    <3> QED BY <2>4, <2>5, <3>1
  <2> QED BY <1>1, <1>2, <2>6 DEF DInv
<1>4. ASSUME NEW m \in Models, NEW w \in Works,
             w.phase \in {"lost", "failed", "refused"},
             migration' = [migration EXCEPT ![r][m] = w]
      PROVE  DInv'
  <2>1. WorkOK(w, m)'
    BY <1>4 DEF WorkOK
  <2>2. migration' \in Seq(GoodMigrations')
    BY <1>1, <1>4, <2>1, WorkGoesOn
  <2> QED BY <1>1, <1>2, <2>2 DEF DInv
<1>5. CASE RunMigrations(r)
  BY <1>3, <1>5 DEF RunMigrations
<1>6. CASE RetryMigrations(r)
  BY <1>3, <1>6 DEF RetryMigrations, BackedOff
<1>7. ASSUME NEW m \in Models, FindFails(r, m) PROVE DInv'
  <2>1. PICK old : old = migration[r][m]
    OBVIOUS
  <2>2. old \in Works
    BY <2>1 DEF DInv, MigrationRuns, GoodMigrations
  <2> DEFINE w == [old EXCEPT !.phase = "lost"]
  <2>3. w \in Works /\ w.phase = "lost"
    BY <2>2 DEF Works, Phases
  <2>4. migration' = [migration EXCEPT ![r][m] = w]
    BY <1>7, <2>1 DEF FindFails
  <2> HIDE DEF w
  <2> QED BY <1>4, <2>3, <2>4
<1>8. ASSUME NEW m \in Models, PutFails(r, m) PROVE DInv'
  <2>1. PICK old : old = migration[r][m]
    OBVIOUS
  <2>2. old.version \in 1..DataVersion
    BY <2>1 DEF DInv, MigrationRuns, GoodMigrations, Works
  <2>3. PICK phase \in {"failed", "refused"} :
          migration' = [migration EXCEPT ![r][m] =
                          Work(phase, old.version, << >>)]
    BY <1>8, <2>1 DEF PutFails
  <2>4. Work(phase, old.version, << >>) \in Works
        /\ Work(phase, old.version, << >>).phase = phase
    BY <2>2, WorkType, NothingFound DEF Phases
  <2> QED BY <1>4, <2>2, <2>3, <2>4
<1> QED BY <1>5, <1>6, <1>7, <1>8

(* A request puts a record.                                                *)
LEMMA RequestKeeps ==
  ASSUME DInv, NEW m \in Models, NEW k \in Keys, PutObject(m, k)
  PROVE  DInv'
<1> DEFINE new == [version |-> DataVersion, value |-> writes + 1,
                   etag |-> record[m][k].etag + 1]
<1>1. /\ record' = [record EXCEPT ![m] = [record[m] EXCEPT ![k] = new]]
      /\ writes' = writes + 1 /\ UNCHANGED <<migration, completed>>
  BY DEF PutObject, migrationVars
<1>2. /\ new \in Record /\ new.version = DataVersion
      /\ new.etag = record[m][k].etag + 1
  BY RecordFacts DEF DInv, DShape, Record
<1> HIDE DEF new
<1>3. DShape'
  BY <1>1, <1>2 DEF DInv, DShape
<1>4. \A n \in Models, l \in Keys :
        record'[n][l] = IF n = m /\ l = k THEN new ELSE record[n][l]
  BY <1>1 DEF DInv, DShape
<1>5. Renews
  <2> SUFFICES ASSUME NEW n \in Models, NEW l \in Keys
               PROVE  /\ record'[n][l].version >= record[n][l].version
                      /\ record'[n][l].etag >= record[n][l].etag
                      /\ record'[n][l].etag = record[n][l].etag =>
                             record'[n][l] = record[n][l]
    BY DEF Renews
  <2>1. /\ record[n][l].version \in 0..DataVersion
        /\ record[n][l].etag \in Nat /\ DataVersion \in Nat
    BY RecordFacts DEF DInv
  <2>2. CASE n = m /\ l = k
    BY <1>2, <1>4, <2>1, <2>2
  <2>3. CASE ~(n = m /\ l = k)
    <3>1. record'[n][l] = record[n][l]
      BY <1>4, <2>3
    <3> QED BY <2>1, <3>1
  <2> QED BY <2>2, <2>3
<1>6. migration' \in Seq(GoodMigrations')
  BY <1>1, <1>3, <1>5, RunsKept DEF DInv
<1>7. CompletedOK'
  <2> SUFFICES ASSUME NEW n \in Models, NEW l \in Keys
               PROVE  record'[n][l].version >= completed[n]
    BY <1>1 DEF CompletedOK
  <2>1. /\ record'[n][l].version >= record[n][l].version
        /\ record[n][l].version >= completed[n]
    BY <1>5 DEF Renews, DInv, CompletedOK
  <2>2. /\ record[n][l].version \in Nat /\ record'[n][l].version \in Nat
        /\ completed[n] \in Nat
    <3>1. record[n][l].version \in Nat /\ completed[n] \in Nat
      BY DataMigrationsAssumption DEF DInv, DShape, Record
    <3>2. record'[n][l].version \in Nat
      BY <1>2, <1>4, <3>1, DataMigrationsAssumption
    <3> QED BY <3>1, <3>2
  <2> QED BY <2>1, <2>2
<1> QED BY <1>3, <1>6, <1>7 DEF DInv

(* Nothing happens to the records; what is known of them may be forgotten. *)
LEMMA RecordsKept ==
  ASSUME DInv, UNCHANGED <<record, writes>>,
         \/ UNCHANGED migrationVars
         \/ Forget
         \/ StartMigrations /\ completed' = completed
  PROVE  DInv'
<1>1. completed' = completed \/ completed' = [m \in Models |-> 0]
  BY DEF migrationVars, Forget
<1>2. DShape' /\ Renews
  <2>1. completed' \in [Models -> 0..DataVersion]
    BY <1>1, DataMigrationsAssumption DEF DInv, DShape
  <2> QED BY <2>1, RecordsAlone DEF DInv
<1>3. CompletedOK'
  BY <1>1, RecordFacts DEF DInv, CompletedOK
<1>4. migration \in Seq(GoodMigrations')
  BY <1>2, RunsKept DEF DInv
<1>5. BackedOff \in GoodMigrations'
  <2>1. \A m \in Models : /\ BackedOff[m] \in Works
                          /\ BackedOff[m].phase = "backoff"
    BY WorkType, NothingFound DEF BackedOff, Phases
  <2>2. BackedOff \in [Models -> Works]
    BY <2>1 DEF BackedOff
  <2> HIDE DEF BackedOff
  <2> QED BY <2>1, <2>2 DEF GoodMigrations, WorkOK
<1>6. migration' \in Seq(GoodMigrations')
  <2> HIDE DEF GoodMigrations, BackedOff
  <2>1. CASE migration' = migration
    BY <1>4, <2>1
  <2>2. CASE migration' = << >>
    BY <2>2
  <2>3. CASE migration' = Append(migration, BackedOff)
    BY <1>4, <1>5, <2>3
  <2> QED BY <2>1, <2>2, <2>3 DEF migrationVars, Forget, StartMigrations
<1> QED BY <1>2, <1>3, <1>6 DEF DInv

LEMMA InitDInv == Init => DInv
<1> SUFFICES ASSUME Init PROVE DInv
  OBVIOUS
<1>1. DShape
  BY DataMigrationsAssumption
     DEF Init, MigrationsInit, DShape, Record
<1>2. migration \in Seq(GoodMigrations)
  BY DEF Init, MigrationsInit
<1>3. CompletedOK
  BY <1>1, RecordFacts DEF Init, MigrationsInit, CompletedOK
<1> QED BY <1>1, <1>2, <1>3 DEF DInv

LEMMA StepDInv ==
  DInv /\ [Next]_vars =>
      /\ DInv'
      /\ [writes' = writes => \A m \in Models, k \in Keys :
                                 record'[m][k].value = record[m][k].value]_vars
<1> SUFFICES ASSUME DInv, [Next]_vars
             PROVE  /\ DInv'
                    /\ writes' = writes => \A m \in Models, k \in Keys :
                          record'[m][k].value = record[m][k].value
  OBVIOUS
<1>1. CASE Connect \/ Reconnect \/ Restart \/ UNCHANGED vars
  <2>1. UNCHANGED <<record, writes>> /\ UNCHANGED migrationVars
    BY <1>1 DEF Connect, Reconnect, Restart, vars, migrationVars
  <2> QED BY <2>1, RecordsKept
<1>2. CASE \E i \in Runs : InitStep(i) \/ InitFails(i) \/ InitDone(i)
  <2>1. UNCHANGED <<record, writes>>
        /\ \/ UNCHANGED migrationVars
           \/ Forget
           \/ StartMigrations /\ completed' = completed
    BY <1>2 DEF InitStep, InitFails, InitDone
  <2> QED BY <2>1, RecordsKept
<1>3. ASSUME NEW r \in MigrationRuns, MigrationAborts(r)
      PROVE  DInv' /\ UNCHANGED record
  BY <1>3, RecordsKept DEF MigrationAborts
<1>4. ASSUME NEW r \in MigrationRuns, MigrationStep(r) \/ MigrationFails(r)
      PROVE  DInv' /\ \A m \in Models, k \in Keys :
                        record'[m][k].value = record[m][k].value
  <2>1. writes' = writes
    BY <1>4 DEF MigrationStep, MigrationFails
  <2>2. CASE \/ RunMigrations(r) \/ RetryMigrations(r)
             \/ \E m \in Models : FindFails(r, m) \/ PutFails(r, m)
    <3>1. record' = record
      BY <2>2 DEF RunMigrations, RetryMigrations, FindFails, PutFails
    <3> QED BY <2>1, <2>2, <3>1, RunChanges
  <2>3. ASSUME NEW m \in Models, FindRecordsToMigrate(r, m)
        PROVE  DInv' /\ record' = record
    BY <2>1, <2>3, FindKeeps DEF FindRecordsToMigrate
  <2>4. ASSUME NEW m \in Models, PutBatch(r, m)
        PROVE  DInv' /\ \A n \in Models, k \in Keys :
                          record'[n][k].value = record[n][k].value
    BY <2>1, <2>4, PutKeeps
  <2> QED BY <1>4, <2>2, <2>3, <2>4 DEF MigrationStep, MigrationFails
<1>5. ASSUME NEW m \in Models, NEW k \in Keys, PutObject(m, k)
      PROVE  DInv' /\ writes' # writes
  <2>1. writes' = writes + 1 /\ writes \in Nat
    BY <1>5 DEF PutObject, DInv, DShape
  <2> QED BY <1>5, <2>1, RequestKeeps
<1> QED BY <1>1, <1>2, <1>3, <1>4, <1>5 DEF Next, vars

(* A search that relies on a data migration is let through only when every *)
(* record has been migrated: a version is completed when no record is left *)
(* below it, and none ever goes back, since what was found and has changed *)
(* is not put.                                                             *)
THEOREM SearchesSeeAll == Spec => []SearchSeesAll
<1>1. DInv => SearchSeesAll
  <2> SUFFICES ASSUME DInv, NEW m \in Models, NEW version \in 1..DataVersion,
                      completed[m] >= version, NEW k \in Keys
               PROVE  record[m][k].version >= version
    BY DEF SearchSeesAll, SearchAllowed
  <2>1. record[m][k].version >= completed[m]
    BY DEF DInv, CompletedOK
  <2>2. /\ record[m][k].version \in 0..DataVersion
        /\ completed[m] \in 0..DataVersion /\ DataVersion \in Nat
    BY RecordFacts DEF DInv, DShape
  <2> QED BY <2>1, <2>2
<1> QED BY <1>1, InitDInv, StepDInv, PTL DEF Spec

(* A data migration never undoes what a request put since it found the     *)
(* record, whatever else moves: its batch is put with the etags it found.  *)
THEOREM RequestsAreKept == Spec => WritesKept
  BY InitDInv, StepDInv, PTL DEF Spec, WritesKept

-----------------------------------------------------------------------------
(* The flags that keep a second call from working on the buckets.          *)
Active(process) == {i \in Runs : /\ init.runs[i].process = process
                                 /\ init.runs[i].waits = FALSE}
Guards(flag, process) ==
    /\ flag \in BOOLEAN
    /\ flag <=> Active(process) # {}
    /\ \A i, j \in Active(process) : i = j

\* A flag is set exactly while a run is at work, which is one run only, and
\* none while the process is down
FInv ==
    /\ up \in BOOLEAN
    /\ ~up => init.runs = << >>
    /\ Guards(settingUp, "setup") /\ Guards(reindexing, "reindex")

LEMMA FlagsDown ==
  ASSUME init' = NoInit, settingUp' = FALSE, reindexing' = FALSE,
         up' \in BOOLEAN
  PROVE  FInv'
<1>1. init'.runs = << >> /\ DOMAIN << >> = {}
  BY DEF NoInit
<1>2. Active("setup")' = {} /\ Active("reindex")' = {}
  BY <1>1 DEF Active, Runs
<1> QED BY <1>1, <1>2 DEF FInv, Guards

LEMMA FlagsAlone ==
  ASSUME FInv, UNCHANGED <<settingUp, reindexing>>, init'.runs = init.runs,
         up' \in BOOLEAN, ~up' => init.runs = << >>
  PROVE  FInv'
BY DEF FInv, Guards, Active, Runs

(* One run goes on: the ones at work are the others, and it if it is.      *)
LEMMA ActiveThen ==
  ASSUME BInv, NEW i \in Runs, NEW run \in RunType,
         init'.runs = [init.runs EXCEPT ![i] = run], NEW process
  PROVE  Active(process)' =
             IF run.process = process /\ run.waits = FALSE
             THEN Active(process) \cup {i} ELSE Active(process) \ {i}
<1>1. init.runs \in Seq(GoodRuns)
  BY DEF BInv
<1>2. /\ DOMAIN init'.runs = DOMAIN init.runs
      /\ \A j \in DOMAIN init.runs :
           init'.runs[j] = IF j = i THEN run ELSE init.runs[j]
  BY <1>1 DEF Runs
<1> QED BY <1>2 DEF Active, Runs

LEMMA FlagsStart ==
  ASSUME BInv, FInv, up, UNCHANGED <<settingUp, reindexing, up>>, StartInit
  PROVE  FInv'
<1> DEFINE run == Waiting("setup")
<1>1. run \in RunType /\ run.waits = TRUE
  BY WaitingType DEF Waiting
<1>2. init'.runs = Append(init.runs, run) /\ init.runs \in Seq(RunType)
  BY DEF StartInit, BInv, BShape
<1> HIDE DEF run
<1>3. /\ DOMAIN init'.runs = DOMAIN init.runs \cup {Len(init.runs) + 1}
      /\ \A j \in DOMAIN init.runs : init'.runs[j] = init.runs[j]
      /\ init'.runs[Len(init.runs) + 1] = run
      /\ Len(init.runs) + 1 \notin DOMAIN init.runs
  BY <1>1, <1>2
<1>4. /\ Active("setup")' = Active("setup")
      /\ Active("reindex")' = Active("reindex")
  BY <1>1, <1>3 DEF Active, Runs
<1> QED BY <1>4 DEF FInv, Guards

LEMMA StepFInv == BInv /\ FInv /\ [Next]_vars => FInv'
<1> SUFFICES ASSUME BInv, FInv, [Next]_vars PROVE FInv'
  OBVIOUS
<1>1. CASE Connect \/ Reconnect
  BY <1>1, FlagsStart DEF Connect, Reconnect
<1>2. ASSUME NEW i \in Runs, InitStep(i) \/ InitFails(i) \/ InitDone(i)
      PROVE  FInv'
  <2>0. PICK run : run = init.runs[i]
    OBVIOUS
  <2>1. /\ init \in [runs : Seq(RunType), status : Statuses,
                     lastError : BOOLEAN]
        /\ run \in RunType /\ i \in 1..Len(init.runs)
        /\ run.at \in DOMAIN Buckets /\ up
    <3>1. run \in GoodRuns /\ i \in 1..Len(init.runs)
      BY <2>0 DEF BInv, Runs
    <3>2. up
      <4>1. init.runs # << >>
        BY <3>1 DEF BInv
      <4> QED BY <4>1 DEF FInv
    <3> QED BY <2>0, <3>1, <3>2 DEF BInv, BShape, GoodRuns, RunType
  <2>2. CASE ~up'
    <3>1. Abort
      BY <1>2, <2>1, <2>2 DEF InitStep, SetupBuckets, TrySetupBucket,
         InvalidIndexesRemoval, ReindexBuckets, ReindexBucket, InitFails,
         SetupFails, ReindexFails, InitDone, ReindexDone, At
    <3> QED BY <3>1, FlagsDown DEF Abort
  <2>3. ASSUME NEW next \in RunType, up' = TRUE,
               init'.runs = [init.runs EXCEPT ![i] = next],
               settingUp' \in BOOLEAN, reindexing' \in BOOLEAN,
               \/ /\ settingUp' = settingUp
                  /\ (run.process = "setup" /\ run.waits = FALSE) <=>
                     (next.process = "setup" /\ next.waits = FALSE)
               \/ /\ settingUp = FALSE /\ settingUp' = TRUE
                  /\ next.process = "setup" /\ next.waits = FALSE
               \/ /\ settingUp' = FALSE
                  /\ run.process = "setup" /\ run.waits = FALSE
                  /\ ~(next.process = "setup" /\ next.waits = FALSE),
               \/ /\ reindexing' = reindexing
                  /\ (run.process = "reindex" /\ run.waits = FALSE) <=>
                     (next.process = "reindex" /\ next.waits = FALSE)
               \/ /\ reindexing = FALSE /\ reindexing' = TRUE
                  /\ next.process = "reindex" /\ next.waits = FALSE
               \/ /\ reindexing' = FALSE
                  /\ run.process = "reindex" /\ run.waits = FALSE
                  /\ ~(next.process = "reindex" /\ next.waits = FALSE)
        PROVE  FInv'
    <3>1. \A process \in {"setup", "reindex"} :
            /\ i \in Active(process) <=>
                   run.process = process /\ run.waits = FALSE
            /\ Active(process)' =
                   IF next.process = process /\ next.waits = FALSE
                   THEN Active(process) \cup {i} ELSE Active(process) \ {i}
      <4> SUFFICES ASSUME NEW process \in {"setup", "reindex"}
                   PROVE  /\ i \in Active(process) <=>
                                run.process = process /\ run.waits = FALSE
                          /\ Active(process)' =
                               IF next.process = process /\ next.waits = FALSE
                               THEN Active(process) \cup {i}
                               ELSE Active(process) \ {i}
        OBVIOUS
      <4>1. i \in Active(process) <=>
                run.process = process /\ run.waits = FALSE
        BY <2>0 DEF Active
      <4> QED BY <2>3, <4>1, ActiveThen
    <3>2. Guards(settingUp, "setup")'
      BY <2>3, <3>1 DEF FInv, Guards
    <3>3. Guards(reindexing, "reindex")'
      BY <2>3, <3>1 DEF FInv, Guards
    <3> QED BY <2>3, <3>2, <3>3 DEF FInv
  <2>4. \A process \in {"setup", "reindex", "done"} :
          /\ Waiting(process) \in RunType
          /\ Waiting(process).process = process
          /\ Waiting(process).waits = TRUE
    BY WaitingType DEF Waiting
  <2>5. settingUp \in BOOLEAN /\ reindexing \in BOOLEAN /\ up = TRUE
    BY <2>1 DEF FInv, Guards
  <2>6. ASSUME up', SetupBuckets(i) \/ ReindexBuckets(i) PROVE FInv'
    <3> DEFINE next == [run EXCEPT !.waits = FALSE]
    <3>1. next \in RunType /\ next.process = run.process
          /\ next.waits = FALSE
      BY <2>1 DEF RunType
    <3>2. /\ init' = [init EXCEPT !.runs = [init.runs EXCEPT ![i] = next]]
          /\ up' = TRUE
          /\ \/ /\ run.process = "setup" /\ run.waits = TRUE
                /\ settingUp = FALSE /\ settingUp' = TRUE
                /\ reindexing' = reindexing
             \/ /\ run.process = "reindex" /\ run.waits = TRUE
                /\ reindexing = FALSE /\ reindexing' = TRUE
                /\ settingUp' = settingUp
      BY <2>0, <2>1, <2>5, <2>6 DEF SetupBuckets, ReindexBuckets, Abort, At
    <3> HIDE DEF next
    <3>3. init'.runs = [init.runs EXCEPT ![i] = next]
      BY <2>1, <3>2
    <3> QED BY <2>3, <2>5, <3>1, <3>2, <3>3
  <2>7. ASSUME up', TrySetupBucket(i) \/ ReindexBucket(i) PROVE FInv'
    <3>1. run.waits = FALSE /\ run.process \in {"setup", "reindex"}
      BY <2>0, <2>7 DEF TrySetupBucket, ReindexBucket, At
    <3>2. CASE ReindexBucket(i) /\ init' = init
      <4>1. UNCHANGED <<settingUp, reindexing>>
        BY <3>2 DEF ReindexBucket
      <4> QED BY <2>7, <2>5, <3>2, <4>1, FlagsAlone
    <3>3. CASE /\ init' = [init EXCEPT !.runs[i].at = @ + 1]
               /\ init.runs[i].at < Len(Buckets)
      <4> DEFINE next == [run EXCEPT !.at = run.at + 1]
      <4>1. init' = [init EXCEPT !.runs = [init.runs EXCEPT ![i] = next]]
        BY <2>0, <2>1, <3>3
      <4>2. next \in RunType /\ next.process = run.process
            /\ next.waits = run.waits
        <5>1. run.at + 1 \in DOMAIN Buckets
          BY <2>0, <2>1, <3>3, BucketFacts
        <5> QED BY <2>1, <5>1 DEF RunType
      <4>3. UNCHANGED <<settingUp, reindexing, up>>
        BY <2>7, <3>3 DEF TrySetupBucket, ReindexBucket
      <4> HIDE DEF next
      <4>4. init'.runs = [init.runs EXCEPT ![i] = next]
        BY <2>1, <4>1
      <4> QED BY <2>3, <2>5, <4>2, <4>3, <4>4
    <3>4. CASE /\ TrySetupBucket(i) /\ init.runs[i].at >= Len(Buckets)
      <4>1. /\ init'.runs = [init.runs EXCEPT ![i] = Waiting("reindex")]
            /\ settingUp' = FALSE /\ up' = up /\ reindexing' = reindexing
            /\ run.process = "setup"
        BY <2>0, <2>1, <3>4, BucketFacts DEF TrySetupBucket, At
      <4> QED BY <2>3, <2>4, <2>5, <3>1, <4>1
    <3>5. CASE TrySetupBucket(i)
      <4>1. init.runs[i].at < Len(Buckets) \/ init.runs[i].at >= Len(Buckets)
        BY <2>0, <2>1, BucketFacts
      <4>2. init.runs[i].at < Len(Buckets) =>
                init' = [init EXCEPT !.runs[i].at = @ + 1]
        BY <3>5 DEF TrySetupBucket
      <4> QED BY <3>3, <3>4, <3>5, <4>1, <4>2
    <3>6. CASE ReindexBucket(i)
      <4>1. \/ init' = init
            \/ /\ init' = [init EXCEPT !.runs[i].at = @ + 1]
               /\ init.runs[i].at < Len(Buckets)
        BY <3>6 DEF ReindexBucket
      <4> QED BY <3>2, <3>3, <3>6, <4>1
    <3> QED BY <2>7, <3>5, <3>6
  <2>8. ASSUME up', InvalidIndexesRemoval(i) PROVE FInv'
    BY <2>8 DEF InvalidIndexesRemoval, Abort
  <2>9. ASSUME SetupFails(i) PROVE FInv'
    <3>1. /\ init'.runs = [init.runs EXCEPT ![i] = Waiting("setup")]
          /\ settingUp' = FALSE /\ up' = up /\ reindexing' = reindexing
          /\ run.process = "setup" /\ run.waits = FALSE
      BY <2>0, <2>1, <2>9 DEF SetupFails, At
    <3> QED BY <2>3, <2>4, <2>5, <3>1
  <2>10. ASSUME ReindexFails(i) PROVE FInv'
    <3>1. /\ init'.runs = [init.runs EXCEPT ![i] = Waiting("reindex")]
          /\ reindexing' = FALSE /\ up' = up /\ settingUp' = settingUp
          /\ run.process = "reindex" /\ run.waits = FALSE
      BY <2>0, <2>1, <2>10 DEF ReindexFails, At
    <3> QED BY <2>3, <2>4, <2>5, <3>1
  <2>11. ASSUME ReindexDone(i) PROVE FInv'
    <3>1. /\ init'.runs = [init.runs EXCEPT ![i] = Waiting("done")]
          /\ reindexing' = FALSE /\ up' = up /\ settingUp' = settingUp
          /\ run.process = "reindex" /\ run.waits = FALSE
      BY <2>0, <2>1, <2>11 DEF ReindexDone, At
    <3> QED BY <2>3, <2>4, <2>5, <3>1
  <2> QED
    BY <1>2, <2>2, <2>6, <2>7, <2>8, <2>9, <2>10, <2>11
       DEF InitStep, InitFails, InitDone
<1>3. CASE \E r \in MigrationRuns : MigrationAborts(r)
  BY <1>3, FlagsDown DEF MigrationAborts, Abort
<1>4. CASE \/ Restart \/ UNCHANGED vars
           \/ \E m \in Models, k \in Keys : PutObject(m, k)
           \/ \E r \in MigrationRuns : MigrationStep(r) \/ MigrationFails(r)
  <2>1. UNCHANGED <<init, settingUp, reindexing>> /\ (up' = up \/ up' = TRUE)
    BY <1>4 DEF Restart, vars, PutObject, MigrationStep, MigrationFails,
       bucketVars
  <2> QED BY <2>1, FlagsAlone DEF FInv
<1> QED BY <1>1, <1>2, <1>3, <1>4 DEF Next

(* However many runs of the initializer errors, reconnections and restarts *)
(* leave under way, each is at a bucket, and the flags that would end the  *)
(* process on a second call are up exactly while one run is at work, so    *)
(* that a run that ends never takes the flag down for another.             *)
THEOREM TypeCorrect == Spec => []TypeOK
<1>1. Init => FInv
  <2> SUFFICES ASSUME Init PROVE FInv
    OBVIOUS
  <2>1. init.runs = << >> /\ DOMAIN << >> = {}
    BY DEF Init, BucketsInit, NoInit
  <2>2. Active("setup") = {} /\ Active("reindex") = {}
    BY <2>1 DEF Active, Runs
  <2> QED BY <2>1, <2>2 DEF Init, BucketsInit, FInv, Guards
<1>2. BInv /\ DInv /\ FInv => TypeOK
  <2> SUFFICES ASSUME BInv, DInv, FInv PROVE TypeOK
    OBVIOUS
  <2>1. \A i \in Runs : init.runs[i].at \in DOMAIN Buckets
    BY DEF BInv, GoodRuns, RunType, Runs
  <2>2. Runs # {} => up
    BY DEF FInv, Runs
  <2>3. /\ settingUp <=> \E i \in Runs : At(i, "setup", FALSE)
        /\ reindexing <=> \E i \in Runs : At(i, "reindex", FALSE)
    BY <2>2 DEF FInv, Guards, Active, At
  <2>4. /\ settingUp = (\E i \in Runs : At(i, "setup", FALSE))
        /\ reindexing = (\E i \in Runs : At(i, "reindex", FALSE))
    BY <2>3 DEF FInv, Guards
  <2>5. \A m \in Models : completed[m] \in 0..DataVersion
    BY DEF DInv, DShape
  <2> QED BY <2>1, <2>4, <2>5 DEF TypeOK
<1> QED
  BY <1>1, <1>2, InitBInv, StepBInv, InitDInv, StepDInv, StepFInv, PTL
     DEF Spec
=============================================================================
