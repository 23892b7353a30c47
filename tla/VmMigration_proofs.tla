------------------------- MODULE VmMigration_proofs -------------------------
(***************************************************************************)
(* The type invariant of VmMigration, for any set of servers and any       *)
(* bounds.  It is inductive once it also says at which task a job is and   *)
(* that a job has a server for its queue (ControlType).                    *)
(*                                                                         *)
(* And what the waitlist ticket protects: while no ticket expires under a  *)
(* job that runs, a job is at a task of Protected only while it holds the  *)
(* VM's ticket of its queue.  The invariant behind that says where in its  *)
(* chain a job holds its ticket.  It is kept because a job moves by one    *)
(* task at a time (StepOf) and only the ticket tasks touch the tickets     *)
(* (Ordinary).                                                             *)
(***************************************************************************)
EXTENDS VmMigration, FiniteSetTheorems, SequenceTheorems, WellFoundedInduction,
        TLAPS

-----------------------------------------------------------------------------
(* The record functions of MigrationRecord make records of records.        *)
LEMMA NoRecordType == NoRecord \in Record
BY ConstantsAssumption, EmptySeq
DEF NoRecord, Record, Phases, States, ProgressEntry

LEMMA NewRecordType ==
    ASSUME NEW id \in RecordIds, NEW s \in Servers \cup {NoServer},
           NEW auto \in BOOLEAN
    PROVE  NewRecord(id, s, auto) \in Record
BY ConstantsAssumption, EmptySeq
DEF NewRecord, Record, Phases, States, ProgressEntry, RecordIds

(* Replacing an entry of a sequence keeps it one, also where there is none.*)
LEMMA ExceptAnywhere ==
    ASSUME NEW S, NEW h \in Seq(S), NEW i, NEW e,
           i \in DOMAIN h => e \in S
    PROVE  [h EXCEPT ![i] = e] \in Seq(S)
<1>1. CASE i \in DOMAIN h
  <2>1. i \in 1 .. Len(h)
    BY <1>1, LenProperties
  <2>2. e \in S
    BY <1>1
  <2> QED BY <2>1, <2>2, ExceptSeq
<1>2. CASE i \notin DOMAIN h
  <2>1. h \in [1 .. Len(h) -> S]
    BY LenProperties
  <2>2. [h EXCEPT ![i] = e] = h
    BY <1>2, <2>1
  <2> QED BY <2>2
<1> QED BY <1>1, <1>2

LEMMA EntryType ==
    ASSUME NEW rec \in Record, NEW i \in DOMAIN rec.history
    PROVE  rec.history[i] \in ProgressEntry
BY LenProperties, ElementOfSeq DEF Record

LEMMA StartedType ==
    ASSUME NEW rec \in Record, NEW a \in Phases, NEW j \in Jobs
    PROVE  Started(rec, a, j) \in Record
<1>1. Append(rec.history, [phase |-> a, state |-> "running", job |-> j,
                           noRetry |-> FALSE]) \in Seq(ProgressEntry)
  BY AppendProperties DEF Record, ProgressEntry, States
<1> QED BY <1>1 DEF Started, Record, States

LEMMA SucceededType ==
    ASSUME NEW rec \in Record, NEW a, NEW idx, NEW subtask \in BOOLEAN
    PROVE  Succeeded(rec, a, idx, subtask) \in Record
<1> DEFINE e == [rec.history[idx] EXCEPT !.state = "successful"]
           h == [rec.history EXCEPT ![idx] = e]
           n == IF a = "sync" THEN rec.syncs + 1 ELSE rec.syncs
           st == IF a \in {"switch", "abort", "rollback"} THEN "successful"
                 ELSE IF (rec.auto /\ a \in {"begin", "sync"}) \/ subtask
                 THEN "running" ELSE "paused"
<1>1. h \in Seq(ProgressEntry)
  <2>1. idx \in DOMAIN rec.history => e \in ProgressEntry
    BY EntryType DEF ProgressEntry, States
  <2>2. rec.history \in Seq(ProgressEntry)
    BY DEF Record
  <2> HIDE DEF e
  <2> QED BY <2>1, <2>2, ExceptAnywhere
<1>2. n \in Nat
  BY DEF Record
<1>3. st \in States
  BY DEF States
<1>4. Succeeded(rec, a, idx, subtask) =
        [rec EXCEPT !.history = h, !.proc = 0, !.syncs = n, !.state = st]
  BY DEF Succeeded, Record
<1> HIDE DEF h, n, st
<1> QED BY <1>1, <1>2, <1>3, <1>4 DEF Record

LEMMA FailedType ==
    ASSUME NEW rec \in Record, NEW a \in Phases, NEW idx,
           NEW noRetry \in BOOLEAN, NEW j \in Jobs
    PROVE  Failed(rec, a, idx, noRetry, j) \in Record
<1> DEFINE h == rec.history
           e == [h[idx] EXCEPT !.state = "failed", !.noRetry = @ \/ noRetry]
           n == [phase |-> a, state |-> "failed", job |-> j,
                 noRetry |-> noRetry]
           hist == IF idx \in DOMAIN h
                   THEN [h EXCEPT ![idx].state = "failed",
                                  ![idx].noRetry = @ \/ noRetry]
                   ELSE Append(h, n)
           p == IF ~noRetry /\ rec.phase = "switch" THEN "sync" ELSE rec.phase
<1>1. h \in Seq(ProgressEntry)
  BY DEF Record
<1>2. n \in ProgressEntry
  BY DEF ProgressEntry, States
<1>3. ASSUME idx \in DOMAIN h
      PROVE  [h EXCEPT ![idx].state = "failed",
                       ![idx].noRetry = @ \/ noRetry] \in Seq(ProgressEntry)
  <2>1. h[idx] \in ProgressEntry
    BY <1>3, EntryType
  <2>2. e \in ProgressEntry
    BY <2>1 DEF ProgressEntry, States
  <2>3. [h EXCEPT ![idx] = e] \in Seq(ProgressEntry)
    BY <1>1, <2>2, ExceptAnywhere
  <2>4. [h EXCEPT ![idx].state = "failed", ![idx].noRetry = @ \/ noRetry]
          = [h EXCEPT ![idx] = e]
    BY <1>3, <2>1 DEF ProgressEntry
  <2> QED BY <2>3, <2>4
<1>4. Append(h, n) \in Seq(ProgressEntry)
  BY <1>1, <1>2, AppendProperties
<1>5. hist \in Seq(ProgressEntry)
  BY <1>3, <1>4
<1>6. p \in Phases
  BY DEF Record, Phases
<1>7. Failed(rec, a, idx, noRetry, j) =
        [rec EXCEPT !.state = "failed", !.phase = p, !.history = hist]
  BY DEF Failed
<1> HIDE DEF hist, p
<1> QED BY <1>5, <1>6, <1>7 DEF Record, States

LEMMA PausedType ==
    ASSUME NEW rec \in Record, NEW idx
    PROVE  Paused(rec, idx) \in Record
<1> DEFINE e == [rec.history[idx] EXCEPT !.state = "paused"]
           h == [rec.history EXCEPT ![idx] = e]
<1>1. h \in Seq(ProgressEntry)
  <2>1. idx \in DOMAIN rec.history => e \in ProgressEntry
    BY EntryType DEF ProgressEntry, States
  <2>2. rec.history \in Seq(ProgressEntry)
    BY DEF Record
  <2> HIDE DEF e
  <2> QED BY <2>1, <2>2, ExceptAnywhere
<1>2. Paused(rec, idx) =
        [rec EXCEPT !.state = "paused", !.proc = 0, !.history = h]
  BY DEF Paused, Record
<1> HIDE DEF h
<1> QED BY <1>1, <1>2 DEF Record, States

-----------------------------------------------------------------------------
(* The lookup finds a record, or none.                                     *)
LEMMA NewestIn ==
    ASSUME NEW ids \in SUBSET RecordIds, ids # {}
    PROVE  Newest(ids) \in ids
<1> DEFINE T == {MaxRecords - r : r \in ids}
<1>1. \A r \in ids : r \in Nat /\ MaxRecords - r \in Nat
  BY ConstantsAssumption DEF RecordIds
<1>2. T \subseteq Nat /\ T # {}
  BY <1>1
<1>3. PICK x \in T : \A y \in T : <<y, x>> \notin OpToRel(<, Nat)
  BY <1>2, NatLessThanWellFounded, WFMin
<1>4. ASSUME NEW y \in T PROVE x <= y
  <2>1. x \in Nat /\ y \in Nat
    BY <1>2
  <2>2. <<y, x>> \in {ss \in Nat \X Nat : ss[1] < ss[2]} => FALSE
    BY <1>3, <1>4 DEF OpToRel
  <2> QED BY <2>1, <2>2
<1>5. PICK r \in ids : x = MaxRecords - r
  OBVIOUS
<1>6. ASSUME NEW s \in ids PROVE s <= r
  <2>1. MaxRecords - s \in T
    OBVIOUS
  <2>2. MaxRecords - r <= MaxRecords - s
    BY <1>4, <1>5, <2>1
  <2> QED BY <1>1, <2>2, ConstantsAssumption
<1> QED BY <1>6 DEF Newest

LEMMA LookupType ==
    ASSUME TypeOK
    PROVE  Lookup \in Record
<1> DEFINE ids == {r \in LiveIds : Matches(records[r], vm.server)}
<1>1. ids \in SUBSET RecordIds
  BY DEF LiveIds
<1>2. ids # {} => Newest(ids) \in RecordIds
  BY <1>1, NewestIn
<1> HIDE DEF ids
<1>3. (IF ids = {} THEN NoRecord ELSE records[Newest(ids)]) \in Record
  BY <1>2, NoRecordType DEF TypeOK
<1> QED BY <1>3 DEF Lookup, ids

-----------------------------------------------------------------------------
(* Where a job is: every job has a server for its queue, one that runs or  *)
(* cleans up is at a task of its chain.  This and the types are inductive. *)
ControlOf(j) ==
    /\ mode[j] # "none" => job[j].queue \in Servers
    /\ mode[j] = "chain" => pc[j] \in 1 .. Len(Chain[job[j].action])
    /\ mode[j] \in Cleaning => pc[j] \in 1 .. Len(OnError[job[j].action])

DataType ==
    /\ records \in [RecordIds -> Record]
    /\ stored \in [RecordIds -> {"never", "live", "deleted"}]
    /\ vm \in VmRecord
    /\ inst \in [Servers -> Instance]
    /\ ticket \in [Servers -> Jobs \cup {0}]
    /\ used \in [requests : Nat, faults : Nat, user : Nat]

ControlType ==
    /\ job \in [Jobs -> JobParams]
    /\ mode \in [Jobs -> Modes]
    /\ pc \in [Jobs -> Nat]
    /\ loc \in [Jobs -> Locals]
    /\ \A j \in Jobs : ControlOf(j)

IInv == DataType /\ ControlType

LEMMA IInvTypeOK == IInv => TypeOK
BY DEF IInv, DataType, ControlType, TypeOK

LEMMA JobActionsAre ==
    JobActions = {"begin", "sync", "pause", "switch", "abort", "rollback",
                  "finalize", "start", "stop"}
BY DEF JobActions, Chain, Chains

LEMMA ChainLengths ==
    \A a \in JobActions : Len(Chain[a]) \in Nat /\ 1 \in 1 .. Len(Chain[a])
<1>1. /\ Len(BeginChain) = 8 /\ Len(SyncChain) = 8 /\ Len(PauseChain) = 6
      /\ Len(AbortChain) = 7 /\ Len(StartChain) = 5 /\ Len(StopChain) = 5
  BY DEF BeginChain, SyncChain, PauseChain, AbortChain, StartChain, StopChain
<1>2. Len(SwitchChain) = 22
  BY DEF SwitchChain
<1>3. Len(RollbackChain) = 15
  BY DEF RollbackChain
<1>4. Len(<<"deleteSourceVm", "removeMigrationRecord">>) = 2
  OBVIOUS
<1>5. /\ Chain["begin"] = BeginChain /\ Chain["sync"] = SyncChain
      /\ Chain["pause"] = PauseChain /\ Chain["switch"] = SwitchChain
      /\ Chain["abort"] = AbortChain /\ Chain["rollback"] = RollbackChain
      /\ Chain["start"] = StartChain /\ Chain["stop"] = StopChain
      /\ Chain["finalize"] = <<"deleteSourceVm", "removeMigrationRecord">>
  BY DEF Chain, Chains
<1>6. TAKE a \in JobActions
<1> DEFINE n == Len(Chain[a])
<1>7. n \in {2, 5, 6, 7, 8, 15, 22}
  BY <1>1, <1>2, <1>3, <1>4, <1>5, JobActionsAre
<1> HIDE DEF n
<1>8. n \in Nat /\ 1 \in 1 .. n
  BY <1>7
<1> QED BY <1>8 DEF n

LEMMA OnErrorLengths ==
    \A a \in JobActions :
        /\ Len(OnError[a]) \in Nat
        /\ OnError[a] # <<>> => 1 \in 1 .. Len(OnError[a])
        /\ a # "finalize" => OnError[a] # <<>>
BY SMTT(20), JobActionsAre DEF OnError

(* The tasks that write the job's action as the record's phase are tasks   *)
(* of the six actions that are phases.                                     *)
LEMMA StorePhases ==
    \A a \in JobActions :
        /\ \A i \in 1 .. Len(Chain[a]) :
               Chain[a][i] = "storeInitialRecord" => a \in Phases
        /\ \A i \in 1 .. Len(OnError[a]) :
               OnError[a][i] = "storeFailure" => a \in Phases
<1>1. TAKE a \in JobActions
<1>2. CASE a \in Phases
  BY <1>2
<1>3. CASE a \notin Phases
  <2>1. a \in {"finalize", "start", "stop"}
    BY <1>3, JobActionsAre DEF Phases
  <2>2. CASE a = "finalize"
    BY <2>2 DEF Chain, Chains, OnError
  <2>3. CASE a = "start"
    BY <2>3 DEF Chain, Chains, OnError, StartChain
  <2>4. CASE a = "stop"
    BY <2>4 DEF Chain, Chains, OnError, StopChain
  <2> QED BY <2>1, <2>2, <2>3, <2>4
<1> QED BY <1>2, <1>3

LEMMA NoLocalsType == NoLocals \in Locals
BY NoRecordType DEF NoLocals, Locals

-----------------------------------------------------------------------------
(* The steps of a job's control.                                           *)
LEMMA ProceedControl ==
    ASSUME ControlType, NEW j \in Jobs, mode[j] \in {"chain"} \cup Cleaning,
           NEW l \in Locals, Proceed(j, l), UNCHANGED job
    PROVE  ControlType'
<1>1. mode' = ModeAfter(j) /\ pc' = PcAfter(j) /\ loc' = LocAfter(j, l)
  BY DEF Proceed
<1>2. loc' \in [Jobs -> Locals]
  BY <1>1, NoLocalsType DEF LocAfter, ControlType
<1>3. pc' \in [Jobs -> Nat]
  BY <1>1 DEF PcAfter, ControlType
<1>4. Outcome[mode[j]] \in Ended
  BY DEF Outcome, Cleaning, Ended
<1>5. mode' \in [Jobs -> Modes]
  BY <1>1, <1>4 DEF ModeAfter, ControlType, Modes
<1>6. ASSUME NEW i \in Jobs, i # j
      PROVE  mode'[i] = mode[i] /\ pc'[i] = pc[i]
  BY <1>1, <1>6 DEF ModeAfter, PcAfter, ControlType
<1>7. CASE IsLast(j)
  <2>1. mode'[j] \in Ended
    BY <1>1, <1>4, <1>7 DEF ModeAfter, ControlType
  <2>2. mode'[j] \notin {"chain"} \cup Cleaning
    BY <2>1 DEF Ended, Cleaning
  <2>3. \A i \in Jobs : ControlOf(i)'
    BY <1>6, <2>2 DEF ControlType, ControlOf, Ended, Cleaning
  <2> QED BY <1>2, <1>3, <1>5, <2>3 DEF ControlType
<1>8. CASE ~IsLast(j)
  <2>1. mode'[j] = mode[j] /\ pc'[j] = pc[j] + 1
    BY <1>1, <1>8 DEF ModeAfter, PcAfter, ControlType
  <2>2. job[j].action \in JobActions
    BY DEF ControlType, JobParams
  <2>3. pc[j] \in 1 .. Len(Tasks(j)) /\ Len(Tasks(j)) \in Nat
    BY <2>2, ChainLengths, OnErrorLengths
    DEF ControlType, ControlOf, Tasks, Cleaning
  <2>4. pc'[j] \in 1 .. Len(Tasks(j))
    BY <1>8, <2>1, <2>3 DEF IsLast
  <2>5. ControlOf(j)'
    BY <2>1, <2>4 DEF ControlType, ControlOf, Tasks, Cleaning
  <2>6. \A i \in Jobs : ControlOf(i)'
    BY <1>6, <2>5 DEF ControlType, ControlOf
  <2> QED BY <1>2, <1>3, <1>5, <2>6 DEF ControlType
<1> QED BY <1>7, <1>8

LEMMA FailControl ==
    ASSUME ControlType, NEW j \in Jobs, mode[j] = "chain",
           NEW l \in Locals, FailWith(j, l), UNCHANGED job
    PROVE  ControlType'
<1>1. job[j].action \in JobActions
  BY DEF ControlType, JobParams
<1>2. CASE OnError[job[j].action] = <<>>
  <2>1. /\ mode' = [mode EXCEPT ![j] = "failed"]
        /\ pc' = [pc EXCEPT ![j] = 0]
        /\ loc' = [loc EXCEPT ![j] = NoLocals]
    BY <1>2 DEF FailWith
  <2>2. \A i \in Jobs : ControlOf(i)'
    BY <2>1 DEF ControlType, ControlOf, Cleaning
  <2> QED BY <2>1, <2>2, NoLocalsType
          DEF ControlType, Modes, Ended
<1>3. CASE OnError[job[j].action] # <<>>
  <2>1. 1 \in 1 .. Len(OnError[job[j].action])
    BY <1>1, <1>3, OnErrorLengths
  <2>2. /\ mode' = [mode EXCEPT ![j] = "onerror"]
        /\ pc' = [pc EXCEPT ![j] = 1]
        /\ loc' = [loc EXCEPT ![j] = l]
    BY <1>3 DEF FailWith
  <2>3. \A i \in Jobs : ControlOf(i)'
    BY <2>1, <2>2 DEF ControlType, ControlOf, Cleaning
  <2> QED BY <2>2, <2>3 DEF ControlType, Modes, Cleaning
<1> QED BY <1>2, <1>3


LEMMA QueueControl ==
    ASSUME ControlType, NEW j \in Jobs, NEW k \in Jobs,
           mode[j] \in {"chain"} \cup Cleaning,
           NEW params \in JobParams, params.queue \in Servers,
           NEW rec \in Record, NEW l \in Locals, Queue(j, k, params, rec, l)
    PROVE  ControlType'
<1>1. mode[k] = "none" /\ k # j
  BY DEF Queue, Fresh, Cleaning
<1>2. [NoLocals EXCEPT !.rec = rec] \in Locals
  BY NoLocalsType DEF Locals
<1>3. LocAfter(j, l) \in [Jobs -> Locals]
  BY NoLocalsType DEF LocAfter, ControlType
<1>4. loc' \in [Jobs -> Locals]
  BY <1>2, <1>3 DEF Queue
<1>5. pc' \in [Jobs -> Nat] /\ job' \in [Jobs -> JobParams]
  BY DEF Queue, PcAfter, ControlType
<1>6. Outcome[mode[j]] \in Ended
  BY DEF Outcome, Cleaning, Ended
<1>7. mode' \in [Jobs -> Modes]
  BY <1>6 DEF Queue, ModeAfter, ControlType, Modes
<1>8. ControlOf(k)'
  <2>1. job'[k] = params /\ mode'[k] = "chain" /\ pc'[k] = 1
    BY DEF Queue, ModeAfter, PcAfter, ControlType
  <2>2. 1 \in 1 .. Len(Chain[params.action])
    BY ChainLengths DEF JobParams
  <2> QED BY <2>1, <2>2 DEF ControlOf, Cleaning
<1>9. ControlOf(j)'
  <2>1. job'[j] = job[j] /\ job[j].action \in JobActions
    BY <1>1 DEF Queue, ControlType, JobParams
  <2>2. CASE IsLast(j)
    <3>1. mode'[j] \in Ended /\ job[j].queue \in Servers
      BY <1>1, <1>6, <2>2
      DEF Queue, ModeAfter, ControlType, ControlOf, Cleaning
    <3> QED BY <2>1, <3>1 DEF ControlOf, Ended, Cleaning
  <2>3. CASE ~IsLast(j)
    <3>1. mode'[j] = mode[j] /\ pc'[j] = pc[j] + 1
      BY <1>1, <2>3 DEF Queue, ModeAfter, PcAfter, ControlType
    <3>2. pc[j] \in 1 .. Len(Tasks(j)) /\ Len(Tasks(j)) \in Nat
      BY <2>1, ChainLengths, OnErrorLengths
      DEF ControlType, ControlOf, Tasks, Cleaning
    <3>3. pc'[j] \in 1 .. Len(Tasks(j))
      BY <2>3, <3>1, <3>2 DEF IsLast
    <3> QED BY <2>1, <3>1, <3>3 DEF ControlType, ControlOf, Tasks, Cleaning
  <2> QED BY <2>2, <2>3
<1>10. ASSUME NEW i \in Jobs, i # j, i # k PROVE ControlOf(i)'
  BY <1>10 DEF Queue, ModeAfter, PcAfter, ControlType, ControlOf
<1> QED BY <1>4, <1>5, <1>7, <1>8, <1>9, <1>10 DEF ControlType

LEMMA ParamsType ==
    ASSUME DataType, NEW a \in JobActions,
           NEW subtask \in BOOLEAN, NEW final \in BOOLEAN
    PROVE  /\ Params(a, subtask, final) \in JobParams
           /\ Params(a, subtask, final).queue \in Servers
BY DEF Params, DataType, VmRecord, JobParams

LEMMA AtChain ==
    ASSUME NEW j \in Jobs, NEW task
    PROVE  /\ At(j, task) => mode[j] = "chain"
           /\ AtCleanup(j, task) => mode[j] \in Cleaning
BY DEF At, AtCleanup

LEMMA LocalsRec ==
    ASSUME ControlType, NEW j \in Jobs
    PROVE  /\ loc[j] \in Locals /\ loc[j].rec \in Record
           /\ \A rec \in Record : [loc[j] EXCEPT !.rec = rec] \in Locals
BY DEF ControlType, Locals

-----------------------------------------------------------------------------
(* The tasks that several workflows are made of.                           *)
LEMMA GoOnOrFail ==
    ASSUME ControlType, NEW j \in Jobs, mode[j] = "chain",
           GoOn(j) \/ Fail(j), UNCHANGED job
    PROVE  ControlType'
BY LocalsRec, ProceedControl, FailControl DEF GoOn, Fail

LEMMA CleanupGoesOn ==
    ASSUME ControlType, NEW j \in Jobs, mode[j] \in Cleaning, GoOn(j),
           UNCHANGED job
    PROVE  ControlType'
BY LocalsRec, ProceedControl DEF GoOn

LEMMA DataUnchanged ==
    ASSUME DataType, UNCHANGED <<db, vm, inst, ticket, used>>
    PROVE  DataType'
BY DEF DataType, db

LEMMA FaultType ==
    ASSUME DataType, Fault
    PROVE  used' \in [requests : Nat, faults : Nat, user : Nat]
BY DEF DataType, Fault

LEMMA CheckInv ==
    ASSUME IInv, NEW j \in Jobs, NEW task, NEW ok, Check(j, task, ok)
    PROVE  IInv'
BY AtChain, GoOnOrFail, DataUnchanged DEF Check, IInv

LEMMA ReloadInv ==
    ASSUME IInv, NEW j \in Jobs, NEW task, NEW ok, NEW idx,
           ok => idx \in Nat, Reload(j, task, ok, idx)
    PROVE  IInv'
<1>1. mode[j] = "chain" /\ UNCHANGED job
  BY AtChain DEF Reload
<1>2. ok => [loc[j] EXCEPT !.rec = Lookup, !.idx = idx] \in Locals
  BY LookupType, IInvTypeOK DEF IInv, ControlType, Locals
<1>3. ControlType'
  BY <1>1, <1>2, ProceedControl, GoOnOrFail DEF Reload, IInv
<1> QED BY <1>3, DataUnchanged DEF Reload, IInv

LEMMA StoreType ==
    ASSUME DataType, NEW rec \in Record, Store(rec)
    PROVE  /\ records' \in [RecordIds -> Record]
           /\ stored' \in [RecordIds -> {"never", "live", "deleted"}]
BY DEF DataType, Store

LEMMA StoreTaskInv ==
    ASSUME IInv, NEW j \in Jobs, mode[j] = "chain",
           NEW rec \in Record, NEW l \in Locals, StoreTask(j, rec, l)
    PROVE  IInv'
<1>1. [l EXCEPT !.rec = rec] \in Locals
  BY DEF Locals
<1>2. ControlType'
  BY <1>1, ProceedControl, FailControl DEF StoreTask, IInv
<1>3. DataType'
  BY StoreType, FaultType DEF StoreTask, IInv, DataType, db
<1> QED BY <1>2, <1>3 DEF IInv

LEMMA RequestSubtaskInv ==
    ASSUME IInv, NEW j \in Jobs, mode[j] = "chain", NEW a \in JobActions,
           NEW final \in BOOLEAN, NEW waits \in BOOLEAN,
           RequestSubtask(j, a, final, waits)
    PROVE  IInv'
<1>1. CASE Accepts(a, Lookup, TRUE)
  <2>1. PICK k \in Jobs :
          Queue(j, k, Params(a, TRUE, final), Lookup,
                IF waits THEN [loc[j] EXCEPT !.child = k] ELSE loc[j])
    BY <1>1 DEF RequestSubtask
  <2>2. (IF waits THEN [loc[j] EXCEPT !.child = k] ELSE loc[j]) \in Locals
    BY DEF IInv, ControlType, Locals
  <2>3. Lookup \in Record
    BY LookupType, IInvTypeOK
  <2>4. ControlType'
    BY <2>1, <2>2, <2>3, ParamsType, QueueControl DEF IInv
  <2> QED BY <2>4, DataUnchanged DEF RequestSubtask, IInv
<1>2. CASE ~Accepts(a, Lookup, TRUE)
  BY <1>2, GoOnOrFail, DataUnchanged DEF RequestSubtask, IInv
<1> QED BY <1>1, <1>2

LEMMA QueueChild ==
    ASSUME IInv, NEW j \in Jobs, mode[j] \in {"chain"} \cup Cleaning,
           NEW k \in Jobs, NEW a \in JobActions,
           Queue(j, k, Params(a, FALSE, FALSE), NoRecord,
                 [loc[j] EXCEPT !.child = k])
    PROVE  ControlType'
<1>1. [loc[j] EXCEPT !.child = k] \in Locals
  BY DEF IInv, ControlType, Locals
<1> QED BY <1>1, NoRecordType, ParamsType, QueueControl DEF IInv

LEMMA StopOrStartInv ==
    ASSUME IInv, NEW j \in Jobs, NEW task, NEW a \in {"stop", "start"},
           NEW needed \in BOOLEAN, StopOrStart(j, task, a, needed)
    PROVE  IInv'
<1>1. mode[j] \in {"chain"} \cup Cleaning
  BY AtChain DEF StopOrStart
<1>2. a \in JobActions
  BY JobActionsAre
<1>3. CASE needed
  BY <1>1, <1>2, <1>3, QueueChild, DataUnchanged DEF StopOrStart, IInv
<1>4. CASE ~needed
  BY <1>1, <1>4, GoOnOrFail, CleanupGoesOn, DataUnchanged DEF StopOrStart, IInv
<1> QED BY <1>3, <1>4

LEMMA SetDoNotInventoryInv ==
    ASSUME IInv, NEW j \in Jobs, NEW task, NEW s, NEW hidden \in BOOLEAN,
           NEW current, s \in Servers => current \in BOOLEAN,
           SetDoNotInventory(j, task, s, hidden, current)
    PROVE  IInv'
<1>1. ControlType'
  BY AtChain, GoOnOrFail DEF SetDoNotInventory, IInv
<1>2. inst' \in [Servers -> Instance]
  BY DEF SetDoNotInventory, Exists, IInv, DataType, Instance
<1> QED BY <1>1, <1>2 DEF SetDoNotInventory, IInv, DataType, db

LEMMA DeleteInstanceInv ==
    ASSUME IInv, NEW j \in Jobs, NEW task, NEW s, NEW mayBeGone,
           DeleteInstance(j, task, s, mayBeGone)
    PROVE  IInv'
<1>1. ControlType'
  BY AtChain, GoOnOrFail DEF DeleteInstance, IInv
<1>2. Gone \in Instance
  BY DEF Gone, Instance
<1>3. inst' \in [Servers -> Instance]
  BY <1>2 DEF DeleteInstance, IInv, DataType
<1> QED BY <1>1, <1>3 DEF DeleteInstance, IInv, DataType, db

-----------------------------------------------------------------------------
(* The initial states.                                                     *)
LEMMA InitInv == Init => IInv
<1> SUFFICES ASSUME Init PROVE IInv
  OBVIOUS
<1>1. DataType
  <2>1. records \in [RecordIds -> Record]
    BY NoRecordType DEF Init
  <2>2. vm \in VmRecord /\ inst \in [Servers -> Instance]
    BY DEF Init, VmRecord, Instance
  <2> QED BY <2>1, <2>2 DEF Init, DataType
<1>2. NoJob \in JobParams
  BY JobActionsAre DEF NoJob, JobParams
<1>3. ControlType
  BY <1>2, NoLocalsType DEF Init, ControlType, ControlOf, Modes, Cleaning
<1> QED BY <1>1, <1>3 DEF IInv

-----------------------------------------------------------------------------
(* The steps of the endpoint and of callers.                               *)
LEMMA RequestStepInv ==
    ASSUME IInv, NEW k \in Jobs, RequestStep(k)
    PROVE  IInv'
<1>1. CASE AbortWithoutTarget(k)
  <2>1. mode[k] = "request" /\ mode' = [mode EXCEPT ![k] = "succeeded"]
    BY <1>1 DEF AbortWithoutTarget
  <2>2. ControlType'
    BY <1>1, <2>1, NoLocalsType
    DEF AbortWithoutTarget, IInv, ControlType, ControlOf, Modes, Ended,
        Cleaning
  <2> QED BY <1>1, <2>2 DEF AbortWithoutTarget, IInv, DataType
<1>2. CASE StartWorkflow(k)
  <2>1. /\ mode[k] = "request" /\ mode' = [mode EXCEPT ![k] = "chain"]
        /\ pc' = [pc EXCEPT ![k] = 1] /\ UNCHANGED <<job, loc>>
    BY <1>2 DEF StartWorkflow
  <2>2. 1 \in 1 .. Len(Chain[job[k].action])
    BY ChainLengths DEF IInv, ControlType, JobParams
  <2>3. ASSUME NEW i \in Jobs PROVE ControlOf(i)'
    BY <2>1, <2>2 DEF IInv, ControlType, ControlOf, Cleaning
  <2>4. ControlType'
    BY <2>1, <2>3 DEF IInv, ControlType, Modes
  <2> QED BY <1>2, <2>4, DataUnchanged DEF StartWorkflow, IInv
<1>3. CASE CreateRecord(k)
  <2>1. PICK id \in RecordIds, auto \in Automatic :
          LET old == loc[k].rec
              rec == IF old.id = 0
                     THEN NewRecord(id, job[k].queue, auto) ELSE old
          IN  /\ Store(rec)
              /\ \/ /\ mode' = [mode EXCEPT ![k] = "chain"]
                    /\ pc' = [pc EXCEPT ![k] = 1]
                    /\ loc' = [loc EXCEPT ![k].rec = rec]
                    /\ UNCHANGED used
                 \/ /\ Fault
                    /\ mode' = [mode EXCEPT ![k] = "failed"]
                    /\ loc' = [loc EXCEPT ![k] = NoLocals]
                    /\ UNCHANGED pc
    BY <1>3 DEF CreateRecord
  <2> DEFINE rec == IF loc[k].rec.id = 0
                    THEN NewRecord(id, job[k].queue, auto) ELSE loc[k].rec
  <2>2. rec \in Record
    BY LocalsRec, NewRecordType, BoundsAssumption
    DEF IInv, ControlType, JobParams
  <2> HIDE DEF rec
  <2>3. /\ Store(rec)
        /\ \/ /\ mode' = [mode EXCEPT ![k] = "chain"]
              /\ pc' = [pc EXCEPT ![k] = 1]
              /\ loc' = [loc EXCEPT ![k].rec = rec]
              /\ UNCHANGED used
           \/ /\ Fault
              /\ mode' = [mode EXCEPT ![k] = "failed"]
              /\ loc' = [loc EXCEPT ![k] = NoLocals]
              /\ UNCHANGED pc
    BY <2>1 DEF rec
  <2>4. mode[k] = "request" /\ UNCHANGED <<vm, inst, ticket, job>>
    BY <1>3 DEF CreateRecord
  <2>5. DataType'
    BY <2>2, <2>3, <2>4, StoreType, FaultType DEF IInv, DataType
  <2>6. 1 \in 1 .. Len(Chain[job[k].action])
    BY ChainLengths DEF IInv, ControlType, JobParams
  <2>7. ASSUME NEW i \in Jobs PROVE ControlOf(i)'
    BY <2>3, <2>4, <2>6 DEF IInv, ControlType, ControlOf, Cleaning
  <2>8. loc' \in [Jobs -> Locals]
    BY <2>2, <2>3, NoLocalsType DEF IInv, ControlType, Locals
  <2>9. ControlType'
    BY <2>3, <2>4, <2>7, <2>8 DEF IInv, ControlType, Modes, Ended
  <2> QED BY <2>5, <2>9 DEF IInv
<1> QED BY <1>1, <1>2, <1>3 DEF RequestStep

LEMMA RequestMigrationInv ==
    ASSUME IInv, NEW k \in Jobs, RequestMigration(k)
    PROVE  IInv'
<1>1. mode[k] = "none" /\ mode' = [mode EXCEPT ![k] = "request"]
  BY DEF RequestMigration, Fresh
<1>2. PICK a \in Requested : job' = [job EXCEPT ![k] = Params(a, FALSE, FALSE)]
  BY DEF RequestMigration
<1>3. a \in JobActions
  BY BoundsAssumption, JobActionsAre DEF MigrationActions
<1>4. /\ Params(a, FALSE, FALSE) \in JobParams
      /\ Params(a, FALSE, FALSE).queue \in Servers
  BY <1>3, ParamsType DEF IInv
<1>5. loc' = [loc EXCEPT ![k].rec = Lookup] /\ Lookup \in Record
  BY LookupType, IInvTypeOK DEF RequestMigration
<1>6. UNCHANGED <<db, vm, inst, ticket, pc>>
  BY DEF RequestMigration
<1>7. used' \in [requests : Nat, faults : Nat, user : Nat]
  BY DEF RequestMigration, IInv, DataType
<1>8. ASSUME NEW i \in Jobs PROVE ControlOf(i)'
  BY <1>1, <1>2, <1>4, <1>6 DEF IInv, ControlType, ControlOf, Cleaning
<1>9. loc' \in [Jobs -> Locals]
  BY <1>5 DEF IInv, ControlType, Locals
<1>10. ControlType'
  BY <1>1, <1>2, <1>4, <1>6, <1>8, <1>9 DEF IInv, ControlType, Modes
<1> QED BY <1>6, <1>7, <1>10 DEF IInv, DataType, db

LEMMA UserStartsOrStopsInv ==
    ASSUME IInv, NEW k \in Jobs, UserStartsOrStops(k)
    PROVE  IInv'
<1>1. /\ mode[k] = "none" /\ mode' = [mode EXCEPT ![k] = "chain"]
      /\ pc' = [pc EXCEPT ![k] = 1]
  BY DEF UserStartsOrStops, Fresh
<1>2. PICK a \in {"start", "stop"} :
        job' = [job EXCEPT ![k] = Params(a, FALSE, FALSE)]
  BY DEF UserStartsOrStops
<1>3. a \in JobActions
  BY JobActionsAre
<1>4. /\ Params(a, FALSE, FALSE) \in JobParams
      /\ Params(a, FALSE, FALSE).queue \in Servers
      /\ Params(a, FALSE, FALSE).action = a
  BY <1>3, ParamsType DEF IInv, Params
<1>5. 1 \in 1 .. Len(Chain[a])
  BY <1>3, ChainLengths
<1>6. UNCHANGED <<db, vm, inst, ticket, loc>>
  BY DEF UserStartsOrStops
<1>7. used' \in [requests : Nat, faults : Nat, user : Nat]
  BY DEF UserStartsOrStops, UserAction, IInv, DataType
<1>8. ASSUME NEW i \in Jobs PROVE ControlOf(i)'
  BY <1>1, <1>2, <1>4, <1>5 DEF IInv, ControlType, ControlOf, Cleaning
<1>9. ControlType'
  BY <1>1, <1>2, <1>4, <1>6, <1>8 DEF IInv, ControlType, Modes
<1> QED BY <1>6, <1>7, <1>9 DEF IInv, DataType, db

LEMMA DeleteVmMigrationInv ==
    ASSUME IInv, DeleteVmMigration
    PROVE  IInv'
<1>1. stored' \in [RecordIds -> {"never", "live", "deleted"}]
  BY DEF DeleteVmMigration, IInv, DataType
<1>2. used' \in [requests : Nat, faults : Nat, user : Nat]
  BY DEF DeleteVmMigration, UserAction, IInv, DataType
<1> QED BY <1>1, <1>2
        DEF DeleteVmMigration, IInv, DataType, ControlType, ControlOf

(* Faults, tickets that expire and the reports of the agents.              *)
LEMMA FaultsInv ==
    ASSUME IInv, NEW j \in Jobs, TaskFails(j) \/ CleanupFails(j)
    PROVE  IInv'
<1>1. CASE TaskFails(j)
  <2>1. ControlType'
    BY <1>1, GoOnOrFail DEF TaskFails, IInv
  <2> QED BY <1>1, <2>1, FaultType DEF TaskFails, IInv, DataType, db
<1>2. CASE CleanupFails(j)
  <2>1. mode[j] \in Cleaning /\ mode' = [mode EXCEPT ![j] = Outcome[@]]
    BY <1>2, AtChain DEF CleanupFails
  <2>2. Outcome[mode[j]] \in Ended
    BY <2>1 DEF Outcome, Cleaning, Ended
  <2>3. ASSUME NEW i \in Jobs PROVE ControlOf(i)'
    BY <1>2, <2>1, <2>2
    DEF CleanupFails, IInv, ControlType, ControlOf, Cleaning, Ended
  <2>4. ControlType'
    BY <1>2, <2>1, <2>2, <2>3, NoLocalsType
    DEF CleanupFails, IInv, ControlType, Modes
  <2> QED BY <1>2, <2>4, FaultType DEF CleanupFails, IInv, DataType, db
<1> QED BY <1>1, <1>2

LEMMA EnvironmentInv ==
    ASSUME IInv, NEW s \in Servers, TicketExpires(s) \/ AgentReport(s)
    PROVE  IInv'
<1>1. ControlType'
  BY DEF TicketExpires, AgentReport, IInv, ControlType, ControlOf
<1>2. CASE TicketExpires(s)
  BY <1>1, <1>2 DEF TicketExpires, IInv, DataType, db
<1>3. CASE AgentReport(s)
  <2>1. vm' \in VmRecord
    BY <1>3 DEF AgentReport, VmRecord
  <2> QED BY <1>1, <1>3, <2>1 DEF AgentReport, IInv, DataType, db
<1> QED BY <1>2, <1>3

-----------------------------------------------------------------------------
(* The steps of the jobs, workflow by workflow.                            *)
LEMMA TicketTasksInv ==
    ASSUME IInv, NEW j \in Jobs,
           \/ AcquireVMTicket(j) \/ ReleaseVMTicket(j)
           \/ ReleaseVMTicketIgnoringErr(j)
    PROVE  IInv'
<1>1. UNCHANGED <<db, vm, inst, job, used>>
  BY DEF AcquireVMTicket, ReleaseVMTicket, ReleaseVMTicketIgnoringErr
<1>2. ControlType'
  BY AtChain, GoOnOrFail, CleanupGoesOn
  DEF AcquireVMTicket, ReleaseVMTicket, ReleaseVMTicketIgnoringErr, IInv
<1>3. ticket' \in [Servers -> Jobs \cup {0}]
  BY DEF AcquireVMTicket, ReleaseVMTicket, ReleaseVMTicketIgnoringErr, IInv,
         DataType
<1> QED BY <1>1, <1>2, <1>3 DEF IInv, DataType, db

LEMMA StoreTasksInv ==
    ASSUME IInv, NEW j \in Jobs,
           \/ StoreInitialRecord(j) \/ SetRecordStateRunning(j)
           \/ StoreReservedNetworkIps(j) \/ StoreSuccess(j) \/ StoreRecord(j)
    PROVE  IInv'
<1>1. loc[j] \in Locals /\ loc[j].rec \in Record
  BY LocalsRec DEF IInv
<1>2. job[j].subtask \in BOOLEAN /\ job[j].action \in JobActions
  BY DEF IInv, ControlType, JobParams
<1>3. CASE StoreInitialRecord(j)
  <2> DEFINE rec == Started(loc[j].rec, job[j].action, j)
             l == [loc[j] EXCEPT !.idx = Len(rec.history)]
  <2>1. mode[j] = "chain" /\ Chain[job[j].action][pc[j]] = "storeInitialRecord"
    BY <1>3 DEF StoreInitialRecord, At
  <2>2. pc[j] \in 1 .. Len(Chain[job[j].action])
    BY <2>1 DEF IInv, ControlType, ControlOf
  <2>3. job[j].action \in Phases
    BY <1>2, <2>1, <2>2, StorePhases
  <2>4. rec \in Record
    BY <1>1, <2>3, StartedType
  <2>5. Len(rec.history) \in Nat
    BY <2>4, LenProperties DEF Record
  <2>6. StoreTask(j, rec, l)
    BY <1>3 DEF StoreInitialRecord
  <2> HIDE DEF rec
  <2>7. l \in Locals
    BY <1>1, <2>5 DEF Locals
  <2> HIDE DEF l
  <2> QED BY <2>1, <2>4, <2>6, <2>7, StoreTaskInv
<1>4. CASE SetRecordStateRunning(j)
  <2>1. [loc[j].rec EXCEPT !.state = "running"] \in Record
    BY <1>1 DEF Record, States
  <2>2. [loc[j] EXCEPT !.idx = 0] \in Locals
    BY <1>1 DEF Locals
  <2> QED BY <1>4, <2>1, <2>2, AtChain, StoreTaskInv DEF SetRecordStateRunning
<1>5. CASE StoreReservedNetworkIps(j)
  BY <1>1, <1>5, AtChain, StoreTaskInv DEF StoreReservedNetworkIps
<1>6. CASE StoreSuccess(j)
  <2>1. Succeeded(loc[j].rec, job[j].action, loc[j].idx, job[j].subtask)
          \in Record
    BY <1>1, <1>2, SucceededType
  <2> QED BY <1>1, <1>6, <2>1, AtChain, StoreTaskInv DEF StoreSuccess
<1>7. CASE StoreRecord(j)
  BY <1>1, <1>7, AtChain, PausedType, StoreTaskInv DEF StoreRecord
<1> QED BY <1>3, <1>4, <1>5, <1>6, <1>7

LEMMA StoreFailureInv ==
    ASSUME IInv, NEW j \in Jobs, StoreFailure(j)
    PROVE  IInv'
<1> DEFINE rec == Failed(loc[j].rec, job[j].action, loc[j].idx,
                         loc[j].noRetry, j)
<1>1. /\ mode[j] \in Cleaning
      /\ OnError[job[j].action][pc[j]] = "storeFailure"
  BY DEF StoreFailure, AtCleanup
<1>2. /\ pc[j] \in 1 .. Len(OnError[job[j].action])
      /\ job[j].action \in JobActions
  BY <1>1 DEF IInv, ControlType, ControlOf, JobParams
<1>3. job[j].action \in Phases
  BY <1>1, <1>2, StorePhases
<1>4. rec \in Record
  BY <1>3, FailedType DEF IInv, ControlType, Locals
<1>5. /\ \/ Store(rec) /\ UNCHANGED used
         \/ Fault /\ UNCHANGED db
      /\ Proceed(j, [loc[j] EXCEPT !.rec = rec])
      /\ UNCHANGED <<vm, inst, ticket, job>>
  BY DEF StoreFailure
<1> HIDE DEF rec
<1>6. [loc[j] EXCEPT !.rec = rec] \in Locals
  BY <1>4, LocalsRec DEF IInv
<1>7. ControlType'
  BY <1>1, <1>5, <1>6, ProceedControl DEF IInv
<1>8. DataType'
  BY <1>4, <1>5, StoreType, FaultType DEF IInv, DataType, db
<1> QED BY <1>7, <1>8 DEF IInv

LEMMA WaitAndFlagInv ==
    ASSUME IInv, NEW j \in Jobs,
           DisallowRetry(j) \/ WaitForWorkflowJob(j) \/ UnreserveNetworkIps(j)
    PROVE  IInv'
<1>1. UNCHANGED <<db, vm, inst, ticket, job, used>>
  BY DEF DisallowRetry, WaitForWorkflowJob, UnreserveNetworkIps
<1>2. CASE DisallowRetry(j)
  <2>1. [loc[j] EXCEPT !.noRetry = TRUE] \in Locals
    BY DEF IInv, ControlType, Locals
  <2> QED BY <1>1, <1>2, <2>1, AtChain, ProceedControl, DataUnchanged
          DEF DisallowRetry, IInv
<1>3. CASE WaitForWorkflowJob(j)
  BY <1>1, <1>3, AtChain, GoOnOrFail, DataUnchanged
  DEF WaitForWorkflowJob, IInv
<1>4. CASE UnreserveNetworkIps(j)
  BY <1>1, <1>4, AtChain, CleanupGoesOn, DataUnchanged
  DEF UnreserveNetworkIps, IInv
<1> QED BY <1>2, <1>3, <1>4

LEMMA StartStopTasksInv ==
    ASSUME IInv, NEW j \in Jobs,
           EnsureVmState(j) \/ StartVm(j) \/ StopVm(j) \/ PutVm(j)
    PROVE  IInv'
<1>1. CASE EnsureVmState(j)
  BY <1>1, CheckInv DEF EnsureVmState
<1>2. CASE StartVm(j)
  <2>1. ControlType' /\ UNCHANGED <<db, vm, ticket, job, used>>
    BY <1>2, AtChain, GoOnOrFail DEF StartVm, IInv
  <2>2. inst \in [Servers -> Instance]
    BY DEF IInv, DataType
  <2>3. ASSUME NEW t \in Servers
        PROVE  /\ [inst[t] EXCEPT !.running = TRUE] \in Instance
               /\ [inst[t] EXCEPT !.current = FALSE] \in Instance
    BY <2>2 DEF Instance
  <2>4. inst' \in [Servers -> Instance]
    BY <1>2, <2>2, <2>3 DEF StartVm
  <2> QED BY <2>1, <2>4 DEF IInv, DataType, db
<1>3. CASE StopVm(j)
  <2>1. ControlType' /\ UNCHANGED <<db, vm, ticket, job, used>>
    BY <1>3, AtChain, GoOnOrFail DEF StopVm, IInv
  <2>2. inst \in [Servers -> Instance]
    BY DEF IInv, DataType
  <2>3. ASSUME NEW t \in Servers
        PROVE  [inst[t] EXCEPT !.running = FALSE] \in Instance
    BY <2>2 DEF Instance
  <2>4. inst' \in [Servers -> Instance]
    BY <1>3, <2>2, <2>3 DEF StopVm
  <2> QED BY <2>1, <2>4 DEF IInv, DataType, db
<1>4. CASE PutVm(j)
  <2>1. mode[j] = "chain" /\ UNCHANGED <<db, inst, ticket, job, used>>
    BY <1>4, AtChain DEF PutVm
  <2>2. ControlType'
    BY <1>4, <2>1, GoOnOrFail DEF PutVm, IInv
  <2>3. job[j].queue \in Servers
    BY <2>1 DEF IInv, ControlType, ControlOf
  <2>4. vm' \in VmRecord
    BY <1>4, <2>3 DEF PutVm, VmRecord
  <2> QED BY <2>1, <2>2, <2>4 DEF IInv, DataType, db
<1> QED BY <1>1, <1>2, <1>3, <1>4

LEMMA BeginTasksInv ==
    ASSUME IInv, NEW j \in Jobs,
           AllocateServer(j) \/ ProvisionVm(j) \/ StartSyncWhenAutomatic(j)
    PROVE  IInv'
<1>1. CASE AllocateServer(j)
  <2>1. PICK s \in Servers \cup {NoServer} :
          Proceed(j, [loc[j] EXCEPT !.rec.target = s])
    BY <1>1, LocalsRec DEF AllocateServer, IInv, Record
  <2>2. [loc[j] EXCEPT !.rec.target = s] \in Locals
    BY SMTT(20), LocalsRec DEF IInv, Locals, Record
  <2>3. mode[j] = "chain" /\ UNCHANGED <<db, vm, inst, ticket, job, used>>
    BY <1>1, AtChain DEF AllocateServer
  <2> QED BY <2>1, <2>2, <2>3, ProceedControl, DataUnchanged DEF IInv
<1>2. CASE ProvisionVm(j)
  <2>1. ControlType' /\ UNCHANGED <<db, vm, ticket, job, used>>
    BY <1>2, AtChain, GoOnOrFail DEF ProvisionVm, IInv
  <2>2. [exists |-> TRUE, hidden |-> TRUE, running |-> FALSE,
         current |-> FALSE] \in Instance
    BY DEF Instance
  <2>3. inst' \in [Servers -> Instance]
    BY <1>2, <2>2 DEF ProvisionVm, IInv, DataType
  <2> QED BY <2>1, <2>3 DEF IInv, DataType, db
<1>3. CASE StartSyncWhenAutomatic(j)
  <2>1. mode[j] = "chain" /\ "sync" \in JobActions
    BY <1>3, AtChain, JobActionsAre DEF StartSyncWhenAutomatic
  <2>2. CASE loc[j].rec.auto
    BY <1>3, <2>1, <2>2, RequestSubtaskInv DEF StartSyncWhenAutomatic
  <2>3. CASE ~loc[j].rec.auto
    BY <1>3, <2>1, <2>3, GoOnOrFail, DataUnchanged
    DEF StartSyncWhenAutomatic, IInv
  <2> QED BY <2>2, <2>3
<1> QED BY <1>1, <1>2, <1>3

(* A job that is stopped by another one, a sync's by a cleanup or a pause, *)
(* goes to its onerror chain, which is not empty.                          *)
LEMMA InterruptControl ==
    ASSUME ControlType, NEW j \in Jobs, mode[j] \in {"chain"} \cup Cleaning,
           NEW k \in Jobs, mode[k] = "chain",
           OnError[job[k].action] # <<>>, NEW m \in Cleaning,
           mode' = [ModeAfter(j) EXCEPT ![k] = m],
           pc' = [PcAfter(j) EXCEPT ![k] = 1],
           loc' = LocAfter(j, loc[j]), UNCHANGED job
    PROVE  ControlType'
<1>1. 1 \in 1 .. Len(OnError[job[k].action])
  BY OnErrorLengths DEF ControlType, JobParams
<1>2. loc' \in [Jobs -> Locals]
  BY NoLocalsType DEF LocAfter, ControlType
<1>3. Outcome[mode[j]] \in Ended
  BY DEF Outcome, Cleaning, Ended
<1>4. mode' \in [Jobs -> Modes] /\ pc' \in [Jobs -> Nat]
  <2>1. ModeAfter(j) \in [Jobs -> Modes] /\ PcAfter(j) \in [Jobs -> Nat]
    BY <1>3 DEF ModeAfter, PcAfter, ControlType, Modes
  <2> QED BY <2>1 DEF Modes
<1>5. ControlOf(k)'
  <2>1. mode'[k] = m /\ pc'[k] = 1 /\ job' = job
    BY DEF ModeAfter, PcAfter, ControlType
  <2>2. job[k].queue \in Servers
    BY DEF ControlType, ControlOf
  <2> QED BY <1>1, <2>1, <2>2 DEF ControlOf, Cleaning
<1>6. ASSUME j # k PROVE ControlOf(j)'
  <2>1. job[j].queue \in Servers /\ job[j].action \in JobActions
    BY DEF ControlType, ControlOf, JobParams, Cleaning
  <2>2. CASE IsLast(j)
    <3>1. mode'[j] \in Ended
      BY <1>3, <1>6, <2>2 DEF ModeAfter, ControlType
    <3> QED BY <2>1, <3>1 DEF ControlOf, Ended, Cleaning
  <2>3. CASE ~IsLast(j)
    <3>1. mode'[j] = mode[j] /\ pc'[j] = pc[j] + 1
      BY <1>6, <2>3 DEF ModeAfter, PcAfter, ControlType
    <3>2. pc[j] \in 1 .. Len(Tasks(j)) /\ Len(Tasks(j)) \in Nat
      BY <2>1, ChainLengths, OnErrorLengths
      DEF ControlType, ControlOf, Tasks, Cleaning
    <3>3. pc'[j] \in 1 .. Len(Tasks(j))
      BY <2>3, <3>1, <3>2 DEF IsLast
    <3> QED BY <2>1, <3>1, <3>3 DEF ControlOf, Tasks, Cleaning
  <2> QED BY <2>2, <2>3
<1>7. ASSUME NEW i \in Jobs, i # j, i # k PROVE ControlOf(i)'
  BY <1>7 DEF ModeAfter, PcAfter, ControlType, ControlOf
<1> QED BY <1>2, <1>4, <1>5, <1>6, <1>7 DEF ControlType

LEMMA SyncTasksInv ==
    ASSUME IInv, NEW j \in Jobs,
           \/ StoreProcessDetails(j) \/ Sync(j)
           \/ StartSyncOrSwitchWhenAutomatic(j) \/ StartFinalSync(j)
    PROVE  IInv'
<1>1. CASE StoreProcessDetails(j)
  <2>1. mode[j] = "chain" /\ loc[j] \in Locals /\ loc[j].rec \in Record
    BY <1>1, AtChain, LocalsRec DEF StoreProcessDetails, IInv
  <2>2. [loc[j].rec EXCEPT !.proc = j] \in Record
    BY <2>1 DEF Record
  <2>3. CASE StoreTask(j, [loc[j].rec EXCEPT !.proc = j], loc[j])
    BY <2>1, <2>2, <2>3, StoreTaskInv
  <2>4. CASE Fail(j) /\ UNCHANGED <<db, vm, inst, ticket, job, used>>
    BY <2>1, <2>4, GoOnOrFail, DataUnchanged DEF IInv
  <2> QED BY <1>1, <2>3, <2>4 DEF StoreProcessDetails
<1>2. CASE Sync(j)
  <2>1. ControlType' /\ UNCHANGED <<db, vm, ticket, job, used>>
    BY <1>2, AtChain, GoOnOrFail DEF Sync, IInv
  <2>2. inst \in [Servers -> Instance]
    BY DEF IInv, DataType
  <2>3. ASSUME NEW t \in Servers, NEW b \in BOOLEAN
        PROVE  [inst[t] EXCEPT !.current = b] \in Instance
    BY <2>2 DEF Instance
  <2>4. ASSUME NEW s \in Servers
        PROVE  (inst[s].current /\ ~inst[s].running) \in BOOLEAN
    OBVIOUS
  <2>5. inst' \in [Servers -> Instance]
    BY <1>2, <2>2, <2>3, <2>4 DEF Sync, Exists
  <2> QED BY <2>1, <2>5 DEF IInv, DataType, db
<1>3. CASE StartSyncOrSwitchWhenAutomatic(j)
  <2> DEFINE a == IF loc[j].rec.syncs < 2 THEN "sync" ELSE "switch"
  <2>1. mode[j] = "chain" /\ a \in JobActions
    BY <1>3, AtChain, JobActionsAre DEF StartSyncOrSwitchWhenAutomatic
  <2>2. CASE loc[j].rec.auto /\ ~job[j].final
    <3>1. RequestSubtask(j, a, FALSE, FALSE)
      BY <1>3, <2>2 DEF StartSyncOrSwitchWhenAutomatic
    <3> HIDE DEF a
    <3> QED BY <2>1, <3>1, RequestSubtaskInv
  <2>3. CASE ~(loc[j].rec.auto /\ ~job[j].final)
    BY <1>3, <2>1, <2>3, GoOnOrFail, DataUnchanged
    DEF StartSyncOrSwitchWhenAutomatic, IInv
  <2> QED BY <2>2, <2>3
<1>4. CASE StartFinalSync(j)
  BY <1>4, AtChain, JobActionsAre, RequestSubtaskInv DEF StartFinalSync
<1> QED BY <1>1, <1>2, <1>3, <1>4

LEMMA CleanupInv ==
    ASSUME IInv, NEW j \in Jobs, Cleanup(j)
    PROVE  IInv'
<1> DEFINE k == loc[j].rec.proc
<1>1. mode[j] \in {"chain"} \cup Cleaning
  BY AtChain DEF Cleanup
<1>2. UNCHANGED <<db, vm, inst, ticket, job, used>>
  BY DEF Cleanup
<1>3. CASE k \notin {0, j} /\ At(k, "sync")
  <2>1. k \in Jobs
    BY <1>3, LocalsRec DEF IInv, Record
  <2>2. mode[k] = "chain" /\ Chain[job[k].action][pc[k]] = "sync"
    BY <1>3 DEF At
  <2>3. pc[k] \in 1 .. Len(Chain[job[k].action])
    BY <2>1, <2>2 DEF IInv, ControlType, ControlOf
  <2>4. job[k].action # "finalize"
    <3>1. SUFFICES ASSUME job[k].action = "finalize" PROVE FALSE
      OBVIOUS
    <3> DEFINE i == pc[k]
    <3>2. i \in 1 .. Len(Chain["finalize"]) /\ Chain["finalize"][i] = "sync"
      BY <2>2, <2>3, <3>1
    <3> HIDE DEF i
    <3> QED BY <3>2 DEF Chain, Chains
  <2>5. OnError[job[k].action] # <<>>
    BY <2>1, <2>4, OnErrorLengths DEF IInv, ControlType, JobParams
  <2>6. /\ mode' = [ModeAfter(j) EXCEPT ![k] = "onerror"]
        /\ pc' = [PcAfter(j) EXCEPT ![k] = 1]
        /\ loc' = LocAfter(j, loc[j])
    BY <1>3 DEF Cleanup
  <2>7. "onerror" \in Cleaning
    BY DEF Cleaning
  <2> HIDE DEF k
  <2>8. ControlType'
    BY <1>1, <1>2, <2>1, <2>2, <2>5, <2>6, <2>7, InterruptControl DEF IInv
  <2> QED BY <1>2, <2>8, DataUnchanged DEF IInv
<1>4. CASE ~(k \notin {0, j} /\ At(k, "sync"))
  <2>1. GoOn(j)
    BY <1>4 DEF Cleanup
  <2> QED BY <1>1, <1>2, <2>1, GoOnOrFail, CleanupGoesOn, DataUnchanged
          DEF IInv
<1> QED BY <1>3, <1>4

LEMMA PauseTasksInv ==
    ASSUME IInv, NEW j \in Jobs,
           ValidateSyncIsRunning(j) \/ CancelSyncWorkflow(j)
    PROVE  IInv'
<1>1. CASE ValidateSyncIsRunning(j)
  <2> DEFINE syncs == RunningSyncs(Lookup)
  <2>1. Lookup \in Record
    BY LookupType, IInvTypeOK
  <2>2. syncs \subseteq Nat
    BY <2>1, LenProperties DEF RunningSyncs, Record
  <2>3. Cardinality(syncs) = 1 => syncs # {}
    BY FS_EmptySet
  <2>4. Reload(j, "validateSyncIsRunning", Cardinality(syncs) = 1,
               CHOOSE i \in syncs : TRUE)
    BY <1>1 DEF ValidateSyncIsRunning
  <2> HIDE DEF syncs
  <2>5. Cardinality(syncs) = 1 => (CHOOSE i \in syncs : TRUE) \in Nat
    BY <2>2, <2>3
  <2> QED BY <2>4, <2>5, ReloadInv
<1>2. CASE CancelSyncWorkflow(j)
  <2> DEFINE k == loc[j].rec.history[loc[j].idx].job
  <2>1. mode[j] = "chain" /\ UNCHANGED <<db, vm, inst, ticket, job, used>>
    BY <1>2, AtChain DEF CancelSyncWorkflow
  <2>2. \/ /\ mode[k] = "chain" /\ job[k].action # "finalize"
           /\ mode' = [ModeAfter(j) EXCEPT ![k] = "canceling"]
           /\ pc' = [PcAfter(j) EXCEPT ![k] = 1]
           /\ loc' = LocAfter(j, loc[j])
        \/ GoOn(j)
    BY <1>2 DEF CancelSyncWorkflow
  <2> HIDE DEF k
  <2>3. CASE GoOn(j)
    BY <2>1, <2>3, GoOnOrFail, DataUnchanged DEF IInv
  <2>4. CASE ~GoOn(j) /\ k \in Jobs
    <3>1. OnError[job[k].action] # <<>>
      BY <2>2, <2>4, OnErrorLengths DEF IInv, ControlType, JobParams
    <3>2. "canceling" \in Cleaning
      BY DEF Cleaning
    <3>3. ControlType'
      BY <2>1, <2>2, <2>4, <3>1, <3>2, InterruptControl DEF IInv
    <3> QED BY <2>1, <3>3, DataUnchanged DEF IInv
  <2>5. CASE ~GoOn(j) /\ k \notin Jobs
    <3>1. mode' = ModeAfter(j) /\ pc' = PcAfter(j)
      BY <2>2, <2>5 DEF ModeAfter, PcAfter, IInv, ControlType
    <3> QED BY <2>2, <2>5, <3>1 DEF GoOn, Proceed
  <2> QED BY <2>3, <2>4, <2>5
<1> QED BY <1>1, <1>2

LEMMA InstanceFields ==
    ASSUME IInv, NEW s
    PROVE  s \in Servers => inst[s].current \in BOOLEAN
BY DEF IInv, DataType, Instance

LEMMA SwitchTasksInv ==
    ASSUME IInv, NEW j \in Jobs,
           \/ StopSourceVm(j) \/ GetRecord(j) \/ EnsureSourceVmStopped(j)
           \/ SetupTarget(j) \/ SetSourceDoNotInventory(j)
           \/ UpdateVmServerUuid(j) \/ RemoveTargetDoNotInventory(j)
           \/ StartTargetVm(j) \/ StartSourceVm(j)
    PROVE  IInv'
<1>1. CASE StopSourceVm(j)
  BY <1>1, StopOrStartInv DEF StopSourceVm
<1>2. CASE GetRecord(j)
  <2>1. loc[j].idx \in Nat
    BY DEF IInv, ControlType, Locals
  <2> QED BY <1>2, <2>1, ReloadInv DEF GetRecord
<1>3. CASE EnsureSourceVmStopped(j)
  BY <1>3, CheckInv DEF EnsureSourceVmStopped
<1>4. CASE SetupTarget(j)
  BY <1>4, CheckInv DEF SetupTarget
<1>5. CASE SetSourceDoNotInventory(j)
  BY <1>5, InstanceFields, SetDoNotInventoryInv DEF SetSourceDoNotInventory
<1>6. CASE UpdateVmServerUuid(j)
  <2>1. mode[j] = "chain" /\ UNCHANGED <<db, inst, ticket, job, used>>
    BY <1>6, AtChain DEF UpdateVmServerUuid
  <2>2. ControlType'
    BY <1>6, <2>1, GoOnOrFail DEF UpdateVmServerUuid, IInv
  <2>3. loc[j].rec.target \in Servers \cup {NoServer}
    BY LocalsRec DEF IInv, Record
  <2>4. vm' \in VmRecord
    BY <1>6, <2>3 DEF UpdateVmServerUuid, IInv, DataType, VmRecord
  <2> QED BY <2>1, <2>2, <2>4 DEF IInv, DataType, db
<1>7. CASE RemoveTargetDoNotInventory(j)
  BY <1>7, InstanceFields, SetDoNotInventoryInv DEF RemoveTargetDoNotInventory
<1>8. CASE StartTargetVm(j)
  BY <1>8, StopOrStartInv DEF StartTargetVm
<1>9. CASE StartSourceVm(j)
  BY <1>9, StopOrStartInv DEF StartSourceVm
<1> QED BY <1>1, <1>2, <1>3, <1>4, <1>5, <1>6, <1>7, <1>8, <1>9

LEMMA RollbackTasksInv ==
    ASSUME IInv, NEW j \in Jobs,
           \/ EnsureSourceVmHasDni(j) \/ StopTargetVm(j)
           \/ EnsureTargetVmStopped(j) \/ SetTargetDoNotInventory(j)
           \/ RemoveSourceDoNotInventory(j)
    PROVE  IInv'
<1>1. CASE EnsureSourceVmHasDni(j)
  BY <1>1, CheckInv DEF EnsureSourceVmHasDni
<1>2. CASE StopTargetVm(j)
  <2>1. mode[j] = "chain" /\ UNCHANGED <<db, vm, inst, ticket, used>>
    BY <1>2, AtChain DEF StopTargetVm
  <2>2. /\ [loc[j] EXCEPT !.child = 0] \in Locals
        /\ [loc[j] EXCEPT !.child = 0, !.targetHidden = TRUE] \in Locals
    BY LocalsRec DEF IInv, Locals
  <2>3. \/ /\ UNCHANGED job
           /\ \/ Fail(j)
              \/ Proceed(j, [loc[j] EXCEPT !.child = 0])
              \/ Proceed(j, [loc[j] EXCEPT !.child = 0,
                                           !.targetHidden = TRUE])
        \/ \E k \in Jobs : Queue(j, k, Params("stop", FALSE, FALSE),
                                 NoRecord, [loc[j] EXCEPT !.child = k])
    BY <1>2 DEF StopTargetVm
  <2>4. "stop" \in JobActions
    BY JobActionsAre
  <2>5. ControlType'
    BY <2>1, <2>2, <2>3, <2>4, ProceedControl, GoOnOrFail, QueueChild
    DEF IInv
  <2> QED BY <2>1, <2>5, DataUnchanged DEF IInv
<1>3. CASE EnsureTargetVmStopped(j)
  BY <1>3, CheckInv DEF EnsureTargetVmStopped
<1>4. CASE SetTargetDoNotInventory(j)
  BY <1>4, InstanceFields, CheckInv, SetDoNotInventoryInv
  DEF SetTargetDoNotInventory
<1>5. CASE RemoveSourceDoNotInventory(j)
  BY <1>5, SetDoNotInventoryInv DEF RemoveSourceDoNotInventory
<1> QED BY <1>1, <1>2, <1>3, <1>4, <1>5

LEMMA RemovalTasksInv ==
    ASSUME IInv, NEW j \in Jobs,
           \/ EnsureTargetVmHasDni(j) \/ AbortDeleteTargetDniVm(j)
           \/ RollbackDeleteTargetDniVm(j) \/ DeleteSourceVm(j)
           \/ RemoveMigrationRecord(j)
    PROVE  IInv'
<1>1. CASE EnsureTargetVmHasDni(j)
  BY <1>1, CheckInv DEF EnsureTargetVmHasDni
<1>2. CASE AbortDeleteTargetDniVm(j) \/ RollbackDeleteTargetDniVm(j)
             \/ DeleteSourceVm(j)
  BY <1>2, DeleteInstanceInv
  DEF AbortDeleteTargetDniVm, RollbackDeleteTargetDniVm, DeleteSourceVm
<1>3. CASE RemoveMigrationRecord(j)
  <2>1. ControlType' /\ UNCHANGED <<records, vm, inst, ticket, job, used>>
    BY <1>3, AtChain, GoOnOrFail DEF RemoveMigrationRecord, IInv
  <2>2. stored' \in [RecordIds -> {"never", "live", "deleted"}]
    BY <1>3 DEF RemoveMigrationRecord, IInv, DataType
  <2> QED BY <2>1, <2>2 DEF IInv, DataType
<1> QED BY <1>1, <1>2, <1>3

-----------------------------------------------------------------------------
LEMMA JobStepInv ==
    ASSUME IInv, NEW j \in Jobs, JobStep(j)
    PROVE  IInv'
<1>1. CASE MigrationTask(j)
  BY <1>1, BeginTasksInv, SyncTasksInv, CleanupInv, PauseTasksInv,
     StoreTasksInv, SwitchTasksInv, RollbackTasksInv, RemovalTasksInv
  DEF MigrationTask
<1>2. CASE SharedTask(j)
  BY <1>2, TicketTasksInv, StoreTasksInv, StoreFailureInv, WaitAndFlagInv,
     StartStopTasksInv
  DEF SharedTask
<1> QED BY <1>1, <1>2 DEF JobStep

LEMMA NextInv == IInv /\ [Next]_vars => IInv'
<1> SUFFICES ASSUME IInv, [Next]_vars PROVE IInv'
  OBVIOUS
<1>1. CASE UNCHANGED vars
  BY <1>1 DEF vars, db, IInv, DataType, ControlType, ControlOf
<1>2. ASSUME NEW j \in Jobs,
             \/ JobStep(j) \/ RequestStep(j) \/ RequestMigration(j)
             \/ UserStartsOrStops(j) \/ TaskFails(j) \/ CleanupFails(j)
      PROVE  IInv'
  BY <1>2, JobStepInv, RequestStepInv, RequestMigrationInv,
     UserStartsOrStopsInv, FaultsInv
<1>3. ASSUME NEW s \in Servers, TicketExpires(s) \/ AgentReport(s)
      PROVE  IInv'
  BY <1>3, EnvironmentInv
<1> QED BY <1>1, <1>2, <1>3, DeleteVmMigrationInv DEF Next, Quiescent

(* Whatever requests, tasks, failures and reports interleave, and whatever *)
(* record a job goes on with, every record stored is one the record        *)
(* functions can make and the VM is at a server; and a job is always at a  *)
(* task of its chain, with a server for the queue of its ticket.           *)
THEOREM TypeCorrect == Spec => []TypeOK
<1>1. Spec => []IInv
  BY InitInv, NextInv, PTL DEF Spec
<1>2. IInv => TypeOK
  BY IInvTypeOK
<1> QED BY <1>1, <1>2, PTL

-----------------------------------------------------------------------------
(* From which tasks of a chain on the ticket is held, until it is released.*)
Held(a, i) ==
    \E k \in 1 .. i - 1 :
        /\ Chain[a][k] = "acquireVMTicket"
        /\ \A m \in k + 1 .. i - 1 : Chain[a][m] # "releaseVMTicket"

TicketHeld ==
    \A j \in Jobs : mode[j] = "chain" /\ Held(job[j].action, pc[j]) =>
                        ticket[job[j].queue] = j

LEMMA HeldFirst == \A a : ~Held(a, 1)
BY DEF Held

LEMMA HeldStep ==
    ASSUME NEW a, NEW i \in Nat \ {0}, Held(a, i + 1)
    PROVE  /\ Chain[a][i] # "releaseVMTicket"
           /\ Held(a, i) \/ Chain[a][i] = "acquireVMTicket"
<1>1. PICK k \in 1 .. (i + 1) - 1 :
        /\ Chain[a][k] = "acquireVMTicket"
        /\ \A m \in k + 1 .. (i + 1) - 1 : Chain[a][m] # "releaseVMTicket"
  BY DEF Held
<1>2. CASE k = i
  BY <1>1, <1>2
<1>3. CASE k # i
  <2>1. k \in 1 .. i - 1 /\ i \in k + 1 .. (i + 1) - 1
    BY <1>1, <1>3
  <2>2. \A m \in k + 1 .. i - 1 : m \in k + 1 .. (i + 1) - 1
    BY <2>1
  <2> QED BY <1>1, <2>1, <2>2 DEF Held
<1> QED BY <1>2, <1>3

(* Every task of Protected comes after the ticket is taken.                *)
LEMMA ProtectedHeld ==
    \A a \in JobActions : \A i \in 1 .. Len(Chain[a]) :
        Chain[a][i] \in Protected => Held(a, i)
<1>1. TAKE a \in JobActions
<1>2. TAKE i \in 1 .. Len(Chain[a])
<1>3. HAVE Chain[a][i] \in Protected
<1>4. CASE a = "begin"
  <2>1. i \in {3} /\ Chain[a][2] = "acquireVMTicket"
    BY <1>3, <1>4 DEF Chain, Chains, BeginChain, Protected
  <2> QED BY <2>1 DEF Held
<1>5. CASE a = "sync"
  <2>1. i \in {2, 3} /\ Chain[a][1] = "acquireVMTicket"
                     /\ Chain[a][2] = "cleanup"
    BY <1>3, <1>5 DEF Chain, Chains, SyncChain, Protected
  <2>2. \A m \in 2 .. i - 1 : m = 2
    BY <2>1
  <2> QED BY <2>1, <2>2 DEF Held
<1>6. CASE a = "pause"
  <2>1. i = 4 /\ Chain[a][1] = "acquireVMTicket"
              /\ \A m \in {2, 3} : Chain[a][m] # "releaseVMTicket"
    BY <1>3, <1>6 DEF Chain, Chains, PauseChain, Protected
  <2>2. \A m \in 2 .. i - 1 : m \in {2, 3}
    BY <2>1
  <2> QED BY <2>1, <2>2 DEF Held
<1>7. CASE a = "switch"
  <2>1. Chain[a] = SwitchChain
    BY <1>7 DEF Chain, Chains
  <2>2. /\ i \in {2} \cup 9 .. 18
        /\ SwitchChain[1] = "acquireVMTicket"
        /\ SwitchChain[8] = "acquireVMTicket"
    BY <1>2, <1>3, <2>1 DEF SwitchChain, Protected
  <2>3. \A m \in 9 .. 18 : SwitchChain[m] # "releaseVMTicket"
    BY SMTT(20) DEF SwitchChain
  <2>4. CASE i = 2
    BY <2>1, <2>2, <2>4 DEF Held
  <2>5. CASE i \in 9 .. 18
    <3>1. 8 \in 1 .. i - 1 /\ \A m \in 8 + 1 .. i - 1 : m \in 9 .. 18
      BY <2>5
    <3> QED BY <2>1, <2>2, <2>3, <3>1 DEF Held
  <2> QED BY <2>2, <2>4, <2>5
<1>8. CASE a = "abort"
  <2>1. i \in 2 .. 5 /\ Chain[a][1] = "acquireVMTicket"
        /\ \A m \in 2 .. 5 : Chain[a][m] # "releaseVMTicket"
    BY <1>3, <1>8 DEF Chain, Chains, AbortChain, Protected
  <2>2. 1 \in 1 .. i - 1 /\ \A m \in 1 + 1 .. i - 1 : m \in 2 .. 5
    BY <2>1
  <2> QED BY <2>1, <2>2 DEF Held
<1>9. CASE a = "rollback"
  <2>1. Chain[a] = RollbackChain
    BY <1>9 DEF Chain, Chains
  <2>2. i \in 5 .. 11 /\ RollbackChain[4] = "acquireVMTicket"
    BY <1>2, <1>3, <2>1 DEF RollbackChain, Protected
  <2>3. \A m \in 5 .. 11 : RollbackChain[m] # "releaseVMTicket"
    BY DEF RollbackChain
  <2>4. 4 \in 1 .. i - 1 /\ \A m \in 4 + 1 .. i - 1 : m \in 5 .. 11
    BY <2>2
  <2> QED BY <2>1, <2>2, <2>3, <2>4 DEF Held
<1>10. CASE a \in {"start", "stop"}
  <2>1. i \in 2 .. 4 /\ Chain[a][1] = "acquireVMTicket"
        /\ \A m \in 2 .. 4 : Chain[a][m] # "releaseVMTicket"
    <3>1. Chain[a] = StartChain \/ Chain[a] = StopChain
      BY <1>10 DEF Chain, Chains
    <3>2. CASE Chain[a] = StartChain
      BY <1>3, <3>2 DEF StartChain, Protected
    <3>3. CASE Chain[a] = StopChain
      BY <1>3, <3>3 DEF StopChain, Protected
    <3> QED BY <3>1, <3>2, <3>3
  <2>2. 1 \in 1 .. i - 1 /\ \A m \in 1 + 1 .. i - 1 : m \in 2 .. 4
    BY <2>1
  <2> QED BY <2>1, <2>2 DEF Held
<1>11. CASE a = "finalize"
  BY <1>3, <1>11 DEF Chain, Chains, Protected
<1> QED BY <1>4, <1>5, <1>6, <1>7, <1>8, <1>9, <1>10, <1>11, JobActionsAre

-----------------------------------------------------------------------------
(* A step of job j moves j by one task; the other jobs stay where they are,*)
(* are stopped, or begin a chain.                                          *)
StaysOrBegins(i) ==
    \/ mode'[i] # "chain"
    \/ pc'[i] = 1
    \/ UNCHANGED <<mode[i], pc[i], job[i]>>

Advances(j) ==
    mode[j] = "chain" /\ pc'[j] = pc[j] + 1 /\ UNCHANGED job[j]

StepOf(j) ==
    /\ StaysOrBegins(j) \/ Advances(j)
    /\ \A i \in Jobs \ {j} : StaysOrBegins(i)

Ordinary(j) ==
    StepOf(j) /\ UNCHANGED ticket /\ ~At(j, "acquireVMTicket")

LEMMA ProceedStep ==
    ASSUME ControlType, NEW j \in Jobs, mode[j] \in {"chain"} \cup Cleaning,
           NEW l, Proceed(j, l), UNCHANGED job
    PROVE  StepOf(j)
<1>1. mode' = ModeAfter(j) /\ pc' = PcAfter(j)
  BY DEF Proceed
<1>2. ASSUME NEW i \in Jobs \ {j} PROVE StaysOrBegins(i)
  BY <1>1 DEF ModeAfter, PcAfter, ControlType, StaysOrBegins
<1>3. CASE IsLast(j)
  <2>1. mode'[j] = Outcome[mode[j]]
    BY <1>1, <1>3 DEF ModeAfter, ControlType
  <2>2. mode'[j] # "chain"
    BY <2>1 DEF Outcome, Cleaning
  <2> QED BY <1>2, <2>2 DEF StepOf, StaysOrBegins
<1>4. CASE ~IsLast(j)
  <2>1. mode'[j] = mode[j] /\ pc'[j] = pc[j] + 1
    BY <1>1, <1>4 DEF ModeAfter, PcAfter, ControlType
  <2> QED BY <1>2, <2>1 DEF StepOf, StaysOrBegins, Advances, Cleaning
<1> QED BY <1>3, <1>4

LEMMA FailStep ==
    ASSUME ControlType, NEW j \in Jobs, NEW l, FailWith(j, l), UNCHANGED job
    PROVE  StepOf(j)
<1>1. \E m \in {"failed", "onerror"}, n \in {0, 1} :
        mode' = [mode EXCEPT ![j] = m] /\ pc' = [pc EXCEPT ![j] = n]
  BY DEF FailWith
<1>2. mode'[j] # "chain"
  BY <1>1 DEF ControlType
<1>3. ASSUME NEW i \in Jobs \ {j} PROVE StaysOrBegins(i)
  BY <1>1 DEF ControlType, StaysOrBegins
<1> QED BY <1>2, <1>3 DEF StepOf, StaysOrBegins

(* The same when the task has another job k begin, or stops it.            *)
LEMMA MoveOther ==
    ASSUME ControlType, NEW j \in Jobs, mode[j] \in {"chain"} \cup Cleaning,
           NEW k \in Jobs, NEW m,
           mode' = [ModeAfter(j) EXCEPT ![k] = m],
           pc' = [PcAfter(j) EXCEPT ![k] = 1],
           \A i \in Jobs \ {k} : UNCHANGED job[i]
    PROVE  StepOf(j)
<1>1. pc'[k] = 1
  BY DEF PcAfter, ControlType
<1>2. ASSUME NEW i \in Jobs \ {j} PROVE StaysOrBegins(i)
  <2>1. CASE i = k
    BY <1>1, <2>1 DEF StaysOrBegins
  <2>2. CASE i # k
    BY <2>2 DEF ModeAfter, PcAfter, ControlType, StaysOrBegins
  <2> QED BY <2>1, <2>2
<1>3. CASE j = k
  BY <1>1, <1>2, <1>3 DEF StepOf, StaysOrBegins
<1>4. CASE j # k /\ IsLast(j)
  <2>1. mode'[j] = Outcome[mode[j]]
    BY <1>4 DEF ModeAfter, ControlType
  <2>2. mode'[j] # "chain"
    BY <2>1 DEF Outcome, Cleaning
  <2> QED BY <1>2, <2>2 DEF StepOf, StaysOrBegins
<1>5. CASE j # k /\ ~IsLast(j)
  <2>1. mode'[j] = mode[j] /\ pc'[j] = pc[j] + 1 /\ UNCHANGED job[j]
    BY <1>5 DEF ModeAfter, PcAfter, ControlType
  <2> QED BY <1>2, <2>1 DEF StepOf, StaysOrBegins, Advances, Cleaning
<1> QED BY <1>3, <1>4, <1>5

LEMMA QueueStep ==
    ASSUME ControlType, NEW j \in Jobs, mode[j] \in {"chain"} \cup Cleaning,
           NEW k \in Jobs, NEW params, NEW rec, NEW l,
           Queue(j, k, params, rec, l)
    PROVE  StepOf(j)
<1>1. \A i \in Jobs \ {k} : UNCHANGED job[i]
  BY DEF Queue, ControlType
<1> QED BY <1>1, MoveOther DEF Queue

LEMMA GoOnOrFailStep ==
    ASSUME ControlType, NEW j \in Jobs, mode[j] \in {"chain"} \cup Cleaning,
           GoOn(j) \/ Fail(j), UNCHANGED job
    PROVE  StepOf(j)
BY ProceedStep, FailStep DEF GoOn, Fail

LEMMA OtherTask ==
    ASSUME NEW j \in Jobs, NEW task, task # "acquireVMTicket",
           At(j, task) \/ AtCleanup(j, task)
    PROVE  /\ ~At(j, "acquireVMTicket")
           /\ mode[j] \in {"chain"} \cup Cleaning
           /\ At(j, task) => mode[j] = "chain"
BY DEF At, AtCleanup, Cleaning

(* What a step does to the tickets that are held.                          *)
LEMMA OrdinaryHeld ==
    ASSUME ControlType, TicketHeld, NEW j \in Jobs, Ordinary(j)
    PROVE  TicketHeld'
<1>1. SUFFICES ASSUME NEW i \in Jobs, mode'[i] = "chain",
                      Held(job'[i].action, pc'[i])
               PROVE  ticket'[job'[i].queue] = i
  BY DEF TicketHeld, Held
<1>2. UNCHANGED ticket /\ pc'[i] # 1
  BY <1>1, HeldFirst DEF Ordinary
<1>3. CASE UNCHANGED <<mode[i], pc[i], job[i]>>
  BY <1>1, <1>2, <1>3 DEF TicketHeld
<1>4. CASE i = j /\ Advances(j)
  <2>1. pc[i] \in Nat \ {0}
    BY <1>4 DEF Advances, ControlType, ControlOf
  <2>2. Chain[job[i].action][pc[i]] # "acquireVMTicket"
    BY <1>4 DEF Advances, Ordinary, At
  <2>3. Held(job[i].action, pc[i])
    BY <1>1, <1>4, <2>1, <2>2, HeldStep DEF Advances
  <2> QED BY <1>2, <1>4, <2>3 DEF TicketHeld, Advances
<1> QED BY <1>1, <1>2, <1>3, <1>4 DEF Ordinary, StepOf, StaysOrBegins

-----------------------------------------------------------------------------
(* Every task but the two of the ticket is ordinary.                       *)
LEMMA CheckOrdinary ==
    ASSUME ControlType, NEW j \in Jobs, NEW task, task # "acquireVMTicket",
           NEW ok, Check(j, task, ok) \/ \E idx : Reload(j, task, ok, idx)
    PROVE  Ordinary(j)
<1>1. At(j, task) /\ UNCHANGED <<ticket, job>>
  BY DEF Check, Reload
<1>2. \/ GoOn(j) \/ Fail(j)
      \/ \E idx : Proceed(j, [loc[j] EXCEPT !.rec = Lookup, !.idx = idx])
  BY DEF Check, Reload
<1> QED BY <1>1, <1>2, OtherTask, ProceedStep, GoOnOrFailStep DEF Ordinary

LEMMA StoreTaskOrdinary ==
    ASSUME ControlType, NEW j \in Jobs, NEW task, task # "acquireVMTicket",
           At(j, task), NEW rec, NEW l, StoreTask(j, rec, l)
    PROVE  Ordinary(j)
BY OtherTask, ProceedStep, FailStep DEF StoreTask, Ordinary

LEMMA RequestSubtaskOrdinary ==
    ASSUME ControlType, NEW j \in Jobs, NEW task, task # "acquireVMTicket",
           At(j, task), NEW a, NEW final, NEW waits,
           RequestSubtask(j, a, final, waits)
    PROVE  Ordinary(j)
BY OtherTask, QueueStep, GoOnOrFailStep DEF RequestSubtask, Ordinary

LEMMA StopOrStartOrdinary ==
    ASSUME ControlType, NEW j \in Jobs, NEW task, task # "acquireVMTicket",
           NEW a, NEW needed, StopOrStart(j, task, a, needed)
    PROVE  Ordinary(j)
BY OtherTask, QueueStep, GoOnOrFailStep DEF StopOrStart, Ordinary

LEMMA InstanceTaskOrdinary ==
    ASSUME ControlType, NEW j \in Jobs, NEW task, task # "acquireVMTicket",
           \/ \E s, h, c : SetDoNotInventory(j, task, s, h, c)
           \/ \E s, g : DeleteInstance(j, task, s, g)
    PROVE  Ordinary(j)
<1>1. At(j, task) /\ UNCHANGED <<ticket, job>> /\ (GoOn(j) \/ Fail(j))
  BY DEF SetDoNotInventory, DeleteInstance
<1> QED BY <1>1, OtherTask, GoOnOrFailStep DEF Ordinary

LEMMA StoreTasksOrdinary ==
    ASSUME ControlType, NEW j \in Jobs,
           \/ StoreInitialRecord(j) \/ SetRecordStateRunning(j)
           \/ StoreReservedNetworkIps(j) \/ StoreSuccess(j) \/ StoreRecord(j)
           \/ StoreFailure(j)
    PROVE  Ordinary(j)
<1>1. CASE StoreFailure(j)
  BY <1>1, OtherTask, ProceedStep DEF StoreFailure, Ordinary
<1>2. CASE StoreInitialRecord(j)
  BY <1>2, StoreTaskOrdinary DEF StoreInitialRecord
<1>3. CASE SetRecordStateRunning(j)
  BY <1>3, StoreTaskOrdinary DEF SetRecordStateRunning
<1>4. CASE StoreReservedNetworkIps(j)
  BY <1>4, StoreTaskOrdinary DEF StoreReservedNetworkIps
<1>5. CASE StoreSuccess(j)
  BY <1>5, StoreTaskOrdinary DEF StoreSuccess
<1>6. CASE StoreRecord(j)
  BY <1>6, StoreTaskOrdinary DEF StoreRecord
<1> QED BY <1>1, <1>2, <1>3, <1>4, <1>5, <1>6

LEMMA PlainTasksOrdinary ==
    ASSUME ControlType, NEW j \in Jobs,
           \/ DisallowRetry(j) \/ WaitForWorkflowJob(j)
           \/ UnreserveNetworkIps(j) \/ EnsureVmState(j)
           \/ StartVm(j) \/ StopVm(j) \/ PutVm(j) \/ UpdateVmServerUuid(j)
           \/ RemoveMigrationRecord(j)
    PROVE  Ordinary(j)
<1>1. CASE DisallowRetry(j)
  BY <1>1, OtherTask, ProceedStep DEF DisallowRetry, Ordinary
<1>2. CASE WaitForWorkflowJob(j)
  BY <1>2, OtherTask, GoOnOrFailStep DEF WaitForWorkflowJob, Ordinary
<1>3. CASE UnreserveNetworkIps(j)
  BY <1>3, OtherTask, GoOnOrFailStep DEF UnreserveNetworkIps, Ordinary
<1>4. CASE EnsureVmState(j)
  BY <1>4, CheckOrdinary DEF EnsureVmState
<1>5. CASE StartVm(j)
  BY <1>5, OtherTask, GoOnOrFailStep DEF StartVm, Ordinary
<1>6. CASE StopVm(j)
  BY <1>6, OtherTask, GoOnOrFailStep DEF StopVm, Ordinary
<1>7. CASE PutVm(j)
  BY <1>7, OtherTask, GoOnOrFailStep DEF PutVm, Ordinary
<1>8. CASE UpdateVmServerUuid(j)
  BY <1>8, OtherTask, GoOnOrFailStep DEF UpdateVmServerUuid, Ordinary
<1>9. CASE RemoveMigrationRecord(j)
  BY <1>9, OtherTask, GoOnOrFailStep DEF RemoveMigrationRecord, Ordinary
<1> QED BY <1>1, <1>2, <1>3, <1>4, <1>5, <1>6, <1>7, <1>8, <1>9

LEMMA BeginSyncTasksOrdinary ==
    ASSUME ControlType, NEW j \in Jobs,
           \/ AllocateServer(j) \/ ProvisionVm(j) \/ StartSyncWhenAutomatic(j)
           \/ StoreProcessDetails(j) \/ Sync(j)
           \/ StartSyncOrSwitchWhenAutomatic(j) \/ StartFinalSync(j)
    PROVE  Ordinary(j)
<1>1. CASE AllocateServer(j)
  BY <1>1, OtherTask, ProceedStep DEF AllocateServer, Ordinary
<1>2. CASE ProvisionVm(j)
  BY <1>2, OtherTask, GoOnOrFailStep DEF ProvisionVm, Ordinary
<1>3. CASE StartSyncWhenAutomatic(j)
  <2>1. \/ RequestSubtask(j, "sync", FALSE, FALSE)
        \/ GoOn(j) /\ UNCHANGED <<ticket, job>>
    BY <1>3 DEF StartSyncWhenAutomatic
  <2>2. At(j, "startSyncWhenAutomatic")
    BY <1>3 DEF StartSyncWhenAutomatic
  <2> QED BY <2>1, <2>2, RequestSubtaskOrdinary, OtherTask, GoOnOrFailStep
          DEF Ordinary
<1>4. CASE StoreProcessDetails(j)
  <2>1. At(j, "storeProcessDetails")
    BY <1>4 DEF StoreProcessDetails
  <2>2. \/ StoreTask(j, [loc[j].rec EXCEPT !.proc = j], loc[j])
        \/ Fail(j) /\ UNCHANGED <<ticket, job>>
    BY <1>4 DEF StoreProcessDetails
  <2> QED BY <2>1, <2>2, StoreTaskOrdinary, OtherTask, GoOnOrFailStep
          DEF Ordinary
<1>5. CASE Sync(j)
  BY <1>5, OtherTask, GoOnOrFailStep DEF Sync, Ordinary
<1>6. CASE StartSyncOrSwitchWhenAutomatic(j)
  <2>1. At(j, "startSyncOrSwitchWhenAutomatic")
    BY <1>6 DEF StartSyncOrSwitchWhenAutomatic
  <2>2. \/ \E a : RequestSubtask(j, a, FALSE, FALSE)
        \/ GoOn(j) /\ UNCHANGED <<ticket, job>>
    BY <1>6 DEF StartSyncOrSwitchWhenAutomatic
  <2> QED BY <2>1, <2>2, RequestSubtaskOrdinary, OtherTask, GoOnOrFailStep
          DEF Ordinary
<1>7. CASE StartFinalSync(j)
  BY <1>7, RequestSubtaskOrdinary DEF StartFinalSync
<1> QED BY <1>1, <1>2, <1>3, <1>4, <1>5, <1>6, <1>7

LEMMA CleanupOrdinary ==
    ASSUME ControlType, NEW j \in Jobs, Cleanup(j)
    PROVE  Ordinary(j)
<1> DEFINE k == loc[j].rec.proc
<1>1. At(j, "cleanup") \/ AtCleanup(j, "cleanup")
  BY DEF Cleanup
<1>2. UNCHANGED <<ticket, job>>
  BY DEF Cleanup
<1>3. CASE k \notin {0, j} /\ At(k, "sync")
  <2>1. k \in Jobs
    BY <1>3, LocalsRec DEF Record
  <2>2. /\ mode' = [ModeAfter(j) EXCEPT ![k] = "onerror"]
        /\ pc' = [PcAfter(j) EXCEPT ![k] = 1]
    BY <1>3 DEF Cleanup
  <2> HIDE DEF k
  <2> QED BY <1>1, <1>2, <2>1, <2>2, OtherTask, MoveOther DEF Ordinary
<1>4. CASE ~(k \notin {0, j} /\ At(k, "sync"))
  <2>1. GoOn(j)
    BY <1>4 DEF Cleanup
  <2> QED BY <1>1, <1>2, <2>1, OtherTask, GoOnOrFailStep DEF Ordinary
<1> QED BY <1>3, <1>4

LEMMA PauseTasksOrdinary ==
    ASSUME ControlType, NEW j \in Jobs,
           ValidateSyncIsRunning(j) \/ CancelSyncWorkflow(j)
    PROVE  Ordinary(j)
<1>1. CASE ValidateSyncIsRunning(j)
  BY <1>1, CheckOrdinary DEF ValidateSyncIsRunning
<1>2. CASE CancelSyncWorkflow(j)
  <2> DEFINE k == loc[j].rec.history[loc[j].idx].job
  <2>1. At(j, "cancelSyncWorkflow") /\ UNCHANGED <<ticket, job>>
    BY <1>2 DEF CancelSyncWorkflow
  <2>2. \/ /\ mode' = [ModeAfter(j) EXCEPT ![k] = "canceling"]
           /\ pc' = [PcAfter(j) EXCEPT ![k] = 1]
           /\ loc' = LocAfter(j, loc[j])
        \/ GoOn(j)
    BY <1>2 DEF CancelSyncWorkflow
  <2> HIDE DEF k
  <2>3. CASE GoOn(j)
    BY <2>1, <2>3, OtherTask, GoOnOrFailStep DEF Ordinary
  <2>4. CASE ~GoOn(j) /\ k \in Jobs
    BY <2>1, <2>2, <2>4, OtherTask, MoveOther DEF Ordinary
  <2>5. CASE ~GoOn(j) /\ k \notin Jobs
    <3>1. mode' = ModeAfter(j) /\ pc' = PcAfter(j)
      BY <2>2, <2>5 DEF ModeAfter, PcAfter, ControlType
    <3> QED BY <2>2, <2>5, <3>1 DEF GoOn, Proceed
  <2> QED BY <2>3, <2>4, <2>5
<1> QED BY <1>1, <1>2

LEMMA SwitchRollbackTasksOrdinary ==
    ASSUME ControlType, NEW j \in Jobs,
           \/ StopSourceVm(j) \/ GetRecord(j) \/ EnsureSourceVmStopped(j)
           \/ SetupTarget(j) \/ SetSourceDoNotInventory(j)
           \/ RemoveTargetDoNotInventory(j) \/ StartTargetVm(j)
           \/ StartSourceVm(j) \/ EnsureSourceVmHasDni(j) \/ StopTargetVm(j)
           \/ EnsureTargetVmStopped(j) \/ SetTargetDoNotInventory(j)
           \/ RemoveSourceDoNotInventory(j) \/ EnsureTargetVmHasDni(j)
           \/ AbortDeleteTargetDniVm(j) \/ RollbackDeleteTargetDniVm(j)
           \/ DeleteSourceVm(j)
    PROVE  Ordinary(j)
<1>1. CASE StopSourceVm(j) \/ StartTargetVm(j) \/ StartSourceVm(j)
  BY <1>1, StopOrStartOrdinary DEF StopSourceVm, StartTargetVm, StartSourceVm
<1>2. CASE GetRecord(j) \/ EnsureSourceVmStopped(j)
  BY <1>2, CheckOrdinary DEF GetRecord, EnsureSourceVmStopped
<1>3. CASE SetupTarget(j) \/ EnsureSourceVmHasDni(j)
  BY <1>3, CheckOrdinary DEF SetupTarget, EnsureSourceVmHasDni
<1>4. CASE EnsureTargetVmStopped(j) \/ EnsureTargetVmHasDni(j)
  BY <1>4, CheckOrdinary DEF EnsureTargetVmStopped, EnsureTargetVmHasDni
<1>5. CASE SetSourceDoNotInventory(j) \/ RemoveTargetDoNotInventory(j)
             \/ RemoveSourceDoNotInventory(j)
  BY <1>5, InstanceTaskOrdinary
  DEF SetSourceDoNotInventory, RemoveTargetDoNotInventory,
      RemoveSourceDoNotInventory
<1>6. CASE SetTargetDoNotInventory(j)
  BY <1>6, CheckOrdinary, InstanceTaskOrdinary DEF SetTargetDoNotInventory
<1>7. CASE AbortDeleteTargetDniVm(j) \/ RollbackDeleteTargetDniVm(j)
             \/ DeleteSourceVm(j)
  BY <1>7, InstanceTaskOrdinary
  DEF AbortDeleteTargetDniVm, RollbackDeleteTargetDniVm, DeleteSourceVm
<1>8. CASE StopTargetVm(j)
  <2>1. At(j, "stopTargetVm") /\ UNCHANGED ticket
    BY <1>8 DEF StopTargetVm
  <2>2. \/ UNCHANGED job /\ (Fail(j) \/ \E l : Proceed(j, l))
        \/ \E k \in Jobs : Queue(j, k, Params("stop", FALSE, FALSE),
                                 NoRecord, [loc[j] EXCEPT !.child = k])
    BY <1>8 DEF StopTargetVm
  <2> QED BY <2>1, <2>2, OtherTask, ProceedStep, GoOnOrFailStep, QueueStep
          DEF Ordinary
<1> QED BY <1>1, <1>2, <1>3, <1>4, <1>5, <1>6, <1>7, <1>8

-----------------------------------------------------------------------------
(* The tasks of the ticket.  A job that takes it found it free; one that   *)
(* gives it back gives back its own, and moves out of what it protects.    *)
LEMMA TicketTasksHeld ==
    ASSUME IInv, TicketHeld, NEW j \in Jobs,
           \/ AcquireVMTicket(j) \/ ReleaseVMTicket(j)
           \/ ReleaseVMTicketIgnoringErr(j)
    PROVE  TicketHeld'
<1> DEFINE q == job[j].queue
<1>1. /\ mode[j] \in {"chain"} \cup Cleaning /\ UNCHANGED job
      /\ GoOn(j) \/ Fail(j)
  BY AtChain
  DEF AcquireVMTicket, ReleaseVMTicket, ReleaseVMTicketIgnoringErr
<1>2. StepOf(j)
  BY <1>1, GoOnOrFailStep DEF IInv
<1>3. q \in Servers /\ ticket \in [Servers -> Jobs \cup {0}]
  BY <1>1 DEF IInv, DataType, ControlType, ControlOf, Cleaning
<1>4. \A s \in Servers : ticket[s] \in Jobs /\ ticket[s] # j =>
          ticket'[s] = ticket[s]
  BY <1>3
  DEF AcquireVMTicket, ReleaseVMTicket, ReleaseVMTicketIgnoringErr, Jobs
<1>5. SUFFICES ASSUME NEW i \in Jobs, mode'[i] = "chain",
                      Held(job[i].action, pc'[i])
               PROVE  ticket'[job[i].queue] = i
  BY <1>1 DEF TicketHeld, Held
<1>6. pc'[i] # 1
  BY <1>5, HeldFirst
<1>7. CASE i # j
  <2>1. UNCHANGED <<mode[i], pc[i], job[i]>>
    BY <1>2, <1>5, <1>6, <1>7 DEF StepOf, StaysOrBegins
  <2>2. ticket[job[i].queue] = i /\ job[i].queue \in Servers
    BY <1>5, <2>1 DEF TicketHeld, IInv, ControlType, ControlOf
  <2> QED BY <1>4, <1>7, <2>2
<1>8. CASE i = j /\ Advances(j)
  <2>1. pc[j] \in Nat \ {0}
    BY <1>8 DEF Advances, IInv, ControlType, ControlOf
  <2>2. Chain[job[j].action][pc[j]] # "releaseVMTicket"
    BY <1>5, <1>8, <2>1, HeldStep DEF Advances
  <2>3. AcquireVMTicket(j)
    BY <1>8, <2>2 DEF Advances, ReleaseVMTicket, ReleaseVMTicketIgnoringErr,
                      At, AtCleanup, Cleaning
  <2> QED BY <1>3, <1>8, <2>3 DEF AcquireVMTicket
<1>9. CASE i = j /\ UNCHANGED <<mode[j], pc[j], job[j]>>
  <2>1. mode[j] = "chain" /\ pc'[j] = pc[j] /\ pc[j] \in Nat
    BY <1>5, <1>9 DEF IInv, ControlType
  <2>2. CASE GoOn(j)
    <3>1. pc' = PcAfter(j) /\ mode' = ModeAfter(j)
      BY <2>2 DEF GoOn, Proceed
    <3>2. ~IsLast(j)
      BY <2>1, <3>1, <1>9 DEF ModeAfter, Outcome, IInv, ControlType
    <3> QED BY <2>1, <3>1, <3>2 DEF PcAfter, IInv, ControlType
  <2>3. CASE Fail(j)
    <3>1. mode'[j] \in {"failed", "onerror"}
      BY <2>3 DEF Fail, FailWith, IInv, ControlType
    <3> QED BY <1>5, <1>9, <3>1
  <2> QED BY <1>1, <2>2, <2>3
<1> QED BY <1>2, <1>5, <1>6, <1>7, <1>8, <1>9 DEF StepOf, StaysOrBegins

LEMMA JobStepHeld ==
    ASSUME IInv, TicketHeld, NEW j \in Jobs, JobStep(j)
    PROVE  TicketHeld'
<1>1. CASE MigrationTask(j)
  <2>1. Ordinary(j)
    BY <1>1, StoreTasksOrdinary, PlainTasksOrdinary, BeginSyncTasksOrdinary,
       CleanupOrdinary, PauseTasksOrdinary, SwitchRollbackTasksOrdinary
    DEF MigrationTask, IInv
  <2> QED BY <2>1, OrdinaryHeld DEF IInv
<1>2. CASE SharedTask(j)
  BY <1>2, TicketTasksHeld, StoreTasksOrdinary, PlainTasksOrdinary,
     OrdinaryHeld
  DEF SharedTask, IInv
<1> QED BY <1>1, <1>2 DEF JobStep

(* Steps that move no job forward along its chain.                         *)
LEMMA StandStillHeld ==
    ASSUME TicketHeld, UNCHANGED ticket, \A i \in Jobs : StaysOrBegins(i)
    PROVE  TicketHeld'
<1>1. SUFFICES ASSUME NEW i \in Jobs, mode'[i] = "chain",
                      Held(job'[i].action, pc'[i])
               PROVE  ticket'[job'[i].queue] = i
  BY DEF TicketHeld, Held
<1>2. UNCHANGED <<mode[i], pc[i], job[i]>>
  BY <1>1, HeldFirst DEF StaysOrBegins
<1> QED BY <1>1, <1>2 DEF TicketHeld

LEMMA OthersHeld ==
    ASSUME IInv, TicketHeld, NEW k \in Jobs,
           \/ RequestStep(k) \/ RequestMigration(k) \/ UserStartsOrStops(k)
           \/ TaskFails(k) \/ CleanupFails(k)
    PROVE  TicketHeld'
<1>1. CASE RequestStep(k)
  BY <1>1, StandStillHeld
  DEF RequestStep, CreateRecord, AbortWithoutTarget, StartWorkflow,
      StaysOrBegins, IInv, ControlType
<1>2. CASE RequestMigration(k)
  BY <1>2, StandStillHeld
  DEF RequestMigration, StaysOrBegins, IInv, ControlType
<1>3. CASE UserStartsOrStops(k)
  BY <1>3, StandStillHeld
  DEF UserStartsOrStops, StaysOrBegins, IInv, ControlType
<1>4. CASE TaskFails(k)
  <2>1. \E m \in {"failed", "onerror"}, n \in {0, 1} :
          mode' = [mode EXCEPT ![k] = m] /\ pc' = [pc EXCEPT ![k] = n]
    BY <1>4 DEF TaskFails, Fail, FailWith
  <2>2. ASSUME NEW i \in Jobs PROVE StaysOrBegins(i)
    BY <1>4, <2>1 DEF TaskFails, StaysOrBegins, IInv, ControlType
  <2> QED BY <1>4, <2>2, StandStillHeld DEF TaskFails
<1>5. CASE CleanupFails(k)
  <2>1. mode[k] \in Cleaning /\ mode' = [mode EXCEPT ![k] = Outcome[@]]
    BY <1>5, AtChain DEF CleanupFails
  <2>2. Outcome[mode[k]] # "chain"
    BY <2>1 DEF Outcome, Cleaning
  <2>3. ASSUME NEW i \in Jobs PROVE StaysOrBegins(i)
    BY <1>5, <2>1, <2>2 DEF CleanupFails, StaysOrBegins, IInv, ControlType
  <2> QED BY <1>5, <2>3, StandStillHeld DEF CleanupFails
<1> QED BY <1>1, <1>2, <1>3, <1>4, <1>5

(* The only ticket that expires is that of a job that has ended.           *)
LEMMA TicketExpiresHeld ==
    ASSUME ~ExpireHeld, TicketHeld, NEW s \in Servers, TicketExpires(s)
    PROVE  TicketHeld'
<1>1. SUFFICES ASSUME NEW i \in Jobs, mode[i] = "chain",
                      Held(job[i].action, pc[i])
               PROVE  ticket'[job[i].queue] = i
  BY DEF TicketExpires, TicketHeld, Held
<1>2. ticket[job[i].queue] = i
  BY <1>1 DEF TicketHeld
<1>3. mode[ticket[s]] \in Ended
  BY DEF TicketExpires
<1>4. job[i].queue # s
  BY <1>1, <1>2, <1>3 DEF Ended
<1> QED BY <1>2, <1>4 DEF TicketExpires

LEMMA InitHeld == Init => TicketHeld
BY DEF Init, TicketHeld

LEMMA NextHeld ==
    ~ExpireHeld /\ IInv /\ TicketHeld /\ [Next]_vars => TicketHeld'
<1> SUFFICES ASSUME ~ExpireHeld, IInv, TicketHeld, [Next]_vars
             PROVE  TicketHeld'
  OBVIOUS
<1>1. CASE UNCHANGED vars
  BY <1>1 DEF vars, TicketHeld, Held
<1>2. ASSUME NEW j \in Jobs,
             \/ JobStep(j) \/ RequestStep(j) \/ RequestMigration(j)
             \/ UserStartsOrStops(j) \/ TaskFails(j) \/ CleanupFails(j)
      PROVE  TicketHeld'
  BY <1>2, JobStepHeld, OthersHeld
<1>3. ASSUME NEW s \in Servers, TicketExpires(s) \/ AgentReport(s)
      PROVE  TicketHeld'
  BY <1>3, TicketExpiresHeld DEF AgentReport, TicketHeld, Held
<1>4. CASE DeleteVmMigration
  BY <1>4 DEF DeleteVmMigration, TicketHeld, Held
<1> QED BY <1>1, <1>2, <1>3, <1>4 DEF Next, Quiescent

LEMMA HeldProtects ==
    ASSUME IInv, TicketHeld, NEW j \in Jobs, NEW task \in Protected,
           At(j, task)
    PROVE  ticket[job[j].queue] = j
<1>1. mode[j] = "chain" /\ Chain[job[j].action][pc[j]] \in Protected
  BY DEF At
<1>2. /\ job[j].action \in JobActions
      /\ pc[j] \in 1 .. Len(Chain[job[j].action])
  BY <1>1 DEF IInv, ControlType, ControlOf, JobParams
<1> QED BY <1>1, <1>2, ProtectedHeld DEF TicketHeld

-----------------------------------------------------------------------------
(* While no ticket expires under a job that runs, the tasks of Protected   *)
(* (they hide, show, start or stop an instance, remove a target, move the  *)
(* VM's record or change the migration's) run only while their job holds   *)
(* the VM's ticket of its queue: no two jobs queued with the same server   *)
(* are at such tasks at once.                                              *)
THEOREM TicketProtects ==
    ASSUME ~ExpireHeld
    PROVE  Spec => []ProtectedByTicket
<1>1. IInv /\ TicketHeld /\ [Next]_vars => TicketHeld'
  BY NextHeld
<1>2. IInv /\ TicketHeld => ProtectedByTicket
  BY HeldProtects DEF ProtectedByTicket
<1> QED BY <1>1, <1>2, InitHeld, InitInv, NextInv, PTL DEF Spec

=============================================================================
