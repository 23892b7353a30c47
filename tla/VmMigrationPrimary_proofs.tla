----------------------- MODULE VmMigrationPrimary_proofs -----------------------
(***************************************************************************)
(* Where the VM runs and where its writes are, when the callers ask for    *)
(* one thing at a time and no ticket expires under a job: for any servers, *)
(* requests and faults, the VM runs at one server at most, and the         *)
(* instance that is visible holds every write made to the VM.              *)
(*                                                                         *)
(* An instance has all writes while it is the one that runs (RunInv says   *)
(* that this is the one at the VM's record, and that a switch which has    *)
(* stopped the VM keeps it stopped until it starts it again), or because   *)
(* it was copied from one that had them while the VM was stopped (CurInv   *)
(* follows the final sync a switch waits for, and that no other copy       *)
(* starts towards where the VM is).                                        *)
(*                                                                         *)
(* The proof is in two halves.  Moves(i) lists what a step may do to a job *)
(* and Leaving what it may do to the instances and records; steps that are *)
(* of this form keep RunInv and CurInv (MovesKeep).  Then every step is    *)
(* shown to be of this form, one lemma per task or request.                *)
(***************************************************************************)
EXTENDS VmMigrationSequential_proofs

(* A start job that has started the VM also puts the VM's record, which    *)
(* says that it runs.  VMAPI otherwise takes the VM for stopped until the  *)
(* next report, and a switch that reads this does not stop it before its   *)
(* final sync.                                                             *)
StartsStored ==
    \A j \in Jobs :
        At(j, "putVm") /\ job[j].action = "start" => ~TaskFails(j)

-----------------------------------------------------------------------------
(* Where the VM runs.                                                      *)
Still == \A s \in Servers : ~inst[s].running

\* A start job that has started the VM and not yet put the VM's record
Starting(i) == job[i].action = "start" /\ mode[i] = "chain" /\ pc[i] = 4
\* A stop job that has stopped the VM and not yet put the VM's record, ...
Stopping(i) == job[i].action = "stop" /\ mode[i] = "chain" /\ pc[i] = 4
\* ... one that has stopped it
Stopped(i) ==
    mode[i] = "succeeded" \/ (mode[i] = "chain" /\ pc[i] \in 4 .. 5)

\* Nothing runs but at the server of the VM's record, ...
RunsAtVm == \A s \in Servers : inst[s].running => s = vm.server

\* ... which says so, or a start job is about to make it say so
Known ==
    \A s \in Servers : inst[s].running =>
        vm.state = "running" \/ \E i \in Jobs : Starting(i)

\* What a stop job has stopped is not started before its putVm
StopsHold == \A i \in Jobs : Stopping(i) => ~inst[job[i].queue].running

\* The VM is still from the end of the job that stops it on
StillAfter(k) ==
    /\ k = 0 => Still
    /\ k # 0 => job[k].action = "stop" /\ (Stopped(k) => Still)

\* A switch of a stopped VM finds it so, one of a running VM waits for the
\* stop job, and from then on to startTargetVm the VM is still
Silent(j) ==
    /\ mode[j] = "request" \/ (mode[j] = "chain" /\ pc[j] <= 4) =>
           loc[j].child = 0 /\ (job[j].vmState = "stopped" => Still)
    /\ mode[j] = "chain" /\ pc[j] = 5 => StillAfter(loc[j].child)
    /\ mode[j] = "chain" /\ pc[j] \in 6 .. 20 => Still

SwitchSilent == \A j \in Jobs : Switch(j) => Silent(j)

RunInv == RunsAtVm /\ Known /\ StopsHold /\ SwitchSilent

-----------------------------------------------------------------------------
(* Where the VM's writes are.                                              *)
\* The instance at t, if there is one, has every write
Holds(t) == t \in Servers /\ inst[t].exists => inst[t].current

PrimaryHolds == Holds(vm.server)

\* So are the stored ones and the jobs' copies
RecordsApart ==
    /\ \A r \in LiveIds : Apart(records[r])
    /\ \A j \in Jobs : Apart(loc[j].rec)

\* A begin and a sync are of a migration away from where the VM is
Leaves(j) ==
    LET rec == loc[j].rec
    IN  /\ mode[j] = "chain" => rec.id # 0 /\ rec.source = vm.server
        /\ mode[j] = "request" =>
               /\ job[j].queue = vm.server
               /\ rec.id # 0 => rec.source = vm.server
               /\ job[j].action = "sync" => rec.id # 0
        /\ mode[j] = "chain" /\ job[j].action = "sync" /\ pc[j] >= 4 =>
               rec.phase = "sync"

CopiesLeave == \A j \in Jobs : job[j].action \in {"begin", "sync"} => Leaves(j)

\* What the final sync k has copied is there when it has succeeded
Copied(k) ==
    /\ k # 0 /\ Final(k) /\ mode[k] \notin {"none", "request"}
    /\ mode[k] = "chain" =>
           /\ loc[k].rec.id = Lookup.id /\ loc[k].rec.target = Lookup.target
           /\ pc[k] >= 7 => Holds(Lookup.target)
    /\ mode[k] = "succeeded" => Holds(Lookup.target)

\* The switch's way from its final sync to where it moves the VM's record
Synced(j) ==
    mode[j] = "chain" =>
        /\ pc[j] = 7 => Copied(loc[j].child)
        /\ pc[j] \in 8 .. 9 => Holds(Lookup.target)
        /\ pc[j] \in 10 .. 17 => Holds(loc[j].rec.target)

SwitchSynced == \A j \in Jobs : Switch(j) => Synced(j)

CurInv ==
    /\ Ids /\ RecordsApart /\ CopiesLeave /\ SwitchSynced
    /\ PrimaryHolds

-----------------------------------------------------------------------------
(* What a step does to a job.                                              *)
\* Ends, fails or goes on with its clean-up
Quits(i) ==
    /\ mode[i] \in {"request", "chain"} \cup Cleaning /\ UNCHANGED job[i]
    /\ mode'[i] \in Ended \cup Cleaning
    /\ Apart(loc'[i].rec)
    /\ mode'[i] = "succeeded" /\ Aux(i) => mode[i] = "chain" /\ IsLast(i)
    /\ ~Starting(i)

\* Queued by a task, without a request of its own
Begun(k) == mode[k] = "none" /\ mode'[k] = "chain" /\ pc'[k] = 1

\* What the tasks of a switch do to its local state, l afterwards
Turned(i, l) ==
    /\ pc[i] \notin {4, 6, 21} => l.child = loc[i].child
    /\ pc[i] = 4 =>
           \/ l.child = 0 /\ job[i].vmState = "stopped"
           \/ \E k \in Jobs : /\ l.child = k /\ Begun(k)
                              /\ job'[k].action = "stop"
    /\ pc[i] \in {5, 7} /\ loc[i].child # 0 =>
           mode[loc[i].child] = "succeeded"
    /\ pc[i] = 6 => \E k \in Jobs : /\ l.child = k /\ Begun(k)
                                    /\ Final(k)' /\ loc'[k].rec = Lookup'
    /\ pc[i] = 9 => l.rec = Lookup
    /\ pc[i] \in 10 .. 17 => SameRec(l.rec, loc[i].rec)

\* The same for any job, and what the copy, the stop and the start do
Works(i, l) ==
    LET rec == loc[i].rec
    IN  /\ Switch(i) => Turned(i, l)
        /\ job[i].action = "begin" =>
               l.rec.id = rec.id /\ l.rec.source = rec.source
        /\ job[i].action = "sync" =>
               /\ SameRec(l.rec, rec)
               /\ pc[i] = 3 => l.rec.phase = "sync"
               /\ pc[i] > 3 => l.rec.phase = rec.phase
               /\ pc[i] = 6 /\ Still =>
                      \A t \in Servers : t = rec.target => Holds(t)'
        /\ job[i].action = "stop" /\ pc[i] = 3 => Still'
        /\ Starting(i) => vm'.state = "running"

\* From one task of the chain to the next one
Goes(i) ==
    /\ mode[i] = "chain" /\ mode'[i] = "chain" /\ pc'[i] = pc[i] + 1
    /\ UNCHANGED job[i]
    /\ Apart(loc'[i].rec)
    /\ Works(i, loc'[i])

\* From the handler to the first task
Enters(i) ==
    /\ mode[i] = "request" /\ mode'[i] = "chain" /\ pc'[i] = 1
    /\ UNCHANGED job[i] /\ loc'[i].child = loc[i].child
    /\ Apart(loc'[i].rec)
    /\ job[i].action \in {"begin", "sync"} => Leaves(i)'

\* A new request or job
Appears(i) ==
    /\ mode[i] = "none" /\ mode'[i] \in {"request", "chain"}
    /\ mode'[i] = "chain" => pc'[i] = 1
    /\ loc'[i].child = 0 /\ Apart(loc'[i].rec)
    /\ Switch(i)' =>
           Active' \subseteq {i} /\ (job'[i].vmState = "stopped" => Still')
    /\ job'[i].action \in {"begin", "sync"} => Leaves(i)'

Moves(i) == Stands(i) \/ Quits(i) \/ Goes(i) \/ Enters(i) \/ Appears(i)

(* A switch that waits for its final sync, or is about to read the record. *)
Awaits(i) ==
    /\ Switch(i) /\ mode[i] = "chain"
    /\ \/ pc[i] \in 8 .. 9
       \/ pc[i] = 7 /\ mode[loc[i].child] \in {"chain", "succeeded"}

\* Meanwhile the record the VM is found by is of the same migration
SameLookup == Lookup'.id = Lookup.id /\ Lookup'.target = Lookup.target

\* A record is written under its own id, from one server to another one
Written(r) ==
    \/ UNCHANGED <<records[r], stored[r]>>
    \/ stored'[r] # "live"
    \/ records'[r].id = r /\ Apart(records'[r])

\* A switch that may start the VM: it has given up, or has shown the target
Loud(i) == mode[i] \in Cleaning \/ (mode[i] = "chain" /\ pc[i] > 20)

\* What a step leaves of the instances and of the VM's record
Leaving ==
    /\ \A r \in RecordIds : Written(r)
    /\ \A i \in Jobs : Awaits(i) => SameLookup
    /\ \A i \in Jobs : Switch(i) /\ mode[i] = "chain" /\ pc[i] \in 7 .. 17 =>
           \A t \in Servers : Holds(t) => Holds(t)'
    /\ (Still => Still') \/ \A i \in Active : Switch(i) => Loud(i)
    /\ \A i \in Jobs : Stopping(i) => ~inst'[job[i].queue].running
    /\ \/ vm'.server = vm.server
       \/ \A i \in Active : job[i].action \notin {"begin", "sync"}

LEMMA StopOrSyncLength ==
    ASSUME NEW i, mode[i] = "chain", IsLast(i)
    PROVE  /\ job[i].action = "stop" => pc[i] = 5
           /\ job[i].action = "sync" => pc[i] = 8
<1>1. Len(StopChain) = 5 /\ Len(SyncChain) = 8
  BY DEF StopChain, SyncChain
<1>2. Chain["stop"] = StopChain /\ Chain["sync"] = SyncChain
  BY DEF Chain, Chains
<1> QED BY <1>1, <1>2 DEF IsLast, Tasks

\* Who is at work after the step was so before, or appears
LEMMA MovesActive ==
    ASSUME NEW i \in Jobs, Moves(i), i \in Active', ~Appears(i)
    PROVE  i \in Active /\ UNCHANGED job[i]
BY ActiveIs, ActiveThen
DEF Moves, Stands, Quits, Goes, Enters, Cleaning, Ended

LEMMA StopsHoldKept ==
    ASSUME IInv, \A i \in Jobs : Moves(i), Leaving
    PROVE  StopsHold'
<1>1. SUFFICES ASSUME NEW i \in Jobs, Stopping(i)'
               PROVE  ~inst'[job'[i].queue].running
  BY DEF StopsHold
<1>2. pc[i] \in Nat /\ mode'[i] = "chain" /\ pc'[i] = 4
  BY <1>1 DEF IInv, ControlType, Stopping
<1>3. CASE Stands(i)
  <2>1. Stopping(i) /\ UNCHANGED job[i]
    BY <1>1, <1>3 DEF Stands, Stopping
  <2> QED BY <2>1 DEF Leaving
<1>4. CASE Goes(i)
  <2>1. Still' /\ UNCHANGED job[i] /\ mode[i] = "chain"
    BY <1>1, <1>2, <1>4 DEF Goes, Works, Stopping
  <2>2. job[i].queue \in Servers
    BY <2>1 DEF IInv, ControlType, ControlOf
  <2> QED BY <2>1, <2>2 DEF Still
<1> QED BY <1>2, <1>3, <1>4
        DEF Moves, Quits, Enters, Appears, Ended, Cleaning

LEMMA StillAfterKept ==
    ASSUME IInv, \A i \in Jobs : Moves(i), Still => Still',
           NEW k \in Jobs \cup {0}, k # 0 => mode[k] # "none", StillAfter(k)
    PROVE  StillAfter(k)'
<1>1. CASE k = 0
  BY <1>1 DEF StillAfter
<1>2. CASE k # 0
  <2>1. /\ k \in Jobs /\ Moves(k) /\ job[k].action = "stop"
        /\ Stopped(k) => Still
    BY <1>2 DEF StillAfter
  <2>2. UNCHANGED job[k]
    BY <1>2, <2>1 DEF Moves, Stands, Quits, Goes, Enters, Appears
  <2>3. ASSUME Stopped(k)' PROVE Still'
    <3>1. CASE Stands(k)
      BY <2>1, <2>3, <3>1 DEF Stands, Stopped
    <3>2. CASE Quits(k)
      <4>1. mode'[k] = "succeeded"
        BY <2>3, <3>2 DEF Quits, Stopped, Ended, Cleaning
      <4>2. mode[k] = "chain" /\ pc[k] = 5
        BY <2>1, <3>2, <4>1, StopOrSyncLength DEF Quits, Aux, Starter
      <4> QED BY <2>1, <4>2 DEF Stopped
    <3>3. CASE Goes(k)
      <4>1. mode[k] = "chain" /\ pc[k] \in Nat /\ pc[k] + 1 \in 4 .. 5
        BY <2>1, <2>3, <3>3 DEF Goes, Stopped, IInv, ControlType
      <4>2. pc[k] = 3 \/ pc[k] = 4
        BY <4>1
      <4> QED BY <2>1, <3>3, <4>1, <4>2 DEF Goes, Works, Stopped
    <3>4. CASE Enters(k)
      BY <2>3, <3>4 DEF Enters, Stopped
    <3> QED BY <1>2, <2>1, <3>1, <3>2, <3>3, <3>4 DEF Moves, Appears
  <2> QED BY <1>2, <2>1, <2>2, <2>3 DEF StillAfter
<1> QED BY <1>1, <1>2

LEMMA SwitchSilentKept ==
    ASSUME IInv, SeqInv, RunInv, \A i \in Jobs : Moves(i), Leaving
    PROVE  SwitchSilent'
<1>1. SUFFICES ASSUME NEW i \in Jobs, Switch(i)' PROVE Silent(i)'
  BY DEF SwitchSilent
<1>2. /\ pc[i] \in Nat /\ loc[i].child \in Jobs \cup {0}
  BY DEF IInv, ControlType, Locals
<1>3. CASE Appears(i)
  BY <1>1, <1>3 DEF Appears, Silent
<1>4. CASE Quits(i)
  BY <1>4 DEF Quits, Silent, Ended, Cleaning
<1>5. CASE Stands(i) \/ Goes(i) \/ Enters(i)
  <2>1. Switch(i) /\ Silent(i) /\ UNCHANGED job[i]
    BY <1>1, <1>5 DEF Stands, Goes, Enters, Switch, RunInv, SwitchSilent
  <2>2. CASE i \notin Active \/ Loud(i)
    <3>1. CASE Stands(i)
      BY <1>2, <2>2, <3>1, ActiveIs DEF Stands, Silent, Loud, Cleaning
    <3>2. CASE Goes(i) \/ Enters(i)
      <4>1. i \in Active /\ mode[i] = "chain" /\ pc[i] > 20 /\ Goes(i)
        BY <2>2, <3>2, ActiveIs DEF Goes, Enters, Loud, Cleaning
      <4>2. mode'[i] = "chain" /\ pc'[i] > 21
        BY <1>2, <4>1 DEF Goes
      <4> QED BY <1>2, <4>1, <4>2 DEF Silent, Goes
    <3> QED BY <1>5, <3>1, <3>2
  <2>3. CASE Still => Still'
    <3>1. loc[i].child # 0 => mode[loc[i].child] # "none"
      BY DEF SeqInv, Children
    <3>2. CASE Stands(i)
      <4>1. UNCHANGED <<mode[i], pc[i], loc[i], job[i]>>
        BY <3>2 DEF Stands
      <4>2. ASSUME StillAfter(loc[i].child) PROVE StillAfter(loc[i].child)'
        <5>1. PICK c \in Jobs \cup {0} : c = loc[i].child
          BY <1>2
        <5>2. StillAfter(c)'
          BY <2>3, <3>1, <4>2, <5>1, StillAfterKept
        <5> QED BY <4>1, <5>1, <5>2
      <4> QED BY <2>1, <2>3, <4>1, <4>2 DEF Silent
    <3>3. CASE Enters(i)
      BY <2>1, <2>3, <3>3 DEF Silent, Enters
    <3>4. CASE Goes(i)
      <4>1. /\ mode[i] = "chain" /\ mode'[i] = "chain" /\ pc'[i] = pc[i] + 1
            /\ Turned(i, loc'[i])
        BY <2>1, <3>4 DEF Goes, Works
      <4>2. CASE pc[i] <= 3
        BY <1>2, <2>1, <2>3, <4>1, <4>2 DEF Silent, Turned
      <4>3. CASE pc[i] = 4
        <5>1. StillAfter(loc[i].child)'
          <6>1. CASE loc'[i].child = 0 /\ job[i].vmState = "stopped"
            BY <2>1, <2>3, <4>1, <4>3, <6>1 DEF Silent, StillAfter
          <6>2. ASSUME NEW k \in Jobs, loc'[i].child = k, Begun(k),
                       job'[k].action = "stop"
                PROVE  StillAfter(loc[i].child)'
            <7>1. ~Stopped(k)' /\ k # 0
              BY <6>2 DEF Stopped, Begun, Jobs
            <7> QED BY <6>2, <7>1 DEF StillAfter
          <6> QED BY <4>1, <4>3, <6>1, <6>2 DEF Turned
        <5> QED BY <4>1, <4>3, <5>1 DEF Silent
      <4>4. CASE pc[i] = 5
        <5>1. Still
          BY <2>1, <4>1, <4>4 DEF Silent, Turned, StillAfter, Stopped
        <5> QED BY <2>3, <4>1, <4>4, <5>1 DEF Silent
      <4>5. CASE pc[i] > 5
        <5>1. pc[i] \in 6 .. 20 \/ pc[i] > 20
          BY <1>2, <4>5
        <5> QED BY <1>2, <2>1, <2>3, <4>1, <4>5, <5>1 DEF Silent
      <4> QED BY <1>2, <4>2, <4>3, <4>4, <4>5
    <3> QED BY <1>5, <3>2, <3>3, <3>4
  <2> QED BY <2>1, <2>2, <2>3 DEF Leaving
<1> QED BY <1>3, <1>4, <1>5 DEF Moves

-----------------------------------------------------------------------------
LEMMA RecordsKept ==
    ASSUME CurInv, \A i \in Jobs : Moves(i), Leaving
    PROVE  Ids' /\ RecordsApart'
<1>1. ASSUME NEW r \in LiveIds'
      PROVE  records'[r].id = r /\ Apart(records'[r])
  <2>1. r \in RecordIds /\ stored'[r] = "live"
    BY DEF LiveIds
  <2>2. CASE UNCHANGED <<records[r], stored[r]>>
    BY <2>1, <2>2 DEF CurInv, Ids, RecordsApart, LiveIds
  <2> QED BY <2>1, <2>2 DEF Leaving, Written
<1>2. ASSUME NEW i \in Jobs PROVE Apart(loc'[i].rec)
  <2>1. CASE Stands(i)
    BY <2>1 DEF Stands, CurInv, RecordsApart
  <2> QED BY <2>1 DEF Moves, Quits, Goes, Enters, Appears
<1> QED BY <1>1, <1>2 DEF Ids, RecordsApart, Apart

LEMMA CopiesLeaveKept ==
    ASSUME IInv, CurInv, \A i \in Jobs : Moves(i), Leaving
    PROVE  CopiesLeave'
<1>1. SUFFICES ASSUME NEW i \in Jobs, job'[i].action \in {"begin", "sync"}
               PROVE  Leaves(i)'
  BY DEF CopiesLeave
<1>2. CASE mode'[i] \notin {"request", "chain"}
  BY <1>2 DEF Leaves
<1>3. CASE Enters(i) \/ Appears(i)
  BY <1>1, <1>3 DEF Enters, Appears
<1>4. CASE mode'[i] \in {"request", "chain"} /\ (Stands(i) \/ Goes(i))
  <2>1. UNCHANGED job[i] /\ mode[i] = mode'[i] /\ i \in Active
    BY <1>4, ActiveIs DEF Stands, Goes
  <2>2. vm'.server = vm.server /\ Leaves(i)
    BY <1>1, <2>1 DEF Leaving, CurInv, CopiesLeave
  <2>3. CASE Stands(i)
    BY <2>2, <2>3 DEF Stands, Leaves
  <2>4. CASE Goes(i)
    <3>1. /\ mode[i] = "chain" /\ pc'[i] = pc[i] + 1 /\ pc[i] \in Nat
          /\ Works(i, loc'[i])
      BY <2>4 DEF Goes, IInv, ControlType
    <3>2. CASE job[i].action = "begin"
      BY <2>1, <2>2, <3>1, <3>2 DEF Works, Leaves
    <3>3. CASE job[i].action = "sync"
      <4>1. pc'[i] >= 4 => loc'[i].rec.phase = "sync"
        <5>1. pc'[i] >= 4 => pc[i] = 3 \/ pc[i] >= 4
          BY <3>1
        <5>2. pc[i] >= 4 => pc[i] > 3 /\ loc[i].rec.phase = "sync"
          BY <2>2, <3>1, <3>3 DEF Leaves
        <5> QED BY <3>1, <3>3, <5>1, <5>2 DEF Works
      <4> QED BY <2>1, <2>2, <3>1, <3>3, <4>1 DEF Works, Leaves, SameRec
    <3> QED BY <1>1, <2>1, <3>2, <3>3
  <2> QED BY <1>4, <2>3, <2>4
<1> QED BY <1>2, <1>3, <1>4 DEF Moves, Quits, Ended, Cleaning

\* The final sync k a switch waits for goes on as the switch relies on
LEMMA CopiedKept ==
    ASSUME IInv, SeqInv, CurInv, \A i \in Jobs : Moves(i),
           NEW k \in Jobs, Copied(k), Still,
           mode[k] \in {"chain", "succeeded"} => SameLookup,
           \A t \in Servers : Holds(t) => Holds(t)'
    PROVE  Copied(k)'
<1>1. Moves(k) /\ Final(k) /\ mode[k] \notin {"none", "request"}
  BY DEF Copied
<1>2. UNCHANGED job[k]
  BY <1>1 DEF Moves, Stands, Quits, Goes, Enters, Appears
<1>3. Final(k)' /\ Aux(k) /\ job[k].action = "sync"
  BY <1>1, <1>2 DEF Final, Aux
<1>4. k # 0 /\ mode'[k] \notin {"none", "request"}
  BY <1>1 DEF Moves, Stands, Quits, Goes, Enters, Appears, Ended, Cleaning, Jobs
<1>5. CASE mode[k] \notin {"chain", "succeeded"}
  <2>1. mode'[k] \notin {"chain", "succeeded"}
    BY <1>1, <1>3, <1>5
    DEF Moves, Stands, Quits, Goes, Enters, Appears, Ended, Cleaning
  <2> QED BY <1>3, <1>4, <2>1 DEF Copied
<1>6. CASE mode[k] \in {"chain", "succeeded"}
  <2>1. PICK t : t = Lookup.target
    OBVIOUS
  <2>2. Lookup'.id = Lookup.id /\ Lookup'.target = t
    BY <1>6, <2>1 DEF SameLookup
  <2>3. Holds(t) => Holds(t)'
    BY DEF Holds
  <2>4. Holds(t)' => Holds(Lookup.target)'
    BY <2>2 DEF Holds
  <2>5. /\ mode[k] = "chain" =>
               /\ loc[k].rec.id = Lookup.id /\ loc[k].rec.target = t
               /\ pc[k] >= 7 => Holds(t)
        /\ mode[k] = "succeeded" => Holds(t)
    BY <2>1 DEF Copied
  <2>6. CASE Stands(k)
    BY <1>3, <1>4, <2>2, <2>3, <2>4, <2>5, <2>6 DEF Stands, Copied
  <2>7. CASE Quits(k)
    <3>1. mode'[k] # "chain"
      BY <2>7 DEF Quits, Ended, Cleaning
    <3>2. ASSUME mode'[k] = "succeeded" PROVE Holds(t)
      BY <1>3, <2>5, <2>7, <3>2, StopOrSyncLength DEF Quits
    <3> QED BY <1>3, <1>4, <2>3, <2>4, <3>1, <3>2 DEF Copied
  <2>8. CASE Goes(k)
    <3>1. /\ mode[k] = "chain" /\ mode'[k] = "chain" /\ pc'[k] = pc[k] + 1
          /\ SameRec(loc'[k].rec, loc[k].rec) /\ pc[k] \in Nat
          /\ pc[k] = 6 => \A v \in Servers : v = loc[k].rec.target => Holds(v)'
      BY <1>3, <2>8 DEF Goes, Works, IInv, ControlType
    <3>2. ASSUME pc'[k] >= 7 PROVE Holds(t)'
      <4>1. pc[k] = 6 \/ pc[k] >= 7
        BY <3>1, <3>2
      <4>2. CASE pc[k] = 6
        BY <2>5, <3>1, <4>2 DEF Holds
      <4>3. CASE pc[k] >= 7
        BY <2>3, <2>5, <3>1, <4>3
      <4> QED BY <4>1, <4>2, <4>3
    <3>3. loc'[k].rec.id = Lookup'.id /\ loc'[k].rec.target = Lookup'.target
      BY <2>2, <2>5, <3>1 DEF SameRec
    <3> QED BY <1>3, <1>4, <2>4, <3>1, <3>2, <3>3 DEF Copied
  <2> QED BY <1>1, <1>6, <2>6, <2>7, <2>8 DEF Moves, Enters, Appears
<1> QED BY <1>5, <1>6

LEMMA SwitchSyncedKept ==
    ASSUME IInv, SeqInv, RunInv, CurInv, \A i \in Jobs : Moves(i), Leaving
    PROVE  SwitchSynced'
<1>1. SUFFICES ASSUME NEW i \in Jobs, Switch(i)', mode'[i] = "chain"
               PROVE  Synced(i)'
  BY DEF SwitchSynced, Synced
<1>2. /\ pc[i] \in Nat /\ loc[i].child \in Jobs \cup {0} /\ Moves(i)
  BY DEF IInv, ControlType, Locals
<1>3. CASE Enters(i) \/ Appears(i)
  BY <1>1, <1>3 DEF Enters, Appears, Synced
<1>4. CASE Stands(i) \/ Goes(i)
  <2>1. /\ Switch(i) /\ Synced(i) /\ UNCHANGED job[i] /\ mode[i] = "chain"
        /\ pc[i] \in 7 .. 17 => \A t \in Servers : Holds(t) => Holds(t)'
        /\ Awaits(i) => SameLookup
        /\ Silent(i)
    BY <1>1, <1>4
    DEF Stands, Goes, Switch, CurInv, SwitchSynced, RunInv, SwitchSilent,
        Leaving
  <2>2. PICK t, u : t = Lookup.target /\ u = loc[i].rec.target
    OBVIOUS
  <2>3. pc[i] \in 7 .. 17 => (Holds(t) => Holds(t)') /\ (Holds(u) => Holds(u)')
    BY <2>1 DEF Holds
  <2>4. CASE Stands(i)
    <3>1. UNCHANGED <<pc[i], loc[i]>>
      BY <2>4 DEF Stands
    <3>2. CASE pc[i] = 7
      <4>1. PICK k \in Jobs : k = loc[i].child /\ Copied(k)
        BY <1>2, <2>1, <3>2 DEF Synced, Copied
      <4>2. mode[k] \in {"chain", "succeeded"} => SameLookup
        BY <2>1, <3>2, <4>1 DEF Awaits
      <4>3. Still
        BY <2>1, <3>2 DEF Silent
      <4>4. Copied(k)'
        BY <2>1, <3>2, <4>1, <4>2, <4>3, CopiedKept
      <4>5. Copied(loc[i].child)'
        BY <3>1, <4>1, <4>4
      <4> QED BY <3>1, <3>2, <4>5 DEF Synced
    <3>3. CASE pc[i] \in 8 .. 9
      <4>1. Holds(t) /\ Lookup'.target = t
        BY <2>1, <2>2, <3>3 DEF Synced, Awaits, SameLookup
      <4>2. Holds(Lookup.target)'
        BY <2>3, <3>3, <4>1 DEF Holds
      <4> QED BY <3>1, <3>3, <4>2 DEF Synced
    <3>4. CASE pc[i] \in 10 .. 17
      <4>1. Holds(u) /\ loc'[i].rec.target = u
        BY <2>1, <2>2, <3>1, <3>4 DEF Synced
      <4>2. Holds(loc[i].rec.target)'
        BY <2>3, <3>4, <4>1 DEF Holds
      <4> QED BY <3>1, <3>4, <4>2 DEF Synced
    <3> QED BY <1>2, <3>1, <3>2, <3>3, <3>4 DEF Synced
  <2>5. CASE Goes(i)
    <3>1. pc'[i] = pc[i] + 1 /\ Turned(i, loc'[i])
      BY <2>1, <2>5 DEF Goes, Works
    <3>2. CASE pc[i] < 6 \/ pc[i] > 16
      BY <1>2, <3>1, <3>2 DEF Synced
    <3>3. CASE pc[i] = 6
      <4>1. PICK k \in Jobs : /\ loc'[i].child = k /\ Begun(k)
                             /\ Final(k)' /\ loc'[k].rec = Lookup'
        BY <3>1, <3>3 DEF Turned
      <4>2. Copied(k)'
        BY <4>1 DEF Copied, Begun, Jobs
      <4>3. Copied(loc[i].child)'
        BY <4>1, <4>2
      <4> QED BY <3>1, <3>3, <4>3 DEF Synced
    <3>4. CASE pc[i] = 7
      <4>1. PICK k \in Jobs : k = loc[i].child /\ Copied(k)
        BY <1>2, <2>1, <3>4 DEF Synced, Copied
      <4>2. mode[k] = "succeeded"
        BY <3>1, <3>4, <4>1 DEF Turned, Copied
      <4>3. Holds(t) /\ Lookup'.target = t
        BY <2>1, <2>2, <3>4, <4>1, <4>2 DEF Awaits, Copied, SameLookup
      <4>4. Holds(Lookup.target)'
        BY <2>3, <3>4, <4>3 DEF Holds
      <4> QED BY <3>1, <3>4, <4>4 DEF Synced
    <3>5. CASE pc[i] = 8
      <4>1. Holds(t) /\ Lookup'.target = t
        BY <2>1, <2>2, <3>5 DEF Synced, Awaits, SameLookup
      <4>2. Holds(Lookup.target)'
        BY <2>3, <3>5, <4>1 DEF Holds
      <4> QED BY <3>1, <3>5, <4>2 DEF Synced
    <3>6. CASE pc[i] = 9
      <4>1. Holds(t) /\ loc'[i].rec.target = t
        BY <2>1, <2>2, <3>1, <3>6 DEF Synced, Turned
      <4>2. Holds(loc[i].rec.target)'
        BY <2>3, <3>6, <4>1 DEF Holds
      <4> QED BY <3>1, <3>6, <4>2 DEF Synced
    <3>7. CASE pc[i] \in 10 .. 16
      <4>1. Holds(u) /\ loc'[i].rec.target = u
        BY <2>1, <2>2, <3>1, <3>7 DEF Synced, Turned, SameRec
      <4>2. Holds(loc[i].rec.target)'
        BY <2>3, <3>7, <4>1 DEF Holds
      <4> QED BY <3>1, <3>7, <4>2 DEF Synced
    <3> QED BY <1>2, <3>2, <3>3, <3>4, <3>5, <3>6, <3>7
  <2> QED BY <1>4, <2>4, <2>5
<1> QED BY <1>1, <1>2, <1>3, <1>4 DEF Moves, Quits, Ended, Cleaning

(* A step that moves the jobs in these ways keeps both invariants.         *)
LEMMA MovesKeep ==
    ASSUME IInv, SeqInv, RunInv, CurInv, \A i \in Jobs : Moves(i), Leaving,
           RunsAtVm', Known', PrimaryHolds'
    PROVE  RunInv' /\ CurInv'
BY StopsHoldKept, SwitchSilentKept, RecordsKept, CopiesLeaveKept,
   SwitchSyncedKept
DEF RunInv, CurInv

\* ... which a step does that starts no instance and takes no writes away
Calm ==
    /\ UNCHANGED vm
    /\ \A s \in Servers :
           /\ inst'[s].running => inst[s].running
           /\ Holds(s) => Holds(s)'

LEMMA CalmKeeps ==
    ASSUME IInv, SeqInv, RunInv, CurInv, \A i \in Jobs : Moves(i), Calm,
           \A r \in RecordIds : Written(r),
           \A i \in Jobs : Awaits(i) => SameLookup
    PROVE  RunInv' /\ CurInv'
<1>1. Still => Still'
  BY DEF Calm, Still
<1>2. ASSUME NEW i \in Jobs, Stopping(i)
      PROVE  ~inst'[job[i].queue].running
  <2>1. job[i].queue \in Servers
    BY <1>2 DEF Stopping, IInv, ControlType, ControlOf
  <2> QED BY <1>2, <2>1 DEF RunInv, StopsHold, Calm
<1>3. Leaving
  BY <1>1, <1>2 DEF Leaving, Calm
<1>4. RunsAtVm'
  BY DEF RunInv, RunsAtVm, Calm
<1>5. Known'
  <2>1. SUFFICES ASSUME NEW s \in Servers, inst'[s].running,
                        vm.state # "running"
                 PROVE  \E i \in Jobs : Starting(i)'
    BY DEF Known, Calm
  <2>2. PICK i \in Jobs : Starting(i)
    BY <2>1 DEF RunInv, Known, Calm
  <2>3. Stands(i)
    BY <2>1, <2>2
    DEF Moves, Quits, Goes, Works, Enters, Appears, Starting, Calm
  <2> QED BY <2>2, <2>3 DEF Stands, Starting
<1>6. PrimaryHolds'
  <2>1. vm.server \in Servers /\ UNCHANGED vm
    BY DEF IInv, DataType, VmRecord, Calm
  <2>2. PICK s \in Servers : s = vm.server /\ s = vm'.server
    BY <2>1
  <2>3. Holds(s)'
    BY <2>2 DEF CurInv, PrimaryHolds, Calm
  <2> QED BY <2>2, <2>3 DEF PrimaryHolds
<1> QED BY <1>3, <1>4, <1>5, <1>6, MovesKeep

-----------------------------------------------------------------------------
(* The steps of a job, as such moves.                                      *)
LEMMA ApartNone == Apart(NoRecord) /\ Apart(NoLocals.rec)
BY ConstantsAssumption DEF Apart, NoRecord, NoLocals

LEMMA StartLength ==
    ASSUME NEW i, IsLast(i)
    PROVE  ~Starting(i)
<1>1. Len(StartChain) = 5
  BY DEF StartChain
<1>2. Chain["start"] = StartChain
  BY DEF Chain, Chains
<1>3. SUFFICES ASSUME Starting(i) PROVE FALSE
  OBVIOUS
<1>4. Tasks(i) = StartChain /\ pc[i] = 4
  BY <1>2, <1>3 DEF Tasks, Starting
<1> QED BY <1>1, <1>4 DEF IsLast

LEMMA ProceedMoves ==
    ASSUME IInv, NEW j \in Jobs, mode[j] \in {"chain"} \cup Cleaning,
           NEW l, Apart(l.rec), Proceed(j, l), UNCHANGED job,
           mode[j] = "chain" /\ ~IsLast(j) => Works(j, l)
    PROVE  \A i \in Jobs : Moves(i)
<1>1. mode' = ModeAfter(j) /\ pc' = PcAfter(j) /\ loc' = LocAfter(j, l)
  BY DEF Proceed
<1>2. mode \in [Jobs -> Modes] /\ pc \in [Jobs -> Nat] /\ loc \in [Jobs -> Locals]
  BY DEF IInv, ControlType
<1>3. ASSUME NEW i \in Jobs \ {j} PROVE Stands(i)
  BY <1>1, <1>2 DEF ModeAfter, PcAfter, LocAfter, Stands
<1>4. CASE IsLast(j)
  <2>1. mode'[j] = Outcome[mode[j]] /\ loc'[j] = NoLocals
    BY <1>1, <1>2, <1>4 DEF ModeAfter, LocAfter
  <2>2. /\ mode'[j] \in Ended
        /\ mode'[j] = "succeeded" => mode[j] = "chain"
    BY <2>1 DEF Outcome, Cleaning, Ended
  <2>3. Apart(loc'[j].rec) /\ ~Starting(j)
    BY <1>4, <2>1, ApartNone, StartLength
  <2>4. Quits(j)
    BY <1>4, <2>2, <2>3 DEF Quits
  <2> QED BY <1>3, <2>4 DEF Moves
<1>5. CASE ~IsLast(j)
  <2>1. mode'[j] = mode[j] /\ pc'[j] = pc[j] + 1 /\ loc'[j] = l
    BY <1>1, <1>2, <1>5 DEF ModeAfter, PcAfter, LocAfter
  <2>2. CASE mode[j] = "chain"
    <3>1. Goes(j)
      BY <1>5, <2>1, <2>2 DEF Goes
    <3> QED BY <1>3, <3>1 DEF Moves
  <2>3. CASE mode[j] \in Cleaning
    <3>1. Quits(j)
      BY <2>1, <2>3 DEF Quits, Cleaning, Starting
    <3> QED BY <1>3, <3>1 DEF Moves
  <2> QED BY <2>2, <2>3
<1> QED BY <1>4, <1>5

LEMMA FailMoves ==
    ASSUME IInv, NEW j \in Jobs, mode[j] = "chain", ~Starting(j),
           NEW l, Apart(l.rec), FailWith(j, l), UNCHANGED job
    PROVE  \A i \in Jobs : Moves(i)
<1>1. mode \in [Jobs -> Modes] /\ pc \in [Jobs -> Nat] /\ loc \in [Jobs -> Locals]
  BY DEF IInv, ControlType
<1>2. ASSUME NEW i \in Jobs \ {j} PROVE Stands(i)
  BY <1>1 DEF FailWith, Stands
<1>3. \/ mode'[j] = "failed" /\ loc'[j] = NoLocals
      \/ mode'[j] = "onerror" /\ loc'[j] = l
  BY <1>1 DEF FailWith
<1>4. Apart(loc'[j].rec)
  BY <1>3, ApartNone
<1>5. Quits(j)
  BY <1>3, <1>4 DEF Quits, Ended, Cleaning
<1> QED BY <1>2, <1>5 DEF Moves

\* The job k that is stopped at its sync, by the job j
LEMMA InterruptMoves ==
    ASSUME IInv, CurInv, NEW j \in Jobs, mode[j] \in {"chain"} \cup Cleaning,
           mode[j] = "chain" /\ ~IsLast(j) => Works(j, loc[j]),
           NEW k \in Jobs, k # j, mode[k] = "chain", ~Starting(k),
           NEW m \in Cleaning,
           mode' = [ModeAfter(j) EXCEPT ![k] = m],
           pc' = [PcAfter(j) EXCEPT ![k] = 1],
           loc' = LocAfter(j, loc[j]), UNCHANGED job
    PROVE  \A i \in Jobs : Moves(i)
<1>1. mode \in [Jobs -> Modes] /\ pc \in [Jobs -> Nat] /\ loc \in [Jobs -> Locals]
  BY DEF IInv, ControlType
<1>2. ASSUME NEW i \in Jobs \ {j, k} PROVE Stands(i)
  BY <1>1 DEF ModeAfter, PcAfter, LocAfter, Stands
<1>3. Apart(loc[j].rec) /\ Apart(loc[k].rec)
  BY DEF CurInv, RecordsApart
<1>4. Quits(k)
  <2>1. mode'[k] = m /\ loc'[k] = loc[k]
    BY <1>1 DEF ModeAfter, LocAfter
  <2> QED BY <1>3, <2>1 DEF Quits, Cleaning
<1>5. CASE IsLast(j)
  <2>1. mode'[j] = Outcome[mode[j]] /\ loc'[j] = NoLocals
    BY <1>1, <1>5 DEF ModeAfter, LocAfter
  <2>2. /\ mode'[j] \in Ended
        /\ mode'[j] = "succeeded" => mode[j] = "chain"
    BY <2>1 DEF Outcome, Cleaning, Ended
  <2>3. Apart(loc'[j].rec) /\ ~Starting(j)
    BY <1>5, <2>1, ApartNone, StartLength
  <2>4. Quits(j)
    BY <1>5, <2>2, <2>3 DEF Quits
  <2> QED BY <1>2, <1>4, <2>4 DEF Moves
<1>6. CASE ~IsLast(j)
  <2>1. mode'[j] = mode[j] /\ pc'[j] = pc[j] + 1 /\ loc'[j] = loc[j]
    BY <1>1, <1>6 DEF ModeAfter, PcAfter, LocAfter
  <2>2. CASE mode[j] = "chain"
    <3>1. Goes(j)
      BY <1>3, <1>6, <2>1, <2>2 DEF Goes
    <3> QED BY <1>2, <1>4, <3>1 DEF Moves
  <2>3. CASE mode[j] \in Cleaning
    <3>1. Quits(j)
      BY <1>3, <2>1, <2>3 DEF Quits, Cleaning, Starting
    <3> QED BY <1>2, <1>4, <3>1 DEF Moves
  <2> QED BY <2>2, <2>3
<1> QED BY <1>5, <1>6

-----------------------------------------------------------------------------
(* Most tasks do none of what the invariants ask of a task in particular.  *)
Special ==
    {"allocateServer", "storeInitialRecord", "sync", "stopVm", "putVm",
     "stopSourceVm", "waitForWorkflowJob", "startFinalSync", "waitForSync",
     "getRecord"}

LEMMA SpecialAre ==
    /\ \A n \in {4, 5, 6, 7, 9} : SwitchChain[n] \in Special
    /\ \A n \in {3, 6} : SyncChain[n] \in Special
    /\ StopChain[3] \in Special /\ StartChain[4] \in Special
BY DEF SwitchChain, SyncChain, StopChain, StartChain, Special

LEMMA PlainWorks ==
    ASSUME IInv, NEW j \in Jobs, NEW task, task \notin Special, At(j, task),
           NEW l, SameRec(l.rec, loc[j].rec), l.child = loc[j].child,
           job[j].action = "sync" => l.rec.phase = loc[j].rec.phase
    PROVE  Works(j, l) /\ ~Starting(j)
<1>1. mode[j] = "chain" /\ Chain[job[j].action][pc[j]] = task /\ pc[j] \in Nat
  BY DEF At, IInv, ControlType
<1>2. /\ Chain["switch"] = SwitchChain /\ Chain["sync"] = SyncChain
      /\ Chain["stop"] = StopChain /\ Chain["start"] = StartChain
  BY DEF Chain, Chains
<1>3. Switch(j) => pc[j] \notin {4, 5, 6, 7, 9}
  BY <1>1, <1>2, SpecialAre DEF Switch
<1>4. job[j].action = "sync" => pc[j] \notin {3, 6}
  BY <1>1, <1>2, SpecialAre
<1>5. ~(job[j].action = "stop" /\ pc[j] = 3) /\ ~Starting(j)
  BY <1>1, <1>2, SpecialAre DEF Starting
<1>6. Switch(j) => Turned(j, l)
  BY <1>3 DEF Turned
<1> QED BY <1>4, <1>5, <1>6 DEF Works, SameRec

PrimaryInv == RunInv /\ CurInv

LEMMA SameData ==
    /\ UNCHANGED <<vm, inst>> => Calm
    /\ UNCHANGED db => \A r \in RecordIds : Written(r)
    /\ UNCHANGED <<db, vm>> => SameLookup
BY DEF Calm, Holds, Written, db, SameLookup, Lookup, LiveIds

\* A step that leaves the records
LEMMA StepKeeps ==
    ASSUME IInv, SeqInv, PrimaryInv, \A i \in Jobs : Moves(i), Calm,
           UNCHANGED db
    PROVE  PrimaryInv'
<1>1. UNCHANGED vm
  BY DEF Calm
<1> QED BY <1>1, SameData, CalmKeeps DEF PrimaryInv

LEMMA NotStarting ==
    ASSUME NEW j, NEW task, At(j, task), task # "putVm"
    PROVE  ~Starting(j) /\ mode[j] = "chain"
<1>1. Chain["start"][4] = "putVm"
  BY DEF Chain, Chains, StartChain
<1> QED BY <1>1 DEF At, Starting

LEMMA LocApart ==
    ASSUME IInv, PrimaryInv, NEW j \in Jobs
    PROVE  Apart(loc[j].rec) /\ loc[j] \in Locals /\ loc[j].rec \in Record
BY LocalsRec DEF PrimaryInv, CurInv, RecordsApart, IInv

LEMMA FailKeeps ==
    ASSUME IInv, SeqInv, PrimaryInv, NEW j \in Jobs, NEW task, At(j, task),
           task # "putVm", NEW l, Apart(l.rec), FailWith(j, l),
           UNCHANGED <<db, vm, inst, job>>
    PROVE  PrimaryInv'
BY NotStarting, FailMoves, SameData, StepKeeps

LEMMA ProceedKeeps ==
    ASSUME IInv, SeqInv, PrimaryInv, NEW j \in Jobs, NEW task,
           task \notin Special, At(j, task) \/ AtCleanup(j, task),
           NEW l, SameRec(l.rec, loc[j].rec), l.child = loc[j].child,
           l.rec.phase = loc[j].rec.phase, Proceed(j, l), Calm,
           UNCHANGED <<db, job>>
    PROVE  PrimaryInv'
<1>1. mode[j] \in {"chain"} \cup Cleaning /\ (mode[j] = "chain" => At(j, task))
  BY DEF At, AtCleanup, Cleaning
<1>2. Apart(l.rec)
  BY LocApart DEF Apart, SameRec
<1>3. mode[j] = "chain" => Works(j, l)
  BY <1>1, PlainWorks
<1> QED BY <1>1, <1>2, <1>3, ProceedMoves, StepKeeps

LEMMA PlainKeeps ==
    ASSUME IInv, SeqInv, PrimaryInv, NEW j \in Jobs, NEW task,
           task \notin Special, At(j, task) \/ AtCleanup(j, task),
           Calm, UNCHANGED <<db, job>>,
           GoOn(j) \/ (At(j, task) /\ Fail(j) /\ UNCHANGED inst)
    PROVE  PrimaryInv'
<1>1. CASE GoOn(j)
  BY <1>1, ProceedKeeps DEF GoOn, SameRec
<1>2. CASE At(j, task) /\ Fail(j) /\ UNCHANGED inst
  <2>1. task # "putVm" /\ UNCHANGED vm
    BY DEF Special, Calm
  <2> QED BY <1>2, <2>1, LocApart, FailKeeps DEF Fail
<1> QED BY <1>1, <1>2

LEMMA PlainTasksPrimary ==
    ASSUME IInv, SeqInv, PrimaryInv, NEW j \in Jobs,
           \/ AcquireVMTicket(j) \/ ReleaseVMTicket(j)
           \/ ReleaseVMTicketIgnoringErr(j) \/ UnreserveNetworkIps(j)
           \/ EnsureVmState(j) \/ EnsureSourceVmStopped(j) \/ SetupTarget(j)
           \/ EnsureTargetVmHasDni(j) \/ EnsureSourceVmHasDni(j)
           \/ EnsureTargetVmStopped(j) \/ DisallowRetry(j)
    PROVE  PrimaryInv'
<1>1. ASSUME NEW task, task \notin Special, NEW ok, Check(j, task, ok)
      PROVE  PrimaryInv'
  BY <1>1, SameData, PlainKeeps DEF Check
<1>2. CASE AcquireVMTicket(j)
  BY <1>2, SameData, PlainKeeps DEF AcquireVMTicket, Special
<1>3. CASE ReleaseVMTicket(j)
  BY <1>3, SameData, PlainKeeps DEF ReleaseVMTicket, Special
<1>4. CASE ReleaseVMTicketIgnoringErr(j)
  BY <1>4, SameData, PlainKeeps DEF ReleaseVMTicketIgnoringErr, Special
<1>5. CASE UnreserveNetworkIps(j)
  BY <1>5, SameData, PlainKeeps DEF UnreserveNetworkIps, Special
<1>6. CASE EnsureVmState(j) \/ EnsureSourceVmStopped(j) \/ SetupTarget(j)
  BY <1>1, <1>6
  DEF EnsureVmState, EnsureSourceVmStopped, SetupTarget, Special
<1>7. CASE EnsureTargetVmHasDni(j) \/ EnsureSourceVmHasDni(j)
             \/ EnsureTargetVmStopped(j)
  BY <1>1, <1>7
  DEF EnsureTargetVmHasDni, EnsureSourceVmHasDni, EnsureTargetVmStopped,
      Special
<1>8. CASE DisallowRetry(j)
  <2> DEFINE l == [loc[j] EXCEPT !.noRetry = TRUE]
  <2>1. l.child = loc[j].child /\ l.rec = loc[j].rec
    BY LocApart DEF Locals
  <2>2. /\ At(j, "disallowRetry") /\ Proceed(j, l)
        /\ UNCHANGED <<db, vm, inst, job>>
    BY <1>8 DEF DisallowRetry
  <2> HIDE DEF l
  <2>3. SameRec(l.rec, loc[j].rec) /\ l.rec.phase = loc[j].rec.phase
    BY <2>1 DEF SameRec
  <2>4. Calm
    BY <2>2, SameData
  <2> QED BY <2>1, <2>2, <2>3, <2>4, ProceedKeeps DEF Special
<1> QED BY <1>2, <1>3, <1>4, <1>5, <1>6, <1>7, <1>8

-----------------------------------------------------------------------------
(* The tasks that store the record.                                        *)
LEMMA StarterTasks ==
    ASSUME NEW j \in Jobs, NEW task, IInv, Starter(j),
           At(j, task) \/ AtCleanup(j, task)
    PROVE  task \in {"acquireVMTicket", "ensureVmState", "startVm", "stopVm",
                     "putVm", "releaseVMTicket", "releaseVMTicketIgnoringErr"}
<1>1. /\ Chain["start"] = StartChain /\ Chain["stop"] = StopChain
      /\ Len(StartChain) = 5 /\ Len(StopChain) = 5
      /\ OnError["start"] = <<"releaseVMTicketIgnoringErr">>
      /\ OnError["stop"] = <<"releaseVMTicketIgnoringErr">>
  BY DEF Chain, Chains, StartChain, StopChain, OnError
<1>2. CASE At(j, task)
  <2>1. pc[j] \in 1 .. 5 /\ (StartChain[pc[j]] = task \/ StopChain[pc[j]] = task)
    BY <1>1, <1>2 DEF At, Starter, IInv, ControlType, ControlOf
  <2> QED BY <2>1 DEF StartChain, StopChain
<1>3. CASE AtCleanup(j, task)
  BY <1>1, <1>3 DEF AtCleanup, Starter, IInv, ControlType, ControlOf
<1> QED BY <1>2, <1>3

\* The record the VM's server finds stays the one it finds
LEMMA LookupStays ==
    ASSUME IInv, Ids, UNCHANGED vm, NEW rec,
           rec.id = Lookup.id, rec.id # 0, rec.source = vm.server,
           rec.target = Lookup.target,
           records' = [records EXCEPT ![rec.id] = rec],
           stored' = [stored EXCEPT ![rec.id] = "live"]
    PROVE  SameLookup
<1> DEFINE Found(rs, st) ==
               {r \in RecordIds : st[r] = "live" /\ Matches(rs[r], vm.server)}
           ids == Found(records, stored)
<1>1. /\ Lookup = IF ids = {} THEN NoRecord ELSE records[Newest(ids)]
      /\ \A A : A = Found(records', stored') =>
             Lookup' = IF A = {} THEN NoRecord ELSE records'[Newest(A)]
  <2>1. /\ {r \in LiveIds : Matches(records[r], vm.server)} = ids
        /\ {r \in LiveIds : Matches(records[r], vm.server)}'
               = Found(records', stored')
    BY DEF LiveIds
  <2>2. Lookup = IF ids = {} THEN NoRecord ELSE records[Newest(ids)]
    BY <2>1 DEF Lookup
  <2>3. ASSUME NEW A, A = Found(records', stored')
        PROVE  Lookup' = IF A = {} THEN NoRecord ELSE records'[Newest(A)]
    <3>1. A = {r \in LiveIds : Matches(records[r], vm.server)}'
      BY <2>1, <2>3
    <3> QED BY <3>1 DEF Lookup, Newest
  <2> QED BY <2>2, <2>3
<1>2. ids \in SUBSET RecordIds /\ ids # {}
  BY <1>1 DEF NoRecord
<1>3. Newest(ids) \in ids
  <2> HIDE DEF ids
  <2> QED BY <1>2, NewestIn
<1>4. Newest(ids) = rec.id
  BY <1>1, <1>2, <1>3 DEF Ids, LiveIds
<1>5. /\ records \in [RecordIds -> Record]
      /\ stored \in [RecordIds -> {"never", "live", "deleted"}]
  BY DEF IInv, DataType
<1>6. Found(records', stored') = ids
  <2>1. Matches(rec, vm.server)
    BY DEF Matches
  <2>2. ASSUME NEW r \in RecordIds
        PROVE  r \in Found(records', stored') <=> r \in ids
    BY <1>3, <1>4, <1>5, <2>1, <2>2
  <2> QED BY <2>2
<1>7. Lookup' = rec
  BY <1>1, <1>2, <1>3, <1>4, <1>5, <1>6
<1> QED BY <1>7 DEF SameLookup

LEMMA SameWorkOf ==
    ASSUME NEW rec \in Record
    PROVE  /\ \A a, k : LET new == Started(rec, a, k)
                        IN  SameRec(new, rec) /\ new.phase = a
                            /\ new.state = "running"
           /\ \A a, n, sub : LET new == Succeeded(rec, a, n, sub)
                             IN  SameRec(new, rec) /\ new.phase = rec.phase
           /\ \A n : LET new == Paused(rec, n)
                     IN  SameRec(new, rec) /\ new.phase = rec.phase
           /\ LET new == [rec EXCEPT !.state = "running"]
              IN  SameRec(new, rec) /\ new.phase = rec.phase
           /\ \A k : LET new == [rec EXCEPT !.proc = k]
                     IN  SameRec(new, rec) /\ new.phase = rec.phase
           /\ \A a, n, f, k : SameRec(Failed(rec, a, n, f, k), rec)
           /\ SameRec(rec, rec)
BY DEF Record, SameRec, Started, Succeeded, Paused, Failed

LEMMA StoreWritten ==
    ASSUME IInv, NEW rec, Apart(rec), Store(rec), NEW r \in RecordIds
    PROVE  Written(r)
<1>1. /\ records \in [RecordIds -> Record]
      /\ stored \in [RecordIds -> {"never", "live", "deleted"}]
  BY DEF IInv, DataType
<1>2. CASE rec.state = "successful" /\ rec.phase \in {"abort", "rollback"}
  <2>1. /\ stored' = [stored EXCEPT ![rec.id] =
                          IF @ = "live" THEN "deleted" ELSE @]
        /\ UNCHANGED records
    BY <1>2 DEF Store
  <2>2. UNCHANGED stored[r] \/ stored'[r] # "live"
    BY <1>1, <2>1
  <2> QED BY <2>1, <2>2 DEF Written
<1>3. CASE ~(rec.state = "successful" /\ rec.phase \in {"abort", "rollback"})
  <2>1. /\ records' = [records EXCEPT ![rec.id] = rec]
        /\ stored' = [stored EXCEPT ![rec.id] = "live"]
    BY <1>3 DEF Store
  <2>2. \/ UNCHANGED <<records[r], stored[r]>>
        \/ r = rec.id /\ records'[r] = rec
    BY <1>1, <2>1
  <2> QED BY <2>2 DEF Written
<1> QED BY <1>2, <1>3

\* A job that stores the record beside a switch that waits for its final
\* sync is that sync
LEMMA StoreAwaits ==
    ASSUME IInv, SeqInv, PrimaryInv, NEW j \in Active, ~Starter(j),
           NEW rec, SameRec(rec, loc[j].rec), Store(rec), UNCHANGED vm,
           mode[j] = "chain" /\ Final(j) => rec.phase = "sync",
           NEW i \in Jobs, Awaits(i), i # j
    PROVE  SameLookup
<1>1. i \in Active /\ Switch(i) /\ mode[i] = "chain" /\ j \in Jobs
  BY ActiveIs DEF Awaits
<1>2. Final(j)
  BY <1>1 DEF SeqInv, Alone, Aux, Starter, Switch, Final
<1>3. pc[i] = 7 /\ loc[i].child = j
  BY <1>1, <1>2 DEF SeqInv, FinalSyncs, Cleaning
<1>4. mode[j] = "chain"
  BY <1>3, ActiveIs DEF Awaits
<1>5. loc[j].rec.id = Lookup.id /\ loc[j].rec.target = Lookup.target
  BY <1>1, <1>3, <1>4
  DEF PrimaryInv, CurInv, SwitchSynced, Synced, Copied
<1>6. loc[j].rec.id # 0 /\ loc[j].rec.source = vm.server
  BY <1>1, <1>2, <1>4 DEF PrimaryInv, CurInv, CopiesLeave, Leaves, Final
<1>7. /\ records' = [records EXCEPT ![rec.id] = rec]
      /\ stored' = [stored EXCEPT ![rec.id] = "live"]
  BY <1>2, <1>4 DEF Store
<1>8. Ids
  BY DEF PrimaryInv, CurInv
<1> QED BY <1>5, <1>6, <1>7, <1>8, LookupStays DEF SameRec

LEMMA AwaitsAt ==
    ASSUME IInv, NEW j \in Jobs, NEW task, At(j, task) \/ AtCleanup(j, task),
           Awaits(j)
    PROVE  task \in {"waitForSync", "acquireVMTicket", "getRecord"}
<1>1. At(j, task) /\ pc[j] \in 7 .. 9 /\ Switch(j)
  BY DEF Awaits, AtCleanup, Cleaning
<1>2. SwitchChain[pc[j]] = task
  BY <1>1, AtSwitch
<1>3. \A n \in 7 .. 9 :
          SwitchChain[n] \in {"waitForSync", "acquireVMTicket", "getRecord"}
  BY DEF SwitchChain
<1> QED BY <1>1, <1>2, <1>3

Storing ==
    {"storeInitialRecord", "setRecordStateRunning", "storeReservedNetworkIps",
     "storeSuccess", "storeRecord", "storeProcessDetails", "storeFailure"}

LEMMA StoreKeeps ==
    ASSUME IInv, SeqInv, PrimaryInv, NEW j \in Jobs, NEW task \in Storing,
           At(j, task) \/ AtCleanup(j, task),
           NEW rec, SameRec(rec, loc[j].rec), Store(rec),
           NEW l, l.rec = rec, Proceed(j, l), UNCHANGED <<vm, inst, job>>,
           mode[j] = "chain" => Works(j, l) /\ (Final(j) => rec.phase = "sync")
    PROVE  PrimaryInv'
<1>1. /\ mode[j] \in {"chain"} \cup Cleaning /\ j \in Active
  BY ActiveIs DEF At, AtCleanup, Cleaning
<1>2. ~Starter(j)
  BY StarterTasks DEF Storing
<1>3. Apart(rec)
  BY LocApart DEF Apart, SameRec
<1>4. \A i \in Jobs : Moves(i)
  BY <1>1, <1>3, ProceedMoves
<1>5. \A r \in RecordIds : Written(r)
  BY <1>3, StoreWritten
<1>6. ASSUME NEW i \in Jobs, Awaits(i) PROVE SameLookup
  <2>1. i # j
    BY <1>6, AwaitsAt DEF Storing
  <2> QED BY <1>1, <1>2, <1>6, <2>1, StoreAwaits
<1> QED BY <1>4, <1>5, <1>6, SameData, CalmKeeps DEF PrimaryInv

LEMMA StoreTaskPrimary ==
    ASSUME IInv, SeqInv, PrimaryInv, NEW j \in Jobs,
           NEW task \in Storing, At(j, task),
           NEW rec, SameRec(rec, loc[j].rec),
           task = "storeInitialRecord" => rec.phase = job[j].action,
           task # "storeInitialRecord" => rec.phase = loc[j].rec.phase,
           NEW l \in Locals, l.child = loc[j].child, StoreTask(j, rec, l)
    PROVE  PrimaryInv'
<1> DEFINE m == [l EXCEPT !.rec = rec]
<1>1. m.rec = rec /\ m.child = loc[j].child
  BY DEF Locals
<1>2. /\ \/ Store(rec) /\ Proceed(j, m)
         \/ FailWith(j, m) /\ UNCHANGED db
      /\ UNCHANGED <<vm, inst, job>>
  BY DEF StoreTask
<1> HIDE DEF m
<1>3. mode[j] = "chain" /\ pc[j] \in Nat /\ task = Chain[job[j].action][pc[j]]
  BY DEF At, IInv, ControlType
<1>4. Apart(rec) /\ task # "putVm"
  BY LocApart DEF Apart, SameRec, Storing
<1>5. CASE FailWith(j, m) /\ UNCHANGED db
  BY <1>1, <1>2, <1>4, <1>5, FailKeeps
<1>6. CASE Store(rec) /\ Proceed(j, m)
  <2>1. Works(j, m)
    <3>1. CASE task # "storeInitialRecord"
      BY <1>1, <3>1, PlainWorks DEF Storing, Special
    <3>2. CASE task = "storeInitialRecord"
      <4>1. /\ SwitchChain[4] # task /\ SwitchChain[5] # task
            /\ SwitchChain[6] # task /\ SwitchChain[7] # task
            /\ SwitchChain[9] # task
            /\ SyncChain[6] # task /\ SyncChain[3] = task /\ StopChain[3] # task
            /\ \A n \in 1 .. 8 : SyncChain[n] = task => n = 3
        BY <3>2 DEF SwitchChain, SyncChain, StopChain
      <4>2. /\ Chain["switch"] = SwitchChain /\ Chain["sync"] = SyncChain
            /\ Chain["stop"] = StopChain /\ Len(SyncChain) = 8
        BY DEF Chain, Chains, SyncChain
      <4>3. Switch(j) => Turned(j, m)
        BY <1>1, <1>3, <4>1, <4>2 DEF Turned, Switch
      <4>4. job[j].action = "sync" => pc[j] = 3
        BY <1>3, <4>1, <4>2 DEF IInv, ControlType, ControlOf
      <4>5. ~(job[j].action = "stop" /\ pc[j] = 3) /\ ~Starting(j)
        BY <1>3, <1>4, <4>1, <4>2, NotStarting
      <4> QED BY <1>1, <3>2, <4>3, <4>4, <4>5 DEF Works, SameRec
    <3> QED BY <3>1, <3>2
  <2>2. Final(j) => rec.phase = "sync"
    <3>1. SUFFICES ASSUME Final(j) PROVE rec.phase = "sync"
      OBVIOUS
    <3>2. job[j].action = "sync"
      BY <3>1 DEF Final
    <3>3. CASE task = "storeInitialRecord"
      BY <3>2, <3>3
    <3>4. CASE task # "storeInitialRecord"
      <4>1. pc[j] \in 1 .. 8 /\ task = SyncChain[pc[j]]
        <5>1. Chain["sync"] = SyncChain /\ Len(SyncChain) = 8
          BY DEF Chain, Chains, SyncChain
        <5> QED BY <1>3, <3>2, <5>1 DEF IInv, ControlType, ControlOf
      <4>2. pc[j] >= 4
        <5>1. \A n \in {1, 2, 3} :
                 SyncChain[n] \in {"acquireVMTicket", "cleanup",
                                   "storeInitialRecord"}
          BY DEF SyncChain
        <5>2. pc[j] \notin {1, 2, 3}
          BY <3>4, <4>1, <5>1 DEF Storing
        <5> QED BY <4>1, <5>2
      <4> QED BY <1>3, <3>2, <3>4, <4>2
              DEF PrimaryInv, CurInv, CopiesLeave, Leaves
    <3> QED BY <3>3, <3>4
  <2> QED BY <1>1, <1>2, <1>6, <2>1, <2>2, StoreKeeps
<1> QED BY <1>2, <1>5, <1>6

LEMMA StoreTasksPrimary ==
    ASSUME IInv, SeqInv, PrimaryInv, NEW j \in Jobs,
           \/ StoreInitialRecord(j) \/ SetRecordStateRunning(j)
           \/ StoreReservedNetworkIps(j) \/ StoreSuccess(j) \/ StoreRecord(j)
           \/ StoreFailure(j) \/ StoreProcessDetails(j)
    PROVE  PrimaryInv'
<1>1. loc[j] \in Locals /\ loc[j].rec \in Record
  BY LocApart
<1>2. CASE StoreInitialRecord(j)
  <2> DEFINE rec == Started(loc[j].rec, job[j].action, j)
             l == [loc[j] EXCEPT !.idx = Len(rec.history)]
  <2>1. At(j, "storeInitialRecord") /\ StoreTask(j, rec, l)
    BY <1>2 DEF StoreInitialRecord
  <2>2. SameRec(rec, loc[j].rec) /\ rec.phase = job[j].action
    BY <1>1 DEF Record, SameRec, Started
  <2>3. rec.history \in Seq(ProgressEntry)
    <3>1. /\ Chain[job[j].action][pc[j]] = "storeInitialRecord"
          /\ pc[j] \in 1 .. Len(Chain[job[j].action])
          /\ job[j].action \in JobActions
      BY <2>1 DEF At, IInv, ControlType, ControlOf, JobParams
    <3>2. job[j].action \in Phases
      BY <3>1, StorePhases
    <3> QED BY <1>1, <3>2, StartedType DEF Record
  <2>4. l \in Locals /\ l.child = loc[j].child
    BY <1>1, <2>3, LenProperties DEF Locals
  <2> HIDE DEF rec, l
  <2> QED BY <2>1, <2>2, <2>4, StoreTaskPrimary DEF Storing
<1>3. CASE SetRecordStateRunning(j)
  <2> DEFINE rec == [loc[j].rec EXCEPT !.state = "running"]
             l == [loc[j] EXCEPT !.idx = 0]
  <2>1. l \in Locals /\ l.child = loc[j].child
    BY <1>1 DEF Locals
  <2>2. SameRec(rec, loc[j].rec) /\ rec.phase = loc[j].rec.phase
    BY <1>1, SameWorkOf
  <2>3. At(j, "setRecordStateRunning") /\ StoreTask(j, rec, l)
    BY <1>3 DEF SetRecordStateRunning
  <2> HIDE DEF rec, l
  <2> QED BY <2>1, <2>2, <2>3, StoreTaskPrimary DEF Storing
<1>4. CASE StoreReservedNetworkIps(j)
  BY <1>1, <1>4, SameWorkOf, StoreTaskPrimary DEF StoreReservedNetworkIps, Storing
<1>5. ASSUME NEW task \in Storing \ {"storeInitialRecord"}, At(j, task),
             NEW rec, SameRec(rec, loc[j].rec), rec.phase = loc[j].rec.phase,
             StoreTask(j, rec, loc[j])
      PROVE  PrimaryInv'
  BY <1>1, <1>5, StoreTaskPrimary
<1>6. CASE StoreSuccess(j)
  <2> DEFINE rec == Succeeded(loc[j].rec, job[j].action, loc[j].idx,
                              job[j].subtask)
  <2>1. SameRec(rec, loc[j].rec) /\ rec.phase = loc[j].rec.phase
    BY <1>1 DEF Record, SameRec, Succeeded
  <2>2. At(j, "storeSuccess") /\ StoreTask(j, rec, loc[j])
    BY <1>6 DEF StoreSuccess
  <2> HIDE DEF rec
  <2> QED BY <1>5, <2>1, <2>2 DEF Storing
<1>7. CASE StoreRecord(j)
  BY <1>1, <1>5, <1>7, SameWorkOf DEF StoreRecord, Storing
<1>8. CASE StoreProcessDetails(j)
  <2>1. At(j, "storeProcessDetails")
    BY <1>8 DEF StoreProcessDetails
  <2>2. CASE StoreTask(j, [loc[j].rec EXCEPT !.proc = j], loc[j])
    BY <1>1, <1>5, <2>1, <2>2, SameWorkOf DEF Storing
  <2>3. CASE Fail(j) /\ UNCHANGED <<db, vm, inst, ticket, job, used>>
    BY <2>1, <2>3, LocApart, FailKeeps DEF Fail
  <2> QED BY <1>8, <2>2, <2>3 DEF StoreProcessDetails
<1>9. CASE StoreFailure(j)
  <2> DEFINE rec == Failed(loc[j].rec, job[j].action, loc[j].idx,
                           loc[j].noRetry, j)
             l == [loc[j] EXCEPT !.rec = rec]
  <2>1. /\ AtCleanup(j, "storeFailure") /\ Proceed(j, l)
        /\ UNCHANGED <<vm, inst, job>>
        /\ Store(rec) \/ UNCHANGED db
    BY <1>9 DEF StoreFailure
  <2>2. l.rec = rec /\ SameRec(rec, loc[j].rec)
    BY <1>1, SameWorkOf DEF Locals
  <2>3. mode[j] \in Cleaning /\ mode[j] # "chain"
    BY <2>1 DEF AtCleanup, Cleaning
  <2> HIDE DEF rec, l
  <2>4. CASE Store(rec)
    BY <2>1, <2>2, <2>3, <2>4, StoreKeeps DEF Storing
  <2>5. CASE UNCHANGED db
    <3>1. Apart(l.rec)
      BY <2>2, LocApart DEF Apart, SameRec
    <3>2. \A i \in Jobs : Moves(i)
      BY <2>1, <2>3, <3>1, ProceedMoves
    <3> QED BY <2>1, <2>5, <3>2, SameData, StepKeeps
  <2> QED BY <2>1, <2>4, <2>5
<1> QED BY <1>2, <1>3, <1>4, <1>6, <1>7, <1>8, <1>9

-----------------------------------------------------------------------------
(* The tasks on instances.                                                 *)
LEMMA CalmTasksPrimary ==
    ASSUME IInv, SeqInv, PrimaryInv, NEW j \in Jobs,
           \/ AbortDeleteTargetDniVm(j) \/ RollbackDeleteTargetDniVm(j)
           \/ DeleteSourceVm(j) \/ SetSourceDoNotInventory(j)
           \/ RemoveTargetDoNotInventory(j) \/ SetTargetDoNotInventory(j)
    PROVE  PrimaryInv'
<1>1. inst \in [Servers -> Instance]
  BY DEF IInv, DataType
<1>2. ASSUME NEW task, task \notin Special, NEW s, NEW g,
             DeleteInstance(j, task, s, g)
      PROVE  PrimaryInv'
  <2>1. /\ At(j, task) /\ UNCHANGED <<db, vm, job>>
        /\ GoOn(j) \/ (Fail(j) /\ UNCHANGED inst)
    BY <1>2 DEF DeleteInstance
  <2>2. Calm
    <3>1. UNCHANGED inst \/ inst' = [inst EXCEPT ![s] = Gone]
      BY <1>2 DEF DeleteInstance
    <3> QED BY <1>1, <2>1, <3>1 DEF Calm, Holds, Gone
  <2> QED BY <1>2, <2>1, <2>2, PlainKeeps
<1>3. ASSUME NEW task, task \notin Special, NEW s, NEW h,
             SetDoNotInventory(j, task, s, h, inst[s].current)
      PROVE  PrimaryInv'
  <2>1. /\ At(j, task) /\ UNCHANGED <<db, vm, job>>
        /\ GoOn(j) \/ (Fail(j) /\ UNCHANGED inst)
    BY <1>3 DEF SetDoNotInventory
  <2>2. Calm
    <3>1. \/ UNCHANGED inst
          \/ inst' = [inst EXCEPT ![s].hidden = h,
                                  ![s].current = inst[s].current]
      BY <1>3 DEF SetDoNotInventory
    <3>2. ASSUME NEW t \in Servers
          PROVE  /\ inst'[t].running = inst[t].running
                 /\ inst'[t].exists = inst[t].exists
                 /\ inst'[t].current = inst[t].current
      BY <1>1, <3>1 DEF Instance
    <3> QED BY <2>1, <3>2 DEF Calm, Holds
  <2> QED BY <1>3, <2>1, <2>2, PlainKeeps
<1>4. CASE AbortDeleteTargetDniVm(j) \/ RollbackDeleteTargetDniVm(j)
             \/ DeleteSourceVm(j)
  BY <1>2, <1>4
  DEF AbortDeleteTargetDniVm, RollbackDeleteTargetDniVm, DeleteSourceVm,
      Special
<1>5. CASE SetSourceDoNotInventory(j) \/ RemoveTargetDoNotInventory(j)
  BY <1>3, <1>5
  DEF SetSourceDoNotInventory, RemoveTargetDoNotInventory, Special
<1>6. CASE SetTargetDoNotInventory(j)
  <2>1. CASE loc[j].targetHidden
    BY <1>6, <2>1, SameData, PlainKeeps
    DEF SetTargetDoNotInventory, Check, Special
  <2>2. CASE ~loc[j].targetHidden
    BY <1>3, <1>6, <2>2 DEF SetTargetDoNotInventory, Special
  <2> QED BY <2>1, <2>2
<1> QED BY <1>4, <1>5, <1>6

\* Where the tasks are that do something to an instance or to the VM's record
LEMMA TaskOf ==
    ASSUME IInv, SeqInv, NEW j \in Jobs, NEW task, At(j, task)
    PROVE  /\ task \in {"allocateServer", "provisionVm"} =>
                  job[j].action = "begin"
           /\ task = "sync" => job[j].action = "sync" /\ pc[j] = 6
           /\ task = "startVm" => job[j].action = "start" /\ pc[j] = 3
           /\ task = "stopVm" => job[j].action = "stop" /\ pc[j] = 3
           /\ task = "putVm" => Starter(j) /\ pc[j] = 4
           /\ task \in {"getRecord", "waitForSync", "startFinalSync",
                       "stopSourceVm", "waitForWorkflowJob"} => Switch(j)
           /\ task \in {"validateSyncIsRunning", "cancelSyncWorkflow"} =>
                  job[j].action = "pause"
           /\ task = "removeMigrationRecord" => job[j].action = "finalize"
<1>1. /\ mode[j] = "chain" /\ job[j].action \in JobActions
      /\ pc[j] \in 1 .. Len(Chain[job[j].action])
      /\ Chain[job[j].action][pc[j]] = task
  BY DEF At, IInv, ControlType, ControlOf, JobParams
<1>2. job[j].action # "rollback"
  BY DEF SeqInv, NoRollback
<1>3. CASE job[j].action = "begin"
  BY <1>1, <1>3 DEF Chain, Chains, BeginChain
<1>4. CASE job[j].action = "sync"
  BY <1>1, <1>4 DEF Chain, Chains, SyncChain
<1>5. CASE job[j].action = "pause"
  BY <1>1, <1>5 DEF Chain, Chains, PauseChain
<1>6. CASE job[j].action = "switch"
  BY <1>1, <1>6 DEF Chain, Chains, SwitchChain, Switch
<1>7. CASE job[j].action = "abort"
  BY <1>1, <1>7 DEF Chain, Chains, AbortChain
<1>8. CASE job[j].action = "finalize"
  BY <1>1, <1>8 DEF Chain, Chains
<1>9. CASE job[j].action = "start"
  BY <1>1, <1>9 DEF Chain, Chains, StartChain, Starter
<1>10. CASE job[j].action = "stop"
  BY <1>1, <1>10 DEF Chain, Chains, StopChain, Starter
<1> QED BY <1>1, <1>2, <1>3, <1>4, <1>5, <1>6, <1>7, <1>8, <1>9, <1>10,
           JobActionsAre

(* The stop stops the only instance that runs.                             *)
LEMMA StopVmPrimary ==
    ASSUME IInv, SeqInv, PrimaryInv, NEW j \in Jobs, StopVm(j)
    PROVE  PrimaryInv'
<1> DEFINE s == job[j].queue
<1>1. /\ At(j, "stopVm") /\ UNCHANGED <<db, vm, job>>
      /\ \/ GoOn(j) /\ inst' = [inst EXCEPT ![s].running = FALSE]
         \/ Fail(j) /\ UNCHANGED inst
  BY DEF StopVm
<1>2. mode[j] = "chain" /\ job[j].action = "stop" /\ pc[j] = 3 /\ j \in Active
  BY <1>1, TaskOf, ActiveIs DEF At
<1>3. CASE Fail(j) /\ UNCHANGED inst
  BY <1>1, <1>3, LocApart, FailKeeps DEF Fail
<1>4. CASE GoOn(j) /\ inst' = [inst EXCEPT ![s].running = FALSE]
  <2>1. s = vm.server
    BY <1>2 DEF SeqInv, StartersAtVm, Starter
  <2>2. inst \in [Servers -> Instance]
    BY DEF IInv, DataType
  <2>3. \A t \in Servers :
            /\ inst'[t].running => inst[t].running /\ t # s
            /\ inst'[t].exists = inst[t].exists
            /\ inst'[t].current = inst[t].current
    BY <1>4, <2>2 DEF Instance
  <2>4. Still'
    BY <2>1, <2>3 DEF PrimaryInv, RunInv, RunsAtVm, Still
  <2>5. Calm
    BY <1>1, <2>3 DEF Calm, Holds
  <2>6. Works(j, loc[j])
    BY <1>2, <2>4 DEF Works, Switch, Starting
  <2>7. \A i \in Jobs : Moves(i)
    BY <1>1, <1>2, <1>4, <2>6, LocApart, ProceedMoves DEF GoOn
  <2> QED BY <1>1, <2>5, <2>7, StepKeeps
<1> QED BY <1>1, <1>3, <1>4

\* A step that makes or fills an instance the VM is not at
LEMMA InstanceKeeps ==
    ASSUME IInv, SeqInv, PrimaryInv, \A i \in Jobs : Moves(i),
           UNCHANGED <<db, vm>>,
           \A s \in Servers : /\ inst'[s].running => inst[s].running
                              /\ s = vm.server => UNCHANGED inst[s],
           \A i \in Jobs : Switch(i) /\ mode[i] = "chain" /\ pc[i] \in 7 .. 17 =>
               \A t \in Servers : Holds(t) => Holds(t)'
    PROVE  PrimaryInv'
<1>1. Still => Still'
  BY DEF Still
<1>2. ASSUME NEW i \in Jobs, Stopping(i)
      PROVE  ~inst'[job[i].queue].running
  <2>1. job[i].queue \in Servers
    BY <1>2 DEF Stopping, IInv, ControlType, ControlOf
  <2> QED BY <1>2, <2>1 DEF PrimaryInv, RunInv, StopsHold
<1>3. Leaving
  BY <1>1, <1>2, SameData DEF Leaving
<1>4. RunsAtVm'
  BY DEF PrimaryInv, RunInv, RunsAtVm
<1>5. Known'
  <2>1. SUFFICES ASSUME NEW s \in Servers, inst'[s].running,
                        vm.state # "running"
                 PROVE  \E i \in Jobs : Starting(i)'
    BY DEF Known
  <2>2. PICK i \in Jobs : Starting(i)
    BY <2>1 DEF PrimaryInv, RunInv, Known
  <2>3. Stands(i)
    BY <2>1, <2>2 DEF Moves, Quits, Goes, Works, Enters, Appears, Starting
  <2> QED BY <2>2, <2>3 DEF Stands, Starting
<1>6. PrimaryHolds'
  <2>1. PICK s \in Servers : s = vm.server /\ s = vm'.server
    BY DEF IInv, DataType, VmRecord
  <2>2. UNCHANGED inst[s] /\ Holds(s)
    BY <2>1 DEF PrimaryInv, CurInv, PrimaryHolds
  <2>3. Holds(s)'
    BY <2>2 DEF Holds
  <2> QED BY <2>1, <2>3 DEF PrimaryHolds
<1> QED BY <1>3, <1>4, <1>5, <1>6, MovesKeep DEF PrimaryInv

\* The target of a begin or a sync is not where the VM is
LEMMA TargetElsewhere ==
    ASSUME IInv, PrimaryInv, NEW j \in Jobs, mode[j] = "chain",
           job[j].action \in {"begin", "sync"}
    PROVE  /\ loc[j].rec.source = vm.server /\ loc[j].rec.id # 0
           /\ loc[j].rec.target \in Servers => loc[j].rec.target # vm.server
<1>1. Leaves(j) /\ Apart(loc[j].rec)
  BY LocApart DEF PrimaryInv, CurInv, CopiesLeave
<1> QED BY <1>1 DEF Leaves, Apart

\* Beside a sync a switch only waits for it; beside a begin there is none
LEMMA BesideSync ==
    ASSUME IInv, SeqInv, PrimaryInv, NEW j \in Active, ~Switch(j), ~Starter(j),
           NEW i \in Active, Switch(i), mode[i] = "chain"
    PROVE  /\ Final(j) /\ pc[i] = 7 /\ loc[i].child = j /\ Still
<1>1. i # j /\ Final(j) /\ i \in Jobs
  BY ActiveIs DEF SeqInv, Alone, Aux, Starter, Switch, Final
<1>2. pc[i] = 7 /\ loc[i].child = j
  BY <1>1 DEF SeqInv, FinalSyncs, Cleaning
<1>3. Still
  BY <1>1, <1>2 DEF PrimaryInv, RunInv, SwitchSilent, Silent
<1> QED BY <1>1, <1>2, <1>3

LEMMA ProvisionPrimary ==
    ASSUME IInv, SeqInv, PrimaryInv, NEW j \in Jobs, ProvisionVm(j)
    PROVE  PrimaryInv'
<1> DEFINE t == loc[j].rec.target
           new == [exists |-> TRUE, hidden |-> TRUE, running |-> FALSE,
                   current |-> FALSE]
<1>1. /\ At(j, "provisionVm") /\ UNCHANGED <<db, vm, job>>
      /\ \/ GoOn(j) /\ inst' = [inst EXCEPT ![t] = new]
         \/ Fail(j) /\ UNCHANGED inst
  BY DEF ProvisionVm
<1>2. mode[j] = "chain" /\ job[j].action = "begin" /\ j \in Active
  BY <1>1, TaskOf, ActiveIs DEF At
<1>3. CASE Fail(j) /\ UNCHANGED inst
  BY <1>1, <1>3, LocApart, FailKeeps DEF Fail
<1>4. CASE GoOn(j) /\ inst' = [inst EXCEPT ![t] = new]
  <2>1. inst \in [Servers -> Instance]
    BY DEF IInv, DataType
  <2>2. t \in Servers => t # vm.server
    BY <1>2, TargetElsewhere
  <2>3. \A s \in Servers : /\ inst'[s].running => inst[s].running
                           /\ s = vm.server => UNCHANGED inst[s]
    BY <1>4, <2>1, <2>2
  <2>4. Works(j, loc[j])
    BY <1>2 DEF Works, Switch, Starting
  <2>5. \A i \in Jobs : Moves(i)
    BY <1>1, <1>2, <1>4, <2>4, LocApart, ProceedMoves DEF GoOn
  <2>6. ASSUME NEW i \in Jobs, Switch(i), mode[i] = "chain"
        PROVE  FALSE
    BY <1>2, <2>6, ActiveIs, BesideSync DEF Switch, Starter, Final
  <2> QED BY <1>1, <2>3, <2>5, <2>6, InstanceKeeps
<1> QED BY <1>1, <1>3, <1>4

(* A sync of an instance that is still brings the target up to date.       *)
LEMMA SyncPrimary ==
    ASSUME IInv, SeqInv, PrimaryInv, NEW j \in Jobs, Sync(j)
    PROVE  PrimaryInv'
<1> DEFINE s == loc[j].rec.source
           t == loc[j].rec.target
<1>1. /\ At(j, "sync") /\ UNCHANGED <<db, vm, job>>
      /\ \/ /\ GoOn(j) /\ Exists(s) /\ Exists(t)
            /\ inst' = [inst EXCEPT ![t].current =
                            inst[s].current /\ ~inst[s].running]
         \/ Fail(j) /\ UNCHANGED inst
  BY DEF Sync
<1>2. /\ mode[j] = "chain" /\ job[j].action = "sync" /\ pc[j] = 6
      /\ j \in Active
  BY <1>1, TaskOf, ActiveIs DEF At
<1>3. CASE Fail(j) /\ UNCHANGED inst
  BY <1>1, <1>3, LocApart, FailKeeps DEF Fail
<1>4. CASE /\ GoOn(j) /\ Exists(s) /\ Exists(t)
           /\ inst' = [inst EXCEPT ![t].current =
                           inst[s].current /\ ~inst[s].running]
  <2>1. inst \in [Servers -> Instance]
    BY DEF IInv, DataType
  <2>2. s = vm.server /\ t # vm.server /\ t \in Servers /\ s \in Servers
    BY <1>2, <1>4, TargetElsewhere DEF Exists
  <2>3. \A u \in Servers :
            /\ inst'[u].running = inst[u].running
            /\ u # t => UNCHANGED inst[u]
            /\ u = t => inst'[u].current = (inst[s].current /\ ~inst[s].running)
    BY <1>4, <2>1 DEF Instance
  <2>4. ASSUME Still, NEW u \in Servers, u = t PROVE Holds(u)'
    <3>1. inst[s].current /\ ~inst[s].running
      BY <1>4, <2>2, <2>4
      DEF PrimaryInv, CurInv, PrimaryHolds, Holds, Exists, Still
    <3>2. inst'[u].current
      BY <2>3, <2>4, <3>1
    <3> QED BY <3>2 DEF Holds
  <2>5. Works(j, loc[j])
    BY <1>2, <2>4 DEF Works, Switch, Starting, SameRec
  <2>6. \A i \in Jobs : Moves(i)
    BY <1>1, <1>2, <1>4, <2>5, LocApart, ProceedMoves DEF GoOn
  <2>7. ASSUME NEW i \in Jobs, Switch(i), mode[i] = "chain",
               NEW u \in Servers, Holds(u)
        PROVE  Holds(u)'
    <3>1. Still
      BY <1>2, <2>7, ActiveIs, BesideSync DEF Switch, Starter
    <3>2. CASE u = t
      BY <2>4, <3>1, <3>2
    <3>3. CASE u # t
      BY <2>3, <2>7, <3>3 DEF Holds
    <3> QED BY <3>2, <3>3
  <2>8. \A u \in Servers : /\ inst'[u].running => inst[u].running
                           /\ u = vm.server => UNCHANGED inst[u]
    BY <2>2, <2>3
  <2> QED BY <1>1, <2>6, <2>7, <2>8, InstanceKeeps
<1> QED BY <1>1, <1>3, <1>4

(* The VM is started where its record is, beside no job that stops it and  *)
(* no switch that relies on it to be still.                                *)
LEMMA StartVmPrimary ==
    ASSUME IInv, SeqInv, PrimaryInv, TicketHeld, NEW j \in Jobs, StartVm(j)
    PROVE  PrimaryInv'
<1> DEFINE s == job[j].queue
<1>1. /\ At(j, "startVm") /\ UNCHANGED <<db, vm, job>>
      /\ \/ /\ GoOn(j)
            /\ inst' = [t \in Servers |->
                            IF t = s THEN [inst[t] EXCEPT !.running = TRUE]
                                     ELSE [inst[t] EXCEPT !.current = FALSE]]
         \/ Fail(j) /\ UNCHANGED inst
  BY DEF StartVm
<1>2. /\ mode[j] = "chain" /\ job[j].action = "start" /\ pc[j] = 3
      /\ j \in Active /\ Starter(j)
  BY <1>1, TaskOf, ActiveIs DEF At, Starter
<1>3. CASE Fail(j) /\ UNCHANGED inst
  BY <1>1, <1>3, LocApart, FailKeeps DEF Fail
<1>4. CASE /\ GoOn(j)
           /\ inst' = [t \in Servers |->
                           IF t = s THEN [inst[t] EXCEPT !.running = TRUE]
                                    ELSE [inst[t] EXCEPT !.current = FALSE]]
  <2>1. s = vm.server /\ s \in Servers
    BY <1>2 DEF SeqInv, StartersAtVm, IInv, ControlType, ControlOf
  <2>2. inst \in [Servers -> Instance]
    BY DEF IInv, DataType
  <2>3. \A t \in Servers :
            /\ t # s => inst'[t].running = inst[t].running
            /\ t = s => /\ inst'[t].exists = inst[t].exists
                        /\ inst'[t].current = inst[t].current
    BY <1>4, <2>2 DEF Instance
  <2>4. Works(j, loc[j])
    BY <1>2 DEF Works, Switch, Starting
  <2>5. \A i \in Jobs : Moves(i)
    BY <1>1, <1>2, <1>4, <2>4, LocApart, ProceedMoves DEF GoOn
  <2>6. ASSUME NEW i \in Active, Switch(i) PROVE Loud(i)
    <3>1. Quiet(i, j) /\ i \in Jobs
      BY <1>2, <2>6, ActiveIs DEF SeqInv, NoneStarts
    <3>2. ~(mode[i] = "chain" /\ pc[i] = 5 /\ loc[i].child = j)
      <4>1. j # 0
        BY DEF Jobs
      <4> QED BY <1>2, <2>6, <3>1, <4>1
              DEF PrimaryInv, RunInv, SwitchSilent, Silent, StillAfter
    <3> QED BY <3>1, <3>2 DEF Quiet, Loud
  <2>7. ASSUME NEW i \in Jobs, Stopping(i)
        PROVE  ~inst'[job[i].queue].running
    <3>1. i \in Active /\ Starter(i) /\ At(i, "putVm")
      <4>1. Chain["stop"][4] = "putVm"
        BY DEF Chain, Chains, StopChain
      <4> QED BY <2>7, <4>1, ActiveIs DEF Stopping, Starter, At
    <3>2. job[i].queue = s
      BY <2>1, <3>1 DEF SeqInv, StartersAtVm
    <3>3. ticket[s] = i /\ ticket[s] = j
      BY <1>1, <3>1, <3>2, HeldProtects DEF Protected
    <3> QED BY <1>2, <2>7, <3>3 DEF Stopping
  <2>8. Leaving
    <3>1. \A i \in Jobs : ~(Switch(i) /\ mode[i] = "chain" /\ pc[i] \in 7 .. 17)
      BY <2>6, ActiveIs DEF Loud, Cleaning
    <3> QED BY <1>1, <2>6, <2>7, <3>1, SameData DEF Leaving
  <2>9. RunsAtVm'
    BY <1>1, <2>1, <2>3 DEF PrimaryInv, RunInv, RunsAtVm
  <2>10. Known'
    <3>1. ~IsLast(j)
      <4>1. Len(StartChain) = 5 /\ Chain["start"] = StartChain
        BY DEF StartChain, Chain, Chains
      <4> QED BY <1>2, <4>1 DEF IsLast, Tasks
    <3>2. Starting(j)'
      BY <1>1, <1>2, <1>4, <3>1
      DEF GoOn, Proceed, ModeAfter, PcAfter, Starting, IInv, ControlType
    <3> QED BY <3>2 DEF Known
  <2>11. PrimaryHolds'
    <3>1. PICK u \in Servers : u = s /\ u = vm.server /\ u = vm'.server
      BY <1>1, <2>1
    <3>2. Holds(u)'
      BY <2>3, <3>1 DEF PrimaryInv, CurInv, PrimaryHolds, Holds
    <3> QED BY <3>1, <3>2 DEF PrimaryHolds
  <2> QED BY <2>5, <2>8, <2>9, <2>10, <2>11, MovesKeep DEF PrimaryInv
<1> QED BY <1>1, <1>3, <1>4

-----------------------------------------------------------------------------
(* The tasks on the VM's record.                                           *)
LEMMA ServerLookup ==
    ASSUME UNCHANGED db, vm'.server = vm.server
    PROVE  SameLookup
<1>1. {r \in LiveIds : Matches(records[r], vm.server)}'
          = {r \in LiveIds : Matches(records[r], vm.server)}
  BY DEF LiveIds, db
<1>2. UNCHANGED records
  BY DEF db
<1>3. ASSUME NEW A, A = {r \in LiveIds : Matches(records[r], vm.server)}'
      PROVE  Lookup' = IF A = {} THEN NoRecord ELSE records'[Newest(A)]
  BY <1>3 DEF Lookup, Newest
<1>4. PICK A : A = {r \in LiveIds : Matches(records[r], vm.server)}
  OBVIOUS
<1>5. Lookup = IF A = {} THEN NoRecord ELSE records[Newest(A)]
  BY <1>4 DEF Lookup
<1>6. Lookup' = Lookup
  BY <1>1, <1>2, <1>3, <1>4, <1>5
<1> QED BY <1>6 DEF SameLookup

\* A stop that has stopped the VM, or a start, says what is so
LEMMA PutVmPrimary ==
    ASSUME IInv, SeqInv, PrimaryInv, NEW j \in Jobs, PutVm(j)
    PROVE  PrimaryInv'
<1>1. /\ At(j, "putVm") /\ GoOn(j) /\ UNCHANGED <<db, inst, job>>
      /\ vm' = [server |-> job[j].queue,
                state |-> IF job[j].action = "start" THEN "running"
                                                     ELSE "stopped"]
  BY DEF PutVm
<1>2. mode[j] = "chain" /\ Starter(j) /\ pc[j] = 4 /\ j \in Active
  BY <1>1, TaskOf, ActiveIs DEF At
<1>3. job[j].queue = vm.server /\ vm'.server = vm.server
  BY <1>1, <1>2 DEF SeqInv, StartersAtVm
<1>4. Works(j, loc[j])
  BY <1>1, <1>2 DEF Works, Switch, Starter, Starting
<1>5. \A i \in Jobs : Moves(i)
  BY <1>1, <1>2, <1>4, LocApart, ProceedMoves DEF GoOn
<1>6. Leaving
  BY <1>1, <1>3, SameData, ServerLookup
  DEF Leaving, Holds, Still, PrimaryInv, RunInv, StopsHold
<1>7. RunsAtVm'
  BY <1>1, <1>3 DEF PrimaryInv, RunInv, RunsAtVm
<1>8. Known'
  <2>1. CASE job[j].action = "start"
    BY <1>1, <2>1 DEF Known
  <2>2. CASE job[j].action = "stop"
    <3>1. ~inst[vm.server].running
      BY <1>2, <1>3, <2>2 DEF PrimaryInv, RunInv, StopsHold, Stopping
    <3>2. \A s \in Servers : ~inst'[s].running
      BY <1>1, <3>1 DEF PrimaryInv, RunInv, RunsAtVm
    <3> QED BY <3>2 DEF Known
  <2> QED BY <1>2, <2>1, <2>2 DEF Starter
<1>9. PrimaryHolds'
  BY <1>1, <1>3 DEF PrimaryInv, CurInv, PrimaryHolds, Holds
<1> QED BY <1>5, <1>6, <1>7, <1>8, <1>9, MovesKeep DEF PrimaryInv

(* The VM's record moves to the target when the VM is still and the target *)
(* holds what the final sync copied.                                       *)
LEMMA MoveVmPrimary ==
    ASSUME IInv, SeqInv, PrimaryInv, NEW j \in Jobs, UpdateVmServerUuid(j)
    PROVE  PrimaryInv'
<1> DEFINE t == loc[j].rec.target
<1>1. /\ At(j, "updateVmServerUuid") /\ UNCHANGED <<db, inst, job>>
      /\ \/ Fail(j) /\ UNCHANGED vm
         \/ GoOn(j) /\ t # NoServer /\ vm' = [vm EXCEPT !.server = t]
  BY DEF UpdateVmServerUuid
<1>2. /\ mode[j] = "chain" /\ Switch(j) /\ pc[j] = 17 /\ j \in Active
  BY <1>1, WhoseTaskAt, AtSwitch, TurnsAre, ActiveIs DEF Moving, At
<1>3. CASE Fail(j) /\ UNCHANGED vm
  BY <1>1, <1>3, LocApart, FailKeeps DEF Fail
<1>4. CASE GoOn(j) /\ t # NoServer /\ vm' = [vm EXCEPT !.server = t]
  <2>1. t \in Servers /\ vm'.server = t
    BY <1>4, LocApart DEF IInv, DataType, VmRecord, Record
  <2>2. Still
    BY <1>2 DEF PrimaryInv, RunInv, SwitchSilent, Silent
  <2>3. Holds(t)
    BY <1>2 DEF PrimaryInv, CurInv, SwitchSynced, Synced
  <2>4. Works(j, loc[j])
    BY <1>2 DEF Works, Turned, SameRec, Switch, Starting
  <2>5. \A i \in Jobs : Moves(i)
    BY <1>1, <1>2, <1>4, <2>4, LocApart, ProceedMoves DEF GoOn
  <2>6. ASSUME NEW i \in Active, i # j
        PROVE  ~Switch(i) /\ job[i].action \notin {"begin", "sync"}
    <3>1. Aux(i)
      BY <1>2, <2>6 DEF SeqInv, Alone, Aux, Starter, Switch
    <3>2. ~Final(i)
      BY <1>2, <2>6 DEF SeqInv, FinalSyncs, Cleaning
    <3> QED BY <3>1, <3>2 DEF Aux, Starter, Final, Switch
  <2>7. Leaving
    <3>1. \A i \in Jobs : ~Awaits(i)
      BY <1>2, <2>6, ActiveIs DEF Awaits
    <3>2. \A i \in Active : job[i].action \notin {"begin", "sync"}
      BY <1>2, <2>6 DEF Switch
    <3> QED BY <1>1, <3>1, <3>2, SameData
            DEF Leaving, Holds, Still, PrimaryInv, RunInv, StopsHold
  <2>8. RunsAtVm' /\ Known'
    BY <1>1, <2>2 DEF RunsAtVm, Known, Still
  <2>9. PrimaryHolds'
    BY <1>1, <2>1, <2>3 DEF PrimaryHolds, Holds
  <2> QED BY <2>5, <2>7, <2>8, <2>9, MovesKeep DEF PrimaryInv
<1> QED BY <1>1, <1>3, <1>4

-----------------------------------------------------------------------------
(* The tasks on the job's copy of the record, and those that wait.         *)
LEMMA LookupApart == IInv /\ PrimaryInv => Apart(Lookup)
<1> SUFFICES ASSUME IInv, PrimaryInv PROVE Apart(Lookup)
  OBVIOUS
<1> DEFINE ids == {r \in LiveIds : Matches(records[r], vm.server)}
<1>1. ids \in SUBSET RecordIds
  BY DEF LiveIds
<1>2. Lookup = IF ids = {} THEN NoRecord ELSE records[Newest(ids)]
  BY DEF Lookup
<1>3. ids # {} => Newest(ids) \in LiveIds
  <2>1. ids \subseteq LiveIds
    OBVIOUS
  <2> HIDE DEF ids
  <2> QED BY <1>1, <2>1, NewestIn
<1> QED BY <1>2, <1>3, ApartNone DEF PrimaryInv, CurInv, RecordsApart

LEMMA CopyTasksPrimary ==
    ASSUME IInv, SeqInv, PrimaryInv, NEW j \in Jobs,
           AllocateServer(j) \/ ValidateSyncIsRunning(j) \/ GetRecord(j)
    PROVE  PrimaryInv'
<1>1. loc[j] \in Locals /\ loc[j].rec \in Record
  BY LocApart
<1>2. ASSUME NEW task, At(j, task), task # "putVm", NEW l, Apart(l.rec),
             Works(j, l), Proceed(j, l), UNCHANGED <<db, vm, inst, job>>
      PROVE  PrimaryInv'
  <2>1. mode[j] = "chain"
    BY <1>2 DEF At
  <2>2. \A i \in Jobs : Moves(i)
    BY <1>2, <2>1, ProceedMoves
  <2> QED BY <1>2, <2>2, SameData, StepKeeps
<1>3. CASE AllocateServer(j)
  <2>1. PICK s : /\ \/ s \in Servers \ {loc[j].rec.source}
                    \/ s = loc[j].rec.target
                 /\ Proceed(j, [loc[j] EXCEPT !.rec.target = s])
    BY <1>3 DEF AllocateServer
  <2> DEFINE l == [loc[j] EXCEPT !.rec.target = s]
  <2>2. /\ l.rec.id = loc[j].rec.id /\ l.rec.source = loc[j].rec.source
        /\ l.rec.target = s
    BY <1>1 DEF Locals, Record
  <2>3. At(j, "allocateServer") /\ UNCHANGED <<db, vm, inst, job>>
    BY <1>3 DEF AllocateServer
  <2>4. Proceed(j, l)
    BY <2>1
  <2> HIDE DEF l
  <2>5. Apart(l.rec)
    BY <2>1, <2>2, LocApart DEF Apart
  <2>6. job[j].action = "begin"
    BY <2>3, TaskOf
  <2>7. Works(j, l)
    BY <2>2, <2>6 DEF Works, Switch, Starting
  <2> QED BY <1>2, <2>3, <2>4, <2>5, <2>7
<1>4. ASSUME NEW task \in {"validateSyncIsRunning", "getRecord"},
             NEW ok, NEW idx, Reload(j, task, ok, idx)
      PROVE  PrimaryInv'
  <2> DEFINE l == [loc[j] EXCEPT !.rec = Lookup, !.idx = idx]
  <2>1. /\ At(j, task) /\ UNCHANGED <<db, vm, inst, job>>
        /\ Proceed(j, l) \/ Fail(j)
    BY <1>4 DEF Reload
  <2>2. l.rec = Lookup /\ l.child = loc[j].child
    BY <1>1 DEF Locals
  <2> HIDE DEF l
  <2>3. CASE Fail(j)
    BY <2>1, <2>3, LocApart, FailKeeps DEF Fail
  <2>4. CASE Proceed(j, l)
    <3>1. Apart(l.rec)
      BY <2>2, LookupApart
    <3>2. Works(j, l)
      <4>1. CASE task = "validateSyncIsRunning"
        <5>1. job[j].action = "pause"
          BY <2>1, <4>1, TaskOf
        <5> QED BY <5>1 DEF Works, Switch, Starting
      <4>2. CASE task = "getRecord"
        <5>1. Switch(j) /\ pc[j] = 9
          BY <2>1, <4>2, TaskOf, AtSwitch, TurnsAre
        <5> QED BY <2>2, <5>1 DEF Works, Turned, Switch, Starting
      <4> QED BY <4>1, <4>2
    <3> QED BY <1>2, <2>1, <2>4, <3>1, <3>2
  <2> QED BY <2>1, <2>3, <2>4
<1>5. CASE ValidateSyncIsRunning(j)
  BY <1>4, <1>5 DEF ValidateSyncIsRunning
<1>6. CASE GetRecord(j)
  BY <1>4, <1>6 DEF GetRecord
<1> QED BY <1>3, <1>5, <1>6

LEMMA WaitPrimary ==
    ASSUME IInv, SeqInv, PrimaryInv, NEW j \in Jobs, WaitForWorkflowJob(j)
    PROVE  PrimaryInv'
<1> DEFINE k == loc[j].child
<1>1. /\ At(j, "waitForWorkflowJob") \/ At(j, "waitForSync")
      /\ UNCHANGED <<db, vm, inst, job>>
      /\ \/ GoOn(j) /\ (k = 0 \/ mode[k] = "succeeded")
         \/ Fail(j)
  BY DEF WaitForWorkflowJob
<1>2. CASE Fail(j)
  BY <1>1, <1>2, LocApart, FailKeeps DEF Fail
<1>3. CASE GoOn(j) /\ (k = 0 \/ mode[k] = "succeeded")
  <2>1. mode[j] = "chain" /\ Switch(j) /\ pc[j] \in {5, 7, 22}
    <3>1. mode[j] = "chain" /\ Switch(j)
      BY <1>1, TaskOf DEF At
    <3>2. /\ \A n \in 1 .. 22 : SwitchChain[n] = "waitForSync" => n = 7
          /\ \A n \in 1 .. 22 :
                 SwitchChain[n] = "waitForWorkflowJob" => n \in {5, 22}
      BY DEF SwitchChain
    <3> QED BY <1>1, <3>1, <3>2, AtSwitch
  <2>2. Works(j, loc[j])
    BY <1>3, <2>1 DEF Works, Turned, Switch, Starting
  <2>3. \A i \in Jobs : Moves(i)
    BY <1>1, <1>3, <2>1, <2>2, LocApart, ProceedMoves DEF GoOn
  <2> QED BY <1>1, <2>3, SameData, StepKeeps
<1> QED BY <1>1, <1>2, <1>3

LEMMA CleanupPrimary ==
    ASSUME IInv, SeqInv, PrimaryInv, NEW j \in Jobs, Cleanup(j)
    PROVE  PrimaryInv'
<1> DEFINE k == loc[j].rec.proc
<1>1. /\ At(j, "cleanup") \/ AtCleanup(j, "cleanup")
      /\ mode[j] \in {"chain"} \cup Cleaning
      /\ UNCHANGED <<db, vm, inst, job>>
      /\ \/ GoOn(j)
         \/ /\ k \notin {0, j} /\ At(k, "sync")
            /\ mode' = [ModeAfter(j) EXCEPT ![k] = "onerror"]
            /\ pc' = [PcAfter(j) EXCEPT ![k] = 1]
            /\ loc' = LocAfter(j, loc[j])
  BY DEF Cleanup, At, AtCleanup
<1>2. CASE GoOn(j)
  BY <1>1, <1>2, SameData, PlainKeeps DEF Special
<1>3. CASE /\ k \notin {0, j} /\ At(k, "sync")
           /\ mode' = [ModeAfter(j) EXCEPT ![k] = "onerror"]
           /\ pc' = [PcAfter(j) EXCEPT ![k] = 1]
           /\ loc' = LocAfter(j, loc[j])
  <2>1. k \in Jobs /\ k # j
    BY <1>3, LocApart DEF Record
  <2>2. mode[k] = "chain" /\ ~Starting(k)
    BY <1>3, NotStarting
  <2>3. mode[j] = "chain" => Works(j, loc[j])
    <3>1. mode[j] = "chain" => At(j, "cleanup")
      BY <1>1 DEF AtCleanup, Cleaning
    <3> QED BY <3>1, PlainWorks DEF Special, SameRec
  <2>4. "onerror" \in Cleaning /\ CurInv
    BY DEF Cleaning, PrimaryInv
  <2> HIDE DEF k
  <2>5. \A i \in Jobs : Moves(i)
    BY <1>1, <1>3, <2>1, <2>2, <2>3, <2>4, InterruptMoves
  <2> QED BY <1>1, <2>5, SameData, StepKeeps
<1> QED BY <1>1, <1>2, <1>3

LEMMA CancelPrimary ==
    ASSUME IInv, SeqInv, PrimaryInv, NEW j \in Jobs, CancelSyncWorkflow(j)
    PROVE  PrimaryInv'
<1> DEFINE k == loc[j].rec.history[loc[j].idx].job
<1>1. /\ At(j, "cancelSyncWorkflow") /\ UNCHANGED <<db, vm, inst, job>>
      /\ \/ GoOn(j)
         \/ /\ mode[k] = "chain"
            /\ mode' = [ModeAfter(j) EXCEPT ![k] = "canceling"]
            /\ pc' = [PcAfter(j) EXCEPT ![k] = 1]
            /\ loc' = LocAfter(j, loc[j])
  BY DEF CancelSyncWorkflow
<1> HIDE DEF k
<1>2. mode[j] = "chain" /\ job[j].action = "pause" /\ j \in Active
  BY <1>1, TaskOf, ActiveIs DEF At
<1>3. CASE GoOn(j)
  BY <1>1, <1>3, SameData, PlainKeeps DEF Special
<1>4. CASE /\ mode[k] = "chain"
           /\ mode' = [ModeAfter(j) EXCEPT ![k] = "canceling"]
           /\ pc' = [PcAfter(j) EXCEPT ![k] = 1]
           /\ loc' = LocAfter(j, loc[j])
  <2>1. CASE k \notin Jobs
    <3>1. mode' = ModeAfter(j) /\ pc' = PcAfter(j)
      BY <1>4, <2>1 DEF ModeAfter, PcAfter, IInv, ControlType
    <3>2. GoOn(j)
      BY <1>4, <3>1 DEF GoOn, Proceed
    <3> QED BY <1>1, <3>2, SameData, PlainKeeps DEF Special
  <2>2. CASE k \in Jobs
    <3>1. k = j
      BY <1>2, <1>4, <2>2, ActiveIs, AloneAtWork DEF Aux, Starter, Switch
    <3>2. mode \in [Jobs -> Modes] /\ pc \in [Jobs -> Nat]
          /\ loc \in [Jobs -> Locals]
      BY DEF IInv, ControlType
    <3>3. ASSUME NEW i \in Jobs \ {j} PROVE Stands(i)
      BY <1>1, <1>4, <3>1, <3>2 DEF ModeAfter, PcAfter, LocAfter, Stands
    <3>4. mode'[j] = "canceling" /\ loc'[j] \in {NoLocals, loc[j]}
      BY <1>4, <3>1, <3>2 DEF ModeAfter, LocAfter
    <3>5. Quits(j)
      BY <1>1, <1>2, <3>4, ApartNone, LocApart DEF Quits, Cleaning, Starting
    <3>6. \A i \in Jobs : Moves(i)
      BY <3>3, <3>5 DEF Moves
    <3> QED BY <1>1, <3>6, SameData, StepKeeps
  <2> QED BY <2>1, <2>2
<1> QED BY <1>1, <1>3, <1>4

LEMMA RemoveRecordPrimary ==
    ASSUME IInv, SeqInv, PrimaryInv, NEW j \in Jobs, RemoveMigrationRecord(j)
    PROVE  PrimaryInv'
<1>1. /\ At(j, "removeMigrationRecord") /\ GoOn(j)
      /\ UNCHANGED <<records, vm, inst, job>>
      /\ stored' = [stored EXCEPT ![loc[j].rec.id] =
                        IF @ = "live" THEN "deleted" ELSE @]
  BY DEF RemoveMigrationRecord
<1>2. mode[j] = "chain" /\ job[j].action = "finalize" /\ j \in Active
  BY <1>1, TaskOf, ActiveIs DEF At
<1>3. Works(j, loc[j])
  BY <1>1, PlainWorks DEF Special, SameRec
<1>4. \A i \in Jobs : Moves(i)
  BY <1>1, <1>2, <1>3, LocApart, ProceedMoves DEF GoOn
<1>5. ASSUME NEW r \in RecordIds PROVE Written(r)
  BY <1>1 DEF Written, IInv, DataType
<1>6. \A i \in Jobs : ~Awaits(i)
  BY <1>2, ActiveIs, AloneAtWork DEF Awaits, Aux, Starter, Switch
<1> QED BY <1>1, <1>4, <1>5, <1>6, SameData, CalmKeeps DEF PrimaryInv

-----------------------------------------------------------------------------
(* The tasks that have a job queued.                                       *)
LEMMA QueuePrimary ==
    ASSUME IInv, SeqInv, PrimaryInv,
           NEW j \in Jobs, mode[j] \in {"chain"} \cup Cleaning,
           NEW k \in Jobs, NEW params, NEW rec, NEW l,
           Queue(j, k, params, rec, l), UNCHANGED <<db, vm, inst>>,
           Apart(rec), Apart(l.rec), ~Starting(j),
           mode[j] = "chain" /\ ~IsLast(j) => Works(j, l),
           params.action = "switch" =>
               Active' \subseteq {k} /\ (params.vmState = "stopped" => Still),
           params.action # "begin",
           params.action = "sync" => rec.id # 0 /\ rec.source = vm.server
    PROVE  PrimaryInv'
<1>1. /\ k # j /\ mode[k] = "none"
      /\ mode'[k] = "chain" /\ pc'[k] = 1 /\ job'[k] = params
      /\ loc'[k].rec = rec /\ loc'[k].child = 0
      /\ UNCHANGED job[j]
      /\ \A i \in Jobs \ {j, k} : Stands(i)
      /\ IsLast(j) => mode'[j] \in Ended /\ loc'[j] = NoLocals
      /\ IsLast(j) /\ mode[j] # "chain" => mode'[j] # "succeeded"
      /\ ~IsLast(j) => /\ mode'[j] = mode[j] /\ pc'[j] = pc[j] + 1
                       /\ loc'[j] = l
  BY QueueFacts
<1>2. Appears(k)
  <2>1. Switch(k)' =>
            Active' \subseteq {k} /\ (job'[k].vmState = "stopped" => Still')
    BY <1>1 DEF Switch, Still
  <2>2. job'[k].action \in {"begin", "sync"} => Leaves(k)'
    BY <1>1 DEF Leaves
  <2> QED BY <1>1, <2>1, <2>2 DEF Appears
<1>3. Moves(j)
  <2>1. CASE IsLast(j)
    BY <1>1, <2>1, ApartNone DEF Moves, Quits
  <2>2. CASE ~IsLast(j) /\ mode[j] = "chain"
    BY <1>1, <2>2 DEF Moves, Goes
  <2>3. CASE ~IsLast(j) /\ mode[j] \in Cleaning
    BY <1>1, <2>3 DEF Moves, Quits, Cleaning
  <2> QED BY <2>1, <2>2, <2>3
<1>4. \A i \in Jobs : Moves(i)
  BY <1>1, <1>2, <1>3 DEF Moves
<1> QED BY <1>4, SameData, StepKeeps

LEMMA StopOrStartPrimary ==
    ASSUME IInv, SeqInv, PrimaryInv, NEW j \in Jobs,
           StopSourceVm(j) \/ StartTargetVm(j) \/ StartSourceVm(j)
    PROVE  PrimaryInv'
<1>1. loc[j] \in Locals /\ Apart(loc[j].rec)
  BY LocApart
<1>2. ASSUME NEW task \in {"stopSourceVm", "startTargetVm", "startSourceVm"},
             NEW a \in {"stop", "start"}, NEW needed \in BOOLEAN,
             task = "stopSourceVm" =>
                 a = "stop" /\ (needed <=> job[j].vmState # "stopped"),
             StopOrStart(j, task, a, needed)
      PROVE  PrimaryInv'
  <2>1. /\ At(j, task) \/ AtCleanup(j, task)
        /\ UNCHANGED <<db, vm, inst>>
        /\ mode[j] \in {"chain"} \cup Cleaning
        /\ mode[j] = "chain" => At(j, task)
    BY <1>2 DEF StopOrStart, At, AtCleanup, Cleaning
  <2>2. ~Starting(j)
    <3>1. task # "putVm"
      BY <1>2
    <3> QED BY <2>1, <3>1, NotStarting DEF Starting
  <2>3. mode[j] = "chain" =>
            /\ Switch(j)
            /\ \/ pc[j] = 4 /\ task = "stopSourceVm"
               \/ pc[j] = 21
    <3>1. SUFFICES ASSUME At(j, task)
                   PROVE  /\ Switch(j)
                          /\ \/ pc[j] = 4 /\ task = "stopSourceVm"
                             \/ pc[j] = 21
      BY <2>1
    <3>2. Switch(j) /\ task \in {"stopSourceVm", "startTargetVm"}
      BY <1>2, <3>1, WhoseTaskAt DEF Moving, Rolling
    <3>3. pc[j] \in 1 .. 22 /\ SwitchChain[pc[j]] = task
      BY <3>1, <3>2, AtSwitch
    <3>4. \A n \in 1 .. 22 :
              /\ SwitchChain[n] = "stopSourceVm" => n = 4
              /\ SwitchChain[n] = "startTargetVm" => n = 21
      BY DEF SwitchChain
    <3> QED BY <3>2, <3>3, <3>4
  <2>4. CASE needed
    <3>1. PICK k \in Jobs :
              Queue(j, k, Params(a, FALSE, FALSE), NoRecord,
                    [loc[j] EXCEPT !.child = k])
      BY <1>2, <2>4 DEF StopOrStart
    <3> DEFINE l == [loc[j] EXCEPT !.child = k]
               params == Params(a, FALSE, FALSE)
    <3>2. l.child = k /\ l.rec = loc[j].rec
      BY <1>1 DEF Locals
    <3>3. params.action = a /\ ~params.final
      BY DEF Params
    <3>4. Queue(j, k, params, NoRecord, l)
      BY <3>1
    <3> HIDE DEF l, params
    <3>5. Begun(k) /\ job'[k].action = a
      BY <2>1, <3>3, <3>4, QueueFacts DEF Begun
    <3>6. mode[j] = "chain" => Works(j, l)
      BY <1>2, <2>3, <3>2, <3>5 DEF Works, Turned, Switch, Starting
    <3> QED BY <1>1, <1>2, <2>1, <2>2, <3>2, <3>3, <3>4, <3>6, ApartNone,
               QueuePrimary
  <2>5. CASE ~needed
    <3>1. GoOn(j) /\ UNCHANGED job
      BY <1>2, <2>5 DEF StopOrStart
    <3>2. mode[j] = "chain" => Works(j, loc[j])
      <4>1. mode[j] = "chain" /\ pc[j] = 4 =>
                loc[j].child = 0 /\ job[j].vmState = "stopped"
        BY <1>2, <2>3, <2>5 DEF PrimaryInv, RunInv, SwitchSilent, Silent
      <4> QED BY <2>3, <4>1 DEF Works, Turned, Switch, Starting
    <3>3. \A i \in Jobs : Moves(i)
      BY <1>1, <2>1, <3>1, <3>2, ProceedMoves DEF GoOn
    <3> QED BY <2>1, <3>3, SameData, StepKeeps
  <2> QED BY <2>4, <2>5
<1>3. CASE StopSourceVm(j)
  BY <1>2, <1>3 DEF StopSourceVm
<1>4. CASE StartTargetVm(j)
  BY <1>2, <1>4 DEF StartTargetVm
<1>5. CASE StartSourceVm(j)
  BY <1>2, <1>5 DEF StartSourceVm
<1> QED BY <1>3, <1>4, <1>5

\* What may be synced, or begun again, is on its way from where the VM is
LEMMA AcceptedLeaves ==
    ASSUME IInv, NEW a \in {"begin", "sync"}, NEW subtask,
           Accepts(a, Lookup, subtask)
    PROVE  /\ Lookup.id # 0 => Lookup.source = vm.server
           /\ a = "sync" => Lookup.id # 0
<1>1. SUFFICES ASSUME Lookup.id # 0
               PROVE  Lookup.source = vm.server
  BY DEF Accepts
<1>2. Matches(Lookup, vm.server)
  BY <1>1, LookupMatches
<1>3. CASE a = "begin"
  BY <1>1, <1>2, <1>3 DEF Accepts, RetryAllowed, Matches
<1>4. CASE a = "sync"
  <2>1. Validates("sync", Lookup, subtask)
    BY <1>4 DEF Accepts
  <2> QED BY <1>2, <2>1 DEF Validates, Resumable, Matches
<1> QED BY <1>3, <1>4

\* VMAPI says the VM is stopped: it is, if no job is starting it
LEMMA StoppedIsStill ==
    ASSUME RunInv, vm.state = "stopped",
           \A i \in Active : job[i].action # "start"
    PROVE  Still
<1>1. \A i \in Jobs : ~Starting(i)
  BY ActiveIs DEF Starting
<1> QED BY <1>1 DEF RunInv, Known, Still

LEMMA StartFinalSyncPrimary ==
    ASSUME IInv, SeqInv, PrimaryInv, NEW j \in Jobs, StartFinalSync(j)
    PROVE  PrimaryInv'
<1>1. /\ At(j, "startFinalSync") /\ RequestSubtask(j, "sync", TRUE, TRUE)
      /\ UNCHANGED <<db, vm, inst>>
  BY DEF StartFinalSync, RequestSubtask
<1>2. /\ mode[j] = "chain" /\ Switch(j) /\ pc[j] = 6 /\ j \in Active
  <2>1. \A n \in 1 .. 22 : SwitchChain[n] = "startFinalSync" => n = 6
    BY DEF SwitchChain
  <2> QED BY <1>1, <2>1, TaskOf, AtSwitch, ActiveIs DEF At
<1>3. CASE Fail(j) /\ UNCHANGED job
  BY <1>1, <1>3, LocApart, FailKeeps DEF Fail
<1>4. ASSUME NEW k \in Jobs, Accepts("sync", Lookup, TRUE),
             Queue(j, k, Params("sync", TRUE, TRUE), Lookup,
                   [loc[j] EXCEPT !.child = k])
      PROVE  PrimaryInv'
  <2> DEFINE l == [loc[j] EXCEPT !.child = k]
             params == Params("sync", TRUE, TRUE)
  <2>1. l.child = k /\ l.rec = loc[j].rec /\ Apart(l.rec)
    BY LocApart DEF Locals
  <2>2. params.action = "sync" /\ params.final
    BY DEF Params
  <2>3. Queue(j, k, params, Lookup, l)
    BY <1>4
  <2> HIDE DEF l, params
  <2>4. /\ Begun(k) /\ job'[k] = params /\ loc'[k].rec = Lookup
        /\ k # j /\ \A i \in Jobs \ {j, k} : Stands(i)
    BY <1>2, <2>3, QueueFacts DEF Begun
  <2>5. Lookup' = Lookup
    BY <1>1 DEF Lookup, LiveIds, Newest, db
  <2>6. Works(j, l)
    BY <1>2, <2>1, <2>2, <2>4, <2>5 DEF Works, Turned, Switch, Starting, Final
  <2>7. Lookup.id # 0 /\ Lookup.source = vm.server /\ Apart(Lookup)
    BY <1>4, AcceptedLeaves, LookupApart
  <2>8. ~Starting(j)
    BY <1>2 DEF Starting
  <2> QED BY <1>1, <1>2, <2>1, <2>2, <2>3, <2>6, <2>7, <2>8, QueuePrimary
<1> QED BY <1>1, <1>3, <1>4 DEF RequestSubtask

\* The next job of an automatic migration, which begin or sync ends with
LEMMA NextActionPrimary ==
    ASSUME IInv, SeqInv, PrimaryInv, NEW j \in Jobs,
           NEW task \in Chaining, At(j, task),
           ~job[j].final \/ job[j].action = "begin",
           NEW a \in {"sync", "switch"}, RequestSubtask(j, a, FALSE, FALSE)
    PROVE  PrimaryInv'
<1>1. /\ mode[j] = "chain" /\ job[j].action \in {"begin", "sync"}
      /\ IsLast(j) /\ j \in Active /\ UNCHANGED <<db, vm, inst>>
  BY WhoseTaskAt, ActiveIs DEF At, RequestSubtask
<1>2. \A i \in Active : i = j
  BY <1>1, AloneAtWork DEF Aux, Starter, Switch
<1>3. CASE Fail(j) /\ UNCHANGED job
  <2>1. task # "putVm"
    BY DEF Chaining
  <2> QED BY <1>1, <1>3, <2>1, LocApart, FailKeeps DEF Fail
<1>4. ASSUME NEW k \in Jobs, Accepts(a, Lookup, TRUE),
             Queue(j, k, Params(a, TRUE, FALSE), Lookup, loc[j])
      PROVE  PrimaryInv'
  <2> DEFINE params == Params(a, TRUE, FALSE)
  <2>1. params.action = a /\ ~params.final /\ params.vmState = vm.state
    BY DEF Params
  <2>2. Queue(j, k, params, Lookup, loc[j])
    BY <1>4
  <2> HIDE DEF params
  <2>3. /\ mode'[j] \in Ended /\ k # j
        /\ \A i \in Jobs \ {j, k} : Stands(i)
    BY <1>1, <2>2, QueueFacts
  <2>4. Active' \subseteq {k}
    <3>1. SUFFICES ASSUME NEW n \in Active', n # k PROVE FALSE
      OBVIOUS
    <3>2. n # j /\ n \in Jobs
      BY <2>3, <3>1, ActiveThen DEF Ended
    <3>3. n \in Active
      BY <2>3, <3>1, <3>2, ActiveIs, ActiveThen DEF Stands
    <3> QED BY <1>2, <3>2, <3>3
  <2>5. vm.state = "stopped" => Still
    BY <1>1, <1>2, StoppedIsStill DEF PrimaryInv
  <2>6. a = "sync" => Lookup.id # 0 /\ Lookup.source = vm.server
    BY <1>4, AcceptedLeaves
  <2>7. ~Starting(j)
    BY <1>1 DEF Starting
  <2> QED BY <1>1, <2>1, <2>2, <2>4, <2>5, <2>6, <2>7, LocApart, LookupApart,
             QueuePrimary
<1> QED BY <1>3, <1>4 DEF RequestSubtask

LEMMA NextActionsPrimary ==
    ASSUME IInv, SeqInv, PrimaryInv, NEW j \in Jobs,
           StartSyncWhenAutomatic(j) \/ StartSyncOrSwitchWhenAutomatic(j)
    PROVE  PrimaryInv'
<1>1. ASSUME NEW task \in Chaining, At(j, task), GoOn(j),
             UNCHANGED <<db, vm, inst, job>>
      PROVE  PrimaryInv'
  BY <1>1, SameData, PlainKeeps DEF Special, Chaining
<1>2. CASE StartSyncWhenAutomatic(j)
  <2>1. At(j, "startSyncWhenAutomatic") /\ "startSyncWhenAutomatic" \in Chaining
    BY <1>2 DEF StartSyncWhenAutomatic, Chaining
  <2>2. CASE ~loc[j].rec.auto
    BY <1>1, <1>2, <2>1, <2>2 DEF StartSyncWhenAutomatic
  <2>3. CASE loc[j].rec.auto
    <3>1. RequestSubtask(j, "sync", FALSE, FALSE)
      BY <1>2, <2>3 DEF StartSyncWhenAutomatic
    <3>2. job[j].action = "begin"
      <4>1. \A n \in 1 .. 8 : SyncChain[n] # "startSyncWhenAutomatic"
        BY DEF SyncChain
      <4>2. Chain["sync"] = SyncChain /\ Len(SyncChain) = 8
        BY DEF Chain, Chains, SyncChain
      <4>3. job[j].action \in {"begin", "sync"}
        BY <2>1, WhoseTaskAt
      <4> QED BY <2>1, <4>1, <4>2, <4>3 DEF At, IInv, ControlType, ControlOf
    <3> QED BY <2>1, <3>1, <3>2, NextActionPrimary
  <2> QED BY <2>2, <2>3
<1>3. CASE StartSyncOrSwitchWhenAutomatic(j)
  <2> DEFINE task == "startSyncOrSwitchWhenAutomatic"
             next == loc[j].rec.auto /\ ~job[j].final
             a == IF loc[j].rec.syncs < 2 THEN "sync" ELSE "switch"
  <2>1. At(j, task) /\ task \in Chaining
    BY <1>3 DEF StartSyncOrSwitchWhenAutomatic, Chaining
  <2>2. CASE ~next
    BY <1>1, <1>3, <2>1, <2>2 DEF StartSyncOrSwitchWhenAutomatic
  <2>3. CASE next
    <3>1. RequestSubtask(j, a, FALSE, FALSE) /\ a \in {"sync", "switch"}
      BY <1>3, <2>3 DEF StartSyncOrSwitchWhenAutomatic
    <3> HIDE DEF a
    <3> QED BY <2>1, <2>3, <3>1, NextActionPrimary
  <2> QED BY <2>2, <2>3
<1> QED BY <1>2, <1>3

-----------------------------------------------------------------------------
(* Every task of a job.                                                    *)
LEMMA JobStepPrimary ==
    ASSUME IInv, SeqInv, PrimaryInv, TicketHeld, NEW j \in Jobs, JobStep(j)
    PROVE  PrimaryInv'
<1>1. ~StopTargetVm(j) /\ ~RemoveSourceDoNotInventory(j)
  <2>1. ~At(j, "stopTargetVm") /\ ~At(j, "removeSourceDoNotInventory")
    BY WhoseTaskAt DEF Rolling
  <2> QED BY <2>1
          DEF StopTargetVm, RemoveSourceDoNotInventory, SetDoNotInventory
<1>2. CASE MigrationTask(j)
  BY <1>1, <1>2, PlainTasksPrimary, StoreTasksPrimary, CalmTasksPrimary,
     ProvisionPrimary, SyncPrimary, MoveVmPrimary, CopyTasksPrimary,
     CleanupPrimary, CancelPrimary, RemoveRecordPrimary, StopOrStartPrimary,
     StartFinalSyncPrimary, NextActionsPrimary
  DEF MigrationTask
<1>3. CASE SharedTask(j)
  BY <1>3, PlainTasksPrimary, StoreTasksPrimary, WaitPrimary, StopVmPrimary,
     StartVmPrimary, PutVmPrimary
  DEF SharedTask
<1> QED BY <1>2, <1>3 DEF JobStep

-----------------------------------------------------------------------------
(* The requests, the faults and the agents.                                *)
LEMMA CreateRecordPrimary ==
    ASSUME IInv, SeqInv, PrimaryInv, NEW k \in Jobs, CreateRecord(k)
    PROVE  PrimaryInv'
<1>1. /\ mode[k] = "request" /\ job[k].action = "begin" /\ k \in Active
      /\ UNCHANGED <<vm, inst, job>>
  BY ActiveIs DEF CreateRecord
<1>2. Leaves(k) /\ Apart(loc[k].rec) /\ loc[k] \in Locals
  BY <1>1, LocApart DEF PrimaryInv, CurInv, CopiesLeave
<1>3. PICK rec : /\ rec.id # 0 /\ rec.source = vm.server /\ Apart(rec)
                 /\ Store(rec)
                 /\ \/ /\ mode' = [mode EXCEPT ![k] = "chain"]
                       /\ pc' = [pc EXCEPT ![k] = 1]
                       /\ loc' = [loc EXCEPT ![k].rec = rec]
                    \/ /\ mode' = [mode EXCEPT ![k] = "failed"]
                       /\ loc' = [loc EXCEPT ![k] = NoLocals]
                       /\ UNCHANGED pc
  <2> DEFINE old == loc[k].rec
  <2>1. PICK id \in RecordIds, auto \in Automatic :
            LET rec == IF old.id = 0
                       THEN NewRecord(id, job[k].queue, auto) ELSE old
            IN  /\ Store(rec)
                /\ \/ /\ mode' = [mode EXCEPT ![k] = "chain"]
                      /\ pc' = [pc EXCEPT ![k] = 1]
                      /\ loc' = [loc EXCEPT ![k].rec = rec]
                   \/ /\ mode' = [mode EXCEPT ![k] = "failed"]
                      /\ loc' = [loc EXCEPT ![k] = NoLocals]
                      /\ UNCHANGED pc
    BY DEF CreateRecord
  <2>2. job[k].queue = vm.server /\ (old.id # 0 => old.source = vm.server)
    BY <1>1, <1>2 DEF Leaves
  <2>3. LET new == NewRecord(id, job[k].queue, auto)
        IN  new.id # 0 /\ new.source = vm.server /\ Apart(new)
    BY <2>2, ConstantsAssumption DEF NewRecord, Apart, RecordIds
  <2>4. CASE old.id = 0
    BY <2>1, <2>3, <2>4
  <2>5. CASE old.id # 0
    BY <1>2, <2>1, <2>2, <2>5
  <2> QED BY <2>4, <2>5
<1>4. /\ mode \in [Jobs -> Modes] /\ pc \in [Jobs -> Nat]
      /\ loc \in [Jobs -> Locals]
  BY DEF IInv, ControlType
<1>5. \A i \in Jobs \ {k} : Stands(i)
  BY <1>1, <1>3, <1>4 DEF Stands
<1>6. Enters(k) \/ Quits(k)
  <2>1. CASE /\ mode' = [mode EXCEPT ![k] = "chain"]
             /\ pc' = [pc EXCEPT ![k] = 1]
             /\ loc' = [loc EXCEPT ![k].rec = rec]
    <3>1. mode'[k] = "chain" /\ pc'[k] = 1
      BY <1>4, <2>1
    <3>2. loc'[k].rec = rec /\ loc'[k].child = loc[k].child
      BY <1>4, <2>1 DEF Locals
    <3>3. Leaves(k)'
      BY <1>1, <1>3, <3>1, <3>2 DEF Leaves
    <3>4. Apart(loc'[k].rec)
      BY <1>3, <3>2
    <3> QED BY <1>1, <3>1, <3>2, <3>3, <3>4 DEF Enters
  <2>2. CASE /\ mode' = [mode EXCEPT ![k] = "failed"]
             /\ loc' = [loc EXCEPT ![k] = NoLocals]
    <3>1. mode'[k] = "failed" /\ loc'[k] = NoLocals
      BY <1>4, <2>2
    <3> QED BY <1>1, <3>1, ApartNone DEF Quits, Ended, Starting
  <2> QED BY <1>3, <2>1, <2>2
<1>7. \A i \in Jobs : Moves(i)
  BY <1>5, <1>6 DEF Moves
<1>8. \A r \in RecordIds : Written(r)
  BY <1>3, StoreWritten
<1>9. \A i \in Jobs : ~Awaits(i)
  BY <1>1, ActiveIs, AloneAtWork DEF Awaits, Aux, Starter, Switch
<1> QED BY <1>1, <1>7, <1>8, <1>9, SameData, CalmKeeps DEF PrimaryInv

LEMMA RequestStepPrimary ==
    ASSUME IInv, SeqInv, PrimaryInv, NEW k \in Jobs, RequestStep(k)
    PROVE  PrimaryInv'
<1>1. /\ mode \in [Jobs -> Modes] /\ pc \in [Jobs -> Nat]
      /\ loc \in [Jobs -> Locals]
  BY DEF IInv, ControlType
<1>2. CASE AbortWithoutTarget(k)
  <2>1. /\ mode[k] = "request" /\ job[k].action = "abort" /\ k \in Active
        /\ UNCHANGED <<records, vm, inst, job>>
        /\ mode' = [mode EXCEPT ![k] = "succeeded"] /\ UNCHANGED pc
        /\ loc' = [loc EXCEPT ![k] = NoLocals]
        /\ stored' = [stored EXCEPT ![loc[k].rec.id] =
                          IF @ = "live" THEN "deleted" ELSE @]
    BY <1>2, ActiveIs DEF AbortWithoutTarget
  <2>2. \A i \in Jobs \ {k} : Stands(i)
    BY <1>1, <2>1 DEF Stands
  <2>3. mode'[k] = "succeeded" /\ loc'[k] = NoLocals
    BY <1>1, <2>1
  <2>4. Quits(k)
    BY <2>1, <2>3, ApartNone DEF Quits, Ended, Aux, Starter, Starting
  <2>5. \A i \in Jobs : Moves(i)
    BY <2>2, <2>4 DEF Moves
  <2>6. \A r \in RecordIds : Written(r)
    BY <2>1 DEF Written, IInv, DataType
  <2>7. \A i \in Jobs : ~Awaits(i)
    BY <2>1, ActiveIs, AloneAtWork DEF Awaits, Aux, Starter, Switch
  <2> QED BY <2>1, <2>5, <2>6, <2>7, SameData, CalmKeeps DEF PrimaryInv
<1>3. CASE StartWorkflow(k)
  <2>1. /\ mode[k] = "request" /\ job[k].action # "begin"
        /\ mode' = [mode EXCEPT ![k] = "chain"]
        /\ pc' = [pc EXCEPT ![k] = 1]
        /\ UNCHANGED <<db, vm, inst, job, loc>>
    BY <1>3 DEF StartWorkflow
  <2>2. \A i \in Jobs \ {k} : Stands(i)
    BY <1>1, <2>1 DEF Stands
  <2>3. mode'[k] = "chain" /\ pc'[k] = 1
    BY <1>1, <2>1
  <2>4. job[k].action = "sync" => Leaves(k)'
    <3>1. job[k].action = "sync" => Leaves(k)
      BY DEF PrimaryInv, CurInv, CopiesLeave
    <3> QED BY <2>1, <2>3, <3>1 DEF Leaves
  <2>5. Enters(k)
    BY <2>1, <2>3, <2>4, LocApart DEF Enters
  <2>6. \A i \in Jobs : Moves(i)
    BY <2>2, <2>5 DEF Moves
  <2> QED BY <2>1, <2>6, SameData, StepKeeps
<1> QED BY <1>2, <1>3, CreateRecordPrimary DEF RequestStep

LEMMA RequestMigrationPrimary ==
    ASSUME IInv, SeqInv, PrimaryInv, Sequential, NEW k \in Jobs,
           RequestMigration(k)
    PROVE  PrimaryInv'
<1>1. /\ mode[k] = "none" /\ Cardinality(Open) < MaxOpen
      /\ mode' = [mode EXCEPT ![k] = "request"]
      /\ loc' = [loc EXCEPT ![k].rec = Lookup]
      /\ UNCHANGED <<db, vm, inst, pc>>
  BY DEF RequestMigration, Fresh
<1>2. PICK a \in Requested :
          /\ Accepts(a, Lookup, FALSE)
          /\ job' = [job EXCEPT ![k] = Params(a, FALSE, FALSE)]
  BY DEF RequestMigration
<1>3. /\ mode \in [Jobs -> Modes] /\ loc \in [Jobs -> Locals]
      /\ job \in [Jobs -> JobParams]
  BY DEF IInv, ControlType
<1>4. /\ job'[k].action = a /\ job'[k].queue = vm.server
      /\ job'[k].vmState = vm.state /\ ~job'[k].final
  BY <1>2, <1>3 DEF Params
<1>5. mode'[k] = "request" /\ \A i \in Jobs \ {k} : Stands(i)
  BY <1>1, <1>2, <1>3 DEF Stands
<1>6. loc'[k].rec = Lookup /\ loc'[k].child = 0
  <2>1. loc[k].child = 0
    BY <1>1 DEF SeqInv, Children
  <2> QED BY <1>1, <1>3, <2>1 DEF Locals
<1>7. Active = {} /\ Active' \subseteq {k}
  <2>1. Active = {}
    BY <1>1, NoneOpen
  <2> QED BY <1>5, <2>1, ActiveIs, ActiveThen DEF Stands
<1>8. vm.state = "stopped" => Still'
  <2>1. vm.state = "stopped" => Still
    BY <1>7, StoppedIsStill DEF PrimaryInv
  <2> QED BY <1>1, <2>1 DEF Still
<1>9. a \in {"begin", "sync"} => Leaves(k)'
  <2>1. a \in {"begin", "sync"} =>
            /\ Lookup.id # 0 => Lookup.source = vm.server
            /\ a = "sync" => Lookup.id # 0
    BY <1>2, AcceptedLeaves
  <2> QED BY <1>1, <1>4, <1>5, <1>6, <2>1 DEF Leaves
<1>10. Appears(k)
  BY <1>1, <1>4, <1>5, <1>6, <1>7, <1>8, <1>9, LookupApart DEF Appears
<1>11. \A i \in Jobs : Moves(i)
  BY <1>5, <1>10 DEF Moves
<1> QED BY <1>1, <1>11, SameData, StepKeeps

LEMMA FaultsPrimary ==
    ASSUME IInv, SeqInv, PrimaryInv, NEW j \in Jobs, StartsStored,
           TaskFails(j) \/ CleanupFails(j)
    PROVE  PrimaryInv'
<1>1. UNCHANGED <<db, vm, inst, job>>
  BY DEF TaskFails, CleanupFails
<1>2. CASE TaskFails(j)
  <2>1. mode[j] = "chain" /\ FailWith(j, loc[j])
    BY <1>2 DEF TaskFails, Fail
  <2>2. ~Starting(j)
    <3>1. Chain["start"][4] = "putVm"
      BY DEF Chain, Chains, StartChain
    <3> QED BY <1>2, <3>1 DEF StartsStored, Starting, At
  <2> QED BY <1>1, <2>1, <2>2, LocApart, FailMoves, SameData, StepKeeps
<1>3. CASE CleanupFails(j)
  <2>1. /\ mode[j] \in Cleaning /\ mode' = [mode EXCEPT ![j] = Outcome[@]]
        /\ pc' = [pc EXCEPT ![j] = 0] /\ loc' = [loc EXCEPT ![j] = NoLocals]
    BY <1>3 DEF CleanupFails, AtCleanup
  <2>2. /\ mode \in [Jobs -> Modes] /\ pc \in [Jobs -> Nat]
        /\ loc \in [Jobs -> Locals]
    BY DEF IInv, ControlType
  <2>3. \A i \in Jobs \ {j} : Stands(i)
    BY <1>1, <2>1, <2>2 DEF Stands
  <2>4. mode'[j] \in {"failed", "canceled"} /\ loc'[j] = NoLocals
    BY <2>1, <2>2 DEF Outcome, Cleaning
  <2>5. Quits(j)
    BY <1>1, <2>1, <2>4, ApartNone DEF Quits, Ended, Cleaning, Starting
  <2>6. \A i \in Jobs : Moves(i)
    BY <2>3, <2>5 DEF Moves
  <2> QED BY <1>1, <2>6, SameData, StepKeeps
<1> QED BY <1>2, <1>3

\* Steps of no job: at most an agent reports the VM where its record is
LEMMA OthersPrimary ==
    ASSUME IInv, SeqInv, PrimaryInv,
           UNCHANGED <<db, inst, job, mode, pc, loc>>,
           UNCHANGED vm \/ \E s \in Servers : AgentReport(s)
    PROVE  PrimaryInv'
<1>1. \A i \in Jobs : Moves(i)
  BY DEF Moves, Stands
<1>2. CASE UNCHANGED vm
  BY <1>1, <1>2, SameData, StepKeeps
<1>3. ASSUME NEW s \in Servers, AgentReport(s)
      PROVE  PrimaryInv'
  <2>1. /\ inst[s].exists /\ ~inst[s].hidden /\ vm'.server = s
        /\ vm'.state = IF inst[s].running THEN "running" ELSE "stopped"
    BY <1>3 DEF AgentReport
  <2>2. vm.server = s
    BY <2>1 DEF SeqInv, VisibleAtVm, Visible
  <2>3. Leaving
    BY <2>1, <2>2, SameData, ServerLookup
    DEF Leaving, Holds, Still, PrimaryInv, RunInv, StopsHold
  <2>4. RunsAtVm' /\ Known'
    BY <2>1, <2>2 DEF PrimaryInv, RunInv, RunsAtVm, Known
  <2>5. PrimaryHolds'
    BY <2>1, <2>2 DEF PrimaryInv, CurInv, PrimaryHolds, Holds
  <2> QED BY <1>1, <2>3, <2>4, <2>5, MovesKeep DEF PrimaryInv
<1> QED BY <1>2, <1>3

LEMMA InitPrimary == Init => PrimaryInv
<1> SUFFICES ASSUME Init PROVE PrimaryInv
  OBVIOUS
<1>1. /\ \A i \in Jobs : /\ mode[i] = "none" /\ job[i] = NoJob
                         /\ loc[i] = NoLocals
      /\ Active = {}
  BY ActiveIs DEF Init
<1>2. LiveIds = {}
  BY DEF Init, LiveIds
<1>3. PICK s \in Servers, state \in {"running", "stopped"} :
          /\ vm = [server |-> s, state |-> state]
          /\ inst = [t \in Servers |->
                        [exists |-> t = s, hidden |-> FALSE,
                         running |-> t = s /\ state = "running",
                         current |-> t = s]]
  BY DEF Init
<1>4. /\ vm.server = s /\ vm.state = state
      /\ \A t \in Servers : /\ inst[t].running => t = s /\ state = "running"
                            /\ t = s => inst[t].current
  <2>1. vm.server = s /\ vm.state = state
    BY <1>3
  <2>2. \A t \in Servers : inst[t].running = (t = s /\ state = "running")
    BY <1>3
  <2>3. \A t \in Servers : inst[t].current = (t = s)
    BY <1>3
  <2> QED BY <2>1, <2>2, <2>3
<1>5. RunInv
  BY <1>1, <1>4
  DEF RunInv, RunsAtVm, Known, StopsHold, Stopping, SwitchSilent, Switch, NoJob
<1>6. PrimaryHolds
  BY <1>4 DEF PrimaryHolds, Holds
<1>7. Ids /\ RecordsApart
  BY <1>1, <1>2, ApartNone DEF Ids, RecordsApart
<1>8. CopiesLeave /\ SwitchSynced
  BY <1>1 DEF CopiesLeave, SwitchSynced, Switch, NoJob
<1> QED BY <1>5, <1>6, <1>7, <1>8 DEF PrimaryInv, CurInv

LEMMA NextPrimary ==
    ASSUME Sequential, IInv, SeqInv, TicketHeld, PrimaryInv, [Next]_vars,
           [StartsStored]_vars
    PROVE  PrimaryInv'
<1>1. CASE UNCHANGED vars
  BY <1>1, OthersPrimary DEF vars, db
<1>2. ASSUME NEW j \in Jobs,
             \/ JobStep(j) \/ RequestStep(j) \/ RequestMigration(j)
             \/ TaskFails(j) \/ CleanupFails(j)
      PROVE  PrimaryInv'
  BY <1>1, <1>2, JobStepPrimary, RequestStepPrimary, RequestMigrationPrimary,
     FaultsPrimary
<1>3. ~UserAction
  <2>1. used.user \in Nat /\ MaxUserActions = 0
    BY DEF IInv, DataType, Sequential
  <2> QED BY <2>1 DEF UserAction
<1>4. ASSUME NEW s \in Servers, TicketExpires(s) \/ AgentReport(s)
      PROVE  PrimaryInv'
  BY <1>4, OthersPrimary DEF TicketExpires, AgentReport
<1> QED BY <1>1, <1>2, <1>3, <1>4
        DEF Next, Quiescent, UserStartsOrStops, DeleteVmMigration

LEMMA PrimaryAlways ==
    ASSUME Sequential, ~ExpireHeld
    PROVE  Spec /\ [][StartsStored]_vars => [](SeqInv /\ PrimaryInv)
<1> DEFINE Inv == IInv /\ SeqInv /\ TicketHeld /\ PrimaryInv
<1>1. Init => Inv
  BY InitInv, InitSeq, InitHeld, InitPrimary
<1>2. Inv /\ [Next]_vars /\ [StartsStored]_vars => Inv'
  BY NextInv, NextSeq, NextHeld, NextPrimary
<1>3. Inv => SeqInv /\ PrimaryInv
  OBVIOUS
<1> QED BY <1>1, <1>2, <1>3, PTL DEF Spec

-----------------------------------------------------------------------------
(* The VM never runs in two places, when the callers ask for one thing at  *)
(* a time and no ticket expires under a job: a switch that fails starts    *)
(* the VM again where its record is then, beside the stop job it may have  *)
(* left and the start job of a retry, and at no other compute node does an *)
(* instance still run.                                                     *)
THEOREM RunsOnce ==
    ASSUME Sequential, ~ExpireHeld
    PROVE  Spec /\ [][StartsStored]_vars => []OneRuns
<1>1. PrimaryInv => OneRuns
  BY DEF PrimaryInv, RunInv, RunsAtVm, OneRuns
<1> QED BY <1>1, PrimaryAlways, PTL

(* The instance the VM's owner reaches then holds every write that was     *)
(* made to the VM, over any number of migrations there and back, with      *)
(* syncs, switches and aborts that fail at any task and are asked for      *)
(* again.                                                                  *)
THEOREM PrimaryHoldsWrites ==
    ASSUME Sequential, ~ExpireHeld
    PROVE  Spec /\ [][StartsStored]_vars => []PrimaryIsCurrent
<1>1. SeqInv /\ PrimaryInv => PrimaryIsCurrent
  BY DEF SeqInv, PrimaryInv, CurInv, PrimaryHolds, Holds, VisibleAtVm, Visible,
         PrimaryIsCurrent
<1> QED BY <1>1, PrimaryAlways, PTL

(* So does every instance at the moment it is shown.                       *)
THEOREM ShowsCurrent ==
    ASSUME Sequential, ~ExpireHeld
    PROVE  Spec /\ [][StartsStored]_vars => PromotesCurrent
<1>1. PrimaryIsCurrent' =>
          [\A s \in Servers :
              Visible(s)' /\ ~Visible(s) => inst'[s].current]_vars
  BY DEF PrimaryIsCurrent
<1> QED BY <1>1, PrimaryHoldsWrites, PTL DEF PromotesCurrent

=============================================================================
