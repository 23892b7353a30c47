--------------------- MODULE VmMigrationSequential_proofs ---------------------
(***************************************************************************)
(* Where the VM is seen, when the callers ask for one thing at a time: for *)
(* any servers, requests and faults, with tickets that expire or not, two  *)
(* compute nodes never report the VM at once, and VMAPI's record of it is  *)
(* at the one that does.  The requests may be any but rollback (its task   *)
(* moves the VM's record the wrong way, see the README).                   *)
(*                                                                         *)
(* One request at a time is not one job at a time: a switch queues jobs    *)
(* that stop and start the VM and a final sync, and when it fails in       *)
(* between, its clean-up starts the VM beside those.  What keeps their     *)
(* answers from moving the VM's record is where the switch is when they    *)
(* may still be at work.                                                   *)
(*                                                                         *)
(* The last part is about the instances, the VM's one live record and the  *)
(* copies the jobs have of it: nothing hidden is left that no record names,*)
(* and a begin that may be asked for again has left no target, as long as  *)
(* no switch fails once it has hidden the source.                          *)
(***************************************************************************)
EXTENDS VmMigration_proofs

Sequential ==
    MaxOpen <= 1 /\ MaxUserActions = 0 /\ "rollback" \notin Requested

-----------------------------------------------------------------------------
(* The jobs that start or stop the VM, and with the final sync those that  *)
(* a switch queues and waits for.                                          *)
Starter(i) == job[i].action \in {"start", "stop"}
Aux(i) == Starter(i) \/ (job[i].action = "sync" /\ job[i].final)
Switch(i) == job[i].action = "switch"
Final(k) == job[k].action = "sync" /\ job[k].final

NoRollback == \A i \in Jobs : job[i].action # "rollback"

\* Only a switch waits, for a job of those
Children ==
    \A i \in Jobs : loc[i].child # 0 =>
        /\ mode[i] # "none" /\ Switch(i)
        /\ mode[loc[i].child] # "none" /\ Aux(loc[i].child)

\* Of two jobs at work one is such a job, and the other one too or a switch
Alone ==
    \A i, k \in Active : i # k =>
        (Aux(i) \/ Switch(i)) /\ (Aux(i) \/ Aux(k))

\* The record of the VM a job that starts or stops it puts is where it is
StartersAtVm == \A i \in Active : Starter(i) => job[i].queue = vm.server

\* A switch that has more to do than to start the VM waits for those jobs
Quiet(j, i) ==
    \/ mode[j] \in Cleaning
    \/ mode[j] = "chain" /\ (pc[j] > 20 \/ (pc[j] = 5 /\ loc[j].child = i))

NoneStarts ==
    \A i, j \in Active : Starter(i) /\ Switch(j) => Quiet(j, i)

\* A switch with a final sync at work waits for it, or has given up
FinalSyncs ==
    \A j, k \in Active : Switch(j) /\ Final(k) =>
        \/ mode[j] \in Cleaning
        \/ mode[j] = "chain" /\ pc[j] = 7 /\ loc[j].child = k

\* From getRecord on, the VM is at one of the servers of the switch's record;
\* when it is moved, at most the target is visible, and then it is there
Between(j) ==
    LET rec == loc[j].rec
    IN  /\ pc[j] \in 10 .. 16 => vm.server \in {rec.source, rec.target}
        /\ pc[j] = 17 => \A s \in Servers : Visible(s) => s = rec.target
        /\ pc[j] = 18 => vm.server = rec.target

SwitchMoves == \A j \in Jobs : mode[j] = "chain" /\ Switch(j) => Between(j)

VisibleAtVm == \A s \in Servers : Visible(s) => vm.server = s

SeqInv ==
    /\ NoRollback /\ Children /\ Alone /\ StartersAtVm /\ NoneStarts
    /\ FinalSyncs /\ SwitchMoves /\ VisibleAtVm

-----------------------------------------------------------------------------
(* What a step that begins no job does to each of them.                    *)
Hides ==
    /\ vm'.server = vm.server
    /\ \A s \in Servers : Visible(s)' => Visible(s)

Rests(i) ==
    /\ UNCHANGED <<mode[i], pc[i], loc[i]>>
    /\ mode[i] = "chain" /\ Switch(i) => Hides

Ends(i) == mode'[i] \in Ended /\ loc'[i].child = 0

Cleans(i) ==
    i \in Active /\ mode'[i] \in Cleaning /\ loc'[i].child \in {0, loc[i].child}

GoesOn(i) ==
    /\ mode[i] \in {"request", "chain"} /\ mode'[i] = "chain"
    /\ loc'[i].child = loc[i].child
    /\ Switch(i) =>
           /\ Between(i)'
           /\ mode[i] = "chain" =>
                  /\ pc'[i] = pc[i] + 1
                  /\ pc[i] \in {5, 7} => loc[i].child \notin Active

Steady(i) == Rests(i) \/ Ends(i) \/ Cleans(i) \/ GoesOn(i)

LEMMA ActiveIs ==
    \A i : i \in Active <=>
        i \in Jobs /\ mode[i] \notin {"succeeded", "failed", "canceled", "none"}
BY DEF Active, Ended

LEMMA ActiveThen ==
    \A i : i \in Active' <=>
        i \in Jobs /\ mode'[i] \notin {"succeeded", "failed", "canceled", "none"}
BY DEF Active, Ended

(* Such a step keeps the invariant, if it moves the VM's record only when  *)
(* no job that starts or stops the VM is at work.                          *)
LEMMA SteadyKeeps ==
    ASSUME IInv, SeqInv, UNCHANGED job, \A i \in Jobs : Steady(i),
           vm'.server = vm.server \/ \A i \in Active : ~Starter(i),
           VisibleAtVm'
    PROVE  SeqInv'
<1>1. ASSUME NEW i \in Jobs
      PROVE  /\ i \in Active' => i \in Active
             /\ mode[i] # "none" => mode'[i] # "none"
             /\ loc'[i].child \in {0, loc[i].child}
             /\ (Starter(i)' <=> Starter(i)) /\ (Aux(i)' <=> Aux(i))
             /\ (Switch(i)' <=> Switch(i))
  <2>1. Steady(i)
    OBVIOUS
  <2>2. i \in Active' => i \in Active
    BY <2>1, ActiveIs, ActiveThen
    DEF Steady, Rests, Ends, Cleans, GoesOn, Ended
  <2>3. mode[i] # "none" => mode'[i] # "none"
    BY <2>1 DEF Steady, Rests, Ends, Cleans, GoesOn, Ended, Cleaning
  <2>4. loc'[i].child \in {0, loc[i].child}
    BY <2>1 DEF Steady, Rests, Ends, Cleans, GoesOn
  <2> QED BY <2>2, <2>3, <2>4 DEF Starter, Aux, Switch
<1>2. NoRollback'
  BY DEF SeqInv, NoRollback
<1>3. Children'
  <2>1. SUFFICES ASSUME NEW i \in Jobs, NEW c, c = loc'[i].child, c # 0
                 PROVE  /\ mode'[i] # "none" /\ Switch(i)'
                        /\ mode'[c] # "none" /\ Aux(c)'
    BY DEF Children, Aux, Starter
  <2>2. c = loc[i].child
    BY <1>1, <2>1
  <2>3. c \in Jobs
    BY <2>1, <2>2 DEF IInv, ControlType, Locals
  <2>4. /\ mode[i] # "none" /\ Switch(i)
        /\ mode[c] # "none" /\ Aux(c)
    BY <2>1, <2>2 DEF SeqInv, Children
  <2> QED BY <1>1, <2>3, <2>4
<1>4. Alone'
  <2>1. Active' \subseteq Active
    BY <1>1, ActiveThen
  <2> QED BY <1>1, <2>1, ActiveIs DEF SeqInv, Alone
<1>5. StartersAtVm'
  BY <1>1, ActiveThen DEF SeqInv, StartersAtVm
<1>6. NoneStarts'
  <2>1. SUFFICES ASSUME NEW i \in Active', NEW j \in Active',
                        Starter(i)', Switch(j)'
                 PROVE  Quiet(j, i)'
    BY DEF NoneStarts
  <2>2. /\ i \in Active /\ j \in Active /\ Starter(i) /\ Switch(j)
        /\ i \in Jobs /\ j \in Jobs
    BY <1>1, <2>1, ActiveThen
  <2>3. Quiet(j, i)
    BY <2>2 DEF SeqInv, NoneStarts
  <2>4. CASE Rests(j)
    BY <2>3, <2>4 DEF Quiet, Rests
  <2>5. CASE Ends(j)
    BY <2>1, <2>5, ActiveThen DEF Ends, Ended
  <2>6. CASE Cleans(j)
    BY <2>6 DEF Quiet, Cleans
  <2>7. CASE GoesOn(j)
    <3>1. mode[j] = "chain"
      BY <2>3, <2>7 DEF Quiet, GoesOn, Cleaning
    <3>2. /\ pc'[j] = pc[j] + 1
          /\ pc[j] \in {5, 7} => loc[j].child \notin Active
          /\ mode'[j] = "chain" /\ pc[j] \in Nat
      BY <2>2, <2>7, <3>1 DEF GoesOn, IInv, ControlType
    <3>3. pc[j] > 20
      BY <2>2, <2>3, <3>1, <3>2 DEF Quiet, Cleaning
    <3> QED BY <3>2, <3>3 DEF Quiet
  <2> QED BY <2>2, <2>4, <2>5, <2>6, <2>7 DEF Steady
<1>7. SwitchMoves'
  <2>1. SUFFICES ASSUME NEW j \in Jobs, mode'[j] = "chain", Switch(j)'
                 PROVE  Between(j)'
    BY DEF SwitchMoves
  <2>2. CASE Rests(j)
    <3>1. Between(j)
      BY <1>1, <2>1, <2>2 DEF Rests, SeqInv, SwitchMoves
    <3>2. Hides /\ UNCHANGED <<pc[j], loc[j]>>
      BY <1>1, <2>1, <2>2 DEF Rests
    <3> QED BY <3>1, <3>2 DEF Between, Hides
  <2>3. CASE GoesOn(j)
    BY <1>1, <2>1, <2>3 DEF GoesOn
  <2> QED BY <2>1, <2>2, <2>3 DEF Steady, Ends, Cleans, Ended, Cleaning
<1>8. FinalSyncs'
  <2>1. SUFFICES ASSUME NEW j \in Active', NEW k \in Active',
                        Switch(j)', Final(k)'
                 PROVE  \/ mode'[j] \in Cleaning
                        \/ /\ mode'[j] = "chain" /\ pc'[j] = 7
                           /\ loc'[j].child = k
    BY DEF FinalSyncs
  <2>2. /\ j \in Active /\ k \in Active /\ Switch(j) /\ Final(k)
        /\ j \in Jobs /\ k \in Jobs
    BY <1>1, <2>1, ActiveThen DEF Final
  <2>3. \/ mode[j] \in Cleaning
        \/ mode[j] = "chain" /\ pc[j] = 7 /\ loc[j].child = k
    BY <2>2 DEF SeqInv, FinalSyncs
  <2>4. CASE Rests(j)
    BY <2>3, <2>4 DEF Rests
  <2>5. CASE Ends(j)
    BY <2>1, <2>5, ActiveThen DEF Ends, Ended
  <2>6. CASE Cleans(j)
    BY <2>6 DEF Cleans
  <2>7. CASE GoesOn(j)
    <3>1. mode[j] = "chain" /\ pc[j] = 7 /\ loc[j].child = k
      BY <2>3, <2>7 DEF GoesOn, Cleaning
    <3> QED BY <2>2, <2>7, <3>1 DEF GoesOn
  <2> QED BY <2>2, <2>4, <2>5, <2>6, <2>7 DEF Steady
<1> QED BY <1>2, <1>3, <1>4, <1>5, <1>6, <1>7, <1>8 DEF SeqInv

-----------------------------------------------------------------------------
(* The tasks.  When one works, the job arrives at the next with what that  *)
(* task relies on; most keep the servers of the job's record, and neither  *)
(* show an instance nor move the VM.                                       *)
SameServers(rec, old) == rec.source = old.source /\ rec.target = old.target

Arrives(j, l) ==
    mode[j] = "chain" /\ Switch(j) =>
        /\ pc[j] \in {5, 7} => loc[j].child \notin Active
        /\ pc[j] = 9 => vm'.server \in {l.rec.source, l.rec.target}
        /\ pc[j] \in 10 .. 15 =>
               vm'.server = vm.server /\ SameServers(l.rec, loc[j].rec)
        /\ pc[j] = 16 => \A s \in Servers : Visible(s)' => s = l.rec.target
        /\ pc[j] = 17 => vm'.server = l.rec.target

LEMMA OthersRest ==
    ASSUME SeqInv, NEW j \in Active, NEW i \in Jobs \ {j},
           UNCHANGED <<mode[i], pc[i], loc[i]>>, Hides \/ Switch(j)
    PROVE  Rests(i)
<1>1. ASSUME mode[i] = "chain", Switch(i), Switch(j) PROVE FALSE
  <2>1. i \in Active
    BY <1>1, ActiveIs
  <2>2. Aux(i) \/ Aux(j)
    BY <2>1 DEF SeqInv, Alone
  <2> QED BY <1>1, <2>2 DEF Aux, Starter, Switch
<1> QED BY <1>1 DEF Rests

LEMMA ProceedSteady ==
    ASSUME IInv, SeqInv, NEW j \in Jobs, mode[j] \in {"chain"} \cup Cleaning,
           NEW l, l.child = loc[j].child, Proceed(j, l), UNCHANGED job,
           Arrives(j, l), Hides \/ Switch(j)
    PROVE  \A i \in Jobs : Steady(i)
<1>1. j \in Active
  BY ActiveIs DEF Cleaning
<1>2. mode' = ModeAfter(j) /\ pc' = PcAfter(j) /\ loc' = LocAfter(j, l)
  BY DEF Proceed
<1>3. mode \in [Jobs -> Modes] /\ pc \in [Jobs -> Nat] /\ loc \in [Jobs -> Locals]
  BY DEF IInv, ControlType
<1>4. ASSUME NEW i \in Jobs \ {j} PROVE Steady(i)
  <2>1. UNCHANGED <<mode[i], pc[i], loc[i]>>
    BY <1>2, <1>3 DEF ModeAfter, PcAfter, LocAfter
  <2> QED BY <1>1, <2>1, OthersRest DEF Steady
<1>5. CASE IsLast(j)
  <2>1. mode'[j] = Outcome[mode[j]] /\ loc'[j] = NoLocals
    BY <1>2, <1>3, <1>5 DEF ModeAfter, LocAfter
  <2>2. mode'[j] \in Ended /\ loc'[j].child = 0
    BY <2>1 DEF Outcome, Cleaning, Ended, NoLocals
  <2> QED BY <1>4, <2>2 DEF Steady, Ends
<1>6. CASE ~IsLast(j)
  <2>1. mode'[j] = mode[j] /\ pc'[j] = pc[j] + 1 /\ loc'[j] = l
    BY <1>2, <1>3, <1>6 DEF ModeAfter, PcAfter, LocAfter
  <2>2. CASE mode[j] \in Cleaning
    BY <1>1, <1>4, <2>1, <2>2 DEF Steady, Cleans
  <2>3. CASE mode[j] = "chain" /\ Switch(j)
    <3>1. pc[j] \in Nat /\ Arrives(j, l)
      BY <1>3
    <3>2. Between(j)
      BY <2>3 DEF SeqInv, SwitchMoves
    <3>3. pc'[j] = 17 =>
            \A s \in Servers : Visible(s)' => s = loc'[j].rec.target
      BY <2>1, <2>3, <3>1 DEF Arrives
    <3>4. pc'[j] = 18 => vm'.server = loc'[j].rec.target
      BY <2>1, <2>3, <3>1 DEF Arrives
    <3>5. pc'[j] = 10 => vm'.server \in {l.rec.source, l.rec.target}
      BY <2>1, <2>3, <3>1 DEF Arrives
    <3>6. ASSUME pc'[j] \in 11 .. 16
          PROVE  vm'.server \in {l.rec.source, l.rec.target}
      <4>1. pc[j] \in 10 .. 15
        BY <2>1, <3>1, <3>6
      <4>2. vm.server \in {loc[j].rec.source, loc[j].rec.target}
        BY <3>2, <4>1 DEF Between
      <4> QED BY <2>3, <3>1, <4>1, <4>2 DEF Arrives, SameServers
    <3>7. Between(j)'
      BY <2>1, <3>1, <3>3, <3>4, <3>5, <3>6 DEF Between
    <3> QED BY <1>4, <2>1, <2>3, <3>1, <3>7 DEF Steady, GoesOn, Arrives
  <2>4. CASE mode[j] = "chain" /\ ~Switch(j)
    BY <1>4, <2>1, <2>4 DEF Steady, GoesOn
  <2> QED BY <2>2, <2>3, <2>4
<1> QED BY <1>5, <1>6

LEMMA FailSteady ==
    ASSUME IInv, SeqInv, NEW j \in Jobs, mode[j] = "chain",
           NEW l, l.child = loc[j].child, FailWith(j, l), UNCHANGED job,
           Hides \/ Switch(j)
    PROVE  \A i \in Jobs : Steady(i)
<1>1. j \in Active
  BY ActiveIs
<1>2. mode \in [Jobs -> Modes] /\ pc \in [Jobs -> Nat] /\ loc \in [Jobs -> Locals]
  BY DEF IInv, ControlType
<1>3. ASSUME NEW i \in Jobs \ {j} PROVE Steady(i)
  <2>1. UNCHANGED <<mode[i], pc[i], loc[i]>>
    BY <1>2 DEF FailWith
  <2> QED BY <1>1, <2>1, OthersRest DEF Steady
<1>4. Ends(j) \/ Cleans(j)
  BY <1>1, <1>2 DEF FailWith, Ends, Cleans, Ended, Cleaning, NoLocals
<1> QED BY <1>3, <1>4 DEF Steady

-----------------------------------------------------------------------------
(* Which task a switch is at.                                              *)
LEMMA AtSwitch ==
    ASSUME IInv, NEW j \in Jobs, NEW task, At(j, task), Switch(j)
    PROVE  pc[j] \in 1 .. 22 /\ SwitchChain[pc[j]] = task
<1>1. Chain["switch"] = SwitchChain /\ Len(SwitchChain) = 22
  BY DEF Chain, Chains, SwitchChain
<1>2. mode[j] = "chain" /\ job[j].action = "switch"
  BY DEF At, Switch
<1>3. pc[j] \in 1 .. Len(Chain["switch"]) /\ Chain["switch"][pc[j]] = task
  BY <1>2 DEF At, IInv, ControlType, ControlOf
<1> QED BY <1>1, <1>3

Turns == {"waitForWorkflowJob", "waitForSync", "getRecord",
          "setSourceDoNotInventory", "updateVmServerUuid"}

LEMMA TurnsAre ==
    \A n \in 1 .. 22 :
        /\ n \in {5, 7, 9, 16, 17} => SwitchChain[n] \in Turns
        /\ SwitchChain[n] = "waitForSync" => n = 7
        /\ SwitchChain[n] = "waitForWorkflowJob" => n \in {5, 22}
        /\ SwitchChain[n] = "getRecord" => n = 9
        /\ SwitchChain[n] = "setSourceDoNotInventory" => n = 16
        /\ SwitchChain[n] = "updateVmServerUuid" => n = 17
        /\ SwitchChain[n] = "removeTargetDoNotInventory" => n = 18
        /\ SwitchChain[n] = "stopSourceVm" => n = 4
        /\ SwitchChain[n] = "startTargetVm" => n = 21
        /\ SwitchChain[n] = "startFinalSync" => n = 6
        /\ SwitchChain[n] \notin {"allocateServer", "cleanup", "startSourceVm",
               "cancelSyncWorkflow",
               "validateSyncIsRunning", "startSyncWhenAutomatic",
               "startSyncOrSwitchWhenAutomatic"}
BY DEF SwitchChain, Turns

(* A task that is no turn of the switch keeps the invariant, if it keeps   *)
(* the servers of a switch's record, shows nothing and moves nothing.      *)
LEMMA TaskKeeps ==
    ASSUME IInv, SeqInv, NEW j \in Jobs, NEW task, task \notin Turns,
           At(j, task) \/ AtCleanup(j, task),
           NEW l, l.child = loc[j].child, UNCHANGED job, Hides,
           \/ /\ Proceed(j, l)
              /\ mode[j] = "chain" /\ Switch(j) =>
                     SameServers(l.rec, loc[j].rec)
           \/ At(j, task) /\ FailWith(j, l)
    PROVE  SeqInv'
<1>1. /\ mode[j] \in {"chain"} \cup Cleaning
      /\ At(j, task) => mode[j] = "chain"
      /\ mode[j] = "chain" => At(j, task)
  BY DEF At, AtCleanup, Cleaning
<1>2. VisibleAtVm'
  BY DEF Hides, SeqInv, VisibleAtVm
<1>3. vm'.server = vm.server
  BY DEF Hides
<1>4. ASSUME Proceed(j, l), mode[j] = "chain" /\ Switch(j) =>
                                SameServers(l.rec, loc[j].rec)
      PROVE  \A i \in Jobs : Steady(i)
  <2>1. Arrives(j, l)
    <3>1. SUFFICES ASSUME mode[j] = "chain", Switch(j)
                   PROVE  pc[j] \notin {5, 7, 9, 16, 17}
      BY <1>3, <1>4 DEF Arrives
    <3> QED BY <1>1, <3>1, AtSwitch, TurnsAre
  <2> QED BY <1>1, <1>4, <2>1, ProceedSteady
<1>5. ASSUME At(j, task), FailWith(j, l) PROVE \A i \in Jobs : Steady(i)
  BY <1>1, <1>5, FailSteady
<1> QED BY <1>2, <1>3, <1>4, <1>5, SteadyKeeps

LEMMA PlainTaskKeeps ==
    ASSUME IInv, SeqInv, NEW j \in Jobs, NEW task, task \notin Turns,
           At(j, task) \/ AtCleanup(j, task), UNCHANGED job, Hides,
           GoOn(j) \/ (At(j, task) /\ Fail(j))
    PROVE  SeqInv'
BY TaskKeeps DEF GoOn, Fail, SameServers

LEMMA SameInstances ==
    ASSUME UNCHANGED <<vm, inst>>
    PROVE  Hides
BY DEF Hides, Visible

LEMMA StoreTaskKeeps ==
    ASSUME IInv, SeqInv, NEW j \in Jobs, NEW task, task \notin Turns,
           At(j, task), NEW rec, NEW l \in Locals, l.child = loc[j].child,
           SameServers(rec, loc[j].rec), StoreTask(j, rec, l)
    PROVE  SeqInv'
<1>1. /\ [l EXCEPT !.rec = rec].child = loc[j].child
      /\ [l EXCEPT !.rec = rec].rec = rec
  BY DEF Locals
<1>2. UNCHANGED job /\ Hides
  BY SameInstances DEF StoreTask
<1> QED BY <1>1, <1>2, TaskKeeps DEF StoreTask

LEMMA CheckKeeps ==
    ASSUME IInv, SeqInv, NEW j \in Jobs, NEW task, task \notin Turns,
           NEW ok, Check(j, task, ok)
    PROVE  SeqInv'
BY PlainTaskKeeps, SameInstances DEF Check

-----------------------------------------------------------------------------
(* The tasks on the record keep its servers.                               *)
LEMMA SameServersOf ==
    ASSUME NEW rec \in Record
    PROVE  /\ \A a, k : SameServers(Started(rec, a, k), rec)
           /\ \A a, n, sub : SameServers(Succeeded(rec, a, n, sub), rec)
           /\ \A n : SameServers(Paused(rec, n), rec)
           /\ SameServers([rec EXCEPT !.state = "running"], rec)
           /\ \A k : SameServers([rec EXCEPT !.proc = k], rec)
           /\ SameServers(rec, rec)
BY DEF Record, SameServers, Started, Succeeded, Paused

LEMMA RecordTasksKeep ==
    ASSUME IInv, SeqInv, NEW j \in Jobs,
           \/ StoreInitialRecord(j) \/ SetRecordStateRunning(j)
           \/ StoreReservedNetworkIps(j) \/ StoreSuccess(j) \/ StoreRecord(j)
           \/ StoreFailure(j) \/ StoreProcessDetails(j) \/ DisallowRetry(j)
    PROVE  SeqInv'
<1>1. loc[j] \in Locals /\ loc[j].rec \in Record
  BY LocalsRec DEF IInv
<1>2. CASE StoreInitialRecord(j)
  <2> DEFINE rec == Started(loc[j].rec, job[j].action, j)
             l == [loc[j] EXCEPT !.idx = Len(rec.history)]
  <2>1. At(j, "storeInitialRecord") /\ StoreTask(j, rec, l)
    BY <1>2 DEF StoreInitialRecord
  <2>2. SameServers(rec, loc[j].rec)
    BY <1>1, SameServersOf
  <2>3. rec.history \in Seq(ProgressEntry)
    <3>1. /\ Chain[job[j].action][pc[j]] = "storeInitialRecord"
          /\ pc[j] \in 1 .. Len(Chain[job[j].action])
          /\ job[j].action \in JobActions
      BY <2>1 DEF At, IInv, ControlType, ControlOf, JobParams
    <3>2. job[j].action \in Phases
      BY <3>1, StorePhases
    <3> QED BY <1>1, <3>2, StartedType DEF Record
  <2>4. l \in Locals /\ l.child = loc[j].child
    BY <1>1, <2>3, LenProperties DEF Locals
  <2> HIDE DEF rec, l
  <2> QED BY <2>1, <2>2, <2>4, StoreTaskKeeps DEF Turns
<1>3. CASE SetRecordStateRunning(j)
  <2>1. /\ [loc[j] EXCEPT !.idx = 0] \in Locals
        /\ [loc[j] EXCEPT !.idx = 0].child = loc[j].child
    BY <1>1 DEF Locals
  <2> QED BY <1>1, <1>3, <2>1, SameServersOf, StoreTaskKeeps
          DEF SetRecordStateRunning, Turns
<1>4. CASE StoreReservedNetworkIps(j)
  BY <1>1, <1>4, SameServersOf, StoreTaskKeeps
  DEF StoreReservedNetworkIps, Turns
<1>5. CASE StoreSuccess(j)
  BY <1>1, <1>5, SameServersOf, StoreTaskKeeps DEF StoreSuccess, Turns
<1>6. CASE StoreRecord(j)
  BY <1>1, <1>6, SameServersOf, StoreTaskKeeps DEF StoreRecord, Turns
<1>7. CASE StoreFailure(j)
  <2> DEFINE rec == Failed(loc[j].rec, job[j].action, loc[j].idx,
                           loc[j].noRetry, j)
             l == [loc[j] EXCEPT !.rec = rec]
  <2>1. /\ AtCleanup(j, "storeFailure") /\ Proceed(j, l)
        /\ UNCHANGED <<vm, inst, ticket, job>>
    BY <1>7 DEF StoreFailure
  <2>2. l.child = loc[j].child
    BY <1>1 DEF Locals
  <2>3. mode[j] # "chain"
    BY <2>1 DEF AtCleanup, Cleaning
  <2> HIDE DEF rec, l
  <2> QED BY <2>1, <2>2, <2>3, SameInstances, TaskKeeps DEF Turns
<1>8. CASE StoreProcessDetails(j)
  <2>1. At(j, "storeProcessDetails")
    BY <1>8 DEF StoreProcessDetails
  <2>2. CASE StoreTask(j, [loc[j].rec EXCEPT !.proc = j], loc[j])
    BY <1>1, <2>1, <2>2, SameServersOf, StoreTaskKeeps DEF Turns
  <2>3. CASE Fail(j) /\ UNCHANGED <<db, vm, inst, ticket, job, used>>
    BY <2>1, <2>3, SameInstances, PlainTaskKeeps DEF Turns
  <2> QED BY <1>8, <2>2, <2>3 DEF StoreProcessDetails
<1>9. CASE DisallowRetry(j)
  <2> DEFINE l == [loc[j] EXCEPT !.noRetry = TRUE]
  <2>1. l.child = loc[j].child /\ l.rec = loc[j].rec
    BY <1>1 DEF Locals
  <2>2. /\ At(j, "disallowRetry") /\ Proceed(j, l)
        /\ UNCHANGED <<vm, inst, job>>
    BY <1>9 DEF DisallowRetry
  <2> HIDE DEF l
  <2> QED BY <2>1, <2>2, SameInstances, TaskKeeps DEF Turns, SameServers
<1> QED BY <1>2, <1>3, <1>4, <1>5, <1>6, <1>7, <1>8, <1>9

(* The tasks on an instance that show none.                                *)
LEMMA InstanceTasksKeep ==
    ASSUME IInv, SeqInv, NEW j \in Jobs,
           \/ ProvisionVm(j) \/ Sync(j) \/ StartVm(j) \/ StopVm(j)
           \/ AbortDeleteTargetDniVm(j) \/ RollbackDeleteTargetDniVm(j)
           \/ DeleteSourceVm(j) \/ SetTargetDoNotInventory(j)
    PROVE  SeqInv'
<1>1. inst \in [Servers -> Instance]
  BY DEF IInv, DataType
<1>2. ASSUME UNCHANGED vm,
             \A s \in Servers :
                 inst'[s].exists /\ ~inst'[s].hidden =>
                     inst[s].exists /\ ~inst[s].hidden
      PROVE  Hides
  BY <1>2 DEF Hides, Visible
<1>3. CASE ProvisionVm(j)
  <2>1. /\ At(j, "provisionVm") /\ UNCHANGED <<job, vm>>
        /\ GoOn(j) \/ Fail(j)
    BY <1>3 DEF ProvisionVm
  <2>2. Hides
    BY <1>1, <1>2, <1>3, <2>1 DEF ProvisionVm, Instance
  <2> QED BY <2>1, <2>2, PlainTaskKeeps DEF Turns
<1>4. CASE Sync(j)
  <2>1. At(j, "sync") /\ UNCHANGED <<job, vm>> /\ (GoOn(j) \/ Fail(j))
    BY <1>4 DEF Sync
  <2>2. Hides
    BY <1>1, <1>2, <1>4, <2>1 DEF Sync, Instance, Exists
  <2> QED BY <2>1, <2>2, PlainTaskKeeps DEF Turns
<1>5. CASE StartVm(j)
  <2>1. At(j, "startVm") /\ UNCHANGED <<job, vm>> /\ (GoOn(j) \/ Fail(j))
    BY <1>5 DEF StartVm
  <2>2. Hides
    BY <1>1, <1>2, <1>5, <2>1 DEF StartVm, Instance
  <2> QED BY <2>1, <2>2, PlainTaskKeeps DEF Turns
<1>6. CASE StopVm(j)
  <2>1. At(j, "stopVm") /\ UNCHANGED <<job, vm>> /\ (GoOn(j) \/ Fail(j))
    BY <1>6 DEF StopVm
  <2>2. Hides
    BY <1>1, <1>2, <1>6, <2>1 DEF StopVm, Instance
  <2> QED BY <2>1, <2>2, PlainTaskKeeps DEF Turns
<1>7. ASSUME NEW task, task \notin Turns, NEW s, NEW g,
             DeleteInstance(j, task, s, g)
      PROVE  SeqInv'
  <2>1. At(j, task) /\ UNCHANGED <<job, vm>> /\ (GoOn(j) \/ Fail(j))
    BY <1>7 DEF DeleteInstance
  <2>2. Hides
    BY <1>1, <1>2, <1>7, <2>1 DEF DeleteInstance, Gone, Exists
  <2> QED BY <1>7, <2>1, <2>2, PlainTaskKeeps
<1>8. CASE AbortDeleteTargetDniVm(j) \/ RollbackDeleteTargetDniVm(j)
             \/ DeleteSourceVm(j)
  BY <1>7, <1>8
  DEF AbortDeleteTargetDniVm, RollbackDeleteTargetDniVm, DeleteSourceVm, Turns
<1>9. CASE SetTargetDoNotInventory(j)
  <2> DEFINE t == loc[j].rec.target
             task == "setTargetDoNotInventory"
  <2>1. CASE loc[j].targetHidden
    BY <1>9, <2>1, CheckKeeps DEF SetTargetDoNotInventory, Turns
  <2>2. CASE ~loc[j].targetHidden
    <3>1. SetDoNotInventory(j, task, t, TRUE, inst[t].current)
      BY <1>9, <2>2 DEF SetTargetDoNotInventory
    <3>2. At(j, task) /\ UNCHANGED <<job, vm>> /\ (GoOn(j) \/ Fail(j))
      BY <3>1 DEF SetDoNotInventory
    <3>3. Hides
      BY <1>1, <1>2, <3>1, <3>2 DEF SetDoNotInventory, Exists, Instance
    <3> QED BY <3>2, <3>3, PlainTaskKeeps DEF Turns
  <2> QED BY <2>1, <2>2
<1> QED BY <1>3, <1>4, <1>5, <1>6, <1>8, <1>9

-----------------------------------------------------------------------------
(* The other tasks that are no turn of a switch.                           *)
LEMMA PlainTasksKeep ==
    ASSUME IInv, SeqInv, NEW j \in Jobs,
           \/ AcquireVMTicket(j) \/ ReleaseVMTicket(j)
           \/ ReleaseVMTicketIgnoringErr(j) \/ UnreserveNetworkIps(j)
           \/ RemoveMigrationRecord(j) \/ EnsureVmState(j)
           \/ EnsureSourceVmStopped(j) \/ SetupTarget(j)
           \/ EnsureTargetVmHasDni(j) \/ EnsureSourceVmHasDni(j)
           \/ EnsureTargetVmStopped(j)
    PROVE  SeqInv'
<1>1. CASE AcquireVMTicket(j)
  BY <1>1, SameInstances, PlainTaskKeeps DEF AcquireVMTicket, Turns
<1>2. CASE ReleaseVMTicket(j)
  BY <1>2, SameInstances, PlainTaskKeeps DEF ReleaseVMTicket, Turns
<1>3. CASE ReleaseVMTicketIgnoringErr(j)
  BY <1>3, SameInstances, PlainTaskKeeps DEF ReleaseVMTicketIgnoringErr, Turns
<1>4. CASE UnreserveNetworkIps(j)
  BY <1>4, SameInstances, PlainTaskKeeps DEF UnreserveNetworkIps, Turns
<1>5. CASE RemoveMigrationRecord(j)
  BY <1>5, SameInstances, PlainTaskKeeps DEF RemoveMigrationRecord, Turns
<1>6. CASE EnsureVmState(j) \/ EnsureSourceVmStopped(j)
  BY <1>6, CheckKeeps DEF EnsureVmState, EnsureSourceVmStopped, Turns
<1>7. CASE SetupTarget(j)
  BY <1>7, CheckKeeps DEF SetupTarget, Turns
<1>8. CASE EnsureTargetVmHasDni(j) \/ EnsureSourceVmHasDni(j)
             \/ EnsureTargetVmStopped(j)
  BY <1>8, CheckKeeps
  DEF EnsureTargetVmHasDni, EnsureSourceVmHasDni, EnsureTargetVmStopped, Turns
<1> QED BY <1>1, <1>2, <1>3, <1>4, <1>5, <1>6, <1>7, <1>8

(* Two tasks change the servers of a job's record, or the whole of it, but *)
(* not of a switch's.                                                      *)
LEMMA OwnRecordTasksKeep ==
    ASSUME IInv, SeqInv, NEW j \in Jobs,
           AllocateServer(j) \/ ValidateSyncIsRunning(j)
    PROVE  SeqInv'
<1>1. loc[j] \in Locals
  BY LocalsRec DEF IInv
<1>2. CASE AllocateServer(j)
  <2>1. PICK s : Proceed(j, [loc[j] EXCEPT !.rec.target = s])
    BY <1>2 DEF AllocateServer
  <2>2. [loc[j] EXCEPT !.rec.target = s].child = loc[j].child
    BY <1>1 DEF Locals
  <2>3. At(j, "allocateServer") /\ UNCHANGED <<vm, inst, job>>
    BY <1>2 DEF AllocateServer
  <2>4. ~Switch(j)
    BY <2>3, AtSwitch, TurnsAre
  <2> QED BY <2>1, <2>2, <2>3, <2>4, SameInstances, TaskKeeps DEF Turns
<1>3. CASE ValidateSyncIsRunning(j)
  <2>1. PICK ok, idx : Reload(j, "validateSyncIsRunning", ok, idx)
    BY <1>3 DEF ValidateSyncIsRunning
  <2>2. [loc[j] EXCEPT !.rec = Lookup, !.idx = idx].child = loc[j].child
    BY <1>1 DEF Locals
  <2>3. At(j, "validateSyncIsRunning") /\ UNCHANGED <<vm, inst, job>>
    BY <2>1 DEF Reload
  <2>4. ~Switch(j)
    BY <2>3, AtSwitch, TurnsAre
  <2>5. \/ Proceed(j, [loc[j] EXCEPT !.rec = Lookup, !.idx = idx])
        \/ Fail(j)
    BY <2>1 DEF Reload
  <2> QED BY <2>2, <2>3, <2>4, <2>5, SameInstances, TaskKeeps, PlainTaskKeeps
          DEF Turns
<1> QED BY <1>2, <1>3

(* Whose tasks those are that move the VM's record, show an instance or    *)
(* queue a job.                                                            *)
Moving == {"stopSourceVm", "startFinalSync", "updateVmServerUuid",
           "removeTargetDoNotInventory", "startTargetVm"}
Rolling == {"stopTargetVm", "removeSourceDoNotInventory", "startSourceVm"}
Chaining == {"startSyncWhenAutomatic", "startSyncOrSwitchWhenAutomatic"}

LEMMA WhoseTasks ==
    \A a \in JobActions : \A n \in 1 .. Len(Chain[a]) :
        /\ Chain[a][n] = "putVm" => a \in {"start", "stop"}
        /\ Chain[a][n] \in Moving => a \in {"switch", "rollback"}
        /\ Chain[a][n] \in Rolling => a = "rollback"
        /\ Chain[a][n] \in Chaining =>
               a \in {"begin", "sync"} /\ n = Len(Chain[a])
<1>1. TAKE a \in JobActions
<1>2. CASE a = "begin"
  BY <1>2 DEF Chain, Chains, BeginChain, Moving, Rolling, Chaining
<1>3. CASE a = "sync"
  BY <1>3 DEF Chain, Chains, SyncChain, Moving, Rolling, Chaining
<1>4. CASE a = "pause"
  BY <1>4 DEF Chain, Chains, PauseChain, Moving, Rolling, Chaining
<1>5. CASE a = "switch"
  BY <1>5 DEF Chain, Chains, SwitchChain, Rolling, Chaining
<1>6. CASE a = "abort"
  BY <1>6 DEF Chain, Chains, AbortChain, Moving, Rolling, Chaining
<1>7. CASE a = "rollback"
  BY <1>7 DEF Chain, Chains, RollbackChain, Chaining
<1>8. CASE a = "finalize"
  BY <1>8 DEF Chain, Chains, Moving, Rolling, Chaining
<1>9. CASE a = "start"
  BY <1>9 DEF Chain, Chains, StartChain, Moving, Rolling, Chaining
<1>10. CASE a = "stop"
  BY <1>10 DEF Chain, Chains, StopChain, Moving, Rolling, Chaining
<1> QED BY <1>2, <1>3, <1>4, <1>5, <1>6, <1>7, <1>8, <1>9, <1>10,
           JobActionsAre

LEMMA WhoseTaskAt ==
    ASSUME IInv, SeqInv, NEW j \in Jobs, NEW task, At(j, task)
    PROVE  /\ task = "putVm" => Starter(j)
           /\ task \in Moving => Switch(j)
           /\ task \notin Rolling
           /\ task \in Chaining =>
                  job[j].action \in {"begin", "sync"} /\ IsLast(j)
<1>1. /\ mode[j] = "chain" /\ job[j].action \in JobActions
      /\ pc[j] \in 1 .. Len(Chain[job[j].action])
      /\ Chain[job[j].action][pc[j]] = task
  BY DEF At, IInv, ControlType, ControlOf, JobParams
<1>2. job[j].action # "rollback"
  BY DEF SeqInv, NoRollback
<1> QED BY <1>1, <1>2, WhoseTasks DEF Starter, Switch, IsLast, Tasks

(* A job that starts or stops the VM puts the record where it is.          *)
LEMMA PutVmKeeps ==
    ASSUME IInv, SeqInv, NEW j \in Jobs, PutVm(j)
    PROVE  SeqInv'
<1>1. At(j, "putVm") /\ GoOn(j) /\ UNCHANGED <<inst, job>>
  BY DEF PutVm
<1>2. j \in Active
  BY <1>1, ActiveIs DEF At
<1>3. Starter(j)
  BY <1>1, WhoseTaskAt
<1>4. vm'.server = vm.server
  <2>1. job[j].queue = vm.server
    BY <1>2, <1>3 DEF SeqInv, StartersAtVm
  <2> QED BY <2>1 DEF PutVm
<1>5. Hides
  BY <1>1, <1>4 DEF Hides, Visible
<1> QED BY <1>1, <1>5, PlainTaskKeeps DEF Turns

-----------------------------------------------------------------------------
(* The turns of a switch: it waits for the job that stops the VM, reads    *)
(* the record, hides the source, moves the VM's record, shows the target.  *)
LEMMA WaitKeeps ==
    ASSUME IInv, SeqInv, NEW j \in Jobs, WaitForWorkflowJob(j)
    PROVE  SeqInv'
<1> DEFINE k == loc[j].child
<1>1. /\ At(j, "waitForWorkflowJob") \/ At(j, "waitForSync")
      /\ mode[j] = "chain" /\ UNCHANGED <<vm, inst, job>>
      /\ \/ GoOn(j) /\ (k = 0 \/ mode[k] = "succeeded")
         \/ Fail(j)
  BY DEF WaitForWorkflowJob, At
<1>2. k \notin Active \/ Fail(j)
  BY <1>1, ActiveIs DEF Jobs
<1>3. Hides /\ VisibleAtVm' /\ vm'.server = vm.server
  BY <1>1, SameInstances DEF SeqInv, VisibleAtVm, Visible
<1>4. CASE Fail(j)
  BY <1>1, <1>3, <1>4, FailSteady, SteadyKeeps DEF Fail
<1>5. CASE ~Fail(j)
  <2>1. Switch(j) => pc[j] \in {5, 7, 22}
    BY <1>1, AtSwitch, TurnsAre
  <2>2. Arrives(j, loc[j])
    BY <1>2, <1>5, <2>1 DEF Arrives
  <2> QED BY <1>1, <1>3, <1>5, <2>2, ProceedSteady, SteadyKeeps DEF GoOn
<1> QED BY <1>4, <1>5

LEMMA LookupMatches == IInv /\ Lookup.id # 0 => Matches(Lookup, vm.server)
<1> SUFFICES ASSUME IInv, Lookup.id # 0 PROVE Matches(Lookup, vm.server)
  OBVIOUS
<1> DEFINE ids == {r \in LiveIds : Matches(records[r], vm.server)}
<1>1. ids \in SUBSET RecordIds
  BY DEF LiveIds
<1>2. Lookup = IF ids = {} THEN NoRecord ELSE records[Newest(ids)]
  BY DEF Lookup
<1>3. \A r \in ids : Matches(records[r], vm.server)
  OBVIOUS
<1> HIDE DEF ids
<1>4. ids # {}
  BY <1>2 DEF NoRecord
<1>5. Newest(ids) \in ids
  BY <1>1, <1>4, NewestIn
<1> QED BY <1>2, <1>3, <1>4, <1>5

LEMMA GetRecordKeeps ==
    ASSUME IInv, SeqInv, NEW j \in Jobs, GetRecord(j)
    PROVE  SeqInv'
<1> DEFINE l == [loc[j] EXCEPT !.rec = Lookup, !.idx = loc[j].idx]
<1>1. /\ At(j, "getRecord") /\ mode[j] = "chain"
      /\ UNCHANGED <<vm, inst, job>>
      /\ (Lookup.id # 0 /\ Proceed(j, l)) \/ Fail(j)
  BY DEF GetRecord, Reload, At
<1>2. l.child = loc[j].child /\ l.rec = Lookup
  BY LocalsRec DEF IInv, Locals
<1> HIDE DEF l
<1>3. Hides /\ VisibleAtVm' /\ vm'.server = vm.server
  BY <1>1, SameInstances DEF SeqInv, VisibleAtVm, Visible
<1>4. CASE Fail(j)
  BY <1>1, <1>3, <1>4, FailSteady, SteadyKeeps DEF Fail
<1>5. CASE Lookup.id # 0 /\ Proceed(j, l)
  <2>1. vm'.server \in {l.rec.source, l.rec.target}
    BY <1>2, <1>3, <1>5, LookupMatches DEF Matches
  <2>2. Switch(j) => pc[j] = 9
    BY <1>1, AtSwitch, TurnsAre
  <2>3. Arrives(j, l)
    BY <2>1, <2>2 DEF Arrives
  <2> QED BY <1>1, <1>2, <1>3, <1>5, <2>3, ProceedSteady, SteadyKeeps
<1> QED BY <1>1, <1>4, <1>5

LEMMA HideSourceKeeps ==
    ASSUME IInv, SeqInv, NEW j \in Jobs, SetSourceDoNotInventory(j)
    PROVE  SeqInv'
<1> DEFINE s == loc[j].rec.source
<1>1. /\ At(j, "setSourceDoNotInventory") /\ mode[j] = "chain"
      /\ UNCHANGED <<vm, job>>
  BY DEF SetSourceDoNotInventory, SetDoNotInventory, At
<1>2. \/ /\ GoOn(j) /\ Exists(s)
         /\ inst' = [inst EXCEPT ![s].hidden = TRUE,
                                 ![s].current = inst[s].current]
      \/ Fail(j) /\ UNCHANGED inst
  BY DEF SetSourceDoNotInventory, SetDoNotInventory
<1>3. inst \in [Servers -> Instance]
  BY DEF IInv, DataType
<1>4. \A t \in Servers :
          Visible(t)' => Visible(t) /\ (t # s \/ Fail(j))
  BY <1>2, <1>3 DEF Visible, Exists, Instance
<1>5. Hides /\ VisibleAtVm' /\ vm'.server = vm.server
  BY <1>1, <1>4 DEF Hides, SeqInv, VisibleAtVm
<1>6. CASE Fail(j)
  BY <1>1, <1>5, <1>6, FailSteady, SteadyKeeps DEF Fail
<1>7. CASE ~Fail(j)
  <2>1. Switch(j) => pc[j] = 16
    BY <1>1, AtSwitch, TurnsAre
  <2>2. Switch(j) => vm.server \in {s, loc[j].rec.target}
    BY <1>1, <2>1 DEF SeqInv, SwitchMoves, Between
  <2>3. Switch(j) => \A t \in Servers : Visible(t)' => t = loc[j].rec.target
    BY <1>2, <1>4, <1>7, <2>2 DEF SeqInv, VisibleAtVm
  <2>4. Arrives(j, loc[j])
    BY <2>1, <2>3 DEF Arrives
  <2> QED BY <1>1, <1>2, <1>5, <1>7, <2>4, ProceedSteady, SteadyKeeps DEF GoOn
<1> QED BY <1>6, <1>7

LEMMA MoveVmKeeps ==
    ASSUME IInv, SeqInv, NEW j \in Jobs, UpdateVmServerUuid(j)
    PROVE  SeqInv'
<1> DEFINE t == loc[j].rec.target
<1>1. /\ At(j, "updateVmServerUuid") /\ mode[j] = "chain"
      /\ UNCHANGED <<inst, job>>
  BY DEF UpdateVmServerUuid, At
<1>2. Switch(j) /\ pc[j] = 17 /\ j \in Active
  BY <1>1, WhoseTaskAt, AtSwitch, TurnsAre, ActiveIs DEF Moving
<1>3. \A i \in Active : ~Starter(i)
  <2>1. \A i : ~Quiet(j, i)
    BY <1>1, <1>2 DEF Quiet, Cleaning
  <2> QED BY <1>2, <2>1 DEF SeqInv, NoneStarts
<1>4. \A s \in Servers : Visible(s) => s = t
  BY <1>1, <1>2 DEF SeqInv, SwitchMoves, Between
<1>5. CASE t = NoServer
  <2>1. Fail(j) /\ UNCHANGED vm
    BY <1>5 DEF UpdateVmServerUuid
  <2>2. Hides /\ VisibleAtVm'
    BY <1>1, <2>1, SameInstances DEF SeqInv, VisibleAtVm, Visible
  <2> QED BY <1>1, <1>3, <2>1, <2>2, FailSteady, SteadyKeeps DEF Fail
<1>6. CASE t # NoServer
  <2>1. GoOn(j) /\ vm' = [vm EXCEPT !.server = t]
    BY <1>6 DEF UpdateVmServerUuid
  <2>2. vm'.server = t
    BY <2>1 DEF IInv, DataType, VmRecord
  <2>3. VisibleAtVm'
    BY <1>1, <1>4, <2>2 DEF VisibleAtVm, Visible
  <2>4. Arrives(j, loc[j])
    BY <1>2, <2>2 DEF Arrives
  <2> QED BY <1>1, <1>2, <1>3, <2>1, <2>3, <2>4, ProceedSteady, SteadyKeeps
          DEF GoOn
<1> QED BY <1>5, <1>6

LEMMA ShowTargetKeeps ==
    ASSUME IInv, SeqInv, NEW j \in Jobs, RemoveTargetDoNotInventory(j)
    PROVE  SeqInv'
<1> DEFINE t == loc[j].rec.target
<1>1. /\ At(j, "removeTargetDoNotInventory") /\ mode[j] = "chain"
      /\ UNCHANGED <<vm, job>> /\ (GoOn(j) \/ Fail(j))
  BY DEF RemoveTargetDoNotInventory, SetDoNotInventory, At
<1>2. Switch(j) /\ pc[j] = 18
  BY <1>1, WhoseTaskAt, AtSwitch, TurnsAre DEF Moving
<1>3. vm.server = t
  BY <1>1, <1>2 DEF SeqInv, SwitchMoves, Between
<1>4. \A s \in Servers : Visible(s)' => Visible(s) \/ s = t
  <2>1. inst \in [Servers -> Instance]
    BY DEF IInv, DataType
  <2> QED BY <2>1
          DEF RemoveTargetDoNotInventory, SetDoNotInventory, Visible, Exists,
              Instance
<1>5. VisibleAtVm' /\ vm'.server = vm.server
  BY <1>1, <1>3, <1>4 DEF SeqInv, VisibleAtVm
<1>6. Arrives(j, loc[j])
  BY <1>2 DEF Arrives
<1>7. \A i \in Jobs : Steady(i)
  BY <1>1, <1>2, <1>6, ProceedSteady, FailSteady DEF GoOn, Fail
<1> QED BY <1>1, <1>5, <1>7, SteadyKeeps

-----------------------------------------------------------------------------
(* A task that stops a sync by another job, or lets it be.                 *)
LEMMA InterruptSteady ==
    ASSUME IInv, SeqInv, NEW j \in Jobs, mode[j] \in {"chain"} \cup Cleaning,
           mode[j] = "chain" => ~Switch(j),
           NEW k \in Jobs, mode[k] = "chain", NEW m \in Cleaning,
           mode' = [ModeAfter(j) EXCEPT ![k] = m],
           pc' = [PcAfter(j) EXCEPT ![k] = 1],
           loc' = LocAfter(j, loc[j]), UNCHANGED job, Hides
    PROVE  \A i \in Jobs : Steady(i)
<1>1. j \in Active /\ k \in Active
  BY ActiveIs DEF Cleaning
<1>2. mode \in [Jobs -> Modes] /\ pc \in [Jobs -> Nat] /\ loc \in [Jobs -> Locals]
  BY DEF IInv, ControlType
<1>3. ASSUME NEW i \in Jobs, i # j, i # k PROVE Steady(i)
  <2>1. UNCHANGED <<mode[i], pc[i], loc[i]>>
    BY <1>2, <1>3 DEF ModeAfter, PcAfter, LocAfter
  <2> QED BY <1>1, <1>3, <2>1, OthersRest DEF Steady
<1>4. Steady(k)
  <2>1. mode'[k] = m
    BY <1>2 DEF ModeAfter
  <2>2. loc'[k] \in {loc[k], NoLocals}
    BY <1>2 DEF LocAfter
  <2>3. loc'[k].child \in {0, loc[k].child}
    BY <2>2 DEF NoLocals
  <2> QED BY <1>1, <2>1, <2>3 DEF Steady, Cleans
<1>5. ASSUME j # k PROVE Steady(j)
  <2>1. CASE IsLast(j)
    <3>1. mode'[j] = Outcome[mode[j]] /\ loc'[j] = NoLocals
      BY <1>2, <1>5, <2>1 DEF ModeAfter, LocAfter
    <3>2. mode'[j] \in Ended /\ loc'[j].child = 0
      BY <3>1 DEF Outcome, Cleaning, Ended, NoLocals
    <3> QED BY <3>2 DEF Steady, Ends
  <2>2. CASE ~IsLast(j)
    <3>1. mode'[j] = mode[j] /\ loc'[j] = loc[j]
      BY <1>2, <1>5, <2>2 DEF ModeAfter, LocAfter
    <3> QED BY <1>1, <3>1 DEF Steady, Cleans, GoesOn
  <2> QED BY <2>1, <2>2
<1> QED BY <1>3, <1>4, <1>5

LEMMA InterruptTasksKeep ==
    ASSUME IInv, SeqInv, NEW j \in Jobs, Cleanup(j) \/ CancelSyncWorkflow(j)
    PROVE  SeqInv'
<1>1. PICK task \in {"cleanup", "cancelSyncWorkflow"} :
        At(j, task) \/ AtCleanup(j, task)
  BY DEF Cleanup, CancelSyncWorkflow
<1>2. /\ mode[j] \in {"chain"} \cup Cleaning
      /\ mode[j] = "chain" => ~Switch(j)
  <2>1. mode[j] = "chain" => At(j, task)
    BY <1>1 DEF AtCleanup, Cleaning
  <2> QED BY <1>1, <2>1, AtSwitch, TurnsAre DEF At, AtCleanup
<1>3. UNCHANGED <<vm, inst, job>> /\ Hides /\ VisibleAtVm'
  BY SameInstances
  DEF Cleanup, CancelSyncWorkflow, SeqInv, VisibleAtVm, Visible
<1>4. \/ GoOn(j)
      \/ \E k \in Jobs, m \in Cleaning :
            /\ mode[k] = "chain"
            /\ mode' = [ModeAfter(j) EXCEPT ![k] = m]
            /\ pc' = [PcAfter(j) EXCEPT ![k] = 1]
            /\ loc' = LocAfter(j, loc[j])
  <2>1. CASE Cleanup(j)
    <3> DEFINE k == loc[j].rec.proc
    <3>1. k \in Jobs \cup {0}
      BY LocalsRec DEF IInv, Record
    <3> QED BY <2>1, <3>1 DEF Cleanup, At, Cleaning
  <2>2. CASE CancelSyncWorkflow(j)
    <3> DEFINE k == loc[j].rec.history[loc[j].idx].job
    <3>1. \/ /\ mode[k] = "chain"
             /\ mode' = [ModeAfter(j) EXCEPT ![k] = "canceling"]
             /\ pc' = [PcAfter(j) EXCEPT ![k] = 1]
             /\ loc' = LocAfter(j, loc[j])
          \/ GoOn(j)
      BY <2>2 DEF CancelSyncWorkflow
    <3> HIDE DEF k
    <3>2. CASE k \in Jobs
      BY <3>1, <3>2 DEF Cleaning
    <3>3. CASE k \notin Jobs
      <4>1. \/ mode' = ModeAfter(j) /\ pc' = PcAfter(j)
            \/ GoOn(j)
        BY <3>1, <3>3 DEF ModeAfter, PcAfter, IInv, ControlType
      <4> QED BY <3>1, <4>1 DEF GoOn, Proceed
    <3> QED BY <3>2, <3>3
  <2> QED BY <2>1, <2>2
<1>5. \A i \in Jobs : Steady(i)
  <2>1. Arrives(j, loc[j])
    BY <1>2 DEF Arrives
  <2> QED BY <1>2, <1>3, <1>4, <2>1, InterruptSteady, ProceedSteady DEF GoOn
<1> QED BY <1>3, <1>5, SteadyKeeps DEF Hides

-----------------------------------------------------------------------------
(* The jobs that tasks queue.  A switch queues one that stops or starts the*)
(* VM where its record is, or its final sync, and may wait for it.         *)
LEMMA QueueKeeps ==
    ASSUME IInv, SeqInv, NEW j \in Jobs, NEW k \in Jobs, NEW params, NEW rec,
           mode[j] \in {"chain"} \cup Cleaning, Switch(j),
           Queue(j, k, params, rec, [loc[j] EXCEPT !.child = k]),
           UNCHANGED <<vm, inst>>,
           \/ /\ params.action \in {"start", "stop"}
              /\ params.queue = vm.server
              /\ mode[j] = "chain" => pc[j] \in {4, 21}
           \/ /\ params.action = "sync" /\ params.final
              /\ mode[j] = "chain" => pc[j] = 6
    PROVE  SeqInv'
<1>1. j \in Active /\ mode[k] = "none" /\ k # j /\ k \notin Active
  BY ActiveIs DEF Queue, Fresh, Cleaning
<1>2. /\ mode \in [Jobs -> Modes] /\ pc \in [Jobs -> Nat]
      /\ loc \in [Jobs -> Locals] /\ job \in [Jobs -> JobParams]
  BY DEF IInv, ControlType
<1>3. /\ job'[k] = params /\ mode'[k] = "chain" /\ loc'[k].child = 0
      /\ \A i \in Jobs \ {k} : UNCHANGED job[i]
  BY <1>2 DEF Queue, ModeAfter, LocAfter, NoLocals
<1>4. \A i \in Jobs \ {j, k} : UNCHANGED <<mode[i], pc[i], loc[i], job[i]>>
  BY <1>2 DEF Queue, ModeAfter, PcAfter, LocAfter
<1>5. \/ mode'[j] \in Ended /\ loc'[j].child = 0
      \/ /\ mode'[j] = mode[j] /\ pc'[j] = pc[j] + 1
         /\ loc'[j].child = k
  <2>1. CASE IsLast(j)
    <3>1. mode'[j] = Outcome[mode[j]] /\ loc'[j] = NoLocals
      BY <1>1, <1>2, <2>1 DEF Queue, ModeAfter, LocAfter
    <3> QED BY <3>1 DEF Outcome, Cleaning, Ended, NoLocals
  <2>2. CASE ~IsLast(j)
    <3>1. /\ mode'[j] = mode[j] /\ pc'[j] = pc[j] + 1
          /\ loc'[j] = [loc[j] EXCEPT !.child = k]
      BY <1>1, <1>2, <2>2 DEF Queue, ModeAfter, PcAfter, LocAfter
    <3> QED BY <1>2, <3>1 DEF Locals
  <2> QED BY <2>1, <2>2
<1>6. Aux(k)' /\ ~Switch(k)' /\ (Starter(k)' => params.queue = vm.server)
  BY <1>3 DEF Aux, Starter, Switch
<1>7. \A i \in Jobs \ {k} : /\ (Aux(i)' <=> Aux(i))
                            /\ (Starter(i)' <=> Starter(i))
                            /\ (Switch(i)' <=> Switch(i))
  BY <1>3 DEF Aux, Starter, Switch
<1>8. ~Aux(j)
  BY DEF Aux, Starter, Switch
<1>9. \A i \in Active : i # j => Aux(i) /\ ~Switch(i)
  <2>1. \A i \in Active : i # j => Aux(i)
    BY <1>1, <1>8 DEF SeqInv, Alone
  <2> QED BY <2>1 DEF Aux, Starter, Switch
<1>10. \A i \in Active' : i = k \/ i \in Active
  BY <1>1, <1>4, ActiveIs, ActiveThen
<1>11. NoRollback'
  BY <1>2, <1>3 DEF SeqInv, NoRollback
<1>12. Children'
  <2>1. SUFFICES ASSUME NEW i \in Jobs, NEW c, c = loc'[i].child, c # 0
                 PROVE  /\ mode'[i] # "none" /\ Switch(i)'
                        /\ mode'[c] # "none" /\ Aux(c)'
    BY DEF Children, Aux, Starter
  <2>2. CASE i = j
    BY <1>1, <1>3, <1>5, <1>6, <1>7, <2>1, <2>2 DEF Cleaning
  <2>3. CASE i = k
    BY <1>3, <2>1, <2>3
  <2>4. CASE i \notin {j, k}
    <3>1. c = loc[i].child /\ c \in Jobs
      BY <1>2, <1>4, <2>1, <2>4 DEF Locals
    <3>2. /\ mode[i] # "none" /\ Switch(i)
          /\ mode[c] # "none" /\ Aux(c)
      BY <2>1, <3>1 DEF SeqInv, Children
    <3>3. c # k /\ c # j
      BY <1>1, <1>8, <3>2
    <3> QED BY <1>4, <1>7, <2>4, <3>1, <3>2, <3>3
  <2> QED BY <2>2, <2>3, <2>4
<1>13. Alone'
  <2>1. SUFFICES ASSUME NEW i \in Active', NEW n \in Active', i # n
                 PROVE  (Aux(i)' \/ Switch(i)') /\ (Aux(i)' \/ Aux(n)')
    BY DEF Alone
  <2>2. \A a \in Active' : a \in Jobs /\ (Aux(a)' \/ (a = j /\ Switch(a)'))
    BY <1>6, <1>7, <1>9, <1>10, ActiveThen
  <2> QED BY <2>1, <2>2
<1>14. StartersAtVm'
  <2>1. SUFFICES ASSUME NEW i \in Active', Starter(i)'
                 PROVE  job'[i].queue = vm'.server
    BY DEF StartersAtVm
  <2>2. CASE i = k
    BY <1>3, <1>6, <2>1, <2>2
  <2>3. CASE i # k
    <3>1. i \in Active /\ Starter(i) /\ i \in Jobs
      BY <1>7, <1>10, <2>1, <2>3, ActiveThen
    <3> QED BY <1>3, <2>3, <3>1 DEF SeqInv, StartersAtVm
  <2> QED BY <2>2, <2>3
<1>15. NoneStarts'
  <2>1. SUFFICES ASSUME NEW i \in Active', NEW n \in Active',
                        Starter(i)', Switch(n)'
                 PROVE  Quiet(n, i)'
    BY DEF NoneStarts
  <2>2. n = j /\ mode'[j] = mode[j]
    <3>1. n \in Jobs /\ mode'[n] \notin Ended
      BY <2>1 DEF Active
    <3> QED BY <1>5, <1>6, <1>7, <1>9, <1>10, <2>1, <3>1
  <2>3. CASE mode[j] \in Cleaning
    BY <2>2, <2>3 DEF Quiet
  <2>4. CASE mode[j] = "chain"
    <3>1. /\ pc'[j] = pc[j] + 1 /\ loc'[j].child = k
          /\ mode'[j] = "chain" /\ pc[j] \in Nat
      BY <1>2, <1>5, <2>2, <2>4 DEF Ended
    <3>2. CASE pc[j] = 21
      BY <2>2, <3>1, <3>2 DEF Quiet
    <3>3. CASE pc[j] \in {4, 6}
      <4>1. \A m \in Active : ~Starter(m)
        <5>1. \A m : ~Quiet(j, m)
          BY <2>4, <3>3 DEF Quiet, Cleaning
        <5> QED BY <1>1, <5>1 DEF SeqInv, NoneStarts
      <4>2. i = k
        BY <1>7, <1>10, <2>1, <4>1, ActiveThen
      <4>3. pc[j] = 4
        BY <1>3, <2>1, <2>4, <3>3, <4>2 DEF Starter
      <4> QED BY <2>2, <3>1, <4>2, <4>3 DEF Quiet
    <3> QED BY <2>4, <3>2, <3>3
  <2> QED BY <2>3, <2>4
<1>16. SwitchMoves'
  <2>1. SUFFICES ASSUME NEW n \in Jobs, mode'[n] = "chain", Switch(n)'
                 PROVE  Between(n)'
    BY DEF SwitchMoves
  <2>2. n = j
    <3>1. n \in Active'
      BY <2>1, ActiveThen
    <3> QED BY <1>6, <1>7, <1>9, <1>10, <2>1, <3>1
  <2>3. pc'[j] \in {5, 7, 22}
    BY <1>2, <1>5, <2>1, <2>2 DEF Ended
  <2> QED BY <2>2, <2>3 DEF Between
<1>17. VisibleAtVm'
  BY DEF SeqInv, VisibleAtVm, Visible
<1>18. FinalSyncs'
  <2>1. SUFFICES ASSUME NEW n \in Active', NEW i \in Active',
                        Switch(n)', Final(i)'
                 PROVE  \/ mode'[n] \in Cleaning
                        \/ /\ mode'[n] = "chain" /\ pc'[n] = 7
                           /\ loc'[n].child = i
    BY DEF FinalSyncs
  <2>2. n = j /\ mode'[j] = mode[j]
    <3>1. n \in Jobs /\ mode'[n] \notin Ended
      BY <2>1 DEF Active
    <3> QED BY <1>5, <1>6, <1>7, <1>9, <1>10, <2>1, <3>1
  <2>3. CASE mode[j] \in Cleaning
    BY <2>2, <2>3
  <2>4. CASE mode[j] = "chain"
    <3>1. \A m \in Active : ~Final(m)
      BY <1>1, <2>4 DEF SeqInv, FinalSyncs, Cleaning
    <3>2. i = k
      BY <1>3, <1>10, <2>1, <3>1, ActiveThen DEF Final
    <3>3. pc[j] = 6
      BY <1>3, <2>1, <2>4, <3>2 DEF Final
    <3> QED BY <1>5, <2>2, <2>4, <3>2, <3>3 DEF Ended
  <2> QED BY <2>3, <2>4
<1> QED BY <1>11, <1>12, <1>13, <1>14, <1>15, <1>16, <1>17, <1>18 DEF SeqInv

(* A step after which the only job at work is one that has just begun.     *)
LEMMA NewJobKeeps ==
    ASSUME IInv, SeqInv, NEW k \in Jobs, mode[k] = "none",
           Active' \subseteq {k}, job' \in [Jobs -> JobParams],
           \A i \in Jobs \ {k} : UNCHANGED job[i],
           \A i \in Jobs : loc'[i].child \in {0, loc[i].child},
           \A i \in Jobs : mode[i] # "none" => mode'[i] # "none",
           loc'[k].child = 0, job'[k].action \notin {"start", "stop", "rollback"},
           mode'[k] \in {"request", "chain"}, mode'[k] = "chain" => pc'[k] = 1,
           UNCHANGED <<vm, inst>>
    PROVE  SeqInv'
<1>1. NoRollback'
  BY DEF SeqInv, NoRollback
<1>2. Children'
  <2>1. SUFFICES ASSUME NEW i \in Jobs, NEW c, c = loc'[i].child, c # 0
                 PROVE  /\ mode'[i] # "none" /\ Switch(i)'
                        /\ mode'[c] # "none" /\ Aux(c)'
    BY DEF Children, Aux, Starter
  <2>2. i # k /\ c = loc[i].child
    BY <2>1
  <2>3. c \in Jobs
    BY <2>1, <2>2 DEF IInv, ControlType, Locals
  <2>4. /\ mode[i] # "none" /\ Switch(i)
        /\ mode[c] # "none" /\ Aux(c)
    BY <2>1, <2>2 DEF SeqInv, Children
  <2>5. c # k
    BY <2>4
  <2> QED BY <2>2, <2>3, <2>4, <2>5 DEF Switch, Aux, Starter
<1>3. \A i \in Active' : i = k /\ ~Starter(i)'
  BY DEF Starter
<1>4. Alone' /\ StartersAtVm' /\ NoneStarts' /\ FinalSyncs'
  BY <1>3
  DEF Alone, StartersAtVm, NoneStarts, FinalSyncs, Switch, Final
<1>5. SwitchMoves'
  <2>1. SUFFICES ASSUME NEW i \in Jobs, mode'[i] = "chain" PROVE Between(i)'
    BY DEF SwitchMoves
  <2>2. i = k
    BY <2>1, ActiveThen
  <2> QED BY <2>1, <2>2 DEF Between
<1>6. VisibleAtVm'
  BY DEF SeqInv, VisibleAtVm, Visible
<1> QED BY <1>1, <1>2, <1>4, <1>5, <1>6 DEF SeqInv

(* The last task of begin and of sync asks for the next action: no other   *)
(* job is at work then, and the job ends with it.                          *)
LEMMA NextActionKeeps ==
    ASSUME IInv, SeqInv, NEW j \in Jobs, NEW task \in Chaining, At(j, task),
           ~job[j].final \/ job[j].action = "begin",
           NEW a \in {"sync", "switch"}, RequestSubtask(j, a, FALSE, FALSE)
    PROVE  SeqInv'
<1>1. /\ mode[j] = "chain" /\ IsLast(j) /\ j \in Active
      /\ job[j].action \in {"begin", "sync"}
  BY WhoseTaskAt, ActiveIs DEF At
<1>2. UNCHANGED <<vm, inst>>
  BY DEF RequestSubtask
<1>3. CASE Accepts(a, Lookup, TRUE)
  <2>1. PICK k \in Jobs :
          Queue(j, k, Params(a, TRUE, FALSE), Lookup, loc[j])
    BY <1>3 DEF RequestSubtask
  <2>2. /\ mode \in [Jobs -> Modes] /\ pc \in [Jobs -> Nat]
        /\ loc \in [Jobs -> Locals] /\ job \in [Jobs -> JobParams]
    BY DEF IInv, ControlType
  <2>3. mode[k] = "none" /\ k # j
    BY <1>1, <2>1 DEF Queue, Fresh
  <2>4. mode'[j] = "succeeded" /\ mode'[k] = "chain" /\ pc'[k] = 1
    BY <1>1, <2>1, <2>2, <2>3
    DEF Queue, ModeAfter, PcAfter, Outcome
  <2>5. \A i \in Jobs \ {j, k} : UNCHANGED mode[i]
    BY <2>1, <2>2 DEF Queue, ModeAfter
  <2>6. \A i \in Jobs : loc'[i].child \in {0, loc[i].child}
    <3>1. \A i \in Jobs \ {k} : loc'[i] \in {loc[i], NoLocals}
      BY <2>1, <2>2 DEF Queue, LocAfter
    <3>2. loc'[k] = [NoLocals EXCEPT !.rec = Lookup]
      BY <2>1, <2>2 DEF Queue, LocAfter
    <3> QED BY <3>1, <3>2 DEF NoLocals
  <2>7. loc'[k].child = 0
    BY <2>1, <2>2 DEF Queue, LocAfter, NoLocals
  <2>8. job'[k] = Params(a, TRUE, FALSE) /\ \A i \in Jobs \ {k} : UNCHANGED job[i]
    BY <2>1, <2>2 DEF Queue
  <2>9. job'[k].action = a
    BY <2>8 DEF Params
  <2>10. \A i \in Active : i = j
    BY <1>1 DEF SeqInv, Alone, Aux, Starter, Switch
  <2>11. Active' \subseteq {k}
    BY <2>3, <2>4, <2>5, <2>10, ActiveIs, ActiveThen
  <2>12. job' \in [Jobs -> JobParams]
    <3>1. IInv'
      BY <1>1, RequestSubtaskInv, JobActionsAre
    <3> QED BY <3>1 DEF IInv, ControlType
  <2> QED BY <1>2, <2>3, <2>4, <2>5, <2>6, <2>7, <2>8, <2>9, <2>11, <2>12,
             NewJobKeeps
<1>4. CASE ~Accepts(a, Lookup, TRUE)
  <2>1. Fail(j) /\ UNCHANGED job
    BY <1>4 DEF RequestSubtask
  <2> QED BY <1>2, <2>1, SameInstances, PlainTaskKeeps DEF Chaining, Turns
<1> QED BY <1>3, <1>4

LEMMA WhoseCleanup ==
    \A a \in JobActions : \A n \in 1 .. Len(OnError[a]) :
        OnError[a][n] \in {"stopSourceVm", "startTargetVm", "startSourceVm"}
            => a = "switch"
<1>1. TAKE a \in JobActions
<1>2. CASE a = "begin"
  BY <1>2 DEF OnError
<1>3. CASE a = "sync"
  BY <1>3 DEF OnError
<1>4. CASE a = "pause"
  BY <1>4 DEF OnError
<1>5. CASE a \in {"abort", "rollback"}
  <2>1. OnError[a] = <<"storeFailure", "unreserveNetworkIps",
                       "releaseVMTicketIgnoringErr">>
    BY <1>5 DEF OnError
  <2> QED BY <2>1
<1>6. CASE a = "finalize"
  BY <1>6 DEF OnError
<1>7. CASE a \in {"start", "stop"}
  <2>1. OnError[a] = <<"releaseVMTicketIgnoringErr">>
    BY <1>7 DEF OnError
  <2> QED BY <2>1
<1> QED BY <1>2, <1>3, <1>4, <1>5, <1>6, <1>7, JobActionsAre

LEMMA QueueingTasksKeep ==
    ASSUME IInv, SeqInv, NEW j \in Jobs,
           \/ StartSyncWhenAutomatic(j) \/ StartSyncOrSwitchWhenAutomatic(j)
           \/ StartFinalSync(j) \/ StopSourceVm(j) \/ StartTargetVm(j)
           \/ StartSourceVm(j)
    PROVE  SeqInv'
<1>1. CASE StartSyncWhenAutomatic(j)
  <2>1. At(j, "startSyncWhenAutomatic")
    BY <1>1 DEF StartSyncWhenAutomatic
  <2>2. job[j].action = "begin"
    <3>1. Chain["sync"] = SyncChain /\ Len(SyncChain) = 8
      BY DEF Chain, Chains, SyncChain
    <3>2. mode[j] = "chain" /\ job[j].action \in {"begin", "sync"}
      BY <2>1, WhoseTaskAt DEF At, Chaining
    <3>3. ASSUME job[j].action = "sync" PROVE FALSE
      <4>1. pc[j] \in 1 .. 8 /\ SyncChain[pc[j]] = "startSyncWhenAutomatic"
        BY <2>1, <3>1, <3>2, <3>3 DEF At, IInv, ControlType, ControlOf
      <4> QED BY <4>1 DEF SyncChain
    <3> QED BY <3>2, <3>3
  <2>3. CASE loc[j].rec.auto
    BY <1>1, <2>1, <2>2, <2>3, NextActionKeeps
    DEF StartSyncWhenAutomatic, Chaining
  <2>4. CASE ~loc[j].rec.auto
    BY <1>1, <2>1, <2>4, SameInstances, PlainTaskKeeps
    DEF StartSyncWhenAutomatic, Turns
  <2> QED BY <2>3, <2>4
<1>2. CASE StartSyncOrSwitchWhenAutomatic(j)
  <2> DEFINE a == IF loc[j].rec.syncs < 2 THEN "sync" ELSE "switch"
             task == "startSyncOrSwitchWhenAutomatic"
  <2>1. At(j, task)
    BY <1>2 DEF StartSyncOrSwitchWhenAutomatic
  <2>2. CASE loc[j].rec.auto /\ ~job[j].final
    <3>1. RequestSubtask(j, a, FALSE, FALSE) /\ a \in {"sync", "switch"}
      BY <1>2, <2>2 DEF StartSyncOrSwitchWhenAutomatic
    <3> HIDE DEF a
    <3> QED BY <2>1, <2>2, <3>1, NextActionKeeps DEF Chaining
  <2>3. CASE ~(loc[j].rec.auto /\ ~job[j].final)
    BY <1>2, <2>1, <2>3, SameInstances, PlainTaskKeeps
    DEF StartSyncOrSwitchWhenAutomatic, Turns
  <2> QED BY <2>2, <2>3
<1>3. CASE StartFinalSync(j)
  <2>1. /\ At(j, "startFinalSync") /\ mode[j] = "chain"
        /\ UNCHANGED <<vm, inst>>
        /\ \/ Fail(j) /\ UNCHANGED job
           \/ \E k \in Jobs : Queue(j, k, Params("sync", TRUE, TRUE), Lookup,
                                    [loc[j] EXCEPT !.child = k])
    BY <1>3 DEF StartFinalSync, RequestSubtask, At
  <2>2. Switch(j) /\ pc[j] = 6
    BY <2>1, WhoseTaskAt, AtSwitch, TurnsAre DEF Moving
  <2>3. /\ Params("sync", TRUE, TRUE).action = "sync"
        /\ Params("sync", TRUE, TRUE).final
    BY DEF Params
  <2>4. CASE Fail(j) /\ UNCHANGED job
    BY <2>1, <2>4, SameInstances, PlainTaskKeeps DEF Turns
  <2> QED BY <2>1, <2>2, <2>3, <2>4, QueueKeeps
<1>4. ASSUME NEW task \in {"stopSourceVm", "startTargetVm", "startSourceVm"},
             NEW a \in {"start", "stop"}, NEW needed,
             StopOrStart(j, task, a, needed)
      PROVE  SeqInv'
  <2>1. /\ At(j, task) \/ AtCleanup(j, task)
        /\ mode[j] = "chain" => At(j, task)
        /\ mode[j] \in {"chain"} \cup Cleaning
    BY <1>4 DEF StopOrStart, At, AtCleanup, Cleaning
  <2>2. UNCHANGED <<vm, inst>>
    BY <1>4 DEF StopOrStart
  <2>3. CASE GoOn(j) /\ UNCHANGED job
    BY <2>1, <2>2, <2>3, SameInstances, PlainTaskKeeps DEF Turns
  <2>4. CASE ~(GoOn(j) /\ UNCHANGED job)
    <3>1. PICK k \in Jobs : Queue(j, k, Params(a, FALSE, FALSE), NoRecord,
                                  [loc[j] EXCEPT !.child = k])
      BY <1>4, <2>4 DEF StopOrStart
    <3>2. /\ Params(a, FALSE, FALSE).action \in {"start", "stop"}
          /\ Params(a, FALSE, FALSE).queue = vm.server
      BY DEF Params
    <3>3. CASE mode[j] = "chain"
      <4>1. Switch(j) /\ task # "startSourceVm"
        BY <2>1, <3>3, WhoseTaskAt DEF Moving, Rolling
      <4>2. pc[j] \in {4, 21}
        BY <2>1, <3>3, <4>1, AtSwitch, TurnsAre
      <4> QED BY <2>2, <3>1, <3>2, <3>3, <4>1, <4>2, QueueKeeps
    <3>4. CASE mode[j] \in Cleaning
      <4>1. /\ AtCleanup(j, task) /\ job[j].action \in JobActions
            /\ pc[j] \in 1 .. Len(OnError[job[j].action])
        <5>1. AtCleanup(j, task)
          BY <2>1, <3>4 DEF At, Cleaning
        <5> QED BY <5>1, <3>4 DEF IInv, ControlType, ControlOf, JobParams
      <4>2. Switch(j)
        BY <4>1, WhoseCleanup DEF AtCleanup, Switch
      <4>3. mode[j] # "chain"
        BY <3>4 DEF Cleaning
      <4> QED BY <2>2, <3>1, <3>2, <3>4, <4>2, <4>3, QueueKeeps
    <3> QED BY <2>1, <3>3, <3>4
  <2> QED BY <2>3, <2>4
<1>5. CASE StopSourceVm(j) \/ StartTargetVm(j) \/ StartSourceVm(j)
  BY <1>4, <1>5 DEF StopSourceVm, StartTargetVm, StartSourceVm
<1> QED BY <1>1, <1>2, <1>3, <1>5

-----------------------------------------------------------------------------
LEMMA JobStepKeeps ==
    ASSUME IInv, SeqInv, NEW j \in Jobs, JobStep(j)
    PROVE  SeqInv'
<1>1. ~StopTargetVm(j) /\ ~RemoveSourceDoNotInventory(j)
  <2>1. ~At(j, "stopTargetVm") /\ ~At(j, "removeSourceDoNotInventory")
    BY WhoseTaskAt DEF Rolling
  <2> QED BY <2>1
          DEF StopTargetVm, RemoveSourceDoNotInventory, SetDoNotInventory
<1>2. CASE MigrationTask(j)
  BY <1>1, <1>2, RecordTasksKeep, InstanceTasksKeep, PlainTasksKeep,
     OwnRecordTasksKeep, GetRecordKeeps, HideSourceKeeps, MoveVmKeeps,
     ShowTargetKeeps, InterruptTasksKeep, QueueingTasksKeep
  DEF MigrationTask
<1>3. CASE SharedTask(j)
  BY <1>3, RecordTasksKeep, InstanceTasksKeep, PlainTasksKeep, PutVmKeeps,
     WaitKeeps
  DEF SharedTask
<1> QED BY <1>2, <1>3 DEF JobStep

LEMMA RequestStepKeeps ==
    ASSUME IInv, SeqInv, NEW k \in Jobs, RequestStep(k)
    PROVE  SeqInv'
<1>1. /\ mode[k] = "request" /\ UNCHANGED <<vm, inst, job>>
      /\ \A i \in Jobs \ {k} : UNCHANGED <<mode[i], pc[i], loc[i]>>
  BY DEF RequestStep, CreateRecord, AbortWithoutTarget, StartWorkflow, IInv,
         ControlType
<1>2. \/ mode'[k] \in {"failed", "succeeded"} /\ loc'[k] = NoLocals
      \/ mode'[k] = "chain" /\ pc'[k] = 1 /\ loc'[k].child = loc[k].child
  <2>1. /\ mode \in [Jobs -> Modes] /\ pc \in [Jobs -> Nat]
        /\ loc \in [Jobs -> Locals]
    BY DEF IInv, ControlType
  <2>2. CASE CreateRecord(k)
    BY <2>1, <2>2 DEF CreateRecord, Locals
  <2>3. CASE AbortWithoutTarget(k)
    BY <2>1, <2>3 DEF AbortWithoutTarget
  <2>4. CASE StartWorkflow(k)
    BY <2>1, <2>4 DEF StartWorkflow
  <2> QED BY <2>2, <2>3, <2>4 DEF RequestStep
<1>3. Hides /\ VisibleAtVm'
  BY <1>1, SameInstances DEF SeqInv, VisibleAtVm, Visible
<1>4. Steady(k)
  BY <1>1, <1>2 DEF Steady, Ends, GoesOn, Between, Ended, NoLocals
<1>5. \A i \in Jobs \ {k} : Steady(i)
  BY <1>1, <1>3 DEF Steady, Rests
<1> QED BY <1>1, <1>3, <1>4, <1>5, SteadyKeeps

(* A request is taken when no job is at work: what is open would be at     *)
(* least the job no other one waits for.                                   *)
LEMMA NoneOpen ==
    ASSUME IInv, SeqInv, Sequential, Cardinality(Open) < MaxOpen
    PROVE  Active = {}
<1>1. Open = {}
  <2>1. IsFiniteSet(Jobs)
    BY ConstantsAssumption, FS_Interval DEF Jobs
  <2>2. Open \subseteq Jobs
    BY DEF Open, Active
  <2>3. IsFiniteSet(Open)
    BY <2>1, <2>2, FS_Subset
  <2>4. Cardinality(Open) \in Nat
    BY <2>3, FS_CardinalityType
  <2>5. Cardinality(Open) = 0
    BY <2>4, BoundsAssumption DEF Sequential
  <2> QED BY <2>3, <2>5, FS_EmptySet
<1>2. ASSUME NEW k \in Active PROVE FALSE
  <2>1. PICK i \in Active : loc[i].child = k
    BY <1>1, <1>2 DEF Open
  <2>2. PICK n \in Active : loc[n].child = i
    BY <1>1, <2>1 DEF Open
  <2>3. /\ k \in Jobs /\ i \in Jobs /\ n \in Jobs /\ k # 0 /\ i # 0
    BY <1>2, <2>1, <2>2 DEF Active, Jobs
  <2>4. Switch(i) /\ Aux(i)
    BY <2>1, <2>2, <2>3 DEF SeqInv, Children
  <2> QED BY <2>4 DEF Switch, Aux, Starter
<1> QED BY <1>2

LEMMA RequestMigrationKeeps ==
    ASSUME IInv, SeqInv, Sequential, NEW k \in Jobs, RequestMigration(k)
    PROVE  SeqInv'
<1>1. /\ mode[k] = "none" /\ Cardinality(Open) < MaxOpen
      /\ mode' = [mode EXCEPT ![k] = "request"]
      /\ loc' = [loc EXCEPT ![k].rec = Lookup] /\ UNCHANGED <<vm, inst>>
  BY DEF RequestMigration, Fresh
<1>2. PICK a \in Requested : job' = [job EXCEPT ![k] = Params(a, FALSE, FALSE)]
  BY DEF RequestMigration
<1>3. /\ mode \in [Jobs -> Modes] /\ loc \in [Jobs -> Locals]
      /\ job \in [Jobs -> JobParams]
  BY DEF IInv, ControlType
<1>4. a \notin {"start", "stop", "rollback"}
  BY BoundsAssumption DEF Sequential, MigrationActions
<1>5. job'[k].action = a /\ \A i \in Jobs \ {k} : UNCHANGED job[i]
  BY <1>2, <1>3 DEF Params
<1>6. \A i \in Jobs : loc'[i].child = loc[i].child
  BY <1>1, <1>3 DEF Locals
<1>7. loc[k].child = 0
  BY <1>1 DEF SeqInv, Children
<1>8. mode'[k] = "request" /\ \A i \in Jobs \ {k} : UNCHANGED mode[i]
  BY <1>1, <1>3
<1>9. Active' \subseteq {k}
  BY <1>1, <1>8, NoneOpen, ActiveIs, ActiveThen
<1>10. job' \in [Jobs -> JobParams]
  <2>1. IInv'
    BY RequestMigrationInv
  <2> QED BY <2>1 DEF IInv, ControlType
<1> QED BY <1>1, <1>4, <1>5, <1>6, <1>7, <1>8, <1>9, <1>10, NewJobKeeps

LEMMA FaultsKeep ==
    ASSUME IInv, SeqInv, NEW j \in Jobs, TaskFails(j) \/ CleanupFails(j)
    PROVE  SeqInv'
<1>1. UNCHANGED <<vm, inst, job>>
  BY DEF TaskFails, CleanupFails
<1>2. Hides /\ VisibleAtVm' /\ vm'.server = vm.server
  BY <1>1, SameInstances DEF SeqInv, VisibleAtVm, Visible
<1>3. CASE TaskFails(j)
  <2>1. mode[j] = "chain" /\ FailWith(j, loc[j])
    BY <1>3 DEF TaskFails, Fail
  <2> QED BY <1>1, <1>2, <2>1, FailSteady, SteadyKeeps
<1>4. CASE CleanupFails(j)
  <2>1. /\ mode[j] \in Cleaning /\ mode' = [mode EXCEPT ![j] = Outcome[@]]
        /\ pc' = [pc EXCEPT ![j] = 0] /\ loc' = [loc EXCEPT ![j] = NoLocals]
    BY <1>4 DEF CleanupFails, AtCleanup
  <2>2. Outcome[mode[j]] \in Ended
    BY <2>1 DEF Outcome, Cleaning, Ended
  <2>3. Ends(j) /\ \A i \in Jobs \ {j} : Rests(i)
    BY <1>2, <2>1, <2>2 DEF Ends, Rests, NoLocals, IInv, ControlType
  <2> QED BY <1>1, <1>2, <2>3, SteadyKeeps DEF Steady
<1> QED BY <1>3, <1>4

(* Steps of no job: those that change no more than tickets and records of  *)
(* migrations, and an agent that reports the VM where its record is.       *)
LEMMA OthersKeep ==
    ASSUME IInv, SeqInv, UNCHANGED <<inst, job, mode, pc, loc>>,
           UNCHANGED vm \/ \E s \in Servers : AgentReport(s)
    PROVE  SeqInv'
<1>1. vm'.server = vm.server
  <2>1. ASSUME NEW s \in Servers, AgentReport(s) PROVE vm'.server = vm.server
    BY <2>1 DEF AgentReport, SeqInv, VisibleAtVm, Visible
  <2> QED BY <2>1
<1>2. Hides /\ VisibleAtVm'
  BY <1>1 DEF Hides, SeqInv, VisibleAtVm, Visible
<1>3. \A i \in Jobs : Steady(i)
  BY <1>2 DEF Steady, Rests
<1> QED BY <1>1, <1>2, <1>3, SteadyKeeps

LEMMA InitSeq == Init => SeqInv
<1> SUFFICES ASSUME Init PROVE SeqInv
  OBVIOUS
<1>1. Active = {} /\ \A i \in Jobs : loc[i].child = 0
  BY ActiveIs DEF Init, NoLocals
<1>2. /\ NoRollback /\ Children /\ Alone /\ StartersAtVm /\ NoneStarts
      /\ FinalSyncs
  BY <1>1
  DEF Init, NoJob, NoRollback, Children, Alone, StartersAtVm, NoneStarts,
      FinalSyncs
<1>3. SwitchMoves
  BY DEF Init, SwitchMoves
<1>4. VisibleAtVm
  <2>1. PICK s \in Servers, state \in {"running", "stopped"} :
          /\ vm = [server |-> s, state |-> state]
          /\ inst = [t \in Servers |->
                        [exists |-> t = s, hidden |-> FALSE,
                         running |-> t = s /\ state = "running",
                         current |-> t = s]]
    BY DEF Init
  <2>2. \A t \in Servers : inst[t].exists = (t = s)
    BY <2>1
  <2> QED BY <2>1, <2>2 DEF VisibleAtVm, Visible
<1> QED BY <1>2, <1>3, <1>4 DEF SeqInv

LEMMA NextSeq == Sequential /\ IInv /\ SeqInv /\ [Next]_vars => SeqInv'
<1> SUFFICES ASSUME Sequential, IInv, SeqInv, [Next]_vars PROVE SeqInv'
  OBVIOUS
<1>1. CASE UNCHANGED vars
  BY <1>1, OthersKeep DEF vars
<1>2. ASSUME NEW j \in Jobs,
             \/ JobStep(j) \/ RequestStep(j) \/ RequestMigration(j)
             \/ TaskFails(j) \/ CleanupFails(j)
      PROVE  SeqInv'
  BY <1>2, JobStepKeeps, RequestStepKeeps, RequestMigrationKeeps, FaultsKeep
<1>3. ~UserAction
  <2>1. used.user \in Nat /\ MaxUserActions = 0
    BY DEF IInv, DataType, Sequential
  <2> QED BY <2>1 DEF UserAction
<1>4. ASSUME NEW s \in Servers, TicketExpires(s) \/ AgentReport(s)
      PROVE  SeqInv'
  BY <1>4, OthersKeep DEF TicketExpires, AgentReport
<1> QED BY <1>1, <1>2, <1>3, <1>4
        DEF Next, Quiescent, UserStartsOrStops, DeleteVmMigration

LEMMA SequentialInv == Sequential => (Spec => [](IInv /\ SeqInv))
<1> SUFFICES ASSUME Sequential PROVE Spec => [](IInv /\ SeqInv)
  OBVIOUS
<1>1. Init => IInv /\ SeqInv
  BY InitInv, InitSeq
<1>2. IInv /\ SeqInv /\ [Next]_vars => (IInv /\ SeqInv)'
  BY NextInv, NextSeq
<1> QED BY <1>1, <1>2, PTL DEF Spec

-----------------------------------------------------------------------------
(* When the callers ask for one thing at a time, and not for rollback, two *)
(* compute nodes never report the VM at once: whichever tasks fail, the    *)
(* switch included that fails between hiding the source and showing the    *)
(* target and is asked for again, and whichever tickets expire.            *)
THEOREM OneVisibleSequentially ==
    ASSUME Sequential
    PROVE  Spec => []AtMostOneVisible
<1>1. SeqInv => AtMostOneVisible
  BY DEF SeqInv, VisibleAtVm, AtMostOneVisible
<1> QED BY <1>1, SequentialInv, PTL

(* Nor does VMAPI then ever say that the VM is at another server than the  *)
(* one that shows it, whether jobs are at work or have all ended: a start  *)
(* or stop job, which puts the VM at the server it was queued with, never  *)
(* outlasts the point at which a switch moves it.                          *)
THEOREM AtPrimarySequentially ==
    ASSUME Sequential
    PROVE  Spec => []VmAtPrimary
<1>1. SeqInv => VmAtPrimary
  BY DEF SeqInv, VisibleAtVm, VmAtPrimary
<1> QED BY <1>1, SequentialInv, PTL

-----------------------------------------------------------------------------
(* What both the next part and VmMigrationPrimary_proofs use.              *)
Apart(rec) == rec.target \in Servers => rec.source # rec.target
Ids == \A r \in LiveIds : records[r].id = r
SameRec(rec, old) ==
    rec.id = old.id /\ rec.source = old.source /\ rec.target = old.target

\* A job that is not of the step
Stands(i) == UNCHANGED <<mode[i], pc[i], loc[i], job[i]>>

\* What is no switch and is waited for by none is at work alone
LEMMA AloneAtWork ==
    ASSUME SeqInv, NEW j \in Active, ~Aux(j), ~Switch(j), NEW i \in Active
    PROVE  i = j
BY DEF SeqInv, Alone

-----------------------------------------------------------------------------
(* The record and the instances, when no switch fails once it has hidden   *)
(* the source.                                                             *)
HandsOver ==
    \A j \in Jobs :
        Switch(j) /\ mode[j] = "chain" /\ pc[j] \in 17 .. 22 =>
            mode'[j] # "onerror"

\* A switch at its task n or later
Past(j, n) == Switch(j) /\ mode[j] = "chain" /\ pc[j] >= n

\* The jobs that find the VM at the target, the record successful
Over(j) == job[j].action = "finalize" \/ Past(j, 18)
Done(j) == job[j].action = "finalize" \/ Past(j, 20)

Whole(rec) == rec.source \in Servers /\ Apart(rec)
Place(rec, over) == vm.server = IF over THEN rec.target ELSE rec.source

OneLive == \A r, q \in LiveIds : r = q
Stored == \A r \in LiveIds : Whole(records[r])

\* The VM is at the target of a migration that is done, or at its source
Sides ==
    \A r \in LiveIds :
        Place(records[r],
              records[r].state = "successful" \/ \E j \in Jobs : Past(j, 18))

\* What a job's copy of the record says of the stored one: begin has not
\* stored yet the target it has chosen
Agrees(j, r) ==
    LET rec == loc[j].rec
    IN  /\ r = rec.id
        /\ records[r].source = rec.source
        /\ \/ records[r].target = rec.target
           \/ /\ records[r].target = NoServer /\ job[j].action = "begin"
              /\ ~(mode[j] = "chain" /\ pc[j] >= 4)
        /\ records[r].state = "successful" <=> Done(j)

\* What its tasks have done to its copy and to the instances
TaskDone(j) ==
    LET rec == loc[j].rec
        a == job[j].action
    IN  /\ mode[j] = "request" /\ a = "begin" => rec.state = "failed"
        /\ mode[j] = "chain" =>
               /\ a = "switch" /\ pc[j] \in 11 .. 12 => rec.state = "running"
               /\ a = "switch" /\ pc[j] \in 11 .. 19 => rec.phase = "switch"
               /\ a = "sync" /\ pc[j] \in 4 .. 5 => rec.state = "running"
               /\ a = "abort" /\ pc[j] >= 3 => rec.phase = "abort"
               /\ a = "abort" /\ pc[j] = 6 => ~Exists(rec.target)
               /\ a = "finalize" /\ pc[j] = 2 => ~Exists(rec.source)

\* A job has a copy of the stored record, begin possibly of none; an abort
\* may have deleted it
Copy(j) ==
    LET rec == loc[j].rec
    IN  /\ rec.id = 0 =>
               /\ job[j].action = "begin" /\ mode[j] = "request"
               /\ LiveIds = {} /\ job[j].queue = vm.server
        /\ rec.id # 0 =>
               /\ Whole(rec) /\ Place(rec, Over(j)) /\ TaskDone(j)
               /\ \A r \in LiveIds : Agrees(j, r)
               /\ job[j].action # "abort" => rec.id \in LiveIds

Copies == \A j \in Active : ~Starter(j) => Copy(j)

\* The VM is seen, but while a switch hands it over
Crossing(j) == Past(j, 17) /\ pc[j] <= 18
Shown == Visible(vm.server) \/ \E j \in Jobs : Crossing(j)

\* What is hidden is named by the record
Veiled(s) == inst[s].exists /\ inst[s].hidden
Named ==
    \A s \in Servers : Veiled(s) =>
        \E r \in LiveIds : s \in {records[r].source, records[r].target}

HandInv == OneLive /\ Ids /\ Stored /\ Sides /\ Copies /\ Shown /\ Named

-----------------------------------------------------------------------------
(* Beside a job that has a copy of the record there are at most a switch   *)
(* and its final sync, before the switch hides anything.                   *)
LEMMA Beside ==
    ASSUME IInv, SeqInv, NEW j \in Active, ~Starter(j),
           NEW i \in Active, ~Starter(i), i # j
    PROVE  /\ Final(i) \/ Switch(i)
           /\ Switch(i) => mode[i] \in Cleaning \/ (mode[i] = "chain" /\ pc[i] = 7)
<1>1. (Aux(i) \/ Switch(i)) /\ (Aux(i) \/ Aux(j))
  BY DEF SeqInv, Alone
<1>2. Final(i) \/ Switch(i)
  BY <1>1 DEF Aux, Final
<1>3. Switch(i) => Final(j)
  BY <1>1 DEF Aux, Starter, Switch, Final
<1> QED BY <1>2, <1>3 DEF SeqInv, FinalSyncs

\* So that no other job is past the point where it does
LEMMA BesideEarly ==
    ASSUME IInv, SeqInv, NEW j \in Active, ~Starter(j), NEW i \in Jobs, i # j,
           NEW n, n \in {17, 18, 20}
    PROVE  ~Past(i, n)
<1> SUFFICES ASSUME Past(i, n) PROVE FALSE
  OBVIOUS
<1>1. i \in Active /\ Switch(i) /\ mode[i] = "chain" /\ pc[i] >= n
  BY ActiveIs DEF Past
<1>2. ~Starter(i)
  BY <1>1 DEF Starter, Switch
<1> QED BY <1>1, <1>2, Beside DEF Cleaning

\* Two copies are of the same record
LEMMA BesideSame ==
    ASSUME IInv, SeqInv, HandInv, NEW j \in Active, ~Starter(j),
           NEW i \in Active, ~Starter(i), i # j
    PROVE  /\ SameRec(loc[i].rec, loc[j].rec) /\ loc[j].rec.id # 0
           /\ job[i].action \notin {"begin", "abort", "finalize"} /\ ~Done(i)
<1>1. /\ job[i].action \in {"sync", "switch"} /\ job[j].action \in {"sync", "switch"}
  BY Beside DEF Final, Switch
<1>2. Copy(i) /\ Copy(j)
  BY DEF HandInv, Copies
<1>3. /\ loc[i].rec.id # 0 /\ loc[j].rec.id # 0
      /\ loc[i].rec.id \in LiveIds /\ loc[j].rec.id \in LiveIds
  BY <1>1, <1>2 DEF Copy
<1>4. loc[i].rec.id = loc[j].rec.id
  BY <1>3 DEF HandInv, OneLive
<1>5. PICK r \in LiveIds : Agrees(i, r) /\ Agrees(j, r)
  BY <1>2, <1>3 DEF Copy
<1>6. SameRec(loc[i].rec, loc[j].rec)
  BY <1>1, <1>4, <1>5 DEF Agrees, SameRec
<1>7. ~Done(i)
  BY <1>1, ActiveIs, BesideEarly DEF Done
<1> QED BY <1>1, <1>3, <1>6, <1>7

-----------------------------------------------------------------------------
(* Steps that leave the records and the VM's server.                       *)
LEMMA CopyKept ==
    ASSUME NEW j \in Jobs, Copy(j), UNCHANGED <<records, stored, job[j]>>,
           vm'.server = vm.server, SameRec(loc'[j].rec, loc[j].rec),
           Over(j)' <=> Over(j), Done(j)' <=> Done(j), TaskDone(j)',
           mode[j] = "request" => mode'[j] = "request" \/ loc[j].rec.id # 0,
           job[j].action = "begin" /\ mode'[j] = "chain" /\ pc'[j] >= 4 =>
               mode[j] = "chain" /\ pc[j] >= 4
    PROVE  Copy(j)'
<1>1. UNCHANGED LiveIds
  BY DEF LiveIds
<1>2. CASE loc[j].rec.id = 0
  BY <1>1, <1>2 DEF Copy, SameRec
<1>3. CASE loc[j].rec.id # 0
  <2>1. Whole(loc'[j].rec) /\ loc'[j].rec.id # 0
    BY <1>3 DEF Copy, Whole, Apart, SameRec
  <2>2. Place(loc[j].rec, Over(j))'
    BY <1>3 DEF Copy, Place, SameRec
  <2>3. ASSUME NEW r \in LiveIds' PROVE Agrees(j, r)'
    <3>1. Agrees(j, r)
      BY <1>1, <1>3, <2>3 DEF Copy
    <3> QED BY <3>1 DEF Agrees, SameRec
  <2>4. job'[j].action # "abort" => loc'[j].rec.id \in LiveIds'
    BY <1>1, <1>3 DEF Copy, SameRec
  <2> QED BY <2>1, <2>2, <2>3, <2>4 DEF Copy, Whole, Apart
<1> QED BY <1>2, <1>3

\* What a step leaves of a job
Keeps(i) ==
    /\ i \in Active' /\ ~Starter(i)' => Copy(i)'
    /\ Past(i, 18)' => Past(i, 18)
    /\ Past(i, 18) => Past(i, 18)' \/ Past(i, 20)

LEMMA CoreKeeps ==
    ASSUME IInv, HandInv, UNCHANGED <<records, stored>>,
           vm'.server = vm.server, \A i \in Jobs : Keeps(i), Shown', Named'
    PROVE  HandInv'
<1>1. UNCHANGED LiveIds
  BY DEF LiveIds
<1>2. OneLive' /\ Ids' /\ Stored'
  BY <1>1 DEF HandInv, OneLive, Ids, Stored, Whole, Apart
<1>3. Sides'
  <2>1. SUFFICES ASSUME NEW r \in LiveIds
                 PROVE  Place(records[r], records[r].state = "successful" \/
                                          \E j \in Jobs : Past(j, 18))'
    BY <1>1 DEF Sides
  <2>2. Place(records[r], records[r].state = "successful" \/
                          \E j \in Jobs : Past(j, 18))
    BY DEF HandInv, Sides
  <2>3. (\E j \in Jobs : Past(j, 18))' => \E j \in Jobs : Past(j, 18)
    BY DEF Keeps
  <2>4. ASSUME NEW j \in Jobs, Past(j, 18), records[r].state # "successful"
        PROVE  Past(j, 18)'
    <3>1. Past(j, 18)' \/ Past(j, 20)
      BY <2>4 DEF Keeps
    <3>2. CASE Past(j, 20)
      <4>1. j \in Active /\ ~Starter(j) /\ mode[j] = "chain"
        BY <3>2, ActiveIs DEF Past, Starter, Switch
      <4>2. Copy(j)
        BY <4>1 DEF HandInv, Copies
      <4>3. Agrees(j, r)
        BY <4>1, <4>2 DEF Copy
      <4> QED BY <2>4, <3>2, <4>3 DEF Agrees, Done
    <3> QED BY <3>1, <3>2
  <2> QED BY <2>2, <2>3, <2>4 DEF Place
<1>4. Copies'
  <2>1. \A i \in Active' : i \in Jobs
    BY ActiveThen
  <2> QED BY <2>1 DEF Copies, Keeps
<1> QED BY <1>2, <1>3, <1>4 DEF HandInv

\* A job that is not of the step
LEMMA StandsKeeps ==
    ASSUME HandInv, NEW i \in Jobs, Stands(i), UNCHANGED <<records, stored>>,
           vm'.server = vm.server,
           \/ \A s \in Servers : inst'[s].exists => inst[s].exists
           \/ job[i].action \notin {"abort", "finalize"}
    PROVE  Keeps(i)
<1>1. \A n : Past(i, n)' <=> Past(i, n)
  BY DEF Past, Stands, Switch
<1>2. ASSUME i \in Active', ~Starter(i)' PROVE Copy(i)'
  <2>1. i \in Active /\ ~Starter(i)
    BY <1>2, ActiveIs, ActiveThen DEF Stands, Starter
  <2>2. Copy(i)
    BY <2>1 DEF HandInv, Copies
  <2>3. CASE loc[i].rec.id = 0
    BY <2>2, <2>3 DEF Copy, Stands, LiveIds
  <2>4. CASE loc[i].rec.id # 0
    <3>1. TaskDone(i)
      BY <2>2, <2>4 DEF Copy
    <3>2. \A s : Exists(s)' => Exists(s) \/ job[i].action \notin {"abort", "finalize"}
      BY DEF Exists
    <3>3. TaskDone(i)'
      BY <3>1, <3>2 DEF TaskDone, Stands
    <3>4. (Over(i)' <=> Over(i)) /\ (Done(i)' <=> Done(i))
      BY <1>1 DEF Over, Done, Stands
    <3> QED BY <2>2, <2>4, <3>3, <3>4, CopyKept DEF Stands, SameRec
  <2> QED BY <2>3, <2>4
<1> QED BY <1>1, <1>2 DEF Keeps

\* A job that ends, but a switch that hands the VM over
LEMMA EndsKeeps ==
    ASSUME NEW i \in Jobs, mode'[i] \in Ended,
           Past(i, 18) => Past(i, 20)
    PROVE  Keeps(i)
BY ActiveThen DEF Keeps, Past, Ended

\* A job that fails, or goes on with its clean-up
LEMMA CleansKeeps ==
    ASSUME IInv, HandInv, NEW i \in Active, mode[i] # "request",
           mode'[i] \in Cleaning, UNCHANGED <<records, stored, job[i]>>,
           vm'.server = vm.server, SameRec(loc'[i].rec, loc[i].rec),
           ~Past(i, 18)
    PROVE  Keeps(i)
<1>1. ~Past(i, 18)' /\ ~Past(i, 20)' /\ i \in Jobs
  BY ActiveIs DEF Past, Cleaning
<1>2. ~Past(i, 20)
  BY <1>1 DEF Past, IInv, ControlType
<1>3. ASSUME ~Starter(i)' PROVE Copy(i)'
  <2>1. Copy(i)
    BY <1>3 DEF HandInv, Copies, Starter
  <2>2. TaskDone(i)'
    BY DEF TaskDone, Cleaning
  <2>3. (Over(i)' <=> Over(i)) /\ (Done(i)' <=> Done(i))
    BY <1>1, <1>2 DEF Over, Done
  <2> QED BY <1>1, <2>1, <2>2, <2>3, CopyKept DEF Cleaning
<1> QED BY <1>1, <1>3 DEF Keeps

\* A job that goes on
LEMMA ForwardKeeps ==
    ASSUME IInv, HandInv, NEW i \in Jobs, mode[i] = "chain", mode'[i] = "chain",
           pc'[i] = pc[i] + 1, UNCHANGED <<records, stored, job[i]>>,
           vm'.server = vm.server, SameRec(loc'[i].rec, loc[i].rec),
           Switch(i) => pc[i] \notin {17, 19},
           job[i].action = "begin" => pc[i] # 3, Starter(i) \/ TaskDone(i)'
    PROVE  Keeps(i)
<1>1. pc[i] \in Nat /\ i \in Active
  BY ActiveIs DEF IInv, ControlType
<1>2. (Past(i, 18)' <=> Past(i, 18)) /\ (Past(i, 20)' <=> Past(i, 20))
  BY <1>1 DEF Past, Switch
<1>3. ASSUME ~Starter(i)' PROVE Copy(i)'
  <2>1. Copy(i) /\ TaskDone(i)'
    BY <1>1, <1>3 DEF HandInv, Copies, Starter
  <2>2. (Over(i)' <=> Over(i)) /\ (Done(i)' <=> Done(i))
    BY <1>2 DEF Over, Done
  <2> QED BY <1>1, <2>1, <2>2, CopyKept
<1> QED BY <1>2, <1>3 DEF Keeps

-----------------------------------------------------------------------------
(* Where a task takes its job.                                             *)
LEMMA ProceedFacts ==
    ASSUME IInv, NEW j \in Jobs, mode[j] \in {"chain"} \cup Cleaning,
           NEW l, Proceed(j, l), UNCHANGED job
    PROVE  /\ \A i \in Jobs \ {j} : Stands(i)
           /\ IsLast(j) => mode'[j] \in Ended
           /\ ~IsLast(j) => /\ mode'[j] = mode[j] /\ pc'[j] = pc[j] + 1
                            /\ loc'[j] = l
<1>1. mode' = ModeAfter(j) /\ pc' = PcAfter(j) /\ loc' = LocAfter(j, l)
  BY DEF Proceed
<1>2. mode \in [Jobs -> Modes] /\ pc \in [Jobs -> Nat] /\ loc \in [Jobs -> Locals]
  BY DEF IInv, ControlType
<1>3. ASSUME NEW i \in Jobs \ {j} PROVE Stands(i)
  BY <1>1, <1>2 DEF ModeAfter, PcAfter, LocAfter, Stands
<1>4. IsLast(j) => mode'[j] = Outcome[mode[j]]
  BY <1>1, <1>2 DEF ModeAfter
<1>5. IsLast(j) => mode'[j] \in Ended
  BY <1>4 DEF Outcome, Cleaning, Ended
<1> QED BY <1>1, <1>2, <1>3, <1>5 DEF ModeAfter, PcAfter, LocAfter

LEMMA FailFacts ==
    ASSUME IInv, NEW j \in Jobs, mode[j] = "chain", NEW l, FailWith(j, l),
           UNCHANGED job, HandsOver
    PROVE  /\ \A i \in Jobs \ {j} : Stands(i)
           /\ \/ mode'[j] = "failed" /\ ~Switch(j)
              \/ mode'[j] = "onerror" /\ loc'[j] = l
           /\ ~Past(j, 17)
<1>1. mode \in [Jobs -> Modes] /\ pc \in [Jobs -> Nat] /\ loc \in [Jobs -> Locals]
  BY DEF IInv, ControlType
<1>2. ASSUME NEW i \in Jobs \ {j} PROVE Stands(i)
  BY <1>1 DEF FailWith, Stands
<1>3. \/ mode'[j] = "failed" /\ ~Switch(j)
      \/ mode'[j] = "onerror" /\ loc'[j] = l
  BY <1>1 DEF FailWith, OnError, Switch
<1>4. ASSUME Past(j, 17) PROVE FALSE
  <2>1. Switch(j) /\ mode[j] = "chain" /\ pc[j] >= 17
    BY <1>4 DEF Past
  <2>2. pc[j] \in 1 .. Len(Chain["switch"])
    BY <2>1 DEF IInv, ControlType, ControlOf, Switch
  <2>3. Chain["switch"] = SwitchChain /\ Len(SwitchChain) = 22
    BY DEF Chain, Chains, SwitchChain
  <2>4. pc[j] \in 17 .. 22
    BY <2>1, <2>2, <2>3
  <2> QED BY <1>3, <2>1, <2>4 DEF HandsOver
<1> QED BY <1>2, <1>3, <1>4

\* A switch ends with its last task
LEMMA LastPast ==
    ASSUME NEW j, IsLast(j), Past(j, 17)
    PROVE  Past(j, 20) /\ ~Crossing(j)
<1>1. Len(SwitchChain) = 22 /\ Chain["switch"] = SwitchChain
  BY DEF Chain, Chains, SwitchChain
<1>2. mode[j] = "chain" /\ job[j].action = "switch" /\ Switch(j)
  BY DEF Past, Switch
<1>3. pc[j] = 22
  BY <1>1, <1>2 DEF IsLast, Tasks
<1> QED BY <1>2, <1>3 DEF Past, Crossing

-----------------------------------------------------------------------------
(* The tasks after which more is known of the record or of an instance,    *)
(* and those on the way of a switch.                                       *)
Handing ==
    {"allocateServer", "storeInitialRecord", "provisionVm", "storeSuccess",
     "setSourceDoNotInventory", "updateVmServerUuid",
     "removeTargetDoNotInventory", "abortDeleteTargetDniVm", "deleteSourceVm"}

LEMMA HandingAre ==
    /\ BeginChain[3] \in Handing /\ SyncChain[3] \in Handing
    /\ \A n \in {10, 16, 17, 18, 19} : SwitchChain[n] \in Handing
    /\ AbortChain[2] \in Handing /\ AbortChain[5] \in Handing
    /\ Chain["finalize"][1] \in Handing
    /\ Chain["begin"] = BeginChain /\ Chain["sync"] = SyncChain
    /\ Chain["switch"] = SwitchChain /\ Chain["abort"] = AbortChain
BY DEF BeginChain, SyncChain, SwitchChain, AbortChain, Chain, Chains, Handing

LEMMA PlainAt ==
    ASSUME IInv, NEW j \in Jobs, NEW task, task \notin Handing, At(j, task)
    PROVE  /\ job[j].action = "begin" => pc[j] # 3
           /\ job[j].action = "sync" => pc[j] # 3
           /\ job[j].action = "switch" => pc[j] \notin {10, 16, 17, 18, 19}
           /\ job[j].action = "abort" => pc[j] \notin {2, 5}
           /\ job[j].action = "finalize" => pc[j] # 1
           /\ pc[j] \in Nat \ {0} /\ mode[j] = "chain"
<1>1. Chain[job[j].action][pc[j]] = task /\ mode[j] = "chain"
  BY DEF At
<1>2. pc[j] \in Nat \ {0}
  BY <1>1 DEF IInv, ControlType, ControlOf
<1> QED BY <1>1, <1>2, HandingAre

LEMMA TaskForward ==
    ASSUME IInv, NEW j \in Jobs, NEW task, task \notin Handing, At(j, task),
           TaskDone(j), mode'[j] = "chain", pc'[j] = pc[j] + 1,
           UNCHANGED job[j], loc'[j].rec = loc[j].rec,
           \A s \in Servers : inst'[s].exists => inst[s].exists
    PROVE  TaskDone(j)'
<1>1. \A s : Exists(s)' => Exists(s)
  BY DEF Exists
<1>2. mode[j] = "chain" /\ pc[j] \in Nat \ {0}
  BY PlainAt
<1>3. /\ job[j].action = "sync" => pc[j] # 3
      /\ job[j].action = "switch" => pc[j] \notin {10, 16, 17, 18, 19}
      /\ job[j].action = "abort" => pc[j] \notin {2, 5}
      /\ job[j].action = "finalize" => pc[j] # 1
  BY PlainAt
<1> QED BY <1>1, <1>2, <1>3 DEF TaskDone

\* The VM stays seen
LEMMA ShownKept ==
    ASSUME IInv, HandInv, vm'.server = vm.server,
           \A s \in Servers : Visible(s) => Visible(s)',
           \A i \in Jobs : Crossing(i) => Crossing(i)'
    PROVE  Shown'
<1>1. vm.server \in Servers
  BY DEF IInv, DataType, VmRecord
<1>2. PICK s \in Servers : s = vm.server
  BY <1>1
<1>3. Visible(vm.server) => Visible(vm.server)'
  BY <1>2 DEF Visible
<1> QED BY <1>3 DEF HandInv, Shown

LEMMA NamedKept ==
    ASSUME HandInv, UNCHANGED <<records, stored>>,
           \A s \in Servers : Veiled(s)' => Veiled(s)
    PROVE  Named'
BY DEF HandInv, Named, LiveIds

\* What a task leaves of the instances
SameSeen ==
    \A s \in Servers : UNCHANGED <<inst[s].exists, inst[s].hidden>>

LEMMA SeenKeeps ==
    ASSUME SameSeen
    PROVE  \A s \in Servers : /\ (Visible(s)' <=> Visible(s))
                              /\ (Veiled(s)' <=> Veiled(s))
                              /\ (inst'[s].exists => inst[s].exists)
BY DEF SameSeen, Visible, Veiled

LEMMA PlainHand ==
    ASSUME IInv, SeqInv, HandInv, HandsOver, NEW j \in Jobs,
           NEW task, task \notin Handing, At(j, task) \/ AtCleanup(j, task),
           NEW l, l.rec = loc[j].rec,
           Proceed(j, l) \/ (At(j, task) /\ FailWith(j, l)),
           UNCHANGED <<records, stored, job>>, vm'.server = vm.server, SameSeen
    PROVE  HandInv'
<1>1. /\ mode[j] \in {"chain"} \cup Cleaning /\ j \in Active
      /\ mode[j] = "chain" <=> At(j, task)
  BY ActiveIs DEF At, AtCleanup, Cleaning
<1>2. ~Crossing(j)
  <2>1. SUFFICES ASSUME Crossing(j) PROVE FALSE
    OBVIOUS
  <2>2. At(j, task) /\ job[j].action = "switch" /\ pc[j] \in 17 .. 18
    BY <1>1, <2>1 DEF Crossing, Past, Switch, IInv, ControlType
  <2> QED BY <2>2, PlainAt
<1>3. \A i \in Jobs \ {j} : Stands(i)
  BY <1>1, ProceedFacts, FailFacts
<1>4. \A i \in Jobs \ {j} : Keeps(i)
  BY <1>3, SeenKeeps, StandsKeeps
<1>5. Keeps(j)
  <2>1. CASE Proceed(j, l) /\ IsLast(j)
    <3>1. mode'[j] \in Ended
      BY <1>1, <2>1, ProceedFacts
    <3>2. Past(j, 18) => Past(j, 20)
      BY <2>1, LastPast DEF Past, IInv, ControlType
    <3> QED BY <3>1, <3>2, EndsKeeps
  <2>2. CASE Proceed(j, l) /\ ~IsLast(j)
    <3>1. mode'[j] = mode[j] /\ pc'[j] = pc[j] + 1 /\ loc'[j] = l
      BY <1>1, <2>2, ProceedFacts
    <3>2. SameRec(loc'[j].rec, loc[j].rec)
      BY <3>1 DEF SameRec
    <3>3. CASE mode[j] \in Cleaning
      <4>1. ~Past(j, 18) /\ mode[j] # "request"
        BY <3>3 DEF Past, Cleaning
      <4> QED BY <1>1, <3>1, <3>2, <3>3, <4>1, CleansKeeps
    <3>4. CASE mode[j] = "chain"
      <4>1. /\ job[j].action = "begin" => pc[j] # 3
            /\ Switch(j) => pc[j] \notin {17, 19}
        BY <1>1, <3>4, PlainAt DEF Switch
      <4>2. Starter(j) \/ TaskDone(j)'
        <5>1. SUFFICES ASSUME ~Starter(j) PROVE TaskDone(j)'
          OBVIOUS
        <5>2. Copy(j)
          BY <1>1, <5>1 DEF HandInv, Copies
        <5>3. TaskDone(j)
          BY <3>4, <5>2 DEF Copy
        <5> QED BY <1>1, <3>1, <3>4, <5>3, SeenKeeps, TaskForward
      <4> QED BY <3>1, <3>2, <3>4, <4>1, <4>2, ForwardKeeps
    <3> QED BY <1>1, <3>3, <3>4
  <2>3. CASE At(j, task) /\ FailWith(j, l)
    <3>1. /\ \/ mode'[j] = "failed" /\ ~Switch(j)
             \/ mode'[j] = "onerror" /\ loc'[j] = l
          /\ ~Past(j, 17)
      BY <1>1, <2>3, FailFacts
    <3>2. ~Past(j, 18)
      BY <3>1 DEF Past, IInv, ControlType
    <3>3. CASE mode'[j] = "failed"
      BY <3>2, <3>3, EndsKeeps DEF Ended
    <3>4. CASE mode'[j] = "onerror" /\ loc'[j] = l
      <4>1. SameRec(loc'[j].rec, loc[j].rec) /\ mode[j] # "request"
        BY <1>1, <2>3, <3>4 DEF SameRec
      <4> QED BY <1>1, <3>2, <3>4, <4>1, CleansKeeps DEF Cleaning
    <3> QED BY <3>1, <3>3, <3>4
  <2> QED BY <2>1, <2>2, <2>3
<1>6. \A i \in Jobs : Crossing(i) => Crossing(i)'
  BY <1>2, <1>3 DEF Crossing, Past, Stands, Switch
<1>7. Shown' /\ Named'
  BY <1>6, SeenKeeps, ShownKept, NamedKept
<1> QED BY <1>4, <1>5, <1>7, CoreKeeps

LEMMA PlainTasksHand ==
    ASSUME IInv, SeqInv, HandInv, HandsOver, NEW j \in Jobs,
           \/ AcquireVMTicket(j) \/ ReleaseVMTicket(j)
           \/ ReleaseVMTicketIgnoringErr(j) \/ UnreserveNetworkIps(j)
           \/ EnsureVmState(j) \/ EnsureSourceVmStopped(j) \/ SetupTarget(j)
           \/ EnsureTargetVmHasDni(j) \/ EnsureSourceVmHasDni(j)
           \/ EnsureTargetVmStopped(j) \/ DisallowRetry(j)
           \/ WaitForWorkflowJob(j)
    PROVE  HandInv'
<1>1. ASSUME NEW task, task \notin Handing,
             At(j, task) \/ AtCleanup(j, task),
             GoOn(j) \/ (At(j, task) /\ Fail(j)),
             UNCHANGED <<db, vm, inst, job>>
      PROVE  HandInv'
  <2>1. SameSeen
    BY <1>1 DEF SameSeen
  <2> QED BY <1>1, <2>1, PlainHand DEF GoOn, Fail, db
<1>2. ASSUME NEW task, task \notin Handing, NEW ok, Check(j, task, ok)
      PROVE  HandInv'
  BY <1>1, <1>2 DEF Check
<1>3. CASE AcquireVMTicket(j)
  BY <1>1, <1>3 DEF AcquireVMTicket, Handing
<1>4. CASE ReleaseVMTicket(j)
  BY <1>1, <1>4 DEF ReleaseVMTicket, Handing
<1>5. CASE ReleaseVMTicketIgnoringErr(j) \/ UnreserveNetworkIps(j)
  BY <1>1, <1>5 DEF ReleaseVMTicketIgnoringErr, UnreserveNetworkIps, Handing
<1>6. CASE EnsureVmState(j) \/ EnsureSourceVmStopped(j) \/ SetupTarget(j)
  BY <1>2, <1>6 DEF EnsureVmState, EnsureSourceVmStopped, SetupTarget, Handing
<1>7. CASE EnsureTargetVmHasDni(j) \/ EnsureSourceVmHasDni(j)
             \/ EnsureTargetVmStopped(j)
  BY <1>2, <1>7
  DEF EnsureTargetVmHasDni, EnsureSourceVmHasDni, EnsureTargetVmStopped,
      Handing
<1>8. CASE DisallowRetry(j)
  <2> DEFINE l == [loc[j] EXCEPT !.noRetry = TRUE]
  <2>1. l.rec = loc[j].rec
    BY LocalsRec DEF IInv, Locals
  <2>2. At(j, "disallowRetry") /\ Proceed(j, l) /\ UNCHANGED <<db, vm, inst, job>>
    BY <1>8 DEF DisallowRetry
  <2>3. SameSeen
    BY <2>2 DEF SameSeen
  <2> HIDE DEF l
  <2> QED BY <2>1, <2>2, <2>3, PlainHand DEF db, Handing
<1>9. CASE WaitForWorkflowJob(j)
  BY <1>1, <1>9 DEF WaitForWorkflowJob, Handing
<1> QED BY <1>3, <1>4, <1>5, <1>6, <1>7, <1>8, <1>9

\* The tasks that start, stop or copy to an instance
LEMMA RunTasksHand ==
    ASSUME IInv, SeqInv, HandInv, HandsOver, NEW j \in Jobs,
           StartVm(j) \/ StopVm(j) \/ Sync(j) \/ PutVm(j)
    PROVE  HandInv'
<1>1. inst \in [Servers -> Instance]
  BY DEF IInv, DataType
<1>2. ASSUME NEW task, task \notin Handing, At(j, task), GoOn(j) \/ Fail(j),
             UNCHANGED <<db, job>>, vm'.server = vm.server, SameSeen
      PROVE  HandInv'
  BY <1>2, PlainHand DEF GoOn, Fail, db
<1>3. CASE StartVm(j)
  <2>1. SameSeen
    BY <1>1, <1>3 DEF StartVm, SameSeen, Instance
  <2> QED BY <1>2, <1>3, <2>1 DEF StartVm, Handing
<1>4. CASE StopVm(j)
  <2>1. SameSeen
    BY <1>1, <1>4 DEF StopVm, SameSeen, Instance
  <2> QED BY <1>2, <1>4, <2>1 DEF StopVm, Handing
<1>5. CASE Sync(j)
  <2>1. SameSeen
    BY <1>1, <1>5 DEF Sync, SameSeen, Instance, Exists
  <2> QED BY <1>2, <1>5, <2>1 DEF Sync, Handing
<1>6. CASE PutVm(j)
  <2>1. At(j, "putVm") /\ GoOn(j) /\ UNCHANGED <<db, inst, job>>
    BY <1>6 DEF PutVm
  <2>2. j \in Active /\ Starter(j)
    BY <2>1, WhoseTaskAt, ActiveIs DEF At
  <2>3. vm'.server = vm.server
    BY <1>6, <2>2 DEF PutVm, SeqInv, StartersAtVm
  <2>4. SameSeen
    BY <2>1 DEF SameSeen
  <2> QED BY <1>2, <2>1, <2>3, <2>4 DEF Handing
<1> QED BY <1>3, <1>4, <1>5, <1>6

-----------------------------------------------------------------------------
(* Where in its chain a job is at the other tasks.                         *)
LEMMA WhereInChain ==
    \A a \in JobActions \ {"rollback"} : \A n \in 1 .. Len(Chain[a]) :
        LET task == Chain[a][n]
        IN  /\ task = "allocateServer" => a = "begin" /\ n = 1
            /\ task = "provisionVm" => a = "begin" /\ n = 6
            /\ task = "storeInitialRecord" =>
                   \/ a \in {"begin", "sync"} /\ n = 3
                   \/ a = "switch" /\ n = 10
                   \/ a = "abort" /\ n = 2
            /\ task = "storeSuccess" =>
                   \/ a \in {"begin", "sync"} /\ n = 7
                   \/ a = "switch" /\ n = 19
                   \/ a = "abort" /\ n = 6
            /\ task = "storeReservedNetworkIps" => a = "switch" /\ n = 12
            /\ task = "setRecordStateRunning" => a = "switch" /\ n = 2
            /\ task = "storeProcessDetails" => a = "sync" /\ n = 5
            /\ task = "storeRecord" => a = "pause" /\ n = 5
            /\ task = "validateSyncIsRunning" => a = "pause" /\ n = 2
            /\ task = "cancelSyncWorkflow" => a = "pause" /\ n = 3
            /\ task = "cleanup" => a \in {"sync", "pause"} /\ n \in {2, 4}
            /\ task = "getRecord" => a = "switch" /\ n = 9
            /\ task = "stopSourceVm" => a = "switch" /\ n = 4
            /\ task = "startFinalSync" => a = "switch" /\ n = 6
            /\ task = "setSourceDoNotInventory" => a = "switch" /\ n = 16
            /\ task = "updateVmServerUuid" => a = "switch" /\ n = 17
            /\ task = "removeTargetDoNotInventory" => a = "switch" /\ n = 18
            /\ task = "startTargetVm" => a = "switch" /\ n = 21
            /\ task = "abortDeleteTargetDniVm" => a = "abort" /\ n = 5
            /\ task = "deleteSourceVm" => a = "finalize" /\ n = 1
            /\ task = "removeMigrationRecord" => a = "finalize" /\ n = 2
            /\ task \notin {"setTargetDoNotInventory",
                            "rollbackDeleteTargetDniVm"}
<1>1. TAKE a \in JobActions \ {"rollback"}
<1>2. CASE a = "begin"
  BY <1>2 DEF Chain, Chains, BeginChain
<1>3. CASE a = "sync"
  BY <1>3 DEF Chain, Chains, SyncChain
<1>4. CASE a = "pause"
  BY <1>4 DEF Chain, Chains, PauseChain
<1>5. CASE a = "switch"
  BY <1>5 DEF Chain, Chains, SwitchChain
<1>6. CASE a = "abort"
  BY <1>6 DEF Chain, Chains, AbortChain
<1>7. CASE a = "finalize"
  BY <1>7 DEF Chain, Chains
<1>8. CASE a = "start"
  BY <1>8 DEF Chain, Chains, StartChain
<1>9. CASE a = "stop"
  BY <1>9 DEF Chain, Chains, StopChain
<1> QED BY <1>2, <1>3, <1>4, <1>5, <1>6, <1>7, <1>8, <1>9, JobActionsAre

LEMMA AtWhere ==
    ASSUME IInv, SeqInv, NEW j \in Jobs, NEW task, At(j, task)
    PROVE  /\ mode[j] = "chain" /\ j \in Active
           /\ job[j].action \in JobActions \ {"rollback"}
           /\ pc[j] \in 1 .. Len(Chain[job[j].action])
           /\ task = Chain[job[j].action][pc[j]]
BY ActiveIs DEF At, IInv, ControlType, ControlOf, JobParams, SeqInv, NoRollback

\* Which jobs clean up how
LEMMA CleaningTasks ==
    \A a \in JobActions : \A n \in 1 .. Len(OnError[a]) :
        /\ OnError[a][n] = "storeFailure" =>
               a \notin {"start", "stop", "finalize"}
        /\ OnError[a][n] = "cleanup" => a \in {"sync", "pause"}
<1>1. TAKE a \in JobActions
<1>2. CASE a = "begin"
  BY <1>2 DEF OnError
<1>3. CASE a \in {"sync", "pause"}
  <2>1. OnError[a] = <<"cleanup", "storeFailure", "releaseVMTicketIgnoringErr">>
    BY <1>3 DEF OnError
  <2> QED BY <1>3, <2>1
<1>4. CASE a = "switch"
  BY <1>4 DEF OnError
<1>5. CASE a \in {"abort", "rollback"}
  <2>1. OnError[a] = <<"storeFailure", "unreserveNetworkIps",
                       "releaseVMTicketIgnoringErr">>
    BY <1>5 DEF OnError
  <2> QED BY <1>5, <2>1
<1>6. CASE a = "finalize"
  BY <1>6 DEF OnError
<1>7. CASE a \in {"start", "stop"}
  <2>1. OnError[a] = <<"releaseVMTicketIgnoringErr">>
    BY <1>7 DEF OnError
  <2> QED BY <1>7, <2>1
<1> QED BY <1>2, <1>3, <1>4, <1>5, <1>6, <1>7, JobActionsAre

LEMMA WhoseCleaning ==
    ASSUME IInv, SeqInv, NEW j \in Jobs, NEW task, AtCleanup(j, task)
    PROVE  /\ mode[j] \in Cleaning /\ j \in Active
           /\ task = "storeFailure" =>
                  ~Starter(j) /\ job[j].action # "finalize"
           /\ task = "cleanup" => job[j].action \in {"sync", "pause"}
           /\ task = "startSourceVm" => Switch(j)
<1>1. /\ mode[j] \in Cleaning /\ j \in Active
      /\ OnError[job[j].action][pc[j]] = task
      /\ pc[j] \in 1 .. Len(OnError[job[j].action])
      /\ job[j].action \in JobActions
  BY ActiveIs
  DEF AtCleanup, Cleaning, IInv, ControlType, ControlOf, JobParams
<1> QED BY <1>1, CleaningTasks, WhoseCleanup DEF Starter, Switch

-----------------------------------------------------------------------------
(* The tasks that store the record.                                        *)
LEMMA StoreHand ==
    ASSUME IInv, SeqInv, HandInv, NEW j \in Active, ~Starter(j),
           job[j].action # "finalize", mode[j] \in {"chain"} \cup Cleaning,
           ~Past(j, 17), NEW rec, SameRec(rec, loc[j].rec),
           rec.state # "successful", Store(rec), NEW l, l.rec = rec,
           Proceed(j, l), UNCHANGED <<vm, inst, job>>,
           mode[j] = "chain" /\ ~IsLast(j) => TaskDone(j)'
    PROVE  HandInv'
<1>1. j \in Jobs /\ mode[j] # "request"
  BY ActiveIs DEF Cleaning
<1>2. Copy(j) /\ loc[j].rec.id # 0
  BY <1>1 DEF HandInv, Copies, Copy
<1>3. rec.id \in RecordIds
  <2>1. loc[j].rec.id \in 0 .. MaxRecords
    BY <1>1, LocalsRec DEF IInv, Record
  <2> QED BY <1>2, <2>1, ConstantsAssumption DEF SameRec, RecordIds
<1>4. /\ records' = [records EXCEPT ![rec.id] = rec]
      /\ stored' = [stored EXCEPT ![rec.id] = "live"]
  BY DEF Store
<1>5. \A r \in LiveIds : r = rec.id
  BY <1>2 DEF Copy, Agrees, SameRec
<1>6. /\ rec.id \in LiveIds'
      /\ \A r \in LiveIds' : r = rec.id /\ records'[r] = rec
  <2>1. records \in [RecordIds -> Record] /\ DOMAIN stored = RecordIds
    BY DEF IInv, DataType
  <2> QED BY <1>3, <1>4, <1>5, <2>1 DEF LiveIds
<1>7. ~Past(j, 18) /\ ~Past(j, 20) /\ pc[j] \in Nat
  BY <1>1 DEF Past, IInv, ControlType
<1>8. Whole(rec) /\ vm.server = rec.source
  BY <1>2, <1>7 DEF Copy, Whole, Apart, SameRec, Place, Over
<1>9. /\ \A i \in Jobs \ {j} : Stands(i)
      /\ IsLast(j) => mode'[j] \in Ended
      /\ ~IsLast(j) => /\ mode'[j] = mode[j] /\ pc'[j] = pc[j] + 1
                       /\ loc'[j] = l
  BY <1>1, ProceedFacts
<1>10. ASSUME NEW i \in Jobs, NEW n, n \in {17, 18, 20} PROVE ~Past(i, n)
  BY <1>7, <1>10, BesideEarly
<1>11. ASSUME NEW i \in Jobs, NEW n, n \in {18, 20} PROVE ~Past(i, n)'
  <2>1. CASE i # j
    BY <1>9, <1>10, <1>11, <2>1 DEF Past, Stands, Switch
  <2>2. CASE i = j
    BY <1>7, <1>9, <1>11, <2>2 DEF Past, Switch, Ended
  <2> QED BY <2>1, <2>2
<1>12. OneLive' /\ Ids' /\ Stored'
  BY <1>6, <1>8 DEF OneLive, Ids, Stored, Whole, Apart
<1>13. Sides'
  BY <1>6, <1>8, <1>11 DEF Sides, Place
<1>14. ASSUME NEW i \in Active', ~Starter(i)' PROVE Copy(i)'
  <2>1. i \in Jobs /\ ~Starter(i) /\ UNCHANGED job[i]
    BY <1>14, ActiveThen DEF Starter
  <2>2. CASE i = j
    <3>1. ~IsLast(j)
      BY <1>9, <1>14, <2>2, ActiveThen DEF Ended
    <3>2. loc'[j].rec = rec /\ mode'[j] = mode[j]
      BY <1>9, <3>1
    <3>3. TaskDone(j)'
      BY <1>1, <3>1, <3>2 DEF TaskDone, Cleaning
    <3>4. ~Over(j)' /\ ~Done(j)'
      BY <1>1, <1>11 DEF Over, Done
    <3>5. Place(loc[j].rec, Over(j))'
      BY <1>8, <3>2, <3>4 DEF Place
    <3>6. \A r \in LiveIds' : Agrees(j, r)'
      BY <1>6, <3>2, <3>4 DEF Agrees
    <3>7. rec.id # 0
      BY <1>2 DEF SameRec
    <3> QED BY <1>6, <1>8, <2>2, <3>2, <3>3, <3>5, <3>6, <3>7
            DEF Copy, Whole, Apart
  <2>3. CASE i # j
    <3>1. Stands(i) /\ i \in Active
      BY <1>9, <2>1, <2>3, <1>14, ActiveIs, ActiveThen DEF Stands
    <3>2. /\ SameRec(loc[i].rec, loc[j].rec)
          /\ job[i].action \notin {"begin", "abort", "finalize"}
      BY <2>1, <2>3, <3>1, BesideSame
    <3>3. Copy(i)
      BY <2>1, <3>1 DEF HandInv, Copies
    <3>4. loc'[i].rec = loc[i].rec /\ loc[i].rec.id # 0
      BY <1>2, <3>1, <3>2 DEF Stands, SameRec
    <3>5. TaskDone(i)'
      BY <3>1, <3>2, <3>3, <3>4 DEF Copy, TaskDone, Stands, Exists
    <3>6. ~Over(i)' /\ ~Done(i)'
      BY <1>11, <2>1, <3>2 DEF Over, Done
    <3>7. Place(loc[i].rec, Over(i))' /\ Whole(loc[i].rec)'
      BY <1>8, <3>2, <3>4, <3>6 DEF Place, SameRec, Whole, Apart
    <3>8. \A r \in LiveIds' : Agrees(i, r)'
      BY <1>6, <3>2, <3>4, <3>6 DEF Agrees, SameRec
    <3>9. loc'[i].rec.id \in LiveIds'
      BY <1>6, <3>2, <3>4 DEF SameRec
    <3> QED BY <3>4, <3>5, <3>7, <3>8, <3>9 DEF Copy, Whole, Apart
  <2> QED BY <2>2, <2>3
<1>15. Shown'
  BY <1>10 DEF HandInv, Shown, Crossing, Visible
<1>16. Named'
  <2>1. SUFFICES ASSUME NEW s \in Servers, Veiled(s)
                 PROVE  s \in {rec.source, rec.target}
    BY <1>6 DEF Named, Veiled
  <2>2. PICK r \in LiveIds : s \in {records[r].source, records[r].target}
    BY <2>1 DEF HandInv, Named
  <2>3. Agrees(j, r)
    BY <1>2 DEF Copy
  <2> QED BY <2>2, <2>3, ConstantsAssumption DEF Agrees, SameRec
<1> QED BY <1>12, <1>13, <1>14, <1>15, <1>16 DEF HandInv, Copies

LEMMA SameRecOf ==
    ASSUME NEW rec \in Record
    PROVE  /\ \A a, k : SameRec(Started(rec, a, k), rec)
           /\ \A a, n, sub : SameRec(Succeeded(rec, a, n, sub), rec)
           /\ \A n : SameRec(Paused(rec, n), rec)
           /\ \A a, n, r, k : SameRec(Failed(rec, a, n, r, k), rec)
           /\ SameRec([rec EXCEPT !.state = "running"], rec)
           /\ \A k : SameRec([rec EXCEPT !.proc = k], rec)
           /\ SameRec(rec, rec)
BY DEF Record, SameRec, Started, Succeeded, Paused, Failed

LEMMA StateOf ==
    ASSUME NEW rec \in Record
    PROVE  /\ \A a, k : /\ Started(rec, a, k).state = "running"
                        /\ Started(rec, a, k).phase = a
           /\ \A n, sub : \A a \in {"begin", "sync"} :
                  Succeeded(rec, a, n, sub).state \in {"running", "paused"}
           /\ \A n, sub : \A a \in {"switch", "abort"} :
                  /\ Succeeded(rec, a, n, sub).state = "successful"
                  /\ Succeeded(rec, a, n, sub).phase = rec.phase
           /\ \A n : Paused(rec, n).state = "paused"
           /\ \A a, n, r, k : Failed(rec, a, n, r, k).state = "failed"
           /\ [rec EXCEPT !.state = "running"].state = "running"
           /\ \A k : [rec EXCEPT !.proc = k].state = rec.state
BY DEF Record, Started, Succeeded, Paused, Failed

\* A task that fails, whatever it has changed in the job's copy
LEMMA FailHand ==
    ASSUME IInv, SeqInv, HandInv, HandsOver, NEW j \in Jobs, mode[j] = "chain",
           NEW l, SameRec(l.rec, loc[j].rec), FailWith(j, l),
           UNCHANGED <<records, stored, vm, inst, job>>
    PROVE  HandInv'
<1>1. j \in Active /\ SameSeen
  BY ActiveIs DEF SameSeen
<1>2. /\ \A i \in Jobs \ {j} : Stands(i)
      /\ \/ mode'[j] = "failed"
         \/ mode'[j] = "onerror" /\ loc'[j] = l
      /\ ~Past(j, 17)
  BY FailFacts
<1>3. \A i \in Jobs \ {j} : Keeps(i)
  BY <1>1, <1>2, SeenKeeps, StandsKeeps
<1>4. ~Past(j, 18) /\ ~Crossing(j)
  BY <1>2 DEF Past, Crossing, IInv, ControlType
<1>5. Keeps(j)
  BY <1>1, <1>2, <1>4, EndsKeeps, CleansKeeps DEF Ended, Cleaning
<1>6. \A i \in Jobs : Crossing(i) => Crossing(i)'
  BY <1>2, <1>4 DEF Crossing, Past, Stands, Switch
<1>7. Shown' /\ Named'
  BY <1>1, <1>6, SeenKeeps, ShownKept, NamedKept
<1> QED BY <1>3, <1>5, <1>7, CoreKeeps

LEMMA StoreTaskHand ==
    ASSUME IInv, SeqInv, HandInv, HandsOver, NEW j \in Jobs, NEW task,
           At(j, task), ~Starter(j), job[j].action # "finalize", ~Past(j, 17),
           NEW rec, SameRec(rec, loc[j].rec), rec.state # "successful",
           NEW l \in Locals, StoreTask(j, rec, l),
           /\ mode'[j] = "chain" /\ pc'[j] = pc[j] + 1 /\ loc'[j].rec = rec
           => TaskDone(j)'
    PROVE  HandInv'
<1> DEFINE m == [l EXCEPT !.rec = rec]
<1>1. m.rec = rec
  BY DEF Locals
<1>2. /\ \/ Store(rec) /\ Proceed(j, m)
         \/ FailWith(j, m) /\ UNCHANGED db
      /\ UNCHANGED <<vm, inst, job>>
  BY DEF StoreTask
<1> HIDE DEF m
<1>3. mode[j] = "chain" /\ j \in Active
  BY ActiveIs DEF At
<1>4. CASE FailWith(j, m) /\ UNCHANGED db
  BY <1>1, <1>2, <1>3, <1>4, FailHand DEF db
<1>5. CASE Store(rec) /\ Proceed(j, m)
  <2>1. ~IsLast(j) => TaskDone(j)'
    BY <1>1, <1>2, <1>3, <1>5, ProceedFacts
  <2> QED BY <1>1, <1>2, <1>3, <1>5, <2>1, StoreHand
<1> QED BY <1>2, <1>4, <1>5

LEMMA StoreTasksHand ==
    ASSUME IInv, SeqInv, HandInv, HandsOver, NEW j \in Jobs,
           \/ StoreInitialRecord(j) \/ SetRecordStateRunning(j)
           \/ StoreReservedNetworkIps(j) \/ StoreRecord(j)
           \/ StoreFailure(j) \/ StoreProcessDetails(j)
           \/ StoreSuccess(j) /\ job[j].action \in {"begin", "sync"}
    PROVE  HandInv'
<1>1. loc[j] \in Locals /\ loc[j].rec \in Record /\ pc[j] \in Nat
  BY LocalsRec DEF IInv, ControlType
<1>2. CASE StoreInitialRecord(j)
  <2> DEFINE rec == Started(loc[j].rec, job[j].action, j)
             l == [loc[j] EXCEPT !.idx = Len(rec.history)]
  <2>1. At(j, "storeInitialRecord") /\ StoreTask(j, rec, l)
    BY <1>2 DEF StoreInitialRecord
  <2>2. \/ job[j].action \in {"begin", "sync"} /\ pc[j] = 3
        \/ job[j].action = "switch" /\ pc[j] = 10
        \/ job[j].action = "abort" /\ pc[j] = 2
    BY <2>1, AtWhere, WhereInChain
  <2>3. SameRec(rec, loc[j].rec)
    BY <1>1, SameRecOf
  <2>4. rec.state = "running" /\ rec.phase = job[j].action
    BY <1>1, StateOf
  <2>5. l \in Locals
    <3>1. job[j].action \in Phases
      BY <2>2 DEF Phases
    <3>2. rec.history \in Seq(ProgressEntry)
      BY <1>1, <3>1, StartedType DEF Record
    <3> QED BY <1>1, <3>2, LenProperties DEF Locals
  <2> HIDE DEF rec, l
  <2>6. ~Starter(j) /\ job[j].action # "finalize" /\ ~Past(j, 17)
    BY <2>2 DEF Starter, Past
  <2>7. ASSUME mode'[j] = "chain", pc'[j] = pc[j] + 1, loc'[j].rec = rec
        PROVE  TaskDone(j)'
    <3>1. UNCHANGED job
      BY <2>1 DEF StoreTask
    <3>2. loc'[j].rec.state = "running" /\ loc'[j].rec.phase = job[j].action
      BY <2>4, <2>7
    <3> QED BY <1>1, <2>2, <2>7, <3>1, <3>2 DEF TaskDone
  <2> QED BY <2>1, <2>3, <2>4, <2>5, <2>6, <2>7, StoreTaskHand
<1>3. CASE SetRecordStateRunning(j)
  <2> DEFINE rec == [loc[j].rec EXCEPT !.state = "running"]
             l == [loc[j] EXCEPT !.idx = 0]
  <2>1. At(j, "setRecordStateRunning") /\ StoreTask(j, rec, l)
    BY <1>3 DEF SetRecordStateRunning
  <2>2. job[j].action = "switch" /\ pc[j] = 2
    BY <2>1, AtWhere, WhereInChain
  <2>3. SameRec(rec, loc[j].rec) /\ rec.state = "running" /\ l \in Locals
    BY <1>1, SameRecOf, StateOf DEF Locals
  <2> HIDE DEF rec, l
  <2>4. ~Starter(j) /\ job[j].action # "finalize" /\ ~Past(j, 17)
    BY <2>2 DEF Starter, Past
  <2>5. ASSUME pc'[j] = pc[j] + 1, mode'[j] = "chain" PROVE TaskDone(j)'
    <3>1. UNCHANGED job
      BY <2>1 DEF StoreTask
    <3> QED BY <2>2, <2>5, <3>1 DEF TaskDone
  <2> QED BY <2>1, <2>3, <2>4, <2>5, StoreTaskHand
<1>4. CASE StoreReservedNetworkIps(j)
  <2> DEFINE rec == loc[j].rec
             l == loc[j]
  <2>1. At(j, "storeReservedNetworkIps") /\ StoreTask(j, rec, l)
    BY <1>4 DEF StoreReservedNetworkIps
  <2>2. job[j].action = "switch" /\ pc[j] = 12 /\ j \in Active /\ mode[j] = "chain"
    BY <2>1, AtWhere, WhereInChain
  <2>3. ~Starter(j) /\ job[j].action # "finalize" /\ ~Past(j, 17)
    BY <2>2 DEF Starter, Past
  <2>4. TaskDone(j)
    BY <2>2, <2>3 DEF HandInv, Copies, Copy
  <2>5. rec.state = "running" /\ rec.phase = "switch"
    BY <2>2, <2>4 DEF TaskDone
  <2>7. SameRec(rec, loc[j].rec) /\ l \in Locals
    BY <1>1, SameRecOf
  <2> HIDE DEF rec, l
  <2>6. ASSUME pc'[j] = pc[j] + 1, mode'[j] = "chain", loc'[j].rec = rec
        PROVE  TaskDone(j)'
    <3>1. UNCHANGED job
      BY <2>1 DEF StoreTask
    <3> QED BY <2>2, <2>5, <2>6, <3>1 DEF TaskDone
  <2> QED BY <2>1, <2>3, <2>5, <2>6, <2>7, StoreTaskHand
<1>5. CASE StoreRecord(j)
  <2> DEFINE rec == Paused(loc[j].rec, loc[j].idx)
             l == loc[j]
  <2>1. At(j, "storeRecord") /\ StoreTask(j, rec, l)
    BY <1>5 DEF StoreRecord
  <2>2. job[j].action = "pause" /\ pc[j] = 5
    BY <2>1, AtWhere, WhereInChain
  <2>a. SameRec(rec, loc[j].rec)
    BY <1>1, SameRecOf
  <2>3. SameRec(rec, loc[j].rec) /\ rec.state = "paused" /\ l \in Locals
    BY <1>1, <2>a, StateOf
  <2> HIDE DEF rec, l
  <2>4. ~Starter(j) /\ job[j].action # "finalize" /\ ~Past(j, 17)
    BY <2>2 DEF Starter, Past, Switch
  <2>5. ASSUME pc'[j] = pc[j] + 1, mode'[j] = "chain" PROVE TaskDone(j)'
    <3>1. UNCHANGED job
      BY <2>1 DEF StoreTask
    <3> QED BY <2>2, <2>5, <3>1 DEF TaskDone
  <2> QED BY <1>1, <2>1, <2>3, <2>4, <2>5, StoreTaskHand
<1>6. CASE StoreFailure(j)
  <2> DEFINE rec == Failed(loc[j].rec, job[j].action, loc[j].idx,
                           loc[j].noRetry, j)
             l == [loc[j] EXCEPT !.rec = rec]
  <2>1. /\ AtCleanup(j, "storeFailure") /\ Proceed(j, l)
        /\ UNCHANGED <<vm, inst, job>>
        /\ Store(rec) \/ UNCHANGED db
    BY <1>6 DEF StoreFailure
  <2>a. SameRec(rec, loc[j].rec)
    BY <1>1, SameRecOf
  <2>b. rec.state = "failed"
    BY <1>1, StateOf
  <2>2. l.rec = rec /\ SameRec(rec, loc[j].rec) /\ rec.state = "failed"
    BY <1>1, <2>a, <2>b DEF Locals
  <2> HIDE DEF rec, l
  <2>3. /\ mode[j] \in Cleaning /\ j \in Active
        /\ ~Starter(j) /\ job[j].action # "finalize"
    BY <2>1, WhoseCleaning
  <2>4. mode[j] # "chain" /\ mode[j] # "request" /\ \A n : ~Past(j, n)
    BY <2>3 DEF Cleaning, Past
  <2>5. CASE Store(rec)
    BY <2>1, <2>2, <2>3, <2>4, <2>5, StoreHand
  <2>6. CASE UNCHANGED db
    <3>1. SameSeen
      BY <2>1 DEF SameSeen
    <3>2. \A i \in Jobs \ {j} : Stands(i)
      BY <2>1, <2>3, ProceedFacts
    <3>3. \A i \in Jobs \ {j} : Keeps(i)
      BY <2>1, <2>6, <3>1, <3>2, SeenKeeps, StandsKeeps DEF db
    <3>4. Keeps(j)
      <4>1. CASE IsLast(j)
        BY <2>1, <2>3, <2>4, <4>1, ProceedFacts, EndsKeeps
      <4>2. CASE ~IsLast(j)
        <5>1. mode'[j] = mode[j] /\ loc'[j] = l
          BY <2>1, <2>3, <4>2, ProceedFacts
        <5>2. mode'[j] \in Cleaning /\ SameRec(loc'[j].rec, loc[j].rec)
          BY <2>2, <2>3, <5>1
        <5> QED BY <2>1, <2>3, <2>4, <2>6, <5>2, CleansKeeps DEF db
      <4> QED BY <4>1, <4>2
    <3>5. \A i \in Jobs : Crossing(i) => Crossing(i)'
      BY <2>4, <3>2 DEF Crossing, Past, Stands, Switch
    <3>6. Shown' /\ Named'
      BY <2>1, <2>6, <3>1, <3>5, SeenKeeps, ShownKept, NamedKept DEF db
    <3> QED BY <2>1, <2>6, <3>3, <3>4, <3>6, CoreKeeps DEF db
  <2> QED BY <2>1, <2>5, <2>6
<1>7. CASE StoreProcessDetails(j)
  <2> DEFINE rec == [loc[j].rec EXCEPT !.proc = j]
             l == loc[j]
  <2>1. At(j, "storeProcessDetails")
    BY <1>7 DEF StoreProcessDetails
  <2>2. /\ job[j].action = "sync" /\ pc[j] = 5 /\ j \in Active
        /\ mode[j] = "chain"
    BY <2>1, AtWhere, WhereInChain
  <2>3. ~Starter(j) /\ job[j].action # "finalize" /\ ~Past(j, 17)
    BY <2>2 DEF Starter, Past, Switch
  <2>a. SameRec(rec, loc[j].rec)
    BY <1>1, SameRecOf
  <2>4. SameRec(rec, loc[j].rec) /\ rec.state = loc[j].rec.state /\ l \in Locals
    BY <1>1, <2>a, StateOf
  <2> HIDE DEF rec, l
  <2>5. CASE StoreTask(j, rec, l)
    <3>1. TaskDone(j)
      BY <2>2, <2>3 DEF HandInv, Copies, Copy
    <3>2. rec.state = "running"
      BY <2>2, <2>4, <3>1 DEF TaskDone
    <3>3. ASSUME pc'[j] = pc[j] + 1, mode'[j] = "chain" PROVE TaskDone(j)'
      <4>1. UNCHANGED job
        BY <2>5 DEF StoreTask
      <4> QED BY <2>2, <3>3, <4>1 DEF TaskDone
    <3> QED BY <1>1, <2>1, <2>3, <2>4, <2>5, <3>2, <3>3, StoreTaskHand
  <2>6. CASE Fail(j) /\ UNCHANGED <<db, vm, inst, ticket, job, used>>
    BY <2>2, <2>6, FailHand DEF Fail, SameRec, db
  <2> QED BY <1>7, <2>5, <2>6 DEF StoreProcessDetails, rec, l
<1>8. CASE StoreSuccess(j) /\ job[j].action \in {"begin", "sync"}
  <2> DEFINE rec == Succeeded(loc[j].rec, job[j].action, loc[j].idx,
                              job[j].subtask)
  <2>1. At(j, "storeSuccess") /\ StoreTask(j, rec, loc[j])
    BY <1>8 DEF StoreSuccess
  <2>2. job[j].action \in {"begin", "sync"} /\ pc[j] = 7
    BY <1>8, <2>1, AtWhere, WhereInChain
  <2>3. SameRec(rec, loc[j].rec) /\ rec.state \in {"running", "paused"}
    BY <1>1, <1>8, SameRecOf, StateOf
  <2> HIDE DEF rec
  <2>4. ~Starter(j) /\ job[j].action # "finalize" /\ ~Past(j, 17)
    BY <2>2 DEF Starter, Past, Switch
  <2>5. ASSUME pc'[j] = pc[j] + 1, mode'[j] = "chain" PROVE TaskDone(j)'
    <3>1. UNCHANGED job
      BY <2>1 DEF StoreTask
    <3> QED BY <2>2, <2>5, <3>1 DEF TaskDone
  <2> QED BY <1>1, <2>1, <2>3, <2>4, <2>5, StoreTaskHand
<1> QED BY <1>2, <1>3, <1>4, <1>5, <1>6, <1>7, <1>8


-----------------------------------------------------------------------------
(* The tasks that make, hide, show or remove an instance.                  *)
LEMMA RestsKeeps ==
    ASSUME NEW i \in Jobs, i \notin Active, Stands(i)
    PROVE  Keeps(i)
BY ActiveIs, ActiveThen DEF Keeps, Past, Stands

\* A task that works, of a job alone or that makes no instance
LEMMA MovesHand ==
    ASSUME IInv, HandInv, NEW j \in Jobs, mode[j] = "chain", ~Starter(j),
           NEW l, SameRec(l.rec, loc[j].rec), Proceed(j, l),
           UNCHANGED <<records, stored, job>>, vm'.server = vm.server,
           Switch(j) => pc[j] \notin {17, 19},
           job[j].action = "begin" => pc[j] # 3,
           \/ \A i \in Active : i = j
           \/ \A s \in Servers : inst'[s].exists => inst[s].exists,
           mode'[j] = "chain" /\ pc'[j] = pc[j] + 1 /\ loc'[j] = l =>
               TaskDone(j)',
           Shown', Named'
    PROVE  HandInv'
<1>1. /\ \A i \in Jobs \ {j} : Stands(i)
      /\ IsLast(j) => mode'[j] \in Ended
      /\ ~IsLast(j) => /\ mode'[j] = mode[j] /\ pc'[j] = pc[j] + 1
                       /\ loc'[j] = l
  BY ProceedFacts
<1>2. \A i \in Jobs \ {j} : Keeps(i)
  BY <1>1, StandsKeeps, RestsKeeps
<1>3. CASE IsLast(j)
  <2>1. Past(j, 18) => Past(j, 20)
    BY <1>3, LastPast DEF Past, IInv, ControlType
  <2> QED BY <1>1, <1>2, <1>3, <2>1, EndsKeeps, CoreKeeps
<1>4. CASE ~IsLast(j)
  BY <1>1, <1>2, <1>4, ForwardKeeps, CoreKeeps
<1> QED BY <1>3, <1>4

\* No switch hands the VM over beside a job that is at another task
LEMMA NoCrossing ==
    ASSUME IInv, SeqInv, NEW j \in Active, ~Starter(j), ~Crossing(j)
    PROVE  \A i \in Jobs : ~Crossing(i)
BY BesideEarly DEF Crossing

\* What a job of a migration that has been queued knows
LEMMA CopyAt ==
    ASSUME IInv, SeqInv, HandInv, NEW j \in Jobs, mode[j] = "chain", ~Starter(j)
    PROVE  LET rec == loc[j].rec
           IN  /\ j \in Active /\ rec.id # 0 /\ Whole(rec)
               /\ Place(rec, Over(j)) /\ TaskDone(j)
               /\ \A r \in LiveIds : Agrees(j, r)
               /\ job[j].action # "abort" => rec.id \in LiveIds
               /\ SameRec(rec, rec)
<1>1. j \in Active
  BY ActiveIs
<1>2. Copy(j)
  BY <1>1 DEF HandInv, Copies
<1> QED BY <1>1, <1>2 DEF Copy, SameRec

LEMMA ProvisionHand ==
    ASSUME IInv, SeqInv, HandInv, HandsOver, NEW j \in Jobs, ProvisionVm(j)
    PROVE  HandInv'
<1> DEFINE rec == loc[j].rec
<1>1. At(j, "provisionVm") /\ UNCHANGED <<db, vm, job>>
  BY DEF ProvisionVm
<1>2. job[j].action = "begin" /\ pc[j] = 6 /\ mode[j] = "chain"
  BY <1>1, AtWhere, WhereInChain
<1>3. ~Starter(j) /\ ~Aux(j) /\ ~Switch(j) /\ ~Crossing(j)
  BY <1>2 DEF Starter, Aux, Switch, Crossing, Past
<1>4. /\ j \in Active /\ rec.id \in LiveIds /\ Agrees(j, rec.id)
      /\ SameRec(rec, rec)
  BY <1>2, <1>3, CopyAt
<1>5. CASE Fail(j) /\ UNCHANGED inst
  BY <1>1, <1>2, <1>4, <1>5, FailHand DEF Fail, db
<1>6. CASE /\ ~Exists(rec.target) /\ GoOn(j)
           /\ inst' = [inst EXCEPT ![rec.target] =
                          [exists |-> TRUE, hidden |-> TRUE,
                           running |-> FALSE, current |-> FALSE]]
  <2>1. inst \in [Servers -> Instance]
    BY DEF IInv, DataType
  <2>2. \A s \in Servers : /\ Visible(s) => Visible(s)'
                           /\ Veiled(s)' => Veiled(s) \/ s = rec.target
    BY <1>6, <2>1 DEF Exists, Visible, Veiled
  <2>3. Shown'
    BY <1>1, <1>3, <1>4, <2>2, NoCrossing, ShownKept
  <2>4. Named'
    <3>1. records[rec.id].target = rec.target
      BY <1>2, <1>4 DEF Agrees
    <3>2. SUFFICES ASSUME NEW s \in Servers, Veiled(s)'
                   PROVE  \E r \in LiveIds :
                              s \in {records[r].source, records[r].target}
      BY <1>1 DEF Named, db, LiveIds
    <3>3. CASE Veiled(s)
      BY <3>3 DEF HandInv, Named
    <3>4. CASE s = rec.target
      BY <1>4, <3>1, <3>4
    <3> QED BY <2>2, <3>2, <3>3, <3>4
  <2>5. \A i \in Active : i = j
    BY <1>3, <1>4, AloneAtWork
  <2>6. mode'[j] = "chain" /\ pc'[j] = pc[j] + 1 => TaskDone(j)'
    BY <1>1, <1>2 DEF TaskDone
  <2> HIDE DEF rec
  <2>7. SameRec(loc[j].rec, loc[j].rec) /\ vm'.server = vm.server
    BY <1>1, <1>4 DEF rec
  <2> QED BY <1>1, <1>2, <1>3, <1>6, <2>3, <2>4, <2>5, <2>6, <2>7, MovesHand
          DEF GoOn, db
<1> QED BY <1>5, <1>6 DEF ProvisionVm

\* An instance that is removed is not the one the VM's record names
LEMMA RemoveHand ==
    ASSUME IInv, SeqInv, HandInv, HandsOver, NEW j \in Jobs, NEW s,
           NEW task, At(j, task), ~Starter(j), ~Aux(j), ~Switch(j),
           job[j].action # "begin", vm.server # s,
           inst' = [inst EXCEPT ![s] = Gone], GoOn(j),
           UNCHANGED <<records, stored, vm, job>>,
           ~Exists(s)' /\ pc'[j] = pc[j] + 1 /\ loc'[j] = loc[j] => TaskDone(j)'
    PROVE  HandInv'
<1>1. mode[j] = "chain" /\ j \in Active /\ ~Crossing(j)
  BY ActiveIs DEF At, Crossing, Past
<1>2. inst \in [Servers -> Instance] /\ vm.server \in Servers
  BY DEF IInv, DataType, VmRecord
<1>3. \A t \in Servers : /\ inst'[t].exists => inst[t].exists
                         /\ Veiled(t)' => Veiled(t)
                         /\ t # s => inst'[t] = inst[t]
  BY <1>2 DEF Gone, Veiled
<1>4. Shown'
  <2>1. Visible(vm.server)
    BY <1>1, NoCrossing DEF HandInv, Shown
  <2>2. vm'.server = vm.server /\ inst'[vm.server] = inst[vm.server]
    BY <1>2, <1>3
  <2> QED BY <2>1, <2>2 DEF Shown, Visible
<1>5. Named'
  BY <1>3, NamedKept
<1>6. ~Exists(s)'
  BY <1>2 DEF Exists, Gone
<1>7. SameRec(loc[j].rec, loc[j].rec)
  BY DEF SameRec
<1> QED BY <1>1, <1>3, <1>4, <1>5, <1>6, <1>7, MovesHand DEF GoOn

LEMMA RemovesHand ==
    ASSUME IInv, SeqInv, HandInv, HandsOver, NEW j \in Jobs,
           AbortDeleteTargetDniVm(j) \/ DeleteSourceVm(j)
    PROVE  /\ HandInv'
           /\ \E s : s # vm.server /\ inst' = [inst EXCEPT ![s] = Gone]
<1>1. vm.server \in Servers
  BY DEF IInv, DataType, VmRecord
<1>2. CASE AbortDeleteTargetDniVm(j)
  <2> DEFINE s == loc[j].rec.target
  <2>1. /\ At(j, "abortDeleteTargetDniVm") /\ GoOn(j)
        /\ inst' = [inst EXCEPT ![s] = Gone]
        /\ UNCHANGED <<records, stored, vm, job>>
    BY <1>2 DEF AbortDeleteTargetDniVm, DeleteInstance, db
  <2>2. job[j].action = "abort" /\ pc[j] = 5 /\ mode[j] = "chain"
    BY <2>1, AtWhere, WhereInChain
  <2>3. ~Starter(j) /\ ~Aux(j) /\ ~Switch(j) /\ ~Over(j)
    BY <2>2 DEF Starter, Aux, Switch, Over, Past
  <2>4. Whole(loc[j].rec) /\ Place(loc[j].rec, Over(j)) /\ TaskDone(j)
    BY <2>2, <2>3, CopyAt
  <2>5. vm.server # s
    BY <1>1, <2>3, <2>4 DEF Place, Whole, Apart
  <2>6. ASSUME ~Exists(s)', pc'[j] = pc[j] + 1, loc'[j] = loc[j]
        PROVE  TaskDone(j)'
    BY <2>1, <2>2, <2>4, <2>6 DEF TaskDone
  <2> QED BY <2>1, <2>2, <2>3, <2>5, <2>6, RemoveHand
<1>3. CASE DeleteSourceVm(j)
  <2> DEFINE s == loc[j].rec.source
  <2>1. /\ At(j, "deleteSourceVm") /\ GoOn(j)
        /\ inst' = [inst EXCEPT ![s] = Gone]
        /\ UNCHANGED <<records, stored, vm, job>>
    BY <1>3 DEF DeleteSourceVm, DeleteInstance, db
  <2>2. job[j].action = "finalize" /\ pc[j] = 1 /\ mode[j] = "chain"
    BY <2>1, AtWhere, WhereInChain
  <2>3. ~Starter(j) /\ ~Aux(j) /\ ~Switch(j) /\ Over(j)
    BY <2>2 DEF Starter, Aux, Switch, Over, Past
  <2>4. Whole(loc[j].rec) /\ Place(loc[j].rec, Over(j))
    BY <2>2, <2>3, CopyAt
  <2>5. vm.server # s
    BY <1>1, <2>3, <2>4 DEF Place, Whole, Apart
  <2>6. ASSUME ~Exists(s)', pc'[j] = pc[j] + 1, loc'[j] = loc[j]
        PROVE  TaskDone(j)'
    BY <2>1, <2>2, <2>6 DEF TaskDone
  <2> QED BY <2>1, <2>2, <2>3, <2>5, <2>6, RemoveHand
<1> QED BY <1>2, <1>3

\* A switch hides the source, and once the VM is at the target shows it
LEMMA ShowsHand ==
    ASSUME IInv, SeqInv, HandInv, HandsOver, NEW j \in Jobs,
           SetSourceDoNotInventory(j) \/ RemoveTargetDoNotInventory(j)
    PROVE  HandInv'
<1> DEFINE rec == loc[j].rec
<1>1. PICK task \in {"setSourceDoNotInventory", "removeTargetDoNotInventory"} :
        /\ At(j, task) /\ UNCHANGED <<records, stored, vm, job>>
        /\ SetSourceDoNotInventory(j) => task = "setSourceDoNotInventory"
        /\ RemoveTargetDoNotInventory(j) => task = "removeTargetDoNotInventory"
  <2>1. CASE SetSourceDoNotInventory(j)
    <3>1. /\ At(j, "setSourceDoNotInventory")
          /\ UNCHANGED <<records, stored, vm, job>>
      BY <2>1 DEF SetSourceDoNotInventory, SetDoNotInventory, db
    <3>2. ~RemoveTargetDoNotInventory(j)
      BY <3>1 DEF RemoveTargetDoNotInventory, SetDoNotInventory, At
    <3> QED BY <3>1, <3>2
  <2>2. CASE RemoveTargetDoNotInventory(j)
    <3>1. /\ At(j, "removeTargetDoNotInventory")
          /\ UNCHANGED <<records, stored, vm, job>>
      BY <2>2 DEF RemoveTargetDoNotInventory, SetDoNotInventory, db
    <3>2. ~SetSourceDoNotInventory(j)
      BY <3>1 DEF SetSourceDoNotInventory, SetDoNotInventory, At
    <3> QED BY <3>1, <3>2
  <2> QED BY <2>1, <2>2
<1>2. /\ job[j].action = "switch" /\ mode[j] = "chain"
      /\ pc[j] = IF SetSourceDoNotInventory(j) THEN 16 ELSE 18
  BY <1>1, AtWhere, WhereInChain
<1>3. ~Starter(j) /\ Switch(j)
  BY <1>2 DEF Starter, Switch
<1>4. /\ Whole(rec) /\ Place(rec, Over(j)) /\ TaskDone(j)
      /\ rec.id \in LiveIds /\ Agrees(j, rec.id) /\ SameRec(rec, rec)
  BY <1>2, <1>3, CopyAt
<1>5. CASE Fail(j) /\ UNCHANGED inst
  BY <1>1, <1>2, <1>4, <1>5, FailHand DEF Fail
<1>6. inst \in [Servers -> Instance]
  BY DEF IInv, DataType
<1>7. TaskDone(j)' \/ ~(pc'[j] = pc[j] + 1 /\ loc'[j] = loc[j])
  BY <1>1, <1>2, <1>4 DEF TaskDone
<1>8. ASSUME \A s \in Servers : inst'[s].exists => inst[s].exists,
             Shown', Named', GoOn(j)
      PROVE  HandInv'
  <2>1. SameRec(loc[j].rec, loc[j].rec)
    BY <1>4
  <2> HIDE DEF rec
  <2> QED BY <1>1, <1>2, <1>3, <1>7, <1>8, <2>1, MovesHand DEF GoOn
<1>9. CASE SetSourceDoNotInventory(j) /\ GoOn(j) /\ Exists(rec.source)
           /\ inst' = [inst EXCEPT ![rec.source].hidden = TRUE,
                           ![rec.source].current = inst[rec.source].current]
  <2>1. pc[j] = 16 /\ ~IsLast(j)
    <3>1. pc[j] = 16
      BY <1>2, <1>9
    <3>2. Len(Chain["switch"]) = 22
      BY DEF Chain, Chains, SwitchChain
    <3>3. Tasks(j) = Chain["switch"]
      BY <1>2 DEF Tasks
    <3> QED BY <3>1, <3>2, <3>3 DEF IsLast
  <2>2. mode'[j] = "chain" /\ pc'[j] = 17
    BY <1>1, <1>2, <1>9, <2>1, ProceedFacts DEF GoOn
  <2>3. Shown'
    BY <1>1, <1>3, <2>2 DEF Shown, Crossing, Past, Switch
  <2>4. \A s \in Servers : /\ inst'[s].exists = inst[s].exists
                           /\ Veiled(s)' => Veiled(s) \/ s = rec.source
    BY <1>6, <1>9 DEF Veiled, Instance
  <2>5. records[rec.id].source = rec.source
    BY <1>4 DEF Agrees
  <2>6. Named'
    <3>1. UNCHANGED <<records, LiveIds>>
      BY <1>1 DEF LiveIds
    <3>2. ASSUME NEW s \in Servers, Veiled(s) \/ s = rec.source
          PROVE  \E r \in LiveIds : s \in {records[r].source, records[r].target}
      BY <1>4, <2>5, <3>2 DEF HandInv, Named
    <3> QED BY <2>4, <3>1, <3>2 DEF Named
  <2> QED BY <1>8, <1>9, <2>3, <2>4, <2>6
<1>10. CASE RemoveTargetDoNotInventory(j) /\ GoOn(j) /\ Exists(rec.target)
            /\ inst' = [inst EXCEPT ![rec.target].hidden = FALSE,
                            ![rec.target].current = inst[rec.target].current]
  <2>1. pc[j] = 18
    BY <1>1, <1>2, <1>10
  <2>2. vm.server = rec.target
    BY <1>2, <1>3, <1>4, <2>1 DEF Place, Over, Past
  <2>3. /\ \A s \in Servers : /\ inst'[s].exists = inst[s].exists
                              /\ Veiled(s)' => Veiled(s)
        /\ inst'[rec.target].exists /\ ~inst'[rec.target].hidden
    BY <1>6, <1>10 DEF Veiled, Instance, Exists
  <2>4. Shown'
    BY <1>1, <2>2, <2>3 DEF Shown, Visible
  <2>5. Named'
    BY <1>1, <2>3, NamedKept
  <2> QED BY <1>8, <1>10, <2>3, <2>4, <2>5
<1> QED BY <1>5, <1>9, <1>10
        DEF SetSourceDoNotInventory, RemoveTargetDoNotInventory,
            SetDoNotInventory

\* The VM's record goes to the target
LEMMA MovesVmHand ==
    ASSUME IInv, SeqInv, HandInv, HandsOver, NEW j \in Jobs,
           UpdateVmServerUuid(j)
    PROVE  HandInv'
<1> DEFINE rec == loc[j].rec
<1>1. At(j, "updateVmServerUuid") /\ UNCHANGED <<records, stored, inst, job>>
  BY DEF UpdateVmServerUuid, db
<1>2. job[j].action = "switch" /\ mode[j] = "chain" /\ pc[j] = 17
  BY <1>1, AtWhere, WhereInChain
<1>3. ~Starter(j) /\ Switch(j)
  BY <1>2 DEF Starter, Switch
<1>4. /\ j \in Active /\ rec.id # 0 /\ Whole(rec) /\ TaskDone(j)
      /\ rec.id \in LiveIds /\ \A r \in LiveIds : Agrees(j, r)
      /\ SameRec(rec, rec)
  BY <1>2, <1>3, CopyAt
<1>5. CASE Fail(j) /\ UNCHANGED vm
  BY <1>1, <1>2, <1>4, <1>5, FailHand DEF Fail
<1>6. CASE vm' = [vm EXCEPT !.server = rec.target] /\ GoOn(j)
  <2>1. vm'.server = rec.target
    BY <1>6 DEF IInv, DataType, VmRecord
  <2>2. ~IsLast(j)
    <3>1. Len(Chain["switch"]) = 22
      BY DEF Chain, Chains, SwitchChain
    <3>2. Tasks(j) = Chain["switch"]
      BY <1>2 DEF Tasks
    <3> QED BY <1>2, <3>1, <3>2 DEF IsLast
  <2>3. /\ \A i \in Jobs \ {j} : Stands(i)
        /\ mode'[j] = "chain" /\ pc'[j] = 18 /\ loc'[j] = loc[j]
    BY <1>1, <1>2, <1>6, <2>2, ProceedFacts DEF GoOn
  <2>4. ASSUME NEW i \in Active', ~Starter(i)' PROVE i = j
    <3>1. SUFFICES ASSUME i # j PROVE FALSE
      OBVIOUS
    <3>2. i \in Active /\ ~Starter(i)
      BY <1>1, <2>3, <2>4, <3>1, ActiveIs, ActiveThen DEF Stands, Starter
    <3> QED BY <1>2, <1>3, <1>4, <3>1, <3>2, Beside DEF Cleaning
  <2>5. /\ UNCHANGED LiveIds /\ loc'[j].rec = rec
        /\ Past(j, 18)' /\ ~Past(j, 20)' /\ ~Past(j, 20)
        /\ Crossing(j)' /\ Over(j)' /\ ~Done(j)' /\ ~Done(j)
    BY <1>1, <1>2, <2>3 DEF LiveIds, Past, Switch, Crossing, Over, Done
  <2>6. OneLive' /\ Ids' /\ Stored'
    BY <1>1, <2>5 DEF HandInv, OneLive, Ids, Stored, Whole, Apart
  <2>7. Sides'
    <3>1. SUFFICES ASSUME NEW r \in LiveIds
                   PROVE  records[r].target = rec.target
      BY <1>1, <2>1, <2>5 DEF Sides, Place
    <3>2. Agrees(j, r)
      BY <1>4
    <3> QED BY <1>2, <3>2 DEF Agrees
  <2>8. Copy(j)'
    <3>1. TaskDone(j)'
      BY <1>1, <1>2, <1>4, <2>3 DEF TaskDone
    <3>2. \A r \in LiveIds' : Agrees(j, r)'
      BY <1>1, <1>2, <1>4, <2>5 DEF Agrees
    <3>3. Place(loc[j].rec, Over(j))'
      BY <2>1, <2>5 DEF Place
    <3>4. Whole(loc[j].rec)'
      BY <1>4, <2>5 DEF Whole, Apart
    <3> QED BY <1>4, <2>5, <3>1, <3>2, <3>3, <3>4 DEF Copy
  <2>9. Shown'
    BY <2>5 DEF Shown
  <2>10. Named'
    BY <1>1, NamedKept DEF Veiled
  <2> QED BY <2>4, <2>6, <2>7, <2>8, <2>9, <2>10 DEF HandInv, Copies
<1> QED BY <1>5, <1>6 DEF UpdateVmServerUuid

LEMMA AllocateHand ==
    ASSUME IInv, SeqInv, HandInv, NEW j \in Jobs, AllocateServer(j)
    PROVE  HandInv'
<1> DEFINE rec == loc[j].rec
<1>1. At(j, "allocateServer") /\ UNCHANGED <<records, stored, vm, inst, job>>
  BY DEF AllocateServer, db
<1>2. job[j].action = "begin" /\ mode[j] = "chain" /\ pc[j] = 1
  BY <1>1, AtWhere, WhereInChain
<1>3. ~Starter(j) /\ ~Aux(j) /\ ~Switch(j) /\ ~Crossing(j)
  BY <1>2 DEF Starter, Aux, Switch, Crossing, Past
<1>4. /\ j \in Active /\ rec.id # 0 /\ Whole(rec) /\ Place(rec, Over(j))
      /\ rec.id \in LiveIds /\ \A r \in LiveIds : Agrees(j, r)
  BY <1>2, <1>3, CopyAt
<1>5. PICK s \in IF rec.target = NoServer THEN Servers \ {rec.source}
                                          ELSE {rec.target} :
        Proceed(j, [loc[j] EXCEPT !.rec.target = s])
  BY DEF AllocateServer
<1> DEFINE l == [loc[j] EXCEPT !.rec.target = s]
<1>6. /\ l.rec.id = rec.id /\ l.rec.source = rec.source /\ l.rec.target = s
      /\ l.rec.state = rec.state
  BY LocalsRec DEF IInv, Locals, Record
<1>7. Proceed(j, l)
  BY <1>5
<1>8. s # rec.source /\ (rec.target = NoServer \/ s = rec.target)
  <2>1. rec.source \in Servers /\ Apart(rec)
    BY <1>4 DEF Whole
  <2>2. rec.target \in Servers \cup {NoServer}
    BY LocalsRec DEF IInv, Record
  <2> QED BY <2>1, <2>2, ConstantsAssumption DEF Apart
<1> HIDE DEF l
<1>9. ~IsLast(j)
  <2>1. Len(Chain["begin"]) = 8
    BY DEF Chain, Chains, BeginChain
  <2>2. Tasks(j) = Chain["begin"]
    BY <1>2 DEF Tasks
  <2> QED BY <1>2, <2>1, <2>2 DEF IsLast
<1>10. /\ \A i \in Jobs \ {j} : Stands(i)
       /\ mode'[j] = "chain" /\ pc'[j] = 2 /\ loc'[j] = l
  BY <1>1, <1>2, <1>7, <1>9, ProceedFacts
<1>11. \A i \in Jobs \ {j} : Keeps(i)
  BY <1>3, <1>4, <1>10, AloneAtWork, RestsKeeps
<1>12. Copy(j)'
  <2>1. /\ ~Over(j) /\ ~Done(j) /\ ~Over(j)' /\ ~Done(j)'
        /\ UNCHANGED <<LiveIds, records>>
    BY <1>1, <1>2 DEF Over, Done, Past, Switch, LiveIds
  <2>2. Whole(loc[j].rec)' /\ Place(loc[j].rec, Over(j))'
    BY <1>1, <1>4, <1>6, <1>8, <1>10, <2>1 DEF Whole, Apart, Place
  <2>3. ASSUME NEW r \in LiveIds PROVE Agrees(j, r)'
    <3>1. Agrees(j, r)
      BY <1>4
    <3>2. \/ records[r].target = s
          \/ records[r].target = NoServer
      BY <1>8, <3>1 DEF Agrees
    <3>3. ~(mode'[j] = "chain" /\ pc'[j] >= 4) /\ job'[j].action = "begin"
      BY <1>1, <1>2, <1>10
    <3> QED BY <1>6, <1>10, <2>1, <3>1, <3>2, <3>3 DEF Agrees
  <2>4. TaskDone(j)'
    BY <1>1, <1>2, <1>10 DEF TaskDone
  <2> QED BY <1>4, <1>6, <1>10, <2>1, <2>2, <2>3, <2>4 DEF Copy
<1>13. Keeps(j)
  BY <1>1, <1>3, <1>12 DEF Keeps, Past, Switch
<1>14. Shown'
  BY <1>1, <1>3, <1>4, NoCrossing, ShownKept DEF Visible
<1>15. Named'
  BY <1>1, NamedKept DEF Veiled
<1> QED BY <1>1, <1>11, <1>13, <1>14, <1>15, CoreKeeps

-----------------------------------------------------------------------------
(* What is read again: before a switch has moved the VM, the one record.   *)
LEMMA LookupIs ==
    ASSUME IInv, HandInv, \A i \in Jobs : ~Past(i, 18)
    PROVE  /\ LiveIds = {} => Lookup = NoRecord
           /\ \A r \in LiveIds : Lookup = records[r] /\ Lookup.id = r
<1> DEFINE ids == {r \in LiveIds : Matches(records[r], vm.server)}
<1>1. Lookup = IF ids = {} THEN NoRecord ELSE records[Newest(ids)]
  BY DEF Lookup
<1>2. ASSUME NEW r \in LiveIds PROVE Lookup = records[r] /\ Lookup.id = r
  <2>1. Matches(records[r], vm.server)
    BY DEF HandInv, Sides, Place, Matches
  <2>2. ids = {r}
    BY <2>1 DEF HandInv, OneLive
  <2>3. r \in Nat
    BY DEF LiveIds, RecordIds
  <2>4. Newest({r}) = r
    BY <2>3 DEF Newest
  <2>5. records[r].id = r
    BY DEF HandInv, Ids
  <2> QED BY <1>1, <2>2, <2>4, <2>5
<1> QED BY <1>1, <1>2

LEMMA ReloadHand ==
    ASSUME IInv, SeqInv, HandInv, HandsOver, NEW j \in Jobs,
           GetRecord(j) \/ ValidateSyncIsRunning(j)
    PROVE  HandInv'
<1> DEFINE rec == loc[j].rec
<1> DEFINE Does(task, idx) ==
               /\ At(j, task) /\ UNCHANGED <<records, stored, vm, inst, job>>
               /\ \/ Proceed(j, [loc[j] EXCEPT !.rec = Lookup, !.idx = idx])
                  \/ Fail(j)
<1>1. PICK task, idx :
        task \in {"getRecord", "validateSyncIsRunning"} /\ Does(task, idx)
  <2>1. CASE GetRecord(j)
    <3> HIDE DEF Lookup
    <3>1. Does("getRecord", loc[j].idx)
      BY <2>1 DEF GetRecord, Reload, db
    <3> HIDE DEF Does
    <3> QED BY <3>1
  <2>2. CASE ValidateSyncIsRunning(j)
    <3> DEFINE i == CHOOSE i \in RunningSyncs(Lookup) : TRUE
    <3>1. Reload(j, "validateSyncIsRunning",
                 Cardinality(RunningSyncs(Lookup)) = 1, i)
      BY <2>2 DEF ValidateSyncIsRunning
    <3> HIDE DEF i
    <3>2. Does("validateSyncIsRunning", i)
      BY <3>1 DEF Reload, db
    <3> HIDE DEF Does
    <3> QED BY <3>2
  <2> QED BY <2>1, <2>2
<1>2. /\ mode[j] = "chain"
      /\ \/ job[j].action = "switch" /\ pc[j] = 9
         \/ job[j].action = "pause" /\ pc[j] = 2
  BY <1>1, AtWhere, WhereInChain
<1>3. ~Starter(j) /\ ~Crossing(j) /\ ~Past(j, 18) /\ ~Past(j, 17)
  BY <1>2 DEF Starter, Crossing, Past
<1>4. /\ j \in Active /\ rec.id \in LiveIds /\ Agrees(j, rec.id)
      /\ SameRec(rec, rec)
  BY <1>2, <1>3, CopyAt
<1>5. CASE Fail(j)
  BY <1>1, <1>2, <1>4, <1>5, FailHand DEF Fail
<1>6. CASE Proceed(j, [loc[j] EXCEPT !.rec = Lookup, !.idx = idx])
  <2> DEFINE l == [loc[j] EXCEPT !.rec = Lookup, !.idx = idx]
  <2>1. Lookup = records[rec.id] /\ Lookup.id = rec.id
    BY <1>3, <1>4, BesideEarly, LookupIs
  <2>2. l.rec = Lookup
    BY LocalsRec DEF IInv, Locals
  <2>3. SameRec(l.rec, loc[j].rec)
    BY <1>2, <1>4, <2>1, <2>2 DEF Agrees, SameRec
  <2>4. Proceed(j, l)
    BY <1>6
  <2> HIDE DEF l
  <2>5. Shown' /\ Named'
    BY <1>1, <1>3, <1>4, NoCrossing, ShownKept, NamedKept DEF Visible, Veiled
  <2>6. ASSUME mode'[j] = "chain", pc'[j] = pc[j] + 1 PROVE TaskDone(j)'
    BY <1>1, <1>2, <2>6 DEF TaskDone
  <2> QED BY <1>1, <1>2, <1>3, <2>3, <2>4, <2>5, <2>6, MovesHand DEF Switch
<1> QED BY <1>1, <1>5, <1>6

LEMMA QueueFacts ==
    ASSUME IInv, NEW j \in Jobs, mode[j] \in {"chain"} \cup Cleaning,
           NEW k \in Jobs, NEW params, NEW rec, NEW l,
           Queue(j, k, params, rec, l)
    PROVE  /\ k # j /\ mode[k] = "none" /\ k \notin Active
           /\ mode'[k] = "chain" /\ pc'[k] = 1 /\ job'[k] = params
           /\ loc'[k].rec = rec /\ loc'[k].child = 0
           /\ \A i \in Jobs \ {k} : UNCHANGED job[i]
           /\ \A i \in Jobs \ {j, k} : Stands(i)
           /\ IsLast(j) => mode'[j] \in Ended /\ loc'[j] = NoLocals
           /\ IsLast(j) /\ mode[j] # "chain" => mode'[j] # "succeeded"
           /\ ~IsLast(j) => /\ mode'[j] = mode[j] /\ pc'[j] = pc[j] + 1
                            /\ loc'[j] = l
<1>1. /\ mode[k] = "none" /\ job' = [job EXCEPT ![k] = params]
      /\ mode' = [ModeAfter(j) EXCEPT ![k] = "chain"]
      /\ pc' = [PcAfter(j) EXCEPT ![k] = 1]
      /\ loc' = [LocAfter(j, l) EXCEPT ![k] = [NoLocals EXCEPT !.rec = rec]]
  BY DEF Queue, Fresh
<1>2. /\ mode \in [Jobs -> Modes] /\ pc \in [Jobs -> Nat]
      /\ loc \in [Jobs -> Locals] /\ job \in [Jobs -> JobParams]
  BY DEF IInv, ControlType
<1>3. k # j /\ k \notin Active
  BY <1>1, ActiveIs DEF Cleaning
<1>4. /\ mode'[k] = "chain" /\ pc'[k] = 1 /\ job'[k] = params
      /\ \A i \in Jobs \ {k} : UNCHANGED job[i]
  BY <1>1, <1>2 DEF ModeAfter, PcAfter
<1>5. loc'[k].rec = rec /\ loc'[k].child = 0
  <2>1. loc'[k] = [NoLocals EXCEPT !.rec = rec]
    BY <1>1, <1>2 DEF LocAfter
  <2> QED BY <2>1 DEF NoLocals
<1>6. ASSUME NEW i \in Jobs \ {j, k} PROVE Stands(i)
  BY <1>1, <1>2 DEF ModeAfter, PcAfter, LocAfter, Stands
<1>7. ASSUME IsLast(j)
      PROVE  /\ mode'[j] \in Ended /\ loc'[j] = NoLocals
             /\ mode[j] # "chain" => mode'[j] # "succeeded"
  <2>1. mode'[j] = Outcome[mode[j]] /\ loc'[j] = NoLocals
    BY <1>1, <1>2, <1>3, <1>7 DEF ModeAfter, LocAfter
  <2> QED BY <2>1 DEF Outcome, Cleaning, Ended
<1>8. ASSUME ~IsLast(j)
      PROVE  mode'[j] = mode[j] /\ pc'[j] = pc[j] + 1 /\ loc'[j] = l
  BY <1>1, <1>2, <1>3, <1>8 DEF ModeAfter, PcAfter, LocAfter
<1> QED BY <1>1, <1>3, <1>4, <1>5, <1>6, <1>7, <1>8


-----------------------------------------------------------------------------
(* The tasks that stop a sync by another job, and those that queue a job.  *)
LEMMA InterruptHand ==
    ASSUME IInv, SeqInv, HandInv, NEW j \in Jobs, NEW task, task \notin Handing,
           At(j, task) \/ AtCleanup(j, task), job[j].action \in {"sync", "pause"},
           NEW k \in Jobs, mode[k] = "chain", k # j \/ ~IsLast(j),
           NEW m \in Cleaning,
           mode' = [ModeAfter(j) EXCEPT ![k] = m],
           pc' = [PcAfter(j) EXCEPT ![k] = 1],
           loc' = LocAfter(j, loc[j]),
           UNCHANGED <<records, stored, vm, inst, job>>
    PROVE  HandInv'
<1>1. /\ mode[j] \in {"chain"} \cup Cleaning /\ j \in Active /\ k \in Active
      /\ mode[j] = "chain" => At(j, task)
      /\ ~Starter(j) /\ ~Switch(j) /\ ~Past(j, 18) /\ ~Crossing(j)
  BY ActiveIs DEF At, AtCleanup, Cleaning, Starter, Switch, Past, Crossing
<1>2. mode \in [Jobs -> Modes] /\ pc \in [Jobs -> Nat] /\ loc \in [Jobs -> Locals]
  BY DEF IInv, ControlType
<1>3. \A i \in Jobs : SameRec(loc[i].rec, loc[i].rec)
  BY DEF SameRec
<1>4. ASSUME NEW i \in Jobs, i # j, i # k PROVE Keeps(i)
  <2>1. Stands(i)
    BY <1>2, <1>4 DEF ModeAfter, PcAfter, LocAfter, Stands
  <2> QED BY <2>1, StandsKeeps
<1>5. Keeps(k)
  <2>1. mode'[k] = m /\ loc'[k] = loc[k]
    BY <1>2 DEF ModeAfter, LocAfter
  <2>2. ~Past(k, 18) /\ mode[k] # "request"
    BY <1>1, BesideEarly
  <2> QED BY <1>1, <1>3, <2>1, <2>2, CleansKeeps
<1>6. ASSUME j # k PROVE Keeps(j)
  <2>1. CASE IsLast(j)
    <3>1. mode'[j] = Outcome[mode[j]]
      BY <1>2, <1>6, <2>1 DEF ModeAfter
    <3>2. mode'[j] \in Ended
      BY <1>1, <3>1 DEF Outcome, Cleaning, Ended
    <3> QED BY <1>1, <3>2, EndsKeeps
  <2>2. CASE ~IsLast(j)
    <3>1. mode'[j] = mode[j] /\ pc'[j] = pc[j] + 1 /\ loc'[j] = loc[j]
      BY <1>2, <1>6, <2>2 DEF ModeAfter, PcAfter, LocAfter
    <3>2. CASE mode[j] \in Cleaning
      <4>1. mode[j] # "request"
        BY <3>2 DEF Cleaning
      <4> QED BY <1>1, <1>3, <3>1, <3>2, <4>1, CleansKeeps
    <3>3. CASE mode[j] = "chain"
      <4>1. TaskDone(j)
        BY <1>1, <3>3, CopyAt
      <4>2. TaskDone(j)'
        BY <1>1, <3>1, <3>3, <4>1, TaskForward
      <4> QED BY <1>1, <1>3, <3>1, <3>3, <4>2, ForwardKeeps
    <3> QED BY <1>1, <3>2, <3>3
  <2> QED BY <2>1, <2>2
<1>7. Shown' /\ Named'
  <2>1. \A i \in Jobs : ~Crossing(i)
    BY <1>1, NoCrossing
  <2> QED BY <2>1, ShownKept, NamedKept DEF Visible, Veiled
<1> QED BY <1>4, <1>5, <1>6, <1>7, CoreKeeps

LEMMA InterruptTasksHand ==
    ASSUME IInv, SeqInv, HandInv, HandsOver, NEW j \in Jobs,
           Cleanup(j) \/ CancelSyncWorkflow(j)
    PROVE  HandInv'
<1>1. UNCHANGED <<records, stored, vm, inst, job>> /\ SameSeen
  BY DEF Cleanup, CancelSyncWorkflow, db, SameSeen
<1>2. CASE Cleanup(j)
  <2> DEFINE k == loc[j].rec.proc
  <2>1. At(j, "cleanup") \/ AtCleanup(j, "cleanup")
    BY <1>2 DEF Cleanup
  <2>2. job[j].action \in {"sync", "pause"}
    BY <2>1, AtWhere, WhereInChain, WhoseCleaning
  <2>3. k \in Jobs \cup {0}
    BY LocalsRec DEF IInv, Record
  <2>4. \/ GoOn(j)
        \/ /\ k \in Jobs \ {j} /\ mode[k] = "chain"
           /\ mode' = [ModeAfter(j) EXCEPT ![k] = "onerror"]
           /\ pc' = [PcAfter(j) EXCEPT ![k] = 1]
           /\ loc' = LocAfter(j, loc[j])
    BY <1>2, <2>3 DEF Cleanup, At
  <2> HIDE DEF k
  <2> QED BY <1>1, <2>1, <2>2, <2>4, InterruptHand, PlainHand
          DEF GoOn, Cleaning, Handing
<1>3. CASE CancelSyncWorkflow(j)
  <2> DEFINE k == loc[j].rec.history[loc[j].idx].job
  <2>1. At(j, "cancelSyncWorkflow")
    BY <1>3 DEF CancelSyncWorkflow
  <2>2. job[j].action = "pause" /\ pc[j] = 3 /\ mode[j] = "chain"
    BY <2>1, AtWhere, WhereInChain
  <2>3. ~IsLast(j)
    <3>1. Len(Chain["pause"]) = 6
      BY DEF Chain, Chains, PauseChain
    <3>2. Tasks(j) = Chain["pause"]
      BY <2>2 DEF Tasks
    <3> QED BY <2>2, <3>1, <3>2 DEF IsLast
  <2>4. \/ GoOn(j)
        \/ /\ mode[k] = "chain"
           /\ mode' = [ModeAfter(j) EXCEPT ![k] = "canceling"]
           /\ pc' = [PcAfter(j) EXCEPT ![k] = 1]
           /\ loc' = LocAfter(j, loc[j])
    BY <1>3 DEF CancelSyncWorkflow
  <2> HIDE DEF k
  <2>5. CASE k \in Jobs
    BY <1>1, <2>1, <2>2, <2>3, <2>4, <2>5, InterruptHand, PlainHand
    DEF GoOn, Cleaning, Handing
  <2>6. CASE k \notin Jobs
    <3>1. \/ mode' = ModeAfter(j) /\ pc' = PcAfter(j)
          \/ GoOn(j)
      BY <2>4, <2>6 DEF ModeAfter, PcAfter, IInv, ControlType
    <3>2. GoOn(j)
      BY <2>4, <3>1 DEF GoOn, Proceed
    <3> QED BY <1>1, <2>1, <3>2, PlainHand DEF GoOn, Handing
  <2> QED BY <2>5, <2>6
<1> QED BY <1>2, <1>3

\* The job that is queued starts or stops the VM, or has a copy of the record
LEMMA QueueHand ==
    ASSUME IInv, SeqInv, HandInv, NEW j \in Jobs, NEW task, task \notin Handing,
           At(j, task) \/ AtCleanup(j, task), ~Starter(j),
           NEW k \in Jobs, NEW params, NEW rec, NEW l, l.rec = loc[j].rec,
           Queue(j, k, params, rec, l), UNCHANGED <<records, stored, vm, inst>>,
           mode'[k] = "chain" /\ pc'[k] = 1 /\ job'[k] = params
               /\ loc'[k].rec = rec => Starter(k)' \/ Copy(k)'
    PROVE  HandInv'
<1>1. /\ mode[j] \in {"chain"} \cup Cleaning /\ j \in Active
      /\ mode[j] = "chain" => At(j, task)
  BY ActiveIs DEF At, AtCleanup, Cleaning
<1>2. ~Crossing(j) /\ (Switch(j) /\ mode[j] = "chain" => pc[j] \notin {17, 19})
  <2>1. Switch(j) /\ mode[j] = "chain" => pc[j] \notin {17, 18, 19}
    BY <1>1, PlainAt DEF Switch
  <2> QED BY <2>1 DEF Crossing, Past, IInv, ControlType
<1>3. /\ k # j /\ mode[k] = "none"
      /\ mode'[k] = "chain" /\ pc'[k] = 1 /\ job'[k] = params
      /\ loc'[k].rec = rec
      /\ \A i \in Jobs \ {k} : UNCHANGED job[i]
      /\ \A i \in Jobs \ {j, k} : Stands(i)
      /\ IsLast(j) => mode'[j] \in Ended
      /\ ~IsLast(j) => /\ mode'[j] = mode[j] /\ pc'[j] = pc[j] + 1
                       /\ loc'[j] = l
  BY <1>1, QueueFacts
<1>4. \A i \in Jobs \ {j, k} : Keeps(i)
  BY <1>3, StandsKeeps
<1>5. Keeps(k)
  BY <1>3 DEF Keeps, Past
<1>6. Keeps(j)
  <2>1. CASE IsLast(j)
    <3>1. Past(j, 18) => Past(j, 20)
      BY <2>1, LastPast DEF Past, IInv, ControlType
    <3> QED BY <1>3, <2>1, <3>1, EndsKeeps
  <2>2. CASE ~IsLast(j)
    <3>1. SameRec(loc'[j].rec, loc[j].rec) /\ UNCHANGED job[j]
      BY <1>3, <2>2 DEF SameRec
    <3>2. CASE mode[j] \in Cleaning
      <4>1. mode[j] # "request" /\ ~Past(j, 18)
        BY <3>2 DEF Cleaning, Past
      <4> QED BY <1>1, <1>3, <2>2, <3>1, <3>2, <4>1, CleansKeeps
    <3>3. CASE mode[j] = "chain"
      <4>1. TaskDone(j)
        BY <3>3, CopyAt
      <4>2. TaskDone(j)'
        BY <1>1, <1>3, <2>2, <3>1, <3>3, <4>1, TaskForward
      <4>3. job[j].action = "begin" => pc[j] # 3
        BY <1>1, <3>3, PlainAt
      <4> QED BY <1>2, <1>3, <2>2, <3>1, <3>3, <4>2, <4>3, ForwardKeeps
    <3> QED BY <1>1, <3>2, <3>3
  <2> QED BY <2>1, <2>2
<1>7. Shown' /\ Named'
  <2>1. \A i \in Jobs : ~Crossing(i)
    BY <1>1, <1>2, NoCrossing
  <2> QED BY <2>1, ShownKept, NamedKept DEF Visible, Veiled
<1> QED BY <1>4, <1>5, <1>6, <1>7, CoreKeeps

LEMMA StopOrStartHand ==
    ASSUME IInv, SeqInv, HandInv, HandsOver, NEW j \in Jobs,
           StopSourceVm(j) \/ StartTargetVm(j) \/ StartSourceVm(j)
    PROVE  HandInv'
<1>1. ASSUME NEW task \in {"stopSourceVm", "startTargetVm", "startSourceVm"},
             NEW a \in {"start", "stop"}, NEW needed,
             StopOrStart(j, task, a, needed)
      PROVE  HandInv'
  <2>1. /\ At(j, task) \/ AtCleanup(j, task)
        /\ UNCHANGED <<records, stored, vm, inst>> /\ task \notin Handing
    BY <1>1 DEF StopOrStart, db, Handing
  <2>2. CASE GoOn(j) /\ UNCHANGED job
    <3>1. SameSeen
      BY <2>1 DEF SameSeen
    <3> QED BY <2>1, <2>2, <3>1, PlainHand DEF GoOn
  <2>3. CASE ~(GoOn(j) /\ UNCHANGED job)
    <3>1. PICK k \in Jobs : Queue(j, k, Params(a, FALSE, FALSE), NoRecord,
                                  [loc[j] EXCEPT !.child = k])
      BY <1>1, <2>3 DEF StopOrStart
    <3> DEFINE params == Params(a, FALSE, FALSE)
               l == [loc[j] EXCEPT !.child = k]
    <3>2. params.action \in {"start", "stop"} /\ l.rec = loc[j].rec
      BY LocalsRec DEF Params, IInv, Locals
    <3>3. Queue(j, k, params, NoRecord, l)
      BY <3>1
    <3> HIDE DEF params, l
    <3>4. ~Starter(j)
      <4>1. CASE At(j, task)
        BY <4>1, AtWhere, WhereInChain, WhoseTaskAt DEF Starter, Rolling
      <4>2. CASE AtCleanup(j, task)
        <5>1. /\ OnError[job[j].action][pc[j]] = task
              /\ pc[j] \in 1 .. Len(OnError[job[j].action])
              /\ job[j].action \in JobActions
          BY <4>2
          DEF AtCleanup, Cleaning, IInv, ControlType, ControlOf, JobParams
        <5> QED BY <5>1, WhoseCleanup DEF Starter
      <4> QED BY <2>1, <4>1, <4>2
    <3>5. job'[k] = params => Starter(k)'
      BY <3>2 DEF Starter
    <3> QED BY <2>1, <3>2, <3>3, <3>4, <3>5, QueueHand
  <2> QED BY <2>2, <2>3
<1> QED BY <1>1 DEF StopSourceVm, StartTargetVm, StartSourceVm

-----------------------------------------------------------------------------
(* The jobs of the next action, which has the record as its request found  *)
(* it.                                                                     *)
LEMMA AcceptsAre ==
    ASSUME IInv, HandInv, \A i \in Jobs : ~Past(i, 18),
           NEW a \in JobActions \ {"rollback", "start", "stop"}, NEW sub,
           Accepts(a, Lookup, sub)
    PROVE  /\ Lookup.id = 0 => a = "begin" /\ LiveIds = {}
           /\ Lookup.id # 0 =>
                 /\ Lookup.id \in LiveIds
                 /\ \A r \in LiveIds : r = Lookup.id /\ records[r] = Lookup
                 /\ Whole(Lookup) /\ Place(Lookup, a = "finalize")
                 /\ Lookup.state = "successful" <=> a = "finalize"
                 /\ a = "begin" => Lookup.state = "failed"
<1>1. ASSUME NEW r \in LiveIds PROVE Lookup = records[r] /\ Lookup.id = r
  BY <1>1, LookupIs
<1>2. CASE LiveIds = {}
  <2>1. Lookup.id = 0
    BY <1>2, LookupIs DEF NoRecord
  <2> QED BY <1>2, <2>1 DEF Accepts
<1>3. CASE LiveIds # {}
  <2>1. PICK r \in LiveIds : TRUE
    BY <1>3
  <2>2. Lookup = records[r] /\ Lookup.id = r
    BY <1>1
  <2>3. Lookup.id # 0
    BY <2>2, ConstantsAssumption DEF LiveIds, RecordIds
  <2>4. Lookup.state = "successful" <=> a = "finalize"
    <3>1. CASE a = "begin"
      BY <2>3, <3>1 DEF Accepts, RetryAllowed
    <3>2. CASE a # "begin"
      <4>1. Validates(a, Lookup, sub)
        BY <3>2 DEF Accepts
      <4> QED BY <4>1 DEF Validates, Resumable
    <3> QED BY <3>1, <3>2
  <2>5. a = "begin" => Lookup.state = "failed"
    BY <2>3 DEF Accepts, RetryAllowed
  <2>6. Whole(Lookup) /\ Place(Lookup, a = "finalize")
    BY <2>2, <2>4 DEF HandInv, Stored, Sides
  <2> QED BY <1>1, <2>2, <2>3, <2>4, <2>5, <2>6
<1> QED BY <1>2, <1>3

LEMMA NewCopy ==
    ASSUME IInv, HandInv, \A i \in Jobs : ~Past(i, 18), NEW k \in Jobs,
           NEW a \in JobActions \ {"rollback", "start", "stop"}, NEW sub,
           Accepts(a, Lookup, sub), UNCHANGED <<records, stored, vm>>,
           job'[k].action = a, job'[k].queue = vm.server,
           loc'[k].rec = Lookup,
           \/ mode'[k] = "request"
           \/ mode'[k] = "chain" /\ pc'[k] = 1 /\ a # "begin"
    PROVE  Copy(k)'
<1> HIDE DEF Lookup
<1> DEFINE rec == Lookup
<1>1. /\ rec.id = 0 => a = "begin" /\ LiveIds = {}
      /\ rec.id # 0 =>
            /\ rec.id \in LiveIds
            /\ \A r \in LiveIds : r = rec.id /\ records[r] = rec
            /\ Whole(rec) /\ Place(rec, a = "finalize")
            /\ rec.state = "successful" <=> a = "finalize"
            /\ a = "begin" => rec.state = "failed"
  BY AcceptsAre
<1>2. /\ UNCHANGED LiveIds /\ (Over(k)' <=> a = "finalize")
      /\ (Done(k)' <=> a = "finalize")
  BY DEF LiveIds, Over, Done, Past
<1> HIDE DEF rec
<1>3. loc'[k].rec = rec
  BY DEF rec
<1>4. CASE rec.id = 0
  <2>1. mode'[k] = "request" /\ a = "begin" /\ LiveIds = {}
    BY <1>1, <1>4
  <2> QED BY <1>2, <1>3, <1>4, <2>1 DEF Copy
<1>5. CASE rec.id # 0
  <2>1. TaskDone(k)'
    BY <1>1, <1>3, <1>5 DEF TaskDone
  <2>2. Whole(loc[k].rec)' /\ Place(loc[k].rec, Over(k))'
    BY <1>1, <1>2, <1>3, <1>5 DEF Whole, Apart, Place
  <2>3. \A r \in LiveIds' : Agrees(k, r)'
    BY <1>1, <1>2, <1>3, <1>5 DEF Agrees
  <2> QED BY <1>1, <1>2, <1>3, <1>5, <2>1, <2>2, <2>3 DEF Copy
<1> QED BY <1>4, <1>5

LEMMA SubtaskHand ==
    ASSUME IInv, SeqInv, HandInv, HandsOver, NEW j \in Jobs,
           NEW task, task \notin Handing, At(j, task), ~Starter(j),
           Switch(j) => pc[j] = 6, NEW a \in {"sync", "switch"},
           NEW final, NEW waits, RequestSubtask(j, a, final, waits)
    PROVE  HandInv'
<1>1. UNCHANGED <<records, stored, vm, inst>> /\ SameSeen
  BY DEF RequestSubtask, db, SameSeen
<1>2. CASE Fail(j) /\ UNCHANGED job
  BY <1>1, <1>2, PlainHand DEF Fail
<1>3. CASE ~(Fail(j) /\ UNCHANGED job)
  <2>1. /\ Accepts(a, Lookup, TRUE)
        /\ \E k \in Jobs :
               Queue(j, k, Params(a, TRUE, final), Lookup,
                     IF waits THEN [loc[j] EXCEPT !.child = k] ELSE loc[j])
    BY <1>3 DEF RequestSubtask
  <2>2. PICK k \in Jobs :
               Queue(j, k, Params(a, TRUE, final), Lookup,
                     IF waits THEN [loc[j] EXCEPT !.child = k] ELSE loc[j])
    BY <2>1
  <2> DEFINE params == Params(a, TRUE, final)
             l == IF waits THEN [loc[j] EXCEPT !.child = k] ELSE loc[j]
             rec == Lookup
  <2>3. params.action = a /\ params.queue = vm.server /\ l.rec = loc[j].rec
    BY LocalsRec DEF Params, IInv, Locals
  <2>4. Queue(j, k, params, rec, l)
    BY <2>2
  <2>5. j \in Active /\ ~Past(j, 18)
    BY ActiveIs DEF At, Past
  <2>6. \A i \in Jobs : ~Past(i, 18)
    BY <2>5, BesideEarly
  <2>7. a \in JobActions \ {"rollback", "start", "stop"}
    BY JobActionsAre
  <2> HIDE DEF params, l
  <2>8. ASSUME mode'[k] = "chain", pc'[k] = 1, job'[k] = params,
               loc'[k].rec = rec
        PROVE  Copy(k)'
    BY <1>1, <2>1, <2>3, <2>6, <2>7, <2>8, NewCopy
  <2> HIDE DEF rec
  <2> QED BY <1>1, <2>3, <2>4, <2>8, QueueHand
<1> QED BY <1>2, <1>3

LEMMA NextActionsHand ==
    ASSUME IInv, SeqInv, HandInv, HandsOver, NEW j \in Jobs,
           \/ StartSyncWhenAutomatic(j) \/ StartSyncOrSwitchWhenAutomatic(j)
           \/ StartFinalSync(j)
    PROVE  HandInv'
<1>1. ASSUME NEW task \in Chaining, At(j, task)
      PROVE  ~Starter(j) /\ ~Switch(j) /\ task \notin Handing
  BY <1>1, WhoseTaskAt DEF Starter, Switch, Chaining, Handing
<1>2. ASSUME NEW task \in Chaining, At(j, task), GoOn(j),
             UNCHANGED <<db, vm, inst, ticket, job, used>>
      PROVE  HandInv'
  <2>1. SameSeen
    BY <1>2 DEF SameSeen
  <2> QED BY <1>1, <1>2, <2>1, PlainHand DEF GoOn, db
<1>3. CASE StartSyncWhenAutomatic(j)
  BY <1>1, <1>2, <1>3, SubtaskHand DEF StartSyncWhenAutomatic, Chaining
<1>4. CASE StartSyncOrSwitchWhenAutomatic(j)
  <2> DEFINE a == IF loc[j].rec.syncs < 2 THEN "sync" ELSE "switch"
  <2>1. At(j, "startSyncOrSwitchWhenAutomatic")
    BY <1>4 DEF StartSyncOrSwitchWhenAutomatic
  <2>2. \/ RequestSubtask(j, a, FALSE, FALSE)
        \/ GoOn(j) /\ UNCHANGED <<db, vm, inst, ticket, job, used>>
    BY <1>4 DEF StartSyncOrSwitchWhenAutomatic
  <2>3. a \in {"sync", "switch"}
    OBVIOUS
  <2> HIDE DEF a
  <2> QED BY <1>1, <1>2, <2>1, <2>2, <2>3, SubtaskHand DEF Chaining
<1>5. CASE StartFinalSync(j)
  <2>1. At(j, "startFinalSync") /\ RequestSubtask(j, "sync", TRUE, TRUE)
    BY <1>5 DEF StartFinalSync
  <2>2. job[j].action = "switch" /\ pc[j] = 6
    BY <2>1, AtWhere, WhereInChain
  <2> QED BY <2>1, <2>2, SubtaskHand DEF Handing, Starter
<1> QED BY <1>3, <1>4, <1>5

-----------------------------------------------------------------------------
(* The requests.                                                           *)
LEMMA RequestHand ==
    ASSUME IInv, SeqInv, Sequential, HandInv, NEW k \in Jobs,
           RequestMigration(k)
    PROVE  HandInv'
<1>1. /\ mode[k] = "none" /\ Cardinality(Open) < MaxOpen
      /\ mode' = [mode EXCEPT ![k] = "request"]
      /\ loc' = [loc EXCEPT ![k].rec = Lookup]
      /\ UNCHANGED <<records, stored, vm, inst, pc>>
  BY DEF RequestMigration, Fresh, db
<1>2. PICK a \in Requested : /\ Accepts(a, Lookup, FALSE)
                             /\ job' = [job EXCEPT ![k] = Params(a, FALSE, FALSE)]
  BY DEF RequestMigration
<1>3. /\ mode \in [Jobs -> Modes] /\ loc \in [Jobs -> Locals]
      /\ job \in [Jobs -> JobParams]
  BY DEF IInv, ControlType
<1>4. a \in JobActions \ {"rollback", "start", "stop"}
  BY BoundsAssumption, JobActionsAre DEF Sequential, MigrationActions
<1>5. Active = {}
  BY <1>1, NoneOpen
<1>6. \A i \in Jobs : ~Past(i, 18) /\ ~Crossing(i)
  BY <1>5, ActiveIs DEF Past, Crossing
<1>7. /\ job'[k].action = a /\ job'[k].queue = vm.server
      /\ mode'[k] = "request" /\ loc'[k].rec = Lookup
  BY <1>1, <1>2, <1>3 DEF Params, Locals
<1>8. Copy(k)'
  BY <1>1, <1>2, <1>4, <1>6, <1>7, NewCopy
<1>9. Keeps(k)
  BY <1>6, <1>7, <1>8 DEF Keeps, Past
<1>10. ASSUME NEW i \in Jobs \ {k} PROVE Keeps(i)
  <2>1. Stands(i)
    BY <1>1, <1>2, <1>3 DEF Stands
  <2> QED BY <1>5, <2>1, RestsKeeps
<1>11. Shown' /\ Named'
  BY <1>1, <1>6, ShownKept, NamedKept DEF Visible, Veiled
<1> QED BY <1>1, <1>9, <1>10, <1>11, CoreKeeps

LEMMA StartHand ==
    ASSUME IInv, SeqInv, HandInv, NEW k \in Jobs, StartWorkflow(k)
    PROVE  HandInv'
<1>1. /\ mode[k] = "request" /\ job[k].action # "begin"
      /\ UNCHANGED <<records, stored, vm, inst, job, loc>>
      /\ \A i \in Jobs \ {k} : Stands(i)
      /\ mode'[k] = "chain" /\ pc'[k] = 1
  BY DEF StartWorkflow, db, IInv, ControlType, Stands
<1>2. k \in Active
  BY <1>1, ActiveIs
<1>3. ASSUME ~Starter(k)' PROVE Copy(k)'
  <2>1. Copy(k)
    BY <1>1, <1>2, <1>3 DEF HandInv, Copies, Starter
  <2>2. loc[k].rec.id # 0
    BY <1>1, <2>1 DEF Copy
  <2>3. TaskDone(k)'
    BY <1>1 DEF TaskDone
  <2>4. (Over(k)' <=> Over(k)) /\ (Done(k)' <=> Done(k))
    BY <1>1 DEF Over, Done, Past
  <2>5. SameRec(loc'[k].rec, loc[k].rec)
    BY <1>1 DEF SameRec
  <2> QED BY <1>1, <2>1, <2>2, <2>3, <2>4, <2>5, CopyKept
<1>4. Keeps(k)
  BY <1>1, <1>3 DEF Keeps, Past
<1>5. \A i \in Jobs \ {k} : Keeps(i)
  BY <1>1, StandsKeeps
<1>6. Shown' /\ Named'
  <2>1. \A i \in Jobs : Crossing(i) => Crossing(i)'
    BY <1>1 DEF Crossing, Past, Stands, Switch
  <2> QED BY <1>1, <2>1, ShownKept, NamedKept DEF Visible, Veiled
<1> QED BY <1>1, <1>4, <1>5, <1>6, CoreKeeps

\* What is hidden is named by the copy, too
LEMMA VeiledNamed ==
    ASSUME HandInv, NEW s \in Servers, Veiled(s), NEW j,
           \A r \in LiveIds : Agrees(j, r)
    PROVE  LiveIds # {} /\ s \in {loc[j].rec.source, loc[j].rec.target}
<1>1. PICK r \in LiveIds : s \in {records[r].source, records[r].target}
  BY DEF HandInv, Named
<1>2. Agrees(j, r)
  OBVIOUS
<1> QED BY <1>1, <1>2, ConstantsAssumption DEF Agrees

\* A begin stores its record and has its job queued, or ends
LEMMA CreateHand ==
    ASSUME IInv, SeqInv, HandInv, NEW k \in Jobs, CreateRecord(k)
    PROVE  HandInv'
<1> DEFINE old == loc[k].rec
<1>1. /\ mode[k] = "request" /\ job[k].action = "begin"
      /\ UNCHANGED <<vm, inst, job>>
  BY DEF CreateRecord
<1>2. /\ k \in Active /\ ~Starter(k) /\ ~Aux(k) /\ ~Switch(k) /\ ~Crossing(k)
      /\ ~Over(k) /\ ~Done(k)
  BY <1>1, ActiveIs DEF Starter, Aux, Switch, Crossing, Past, Over, Done
<1>3. Copy(k)
  BY <1>2 DEF HandInv, Copies
<1>4. PICK id, auto, rec :
        /\ id \in RecordIds /\ auto \in Automatic
        /\ rec = IF old.id = 0 THEN NewRecord(id, job[k].queue, auto) ELSE old
        /\ old.id # 0 => id = old.id
        /\ Store(rec)
        /\ \/ mode'[k] = "chain" /\ pc'[k] = 1 /\ loc'[k].rec = rec
           \/ mode'[k] = "failed"
        /\ \A i \in Jobs \ {k} : Stands(i)
  <2>1. /\ mode \in [Jobs -> Modes] /\ pc \in [Jobs -> Nat]
        /\ loc \in [Jobs -> Locals]
    BY DEF IInv, ControlType
  <2>2. PICK id \in RecordIds, auto \in Automatic :
          LET rec == IF old.id = 0
                     THEN NewRecord(id, job[k].queue, auto) ELSE old
          IN  /\ old.id # 0 => id = old.id
              /\ Store(rec)
              /\ \/ /\ mode' = [mode EXCEPT ![k] = "chain"]
                    /\ pc' = [pc EXCEPT ![k] = 1]
                    /\ loc' = [loc EXCEPT ![k].rec = rec]
                 \/ /\ mode' = [mode EXCEPT ![k] = "failed"]
                    /\ loc' = [loc EXCEPT ![k] = NoLocals]
                    /\ UNCHANGED pc
    BY DEF CreateRecord
  <2> DEFINE rec == IF old.id = 0
                    THEN NewRecord(id, job[k].queue, auto) ELSE old
  <2>3. /\ old.id # 0 => id = old.id
        /\ Store(rec)
        /\ \/ /\ mode' = [mode EXCEPT ![k] = "chain"]
              /\ pc' = [pc EXCEPT ![k] = 1]
              /\ loc' = [loc EXCEPT ![k].rec = rec]
           \/ /\ mode' = [mode EXCEPT ![k] = "failed"]
              /\ loc' = [loc EXCEPT ![k] = NoLocals]
              /\ UNCHANGED pc
    BY <2>2
  <2>4. rec = IF old.id = 0 THEN NewRecord(id, job[k].queue, auto) ELSE old
    OBVIOUS
  <2> HIDE DEF rec
  <2>5. \/ mode'[k] = "chain" /\ pc'[k] = 1 /\ loc'[k].rec = rec
        \/ mode'[k] = "failed"
    BY <2>1, <2>3 DEF Locals
  <2>6. \A i \in Jobs \ {k} : Stands(i)
    BY <1>1, <2>1, <2>3 DEF Stands
  <2> QED BY <2>3, <2>4, <2>5, <2>6
<1>5. /\ rec.id = id /\ Whole(rec) /\ vm.server = rec.source
      /\ rec.state # "successful" /\ \A r \in LiveIds : r = id
  <2>1. CASE old.id = 0
    <3>1. LiveIds = {} /\ job[k].queue = vm.server
      BY <1>3, <2>1 DEF Copy
    <3>2. vm.server \in Servers
      BY DEF IInv, DataType, VmRecord
    <3> QED BY <1>4, <2>1, <3>1, <3>2, ConstantsAssumption
            DEF NewRecord, Whole, Apart
  <2>2. CASE old.id # 0
    <3>1. /\ Whole(old) /\ Place(old, Over(k)) /\ TaskDone(k)
          /\ \A r \in LiveIds : Agrees(k, r)
      BY <1>3, <2>2 DEF Copy
    <3>2. old.state = "failed"
      BY <1>1, <3>1 DEF TaskDone
    <3> QED BY <1>2, <1>4, <2>2, <3>1, <3>2 DEF Place, Agrees
  <2> QED BY <2>1, <2>2
<1>6. /\ id \in LiveIds'
      /\ \A r \in LiveIds' : r = id /\ records'[r] = rec
  <2>1. records \in [RecordIds -> Record] /\ DOMAIN stored = RecordIds
    BY DEF IInv, DataType
  <2>2. /\ records' = [records EXCEPT ![id] = rec]
        /\ stored' = [stored EXCEPT ![id] = "live"]
    BY <1>4, <1>5 DEF Store
  <2> QED BY <1>4, <1>5, <2>1, <2>2 DEF LiveIds
<1>7. \A i \in Active' : i = k
  <2>1. \A i \in Active : i = k
    BY <1>2, AloneAtWork
  <2> QED BY <1>4, <2>1, ActiveIs, ActiveThen DEF Stands
<1>8. \A i \in Jobs, n \in {18, 20} : ~Past(i, n)'
  BY <1>1, <1>2, <1>7, ActiveThen DEF Past, Switch
<1>9. OneLive' /\ Ids' /\ Stored' /\ Sides'
  BY <1>1, <1>5, <1>6, <1>8
  DEF OneLive, Ids, Stored, Whole, Apart, Sides, Place
<1>10. Copies'
  <2>1. SUFFICES ASSUME k \in Active' PROVE Copy(k)'
    BY <1>7 DEF Copies
  <2>2. mode'[k] = "chain" /\ pc'[k] = 1 /\ loc'[k].rec = rec
    BY <1>4, <2>1, ActiveThen
  <2>3. ~Over(k)' /\ ~Done(k)'
    BY <1>1, <1>8 DEF Over, Done
  <2>4. TaskDone(k)'
    BY <1>1, <2>2 DEF TaskDone
  <2>5. \A r \in LiveIds' : Agrees(k, r)'
    BY <1>5, <1>6, <2>2, <2>3 DEF Agrees
  <2>6. Whole(loc[k].rec)' /\ Place(loc[k].rec, Over(k))'
    BY <1>1, <1>5, <2>2, <2>3 DEF Whole, Apart, Place
  <2>7. id # 0
    BY <1>4, ConstantsAssumption DEF RecordIds
  <2> QED BY <1>5, <1>6, <2>2, <2>4, <2>5, <2>6, <2>7 DEF Copy
<1>11. Shown'
  <2>1. \A i \in Jobs : ~Crossing(i)
    BY <1>2, NoCrossing
  <2> QED BY <1>1, <2>1, ShownKept DEF Visible
<1>12. Named'
  <2>1. SUFFICES ASSUME NEW s \in Servers, Veiled(s)
                 PROVE  s \in {rec.source, rec.target}
    BY <1>1, <1>6 DEF Named, Veiled
  <2>2. LiveIds # {}
    BY <2>1 DEF HandInv, Named
  <2>3. old.id # 0
    BY <1>3, <2>2 DEF Copy
  <2>4. rec = old /\ \A r \in LiveIds : Agrees(k, r)
    BY <1>3, <1>4, <2>3 DEF Copy
  <2> QED BY <2>1, <2>4, VeiledNamed
<1> QED BY <1>9, <1>10, <1>11, <1>12 DEF HandInv

-----------------------------------------------------------------------------
(* The end of a migration: the record is deleted, and what it named is gone.*)
LEMMA Unveiled ==
    ASSUME HandInv, Visible(vm.server), NEW j,
           \A r \in LiveIds : Agrees(j, r),
           NEW t, ~Exists(t),
           loc[j].rec.source \in {vm.server, t},
           loc[j].rec.target \in {vm.server, t}
    PROVE  \A s \in Servers : ~Veiled(s)
<1> SUFFICES ASSUME NEW s \in Servers, Veiled(s) PROVE FALSE
  OBVIOUS
<1>1. s \in {vm.server, t}
  BY VeiledNamed
<1> QED BY <1>1 DEF Visible, Veiled, Exists

LEMMA DeletedHand ==
    ASSUME IInv, SeqInv, HandInv, NEW j \in Active,
           ~Starter(j), ~Aux(j), ~Switch(j), \A r \in LiveIds : Agrees(j, r),
           stored' = [stored EXCEPT ![loc[j].rec.id] =
                          IF @ = "live" THEN "deleted" ELSE @],
           UNCHANGED <<vm, inst, job>>, \A i \in Jobs \ {j} : Stands(i),
           \A s \in Servers : ~Veiled(s),
           LiveIds' = {} /\ j \in Active' => Copy(j)'
    PROVE  HandInv'
<1>1. LiveIds' = {}
  <2>1. SUFFICES ASSUME NEW r \in LiveIds' PROVE FALSE
    OBVIOUS
  <2>2. r \in RecordIds /\ stored'[r] = "live"
    BY <2>1 DEF LiveIds
  <2>3. stored \in [RecordIds -> {"never", "live", "deleted"}]
    BY DEF IInv, DataType
  <2>4. r \in LiveIds /\ r # loc[j].rec.id
    BY <2>2, <2>3 DEF LiveIds
  <2> QED BY <2>4 DEF Agrees
<1>2. ~Crossing(j)
  BY DEF Crossing, Past
<1>3. Shown'
  <2>1. \A i \in Jobs : ~Crossing(i)
    BY <1>2, NoCrossing
  <2> QED BY <2>1, ShownKept DEF Visible
<1>4. Copies'
  <2>1. SUFFICES ASSUME NEW i \in Active', ~Starter(i)' PROVE Copy(i)'
    BY DEF Copies
  <2>2. i = j
    <3>1. i # j => i \in Active
      BY <2>1, ActiveIs, ActiveThen DEF Stands
    <3> QED BY <3>1, AloneAtWork
  <2> QED BY <1>1, <2>1, <2>2
<1> QED BY <1>1, <1>3, <1>4
        DEF HandInv, OneLive, Ids, Stored, Sides, Named, Veiled

LEMMA DropsHand ==
    ASSUME IInv, SeqInv, HandInv, HandsOver, NEW j \in Jobs,
           AbortWithoutTarget(j) \/ RemoveMigrationRecord(j)
    PROVE  HandInv'
<1> DEFINE rec == loc[j].rec
<1>1. CASE AbortWithoutTarget(j)
  <2>1. /\ mode[j] = "request" /\ job[j].action = "abort"
        /\ rec.target = NoServer /\ mode'[j] = "succeeded"
        /\ stored' = [stored EXCEPT ![rec.id] =
                          IF @ = "live" THEN "deleted" ELSE @]
        /\ UNCHANGED <<vm, inst, job>> /\ \A i \in Jobs \ {j} : Stands(i)
    BY <1>1 DEF AbortWithoutTarget, IInv, ControlType, Stands
  <2>2. /\ j \in Active /\ ~Starter(j) /\ ~Aux(j) /\ ~Switch(j)
        /\ ~Crossing(j) /\ ~Over(j)
    BY <2>1, ActiveIs DEF Starter, Aux, Switch, Crossing, Past, Over
  <2>3. Copy(j) /\ rec.id # 0
    BY <2>1, <2>2 DEF HandInv, Copies, Copy
  <2>4. vm.server = rec.source /\ \A r \in LiveIds : Agrees(j, r)
    BY <2>2, <2>3 DEF Copy, Place
  <2>5. Visible(vm.server)
    BY <2>2, NoCrossing DEF HandInv, Shown
  <2>6. ~Exists(NoServer)
    BY ConstantsAssumption DEF Exists
  <2>7. \A s \in Servers : ~Veiled(s)
    BY <2>1, <2>4, <2>5, <2>6, Unveiled
  <2>8. j \notin Active'
    BY <2>1, ActiveThen
  <2> QED BY <2>1, <2>2, <2>4, <2>7, <2>8, DeletedHand
<1>2. CASE RemoveMigrationRecord(j)
  <2>1. /\ At(j, "removeMigrationRecord") /\ GoOn(j)
        /\ stored' = [stored EXCEPT ![rec.id] =
                          IF @ = "live" THEN "deleted" ELSE @]
        /\ UNCHANGED <<vm, inst, job>>
    BY <1>2 DEF RemoveMigrationRecord
  <2>2. job[j].action = "finalize" /\ pc[j] = 2 /\ mode[j] = "chain"
    BY <2>1, AtWhere, WhereInChain
  <2>3. /\ ~Starter(j) /\ ~Aux(j) /\ ~Switch(j) /\ ~Crossing(j) /\ Over(j)
    BY <2>2 DEF Starter, Aux, Switch, Crossing, Past, Over
  <2>4. /\ j \in Active /\ Place(rec, Over(j)) /\ TaskDone(j)
        /\ \A r \in LiveIds : Agrees(j, r)
    BY <2>2, <2>3, CopyAt
  <2>5. vm.server = rec.target /\ ~Exists(rec.source)
    BY <2>2, <2>3, <2>4 DEF Place, TaskDone
  <2>6. Visible(vm.server)
    BY <2>3, <2>4, NoCrossing DEF HandInv, Shown
  <2>7. \A s \in Servers : ~Veiled(s)
    BY <2>4, <2>5, <2>6, Unveiled
  <2>8. IsLast(j)
    <3>1. Len(Chain["finalize"]) = 2
      BY DEF Chain, Chains
    <3>2. Tasks(j) = Chain["finalize"]
      BY <2>2 DEF Tasks
    <3> QED BY <2>2, <3>1, <3>2 DEF IsLast
  <2>9. mode'[j] \in Ended /\ \A i \in Jobs \ {j} : Stands(i)
    BY <2>1, <2>2, <2>8, ProceedFacts DEF GoOn
  <2>10. j \notin Active'
    BY <2>9 DEF Active
  <2> QED BY <2>1, <2>3, <2>4, <2>7, <2>9, <2>10, DeletedHand
<1> QED BY <1>1, <1>2

\* An abort that is done deletes its record
LEMMA AbortDoneHand ==
    ASSUME IInv, SeqInv, HandInv, HandsOver, NEW j \in Jobs, StoreSuccess(j),
           job[j].action = "abort"
    PROVE  HandInv'
<1> DEFINE old == loc[j].rec
           rec == Succeeded(old, job[j].action, loc[j].idx, job[j].subtask)
           l == [loc[j] EXCEPT !.rec = rec]
<1>1. /\ At(j, "storeSuccess") /\ UNCHANGED <<vm, inst, job>>
      /\ \/ Store(rec) /\ Proceed(j, l)
         \/ FailWith(j, l) /\ UNCHANGED <<records, stored>>
  BY DEF StoreSuccess, StoreTask, db
<1>2. pc[j] = 6 /\ mode[j] = "chain"
  BY <1>1, AtWhere, WhereInChain
<1>3. ~Starter(j) /\ ~Aux(j) /\ ~Switch(j) /\ ~Crossing(j) /\ ~Over(j)
  BY DEF Starter, Aux, Switch, Crossing, Past, Over
<1>4. /\ j \in Active /\ old.id # 0 /\ Whole(old) /\ Place(old, Over(j))
      /\ TaskDone(j) /\ \A r \in LiveIds : Agrees(j, r)
  BY <1>2, <1>3, CopyAt
<1>5. old \in Record /\ l.rec = rec
  BY LocalsRec DEF IInv, Locals
<1>6. SameRec(rec, old)
  BY <1>5, SameRecOf
<1>7. rec.state = "successful" /\ rec.phase = "abort"
  <2>1. rec.state = "successful" /\ rec.phase = old.phase
    BY <1>5, StateOf
  <2> QED BY <1>2, <1>4, <2>1 DEF TaskDone
<1> HIDE DEF rec, l
<1>8. CASE FailWith(j, l) /\ UNCHANGED <<records, stored>>
  BY <1>1, <1>2, <1>5, <1>6, <1>8, FailHand
<1>9. CASE Store(rec) /\ Proceed(j, l)
  <2>1. /\ stored' = [stored EXCEPT ![old.id] =
                          IF @ = "live" THEN "deleted" ELSE @]
        /\ vm.server = old.source /\ ~Exists(old.target)
    BY <1>2, <1>3, <1>4, <1>6, <1>7, <1>9 DEF Store, SameRec, Place, TaskDone
  <2>2. Visible(vm.server)
    BY <1>3, <1>4, NoCrossing DEF HandInv, Shown
  <2>3. \A s \in Servers : ~Veiled(s)
    BY <1>4, <2>1, <2>2, Unveiled
  <2>4. ~IsLast(j)
    <3>1. Len(Chain["abort"]) = 7
      BY DEF Chain, Chains, AbortChain
    <3>2. Tasks(j) = Chain["abort"]
      BY <1>2 DEF Tasks
    <3> QED BY <1>2, <3>1, <3>2 DEF IsLast
  <2>5. /\ \A i \in Jobs \ {j} : Stands(i)
        /\ mode'[j] = "chain" /\ pc'[j] = 7 /\ loc'[j].rec = rec
    BY <1>1, <1>2, <1>5, <1>9, <2>4, ProceedFacts
  <2>6. ASSUME LiveIds' = {} PROVE Copy(j)'
    <3>1. TaskDone(j)'
      BY <1>1, <1>7, <2>5 DEF TaskDone
    <3>2. Whole(loc[j].rec)' /\ ~Over(j)'
      BY <1>1, <1>4, <1>6, <2>5 DEF Whole, Apart, SameRec, Over, Past, Switch
    <3>3. Place(loc[j].rec, Over(j))'
      BY <1>1, <1>6, <2>1, <2>5, <3>2 DEF Place, SameRec
    <3> QED BY <1>1, <1>4, <1>6, <2>5, <2>6, <3>1, <3>2, <3>3
            DEF Copy, Whole, Apart, SameRec
  <2> QED BY <1>1, <1>3, <1>4, <2>1, <2>3, <2>5, <2>6, DeletedHand
<1> QED BY <1>1, <1>8, <1>9

\* A switch that has shown the target is done
LEMMA SwitchDoneHand ==
    ASSUME IInv, SeqInv, HandInv, HandsOver, NEW j \in Jobs, StoreSuccess(j),
           job[j].action = "switch"
    PROVE  HandInv'
<1> DEFINE old == loc[j].rec
           rec == Succeeded(old, job[j].action, loc[j].idx, job[j].subtask)
           l == [loc[j] EXCEPT !.rec = rec]
<1>1. /\ At(j, "storeSuccess") /\ UNCHANGED <<vm, inst, job>>
      /\ \/ Store(rec) /\ Proceed(j, l)
         \/ FailWith(j, l) /\ UNCHANGED <<records, stored>>
  BY DEF StoreSuccess, StoreTask, db
<1>2. pc[j] = 19 /\ mode[j] = "chain"
  BY <1>1, AtWhere, WhereInChain
<1>3. ~Starter(j) /\ Switch(j) /\ ~Crossing(j) /\ Over(j)
  BY <1>2 DEF Starter, Switch, Crossing, Past, Over
<1>4. /\ j \in Active /\ old.id \in LiveIds /\ Whole(old)
      /\ Place(old, Over(j)) /\ TaskDone(j) /\ \A r \in LiveIds : Agrees(j, r)
  BY <1>2, <1>3, CopyAt
<1>5. old \in Record /\ l.rec = rec
  BY LocalsRec DEF IInv, Locals
<1>6. SameRec(rec, old)
  BY <1>5, SameRecOf
<1>7. rec.state = "successful" /\ rec.phase = "switch"
  <2>1. rec.state = "successful" /\ rec.phase = old.phase
    BY <1>5, StateOf
  <2> QED BY <1>2, <1>4, <2>1 DEF TaskDone
<1> HIDE DEF rec, l
<1>8. CASE FailWith(j, l) /\ UNCHANGED <<records, stored>>
  BY <1>1, <1>2, <1>5, <1>6, <1>8, FailHand
<1>9. CASE Store(rec) /\ Proceed(j, l)
  <2>1. rec.id \in RecordIds /\ rec.id # 0
    BY <1>4, <1>6, ConstantsAssumption DEF LiveIds, SameRec, RecordIds
  <2>2. /\ rec.id \in LiveIds'
        /\ \A r \in LiveIds' : r = rec.id /\ records'[r] = rec
    <3>1. /\ records' = [records EXCEPT ![rec.id] = rec]
          /\ stored' = [stored EXCEPT ![rec.id] = "live"]
      BY <1>7, <1>9 DEF Store
    <3>2. \A r \in LiveIds : r = rec.id
      BY <1>4, <1>6 DEF Agrees, SameRec
    <3>3. records \in [RecordIds -> Record] /\ DOMAIN stored = RecordIds
      BY DEF IInv, DataType
    <3> QED BY <2>1, <3>1, <3>2, <3>3 DEF LiveIds
  <2>3. Whole(rec) /\ vm.server = rec.target
    BY <1>3, <1>4, <1>6 DEF Place, Whole, Apart, SameRec
  <2>4. ~IsLast(j)
    <3>1. Len(Chain["switch"]) = 22
      BY DEF Chain, Chains, SwitchChain
    <3>2. Tasks(j) = Chain["switch"]
      BY <1>2 DEF Tasks
    <3> QED BY <1>2, <3>1, <3>2 DEF IsLast
  <2>5. /\ \A i \in Jobs \ {j} : Stands(i)
        /\ mode'[j] = "chain" /\ pc'[j] = 20 /\ loc'[j].rec = rec
    BY <1>1, <1>2, <1>5, <1>9, <2>4, ProceedFacts
  <2>6. OneLive' /\ Ids' /\ Stored' /\ Sides'
    BY <1>1, <1>7, <2>2, <2>3
    DEF OneLive, Ids, Stored, Whole, Apart, Sides, Place
  <2>7. Copies'
    <3>1. SUFFICES ASSUME NEW i \in Active', ~Starter(i)' PROVE Copy(i)'
      BY DEF Copies
    <3>2. i = j
      <4>1. SUFFICES ASSUME i # j PROVE FALSE
        OBVIOUS
      <4>2. i \in Active /\ ~Starter(i)
        BY <1>1, <2>5, <3>1, <4>1, ActiveIs, ActiveThen DEF Stands, Starter
      <4> QED BY <1>2, <1>3, <1>4, <4>1, <4>2, Beside DEF Cleaning
    <3>3. Over(j)' /\ Done(j)'
      BY <1>1, <1>3, <2>5 DEF Over, Done, Past, Switch
    <3>4. TaskDone(j)'
      BY <1>1, <2>5 DEF TaskDone
    <3>5. Whole(loc[j].rec)' /\ Place(loc[j].rec, Over(j))'
      BY <1>1, <2>3, <2>5, <3>3 DEF Whole, Apart, Place
    <3>6. \A r \in LiveIds' : Agrees(j, r)'
      BY <1>7, <2>2, <2>5, <3>3 DEF Agrees
    <3> QED BY <2>1, <2>2, <2>5, <3>2, <3>4, <3>5, <3>6 DEF Copy
  <2>8. Shown'
    <3>1. \A i \in Jobs : ~Crossing(i)
      BY <1>3, <1>4, NoCrossing
    <3> QED BY <1>1, <3>1, ShownKept DEF Visible
  <2>9. Named'
    <3>1. SUFFICES ASSUME NEW s \in Servers, Veiled(s)
                   PROVE  s \in {rec.source, rec.target}
      BY <1>1, <2>2 DEF Named, Veiled
    <3>2. \A r \in LiveIds : Agrees(j, r)
      BY <1>4
    <3>3. s \in {old.source, old.target}
      BY <3>1, <3>2, VeiledNamed
    <3> QED BY <1>6, <3>3 DEF SameRec
  <2> QED BY <2>6, <2>7, <2>8, <2>9 DEF HandInv
<1> QED BY <1>1, <1>8, <1>9

-----------------------------------------------------------------------------
(* The steps of no task.                                                   *)
LEMMA FaultsHand ==
    ASSUME IInv, SeqInv, HandInv, HandsOver, NEW j \in Jobs,
           TaskFails(j) \/ CleanupFails(j)
    PROVE  HandInv'
<1>1. UNCHANGED <<records, stored, vm, inst, job>>
  BY DEF TaskFails, CleanupFails, db
<1>2. CASE TaskFails(j)
  <2>1. mode[j] = "chain" /\ FailWith(j, loc[j])
    BY <1>2 DEF TaskFails, Fail
  <2>2. SameRec(loc[j].rec, loc[j].rec)
    BY DEF SameRec
  <2> QED BY <1>1, <2>1, <2>2, FailHand
<1>3. CASE CleanupFails(j)
  <2>1. /\ mode[j] \in Cleaning /\ mode'[j] = Outcome[mode[j]]
        /\ \A i \in Jobs \ {j} : Stands(i)
    BY <1>1, <1>3 DEF CleanupFails, AtCleanup, IInv, ControlType, Stands
  <2>2. mode'[j] \in Ended /\ ~Past(j, 18) /\ ~Crossing(j)
    BY <2>1 DEF Outcome, Cleaning, Ended, Past, Crossing
  <2>3. \A i \in Jobs : Keeps(i)
    BY <1>1, <2>1, <2>2, EndsKeeps, StandsKeeps
  <2>4. \A i \in Jobs : Crossing(i) => Crossing(i)'
    BY <2>1, <2>2 DEF Crossing, Past, Stands, Switch
  <2>5. Shown' /\ Named'
    BY <1>1, <2>4, ShownKept, NamedKept DEF Visible, Veiled
  <2> QED BY <1>1, <2>3, <2>5, CoreKeeps
<1> QED BY <1>2, <1>3

LEMMA OthersHand ==
    ASSUME IInv, SeqInv, HandInv,
           UNCHANGED <<records, stored, inst, job, mode, pc, loc>>,
           UNCHANGED vm \/ \E s \in Servers : AgentReport(s)
    PROVE  HandInv'
<1>1. vm'.server = vm.server
  <2>1. ASSUME NEW s \in Servers, AgentReport(s) PROVE vm'.server = vm.server
    BY <2>1 DEF AgentReport, SeqInv, VisibleAtVm, Visible
  <2> QED BY <2>1
<1>2. \A i \in Jobs : Stands(i)
  BY DEF Stands
<1>3. \A i \in Jobs : Keeps(i)
  BY <1>1, <1>2, StandsKeeps
<1>4. \A i \in Jobs : Crossing(i) => Crossing(i)'
  BY DEF Crossing, Past, Switch
<1>5. Shown' /\ Named'
  BY <1>1, <1>4, ShownKept, NamedKept DEF Visible, Veiled
<1> QED BY <1>1, <1>3, <1>5, CoreKeeps

\* The tasks of rollback alone
LEMMA NoRolling ==
    ASSUME IInv, SeqInv, NEW j \in Jobs
    PROVE  /\ ~StopTargetVm(j) /\ ~SetTargetDoNotInventory(j)
           /\ ~RemoveSourceDoNotInventory(j) /\ ~RollbackDeleteTargetDniVm(j)
<1>1. ~At(j, "stopTargetVm") /\ ~At(j, "removeSourceDoNotInventory")
  BY WhoseTaskAt DEF Rolling
<1>2. /\ ~At(j, "setTargetDoNotInventory")
      /\ ~At(j, "rollbackDeleteTargetDniVm")
  BY AtWhere, WhereInChain
<1>3. ~StopTargetVm(j)
  BY <1>1 DEF StopTargetVm
<1>4. ~RemoveSourceDoNotInventory(j)
  BY <1>1 DEF RemoveSourceDoNotInventory, SetDoNotInventory
<1>5. ~SetTargetDoNotInventory(j)
  BY <1>2 DEF SetTargetDoNotInventory, SetDoNotInventory, Check
<1>6. ~RollbackDeleteTargetDniVm(j)
  BY <1>2 DEF RollbackDeleteTargetDniVm, DeleteInstance
<1> QED BY <1>3, <1>4, <1>5, <1>6

LEMMA JobStepHand ==
    ASSUME IInv, SeqInv, HandInv, HandsOver, NEW j \in Jobs, JobStep(j)
    PROVE  HandInv'
<1>1. CASE MigrationTask(j)
  BY <1>1, AllocateHand, ProvisionHand, NextActionsHand, StoreTasksHand,
     RunTasksHand, InterruptTasksHand, ReloadHand, StopOrStartHand,
     PlainTasksHand, ShowsHand, MovesVmHand, RemovesHand, DropsHand, NoRolling
  DEF MigrationTask
<1>2. CASE StoreSuccess(j)
  <2>1. job[j].action \in {"begin", "sync", "switch", "abort"}
    <3>1. At(j, "storeSuccess")
      BY <1>2 DEF StoreSuccess
    <3> QED BY <3>1, AtWhere, WhereInChain
  <2> QED BY <1>2, <2>1, StoreTasksHand, SwitchDoneHand, AbortDoneHand
<1>3. CASE SharedTask(j) /\ ~StoreSuccess(j)
  BY <1>3, PlainTasksHand, StoreTasksHand, RunTasksHand DEF SharedTask
<1> QED BY <1>1, <1>2, <1>3 DEF JobStep

LEMMA InitHand == Init => HandInv
<1> SUFFICES ASSUME Init PROVE HandInv
  OBVIOUS
<1>1. PICK s \in Servers, state \in {"running", "stopped"} :
        /\ vm = [server |-> s, state |-> state]
        /\ inst = [t \in Servers |->
                      [exists |-> t = s, hidden |-> FALSE,
                       running |-> t = s /\ state = "running",
                       current |-> t = s]]
  BY DEF Init
<1>2. LiveIds = {}
  BY DEF Init, LiveIds
<1>3. OneLive /\ Ids /\ Stored /\ Sides
  BY <1>2 DEF OneLive, Ids, Stored, Sides
<1>4. Copies
  BY ActiveIs DEF Init, Copies
<1>5. Visible(vm.server) /\ \A t \in Servers : ~Veiled(t)
  BY <1>1 DEF Visible, Veiled
<1> QED BY <1>3, <1>4, <1>5 DEF HandInv, Shown, Named

LEMMA NextHand ==
    ASSUME Sequential, IInv, SeqInv, HandInv, [Next]_vars, [HandsOver]_vars
    PROVE  HandInv'
<1>1. CASE UNCHANGED vars
  BY <1>1, OthersHand DEF vars
<1>2. ASSUME NEW j \in Jobs, HandsOver,
             \/ JobStep(j) \/ RequestStep(j) \/ RequestMigration(j)
             \/ TaskFails(j) \/ CleanupFails(j)
      PROVE  HandInv'
  BY <1>2, JobStepHand, RequestHand, CreateHand, DropsHand, StartHand,
     FaultsHand
  DEF RequestStep
<1>3. ~UserAction
  <2>1. used.user \in Nat /\ MaxUserActions = 0
    BY DEF IInv, DataType, Sequential
  <2> QED BY <2>1 DEF UserAction
<1>4. ASSUME NEW s \in Servers, TicketExpires(s) \/ AgentReport(s)
      PROVE  HandInv'
  BY <1>4, OthersHand DEF TicketExpires, AgentReport, db
<1> QED BY <1>1, <1>2, <1>3, <1>4
        DEF Next, Quiescent, UserStartsOrStops, DeleteVmMigration

LEMMA HandedOver ==
    ASSUME Sequential
    PROVE  Spec /\ [][HandsOver]_vars => [](IInv /\ SeqInv /\ HandInv)
<1> DEFINE Inv == IInv /\ SeqInv /\ HandInv
<1>1. Init => Inv
  BY InitInv, InitSeq, InitHand
<1>2. Inv /\ [Next]_vars /\ [HandsOver]_vars => Inv'
  BY NextInv, NextSeq, NextHand
<1> QED BY <1>1, <1>2, PTL DEF Spec

-----------------------------------------------------------------------------
(* No hidden instance is left that no record names, which nothing would    *)
(* remove any more, when the callers ask for one thing at a time, and not  *)
(* for rollback, and no switch fails once it has hidden the source:        *)
(* whichever tasks of begin, sync, pause, abort and finalize fail,         *)
(* whichever of the switch's fail earlier and whichever tickets expire.    *)
THEOREM NoOrphanHandedOver ==
    ASSUME Sequential
    PROVE  Spec /\ [][HandsOver]_vars => []NoOrphan
<1>1. HandInv => NoOrphan
  BY DEF HandInv, Named, Veiled, NoOrphan
<1> QED BY <1>1, HandedOver, PTL

-----------------------------------------------------------------------------
(* The flag that lets a begin be asked for again.  A record that is past   *)
(* its begin never goes back to that phase.                                *)
Early(rec) == rec.phase = "begin" => RunningSyncs(rec) = {}
Clear(rec) == RetryAllowed(rec) => ~Exists(rec.target)

Kept == \A r \in LiveIds : Early(records[r]) /\ Clear(records[r])

\* A begin has the flag set in its copy before it makes the target
Flagged(j) ==
    LET rec == loc[j].rec
    IN  /\ rec.phase = "begin"
        /\ loc[j].idx # 0 => loc[j].idx = Len(rec.history)
        /\ loc[j].noRetry \/ ~Exists(rec.target)
        /\ mode[j] = "chain" =>
               /\ pc[j] >= 4 => \A r \in LiveIds : records[r].state # "failed"
               /\ pc[j] >= 5 => loc[j].noRetry

\* The entry another job writes to is not of a begin
Entered(j) ==
    /\ loc[j].idx # 0 => loc[j].rec.phase # "begin"
    /\ Switch(j) /\ mode[j] = "chain" /\ pc[j] <= 10 => loc[j].idx = 0

Noted(j) ==
    /\ Early(loc[j].rec)
    /\ job[j].action = "begin" => Flagged(j)
    /\ job[j].action # "begin" => Entered(j)

\* Before its first task a job has nothing but its copy
New(i) == mode[i] \in {"none", "request"}
Blank(j) == New(j) => loc[j].idx = 0 /\ loc[j].noRetry = FALSE

RetryInv ==
    /\ Kept
    /\ \A j \in Jobs : Blank(j)
    /\ \A j \in Active : ~Starter(j) => Noted(j)

-----------------------------------------------------------------------------
(* What a step does to a job: it stands, ends, goes on with what it has,   *)
(* or has something else that is sound.                                    *)
Carries(i) ==
    /\ i \in Active /\ UNCHANGED job[i]
    /\ loc'[i].rec = loc[i].rec /\ loc'[i].idx = loc[i].idx
    /\ loc'[i].noRetry = loc[i].noRetry
    /\ New(i)' => New(i)
    /\ mode'[i] = "chain" =>
           \/ mode[i] = "request" /\ pc'[i] = 1
           \/ /\ mode[i] = "chain" /\ pc'[i] = pc[i] + 1
              /\ job[i].action = "begin" => pc[i] \notin {3, 4}

Fares(i) ==
    \/ Stands(i)
    \/ mode'[i] \in Ended
    \/ Carries(i)
    \/ ~New(i)' /\ (Starter(i)' \/ Noted(i)')

NoneMade == \A s \in Servers : inst'[s].exists => inst[s].exists
NoneStored == \A r \in LiveIds' : r \in LiveIds /\ records'[r] = records[r]

LEMMA ExistsThen ==
    ASSUME NoneMade, NEW s
    PROVE  Exists(s)' => Exists(s)
BY DEF NoneMade, Exists

LEMMA KeptThen ==
    ASSUME RetryInv, NoneMade, NoneStored
    PROVE  Kept'
<1> SUFFICES ASSUME NEW r \in LiveIds'
             PROVE  (Early(records[r]) /\ Clear(records[r]))'
  BY DEF Kept
<1>1. r \in LiveIds /\ records'[r] = records[r]
  BY DEF NoneStored
<1>2. Early(records[r]) /\ Clear(records[r])
  BY <1>1 DEF RetryInv, Kept
<1>3. Early(records[r])'
  BY <1>1, <1>2 DEF Early
<1>4. Clear(records[r])'
  BY <1>1, <1>2, ExistsThen DEF Clear
<1> QED BY <1>3, <1>4

LEMMA StandsNoted ==
    ASSUME RetryInv, NEW i \in Active', ~Starter(i)', Stands(i),
           job[i].action # "begin" \/ (NoneMade /\ NoneStored)
    PROVE  Noted(i)'
<1>1. i \in Active /\ ~Starter(i)
  BY ActiveIs, ActiveThen DEF Stands, Starter
<1>2. Noted(i)
  BY <1>1 DEF RetryInv
<1>3. CASE job[i].action # "begin"
  BY <1>2, <1>3 DEF Noted, Entered, Early, Stands, Switch
<1>4. CASE job[i].action = "begin" /\ NoneMade /\ NoneStored
  <2>1. Flagged(i)
    BY <1>2, <1>4 DEF Noted
  <2>2. Flagged(i)'
    BY <1>4, <2>1, ExistsThen DEF Flagged, Stands, NoneStored
  <2> QED BY <1>2, <1>4, <2>2 DEF Noted, Early, Stands
<1> QED BY <1>3, <1>4

LEMMA CarriesNoted ==
    ASSUME IInv, RetryInv, NEW i, Carries(i), ~Starter(i), NoneMade, NoneStored
    PROVE  Noted(i)'
<1>1. Noted(i) /\ i \in Active /\ i \in Jobs /\ pc[i] \in Nat
  BY ActiveIs DEF RetryInv, Carries, IInv, ControlType
<1>2. Early(loc[i].rec)'
  BY <1>1 DEF Noted, Early, Carries
<1>3. CASE job[i].action = "begin"
  <2>1. Flagged(i)
    BY <1>1, <1>3 DEF Noted
  <2>2. mode'[i] = "chain" /\ pc'[i] >= 4 => mode[i] = "chain" /\ pc[i] >= 4
    BY <1>1, <1>3 DEF Carries
  <2>3. mode'[i] = "chain" /\ pc'[i] >= 5 => mode[i] = "chain" /\ pc[i] >= 5
    BY <1>1, <1>3 DEF Carries
  <2>4. Flagged(i)'
    BY <2>1, <2>2, <2>3, ExistsThen DEF Flagged, Carries, NoneStored
  <2> QED BY <1>2, <1>3, <2>4 DEF Noted, Carries
<1>4. CASE job[i].action # "begin"
  <2>1. Entered(i) /\ Blank(i)
    BY <1>1, <1>4 DEF Noted, RetryInv
  <2>2. Entered(i)'
    BY <1>1, <2>1 DEF Entered, Blank, New, Carries, Switch
  <2> QED BY <1>2, <1>4, <2>2 DEF Noted, Carries
<1> QED BY <1>3, <1>4

LEMMA BlankThen ==
    ASSUME RetryInv, NEW i \in Jobs, Fares(i)
    PROVE  Blank(i)'
BY DEF RetryInv, Blank, Fares, Stands, Carries, New, Ended

LEMMA DataRetry ==
    ASSUME IInv, RetryInv, NoneMade, NoneStored, \A i \in Jobs : Fares(i)
    PROVE  RetryInv'
<1>1. ASSUME NEW i \in Active', ~Starter(i)' PROVE Noted(i)'
  <2>1. i \in Jobs /\ mode'[i] \notin Ended
    BY ActiveThen DEF Ended
  <2>2. Fares(i)
    BY <2>1
  <2>3. CASE Stands(i)
    BY <1>1, <2>3, StandsNoted
  <2>4. CASE Carries(i)
    BY <1>1, <2>4, CarriesNoted DEF Carries, Starter
  <2> QED BY <1>1, <2>1, <2>2, <2>3, <2>4 DEF Fares
<1> QED BY <1>1, KeptThen, BlankThen DEF RetryInv

\* A job that stores its record
LEMMA StoreRetry ==
    ASSUME IInv, SeqInv, RetryInv, NEW j \in Active, ~Starter(j),
           NEW rec, Store(rec), Early(rec), Clear(rec), UNCHANGED inst,
           \A i \in Jobs \ {j} : Stands(i),
           mode'[j] \in Ended \/ (~New(j)' /\ Noted(j)')
    PROVE  RetryInv'
<1>1. ASSUME NEW r \in LiveIds'
      PROVE  \/ records'[r] = rec
             \/ r \in LiveIds /\ records'[r] = records[r]
  <2>1. records \in [RecordIds -> Record] /\ DOMAIN stored = RecordIds
    BY DEF IInv, DataType
  <2> QED BY <1>1, <2>1 DEF Store, LiveIds
<1>2. NoneMade
  BY DEF NoneMade
<1>3. Kept'
  <2>1. SUFFICES ASSUME NEW r \in LiveIds'
                 PROVE  (Early(records[r]) /\ Clear(records[r]))'
    BY DEF Kept
  <2>2. PICK old : /\ records'[r] = old /\ Early(old) /\ Clear(old)
    BY <1>1 DEF RetryInv, Kept
  <2>3. Early(records[r])'
    BY <2>2 DEF Early
  <2>4. Clear(records[r])'
    BY <1>2, <2>2, ExistsThen DEF Clear
  <2> QED BY <2>3, <2>4
<1>4. ASSUME NEW i \in Active', ~Starter(i)' PROVE Noted(i)'
  <2>1. i \in Jobs /\ mode'[i] \notin Ended
    BY ActiveThen DEF Ended
  <2>2. CASE i = j
    BY <2>1, <2>2
  <2>3. CASE i # j
    <3>1. Stands(i) /\ i \in Active
      BY <2>1, <2>3, ActiveIs, ActiveThen DEF Stands
    <3>2. job[i].action # "begin"
      BY <2>3, <3>1, AloneAtWork DEF Aux, Starter, Switch
    <3> QED BY <1>4, <3>1, <3>2, StandsNoted
  <2> QED BY <2>2, <2>3
<1>5. \A i \in Jobs : Fares(i)
  BY DEF Fares
<1> QED BY <1>3, <1>4, <1>5, BlankThen DEF RetryInv

-----------------------------------------------------------------------------
(* Tasks that leave the record, the copy, its entry and its flag.          *)
LEMMA FailFares ==
    ASSUME IInv, NEW j \in Jobs, mode[j] = "chain", HandsOver,
           Fail(j), UNCHANGED job
    PROVE  \A i \in Jobs : Fares(i)
<1>1. /\ \A i \in Jobs \ {j} : Stands(i)
      /\ \/ mode'[j] = "failed"
         \/ mode'[j] = "onerror" /\ loc'[j] = loc[j]
  BY FailFacts DEF Fail
<1>2. j \in Active
  BY ActiveIs
<1>3. Fares(j)
  BY <1>1, <1>2 DEF Fares, Carries, Ended, New
<1> QED BY <1>1, <1>3 DEF Fares

LEMMA PlainFares ==
    ASSUME IInv, NEW j \in Jobs, HandsOver,
           NEW task, task \notin {"storeInitialRecord", "disallowRetry"},
           At(j, task) \/ AtCleanup(j, task),
           NEW l, l.rec = loc[j].rec, l.idx = loc[j].idx,
           l.noRetry = loc[j].noRetry, Proceed(j, l), UNCHANGED job
    PROVE  \A i \in Jobs : Fares(i)
<1>1. /\ mode[j] \in {"chain"} \cup Cleaning /\ j \in Active
      /\ mode[j] = "chain" <=> At(j, task)
  BY ActiveIs DEF At, AtCleanup, Cleaning
<1>2. \A i \in Jobs \ {j} : Stands(i)
  BY <1>1, ProceedFacts
<1>3. CASE IsLast(j)
  <2>1. mode'[j] \in Ended
    BY <1>1, <1>3, ProceedFacts
  <2> QED BY <1>2, <2>1 DEF Fares
<1>4. CASE ~IsLast(j)
  <2>1. mode'[j] = mode[j] /\ pc'[j] = pc[j] + 1 /\ loc'[j] = l
    BY <1>1, <1>4, ProceedFacts
  <2>2. mode[j] = "chain" /\ job[j].action = "begin" => pc[j] \notin {3, 4}
    <3>1. /\ Chain["begin"] = BeginChain
          /\ BeginChain[3] = "storeInitialRecord"
          /\ BeginChain[4] = "disallowRetry"
      BY DEF Chain, Chains, BeginChain
    <3> QED BY <1>1, <3>1 DEF At
  <2>3. ~New(j) /\ ~New(j)'
    BY <1>1, <2>1 DEF New, Cleaning
  <2>4. mode[j] # "chain" => mode'[j] # "chain"
    BY <2>1
  <2>5. Carries(j)
    BY <1>1, <2>1, <2>2, <2>3, <2>4 DEF Carries
  <2> QED BY <1>2, <2>5 DEF Fares
<1> QED BY <1>3, <1>4

LEMMA PlainRetry ==
    ASSUME IInv, RetryInv, NEW j \in Jobs, HandsOver,
           NEW task, task \notin {"storeInitialRecord", "disallowRetry"},
           At(j, task) \/ AtCleanup(j, task),
           GoOn(j) \/ (At(j, task) /\ Fail(j)),
           UNCHANGED <<db, job>>, NoneMade
    PROVE  RetryInv'
<1>1. NoneStored
  BY DEF NoneStored, db, LiveIds
<1>2. \A i \in Jobs : Fares(i)
  BY PlainFares, FailFares DEF GoOn, At
<1> QED BY <1>1, <1>2, DataRetry

LEMMA PlainTasksRetry ==
    ASSUME IInv, RetryInv, NEW j \in Jobs, HandsOver,
           \/ AcquireVMTicket(j) \/ ReleaseVMTicket(j)
           \/ ReleaseVMTicketIgnoringErr(j) \/ UnreserveNetworkIps(j)
           \/ EnsureVmState(j) \/ EnsureSourceVmStopped(j) \/ SetupTarget(j)
           \/ EnsureTargetVmHasDni(j) \/ EnsureSourceVmHasDni(j)
           \/ EnsureTargetVmStopped(j) \/ WaitForWorkflowJob(j)
           \/ PutVm(j) \/ UpdateVmServerUuid(j)
    PROVE  RetryInv'
<1>1. ASSUME NEW task, task \notin {"storeInitialRecord", "disallowRetry"},
             At(j, task) \/ AtCleanup(j, task),
             GoOn(j) \/ (At(j, task) /\ Fail(j)),
             UNCHANGED <<db, inst, job>>
      PROVE  RetryInv'
  BY <1>1, PlainRetry DEF NoneMade
<1>2. ASSUME NEW task, task \notin {"storeInitialRecord", "disallowRetry"},
             NEW ok, Check(j, task, ok)
      PROVE  RetryInv'
  BY <1>1, <1>2 DEF Check
<1>3. CASE AcquireVMTicket(j) \/ ReleaseVMTicket(j)
  BY <1>1, <1>3 DEF AcquireVMTicket, ReleaseVMTicket
<1>4. CASE ReleaseVMTicketIgnoringErr(j) \/ UnreserveNetworkIps(j)
  BY <1>1, <1>4 DEF ReleaseVMTicketIgnoringErr, UnreserveNetworkIps
<1>5. CASE EnsureVmState(j) \/ EnsureSourceVmStopped(j) \/ SetupTarget(j)
  BY <1>2, <1>5 DEF EnsureVmState, EnsureSourceVmStopped, SetupTarget
<1>6. CASE EnsureTargetVmHasDni(j) \/ EnsureSourceVmHasDni(j)
             \/ EnsureTargetVmStopped(j)
  BY <1>2, <1>6
  DEF EnsureTargetVmHasDni, EnsureSourceVmHasDni, EnsureTargetVmStopped
<1>7. CASE WaitForWorkflowJob(j)
  BY <1>1, <1>7 DEF WaitForWorkflowJob
<1>8. CASE PutVm(j) \/ UpdateVmServerUuid(j)
  BY <1>1, <1>8 DEF PutVm, UpdateVmServerUuid
<1> QED BY <1>3, <1>4, <1>5, <1>6, <1>7, <1>8

LEMMA InstanceTasksRetry ==
    ASSUME IInv, RetryInv, NEW j \in Jobs, HandsOver,
           \/ StartVm(j) \/ StopVm(j) \/ Sync(j)
           \/ SetSourceDoNotInventory(j) \/ RemoveTargetDoNotInventory(j)
           \/ AbortDeleteTargetDniVm(j) \/ DeleteSourceVm(j)
    PROVE  RetryInv'
<1>1. inst \in [Servers -> Instance]
  BY DEF IInv, DataType
<1>2. ASSUME NEW task, task \notin {"storeInitialRecord", "disallowRetry"},
             At(j, task), GoOn(j) \/ Fail(j), UNCHANGED <<db, job>>, NoneMade
      PROVE  RetryInv'
  BY <1>2, PlainRetry
<1>3. CASE StartVm(j) \/ StopVm(j)
  <2>1. NoneMade
    BY <1>1, <1>3 DEF StartVm, StopVm, NoneMade, Instance
  <2> QED BY <1>2, <1>3, <2>1 DEF StartVm, StopVm
<1>4. CASE Sync(j)
  <2>1. NoneMade
    BY <1>1, <1>4 DEF Sync, NoneMade, Instance, Exists
  <2> QED BY <1>2, <1>4, <2>1 DEF Sync
<1>5. ASSUME NEW task \in {"setSourceDoNotInventory",
                           "removeTargetDoNotInventory"},
             NEW s, NEW hidden, NEW current,
             SetDoNotInventory(j, task, s, hidden, current)
      PROVE  RetryInv'
  <2>1. NoneMade
    BY <1>1, <1>5 DEF SetDoNotInventory, NoneMade, Instance, Exists
  <2> QED BY <1>2, <1>5, <2>1 DEF SetDoNotInventory
<1>6. ASSUME NEW task \in {"abortDeleteTargetDniVm", "deleteSourceVm"},
             NEW s, DeleteInstance(j, task, s, TRUE)
      PROVE  RetryInv'
  <2>1. NoneMade
    BY <1>1, <1>6 DEF DeleteInstance, NoneMade, Gone
  <2> QED BY <1>2, <1>6, <2>1 DEF DeleteInstance
<1> QED BY <1>3, <1>4, <1>5, <1>6
        DEF SetSourceDoNotInventory, RemoveTargetDoNotInventory,
            AbortDeleteTargetDniVm, DeleteSourceVm

-----------------------------------------------------------------------------
(* What the tasks make of a record and of its history.                     *)
LEMMA EntrySet ==
    ASSUME NEW h \in Seq(ProgressEntry), NEW n, NEW st, st # "running"
    PROVE  LET g == [h EXCEPT ![n].state = st]
           IN  /\ Len(g) = Len(h) /\ DOMAIN g = DOMAIN h
               /\ \A i \in DOMAIN g :
                      g[i].phase = h[i].phase
                      /\ (g[i].state = "running" => h[i].state = "running")
<1> DEFINE g == [h EXCEPT ![n].state = st]
<1>1. DOMAIN g = DOMAIN h
  OBVIOUS
<1>2. g \in Seq(ProgressEntry \cup {[h[n] EXCEPT !.state = st]})
  <2>1. h \in Seq(ProgressEntry \cup {[h[n] EXCEPT !.state = st]})
    BY SeqMonotonic
  <2> QED BY <2>1, ExceptAnywhere
<1>3. Len(g) = Len(h)
  BY <1>1, <1>2, LenProperties
<1>4. ASSUME NEW i \in DOMAIN g
      PROVE  /\ g[i].phase = h[i].phase
             /\ g[i].state = "running" => h[i].state = "running"
  <2>1. h[i] \in ProgressEntry
    BY <1>1, LenProperties, ElementOfSeq
  <2> QED BY <1>1, <2>1 DEF ProgressEntry
<1> QED BY <1>1, <1>3, <1>4

LEMMA EarlyOf ==
    ASSUME NEW rec \in Record
    PROVE  /\ \A a \in Phases, k \in Jobs :
                  (a = "begin" => rec.phase = "begin") /\ Early(rec) =>
                      Early(Started(rec, a, k))
           /\ Early(rec) =>
                  /\ \A a, n, sub : Early(Succeeded(rec, a, n, sub))
                  /\ \A n : Early(Paused(rec, n))
                  /\ Early([rec EXCEPT !.state = "running"])
                  /\ \A k : Early([rec EXCEPT !.proc = k])
<1>1. rec.history \in Seq(ProgressEntry)
  BY DEF Record
<1>2. ASSUME NEW a \in Phases, NEW k \in Jobs,
             a = "begin" => rec.phase = "begin", Early(rec)
      PROVE  Early(Started(rec, a, k))
  <2> DEFINE e == [phase |-> a, state |-> "running", job |-> k,
                   noRetry |-> FALSE]
             g == Append(rec.history, e)
  <2>1. Started(rec, a, k).phase = a /\ Started(rec, a, k).history = g
    BY DEF Started, Record
  <2>2. CASE a # "begin"
    BY <2>1, <2>2 DEF Early
  <2>3. CASE a = "begin"
    <3>1. RunningSyncs(rec) = {}
      BY <1>2, <2>3 DEF Early
    <3>2. SUFFICES ASSUME NEW i \in DOMAIN g, g[i].phase = "sync",
                          g[i].state = "running"
                   PROVE  FALSE
      BY <2>1 DEF Early, RunningSyncs
    <3>3. e \in ProgressEntry
      BY DEF ProgressEntry, States
    <3>4. i = Len(rec.history) + 1 \/ i \in DOMAIN rec.history
      BY <1>1, <3>3, LenProperties, AppendProperties
    <3>5. g[i] = IF i \in DOMAIN rec.history THEN rec.history[i] ELSE e
      BY <1>1, <3>3, <3>4, LenProperties, AppendProperties
    <3>6. i \in DOMAIN rec.history
      BY <2>3, <3>2, <3>5
    <3> QED BY <3>1, <3>2, <3>5, <3>6 DEF RunningSyncs
  <2> QED BY <2>2, <2>3
<1>3. ASSUME Early(rec), NEW new, new.phase = rec.phase,
             \/ new.history = rec.history
             \/ \E n, st : st # "running" /\
                    new.history = [rec.history EXCEPT ![n].state = st]
      PROVE  Early(new)
  <2>1. SUFFICES ASSUME NEW i \in RunningSyncs(new) PROVE i \in RunningSyncs(rec)
    BY <1>3 DEF Early
  <2>2. CASE new.history = rec.history
    BY <2>1, <2>2 DEF RunningSyncs
  <2>3. CASE new.history # rec.history
    <3>1. PICK n, st : st # "running" /\
                   new.history = [rec.history EXCEPT ![n].state = st]
      BY <1>3, <2>3
    <3>2. /\ i \in DOMAIN rec.history
          /\ new.history[i].phase = rec.history[i].phase
          /\ new.history[i].state = "running" =>
                 rec.history[i].state = "running"
      BY <1>1, <2>1, <3>1, EntrySet DEF RunningSyncs
    <3> QED BY <2>1, <3>2 DEF RunningSyncs
  <2> QED BY <2>2, <2>3
<1>4. ASSUME Early(rec), NEW a, NEW n, NEW sub
      PROVE  Early(Succeeded(rec, a, n, sub))
  <2> DEFINE new == Succeeded(rec, a, n, sub)
  <2>1. /\ new.phase = rec.phase
        /\ new.history = [rec.history EXCEPT ![n].state = "successful"]
    BY DEF Succeeded, Record
  <2> HIDE DEF new
  <2> QED BY <1>3, <1>4, <2>1 DEF new
<1>5. ASSUME Early(rec), NEW n PROVE Early(Paused(rec, n))
  <2> DEFINE new == Paused(rec, n)
  <2>1. /\ new.phase = rec.phase
        /\ new.history = [rec.history EXCEPT ![n].state = "paused"]
    BY DEF Paused, Record
  <2> HIDE DEF new
  <2> QED BY <1>3, <1>5, <2>1 DEF new
<1>6. ASSUME Early(rec)
      PROVE  /\ Early([rec EXCEPT !.state = "running"])
             /\ \A k : Early([rec EXCEPT !.proc = k])
  BY <1>3, <1>6 DEF Record
<1> QED BY <1>2, <1>4, <1>5, <1>6

LEMMA HistoryOf ==
    ASSUME NEW rec \in Record
    PROVE  /\ \A a, k : Len(Started(rec, a, k).history) = Len(rec.history) + 1
           /\ \A a, n, sub :
                  Len(Succeeded(rec, a, n, sub).history) = Len(rec.history)
           /\ \A a, n, sub : Succeeded(rec, a, n, sub).phase = rec.phase
           /\ \A n : Paused(rec, n).phase = rec.phase
<1>1. rec.history \in Seq(ProgressEntry)
  BY DEF Record
<1>2. ASSUME NEW a, NEW k
      PROVE  Len(Started(rec, a, k).history) = Len(rec.history) + 1
  <2> DEFINE e == [phase |-> a, state |-> "running", job |-> k,
                   noRetry |-> FALSE]
  <2>1. Started(rec, a, k).history = Append(rec.history, e)
    BY DEF Started, Record
  <2>2. rec.history \in Seq(ProgressEntry \cup {e})
    BY <1>1, SeqMonotonic
  <2> QED BY <2>1, <2>2, AppendProperties
<1>3. ASSUME NEW a, NEW n, NEW sub
      PROVE  Len(Succeeded(rec, a, n, sub).history) = Len(rec.history)
  <2>1. Succeeded(rec, a, n, sub).history
            = [rec.history EXCEPT ![n].state = "successful"]
    BY DEF Succeeded, Record
  <2> QED BY <1>1, <2>1, EntrySet
<1> QED BY <1>2, <1>3 DEF Succeeded, Paused, Record

\* A begin that fails
LEMMA FailedOf ==
    ASSUME NEW rec \in Record, NEW a \in Phases, NEW idx \in Nat,
           NEW no \in BOOLEAN, NEW k \in Jobs, Early(rec),
           IF a = "begin" THEN idx # 0 => idx = Len(rec.history)
                          ELSE idx # 0 => rec.phase # "begin"
    PROVE  LET new == Failed(rec, a, idx, no, k)
           IN  /\ Early(new) /\ new.target = rec.target
               /\ new.phase = "begin" => rec.phase = "begin"
               /\ a = "begin" /\ rec.phase = "begin" =>
                      /\ new.phase = "begin"
                      /\ idx # 0 => idx = Len(new.history)
               /\ RetryAllowed(new) => a = "begin" /\ ~no
<1> DEFINE h == rec.history
           n == [phase |-> a, state |-> "failed", job |-> k, noRetry |-> no]
           new == Failed(rec, a, idx, no, k)
           e == [h[idx] EXCEPT !.state = "failed", !.noRetry = @ \/ no]
<1>1. h \in Seq(ProgressEntry) /\ n \in ProgressEntry
  BY DEF Record, ProgressEntry, States
<1>2. /\ new.target = rec.target
      /\ new.phase = IF ~no /\ rec.phase = "switch" THEN "sync" ELSE rec.phase
  BY DEF Failed, Record
<1>3. CASE idx \notin DOMAIN h
  <2>1. new.history = Append(h, n)
    BY <1>3 DEF Failed, Record
  <2>2. /\ Len(new.history) = Len(h) + 1
        /\ new.history[Len(h) + 1] = n
        /\ \A i \in DOMAIN new.history :
               \/ i = Len(h) + 1
               \/ i \in DOMAIN h /\ new.history[i] = h[i]
    BY <1>1, <2>1, LenProperties, AppendProperties
  <2>3. RunningSyncs(new) \subseteq RunningSyncs(rec)
    <3>1. SUFFICES ASSUME NEW i \in RunningSyncs(new)
                   PROVE  i \in RunningSyncs(rec)
      OBVIOUS
    <3>2. i # Len(h) + 1
      BY <2>2, <3>1 DEF RunningSyncs
    <3> QED BY <2>2, <3>1, <3>2 DEF RunningSyncs
  <2>4. a = "begin" => idx = 0
    <3>1. SUFFICES ASSUME a = "begin", idx # 0 PROVE FALSE
      OBVIOUS
    <3> QED BY <1>1, <1>3, <3>1, LenProperties
  <2>5. Early(new)
    BY <1>2, <2>3 DEF Early
  <2>6. RetryAllowed(new) => a = "begin" /\ ~no
    BY <2>2 DEF RetryAllowed
  <2> HIDE DEF new
  <2> QED BY <1>2, <2>4, <2>5, <2>6 DEF new
<1>4. CASE idx \in DOMAIN h
  <2>1. h[idx] \in ProgressEntry
    BY <1>1, <1>4, LenProperties, ElementOfSeq
  <2>2. new.history = [h EXCEPT ![idx].state = "failed",
                                ![idx].noRetry = @ \/ no]
    BY <1>4 DEF Failed, Record
  <2>3. new.history = [h EXCEPT ![idx] = e]
    BY <1>4, <2>1, <2>2 DEF ProgressEntry
  <2>4. e \in ProgressEntry /\ e.state = "failed"
        /\ e.noRetry = (h[idx].noRetry \/ no)
    BY <2>1 DEF ProgressEntry, States
  <2>5. new.history \in Seq(ProgressEntry)
    BY <1>1, <2>3, <2>4, ExceptAnywhere
  <2>6. DOMAIN new.history = DOMAIN h
    BY <2>3
  <2>7. Len(new.history) = Len(h)
    BY <1>1, <2>5, <2>6, LenProperties
  <2>8. /\ new.history[idx] = e
        /\ \A i \in DOMAIN h \ {idx} : new.history[i] = h[i]
    BY <1>4, <2>3
  <2>9. RunningSyncs(new) \subseteq RunningSyncs(rec)
    <3>1. SUFFICES ASSUME NEW i \in RunningSyncs(new)
                   PROVE  i \in RunningSyncs(rec)
      OBVIOUS
    <3>2. i # idx
      BY <2>4, <2>8, <3>1 DEF RunningSyncs
    <3> QED BY <2>6, <2>8, <3>1, <3>2 DEF RunningSyncs
  <2>10. idx # 0
    BY <1>1, <1>4, LenProperties
  <2>11. Early(new)
    BY <1>2, <2>9 DEF Early
  <2>12. RetryAllowed(new) => a = "begin" /\ ~no
    <3>1. SUFFICES ASSUME RetryAllowed(new) PROVE a = "begin" /\ ~no
      OBVIOUS
    <3>2. new.phase = "begin"
      BY <3>1 DEF RetryAllowed
    <3>3. rec.phase = "begin"
      BY <1>2, <3>2
    <3>4. a = "begin" /\ idx = Len(new.history)
      BY <2>7, <2>10, <3>3
    <3> QED BY <2>4, <2>8, <3>1, <3>4 DEF RetryAllowed
  <2> HIDE DEF new
  <2> QED BY <1>2, <2>7, <2>11, <2>12 DEF new
<1> QED BY <1>3, <1>4

-----------------------------------------------------------------------------
(* The lookup finds nothing, or a live record.                             *)
LEMMA LookupLive ==
    IInv => Lookup = NoRecord \/ \E r \in LiveIds : Lookup = records[r]
<1> SUFFICES ASSUME IInv
             PROVE  Lookup = NoRecord \/ \E r \in LiveIds : Lookup = records[r]
  OBVIOUS
<1> DEFINE ids == {r \in LiveIds : Matches(records[r], vm.server)}
<1>1. ids # {} => Newest(ids) \in ids
  <2>1. ids \in SUBSET RecordIds
    BY DEF LiveIds
  <2> HIDE DEF ids
  <2> QED BY <2>1, NewestIn
<1>2. ids \subseteq LiveIds
  OBVIOUS
<1>3. Lookup = IF ids = {} THEN NoRecord ELSE records[Newest(ids)]
  BY DEF Lookup
<1> HIDE DEF ids
<1> QED BY <1>1, <1>2, <1>3

LEMMA LookupEarly ==
    ASSUME IInv, RetryInv
    PROVE  Early(Lookup) /\ Clear(Lookup) /\ Lookup \in Record
<1> HIDE DEF Lookup
<1>1. CASE Lookup = NoRecord
  BY <1>1, NoRecordType DEF NoRecord, Early, RunningSyncs, Clear, RetryAllowed
<1>2. ASSUME NEW r \in LiveIds, Lookup = records[r]
      PROVE  Early(Lookup) /\ Clear(Lookup) /\ Lookup \in Record
  BY <1>2 DEF RetryInv, Kept, IInv, DataType, LiveIds
<1> QED BY <1>1, <1>2, LookupLive

-----------------------------------------------------------------------------
(* The tasks that store the record.                                        *)
LEMMA StoresOnly ==
    ASSUME IInv, SeqInv, HandInv, NEW j \in Jobs, mode[j] = "chain",
           ~Starter(j), NEW rec, rec.id = loc[j].rec.id,
           rec.state # "successful", Store(rec)
    PROVE  \A r \in LiveIds' : records'[r] = rec
<1>1. /\ \A r \in LiveIds : r = loc[j].rec.id
      /\ loc[j].rec.id # 0
  <2>1. \A r \in LiveIds : Agrees(j, r)
    BY CopyAt
  <2> QED BY <2>1, CopyAt DEF Agrees
<1>2. rec.id \in RecordIds
  <2>1. loc[j].rec.id \in 0 .. MaxRecords
    BY LocalsRec DEF IInv, Record
  <2> QED BY <1>1, <2>1, ConstantsAssumption DEF RecordIds
<1>3. /\ records' = [records EXCEPT ![rec.id] = rec]
      /\ stored' = [stored EXCEPT ![rec.id] = "live"]
  BY DEF Store
<1>4. records \in [RecordIds -> Record] /\ DOMAIN stored = RecordIds
  BY DEF IInv, DataType
<1> QED BY <1>1, <1>2, <1>3, <1>4 DEF LiveIds

LEMMA StoreTaskRetry ==
    ASSUME IInv, SeqInv, RetryInv, HandsOver, NEW j \in Jobs, NEW task,
           At(j, task), ~Starter(j), NEW rec, Early(rec), Clear(rec),
           NEW l \in Locals, StoreTask(j, rec, l),
           /\ \/ Store(rec) /\ mode'[j] = "chain" /\ pc'[j] = pc[j] + 1
              \/ mode'[j] = "onerror"
           /\ loc'[j].rec = rec /\ loc'[j].idx = l.idx
           /\ loc'[j].noRetry = l.noRetry
           => Noted(j)'
    PROVE  RetryInv'
<1> DEFINE m == [l EXCEPT !.rec = rec]
<1>1. m.rec = rec /\ m.idx = l.idx /\ m.noRetry = l.noRetry
  BY DEF Locals
<1>2. /\ \/ Store(rec) /\ Proceed(j, m)
         \/ FailWith(j, m) /\ UNCHANGED db
      /\ UNCHANGED <<inst, job>>
  BY DEF StoreTask
<1> HIDE DEF m
<1>3. mode[j] = "chain" /\ j \in Active /\ NoneMade
  BY <1>2, ActiveIs DEF At, NoneMade
<1>4. CASE FailWith(j, m) /\ UNCHANGED db
  <2>1. /\ \A i \in Jobs \ {j} : Stands(i)
        /\ \/ mode'[j] = "failed"
           \/ mode'[j] = "onerror" /\ loc'[j] = m
    BY <1>2, <1>3, <1>4, FailFacts
  <2>2. Fares(j)
    BY <1>1, <2>1 DEF Fares, Ended, New
  <2>3. NoneStored
    BY <1>4 DEF NoneStored, db, LiveIds
  <2> QED BY <1>3, <2>1, <2>2, <2>3, DataRetry DEF Fares
<1>5. CASE Store(rec) /\ Proceed(j, m)
  <2>1. /\ \A i \in Jobs \ {j} : Stands(i)
        /\ IsLast(j) => mode'[j] \in Ended
        /\ ~IsLast(j) => /\ mode'[j] = "chain" /\ pc'[j] = pc[j] + 1
                         /\ loc'[j] = m
    BY <1>2, <1>3, <1>5, ProceedFacts
  <2>2. mode'[j] \in Ended \/ (~New(j)' /\ Noted(j)')
    BY <1>1, <1>5, <2>1 DEF New
  <2> QED BY <1>2, <1>3, <1>5, <2>1, <2>2, StoreRetry
<1> QED BY <1>2, <1>4, <1>5

\* What its tasks know of the job
LEMMA NotedAt ==
    ASSUME RetryInv, NEW j \in Active, ~Starter(j)
    PROVE  /\ Noted(j) /\ Early(loc[j].rec)
           /\ job[j].action = "begin" => Flagged(j)
           /\ job[j].action # "begin" => Entered(j)
BY DEF RetryInv, Noted

LEMMA StoreInitialRetry ==
    ASSUME IInv, SeqInv, HandInv, RetryInv, HandsOver, NEW j \in Jobs,
           StoreInitialRecord(j)
    PROVE  RetryInv'
<1> DEFINE old == loc[j].rec
           rec == Started(old, job[j].action, j)
           l == [loc[j] EXCEPT !.idx = Len(rec.history)]
<1>1. At(j, "storeInitialRecord") /\ StoreTask(j, rec, l)
  BY DEF StoreInitialRecord
<1>2. /\ mode[j] = "chain" /\ j \in Active
      /\ \/ job[j].action \in {"begin", "sync"} /\ pc[j] = 3
         \/ job[j].action = "switch" /\ pc[j] = 10
         \/ job[j].action = "abort" /\ pc[j] = 2
  BY <1>1, AtWhere, WhereInChain
<1>3. loc[j] \in Locals /\ old \in Record /\ job[j].action \in Phases
  BY <1>2, LocalsRec DEF IInv, Phases
<1>4. ~Starter(j)
  BY <1>2 DEF Starter
<1>5. /\ rec.phase = job[j].action /\ rec.state = "running"
      /\ SameRec(rec, old)
  <2>1. SameRec(rec, old)
    BY <1>3, SameRecOf
  <2>2. rec.phase = job[j].action /\ rec.state = "running"
    BY <1>3, StateOf
  <2> QED BY <2>1, <2>2
<1>6. rec.history \in Seq(ProgressEntry)
  BY <1>3, StartedType DEF Record
<1>7. l \in Locals /\ l.idx = Len(rec.history) /\ l.noRetry = loc[j].noRetry
  BY <1>3, <1>6, LenProperties DEF Locals
<1>8. /\ Early(old) /\ (job[j].action = "begin" => Flagged(j))
  BY <1>2, <1>4, NotedAt
<1>9. Early(rec)
  BY <1>3, <1>8, EarlyOf DEF Flagged
<1>10. Clear(rec)
  BY <1>5 DEF Clear, RetryAllowed
<1>11. UNCHANGED <<inst, job>>
  BY <1>1 DEF StoreTask
<1>12. rec.target = old.target /\ rec.id = old.id
  BY <1>5 DEF SameRec
<1> HIDE DEF rec, l, old
<1>13. ASSUME \/ Store(rec) /\ mode'[j] = "chain" /\ pc'[j] = pc[j] + 1
              \/ mode'[j] = "onerror",
              loc'[j].rec = rec, loc'[j].idx = l.idx,
              loc'[j].noRetry = l.noRetry
       PROVE  Noted(j)'
  <2>1. Early(loc[j].rec)'
    BY <1>9, <1>13 DEF Early
  <2>2. CASE job[j].action = "begin"
    <3>1. mode'[j] = "chain" => \A r \in LiveIds' : records'[r].state # "failed"
      <4>1. SUFFICES ASSUME Store(rec)
                     PROVE  \A r \in LiveIds' : records'[r] = rec
        BY <1>5, <1>13
      <4>2. rec.id = loc[j].rec.id /\ rec.state # "successful"
        BY <1>5, <1>12 DEF old
      <4> QED BY <1>2, <1>4, <4>1, <4>2, StoresOnly
    <3>2. loc[j].noRetry \/ ~Exists(old.target)
      BY <1>8, <2>2 DEF Flagged, old
    <3>3. \A s : Exists(s)' <=> Exists(s)
      BY <1>11 DEF Exists
    <3>4. mode'[j] = "chain" => pc'[j] = 4
      BY <1>2, <1>13, <2>2
    <3>5. Flagged(j)'
      BY <1>5, <1>7, <1>11, <1>12, <1>13, <2>2, <3>1, <3>2, <3>3, <3>4
      DEF Flagged, Exists
    <3> QED BY <1>11, <2>1, <2>2, <3>5 DEF Noted
  <2>3. CASE job[j].action # "begin"
    <3>1. Entered(j)'
      BY <1>2, <1>5, <1>11, <1>13, <2>3 DEF Entered, Switch
    <3> QED BY <1>11, <2>1, <2>3, <3>1 DEF Noted
  <2> QED BY <2>2, <2>3
<1> QED BY <1>1, <1>4, <1>7, <1>9, <1>10, <1>13, StoreTaskRetry

\* The other tasks of no begin
LEMMA StoreLaterRetry ==
    ASSUME IInv, SeqInv, RetryInv, HandsOver, NEW j \in Jobs, NEW task,
           At(j, task), ~Starter(j), job[j].action # "begin",
           NEW rec, Early(rec), Clear(rec), rec.phase = loc[j].rec.phase,
           NEW l \in Locals, l.idx \in {0, loc[j].idx}, StoreTask(j, rec, l),
           Switch(j) => pc[j] # 10
    PROVE  RetryInv'
<1>1. UNCHANGED job /\ mode[j] = "chain" /\ j \in Active /\ pc[j] \in Nat
  BY ActiveIs DEF StoreTask, At, IInv, ControlType
<1>2. Entered(j)
  BY <1>1, NotedAt
<1>3. ASSUME mode'[j] = "chain" => pc'[j] = pc[j] + 1,
             loc'[j].rec = rec, loc'[j].idx = l.idx
      PROVE  Noted(j)'
  <2>1. Early(loc[j].rec)'
    BY <1>3 DEF Early
  <2>2. Entered(j)'
    BY <1>1, <1>2, <1>3 DEF Entered, Switch
  <2> QED BY <1>1, <2>1, <2>2 DEF Noted
<1> QED BY <1>3, StoreTaskRetry

LEMMA StoreTasksRetry ==
    ASSUME IInv, SeqInv, HandInv, RetryInv, HandsOver, NEW j \in Jobs,
           \/ SetRecordStateRunning(j) \/ StoreReservedNetworkIps(j)
           \/ StoreRecord(j) \/ StoreProcessDetails(j)
    PROVE  RetryInv'
<1> DEFINE old == loc[j].rec
<1>1. loc[j] \in Locals /\ old \in Record /\ pc[j] \in Nat
  BY LocalsRec DEF IInv, ControlType
<1>2. ASSUME NEW rec, rec.state # "failed" PROVE Clear(rec)
  BY <1>2 DEF Clear, RetryAllowed
<1>3. CASE SetRecordStateRunning(j)
  <2> DEFINE rec == [old EXCEPT !.state = "running"]
             l == [loc[j] EXCEPT !.idx = 0]
  <2>1. At(j, "setRecordStateRunning") /\ StoreTask(j, rec, l)
    BY <1>3 DEF SetRecordStateRunning
  <2>2. job[j].action = "switch" /\ pc[j] = 2 /\ j \in Active
    BY <2>1, AtWhere, WhereInChain
  <2>3. ~Starter(j) /\ Early(old)
    BY <2>2, NotedAt DEF Starter
  <2>4. Early(rec)
    BY <1>1, <2>3, EarlyOf
  <2>5. rec.state = "running" /\ rec.phase = old.phase
    BY <1>1 DEF Record
  <2>6. l \in Locals /\ l.idx = 0
    BY <1>1 DEF Locals
  <2> HIDE DEF rec, l
  <2>7. Clear(rec)
    BY <1>2, <2>5
  <2> QED BY <2>1, <2>2, <2>3, <2>4, <2>5, <2>6, <2>7, StoreLaterRetry
<1>4. CASE StoreReservedNetworkIps(j)
  <2>1. At(j, "storeReservedNetworkIps") /\ StoreTask(j, old, loc[j])
    BY <1>4 DEF StoreReservedNetworkIps
  <2>2. /\ job[j].action = "switch" /\ pc[j] = 12 /\ j \in Active
        /\ mode[j] = "chain"
    BY <2>1, AtWhere, WhereInChain
  <2>3. ~Starter(j) /\ Early(old)
    BY <2>2, NotedAt DEF Starter
  <2>4. old.state = "running"
    <3>1. TaskDone(j)
      BY <2>2, <2>3, CopyAt
    <3> QED BY <2>2, <3>1 DEF TaskDone
  <2>5. Clear(old)
    BY <1>2, <2>4
  <2> QED BY <1>1, <2>1, <2>2, <2>3, <2>5, StoreLaterRetry
<1>5. CASE StoreRecord(j)
  <2> DEFINE rec == Paused(old, loc[j].idx)
  <2>1. At(j, "storeRecord") /\ StoreTask(j, rec, loc[j])
    BY <1>5 DEF StoreRecord
  <2>2. job[j].action = "pause" /\ pc[j] = 5 /\ j \in Active
    BY <2>1, AtWhere, WhereInChain
  <2>3. ~Starter(j) /\ Early(old)
    BY <2>2, NotedAt DEF Starter
  <2>4. Early(rec)
    BY <1>1, <2>3, EarlyOf
  <2>5. rec.state = "paused" /\ rec.phase = old.phase
    BY <1>1 DEF Paused, Record
  <2> HIDE DEF rec
  <2>6. Clear(rec)
    BY <1>2, <2>5
  <2> QED BY <1>1, <2>1, <2>2, <2>3, <2>4, <2>5, <2>6, StoreLaterRetry
<1>6. CASE StoreProcessDetails(j)
  <2> DEFINE rec == [old EXCEPT !.proc = j]
  <2>1. At(j, "storeProcessDetails")
    BY <1>6 DEF StoreProcessDetails
  <2>2. /\ job[j].action = "sync" /\ pc[j] = 5 /\ j \in Active
        /\ mode[j] = "chain"
    BY <2>1, AtWhere, WhereInChain
  <2>3. ~Starter(j) /\ Early(old)
    BY <2>2, NotedAt DEF Starter, Final
  <2>4. \/ StoreTask(j, rec, loc[j])
        \/ Fail(j) /\ UNCHANGED <<db, vm, inst, ticket, job, used>>
    BY <1>6 DEF StoreProcessDetails
  <2>5. CASE StoreTask(j, rec, loc[j])
    <3>1. TaskDone(j)
      BY <2>2, <2>3, CopyAt
    <3>2. Early(rec)
      BY <1>1, <2>3, EarlyOf
    <3>3. rec.state = "running" /\ rec.phase = old.phase
      BY <1>1, <2>2, <3>1 DEF TaskDone, Record
    <3> HIDE DEF rec
    <3>4. Clear(rec)
      BY <1>2, <3>3
    <3> QED BY <1>1, <2>1, <2>2, <2>3, <2>5, <3>2, <3>3, <3>4, StoreLaterRetry
            DEF Switch
  <2>6. CASE Fail(j) /\ UNCHANGED <<db, vm, inst, ticket, job, used>>
    BY <2>1, <2>6, PlainRetry DEF NoneMade
  <2> QED BY <2>4, <2>5, <2>6
<1> QED BY <1>3, <1>4, <1>5, <1>6

\* An action that is done
LEMMA StoreSuccessRetry ==
    ASSUME IInv, SeqInv, HandInv, RetryInv, HandsOver, NEW j \in Jobs,
           StoreSuccess(j)
    PROVE  RetryInv'
<1> DEFINE old == loc[j].rec
           rec == Succeeded(old, job[j].action, loc[j].idx, job[j].subtask)
<1>1. At(j, "storeSuccess") /\ StoreTask(j, rec, loc[j])
  BY DEF StoreSuccess
<1>2. /\ mode[j] = "chain" /\ j \in Active
      /\ \/ job[j].action \in {"begin", "sync"} /\ pc[j] = 7
         \/ job[j].action = "switch" /\ pc[j] = 19
         \/ job[j].action = "abort" /\ pc[j] = 6
  BY <1>1, AtWhere, WhereInChain
<1>3. loc[j] \in Locals /\ old \in Record
  BY LocalsRec DEF IInv
<1>4. ~Starter(j) /\ Early(old)
  BY <1>2, NotedAt DEF Starter
<1>5. Early(rec)
  BY <1>3, <1>4, EarlyOf
<1>6. rec.phase = old.phase /\ Len(rec.history) = Len(old.history)
  BY <1>3, HistoryOf
<1>7. SameRec(rec, old)
  BY <1>3, SameRecOf
<1>8. rec.state # "failed" /\ (job[j].action = "begin" => rec.state # "successful")
  <2>1. CASE job[j].action \in {"begin", "sync"}
    <3>1. rec.state \in {"running", "paused"}
      BY <1>3, <2>1, StateOf
    <3> QED BY <3>1
  <2>2. CASE job[j].action \in {"switch", "abort"}
    BY <1>3, <2>2, StateOf
  <2> QED BY <1>2, <2>1, <2>2
<1>9. UNCHANGED <<inst, job>>
  BY <1>1 DEF StoreTask
<1> HIDE DEF rec
<1>10. Clear(rec)
  BY <1>8 DEF Clear, RetryAllowed
<1>11. CASE job[j].action # "begin"
  BY <1>1, <1>2, <1>3, <1>4, <1>5, <1>6, <1>10, <1>11, StoreLaterRetry
  DEF Switch
<1>12. CASE job[j].action = "begin"
  <2>1. ASSUME \/ Store(rec) /\ mode'[j] = "chain" /\ pc'[j] = pc[j] + 1
               \/ mode'[j] = "onerror",
               loc'[j].rec = rec, loc'[j].idx = loc[j].idx,
               loc'[j].noRetry = loc[j].noRetry
        PROVE  Noted(j)'
    <3>1. Early(loc[j].rec)'
      BY <1>5, <2>1 DEF Early
    <3>2. mode'[j] = "chain" => \A r \in LiveIds' : records'[r].state # "failed"
      <4>1. SUFFICES ASSUME Store(rec)
                     PROVE  \A r \in LiveIds' : records'[r] = rec
        BY <1>8, <2>1
      <4>2. rec.id = loc[j].rec.id /\ rec.state # "successful"
        BY <1>7, <1>8, <1>12 DEF SameRec
      <4> QED BY <1>2, <1>4, <4>1, <4>2, StoresOnly
    <3>3. Flagged(j)
      BY <1>2, <1>4, <1>12, NotedAt
    <3>4. \A s : Exists(s)' <=> Exists(s)
      BY <1>9 DEF Exists
    <3>5. rec.target = loc[j].rec.target
      BY <1>7 DEF SameRec
    <3>6. loc[j].noRetry
      BY <1>2, <1>12, <3>3 DEF Flagged
    <3>7. Flagged(j)'
      BY <1>6, <2>1, <3>2, <3>3, <3>6 DEF Flagged
    <3> QED BY <1>9, <1>12, <3>1, <3>7 DEF Noted
  <2> QED BY <1>1, <1>3, <1>4, <1>5, <1>10, <2>1, StoreTaskRetry
<1> QED BY <1>11, <1>12

\* A job that fails notes it in the record, if it can
LEMMA StoreFailureRetry ==
    ASSUME IInv, SeqInv, RetryInv, NEW j \in Jobs, StoreFailure(j)
    PROVE  RetryInv'
<1> DEFINE old == loc[j].rec
           rec == Failed(old, job[j].action, loc[j].idx, loc[j].noRetry, j)
           l == [loc[j] EXCEPT !.rec = rec]
<1>1. /\ AtCleanup(j, "storeFailure") /\ Proceed(j, l)
      /\ UNCHANGED <<inst, job>>
      /\ Store(rec) \/ UNCHANGED db
  BY DEF StoreFailure
<1>2. /\ mode[j] \in Cleaning /\ j \in Active
      /\ ~Starter(j) /\ job[j].action # "finalize"
  BY <1>1, WhoseCleaning
<1>3. /\ loc[j] \in Locals /\ old \in Record
      /\ job[j].action \in JobActions \ {"start", "stop", "finalize"}
  BY <1>2, LocalsRec DEF IInv, ControlType, JobParams, Starter
<1>4. job[j].action \in Phases
  BY <1>3, JobActionsAre DEF Phases
<1>5. /\ Early(old) /\ (job[j].action = "begin" => Flagged(j))
      /\ (job[j].action # "begin" => Entered(j))
  BY <1>2, NotedAt
<1>6. /\ Early(rec) /\ rec.target = old.target
      /\ rec.phase = "begin" => old.phase = "begin"
      /\ job[j].action = "begin" =>
             /\ rec.phase = "begin"
             /\ loc[j].idx # 0 => loc[j].idx = Len(rec.history)
      /\ RetryAllowed(rec) => job[j].action = "begin" /\ ~loc[j].noRetry
  BY <1>3, <1>4, <1>5, FailedOf DEF Flagged, Entered, Locals
<1>7. l.rec = rec /\ l.idx = loc[j].idx /\ l.noRetry = loc[j].noRetry
  BY <1>3 DEF Locals
<1> HIDE DEF rec, l
<1>8. Clear(rec)
  BY <1>5, <1>6 DEF Clear, Flagged
<1>9. /\ \A i \in Jobs \ {j} : Stands(i)
      /\ IsLast(j) => mode'[j] \in Ended
      /\ ~IsLast(j) => mode'[j] = mode[j] /\ loc'[j] = l
  BY <1>1, <1>2, ProceedFacts
<1>10. ~IsLast(j) => ~New(j)' /\ Noted(j)'
  <2>1. SUFFICES ASSUME mode'[j] \in Cleaning, loc'[j] = l
                 PROVE  ~New(j)' /\ Noted(j)'
    BY <1>2, <1>9
  <2>2. \A s : Exists(s)' <=> Exists(s)
    BY <1>1 DEF Exists
  <2>3. mode'[j] # "chain" /\ ~New(j)'
    BY <2>1 DEF Cleaning, New
  <2>4. Early(loc[j].rec)'
    BY <1>6, <1>7, <2>1 DEF Early
  <2>5. job[j].action = "begin" => Flagged(j)'
    BY <1>5, <1>6, <1>7, <2>1, <2>2, <2>3 DEF Flagged
  <2>6. job[j].action # "begin" => Entered(j)'
    BY <1>5, <1>6, <1>7, <2>1, <2>3 DEF Entered
  <2> QED BY <1>1, <2>3, <2>4, <2>5, <2>6 DEF Noted
<1>11. CASE Store(rec)
  BY <1>1, <1>2, <1>6, <1>8, <1>9, <1>10, <1>11, StoreRetry
<1>12. CASE UNCHANGED db
  <2>1. NoneMade /\ NoneStored
    BY <1>1, <1>12 DEF NoneMade, NoneStored, db, LiveIds
  <2>2. \A i \in Jobs : Fares(i)
    BY <1>9, <1>10 DEF Fares
  <2> QED BY <2>1, <2>2, DataRetry
<1> QED BY <1>1, <1>11, <1>12

-----------------------------------------------------------------------------
(* The tasks of begin.                                                     *)
LEMMA DisallowRetryRetry ==
    ASSUME IInv, SeqInv, RetryInv, NEW j \in Jobs, DisallowRetry(j)
    PROVE  RetryInv'
<1> DEFINE l == [loc[j] EXCEPT !.noRetry = TRUE]
<1>1. /\ At(j, "disallowRetry") /\ Proceed(j, l)
      /\ UNCHANGED <<db, inst, job>>
  BY DEF DisallowRetry
<1>2. mode[j] = "chain" /\ j \in Active /\ pc[j] \in Nat
  BY <1>1, ActiveIs DEF At, IInv, ControlType
<1>3. ~Starter(j) /\ (job[j].action = "begin" => pc[j] = 4)
      /\ (Switch(j) => pc[j] # 10)
  <2>1. /\ job[j].action \in JobActions \ {"rollback"}
        /\ pc[j] \in 1 .. Len(Chain[job[j].action])
        /\ Chain[job[j].action][pc[j]] = "disallowRetry"
    BY <1>1, AtWhere
  <2>2. CASE job[j].action = "begin"
    BY <2>1, <2>2 DEF Chain, Chains, BeginChain, Starter, Switch
  <2>3. CASE job[j].action = "switch"
    BY <2>1, <2>3 DEF Chain, Chains, SwitchChain, Starter, Switch
  <2>4. CASE job[j].action = "start"
    BY <2>1, <2>4 DEF Chain, Chains, StartChain
  <2>5. CASE job[j].action = "stop"
    BY <2>1, <2>5 DEF Chain, Chains, StopChain
  <2> QED BY <2>2, <2>3, <2>4, <2>5 DEF Starter, Switch
<1>4. l.rec = loc[j].rec /\ l.idx = loc[j].idx /\ l.noRetry
  BY LocalsRec DEF IInv, Locals
<1>5. /\ Early(loc[j].rec) /\ (job[j].action = "begin" => Flagged(j))
      /\ (job[j].action # "begin" => Entered(j))
  BY <1>2, <1>3, NotedAt
<1> HIDE DEF l
<1>6. /\ \A i \in Jobs \ {j} : Stands(i)
      /\ IsLast(j) => mode'[j] \in Ended
      /\ ~IsLast(j) => /\ mode'[j] = "chain" /\ pc'[j] = pc[j] + 1
                       /\ loc'[j] = l
  BY <1>1, <1>2, ProceedFacts
<1>7. NoneMade /\ NoneStored
  BY <1>1 DEF NoneMade, NoneStored, db, LiveIds
<1>8. ~IsLast(j) => ~New(j)' /\ Noted(j)'
  <2>1. SUFFICES ASSUME mode'[j] = "chain", pc'[j] = pc[j] + 1, loc'[j] = l
                 PROVE  ~New(j)' /\ Noted(j)'
    BY <1>6
  <2>2. Early(loc[j].rec)'
    BY <1>4, <1>5, <2>1 DEF Early
  <2>3. job[j].action = "begin" => Flagged(j)'
    BY <1>2, <1>3, <1>4, <1>5, <1>7, <2>1 DEF Flagged, NoneStored
  <2>4. job[j].action # "begin" => Entered(j)'
    BY <1>1, <1>2, <1>3, <1>4, <1>5, <2>1 DEF Entered, Switch
  <2> QED BY <1>1, <2>1, <2>2, <2>3, <2>4 DEF Noted, New
<1>9. \A i \in Jobs : Fares(i)
  BY <1>6, <1>8 DEF Fares
<1> QED BY <1>7, <1>9, DataRetry

\* No instance is there where begin makes one
LEMMA AllocateRetry ==
    ASSUME IInv, SeqInv, HandInv, RetryInv, NEW j \in Jobs, AllocateServer(j)
    PROVE  RetryInv'
<1> DEFINE old == loc[j].rec
<1>1. At(j, "allocateServer") /\ UNCHANGED <<db, inst, job>>
  BY DEF AllocateServer
<1>2. /\ job[j].action = "begin" /\ mode[j] = "chain" /\ pc[j] = 1
      /\ j \in Active
  BY <1>1, AtWhere, WhereInChain
<1>3. ~Starter(j) /\ ~Over(j)
  BY <1>2 DEF Starter, Over, Past, Switch
<1>4. /\ Place(old, Over(j)) /\ \A r \in LiveIds : Agrees(j, r)
  BY <1>2, <1>3, CopyAt
<1>5. PICK s \in IF old.target = NoServer THEN Servers \ {old.source}
                                          ELSE {old.target} :
        Proceed(j, [loc[j] EXCEPT !.rec.target = s])
  BY DEF AllocateServer
<1> DEFINE l == [loc[j] EXCEPT !.rec.target = s]
<1>6. /\ l.rec.phase = old.phase /\ l.rec.target = s
      /\ l.rec.history = old.history
      /\ l.idx = loc[j].idx /\ l.noRetry = loc[j].noRetry
  BY LocalsRec DEF IInv, Locals, Record
<1>7. Early(old) /\ Flagged(j)
  BY <1>2, <1>3, NotedAt
<1>8. loc[j].noRetry \/ ~Exists(s)
  <2>1. CASE s = old.target
    BY <1>7, <2>1 DEF Flagged
  <2>2. CASE s # old.target
    <3>1. s \in Servers /\ s # old.source /\ vm.server = old.source
      BY <1>3, <1>4, <1>5, <2>2 DEF Place
    <3>2. ~Visible(s)
      BY <3>1 DEF SeqInv, VisibleAtVm
    <3>3. ~Veiled(s)
      BY <1>4, <2>2, <3>1, VeiledNamed
    <3> QED BY <3>2, <3>3 DEF Visible, Veiled, Exists
  <2> QED BY <2>1, <2>2
<1>9. Proceed(j, l)
  BY <1>5
<1> HIDE DEF l
<1>10. /\ \A i \in Jobs \ {j} : Stands(i)
       /\ IsLast(j) => mode'[j] \in Ended
       /\ ~IsLast(j) => /\ mode'[j] = "chain" /\ pc'[j] = 2
                        /\ loc'[j] = l
  BY <1>1, <1>2, <1>9, ProceedFacts
<1>11. ~IsLast(j) => ~New(j)' /\ Noted(j)'
  <2>1. SUFFICES ASSUME mode'[j] = "chain", pc'[j] = 2, loc'[j] = l
                 PROVE  ~New(j)' /\ Noted(j)'
    BY <1>10
  <2>2. Early(loc[j].rec)'
    BY <1>6, <1>7, <2>1 DEF Early, RunningSyncs
  <2>3. ~Exists(s)' <=> ~Exists(s)
    BY <1>1 DEF Exists
  <2>4. Flagged(j)'
    BY <1>1, <1>6, <1>7, <1>8, <2>1 DEF Flagged, Exists
  <2> QED BY <1>1, <1>2, <2>1, <2>2, <2>4 DEF Noted, New
<1>12. NoneMade /\ NoneStored
  BY <1>1 DEF NoneMade, NoneStored, db, LiveIds
<1>13. \A i \in Jobs : Fares(i)
  BY <1>10, <1>11 DEF Fares
<1> QED BY <1>12, <1>13, DataRetry

\* It makes the target with the flag set, and no live record has failed
LEMMA ProvisionRetry ==
    ASSUME IInv, SeqInv, RetryInv, HandsOver, NEW j \in Jobs, ProvisionVm(j)
    PROVE  RetryInv'
<1>1. At(j, "provisionVm") /\ UNCHANGED <<db, job>>
  BY DEF ProvisionVm
<1>2. /\ job[j].action = "begin" /\ mode[j] = "chain" /\ pc[j] = 6
      /\ j \in Active
  BY <1>1, AtWhere, WhereInChain
<1>3. ~Starter(j) /\ ~Aux(j) /\ ~Switch(j)
  BY <1>2 DEF Starter, Aux, Switch
<1>4. CASE Fail(j) /\ UNCHANGED inst
  BY <1>1, <1>4, PlainRetry DEF NoneMade
<1>5. CASE GoOn(j)
  <2>1. Early(loc[j].rec) /\ Flagged(j)
    BY <1>2, <1>3, NotedAt
  <2>2. loc[j].noRetry /\ \A r \in LiveIds : records[r].state # "failed"
    BY <1>2, <2>1 DEF Flagged
  <2>3. UNCHANGED <<LiveIds, records>>
    BY <1>1 DEF db, LiveIds
  <2>4. Kept'
    BY <2>2, <2>3 DEF RetryInv, Kept, Early, Clear, RetryAllowed
  <2>5. /\ \A i \in Jobs \ {j} : Stands(i)
        /\ IsLast(j) => mode'[j] \in Ended
        /\ ~IsLast(j) => /\ mode'[j] = "chain" /\ pc'[j] = 7
                         /\ loc'[j] = loc[j]
    BY <1>1, <1>2, <1>5, ProceedFacts DEF GoOn
  <2>6. ~IsLast(j) => ~New(j)' /\ Noted(j)'
    <3>1. SUFFICES ASSUME mode'[j] = "chain", pc'[j] = 7, loc'[j] = loc[j]
                   PROVE  ~New(j)' /\ Noted(j)'
      BY <2>5
    <3>2. Early(loc[j].rec)' /\ Flagged(j)'
      BY <1>2, <2>1, <2>2, <2>3, <3>1 DEF Early, Flagged
    <3> QED BY <1>1, <1>2, <3>1, <3>2 DEF Noted, New
  <2>7. \A i \in Jobs : Fares(i)
    BY <2>5, <2>6 DEF Fares
  <2>8. ASSUME NEW i \in Active', ~Starter(i)' PROVE Noted(i)'
    <3>1. i \in Jobs /\ mode'[i] \notin Ended
      BY <2>8, ActiveThen DEF Ended
    <3>2. i # j => i \in Active
      BY <2>5, <3>1, ActiveIs, ActiveThen, <2>8 DEF Stands
    <3>3. i = j
      BY <1>2, <1>3, <3>2, AloneAtWork
    <3> QED BY <2>5, <2>6, <3>1, <3>3
  <2> QED BY <2>4, <2>7, <2>8, BlankThen DEF RetryInv
<1> QED BY <1>4, <1>5 DEF ProvisionVm

-----------------------------------------------------------------------------
(* What is read again.                                                     *)
LEMMA ReloadRetry ==
    ASSUME IInv, SeqInv, RetryInv, HandsOver, NEW j \in Jobs,
           GetRecord(j) \/ ValidateSyncIsRunning(j)
    PROVE  RetryInv'
<1> HIDE DEF Lookup
<1> DEFINE Does(task, idx) ==
               /\ At(j, task) /\ UNCHANGED <<db, inst, job>>
               /\ \/ /\ Proceed(j, [loc[j] EXCEPT !.rec = Lookup, !.idx = idx])
                     /\ task = "getRecord" \/ Lookup.phase # "begin"
                  \/ Fail(j)
<1>1. PICK task, idx :
        task \in {"getRecord", "validateSyncIsRunning"} /\ Does(task, idx)
             /\ (task = "getRecord" => idx = loc[j].idx)
  <2>1. CASE GetRecord(j)
    <3>1. Does("getRecord", loc[j].idx)
      BY <2>1 DEF GetRecord, Reload
    <3> HIDE DEF Does
    <3> QED BY <3>1
  <2>2. CASE ValidateSyncIsRunning(j)
    <3> DEFINE syncs == RunningSyncs(Lookup)
               i == CHOOSE i \in syncs : TRUE
    <3>1. Reload(j, "validateSyncIsRunning", Cardinality(syncs) = 1, i)
      BY <2>2 DEF ValidateSyncIsRunning
    <3> HIDE DEF i
    <3>2. Cardinality(syncs) = 1 => Lookup.phase # "begin"
      <4>1. Cardinality({}) = 0
        BY FS_EmptySet
      <4> QED BY <4>1, LookupEarly DEF Early
    <3> HIDE DEF syncs
    <3>3. Does("validateSyncIsRunning", i)
      BY <3>1, <3>2 DEF Reload
    <3> HIDE DEF Does
    <3> QED BY <3>3
  <2> QED BY <2>1, <2>2
<1>2. /\ mode[j] = "chain" /\ j \in Active
      /\ \/ job[j].action = "switch" /\ pc[j] = 9 /\ task = "getRecord"
         \/ /\ job[j].action = "pause" /\ pc[j] = 2
            /\ task = "validateSyncIsRunning"
  BY <1>1, AtWhere, WhereInChain
<1>3. ~Starter(j) /\ job[j].action # "begin"
  BY <1>2 DEF Starter
<1>4. CASE Fail(j)
  BY <1>1, <1>4, PlainRetry DEF NoneMade
<1>5. CASE /\ Proceed(j, [loc[j] EXCEPT !.rec = Lookup, !.idx = idx])
           /\ task = "getRecord" \/ Lookup.phase # "begin"
  <2> DEFINE l == [loc[j] EXCEPT !.rec = Lookup, !.idx = idx]
  <2>1. l.rec = Lookup /\ l.idx = idx
    BY LocalsRec DEF IInv, Locals
  <2>2. Proceed(j, l)
    BY <1>5
  <2> HIDE DEF l
  <2>3. /\ \A i \in Jobs \ {j} : Stands(i)
        /\ IsLast(j) => mode'[j] \in Ended
        /\ ~IsLast(j) => /\ mode'[j] = "chain" /\ pc'[j] = pc[j] + 1
                         /\ loc'[j] = l
    BY <1>1, <1>2, <2>2, ProceedFacts
  <2>4. Switch(j) => idx = 0
    BY <1>1, <1>2, <1>3, NotedAt DEF Entered, Switch
  <2>5. ~IsLast(j) => ~New(j)' /\ Noted(j)'
    <3>1. SUFFICES ASSUME mode'[j] = "chain", loc'[j] = l
                   PROVE  ~New(j)' /\ Noted(j)'
      BY <2>3
    <3>2. Early(loc[j].rec)'
      BY <2>1, <3>1, LookupEarly DEF Early
    <3>3. idx # 0 => Lookup.phase # "begin"
      <4>1. CASE Switch(j)
        BY <2>4, <4>1
      <4>2. CASE task = "validateSyncIsRunning"
        BY <1>5, <4>2
      <4> QED BY <1>2, <4>1, <4>2 DEF Switch
    <3>4. Entered(j)'
      BY <1>1, <2>1, <2>4, <3>1, <3>3 DEF Entered, Switch
    <3> QED BY <1>1, <1>3, <3>1, <3>2, <3>4 DEF Noted, New
  <2>6. NoneMade /\ NoneStored
    BY <1>1 DEF NoneMade, NoneStored, db, LiveIds
  <2>7. \A i \in Jobs : Fares(i)
    BY <2>3, <2>5 DEF Fares
  <2> QED BY <2>6, <2>7, DataRetry
<1> QED BY <1>1, <1>4, <1>5

-----------------------------------------------------------------------------
(* The tasks that stop a sync by another job, and those that queue a job.  *)
LEMMA InterruptRetry ==
    ASSUME IInv, RetryInv, NEW j \in Jobs,
           At(j, "cleanup") \/ At(j, "cancelSyncWorkflow")
               \/ AtCleanup(j, "cleanup"),
           job[j].action \in {"sync", "pause"},
           NEW k \in Jobs, mode[k] = "chain", k # j \/ ~IsLast(j),
           NEW m \in Cleaning,
           mode' = [ModeAfter(j) EXCEPT ![k] = m],
           pc' = [PcAfter(j) EXCEPT ![k] = 1],
           loc' = LocAfter(j, loc[j]), UNCHANGED <<db, inst, job>>
    PROVE  RetryInv'
<1>1. /\ mode[j] \in {"chain"} \cup Cleaning /\ j \in Active /\ k \in Active
      /\ j \in Jobs
  BY ActiveIs DEF At, AtCleanup, Cleaning
<1>2. mode \in [Jobs -> Modes] /\ pc \in [Jobs -> Nat] /\ loc \in [Jobs -> Locals]
  BY DEF IInv, ControlType
<1>3. ASSUME NEW i \in Jobs, i # j, i # k PROVE Fares(i)
  BY <1>2, <1>3 DEF ModeAfter, PcAfter, LocAfter, Stands, Fares
<1>4. Fares(k)
  <2>1. mode'[k] = m /\ loc'[k] = loc[k]
    BY <1>2 DEF ModeAfter, LocAfter
  <2>2. mode'[k] # "chain" /\ ~New(k)'
    BY <2>1 DEF Cleaning, New
  <2> QED BY <1>1, <2>1, <2>2 DEF Fares, Carries
<1>5. ASSUME j # k PROVE Fares(j)
  <2>1. CASE IsLast(j)
    <3>1. mode'[j] = Outcome[mode[j]]
      BY <1>2, <1>5, <2>1 DEF ModeAfter
    <3>2. mode'[j] \in Ended
      BY <1>1, <3>1 DEF Outcome, Cleaning, Ended
    <3> QED BY <3>2 DEF Fares
  <2>2. CASE ~IsLast(j)
    <3>1. mode'[j] = mode[j] /\ pc'[j] = pc[j] + 1 /\ loc'[j] = loc[j]
      BY <1>2, <1>5, <2>2 DEF ModeAfter, PcAfter, LocAfter
    <3> QED BY <1>1, <3>1 DEF Fares, Carries, New
  <2> QED BY <2>1, <2>2
<1>6. NoneMade /\ NoneStored
  BY DEF NoneMade, NoneStored, db, LiveIds
<1>7. \A i \in Jobs : Fares(i)
  BY <1>3, <1>4, <1>5
<1> QED BY <1>6, <1>7, DataRetry

LEMMA InterruptTasksRetry ==
    ASSUME IInv, SeqInv, RetryInv, HandsOver, NEW j \in Jobs,
           Cleanup(j) \/ CancelSyncWorkflow(j)
    PROVE  RetryInv'
<1>1. UNCHANGED <<db, inst, job>> /\ NoneMade
  BY DEF Cleanup, CancelSyncWorkflow, NoneMade
<1>2. CASE Cleanup(j)
  <2> DEFINE k == loc[j].rec.proc
  <2>1. At(j, "cleanup") \/ AtCleanup(j, "cleanup")
    BY <1>2 DEF Cleanup
  <2>2. job[j].action \in {"sync", "pause"}
    BY <2>1, AtWhere, WhereInChain, WhoseCleaning
  <2>3. k \in Jobs \cup {0}
    BY LocalsRec DEF IInv, Record
  <2>4. \/ GoOn(j)
        \/ /\ k \in Jobs \ {j} /\ mode[k] = "chain"
           /\ mode' = [ModeAfter(j) EXCEPT ![k] = "onerror"]
           /\ pc' = [PcAfter(j) EXCEPT ![k] = 1]
           /\ loc' = LocAfter(j, loc[j])
    BY <1>2, <2>3 DEF Cleanup, At
  <2> HIDE DEF k
  <2> QED BY <1>1, <2>1, <2>2, <2>4, InterruptRetry, PlainRetry
          DEF Cleaning
<1>3. CASE CancelSyncWorkflow(j)
  <2> DEFINE k == loc[j].rec.history[loc[j].idx].job
  <2>1. At(j, "cancelSyncWorkflow")
    BY <1>3 DEF CancelSyncWorkflow
  <2>2. job[j].action = "pause" /\ pc[j] = 3 /\ mode[j] = "chain"
    BY <2>1, AtWhere, WhereInChain
  <2>3. ~IsLast(j)
    <3>1. Len(Chain["pause"]) = 6
      BY DEF Chain, Chains, PauseChain
    <3>2. Tasks(j) = Chain["pause"]
      BY <2>2 DEF Tasks
    <3> QED BY <2>2, <3>1, <3>2 DEF IsLast
  <2>4. \/ GoOn(j)
        \/ /\ mode[k] = "chain"
           /\ mode' = [ModeAfter(j) EXCEPT ![k] = "canceling"]
           /\ pc' = [PcAfter(j) EXCEPT ![k] = 1]
           /\ loc' = LocAfter(j, loc[j])
    BY <1>3 DEF CancelSyncWorkflow
  <2> HIDE DEF k
  <2>5. CASE k \in Jobs
    BY <1>1, <2>1, <2>2, <2>3, <2>4, <2>5, InterruptRetry, PlainRetry
    DEF Cleaning
  <2>6. CASE k \notin Jobs
    <3>1. \/ mode' = ModeAfter(j) /\ pc' = PcAfter(j)
          \/ GoOn(j)
      BY <2>4, <2>6 DEF ModeAfter, PcAfter, IInv, ControlType
    <3>2. GoOn(j)
      BY <2>4, <3>1 DEF GoOn, Proceed
    <3> QED BY <1>1, <2>1, <3>2, PlainRetry
  <2> QED BY <2>5, <2>6
<1> QED BY <1>2, <1>3

LEMMA QueueRetry ==
    ASSUME IInv, RetryInv, NEW j \in Jobs,
           NEW task, task \notin {"storeInitialRecord", "disallowRetry"},
           At(j, task) \/ AtCleanup(j, task),
           NEW k \in Jobs, NEW params, NEW rec, NEW l, l.rec = loc[j].rec,
           l.idx = loc[j].idx, l.noRetry = loc[j].noRetry,
           Queue(j, k, params, rec, l), UNCHANGED <<db, inst>>,
           mode'[k] = "chain" /\ job'[k] = params /\ loc'[k].rec = rec
               /\ loc'[k].idx = 0 => Starter(k)' \/ Noted(k)'
    PROVE  RetryInv'
<1>1. /\ mode[j] \in {"chain"} \cup Cleaning /\ j \in Active
      /\ mode[j] = "chain" <=> At(j, task)
  BY ActiveIs DEF At, AtCleanup, Cleaning
<1>2. /\ k # j /\ mode'[k] = "chain" /\ job'[k] = params
      /\ loc'[k].rec = rec
      /\ \A i \in Jobs \ {k} : UNCHANGED job[i]
      /\ \A i \in Jobs \ {j, k} : Stands(i)
      /\ IsLast(j) => mode'[j] \in Ended
      /\ ~IsLast(j) => /\ mode'[j] = mode[j] /\ pc'[j] = pc[j] + 1
                       /\ loc'[j] = l
  BY <1>1, QueueFacts
<1>3. loc'[k].idx = 0
  <2>1. loc' = [LocAfter(j, l) EXCEPT ![k] = [NoLocals EXCEPT !.rec = rec]]
    BY DEF Queue
  <2>2. loc'[k] = [NoLocals EXCEPT !.rec = rec]
    BY <2>1 DEF LocAfter, IInv, ControlType
  <2> QED BY <2>2 DEF NoLocals
<1>4. Fares(k)
  BY <1>2, <1>3 DEF Fares, New
<1>5. Fares(j)
  <2>1. CASE IsLast(j)
    BY <1>2, <2>1 DEF Fares
  <2>2. CASE ~IsLast(j)
    <3>1. mode[j] = "chain" /\ job[j].action = "begin" => pc[j] \notin {3, 4}
      <4>1. /\ Chain["begin"] = BeginChain
            /\ BeginChain[3] = "storeInitialRecord"
            /\ BeginChain[4] = "disallowRetry"
        BY DEF Chain, Chains, BeginChain
      <4> QED BY <1>1, <4>1 DEF At
    <3>2. ~New(j) /\ ~New(j)' /\ (mode[j] # "chain" => mode'[j] # "chain")
      BY <1>1, <1>2, <2>2 DEF New, Cleaning
    <3> QED BY <1>1, <1>2, <2>2, <3>1, <3>2 DEF Fares, Carries
  <2> QED BY <2>1, <2>2
<1>6. NoneMade /\ NoneStored
  BY DEF NoneMade, NoneStored, db, LiveIds
<1>7. \A i \in Jobs : Fares(i)
  BY <1>2, <1>4, <1>5 DEF Fares
<1> QED BY <1>6, <1>7, DataRetry

LEMMA StopOrStartRetry ==
    ASSUME IInv, RetryInv, HandsOver, NEW j \in Jobs,
           StopSourceVm(j) \/ StartTargetVm(j) \/ StartSourceVm(j)
    PROVE  RetryInv'
<1>1. ASSUME NEW task \in {"stopSourceVm", "startTargetVm", "startSourceVm"},
             NEW a \in {"start", "stop"}, NEW needed,
             StopOrStart(j, task, a, needed)
      PROVE  RetryInv'
  <2>1. /\ At(j, task) \/ AtCleanup(j, task)
        /\ UNCHANGED <<db, inst>>
        /\ task \notin {"storeInitialRecord", "disallowRetry"}
    BY <1>1 DEF StopOrStart
  <2>2. CASE GoOn(j) /\ UNCHANGED job
    BY <2>1, <2>2, PlainRetry DEF NoneMade
  <2>3. CASE ~(GoOn(j) /\ UNCHANGED job)
    <3>1. PICK k \in Jobs : Queue(j, k, Params(a, FALSE, FALSE), NoRecord,
                                  [loc[j] EXCEPT !.child = k])
      BY <1>1, <2>3 DEF StopOrStart
    <3> DEFINE params == Params(a, FALSE, FALSE)
               l == [loc[j] EXCEPT !.child = k]
    <3>2. /\ params.action \in {"start", "stop"} /\ l.rec = loc[j].rec
          /\ l.idx = loc[j].idx /\ l.noRetry = loc[j].noRetry
      BY LocalsRec DEF Params, IInv, Locals
    <3>3. Queue(j, k, params, NoRecord, l)
      BY <3>1
    <3> HIDE DEF params, l
    <3>4. job'[k] = params => Starter(k)'
      BY <3>2 DEF Starter
    <3> QED BY <2>1, <3>2, <3>3, <3>4, QueueRetry
  <2> QED BY <2>2, <2>3
<1> QED BY <1>1 DEF StopSourceVm, StartTargetVm, StartSourceVm

LEMMA SubtaskRetry ==
    ASSUME IInv, RetryInv, HandsOver, NEW j \in Jobs,
           NEW task, task \notin {"storeInitialRecord", "disallowRetry"},
           At(j, task), NEW a \in {"sync", "switch"},
           NEW final, NEW waits, RequestSubtask(j, a, final, waits)
    PROVE  RetryInv'
<1> HIDE DEF Lookup
<1>1. UNCHANGED <<db, inst>>
  BY DEF RequestSubtask
<1>2. CASE Fail(j) /\ UNCHANGED job
  BY <1>1, <1>2, PlainRetry DEF NoneMade
<1>3. CASE ~(Fail(j) /\ UNCHANGED job)
  <2>1. PICK k \in Jobs :
               Queue(j, k, Params(a, TRUE, final), Lookup,
                     IF waits THEN [loc[j] EXCEPT !.child = k] ELSE loc[j])
    BY <1>3 DEF RequestSubtask
  <2> DEFINE params == Params(a, TRUE, final)
             l == IF waits THEN [loc[j] EXCEPT !.child = k] ELSE loc[j]
  <2>2. /\ params.action = a /\ l.rec = loc[j].rec
        /\ l.idx = loc[j].idx /\ l.noRetry = loc[j].noRetry
    BY LocalsRec DEF Params, IInv, Locals
  <2>3. Queue(j, k, params, Lookup, l)
    BY <2>1
  <2> HIDE DEF params, l
  <2>4. ASSUME job'[k] = params, loc'[k].rec = Lookup, loc'[k].idx = 0
        PROVE  Noted(k)'
    <3>1. Early(loc[k].rec)'
      BY <2>4, LookupEarly DEF Early
    <3>2. job'[k].action # "begin" /\ Entered(k)'
      BY <2>2, <2>4 DEF Entered
    <3> QED BY <3>1, <3>2 DEF Noted
  <2> QED BY <1>1, <2>2, <2>3, <2>4, QueueRetry
<1> QED BY <1>2, <1>3

LEMMA NextActionsRetry ==
    ASSUME IInv, RetryInv, HandsOver, NEW j \in Jobs,
           \/ StartSyncWhenAutomatic(j) \/ StartSyncOrSwitchWhenAutomatic(j)
           \/ StartFinalSync(j)
    PROVE  RetryInv'
<1>1. ASSUME NEW task \in Chaining, At(j, task), GoOn(j),
             UNCHANGED <<db, vm, inst, ticket, job, used>>
      PROVE  RetryInv'
  BY <1>1, PlainRetry DEF NoneMade, Chaining
<1>2. CASE StartSyncWhenAutomatic(j)
  BY <1>1, <1>2, SubtaskRetry DEF StartSyncWhenAutomatic, Chaining
<1>3. CASE StartSyncOrSwitchWhenAutomatic(j)
  <2> DEFINE a == IF loc[j].rec.syncs < 2 THEN "sync" ELSE "switch"
  <2>1. At(j, "startSyncOrSwitchWhenAutomatic")
    BY <1>3 DEF StartSyncOrSwitchWhenAutomatic
  <2>2. \/ RequestSubtask(j, a, FALSE, FALSE)
        \/ GoOn(j) /\ UNCHANGED <<db, vm, inst, ticket, job, used>>
    BY <1>3 DEF StartSyncOrSwitchWhenAutomatic
  <2>3. a \in {"sync", "switch"}
    OBVIOUS
  <2> HIDE DEF a
  <2> QED BY <1>1, <2>1, <2>2, <2>3, SubtaskRetry DEF Chaining
<1>4. CASE StartFinalSync(j)
  BY <1>4, SubtaskRetry DEF StartFinalSync
<1> QED BY <1>2, <1>3, <1>4

-----------------------------------------------------------------------------
(* The requests.                                                           *)
LEMMA RequestRetry ==
    ASSUME IInv, SeqInv, Sequential, HandInv, RetryInv, NEW k \in Jobs,
           RequestMigration(k)
    PROVE  RetryInv'
<1> HIDE DEF Lookup
<1>1. /\ mode[k] = "none" /\ Cardinality(Open) < MaxOpen
      /\ mode' = [mode EXCEPT ![k] = "request"]
      /\ loc' = [loc EXCEPT ![k].rec = Lookup]
      /\ UNCHANGED <<records, stored, inst, pc>>
  BY DEF RequestMigration, Fresh, db
<1>2. PICK a \in Requested : /\ Accepts(a, Lookup, FALSE)
                             /\ job' = [job EXCEPT ![k] = Params(a, FALSE, FALSE)]
  BY DEF RequestMigration
<1>3. /\ mode \in [Jobs -> Modes] /\ loc \in [Jobs -> Locals]
      /\ job \in [Jobs -> JobParams]
  BY DEF IInv, ControlType
<1>4. /\ job'[k].action = a /\ mode'[k] = "request"
      /\ loc'[k].rec = Lookup /\ loc'[k].idx = 0 /\ loc'[k].noRetry = FALSE
  BY <1>1, <1>2, <1>3 DEF Params, Locals, RetryInv, Blank, New
<1>5. \A i \in Jobs \ {k} : Stands(i)
  BY <1>1, <1>2, <1>3 DEF Stands
<1>6. \A i \in Active' : i = k
  <2>1. Active = {}
    BY <1>1, NoneOpen
  <2> QED BY <1>5, <2>1, ActiveIs, ActiveThen DEF Stands
<1>7. Early(Lookup) /\ Clear(Lookup)
  BY LookupEarly
<1>8. Noted(k)'
  <2>1. Early(loc[k].rec)'
    BY <1>4, <1>7 DEF Early
  <2>2. a # "begin" => Entered(k)'
    BY <1>4 DEF Entered
  <2>3. ASSUME a = "begin" PROVE Flagged(k)'
    <3>1. Lookup.phase = "begin" /\ ~Exists(Lookup.target)
      <4>1. CASE Lookup.id = 0
        <5>1. ASSUME NEW r \in LiveIds, Lookup = records[r] PROVE FALSE
          <6>1. r = 0
            BY <4>1, <5>1 DEF HandInv, Ids
          <6> QED BY <6>1, ConstantsAssumption DEF LiveIds, RecordIds
        <5>2. Lookup = NoRecord
          BY <5>1, LookupLive
        <5> QED BY <5>2, ConstantsAssumption DEF NoRecord, Exists
      <4>2. CASE Lookup.id # 0
        <5>1. RetryAllowed(Lookup)
          BY <1>2, <2>3, <4>2 DEF Accepts
        <5> QED BY <1>7, <5>1 DEF Clear, RetryAllowed
      <4> QED BY <4>1, <4>2
    <3>2. (~Exists(loc[k].rec.target))'
      BY <1>1, <1>4, <3>1 DEF Exists
    <3> QED BY <1>4, <3>1, <3>2 DEF Flagged
  <2> QED BY <1>4, <2>1, <2>2, <2>3 DEF Noted
<1>9. Kept'
  BY <1>1, KeptThen DEF NoneMade, NoneStored, LiveIds
<1>10. ASSUME NEW i \in Jobs PROVE Blank(i)'
  <2>1. CASE i = k
    BY <1>4, <2>1 DEF Blank
  <2>2. CASE i # k
    BY <1>5, <2>2 DEF Stands, RetryInv, Blank, New
  <2> QED BY <2>1, <2>2
<1> QED BY <1>6, <1>8, <1>9, <1>10 DEF RetryInv

LEMMA StartRetry ==
    ASSUME IInv, RetryInv, NEW k \in Jobs, StartWorkflow(k)
    PROVE  RetryInv'
<1>1. /\ mode[k] = "request" /\ UNCHANGED <<records, stored, inst, job, loc>>
      /\ \A i \in Jobs \ {k} : Stands(i)
      /\ mode'[k] = "chain" /\ pc'[k] = 1
  BY DEF StartWorkflow, db, IInv, ControlType, Stands
<1>2. Carries(k)
  BY <1>1, ActiveIs DEF Carries, New
<1>3. NoneMade /\ NoneStored
  BY <1>1 DEF NoneMade, NoneStored, LiveIds
<1> QED BY <1>1, <1>2, <1>3, DataRetry DEF Fares

\* A begin puts the record it has read, or a new one
LEMMA CreateRetry ==
    ASSUME IInv, SeqInv, RetryInv, NEW k \in Jobs, CreateRecord(k)
    PROVE  RetryInv'
<1> DEFINE old == loc[k].rec
<1>1. /\ mode[k] = "request" /\ job[k].action = "begin"
      /\ UNCHANGED <<inst, job>>
  BY DEF CreateRecord
<1>2. k \in Active /\ ~Starter(k)
  BY <1>1, ActiveIs DEF Starter
<1>3. Early(old) /\ Flagged(k) /\ Blank(k) /\ old \in Record
  BY <1>1, <1>2, NotedAt, LocalsRec DEF RetryInv, IInv
<1>4. PICK rec :
        /\ \/ rec = old
           \/ \E id, auto : rec = NewRecord(id, job[k].queue, auto)
        /\ Store(rec)
        /\ \/ /\ mode'[k] = "chain" /\ pc'[k] = 1
              /\ loc'[k].rec = rec /\ loc'[k].idx = loc[k].idx
              /\ loc'[k].noRetry = loc[k].noRetry
           \/ mode'[k] = "failed"
        /\ \A i \in Jobs \ {k} : Stands(i)
  <2>1. /\ mode \in [Jobs -> Modes] /\ pc \in [Jobs -> Nat]
        /\ loc \in [Jobs -> Locals]
    BY DEF IInv, ControlType
  <2>2. PICK id \in RecordIds, auto \in Automatic :
          LET rec == IF old.id = 0
                     THEN NewRecord(id, job[k].queue, auto) ELSE old
          IN  /\ Store(rec)
              /\ \/ /\ mode' = [mode EXCEPT ![k] = "chain"]
                    /\ pc' = [pc EXCEPT ![k] = 1]
                    /\ loc' = [loc EXCEPT ![k].rec = rec]
                 \/ /\ mode' = [mode EXCEPT ![k] = "failed"]
                    /\ loc' = [loc EXCEPT ![k] = NoLocals]
                    /\ UNCHANGED pc
    BY DEF CreateRecord
  <2> DEFINE rec == IF old.id = 0
                    THEN NewRecord(id, job[k].queue, auto) ELSE old
  <2>3. /\ Store(rec)
        /\ \/ /\ mode' = [mode EXCEPT ![k] = "chain"]
              /\ pc' = [pc EXCEPT ![k] = 1]
              /\ loc' = [loc EXCEPT ![k].rec = rec]
           \/ /\ mode' = [mode EXCEPT ![k] = "failed"]
              /\ loc' = [loc EXCEPT ![k] = NoLocals]
              /\ UNCHANGED pc
    BY <2>2
  <2>4. rec = old \/ rec = NewRecord(id, job[k].queue, auto)
    OBVIOUS
  <2> HIDE DEF rec
  <2>5. \/ /\ mode'[k] = "chain" /\ pc'[k] = 1
           /\ loc'[k].rec = rec /\ loc'[k].idx = loc[k].idx
           /\ loc'[k].noRetry = loc[k].noRetry
        \/ mode'[k] = "failed"
    BY <2>1, <2>3 DEF Locals
  <2>6. \A i \in Jobs \ {k} : Stands(i)
    BY <1>1, <2>1, <2>3 DEF Stands
  <2> QED BY <2>3, <2>4, <2>5, <2>6
<1>5. rec.phase = "begin" /\ ~Exists(rec.target) /\ Early(rec)
  <2>1. CASE rec = old
    BY <1>1, <1>3, <2>1 DEF Flagged, Blank, New
  <2>2. ASSUME NEW id, NEW auto, rec = NewRecord(id, job[k].queue, auto)
        PROVE  rec.phase = "begin" /\ ~Exists(rec.target) /\ Early(rec)
    BY <2>2, ConstantsAssumption DEF NewRecord, Exists, Early, RunningSyncs
  <2> QED BY <1>4, <2>1, <2>2
<1>6. Clear(rec)
  BY <1>5 DEF Clear
<1>7. ASSUME mode'[k] = "chain" PROVE ~New(k)' /\ Noted(k)'
  <2>1. /\ loc'[k].rec = rec /\ loc'[k].idx = 0 /\ pc'[k] = 1
    BY <1>1, <1>3, <1>4, <1>7 DEF Blank, New
  <2>2. Early(loc[k].rec)'
    BY <1>5, <2>1 DEF Early
  <2>3. (~Exists(loc[k].rec.target))'
    BY <1>1, <1>5, <2>1 DEF Exists
  <2>4. Flagged(k)'
    BY <1>5, <2>1, <2>3 DEF Flagged
  <2> QED BY <1>1, <1>7, <2>2, <2>4 DEF Noted, New
<1>8. mode'[k] \in Ended \/ (~New(k)' /\ Noted(k)')
  BY <1>4, <1>7 DEF Ended
<1> QED BY <1>1, <1>2, <1>4, <1>5, <1>6, <1>8, StoreRetry

LEMMA DropsRetry ==
    ASSUME IInv, RetryInv, HandsOver, NEW j \in Jobs,
           AbortWithoutTarget(j) \/ RemoveMigrationRecord(j)
    PROVE  RetryInv'
<1>1. UNCHANGED <<records, inst, job>> /\ NoneMade
  BY DEF AbortWithoutTarget, RemoveMigrationRecord, NoneMade
<1>2. NoneStored
  <2>1. stored' = [stored EXCEPT ![loc[j].rec.id] =
                       IF @ = "live" THEN "deleted" ELSE @]
    BY DEF AbortWithoutTarget, RemoveMigrationRecord
  <2>2. DOMAIN stored = RecordIds
    BY DEF IInv, DataType
  <2> QED BY <1>1, <2>1, <2>2 DEF NoneStored, LiveIds
<1>3. \A i \in Jobs : Fares(i)
  <2>1. CASE AbortWithoutTarget(j)
    <3>1. mode'[j] = "succeeded" /\ \A i \in Jobs \ {j} : Stands(i)
      BY <2>1 DEF AbortWithoutTarget, IInv, ControlType, Stands
    <3> QED BY <3>1 DEF Fares, Ended
  <2>2. CASE RemoveMigrationRecord(j)
    BY <2>2, PlainFares DEF RemoveMigrationRecord, GoOn
  <2> QED BY <2>1, <2>2
<1> QED BY <1>1, <1>2, <1>3, DataRetry

LEMMA FaultsRetry ==
    ASSUME IInv, RetryInv, HandsOver, NEW j \in Jobs,
           TaskFails(j) \/ CleanupFails(j)
    PROVE  RetryInv'
<1>1. UNCHANGED <<records, stored, inst, job>>
  BY DEF TaskFails, CleanupFails, db
<1>2. NoneMade /\ NoneStored
  BY <1>1 DEF NoneMade, NoneStored, LiveIds
<1>3. CASE TaskFails(j)
  BY <1>1, <1>2, <1>3, FailFares, DataRetry DEF TaskFails
<1>4. CASE CleanupFails(j)
  <2>1. /\ mode[j] \in Cleaning /\ mode'[j] = Outcome[mode[j]]
        /\ \A i \in Jobs \ {j} : Stands(i)
    BY <1>1, <1>4 DEF CleanupFails, AtCleanup, IInv, ControlType, Stands
  <2>2. mode'[j] \in Ended
    BY <2>1 DEF Outcome, Cleaning, Ended
  <2> QED BY <1>2, <2>1, <2>2, DataRetry DEF Fares
<1> QED BY <1>3, <1>4

LEMMA OthersRetry ==
    ASSUME IInv, RetryInv,
           UNCHANGED <<records, stored, inst, job, mode, pc, loc>>
    PROVE  RetryInv'
<1>1. NoneMade /\ NoneStored
  BY DEF NoneMade, NoneStored, LiveIds
<1>2. \A i \in Jobs : Fares(i)
  BY DEF Fares, Stands
<1> QED BY <1>1, <1>2, DataRetry

LEMMA JobStepRetry ==
    ASSUME IInv, SeqInv, HandInv, RetryInv, HandsOver, NEW j \in Jobs,
           JobStep(j)
    PROVE  RetryInv'
<1>1. CASE MigrationTask(j)
  BY <1>1, AllocateRetry, ProvisionRetry, NextActionsRetry, StoreTasksRetry,
     InstanceTasksRetry, InterruptTasksRetry, ReloadRetry, StopOrStartRetry,
     PlainTasksRetry, DropsRetry, NoRolling
  DEF MigrationTask
<1>2. CASE SharedTask(j)
  BY <1>2, PlainTasksRetry, StoreInitialRetry, StoreSuccessRetry,
     StoreFailureRetry, DisallowRetryRetry, InstanceTasksRetry
  DEF SharedTask
<1> QED BY <1>1, <1>2 DEF JobStep

LEMMA InitRetry == Init => RetryInv
<1> SUFFICES ASSUME Init PROVE RetryInv
  OBVIOUS
<1>1. Kept
  BY DEF Init, Kept, LiveIds
<1>2. \A j \in Jobs : Blank(j)
  BY DEF Init, Blank, NoLocals
<1>3. \A j \in Jobs : j \notin Active
  BY ActiveIs DEF Init
<1> QED BY <1>1, <1>2, <1>3, ActiveIs DEF RetryInv

LEMMA NextRetry ==
    ASSUME Sequential, IInv, SeqInv, HandInv, RetryInv,
           [Next]_vars, [HandsOver]_vars
    PROVE  RetryInv'
<1>1. CASE UNCHANGED vars
  BY <1>1, OthersRetry DEF vars
<1>2. ASSUME NEW j \in Jobs, HandsOver,
             \/ JobStep(j) \/ RequestStep(j) \/ RequestMigration(j)
             \/ TaskFails(j) \/ CleanupFails(j)
      PROVE  RetryInv'
  BY <1>2, JobStepRetry, RequestRetry, CreateRetry, DropsRetry, StartRetry,
     FaultsRetry
  DEF RequestStep
<1>3. ~UserAction
  <2>1. used.user \in Nat /\ MaxUserActions = 0
    BY DEF IInv, DataType, Sequential
  <2> QED BY <2>1 DEF UserAction
<1>4. ASSUME NEW s \in Servers, TicketExpires(s) \/ AgentReport(s)
      PROVE  RetryInv'
  BY <1>4, OthersRetry DEF TicketExpires, AgentReport, db
<1> QED BY <1>1, <1>2, <1>3, <1>4
        DEF Next, Quiescent, UserStartsOrStops, DeleteVmMigration

(* A begin that failed and may be asked for again has left no target       *)
(* instance, under the same hypotheses: disallowRetry sets noRetry in the  *)
(* job's copy before the target is made, storeFailure writes it into       *)
(* begin's entry, and no later action brings a record back to the phase    *)
(* begin.                                                                  *)
THEOREM RetryLeavesNoTargetHandedOver ==
    ASSUME Sequential
    PROVE  Spec /\ [][HandsOver]_vars => []RetryLeavesNoTarget
<1> DEFINE Inv == IInv /\ SeqInv /\ HandInv
<1>1. Init => RetryInv
  BY InitRetry
<1>2. Inv /\ RetryInv /\ [Next]_vars /\ [HandsOver]_vars => RetryInv'
  BY NextRetry
<1>3. RetryInv => RetryLeavesNoTarget
  BY DEF RetryInv, Kept, Clear, RetryLeavesNoTarget
<1> QED BY <1>1, <1>2, <1>3, HandedOver, PTL DEF Spec

=============================================================================
