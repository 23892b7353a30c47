-------------------------- MODULE VmVolumes_proofs --------------------------
(***************************************************************************)
(* Proofs about the shared volume under the jobs of VMs: what an instance  *)
(* mounts stays there.  The argument follows a create from the reservation *)
(* of the volume to its instance: until CNAPI is done with the provision,  *)
(* nobody but the create touches the VM, and its record says neither that  *)
(* it failed nor that it was destroyed.  A docker VM is followed until     *)
(* CNAPI accepts its destroy.                                              *)
(***************************************************************************)
EXTENDS VmJobs_proofs

-----------------------------------------------------------------------------
(* The order of the tasks in the chains.                                    *)
Asking == {"zoneAction", "provision"}
Volumes == {"loadVolume", "reserveVolume", "createVolume",
            "waitForNfsVolumeProvisions", "addVolumesReferences"}

\* The task before the place i is awaited, there or one place earlier
AwaitedBefore(c, i) ==
    \/ i > 2 /\ c[i - 1] = "waitTask" /\ c[i - 2] \in Asking
    \/ i > 3 /\ c[i - 2] = "waitTask" /\ c[i - 3] \in Asking
    \/ i > 4 /\ c[i - 2] = "waitTask" /\ c[i - 4] \in Asking

ChainOrder(c, kind, mounts, i) ==
    /\ c[i] \in Queueing => \A k \in 1..(i - 1) : c[k] \notin Asking
    /\ c[i] \in {"putVm", "removeVolumesReferences"} => AwaitedBefore(c, i)
    /\ c[i] = "removeVolumesReferences" => kind = "destroy"
    /\ c[i] = "markVmAsDestroyed" =>
         kind = "destroy" /\ i > 1 /\ c[i - 1] \in Asking
    /\ c[i] \in Volumes => kind = "create" /\ mounts
    /\ c[i] = "waitForNfsVolumeProvisions" =>
         i > 2 /\ c[i - 2] = "reserveVolume"
    /\ c[i] \in Learning =>
         \A k \in 1..(i - 1) : c[k] # "waitForNfsVolumeProvisions"
    /\ c[i] = "provision" /\ mounts =>
         i > 1 /\ c[i - 1] = "waitForNfsVolumeProvisions"

InOrder(c, kind, mounts) ==
    \A i \in 1..Len(c) : ChainOrder(c, kind, mounts, i)

\* A provision has its volume before its task, and learns of it before that
LEMMA ProvisionOrder ==
  ASSUME NEW r, r.fabric \in BOOLEAN, r.mounts \in BOOLEAN
  PROVE  InOrder(ProvisionChain(r), "create", r.mounts)
<1> DEFINE c == ProvisionChain(r)
<1> USE DEF ChainOrder, InOrder, AwaitedBefore, Asking, Volumes, Learning, Queueing
<1>1. CASE r.fabric /\ r.mounts
  <2>1. c = PF \o NfsProvisionChain \o PV \o PA \o PE
    BY <1>1 DEF ProvisionChain, PF, PV, PA, PE
  <2> HIDE DEF c
  <2>2. InOrder(c, "create", TRUE)
    BY <2>1 DEF FabricProvisionChain, NfsProvisionChain, PF, PV, PA, PE
  <2> QED BY <1>1, <2>2 DEF c
<1>2. CASE r.fabric /\ ~r.mounts
  <2>1. c = PF \o << >> \o PV \o << >> \o PE
    BY <1>2 DEF ProvisionChain, PF, PV, PA, PE
  <2> HIDE DEF c
  <2>2. InOrder(c, "create", FALSE)
    BY <2>1 DEF FabricProvisionChain, PF, PV, PE
  <2> QED BY <1>2, <2>2 DEF c
<1>3. CASE ~r.fabric /\ r.mounts
  <2>1. c = << >> \o NfsProvisionChain \o PV \o PA \o PE
    BY <1>3 DEF ProvisionChain, PF, PV, PA, PE
  <2> HIDE DEF c
  <2>2. InOrder(c, "create", TRUE)
    BY <2>1 DEF NfsProvisionChain, PV, PA, PE
  <2> QED BY <1>3, <2>2 DEF c
<1>4. CASE ~r.fabric /\ ~r.mounts
  <2>1. c = << >> \o << >> \o PV \o << >> \o PE
    BY <1>4 DEF ProvisionChain, PF, PV, PA, PE
  <2> HIDE DEF c
  <2>2. InOrder(c, "create", FALSE)
    BY <2>1 DEF PV, PE
  <2> QED BY <1>4, <2>2 DEF c
<1> QED BY <1>1, <1>2, <1>3, <1>4

\* A destroy lets go of the volume when its task has been awaited
LEMMA DestroyOrder ==
  ASSUME NEW r, r.fabric \in BOOLEAN, NEW m
  PROVE  /\ InOrder(DestroyChain(r), "destroy", m)
         /\ \A k \in 1..3 : DestroyChain(r)[k] \notin Asking
<1> DEFINE c == DestroyChain(r)
<1> USE DEF ChainOrder, InOrder, AwaitedBefore, Asking, Volumes, Learning, Queueing
<1>1. CASE r.fabric
  <2>1. c = DE \o FabricDestroyChain
    BY <1>1 DEF DestroyChain, DE
  <2> HIDE DEF c
  <2>2. InOrder(c, "destroy", m) /\ \A k \in 1..3 : c[k] \notin Asking
    BY <2>1 DEF DE, FabricDestroyChain
  <2> QED BY <2>2 DEF c
<1>2. CASE ~r.fabric
  <2>1. c = DE \o << >>
    BY <1>2 DEF DestroyChain, DE
  <2> HIDE DEF c
  <2>2. InOrder(c, "destroy", m) /\ \A k \in 1..3 : c[k] \notin Asking
    BY <2>1 DEF DE
  <2> QED BY <2>2 DEF c
<1> QED BY <1>1, <1>2

\* The order of an add_nics, with the fabric part or without
LEMMA AddNicsOrder ==
  ASSUME NEW r, r.fabric \in BOOLEAN, NEW m
  PROVE  InOrder(AddNicsChain(r), "addNics", m)
<1> DEFINE c == AddNicsChain(r)
<1> USE DEF ChainOrder, InOrder, AwaitedBefore, Asking, Volumes, Learning, Queueing
<1>1. CASE r.fabric
  <2>1. c = FabricProvisionChain \o NV \o NW \o NE
    BY <1>1 DEF AddNicsChain, NV, NW, NE
  <2> HIDE DEF c
  <2>2. InOrder(c, "addNics", m)
    BY <2>1 DEF NV, NW, NE, FabricProvisionChain
  <2> QED BY <2>2 DEF c
<1>2. CASE ~r.fabric
  <2>1. c = << >> \o NV \o << >> \o NE
    BY <1>2 DEF AddNicsChain, NV, NW, NE
  <2> HIDE DEF c
  <2>2. InOrder(c, "addNics", m)
    BY <2>1 DEF NV, NE
  <2> QED BY <2>2 DEF c
<1> QED BY <1>1, <1>2

\* The order of the chains that have no optional parts
LEMMA FixedOrder ==
  ASSUME NEW m
  PROVE  /\ InOrder(RemoveNicsChain, "removeNics", m)
         /\ InOrder(UpdateNicsChain, "updateNics", m)
         /\ InOrder(StartChain, "start", m)
         /\ InOrder(StopChain, "stop", m)
         /\ InOrder(RebootChain, "reboot", m)
         /\ InOrder(KillChain, "kill", m)
         /\ InOrder(ReprovisionChain, "reprovision", m)
         /\ InOrder(UpdateChain, "update", m)
         /\ InOrder(SnapshotChain, "snapshot", m)
         /\ InOrder(DeleteSnapshotChain, "deleteSnapshot", m)
         /\ InOrder(RollbackChain, "rollback", m)
<1> USE DEF ChainOrder, InOrder, AwaitedBefore, Asking, Volumes, Learning, Queueing
<1>1. InOrder(RemoveNicsChain, "removeNics", m)
  BY DEF RemoveNicsChain
<1>2. InOrder(UpdateNicsChain, "updateNics", m)
  BY DEF UpdateNicsChain
<1>3. InOrder(StartChain, "start", m)
  BY DEF StartChain
<1>4. InOrder(StopChain, "stop", m)
  BY DEF StopChain
<1>5. InOrder(RebootChain, "reboot", m)
  BY DEF RebootChain
<1>6. InOrder(KillChain, "kill", m)
  BY DEF KillChain
<1>7. InOrder(ReprovisionChain, "reprovision", m)
  BY DEF ReprovisionChain
<1>8. InOrder(UpdateChain, "update", m)
  BY DEF UpdateChain
<1>9. InOrder(SnapshotChain, "snapshot", m)
  BY DEF SnapshotChain
<1>10. InOrder(DeleteSnapshotChain, "deleteSnapshot", m)
  BY DEF DeleteSnapshotChain
<1>11. InOrder(RollbackChain, "rollback", m)
  BY DEF RollbackChain
<1> QED BY <1>1, <1>2, <1>3, <1>4, <1>5, <1>6,
           <1>7, <1>8, <1>9, <1>10, <1>11

\* Every chain a job may have is in order
LEMMA ChainsInOrder ==
  ASSUME NEW r \in JobRecs, r.mode = "chain"
  PROVE  InOrder(Steps(r), r.kind, r.mounts)
<1>1. r.kind \in AllKinds /\ r.fabric \in BOOLEAN /\ r.mounts \in BOOLEAN
  BY WorkflowsAssumption DEF JobRecs
<1>2. InOrder(Chain(r), r.kind, r.mounts)
  BY <1>1, ProvisionOrder, DestroyOrder, AddNicsOrder, FixedOrder
     DEF Chain, AllKinds, ActionKinds
<1> QED BY <1>2 DEF Steps

-----------------------------------------------------------------------------
(* What a job has behind it in its chain.                                   *)
Past(r, task) == \E k \in 1..(r.pc - 1) : Steps(r)[k] = task
Asked(r) == \E k \in 1..(r.pc - 1) : Steps(r)[k] \in Asking
Awaited(r) ==
    \E k, m \in 1..(r.pc - 1) :
        k < m /\ Steps(r)[k] \in Asking /\ Steps(r)[m] = "waitTask"

\* The tasks that may be skipped, and those that skip them
Skips == {"getNetwork", "createNat", "listNics", "destroyNat"}

\* A job in its chain came from its request, or went on in the chain past
\* tasks that may succeed
LEMMA OutcomeChain ==
  ASSUME NEW x \in JobRecs, PcOK(x), NEW T, NEW s, Outcome(s, x, T),
         s.mode = "chain"
  PROVE  \/ s.pc = 1
         \/ /\ x.mode = "chain" /\ Steps(s) = Steps(x)
            /\ s.pc \in Nat /\ x.pc \in Nat /\ s.pc >= x.pc
            /\ \A k \in x.pc..(s.pc - 1) :
                 \/ k = x.pc /\ Steps(x)[k] \notin T
                 \/ Steps(x)[k] \in Skips
<1>0. x.pc \in Nat \ {0} /\ x.mode \in Modes /\ StepsGood(x)
  BY StepsAre DEF JobRecs
<1>1. CASE s = x
  BY <1>0, <1>1
<1>2. CASE x.mode # "ended" /\ Steps(x)[x.pc] \notin T /\ s = Next1(x)
  <2>1. CASE x.pc < Len(Steps(x))
    BY <1>0, <1>2, <2>1, Next1OK
  <2>2. CASE ~(x.pc < Len(Steps(x)))
    <3>1. x.pc >= Len(Steps(x))
      BY <1>0, <2>2 DEF StepsGood
    <3> QED BY <1>2, <3>1, Next1OK
  <2> QED BY <2>1, <2>2
<1>3. CASE x.mode # "ended" /\ s = Failed(x)
  BY <1>0, <1>3, FailedOK DEF Modes
<1>4. CASE /\ x.mode = "chain" /\ Steps(x)[x.pc] \in {"getNetwork", "listNics"}
           /\ s = Next1(Next1(x))
  <2> DEFINE y == Next1(x)
  <2>1. x.pc \in 1..Len(Steps(x)) /\ Len(Steps(x)) \in Nat
    BY <1>0, <1>4 DEF PcOK, StepsGood
  <2>2. ChainGood(Steps(x), x.kind, x.pc)
    BY <1>0, <1>4, <2>1 DEF StepsGood
  <2>3. x.pc < Len(Steps(x)) /\ Steps(x)[x.pc + 1] \in {"createNat", "destroyNat"}
    BY <1>4, <2>2 DEF ChainGood
  <2>4. /\ y \in JobRecs /\ PcOK(y) /\ y.mode = "chain" /\ y.pc = x.pc + 1
        /\ Steps(y) = Steps(x)
    BY <1>4, <2>3, Next1OK
  <2> HIDE DEF y
  <2>5. CASE y.pc < Len(Steps(y))
    <3>1. s.pc = x.pc + 2 /\ Steps(s) = Steps(x)
      BY <1>0, <1>4, <2>4, <2>5, Next1OK DEF y
    <3>2. \A k \in x.pc..(s.pc - 1) : k = x.pc \/ k = x.pc + 1
      BY <1>0, <3>1
    <3>3. \A k \in x.pc..(s.pc - 1) : Steps(x)[k] \in Skips
      BY <1>4, <2>3, <3>2 DEF Skips
    <3> QED BY <1>0, <1>4, <3>1, <3>3
  <2>6. CASE ~(y.pc < Len(Steps(y)))
    <3>1. y.pc >= Len(Steps(y))
      BY <1>0, <2>1, <2>4, <2>6
    <3>2. s.mode = "ended"
      BY <1>4, <2>4, <3>1, Next1OK DEF y
    <3> QED BY <3>2
  <2> QED BY <2>5, <2>6
<1> QED BY <1>1, <1>2, <1>3, <1>4 DEF Outcome

\* A task is behind a job only when the job has come by it
LEMMA PastOutcome ==
  ASSUME NEW x \in JobRecs, PcOK(x), NEW T, NEW s, Outcome(s, x, T),
         s.mode = "chain", NEW task, task \notin Skips, Past(s, task)
  PROVE  /\ x.mode = "chain"
         /\ Past(x, task) \/ (Steps(x)[x.pc] = task /\ task \notin T)
<1>1. PICK k \in 1..(s.pc - 1) : Steps(s)[k] = task
  BY DEF Past
<1>2. s.pc # 1
  BY <1>1
<1>3. /\ x.mode = "chain" /\ Steps(s) = Steps(x)
      /\ s.pc \in Nat /\ x.pc \in Nat /\ s.pc >= x.pc
      /\ \A m \in x.pc..(s.pc - 1) :
           \/ m = x.pc /\ Steps(x)[m] \notin T
           \/ Steps(x)[m] \in Skips
  BY <1>2, OutcomeChain
<1>4. CASE k < x.pc
  <2>1. k \in 1..(x.pc - 1)
    BY <1>1, <1>3, <1>4
  <2> QED BY <1>1, <1>3, <2>1 DEF Past
<1>5. CASE ~(k < x.pc)
  <2>1. k \in x.pc..(s.pc - 1)
    BY <1>1, <1>3, <1>5
  <2> QED BY <1>1, <1>3, <2>1
<1> QED BY <1>4, <1>5

\* What is behind a job stays behind it in the chain
LEMMA PastStays ==
  ASSUME NEW x \in JobRecs, PcOK(x), NEW T, NEW s, Outcome(s, x, T),
         s.mode = "chain", x.mode = "chain", NEW task, Past(x, task)
  PROVE  Past(s, task)
<1>1. PICK k \in 1..(x.pc - 1) : Steps(x)[k] = task
  BY DEF Past
<1>2. s.pc # 1
  <2>1. x.pc \in Nat \ {0} /\ x.pc # 1
    BY <1>1 DEF JobRecs
  <2>2. CASE s = x
    BY <2>1, <2>2
  <2>3. CASE x.mode # "ended" /\ s = Next1(x)
    <3>1. Len(Steps(x)) \in Nat
      BY StepsAre DEF StepsGood
    <3> QED BY <2>1, <2>3, <3>1, Next1OK
  <2>4. CASE s = Failed(x)
    BY <2>4, FailedOK
  <2>5. CASE s = Next1(Next1(x)) /\ Steps(x)[x.pc] \in {"getNetwork", "listNics"}
    <3>1. Len(Steps(x)) \in Nat /\ ChainGood(Steps(x), x.kind, x.pc)
      BY StepsAre DEF StepsGood, PcOK
    <3>2. x.pc < Len(Steps(x))
      BY <2>5, <3>1 DEF ChainGood
    <3> DEFINE y == Next1(x)
    <3>3. /\ y \in JobRecs /\ PcOK(y) /\ y.mode = "chain" /\ y.pc = x.pc + 1
          /\ Steps(y) = Steps(x)
      BY <3>2, Next1OK
    <3>4. s = Next1(y)
      BY <2>5
    <3> HIDE DEF y
    <3> QED BY <2>1, <3>1, <3>3, <3>4, Next1OK
  <2> QED BY <2>2, <2>3, <2>4, <2>5 DEF Outcome
<1>3. Steps(s) = Steps(x) /\ s.pc \in Nat /\ x.pc \in Nat /\ s.pc >= x.pc
  BY <1>2, OutcomeChain
<1>4. k \in 1..(s.pc - 1)
  BY <1>3
<1> QED BY <1>1, <1>3, <1>4 DEF Past

\* CNAPI's answer is behind a job only when the job has come by the wait for it
LEMMA AwaitedOutcome ==
  ASSUME NEW x \in JobRecs, PcOK(x), NEW T, NEW s, Outcome(s, x, T),
         s.mode = "chain", Asking \subseteq T, Awaited(s)
  PROVE  /\ x.mode = "chain"
         /\ \/ Awaited(x)
            \/ Asked(x) /\ Steps(x)[x.pc] = "waitTask" /\ "waitTask" \notin T
<1>1. PICK k, m \in 1..(s.pc - 1) :
         k < m /\ Steps(s)[k] \in Asking /\ Steps(s)[m] = "waitTask"
  BY DEF Awaited
<1>2. s.pc # 1
  BY <1>1
<1>3. /\ x.mode = "chain" /\ Steps(s) = Steps(x)
      /\ s.pc \in Nat /\ x.pc \in Nat /\ s.pc >= x.pc
      /\ \A n \in x.pc..(s.pc - 1) :
           \/ n = x.pc /\ Steps(x)[n] \notin T
           \/ Steps(x)[n] \in Skips
  BY <1>2, OutcomeChain
<1>4. k < x.pc
  <2>1. SUFFICES ASSUME ~(k < x.pc) PROVE FALSE
    OBVIOUS
  <2>2. k \in x.pc..(s.pc - 1)
    BY <1>1, <1>3, <2>1
  <2> QED BY <1>1, <1>3, <2>2 DEF Asking, Skips
<1>5. k \in 1..(x.pc - 1)
  BY <1>1, <1>3, <1>4
<1>6. CASE m < x.pc
  <2>1. m \in 1..(x.pc - 1)
    BY <1>1, <1>3, <1>6
  <2> QED BY <1>1, <1>3, <1>5, <2>1 DEF Awaited
<1>7. CASE ~(m < x.pc)
  <2>1. m \in x.pc..(s.pc - 1)
    BY <1>1, <1>3, <1>7
  <2> QED BY <1>1, <1>3, <1>5, <2>1 DEF Skips, Asked
<1> QED BY <1>6, <1>7

\* The same for having asked CNAPI
LEMMA AskedOutcome ==
  ASSUME NEW x \in JobRecs, PcOK(x), NEW T, NEW s, Outcome(s, x, T),
         s.mode = "chain", Asking \subseteq T, Asked(s)
  PROVE  x.mode = "chain" /\ Asked(x)
<1>1. PICK task \in Asking : Past(s, task)
  BY DEF Past, Asked
<1>2. x.mode = "chain" /\ Past(x, task)
  BY <1>1, PastOutcome DEF Asking, Skips
<1> QED BY <1>1, <1>2 DEF Past, Asked

-----------------------------------------------------------------------------
(* The invariant.                                                           *)
Held == reserved \cup refs

\* A create of which CNAPI has not been heard yet
Pending(r) == r.kind = "create" /\ Alive(r) /\ r.task \in {"none", "queued"}

\* A job knows of its task in CNAPI what its place in the chain says
Carried(r) ==
    /\ r.mode = "chain" /\ Asked(r) => r.task # "none"
    /\ r.mode = "chain" /\ Awaited(r) => r.task = "complete"
    /\ r.kind = "create" /\ Alive(r) /\ r.task # "none" =>
         r.mode = "chain" /\ Past(r, "provision")
    /\ r.task = "queued" => (r.action = "destroy" <=> r.kind = "destroy")
    /\ r.kind # "destroy" /\ r.task = "complete" => r.finished.state # "none"

\* A create that has reserved its volume holds it, and one that has awaited it
\* found it ready
Own(r, vol, held) ==
    Pending(r) =>
        /\ ~r.mounts => r.volume = Unknown
        /\ r.mode = "chain" /\ Past(r, "reserveVolume") => r.vm \in held
        /\ r.mode = "chain" /\ Past(r, "waitForNfsVolumeProvisions") =>
             vol = [id |-> r.volume, state |-> "ready"] /\ r.vm \in held

OwnInv ==
    \A j \in Jobs : /\ Carried(job[j])
                    /\ \/ DestroyAccepted(job[j].vm)
                       \/ Own(job[j], volume, Held)
\* The VM of such a create is not there yet, and whoever destroys it loaded it
\* before it was
Virgin ==
    \A j \in Jobs : Pending(job[j]) /\ ~DestroyAccepted(job[j].vm) =>
        /\ rec[job[j].vm].state \in {"absent", "provisioning"}
        /\ rec[job[j].vm].mod = 0
        /\ zone[job[j].vm] = NoZone
        /\ \A i \in Jobs : i # j /\ job[i].vm = job[j].vm
                           => job[i].kind = "destroy" /\ ~job[i].mounts
Untouched ==
    \A v \in Vms : (\A j \in Jobs : job[j].vm # v)
                   => zone[v] = NoZone /\ rec[v] = NoRecord
\* A record that says failed or destroyed tells the truth
GoneStays ==
    \A v \in Vms : rec[v].state \in {"failed", "destroyed"}
                   /\ ~DestroyAccepted(v) => ~HasZone(v)
Destroyed ==
    \A j \in Jobs : job[j].kind = "destroy" /\ job[j].task = "complete"
                    /\ ~DestroyAccepted(job[j].vm)
                    => ~HasZone(job[j].vm) /\ zone[job[j].vm].mod > 0
Bare == \A v \in Vms : ~HasZone(v) => zone[v].volume = 0

VolInv == /\ OwnInv /\ Virgin /\ Untouched /\ GoneStays /\ Destroyed /\ Bare
          /\ MountedVolumeKept

-----------------------------------------------------------------------------
(* What the outcome of a task leaves true of its job.                       *)
\* A chain does not lead back to the request
LEMMA NoWayBack ==
  ASSUME NEW x \in JobRecs, PcOK(x), NEW T, NEW s, Outcome(s, x, T),
         x.mode = "chain"
  PROVE  s.mode # "request"
<1>1. CASE s = x
  BY <1>1
<1>2. Len(Steps(x)) \in Nat /\ x.pc \in Nat
  BY StepsAre DEF StepsGood, JobRecs
<1>3. CASE s = Next1(x)
  BY <1>2, <1>3, Next1OK
<1>4. CASE s = Failed(x)
  BY <1>4, FailedOK
<1>5. CASE s = Next1(Next1(x)) /\ Steps(x)[x.pc] \in {"getNetwork", "listNics"}
  <2>1. ChainGood(Steps(x), x.kind, x.pc)
    BY StepsAre DEF StepsGood, PcOK
  <2>2. x.pc < Len(Steps(x))
    BY <1>5, <2>1 DEF ChainGood
  <2> DEFINE y == Next1(x)
  <2>3. y \in JobRecs /\ PcOK(y) /\ y.mode = "chain"
    BY <2>2, Next1OK
  <2>4. Len(Steps(y)) \in Nat /\ y.pc \in Nat
    BY <2>3, StepsAre DEF StepsGood, JobRecs
  <2>5. s = Next1(y)
    BY <1>5
  <2> HIDE DEF y
  <2> QED BY <2>3, <2>4, <2>5, Next1OK
<1> QED BY <1>1, <1>3, <1>4, <1>5 DEF Outcome

\* What is behind a job does not depend on what a task changes of it
LEMMA PastFlow ==
  ASSUME NEW x, NEW r, SameFlow(x, r)
  PROVE  /\ Asked(x) <=> Asked(r)
         /\ Awaited(x) <=> Awaited(r)
         /\ \A task : Past(x, task) <=> Past(r, task)
BY DEF SameFlow, Asked, Awaited, Past

\* Nor what the job knows of its task
LEMMA CarriedFlow ==
  ASSUME NEW x, NEW r, SameFlow(x, r), x.task = r.task, x.action = r.action,
         x.finished = r.finished, Carried(r)
  PROVE  Carried(x)
BY PastFlow DEF SameFlow, Carried, Alive

\* Where a task leads that is not the one that asks CNAPI
LEMMA CarriedOutcome ==
  ASSUME NEW x \in JobRecs, PcOK(x), NEW T, NEW s, Outcome(s, x, T),
         Carried(x), Asking \subseteq T,
         "waitTask" \in T \/ x.task \in {"complete", "none"}
  PROVE  Carried(s)
<1>0. s = x \/ SameData(s, x)
  BY OutcomeOK
<1>1. ASSUME s.mode = "chain", Asked(s) PROVE s.task # "none"
  BY <1>0, <1>1, AskedOutcome DEF SameData, Carried
<1>2. ASSUME s.mode = "chain", Awaited(s) PROVE s.task = "complete"
  BY <1>0, <1>2, AwaitedOutcome DEF SameData, Carried
<1>3. ASSUME s.kind = "create", Alive(s), s.task # "none"
      PROVE  s.mode = "chain" /\ Past(s, "provision")
  <2>1. Alive(x)
    BY <1>3, AliveOutcome
  <2>2. x.mode = "chain" /\ Past(x, "provision")
    BY <1>0, <1>3, <2>1 DEF SameData, Carried
  <2>3. s.mode = "chain"
    BY <1>3, <2>2, NoWayBack DEF Alive
  <2> QED BY <2>2, <2>3, PastStays
<1>4. /\ s.task = "queued" => (s.action = "destroy" <=> s.kind = "destroy")
      /\ s.kind # "destroy" /\ s.task = "complete" => s.finished.state # "none"
  BY <1>0 DEF SameData, Carried
<1> QED BY <1>1, <1>2, <1>3, <1>4 DEF Carried

\* Where a task leads that is neither the reservation nor the wait for it
LEMMA OwnOutcome ==
  ASSUME NEW x \in JobRecs, PcOK(x), NEW T, NEW s, Outcome(s, x, T),
         NEW vol, NEW held, Own(x, vol, held),
         "reserveVolume" \in T \/ x.vm \in held,
         \/ "waitForNfsVolumeProvisions" \in T
         \/ vol = [id |-> x.volume, state |-> "ready"] /\ x.vm \in held
  PROVE  Own(s, vol, held)
<1>0. s = x \/ SameData(s, x)
  BY OutcomeOK
<1>1. SUFFICES ASSUME Pending(s)
      PROVE  /\ ~s.mounts => s.volume = Unknown
             /\ s.mode = "chain" /\ Past(s, "reserveVolume") => s.vm \in held
             /\ s.mode = "chain" /\ Past(s, "waitForNfsVolumeProvisions") =>
                  vol = [id |-> s.volume, state |-> "ready"] /\ s.vm \in held
  BY DEF Own
<1>2. Pending(x)
  BY <1>0, <1>1, AliveOutcome DEF SameData, Pending
<1>3. /\ s.volume = x.volume /\ s.mounts = x.mounts /\ s.vm = x.vm
  BY <1>0 DEF SameData
<1>4. ~s.mounts => s.volume = Unknown
  BY <1>2, <1>3 DEF Own
<1>5. ASSUME s.mode = "chain", Past(s, "reserveVolume") PROVE s.vm \in held
  <2>1. /\ x.mode = "chain"
        /\ \/ Past(x, "reserveVolume")
           \/ "reserveVolume" \notin T
    BY <1>5, PastOutcome DEF Skips
  <2> QED BY <1>2, <1>3, <2>1 DEF Own
<1>6. ASSUME s.mode = "chain", Past(s, "waitForNfsVolumeProvisions")
      PROVE  vol = [id |-> s.volume, state |-> "ready"] /\ s.vm \in held
  <2>1. /\ x.mode = "chain"
        /\ \/ Past(x, "waitForNfsVolumeProvisions")
           \/ "waitForNfsVolumeProvisions" \notin T
    BY <1>6, PastOutcome DEF Skips
  <2> QED BY <1>2, <1>3, <2>1 DEF Own
<1> QED BY <1>4, <1>5, <1>6

\* A job that learns of its volume does not know of it yet
LEMMA OwnFlow ==
  ASSUME NEW r \in JobRecs, PcOK(r), NEW x, SameFlow(x, r), SameKey(x, r),
         NEW vol, NEW held, Own(r, vol, held)
  PROVE  Own(x, vol, held)
<1>1. SUFFICES ASSUME Pending(x)
      PROVE  /\ ~x.mounts => x.volume = Unknown
             /\ x.mode = "chain" /\ Past(x, "reserveVolume") => x.vm \in held
             /\ x.mode = "chain" /\ Past(x, "waitForNfsVolumeProvisions") =>
                  vol = [id |-> x.volume, state |-> "ready"] /\ x.vm \in held
  BY DEF Own
<1>2. Pending(r) /\ x.mounts = r.mounts /\ x.vm = r.vm /\ x.mode = r.mode
  BY <1>1 DEF Pending, SameFlow, SameKey, Alive
<1>3. CASE x.volume = r.volume
  BY <1>2, <1>3, PastFlow DEF Own
<1>4. CASE Steps(r)[r.pc] \in Learning
  <2>1. r.pc \in 1..Len(Steps(r))
    BY <1>2 DEF PcOK, Pending, Alive
  <2>2. r.mode = "chain"
    <3>1. r.mode # "request"
      <4>1. SUFFICES ASSUME r.mode = "request" PROVE FALSE
        OBVIOUS
      <4>2. StepsGood(r) /\ r.kind = "create"
        BY <1>2, StepsAre DEF Pending
      <4>3. r.pc \in 1..9
        BY <2>1, <4>1, <4>2 DEF StepsGood
      <4>4. r.pc \in {1, 2, 3, 4, 5, 6, 7, 8, 9}
        BY <4>3
      <4> QED BY <1>4, <4>1, <4>2, <4>4 DEF StepsGood, Learning
    <3> QED BY <1>2, <3>1 DEF Pending, Alive
  <2>3. ChainOrder(Steps(r), r.kind, r.mounts, r.pc)
    BY <2>1, <2>2, ChainsInOrder DEF InOrder
  <2>4. r.mounts /\ ~Past(r, "waitForNfsVolumeProvisions")
    BY <1>4, <2>3 DEF ChainOrder, Past, Volumes, Learning
  <2> QED BY <1>2, <2>4, PastFlow DEF Own
<1> QED BY <1>3, <1>4 DEF SameKey

\* A minor step keeps both, unless it brings the VM or its volume about
LEMMA MinorKeeps ==
  ASSUME JobType, NEW j \in Jobs, Minor(j, Makings),
         NEW vol, NEW held, Carried(job[j])
  PROVE  /\ Carried(job'[j])
         /\ Own(job[j], vol, held) => Own(job'[j], vol, held)
         /\ Pending(job'[j]) => Pending(job[j])
         /\ job'[j].vm = job[j].vm /\ job'[j].kind = job[j].kind
         /\ job'[j].mounts = job[j].mounts /\ job'[j].task = job[j].task
         /\ Jobs' = Jobs /\ \A i \in Jobs : i # j => job'[i] = job[i]
<1>1. PICK x, s \in JobRecs :
            /\ SameFlow(x, job[j]) /\ SameKey(x, job[j])
            /\ Outcome(s, x, Makings)
            /\ PcOK(x) /\ Jobs' = Jobs
            /\ job'[j] = s /\ \A i \in Jobs : i # j => job'[i] = job[i]
  BY MinorTyped
<1>2. job[j] \in JobRecs /\ PcOK(job[j])
  BY JobTyped
<1>3. Carried(x) /\ (Own(job[j], vol, held) => Own(x, vol, held))
  BY <1>1, <1>2, CarriedFlow, OwnFlow DEF SameKey
<1>4. Asking \subseteq Makings /\ "waitTask" \in Makings
      /\ "reserveVolume" \in Makings /\ "waitForNfsVolumeProvisions" \in Makings
  BY DEF Asking, Makings
<1>5. Carried(s) /\ (Own(job[j], vol, held) => Own(s, vol, held))
  BY <1>1, <1>3, <1>4, CarriedOutcome, OwnOutcome
<1>6. s = x \/ SameData(s, x)
  BY <1>1, OutcomeOK
<1>7. Pending(s) => Pending(job[j])
  <2>1. Alive(s) => Alive(x)
    BY <1>1, AliveOutcome
  <2> QED BY <1>1, <1>6, <2>1 DEF Pending, SameData, SameFlow, SameKey, Alive
<1> QED BY <1>1, <1>5, <1>6, <1>7 DEF SameData, SameFlow, SameKey

-----------------------------------------------------------------------------
(* Steps that make no instance.                                             *)
\* A record that changes tells the truth, and is not of a VM whose create goes
\* on unheard of
RecKept ==
    \A v \in Vms : \/ rec'[v] = rec[v]
                   \/ DestroyAccepted(v)
                   \/ /\ \E j \in Jobs : job[j].vm = v
                      /\ rec'[v].state \in {"failed", "destroyed"}
                           => ~HasZone(v)
                      /\ \A j \in Jobs :
                            job[j].vm = v /\ Pending(job[j])
                            /\ Pending(job'[j]) =>
                              /\ rec'[v].state \in {"absent", "provisioning"}
                              /\ rec'[v].mod = 0
\* A volume that is ready and held stays, and is held for those that use it
VolKept ==
    /\ volume' = volume \/ volume.state # "ready" \/ Held = {}
    /\ \A v \in Held : \/ v \in Held' \/ DestroyAccepted(v)
                       \/ /\ zone[v].volume = 0
                          /\ \A j \in Jobs : job[j].vm = v => ~Pending(job[j])

\* A create that did not move owns what it did
LEMMA OwnKept ==
  ASSUME VolKept, NEW j \in Jobs, Own(job[j], volume, Held),
         ~DestroyAccepted(job[j].vm)
  PROVE  Own(job[j], volume', Held')
<1>1. SUFFICES ASSUME Pending(job[j])
      PROVE  /\ ~job[j].mounts => job[j].volume = Unknown
             /\ job[j].mode = "chain" /\ Past(job[j], "reserveVolume")
                  => job[j].vm \in Held'
             /\ job[j].mode = "chain"
                /\ Past(job[j], "waitForNfsVolumeProvisions") =>
                  /\ volume' = [id |-> job[j].volume, state |-> "ready"]
                  /\ job[j].vm \in Held'
  BY DEF Own
<1>2. job[j].vm \in Held => job[j].vm \in Held'
  BY <1>1 DEF VolKept
<1>3. volume = [id |-> job[j].volume, state |-> "ready"] /\ job[j].vm \in Held
        => volume' = volume
  BY DEF VolKept
<1> QED BY <1>1, <1>2, <1>3 DEF Own

\* What jobs may become while instances stay
Keeps(s, r) ==
    /\ s.vm = r.vm /\ s.kind = r.kind /\ s.mounts = r.mounts
    /\ Pending(s) => Pending(r)
    /\ s.task = "complete" => r.task = "complete" \/ r.kind # "destroy"
    /\ r.task # "none" => s.task # "none"

\* Jobs that go on do not take back a destroy that CNAPI accepted
LEMMA AcceptedStays ==
  ASSUME \A i \in Jobs : /\ i \in Jobs' /\ job'[i].vm = job[i].vm
                         /\ job'[i].kind = job[i].kind
                         /\ job[i].task # "none" => job'[i].task # "none"
  PROVE  \A v : DestroyAccepted(v) => DestroyAccepted(v)'
BY DEF DestroyAccepted

\* What holds of the VMs, when the jobs go on and the records stay true
LEMMA VolFrame ==
  ASSUME JobType, VolInv, zone' = zone, Jobs' = Jobs, RecKept, VolKept,
         \A i \in Jobs : /\ Keeps(job'[i], job[i]) /\ Carried(job'[i])
                         /\ \/ DestroyAccepted(job[i].vm)
                            \/ Own(job'[i], volume', Held')
  PROVE  VolInv'
<1>a. \A v : DestroyAccepted(v) => DestroyAccepted(v)'
  BY AcceptedStays DEF Keeps
<1>1. OwnInv'
  <2>1. SUFFICES ASSUME NEW i \in Jobs
        PROVE  /\ Carried(job'[i])
               /\ \/ DestroyAccepted(job[i].vm)'
                  \/ Own(job'[i], volume', Held')
    BY DEF OwnInv
  <2> QED BY <1>a DEF Keeps
<1>2. Virgin'
  <2>1. SUFFICES ASSUME NEW j \in Jobs, Pending(job'[j]),
                        ~DestroyAccepted(job[j].vm)'
        PROVE  /\ rec'[job'[j].vm].state \in {"absent", "provisioning"}
               /\ rec'[job'[j].vm].mod = 0
               /\ zone'[job'[j].vm] = NoZone
               /\ \A i \in Jobs : i # j /\ job'[i].vm = job'[j].vm
                                  => job'[i].kind = "destroy" /\ ~job'[i].mounts
    BY DEF Virgin
  <2>2. /\ Pending(job[j]) /\ job'[j].vm = job[j].vm
        /\ ~DestroyAccepted(job[j].vm)
    BY <1>a, <2>1 DEF Keeps
  <2>3. /\ rec[job[j].vm].state \in {"absent", "provisioning"}
        /\ rec[job[j].vm].mod = 0
        /\ zone[job[j].vm] = NoZone
        /\ \A i \in Jobs : i # j /\ job[i].vm = job[j].vm
                           => job[i].kind = "destroy" /\ ~job[i].mounts
    BY <2>2 DEF VolInv, Virgin
  <2>4. job[j].vm \in Vms => /\ rec'[job[j].vm].state \in {"absent", "provisioning"}
                             /\ rec'[job[j].vm].mod = 0
    BY <2>1, <2>2, <2>3 DEF RecKept
  <2>5. job[j].vm \in Vms
    BY JobTyped DEF JobRecs
  <2> QED BY <2>2, <2>3, <2>4, <2>5 DEF Keeps
<1>3. Untouched'
  <2>1. \A v \in Vms : DestroyAccepted(v) => \E j \in Jobs : job[j].vm = v
    BY DEF DestroyAccepted
  <2> QED BY <2>1 DEF VolInv, Untouched, RecKept, Keeps
<1>4. GoneStays'
  <2>1. SUFFICES ASSUME NEW v \in Vms, ~DestroyAccepted(v)',
                        rec'[v].state \in {"failed", "destroyed"}
        PROVE  ~HasZone(v)'
    BY DEF GoneStays
  <2>2. ~DestroyAccepted(v)
    BY <1>a, <2>1
  <2> QED BY <2>1, <2>2 DEF VolInv, GoneStays, RecKept, HasZone
<1>5. Destroyed'
  <2>1. SUFFICES ASSUME NEW j \in Jobs, job'[j].kind = "destroy",
                        job'[j].task = "complete",
                        ~DestroyAccepted(job[j].vm)'
        PROVE  ~HasZone(job[j].vm)' /\ zone'[job'[j].vm].mod > 0
    BY DEF Destroyed
  <2>2. /\ job'[j].vm = job[j].vm /\ ~DestroyAccepted(job[j].vm)
        /\ job[j].kind = "destroy" /\ job[j].task = "complete"
    BY <1>a, <2>1 DEF Keeps
  <2> QED BY <2>2 DEF VolInv, Destroyed, HasZone
<1>6. Bare'
  BY DEF VolInv, Bare, HasZone
<1>7. MountedVolumeKept'
  <2>1. SUFFICES ASSUME NEW v \in Vms, zone[v].volume # 0,
                        ~DestroyAccepted(v)'
        PROVE  /\ volume' = [id |-> zone[v].volume, state |-> "ready"]
               /\ v \in Held'
    BY DEF MountedVolumeKept, Held
  <2>a. ~DestroyAccepted(v)
    BY <1>a, <2>1
  <2>2. volume = [id |-> zone[v].volume, state |-> "ready"] /\ v \in Held
    BY <2>1, <2>a DEF VolInv, MountedVolumeKept, Held
  <2>3. volume' = volume
    BY <2>2 DEF VolKept
  <2> QED BY <2>1, <2>a, <2>2, <2>3 DEF VolKept
<1> QED BY <1>1, <1>2, <1>3, <1>4, <1>5, <1>6, <1>7 DEF VolInv

\* The same with one job that moves
LEMMA VolMoves ==
  ASSUME JobType, VolInv, zone' = zone, Jobs' = Jobs, RecKept, VolKept,
         NEW j \in Jobs, \A i \in Jobs : i # j => job'[i] = job[i],
         Keeps(job'[j], job[j]), Carried(job'[j]),
         DestroyAccepted(job[j].vm) \/ Own(job'[j], volume', Held')
  PROVE  VolInv'
<1>1. ASSUME NEW i \in Jobs, i # j
      PROVE  /\ Keeps(job'[i], job[i]) /\ Carried(job'[i])
             /\ \/ DestroyAccepted(job[i].vm)
                \/ Own(job'[i], volume', Held')
  <2>1. /\ Carried(job[i])
        /\ DestroyAccepted(job[i].vm) \/ Own(job[i], volume, Held)
    BY DEF VolInv, OwnInv
  <2> QED BY <1>1, <2>1, OwnKept DEF Keeps
<1> QED BY <1>1, VolFrame

\* A minor step that brings neither VM nor volume about
LEMMA VolMinor ==
  ASSUME JobType, VolInv, zone' = zone, RecKept, VolKept,
         NEW j \in Jobs, Minor(j, Makings)
  PROVE  VolInv'
<1>1. /\ Carried(job[j])
      /\ DestroyAccepted(job[j].vm) \/ Own(job[j], volume', Held')
  BY OwnKept DEF VolInv, OwnInv
<1>2. /\ Carried(job'[j])
      /\ DestroyAccepted(job[j].vm) \/ Own(job'[j], volume', Held')
      /\ Pending(job'[j]) => Pending(job[j])
      /\ job'[j].vm = job[j].vm /\ job'[j].kind = job[j].kind
      /\ job'[j].mounts = job[j].mounts /\ job'[j].task = job[j].task
      /\ Jobs' = Jobs /\ \A i \in Jobs : i # j => job'[i] = job[i]
  BY <1>1, MinorKeeps
<1> QED BY <1>2, VolMoves DEF Keeps

\* Nobody moves, or only those that no longer matter
LEMMA NothingKept ==
  ASSUME VolInv
  PROVE  /\ rec' = rec => RecKept
         /\ volVars' = volVars => VolKept
BY DEF RecKept, VolKept, volVars, Held

-----------------------------------------------------------------------------
(* The tasks of jobs.                                                       *)
\* A task that is none of those that bring the VM or its volume about
LEMMA NoMaking ==
  ASSUME JobType, NEW j \in Jobs, NEW task, At(j, task), task \notin Makings,
         NEW T, Minor(j, T)
  PROVE  Minor(j, Makings)
<1>1. PICK x \in JobRecs :
        /\ SameFlow(x, job[j]) /\ SameKey(x, job[j])
        /\ \E s : Outcome(s, x, T) /\ job' = [job EXCEPT ![j] = s]
  BY DEF Minor
<1>2. Steps(x)[x.pc] = task
  BY <1>1, AtOK DEF SameFlow
<1>3. \A s : Outcome(s, x, T) => Outcome(s, x, Makings)
  BY <1>2 DEF Outcome
<1> QED BY <1>1, <1>3 DEF Minor

\* A job that ended with the process it was in
LEMMA EndedKeeps ==
  ASSUME NEW r, NEW s, SameData(s, r), s.mode = "ended", Carried(r),
         NEW vol, NEW held
  PROVE  Keeps(s, r) /\ Carried(s) /\ Own(s, vol, held)
BY DEF SameData, Keeps, Carried, Own, Pending, Alive

\* The tasks on tickets
LEMMA VolOfTickets ==
  ASSUME JobType, QueueType, UsedType, VolInv, NEW j \in Jobs, TicketTasks(j),
         volVars' = volVars, rec' = rec, zone' = zone
  PROVE  VolInv'
<1>0. RecKept /\ VolKept
  BY NothingKept
<1>1. CASE Crash(j)
  <2>1. /\ Jobs' = Jobs
        /\ \A i \in Jobs : \/ job'[i] = job[i]
                           \/ /\ job'[i].mode = "ended"
                              /\ SameData(job'[i], job[i])
    BY <1>1, CrashTyped
  <2>2. ASSUME NEW i \in Jobs
        PROVE  /\ Keeps(job'[i], job[i]) /\ Carried(job'[i])
               /\ \/ DestroyAccepted(job[i].vm)
                  \/ Own(job'[i], volume', Held')
    <3>1. /\ Carried(job[i])
          /\ DestroyAccepted(job[i].vm) \/ Own(job[i], volume, Held)
      BY DEF VolInv, OwnInv
    <3>2. CASE job'[i] = job[i]
      BY <1>0, <3>1, <3>2, OwnKept DEF Keeps
    <3>3. CASE job'[i].mode = "ended" /\ SameData(job'[i], job[i])
      BY <3>1, <3>3, EndedKeeps
    <3> QED BY <2>1, <3>2, <3>3
  <2> QED BY <1>0, <2>1, <2>2, VolFrame
<1>2. CASE Minor(j, {})
  <2>1. \E task : At(j, task) /\ task \notin Makings
    BY DEF TicketTasks, acquireVMTicket, waitOnVMTicket, releaseVMTicket,
           releaseVMTicketIgnoringErr, acquireAllocationTicket,
           waitOnAllocationTicket, releaseAllocationTicket, Makings
  <2>2. Minor(j, Makings)
    BY <1>2, <2>1, NoMaking
  <2> QED BY <1>0, <2>2, VolMinor
<1> QED BY <1>1, <1>2, TicketStep

\* The tasks on NICs and the NAT zone
LEMMA VolOfNics ==
  ASSUME JobType, QueueType, UsedType, NicType, VolInv, NEW j \in Jobs,
         NicTasks(j), volVars' = volVars, rec' = rec, zone' = zone
  PROVE  VolInv'
<1>0. RecKept /\ VolKept
  BY NothingKept
<1>1. CASE Minor(j, Stages)
  BY <1>0, <1>1, FewerStages, VolMinor
<1>2. CASE LooksAtNics(j)
  <2>1. PICK s \in JobRecs :
            /\ PcOK(s) /\ SameKey(s, job[j]) /\ s.vm = job[j].vm
            /\ s.kind = "destroy" /\ s.mode = "chain" /\ s.pc = 4
            /\ JobType' /\ Jobs' = Jobs
            /\ job'[j] = s /\ \A i \in Jobs : i # j => job'[i] = job[i]
    BY <1>2, LookTyped
  <2>2. job[j].kind = "destroy"
    BY <1>2, LookStep
  <2>3. \A k \in 1..3 : Steps(s)[k] \notin Asking
    <3>1. s.fabric \in BOOLEAN
      BY DEF JobRecs
    <3>2. Steps(s) = DestroyChain(s)
      BY <2>1 DEF Steps, Chain
    <3> QED BY <3>1, <3>2, DestroyOrder
  <2>4. ~Asked(s) /\ ~Awaited(s)
    BY <2>1, <2>3 DEF Asked, Awaited
  <2>5. Carried(job[j])
    BY DEF VolInv, OwnInv
  <2>6. Carried(s)
    BY <2>1, <2>2, <2>4, <2>5 DEF Carried, SameKey
  <2>7. Keeps(s, job[j]) /\ Own(s, volume', Held')
    BY <2>1, <2>2 DEF Keeps, Own, Pending, SameKey
  <2> QED BY <1>0, <2>1, <2>6, <2>7, VolMoves
<1> QED BY <1>1, <1>2, NicStep

\* A task that fails by itself
LEMMA VolOfFaults ==
  ASSUME JobType, QueueType, UsedType, VolInv, NEW j \in Jobs, TaskFails(j),
         volVars' = volVars, rec' = rec, zone' = zone
  PROVE  VolInv'
BY FaultStep, FewerStages, VolMinor, NothingKept

\* A job at one of these tasks has CNAPI's answer behind it
LEMMA AwaitedHere ==
  ASSUME NEW r \in JobRecs, PcOK(r), r.mode = "chain",
         Steps(r)[r.pc] \in {"putVm", "removeVolumesReferences"}
  PROVE  Awaited(r)
<1>1. r.pc \in 1..Len(Steps(r)) /\ r.pc \in Nat
  BY DEF PcOK, JobRecs
<1>2. AwaitedBefore(Steps(r), r.pc)
  BY <1>1, ChainsInOrder DEF InOrder, ChainOrder
<1> DEFINE c == Steps(r)
           p == r.pc
<1>3. ASSUME NEW k \in 1..(p - 1), NEW m \in 1..(p - 1), k < m,
             c[k] \in Asking, c[m] = "waitTask"
      PROVE  Awaited(r)
  BY <1>3 DEF Awaited
<1>4. CASE p > 2 /\ c[p - 1] = "waitTask" /\ c[p - 2] \in Asking
  <2>1. p - 2 \in 1..(p - 1) /\ p - 1 \in 1..(p - 1) /\ p - 2 < p - 1
    BY <1>1, <1>4
  <2> HIDE DEF c, p
  <2> QED BY <1>3, <1>4, <2>1
<1>5. CASE p > 3 /\ c[p - 2] = "waitTask" /\ c[p - 3] \in Asking
  <2>1. p - 3 \in 1..(p - 1) /\ p - 2 \in 1..(p - 1) /\ p - 3 < p - 2
    BY <1>1, <1>5
  <2> HIDE DEF c, p
  <2> QED BY <1>3, <1>5, <2>1
<1>6. CASE p > 4 /\ c[p - 2] = "waitTask" /\ c[p - 4] \in Asking
  <2>1. p - 4 \in 1..(p - 1) /\ p - 2 \in 1..(p - 1) /\ p - 4 < p - 2
    BY <1>1, <1>6
  <2> HIDE DEF c, p
  <2> QED BY <1>3, <1>6, <2>1
<1> QED BY <1>2, <1>4, <1>5, <1>6 DEF AwaitedBefore

\* The tasks on the volume are those of chains
LEMMA VolumePlaces ==
  ASSUME JobType, NEW j \in Jobs, NEW task, At(j, task),
         task \in Volumes \cup {"removeVolumesReferences"}
  PROVE  /\ job[j].mode = "chain" /\ job[j] \in JobRecs /\ PcOK(job[j])
         /\ job[j].pc \in 1..Len(Steps(job[j]))
         /\ Steps(job[j])[job[j].pc] = task
         /\ ChainOrder(Steps(job[j]), job[j].kind, job[j].mounts, job[j].pc)
<1>1. job[j].mode = "chain"
  BY TaskPlaces DEF RequestTasks, CleanupTasks, EndTasks, Volumes
<1>2. /\ job[j] \in JobRecs /\ PcOK(job[j])
      /\ job[j].pc \in 1..Len(Steps(job[j]))
      /\ Steps(job[j])[job[j].pc] = task
  BY JobTyped, AtOK
<1> QED BY <1>1, <1>2, ChainsInOrder DEF InOrder

\* The tasks on the volume
LEMMA VolOfVolumes ==
  ASSUME JobType, QueueType, UsedType, VolumeType, VolInv, NEW j \in Jobs,
         VolumeTasks(j), rec' = rec, zone' = zone
  PROVE  VolInv'
<1>0. RecKept
  BY NothingKept
<1>1. Minor(j, Lines)
  BY VolumeStep
<1>2. ASSUME NEW task, At(j, task), task \notin Makings
      PROVE  Minor(j, Makings)
  BY <1>1, <1>2, NoMaking
<1>3. /\ job[j] \in JobRecs /\ PcOK(job[j]) /\ Carried(job[j])
      /\ DestroyAccepted(job[j].vm) \/ Own(job[j], volume, Held)
  BY JobTyped DEF VolInv, OwnInv
<1>4. CASE loadVolume(j)
  <2>1. At(j, "loadVolume") /\ volVars' = volVars
    BY <1>4 DEF loadVolume
  <2>2. Minor(j, Makings) /\ VolKept
    BY <1>2, <2>1, NothingKept DEF Makings
  <2> QED BY <1>0, <2>2, VolMinor
<1>5. CASE createVolume(j)
  <2>1. /\ At(j, "createVolume") /\ Held' = Held
        /\ volume' = volume \/ volume.state = "none"
    BY <1>5 DEF createVolume, Held, Exists
  <2>2. Minor(j, Makings) /\ VolKept
    BY <1>2, <2>1 DEF Makings, VolKept
  <2> QED BY <1>0, <2>2, VolMinor
<1>6. CASE addVolumesReferences(j)
  <2>1. job[j].vm \in Vms
    BY <1>3 DEF JobRecs
  <2>2. At(j, "addVolumesReferences") /\ Held \subseteq Held' /\ volume' = volume
    BY <1>6 DEF addVolumesReferences, Held
  <2>3. Minor(j, Makings) /\ VolKept
    BY <1>2, <2>2 DEF Makings, VolKept
  <2> QED BY <1>0, <2>3, VolMinor
<1>7. CASE removeVolumesReferences(j)
  <2>1. /\ At(j, "removeVolumesReferences") /\ volume' = volume
        /\ reserved' = reserved
        /\ refs' = IF job[j].mounts THEN refs \ {job[j].vm} ELSE refs
    BY <1>7 DEF removeVolumesReferences
  <2>2. job[j].kind = "destroy" /\ Awaited(job[j]) /\ job[j].mode = "chain"
    BY <2>1, VolumePlaces, AwaitedHere DEF ChainOrder
  <2>3. \/ DestroyAccepted(job[j].vm)
        \/ ~HasZone(job[j].vm) /\ zone[job[j].vm].volume = 0
    <3>1. job[j].task = "complete" /\ job[j].vm \in Vms
      BY <1>3, <2>2 DEF Carried, JobRecs
    <3> QED BY <2>2, <3>1 DEF VolInv, Destroyed, Bare
  <2>4. job[j].mounts => \/ DestroyAccepted(job[j].vm)
                         \/ \A i \in Jobs : job[i].vm = job[j].vm
                                             => ~Pending(job[i])
    BY <2>2 DEF VolInv, Virgin, Pending
  <2>5. VolKept
    BY <2>1, <2>3, <2>4 DEF VolKept, Held
  <2>6. Minor(j, Makings)
    BY <1>2, <2>1 DEF Makings
  <2> QED BY <1>0, <2>5, <2>6, VolMinor
<1>8. CASE reserveVolume(j)
  <2> DEFINE s == Next1(job[j])
             T == {"zoneAction", "provision", "waitTask",
                   "waitForNfsVolumeProvisions"}
  <2>1. /\ At(j, "reserveVolume") /\ job' = [job EXCEPT ![j] = s]
        /\ volume' = volume /\ Held' = Held \cup {job[j].vm}
    BY <1>8 DEF reserveVolume, Proceed, Held
  <2>2. VolKept
    BY <2>1 DEF VolKept
  <2>3. Outcome(s, job[j], T)
    BY <2>1, AtOK DEF Outcome
  <2>4. DestroyAccepted(job[j].vm) \/ Own(job[j], volume', Held')
    BY <1>3, <2>2, OwnKept
  <2>5. job[j].vm \in Held'
    BY <2>1
  <2> HIDE DEF s
  <2>6. Carried(s)
    BY <1>3, <2>3, CarriedOutcome DEF Asking
  <2>7. DestroyAccepted(job[j].vm) \/ Own(s, volume', Held')
    BY <1>3, <2>3, <2>4, <2>5, OwnOutcome
  <2>8. s \in JobRecs /\ PcOK(s) /\ (s = job[j] \/ SameData(s, job[j]))
    BY <1>3, <2>3, OutcomeOK
  <2>9. Keeps(s, job[j])
    BY <1>3, <2>3, <2>8, AliveOutcome DEF Keeps, SameData, Pending
  <2>10. /\ Jobs' = Jobs /\ job'[j] = s
         /\ \A i \in Jobs : i # j => job'[i] = job[i]
    BY <2>1, <2>8, MoveTyped
  <2> QED BY <1>0, <2>2, <2>6, <2>7, <2>9, <2>10, VolMoves
<1>9. CASE waitForNfsVolumeProvisions(j)
  <2>1. At(j, "waitForNfsVolumeProvisions") /\ volVars' = volVars
    BY <1>9 DEF waitForNfsVolumeProvisions
  <2>2. VolKept /\ volume' = volume /\ Held' = Held
    BY <2>1, NothingKept DEF volVars, Held
  <2>3. CASE FailWith(j, job[j])
    <3>1. Minor(j, Makings)
      BY <2>1, <2>3, SameAsItself, FailIsMinor
    <3> QED BY <1>0, <2>2, <3>1, VolMinor
  <2>4. CASE /\ volume = [id |-> job[j].volume, state |-> "ready"]
             /\ Proceed(j, job[j])
    <3> DEFINE s == Next1(job[j])
               T == {"zoneAction", "provision", "waitTask", "reserveVolume"}
    <3>1. job' = [job EXCEPT ![j] = s]
      BY <2>4 DEF Proceed
    <3>2. Outcome(s, job[j], T)
      BY <2>1, AtOK DEF Outcome
    <3>3. Past(job[j], "reserveVolume") /\ job[j].mode = "chain"
      <4>1. /\ job[j].mode = "chain" /\ job[j].pc \in 1..Len(Steps(job[j]))
            /\ Steps(job[j])[job[j].pc] = "waitForNfsVolumeProvisions"
            /\ ChainOrder(Steps(job[j]), job[j].kind, job[j].mounts, job[j].pc)
        BY <2>1, VolumePlaces DEF Volumes
      <4>2. job[j].pc > 2 /\ Steps(job[j])[job[j].pc - 2] = "reserveVolume"
        BY <4>1 DEF ChainOrder
      <4>3. job[j].pc - 2 \in 1..(job[j].pc - 1)
        BY <4>1, <4>2
      <4> QED BY <4>1, <4>2, <4>3 DEF Past
    <3>4. ASSUME Pending(job[j]), ~DestroyAccepted(job[j].vm)
          PROVE  Own(s, volume', Held')
      <4>1. job[j].vm \in Held
        BY <1>3, <3>3, <3>4 DEF Own
      <4> HIDE DEF s
      <4>2. Own(s, volume, Held)
        BY <1>3, <2>4, <3>2, <3>4, <4>1, OwnOutcome
      <4> QED BY <2>2, <4>2
    <3> HIDE DEF s
    <3>5. Carried(s)
      BY <1>3, <3>2, CarriedOutcome DEF Asking
    <3>6. s \in JobRecs /\ PcOK(s) /\ (s = job[j] \/ SameData(s, job[j]))
      BY <1>3, <3>2, OutcomeOK
    <3>7. Keeps(s, job[j])
      BY <1>3, <3>2, <3>6, AliveOutcome DEF Keeps, SameData, Pending
    <3>8. DestroyAccepted(job[j].vm) \/ Own(s, volume', Held')
      BY <2>2, <3>4, <3>7 DEF Own, Keeps
    <3>9. /\ Jobs' = Jobs /\ job'[j] = s
          /\ \A i \in Jobs : i # j => job'[i] = job[i]
      BY <3>1, <3>6, MoveTyped
    <3> QED BY <1>0, <2>2, <3>5, <3>7, <3>8, <3>9, VolMoves
  <2> QED BY <1>9, <2>3, <2>4 DEF waitForNfsVolumeProvisions
<1> QED BY <1>4, <1>5, <1>6, <1>7, <1>8, <1>9 DEF VolumeTasks

-----------------------------------------------------------------------------
(* The tasks on the VM.                                                     *)
\* A record that a job stores, when it is not the job of a destroy
LEMMA RecordsKept ==
  ASSUME JobType, VmType, VolInv, NEW j \in Jobs, NEW r,
         rec' = [rec EXCEPT ![job[j].vm] = r],
         r.state \in {"failed", "destroyed"} => ~HasZone(job[j].vm),
         job[j].kind # "destroy",
         Pending(job[j]) => r.state = "provisioning" /\ r.mod = 0
  PROVE  RecKept
<1>1. SUFFICES ASSUME NEW v \in Vms, rec'[v] # rec[v],
                      ~DestroyAccepted(v)
      PROVE  /\ \E i \in Jobs : job[i].vm = v
             /\ rec'[v].state \in {"failed", "destroyed"} => ~HasZone(v)
             /\ \A i \in Jobs :
                  job[i].vm = v /\ Pending(job[i]) /\ Pending(job'[i]) =>
                    /\ rec'[v].state \in {"absent", "provisioning"}
                    /\ rec'[v].mod = 0
  BY DEF RecKept
<1>2. v = job[j].vm /\ rec'[v] = r
  BY <1>1 DEF VmType
<1>3. ASSUME NEW i \in Jobs, job[i].vm = v, Pending(job[i])
      PROVE  i = j
  BY <1>1, <1>2, <1>3 DEF VolInv, Virgin
<1> QED BY <1>2, <1>3

\* A task on the VM that is a minor step
LEMMA VmMinor ==
  ASSUME JobType, QueueType, UsedType, VmType, VolInv, NEW j \in Jobs,
         OfVm(j), RecKept, NEW task, At(j, task),
         task \notin Queueing \cup {"getAllocation", "waitTask"}
  PROVE  VolInv'
<1>1. Minor(j, Lines)
  BY VmStep, AtOK DEF Allocates, Starts
<1>2. task \notin Makings
  <2>1. CASE task \in {"reserveVolume", "waitForNfsVolumeProvisions"}
    BY <2>1, AtOK DEF OfVm, getAllocation, putVmInMoray, refreshVmOnError,
         createJob, ensureVmState, zoneAction, markVmAsDestroyed,
         stopForRollback, provision,
         waitTask, checkUpdated, putVm, postBack, refreshVm
  <2>2. CASE task \notin {"reserveVolume", "waitForNfsVolumeProvisions"}
    BY <2>2 DEF Makings, Queueing
  <2> QED BY <2>1, <2>2
<1>3. Minor(j, Makings)
  BY <1>1, <1>2, NoMaking
<1>4. zone' = zone /\ volVars' = volVars
  BY VmStep DEF OfVm, getAllocation, putVmInMoray, refreshVmOnError,
         createJob, ensureVmState, zoneAction, markVmAsDestroyed,
         stopForRollback, provision,
         waitTask, checkUpdated, putVm, postBack, refreshVm
<1> QED BY <1>3, <1>4, NothingKept, VolMinor

\* A job that is given its task in CNAPI has asked for nothing before, nor
\* been given a volume it did not await
LEMMA StartsFirst ==
  ASSUME JobType, NEW j \in Jobs, NEW task \in Asking, At(j, task)
  PROVE  /\ job[j].mode = "chain" /\ ~Asked(job[j])
         /\ task = "provision" <=> job[j].kind = "create"
<1>1. /\ job[j].mode = "chain" /\ ChainGood(Steps(job[j]), job[j].kind, job[j].pc)
  BY TaskPlaces DEF Asking, RequestTasks, CleanupTasks, EndTasks
<1>2. /\ job[j] \in JobRecs /\ job[j].pc \in 1..Len(Steps(job[j]))
      /\ Steps(job[j])[job[j].pc] = task
  BY JobTyped, AtOK
<1>3. ChainOrder(Steps(job[j]), job[j].kind, job[j].mounts, job[j].pc)
  BY <1>1, <1>2, ChainsInOrder DEF InOrder
<1> QED BY <1>1, <1>2, <1>3 DEF ChainOrder, ChainGood, Asked, Asking, Queueing

\* A job asks CNAPI for its task
LEMMA VolStarts ==
  ASSUME JobType, VolInv, zone' = zone, RecKept, VolKept, NEW j \in Jobs,
         Starts(j)
  PROVE  VolInv'
<1>1. PICK x, s \in JobRecs :
            /\ SameFlow(x, job[j]) /\ x.task = "queued"
            /\ x.action = "destroy" <=> job[j].kind = "destroy"
            /\ x.mounts = job[j].mounts /\ x.volume = job[j].volume
            /\ x.finished = job[j].finished
            /\ PcOK(x) /\ x.mode = "chain"
            /\ Steps(job[j])[job[j].pc] \in Queueing
            /\ ChainGood(Steps(job[j]), job[j].kind, job[j].pc)
            /\ s = Next1(x) /\ PcOK(s) /\ SameData(s, x)
            /\ Jobs' = Jobs
            /\ job'[j] = s /\ \A i \in Jobs : i # j => job'[i] = job[i]
  BY StartsTyped
<1> DEFINE r == job[j]
<1>2. /\ r \in JobRecs /\ PcOK(r) /\ r.mode = "chain"
      /\ r.pc \in 1..Len(Steps(r)) /\ r.pc \in Nat
      /\ Carried(r) /\ (DestroyAccepted(r.vm) \/ Own(r, volume', Held'))
  <2>1. Carried(r) /\ (DestroyAccepted(r.vm) \/ Own(r, volume, Held))
    BY DEF VolInv, OwnInv
  <2> QED BY <1>1, <2>1, JobTyped, OwnKept DEF SameFlow, PcOK, JobRecs
<1>3. \A k \in 1..(r.pc - 1) : Steps(r)[k] \notin Asking
  <2>1. ChainOrder(Steps(r), r.kind, r.mounts, r.pc)
    BY <1>2, ChainsInOrder DEF InOrder
  <2> QED BY <1>1, <2>1 DEF ChainOrder
<1>4. /\ s.mode = "chain" /\ s.pc = r.pc + 1 /\ Steps(s) = Steps(r)
      /\ s.kind = r.kind /\ s.vm = r.vm /\ s.mounts = r.mounts
      /\ s.volume = r.volume /\ s.task = "queued" /\ s.finished = r.finished
      /\ s.action = "destroy" <=> r.kind = "destroy"
  <2>1. r.pc < Len(Steps(r))
    BY <1>1, <1>2 DEF ChainGood
  <2> QED BY <1>1, <2>1, Next1OK DEF SameFlow, SameData
<1> HIDE DEF r
<1>5. ~Awaited(s)
  <2>1. SUFFICES ASSUME NEW k \in 1..(s.pc - 1), NEW m \in 1..(s.pc - 1),
                        k < m, Steps(s)[k] \in Asking
        PROVE  FALSE
    BY DEF Awaited
  <2>2. k \in 1..(r.pc - 1)
    BY <1>2, <1>4, <2>1
  <2> QED BY <1>3, <1>4, <2>1, <2>2
<1>6. r.kind = "create" => Steps(r)[r.pc] = "provision" /\ r.task = "none"
  <2>1. SUFFICES ASSUME r.kind = "create"
        PROVE  Steps(r)[r.pc] = "provision" /\ r.task = "none"
    OBVIOUS
  <2>2. Steps(r)[r.pc] = "provision"
    BY <1>1, <2>1 DEF ChainGood, Queueing, r
  <2>3. ~Past(r, "provision")
    BY <1>3 DEF Past, Asking
  <2> QED BY <1>2, <2>1, <2>2, <2>3 DEF Carried, Alive
<1>7. r.kind = "create" => Past(s, "provision")
  <2>1. r.pc \in 1..(s.pc - 1)
    BY <1>2, <1>4
  <2> QED BY <1>4, <1>6, <2>1 DEF Past
<1>8. Carried(s)
  BY <1>4, <1>5, <1>7 DEF Carried
<1>9. Pending(s) => Pending(r)
  BY <1>2, <1>4, <1>6 DEF Pending, Alive
<1>10. ASSUME NEW task \in {"reserveVolume", "waitForNfsVolumeProvisions"},
              Past(s, task), r.kind = "create"
       PROVE  Past(r, task)
  <2>1. PICK k \in 1..(s.pc - 1) : Steps(s)[k] = task
    BY <1>10 DEF Past
  <2>2. k # r.pc
    BY <1>4, <1>6, <1>10, <2>1
  <2>3. k \in 1..(r.pc - 1)
    BY <1>2, <1>4, <2>2
  <2> QED BY <1>4, <2>1, <2>3 DEF Past
<1>11. DestroyAccepted(r.vm) \/ Own(s, volume', Held')
  BY <1>2, <1>4, <1>9, <1>10 DEF Own, Pending
<1>12. Keeps(s, r)
  BY <1>4, <1>9 DEF Keeps
<1> QED BY <1>1, <1>8, <1>11, <1>12, VolMoves DEF r

\* A job that asks CNAPI has its task queued, whatever it was before
LEMMA AskingStarts ==
  ASSUME JobType, NEW j \in Jobs, zoneAction(j) \/ provision(j)
  PROVE  Starts(j)
<1>1. job[j] \in JobRecs /\ job[j].kind \in AllKinds
  BY JobTyped, WorkflowsAssumption DEF JobRecs
<1>2. CASE zoneAction(j)
  <2> DEFINE x == Queued(job[j], job[j].kind)
  <2>1. /\ At(j, "zoneAction") /\ Proceed(j, x)
        /\ queue' = queue /\ rec' = rec
    BY <1>2 DEF zoneAction
  <2>2. job[j].kind # "create"
    BY <2>1, StartsFirst DEF Asking
  <2>3. /\ x \in JobRecs /\ SameFlow(x, job[j]) /\ x.server = job[j].server
        /\ x.task = "queued" /\ x.action = job[j].kind
        /\ x.mounts = job[j].mounts /\ x.volume = job[j].volume
        /\ x.finished = job[j].finished
    BY <1>1, UpdateTask
  <2> HIDE DEF x
  <2> QED BY <2>1, <2>2, <2>3 DEF Starts, Queueing, Proceed
<1>3. CASE provision(j)
  <2> DEFINE x == [Queued(job[j], "create") EXCEPT !.taken = TRUE]
  <2>1. /\ At(j, "provision") /\ Proceed(j, x)
        /\ queue' = queue /\ rec' = rec
    BY <1>3 DEF provision
  <2>2. job[j].kind = "create"
    BY <2>1, StartsFirst DEF Asking
  <2>3. /\ x \in JobRecs /\ SameFlow(x, job[j]) /\ x.server = job[j].server
        /\ x.task = "queued" /\ x.action = "create" /\ x.taken
        /\ x.mounts = job[j].mounts /\ x.volume = job[j].volume
        /\ x.finished = job[j].finished
    BY <1>1, <2>2, UpdateTask
  <2> HIDE DEF x
  <2> QED BY <2>1, <2>2, <2>3 DEF Starts, Queueing, Proceed
<1> QED BY <1>2, <1>3

\* The tasks on the VM, those that store its record with what they find
LEMMA VolOfVm ==
  ASSUME TypeInv, TaskInv, FailInv, VolInv, NEW j \in Jobs, OfVm(j)
  PROVE  VolInv'
<1>0. /\ JobType /\ QueueType /\ UsedType /\ NicType /\ VolumeType /\ VmType
  BY TypeInvIs DEF TypeInvParts
<1> DEFINE r == job[j]
<1>1. /\ zone' = zone /\ volVars' = volVars /\ volume' = volume /\ Held' = Held
      /\ VolKept
  <2>1. zone' = zone /\ volVars' = volVars
    BY DEF OfVm, getAllocation, putVmInMoray, refreshVmOnError,
         createJob, ensureVmState, zoneAction, markVmAsDestroyed,
         stopForRollback, provision,
         waitTask, checkUpdated, putVm, postBack, refreshVm
  <2> QED BY <2>1, NothingKept DEF volVars, Held
<1>2. /\ r \in JobRecs /\ PcOK(r) /\ StepsGood(r) /\ r.vm \in Vms
      /\ Carried(r) /\ (DestroyAccepted(r.vm) \/ Own(r, volume, Held))
      /\ zone[r.vm] \in Zones /\ rec[r.vm] \in Recs
  BY <1>0, JobTyped DEF VolInv, OwnInv, JobRecs, VmType
<1>3. ASSUME NEW task, At(j, task)
      PROVE  /\ r.mode # "ended" /\ r.pc \in 1..Len(Steps(r))
             /\ Steps(r)[r.pc] = task
             /\ r.mode = "request" => task \in RequestTasks
             /\ r.mode = "cleanup" => task \in CleanupTasks
             /\ r.mode = "chain" =>
                  task \in ChainTasks /\ ChainGood(Steps(r), r.kind, r.pc)
             /\ r.mode \in {"onerror", "oncancel"} => task \in EndTasks
             /\ r.mode \in {"request", "cleanup", "chain", "onerror",
                             "oncancel"}
  BY <1>0, <1>3, AtOK, TaskPlaces
<1>4. rec' = rec => RecKept
  BY NothingKept
<1>5. ASSUME NEW n, rec' = [rec EXCEPT ![r.vm] = n],
             n.state \in {"failed", "destroyed"} => ~HasZone(r.vm),
             r.kind # "destroy",
             Pending(r) => n.state = "provisioning" /\ n.mod = 0
      PROVE  RecKept
  BY <1>0, <1>5, RecordsKept
<1>6. ASSUME RecKept, NEW task, At(j, task),
             task \notin Queueing \cup {"getAllocation", "waitTask"}
      PROVE  VolInv'
  BY <1>0, <1>6, VmMinor
<1>7. ASSUME NEW m \in Recs
      PROVE  RecordOf(zone[r.vm], m).state \in {"failed", "destroyed"}
               => ~HasZone(r.vm)
  BY <1>2 DEF RecordOf, Zones, HasZone
<1> HIDE DEF r
<1>8. CASE createJob(j) \/ checkUpdated(j) \/ ensureVmState(j)
  <2>1. rec' = rec /\ (At(j, "createJob") \/ At(j, "checkUpdated") \/ At(j, "ensureVmState"))
    BY <1>8 DEF createJob, checkUpdated, ensureVmState
  <2> QED BY <1>4, <1>6, <2>1 DEF Queueing
<1>9. CASE putVmInMoray(j)
  <2> DEFINE n == [state |-> "provisioning", server |-> r.server,
                   nics |-> {}, mod |-> 0]
  <2>1. At(j, "putVmInMoray") /\ rec' = [rec EXCEPT ![r.vm] = n]
    BY <1>9 DEF putVmInMoray, r
  <2>2. r.kind = "create"
    BY <1>2, <1>3, <2>1 DEF StepsGood, CleanupTasks, ChainTasks, Queueing, EndTasks
  <2>3. RecKept
    BY <1>5, <2>1, <2>2
  <2> QED BY <1>6, <2>1, <2>3 DEF Queueing
<1>10. CASE refreshVmOnError(j)
  <2> DEFINE m == [NoRecord EXCEPT !.server = r.server]
             n == RecordOf(zone[r.vm], m)
  <2>1. At(j, "refreshVmOnError") /\ rec' = [rec EXCEPT ![r.vm] = n]
    BY <1>10 DEF refreshVmOnError, r
  <2>2. m \in Recs
    BY <1>2, NothingTyped DEF Recs, JobRecs
  <2>3. r.mode = "cleanup"
    BY <1>3, <2>1 DEF RequestTasks, ChainTasks, Queueing, EndTasks
  <2>4. r.kind # "destroy"
    BY <1>2, <1>3, <2>1, <2>3 DEF StepsGood
  <2>5. ~Pending(r)
    BY <2>3 DEF Pending, Alive
  <2>6. RecKept
    BY <1>5, <1>7, <2>1, <2>2, <2>4, <2>5
  <2> QED BY <1>6, <2>1, <2>6 DEF Queueing
<1>11. CASE putVm(j)
  <2> DEFINE n == RecordOf(r.finished, rec[r.vm])
  <2>1. At(j, "putVm") /\ rec' = [rec EXCEPT ![r.vm] = n]
    BY <1>11 DEF putVm, r
  <2>2. /\ r.mode = "chain" /\ ChainGood(Steps(r), r.kind, r.pc)
        /\ Steps(r)[r.pc] = "putVm"
    BY <1>3, <2>1 DEF RequestTasks, CleanupTasks, EndTasks
  <2>3. r.kind # "destroy" /\ Awaited(r)
    BY <1>2, <2>2, AwaitedHere DEF ChainGood
  <2>4. r.task = "complete" /\ r.finished.state # "none"
    BY <1>2, <2>2, <2>3 DEF Carried
  <2>5. r.finished.state \in {"none", "running", "stopped"}
    BY <1>2 DEF JobRecs, Zones
  <2>6. n.state \notin {"failed", "destroyed"}
    BY <2>4, <2>5 DEF RecordOf
  <2>7. ~Pending(r)
    BY <2>4 DEF Pending
  <2> HIDE DEF n
  <2>8. RecKept
    BY <1>5, <2>1, <2>3, <2>6, <2>7
  <2> QED BY <1>6, <2>1, <2>8 DEF Queueing
<1>12. CASE postBack(j)
  <2> DEFINE n == [rec[r.vm] EXCEPT !.state = "failed", !.nics = r.nics]
  <2>1. /\ At(j, "postBack")
        /\ \/ rec' = rec
           \/ /\ ~r.taken
              /\ rec' = [rec EXCEPT ![r.vm].state = "failed",
                                    ![r.vm].nics = r.nics]
    BY <1>12 DEF postBack, r
  <2>2. \/ rec' = rec
        \/ Marks(j) /\ rec' = [rec EXCEPT ![r.vm] = n]
    BY <1>0, <1>2, <2>1 DEF VmType, Marks, r
  <2>3. CASE Marks(j) /\ rec' = [rec EXCEPT ![r.vm] = n]
    <3>1. r.kind = "create" /\ ~Alive(r) /\ ~HasZone(r.vm)
      BY <1>0, <2>3, MarksAtEnd DEF CreateOf, r
    <3> HIDE DEF n
    <3>2. RecKept
      BY <1>5, <2>3, <3>1 DEF Pending
    <3> QED BY <1>6, <2>1, <3>2 DEF Queueing
  <2>4. CASE rec' = rec
    BY <1>4, <1>6, <2>1, <2>4 DEF Queueing
  <2> QED BY <2>2, <2>3, <2>4
<1>13. CASE refreshVm(j)
  <2>1. At(j, "refreshVm") /\ rec' = rec
    BY <1>13 DEF refreshVm
  <2> QED BY <1>4, <1>6, <2>1 DEF Queueing
<1>18. CASE markVmAsDestroyed(j)
  <2>1. /\ At(j, "markVmAsDestroyed")
        /\ \/ rec' = rec
           \/ r.vm \in Docker /\ \E n : rec' = [rec EXCEPT ![r.vm] = n]
    BY <1>18 DEF markVmAsDestroyed, r
  <2>2. /\ r.mode = "chain" /\ r.kind = "destroy"
        /\ r.pc > 1 /\ Steps(r)[r.pc - 1] \in Asking
    <3>1. r.mode = "chain" /\ r.pc \in 1..Len(Steps(r))
          /\ Steps(r)[r.pc] = "markVmAsDestroyed"
      BY <1>3, <2>1 DEF RequestTasks, CleanupTasks, EndTasks
    <3>2. ChainOrder(Steps(r), r.kind, r.mounts, r.pc)
      BY <1>2, <3>1, ChainsInOrder DEF InOrder
    <3> QED BY <3>1, <3>2 DEF ChainOrder
  <2>3. r.task # "none"
    <3>1. r.pc \in Nat /\ r.pc - 1 \in 1..(r.pc - 1)
      BY <1>2, <2>2 DEF JobRecs
    <3> QED BY <1>2, <2>2, <3>1 DEF Carried, Asked
  <2>4. r.vm \in Docker => DestroyAccepted(r.vm)
    BY <2>2, <2>3 DEF DestroyAccepted, r
  <2>5. RecKept
    <3>1. CASE rec' = rec
      BY <1>4, <3>1
    <3>2. CASE r.vm \in Docker /\ \E n : rec' = [rec EXCEPT ![r.vm] = n]
      <4>1. \A v \in Vms : v # r.vm => rec'[v] = rec[v]
        BY <1>0, <3>2 DEF VmType
      <4> QED BY <2>4, <3>2, <4>1 DEF RecKept
    <3> QED BY <2>1, <3>1, <3>2
  <2> QED BY <1>6, <2>1, <2>5 DEF Queueing
<1>14. CASE getAllocation(j)
  <2>1. At(j, "getAllocation") /\ rec' = rec
    BY <1>14 DEF getAllocation
  <2>2. CASE Allocates(j)
    <3>1. PICK x, s \in JobRecs :
            /\ SameFlow(x, r) /\ x.task = r.task
            /\ x.action = r.action /\ x.mounts = r.mounts
            /\ x.volume = r.volume /\ x.finished = r.finished
            /\ PcOK(x) /\ x.mode # "ended"
            /\ Steps(r)[r.pc] = "getAllocation"
            /\ s = Next1(x) /\ Jobs' = Jobs
            /\ job'[j] = s /\ \A i \in Jobs : i # j => job'[i] = job[i]
      BY <1>0, <2>2, AllocatesTyped DEF r
    <3>2. Outcome(s, x, Makings)
      BY <3>1 DEF Outcome, SameFlow, Makings
    <3>3. Carried(x)
      BY <1>2, <3>1, CarriedFlow
    <3>4. DestroyAccepted(r.vm) \/ Own(x, volume, Held)
      BY <1>2, <3>1, PastFlow DEF Own, Pending, SameFlow, Alive
    <3>5. Carried(s)
      BY <3>1, <3>2, <3>3, CarriedOutcome DEF Makings, Asking
    <3>6. DestroyAccepted(r.vm) \/ Own(s, volume, Held)
      BY <3>1, <3>2, <3>4, OwnOutcome DEF Makings
    <3>7. Keeps(s, r)
      <4>1. Alive(s) => Alive(x)
        BY <3>1, <3>2, AliveOutcome
      <4>2. s = x \/ SameData(s, x)
        BY <3>1, <3>2, OutcomeOK
      <4> QED BY <3>1, <4>1, <4>2 DEF Keeps, Pending, SameData, SameFlow, Alive
    <3> QED BY <1>0, <1>1, <1>4, <2>1, <3>1, <3>5, <3>6, <3>7, VolMoves DEF r
  <2>3. CASE ~Allocates(j)
    <3>1. Minor(j, Lines)
      BY <1>0, <2>1, <2>3, VmStep, AtOK DEF Starts, Queueing
    <3>2. Minor(j, Makings)
      BY <1>0, <2>1, <3>1, NoMaking DEF Makings
    <3> QED BY <1>0, <1>1, <1>4, <2>1, <3>2, VolMinor
  <2> QED BY <2>2, <2>3
<1>15. CASE zoneAction(j) \/ provision(j)
  <2>1. rec' = rec
    BY <1>15 DEF zoneAction, provision
  <2>2. Starts(j)
    BY <1>0, <1>15, AskingStarts
  <2> QED BY <1>0, <1>1, <1>4, <2>1, <2>2, VolStarts
<1>16. CASE stopForRollback(j)
  <2>1. At(j, "stopForRollback") /\ rec' = rec
    BY <1>16 DEF stopForRollback
  <2>2. Minor(j, Lines) \/ Starts(j)
    BY <1>0, <2>1, VmStep, AtOK DEF Allocates
  <2>3. CASE Starts(j)
    BY <1>0, <1>1, <1>4, <2>1, <2>3, VolStarts
  <2>4. CASE Minor(j, Lines)
    <3>1. Minor(j, Makings)
      BY <1>0, <2>1, <2>4, NoMaking DEF Makings
    <3> QED BY <1>0, <1>1, <1>4, <2>1, <3>1, VolMinor
  <2> QED BY <2>2, <2>3, <2>4
<1>17. CASE waitTask(j)
  <2>1. /\ At(j, "waitTask") /\ rec' = rec
        /\ \/ r.task \in {"complete", "none"} /\ Proceed(j, r)
           \/ FailWith(j, r)
    BY <1>17 DEF waitTask, r
  <2>2. CASE FailWith(j, r)
    <3>1. Minor(j, Makings)
      BY <1>0, <2>1, <2>2, SameAsItself, FailIsMinor DEF r
    <3> QED BY <1>0, <1>1, <1>4, <2>1, <3>1, VolMinor
  <2>3. CASE r.task \in {"complete", "none"} /\ Proceed(j, r)
    <3> DEFINE s == Next1(r)
               T == {"zoneAction", "provision", "reserveVolume",
                     "waitForNfsVolumeProvisions"}
    <3>1. job' = [job EXCEPT ![j] = s]
      BY <2>3 DEF Proceed
    <3>2. Outcome(s, r, T)
      BY <1>3, <2>1 DEF Outcome
    <3> HIDE DEF s
    <3>3. Carried(s)
      BY <1>2, <2>3, <3>2, CarriedOutcome DEF Asking
    <3>4. DestroyAccepted(r.vm) \/ Own(s, volume, Held)
      BY <1>2, <3>2, OwnOutcome
    <3>5. s \in JobRecs /\ PcOK(s) /\ (s = r \/ SameData(s, r))
      BY <1>2, <3>2, OutcomeOK
    <3>6. Keeps(s, r)
      BY <1>2, <3>2, <3>5, AliveOutcome DEF Keeps, SameData, Pending
    <3>7. /\ Jobs' = Jobs /\ job'[j] = s
          /\ \A i \in Jobs : i # j => job'[i] = job[i]
      BY <1>0, <3>1, <3>5, MoveTyped
    <3> QED BY <1>0, <1>1, <1>4, <2>1, <3>3, <3>4, <3>6, <3>7, VolMoves DEF r
  <2> QED BY <2>1, <2>2, <2>3
<1> QED BY <1>8, <1>9, <1>10, <1>11, <1>12, <1>13, <1>14, <1>15, <1>16, <1>17,
       <1>18 DEF OfVm

-----------------------------------------------------------------------------
(* CNAPI, the services and the requests.                                    *)
\* A create whose task is queued knows of its volume, if it mounts one, that
\* it was ready and that it holds it
LEMMA QueuedOwns ==
  ASSUME JobType, TaskInv, VolInv, NEW j \in Jobs, job[j].task = "queued",
         job[j].kind = "create", ~DestroyAccepted(job[j].vm)
  PROVE  /\ Pending(job[j])
         /\ ~job[j].mounts => job[j].volume = Unknown
         /\ job[j].mounts =>
              /\ volume = [id |-> job[j].volume, state |-> "ready"]
              /\ job[j].vm \in Held
<1> DEFINE r == job[j]
<1>1. /\ r \in JobRecs /\ PcOK(r) /\ Carried(r) /\ Own(r, volume, Held)
      /\ r.mode = "chain" /\ r.pc \in 1..Len(Steps(r)) /\ r.pc \in Nat
      /\ Len(Steps(r)) \in Nat
  BY JobTyped DEF TaskInv, VolInv, OwnInv, PcOK, JobRecs, StepsGood
<1>2. Pending(r)
  BY <1>1 DEF Pending, Alive
<1>3. PICK k \in 1..(r.pc - 1) : Steps(r)[k] = "provision"
  BY <1>1 DEF Carried, Alive, Past
<1>4. k \in 1..Len(Steps(r))
  BY <1>1, <1>3
<1>5. ChainOrder(Steps(r), r.kind, r.mounts, k)
  BY <1>1, <1>4, ChainsInOrder DEF InOrder
<1>6. r.mounts => Past(r, "waitForNfsVolumeProvisions")
  <2>1. SUFFICES ASSUME r.mounts PROVE Past(r, "waitForNfsVolumeProvisions")
    OBVIOUS
  <2>2. k > 1 /\ Steps(r)[k - 1] = "waitForNfsVolumeProvisions"
    BY <1>3, <1>5, <2>1 DEF ChainOrder
  <2>3. k - 1 \in 1..(r.pc - 1)
    BY <1>1, <1>3, <2>2
  <2> HIDE DEF r
  <2> QED BY <2>2, <2>3 DEF Past
<1> QED BY <1>1, <1>2, <1>6 DEF Own

\* CNAPI is done with a task: the instance that a create gets mounts the
\* volume it awaited, and the one a destroy takes away mounts none
LEMMA VolFinishes ==
  ASSUME JobType, VmType, TaskInv, ClaimInv, VolInv, NEW j \in Jobs,
         Finishes(j), volVars' = volVars
  PROVE  VolInv'
<1> DEFINE r == job[j]
           v == r.vm
           z == zone[v]
           a == After(z, r)
<1>1. PICK x \in JobRecs :
            /\ SameFlow(x, r) /\ x.action = r.action
            /\ x.mounts = r.mounts /\ x.volume = r.volume
            /\ \/ /\ x.task = "failure" /\ x.finished = r.finished
                  /\ zone' = zone
               \/ /\ x.task = "complete" /\ x.finished = a
                  /\ HasZone(v) # (r.action = "create")
                  /\ zone' = [zone EXCEPT ![v] = a]
            /\ Jobs' = Jobs
            /\ job'[j] = x /\ \A i \in Jobs : i # j => job'[i] = job[i]
  BY FinishesTyped
<1>2. /\ rec' = rec /\ r.task = "queued" /\ volume' = volume /\ Held' = Held
      /\ RecKept /\ VolKept
  BY NothingKept DEF Finishes, volVars, Held
<1>3. /\ r \in JobRecs /\ PcOK(r) /\ v \in Vms /\ z \in Zones
      /\ Carried(r)
      /\ r.action = "create" <=> r.kind = "create"
      /\ r.action = "destroy" <=> r.kind = "destroy"
  <2>1. r \in JobRecs /\ PcOK(r) /\ v \in Vms
    BY JobTyped DEF JobRecs
  <2>2. Carried(r)
    BY DEF VolInv, OwnInv
  <2> QED BY <1>2, <2>1, <2>2 DEF VmType, ClaimInv, Carried
<1>4. x.vm = v /\ x.kind = r.kind /\ x.mode = r.mode /\ ~Pending(x)
      /\ x.task \in {"failure", "complete"}
  BY <1>1 DEF SameFlow, Pending
<1>5. /\ a \in Zones
      /\ r.action = "create" => a.state = "running" /\ a.volume = r.volume
      /\ r.action = "destroy" => a = [NoZone EXCEPT !.mod = z.mod + 1]
      /\ r.action \notin {"create", "destroy"} =>
           a.volume = z.volume /\ (z.state # "none" => a.state # "none")
  BY <1>3, AfterTyped
<1>6. r.kind = "create" /\ ~DestroyAccepted(v) =>
        /\ Pending(r)
        /\ ~r.mounts => r.volume = Unknown
        /\ r.mounts => /\ volume = [id |-> r.volume, state |-> "ready"]
                       /\ v \in Held
  BY <1>2, QueuedOwns
<1>7. ~Awaited(r) \/ r.mode # "chain"
  BY <1>2, <1>3 DEF Carried
<1>8. \A i \in Jobs : i # j => /\ job'[i] = job[i] /\ Carried(job[i])
                               /\ \/ DestroyAccepted(job[i].vm)
                                  \/ Own(job[i], volume, Held)
  BY <1>1 DEF VolInv, OwnInv
<1>a. \A w : DestroyAccepted(w) => DestroyAccepted(w)'
  BY <1>1, <1>2, AcceptedStays DEF SameFlow
<1> HIDE DEF r, v, z, a
<1>9. CASE x.task = "failure" /\ x.finished = r.finished /\ zone' = zone
  <2>1. Carried(x)
    BY <1>1, <1>2, <1>3, <1>4, <1>7, <1>9, PastFlow DEF Carried, Alive
  <2>2. Keeps(x, r) /\ Own(x, volume', Held')
    BY <1>1, <1>4, <1>9 DEF Keeps, Own, v
  <2> QED BY <1>1, <1>2, <1>9, <2>1, <2>2, VolMoves DEF r
<1>10. CASE /\ x.task = "complete" /\ x.finished = a
            /\ HasZone(v) # (r.action = "create")
            /\ zone' = [zone EXCEPT ![v] = a]
  <2>0. /\ zone'[v] = a /\ \A w \in Vms : w # v => zone'[w] = zone[w]
        /\ \A i \in Jobs : job'[i].vm = job[i].vm /\ job'[i].kind = job[i].kind
                           /\ job'[i].mounts = job[i].mounts
                           /\ job[i].vm \in Vms
    <3>1. zone'[v] = a /\ \A w \in Vms : w # v => zone'[w] = zone[w]
      BY <1>3, <1>10 DEF VmType
    <3>2. \A i \in Jobs : job[i].vm \in Vms
      BY JobTyped DEF JobRecs
    <3>3. job'[j].vm = job[j].vm /\ job'[j].kind = job[j].kind
          /\ job'[j].mounts = job[j].mounts
      BY <1>1, <1>4 DEF r, v
    <3> QED BY <1>8, <3>1, <3>2, <3>3
  <2>1. HasZone(v) => r.kind # "create"
    BY <1>3, <1>10
  <2>2. ~HasZone(v) => r.kind = "create"
    BY <1>3, <1>10 DEF HasZone
  <2>3. \A i \in Jobs : i # j /\ Pending(job[i])
                        /\ ~DestroyAccepted(job[i].vm) => job[i].vm # v
    <3>1. SUFFICES ASSUME NEW i \in Jobs, i # j, Pending(job[i]), job[i].vm = v,
                          ~DestroyAccepted(v)
          PROVE  FALSE
      OBVIOUS
    <3>2. zone[v] = NoZone /\ r.kind = "destroy"
      BY <3>1 DEF VolInv, Virgin, r, v
    <3> QED BY <2>2, <3>2 DEF HasZone, NoZone
  <2>4. r.kind # "destroy" => zone'[v].state # "none"
    <3>1. CASE r.kind = "create"
      BY <1>3, <1>5, <2>0, <3>1
    <3>2. CASE r.kind \notin {"create", "destroy"}
      BY <1>3, <1>5, <2>0, <2>2, <3>2 DEF HasZone, z
    <3> QED BY <3>1, <3>2
  <2>5. r.kind = "destroy" => /\ zone'[v].state = "none" /\ zone'[v].volume = 0
                              /\ zone'[v].mod > 0
    BY <1>3, <1>5, <2>0 DEF NoZone, Zones
  <2>6. Carried(x)
    BY <1>1, <1>2, <1>3, <1>4, <1>7, <1>10, <2>0, <2>4, PastFlow
       DEF Carried, Alive
  <2>7. OwnInv'
    <3>1. Own(x, volume', Held')
      BY <1>4 DEF Own
    <3>2. SUFFICES ASSUME NEW i \in Jobs
          PROVE  /\ Carried(job'[i])
                 /\ \/ DestroyAccepted(job[i].vm)'
                    \/ Own(job'[i], volume', Held')
      BY <1>1 DEF OwnInv
    <3>3. CASE i = j
      BY <1>1, <2>6, <3>1, <3>3
    <3>4. CASE i # j
      BY <1>2, <1>8, <1>a, <3>4
    <3> QED BY <3>3, <3>4
  <2>8. Virgin'
    <3>1. SUFFICES ASSUME NEW i \in Jobs, Pending(job'[i]),
                          ~DestroyAccepted(job[i].vm)'
          PROVE  /\ rec'[job'[i].vm].state \in {"absent", "provisioning"}
                 /\ rec'[job'[i].vm].mod = 0
                 /\ zone'[job'[i].vm] = NoZone
                 /\ \A m \in Jobs : m # i /\ job'[m].vm = job'[i].vm
                        => job'[m].kind = "destroy" /\ ~job'[m].mounts
      BY <1>1 DEF Virgin
    <3>2. /\ i # j /\ Pending(job[i]) /\ job'[i] = job[i]
          /\ ~DestroyAccepted(job[i].vm)
      BY <1>1, <1>4, <1>a, <3>1
    <3>3. job[i].vm # v
      BY <2>3, <3>2
    <3>4. zone'[job[i].vm] = zone[job[i].vm]
      BY <2>0, <3>3
    <3> QED BY <1>2, <2>0, <3>2, <3>4 DEF VolInv, Virgin
  <2>9. Untouched'
    <3>1. \E i \in Jobs : job'[i].vm = v
      BY <1>1, <1>4
    <3> QED BY <1>1, <1>2, <2>0, <3>1 DEF VolInv, Untouched
  <2>10. GoneStays'
    <3>1. rec[v].state \in {"failed", "destroyed"} /\ ~DestroyAccepted(v)
            => r.kind = "destroy"
      <4>1. SUFFICES ASSUME rec[v].state \in {"failed", "destroyed"},
                            ~DestroyAccepted(v), r.kind # "destroy"
            PROVE  FALSE
        OBVIOUS
      <4>2. ~HasZone(v)
        BY <1>3, <4>1 DEF VolInv, GoneStays
      <4>3. Pending(r)
        BY <1>6, <2>2, <4>1, <4>2
      <4>4. rec[v].state \in {"absent", "provisioning"}
        BY <4>1, <4>3 DEF VolInv, Virgin, r, v
      <4> QED BY <4>1, <4>4
    <3>2. SUFFICES ASSUME NEW w \in Vms, ~DestroyAccepted(w)',
                          rec[w].state \in {"failed", "destroyed"}
          PROVE  ~(zone'[w].state # "none")
      BY <1>2 DEF GoneStays, HasZone
    <3>3. ~DestroyAccepted(w)
      BY <1>a, <3>2
    <3> QED BY <2>0, <2>5, <3>1, <3>2, <3>3 DEF VolInv, GoneStays, HasZone
  <2>11. Destroyed'
    <3>1. SUFFICES ASSUME NEW i \in Jobs, job'[i].kind = "destroy",
                          job'[i].task = "complete",
                          ~DestroyAccepted(job[i].vm)'
          PROVE  ~(zone'[job'[i].vm].state # "none") /\ zone'[job'[i].vm].mod > 0
      BY <1>1 DEF Destroyed, HasZone
    <3>2. CASE i = j
      BY <1>1, <1>4, <2>5, <3>1, <3>2
    <3>3. CASE i # j
      <4>0. job'[i] = job[i] /\ ~DestroyAccepted(job[i].vm)
        BY <1>1, <1>a, <3>1, <3>3
      <4>1. /\ ~HasZone(job[i].vm) /\ zone[job[i].vm].mod > 0
            /\ job'[i] = job[i]
        BY <3>1, <4>0 DEF VolInv, Destroyed
      <4>2. job[i].vm # v
        <5>1. SUFFICES ASSUME job[i].vm = v PROVE FALSE
          OBVIOUS
        <5>2. Pending(r)
          BY <1>6, <2>2, <4>0, <4>1, <5>1
        <5>3. zone[v] = NoZone
          BY <4>0, <5>1, <5>2 DEF VolInv, Virgin, r, v
        <5> QED BY <4>1, <5>1, <5>3 DEF NoZone
      <4> QED BY <2>0, <4>1, <4>2 DEF HasZone
    <3> QED BY <3>2, <3>3
  <2>12. Bare'
    BY <1>2, <2>0, <2>4, <2>5 DEF VolInv, Bare, HasZone
  <2>13. MountedVolumeKept'
    <3>1. SUFFICES ASSUME NEW w \in Vms, zone'[w].volume # 0,
                          ~DestroyAccepted(w)'
          PROVE  /\ volume = [id |-> zone'[w].volume, state |-> "ready"]
                 /\ w \in Held
      BY <1>2 DEF MountedVolumeKept, Held
    <3>a. ~DestroyAccepted(w)
      BY <1>a, <3>1
    <3>2. CASE w # v
      BY <2>0, <3>1, <3>a, <3>2 DEF VolInv, MountedVolumeKept, Held
    <3>3. CASE w = v /\ r.kind = "create"
      BY <1>3, <1>5, <1>6, <2>0, <3>1, <3>a, <3>3 DEF Unknown
    <3>4. CASE w = v /\ r.kind \notin {"create", "destroy"}
      BY <1>3, <1>5, <2>0, <3>1, <3>a, <3>4
         DEF VolInv, MountedVolumeKept, Held, z
    <3> QED BY <2>5, <3>1, <3>2, <3>3, <3>4
  <2> QED BY <2>7, <2>8, <2>9, <2>10, <2>11, <2>12, <2>13 DEF VolInv
<1> QED BY <1>1, <1>9, <1>10

\* A request finds the VM of such a create as it was, and is a destroy
LEMMA VolAsks ==
  ASSUME JobType, QueueType, VmType, VolInv, NEW r, Asks(r)
  PROVE  VolInv'
<1> DEFINE n == Len(job) + 1
<1>1. /\ Jobs' = Jobs \cup {n} /\ n \notin Jobs
      /\ job'[n] = r /\ \A j \in Jobs : job'[j] = job[j]
  BY AskStep
<1>2. /\ rec' = rec /\ zone' = zone /\ volume' = volume /\ Held' = Held
  BY DEF Asks, volVars, Held
<1>3. /\ r \in JobRecs /\ r.mode = "request" /\ r.task = "none"
      /\ r.volume = Unknown /\ r.vm \in Vms
  BY DEF Asks, JobRecs
<1> HIDE DEF n
<1>a. \A v : DestroyAccepted(v) <=> DestroyAccepted(v)'
  BY <1>1, <1>3 DEF DestroyAccepted
<1>b. MountedVolumeKept'
  BY <1>2, <1>a DEF VolInv, MountedVolumeKept, Held
<1>4. Carried(r) /\ Own(r, volume, Held)
  BY <1>3 DEF Carried, Own
<1>5. OwnInv'
  <2>1. SUFFICES ASSUME NEW i \in Jobs \cup {n}
        PROVE  /\ Carried(job'[i])
               /\ \/ DestroyAccepted(job[i].vm)'
                  \/ Own(job'[i], volume, Held)
    BY <1>1, <1>2 DEF OwnInv
  <2> QED BY <1>1, <1>4, <1>a DEF VolInv, OwnInv
<1>6. r.kind = "create" => /\ \A j \in Jobs : job[j].vm # r.vm
                           /\ zone[r.vm] = NoZone /\ rec[r.vm] = NoRecord
  BY <1>3 DEF Asks, VolInv, Untouched
<1>7. ASSUME NEW j \in Jobs, Pending(job[j]), job[j].vm = r.vm,
             ~DestroyAccepted(r.vm)
      PROVE  r.kind = "destroy" /\ ~r.mounts
  <2>1. rec[r.vm].state \in {"absent", "provisioning"} /\ rec[r.vm].mod = 0
    BY <1>7 DEF VolInv, Virgin
  <2>2. r.kind # "create"
    BY <1>6, <1>7
  <2> QED BY <2>1, <2>2 DEF Asks
<1>8. Virgin'
  <2>1. SUFFICES ASSUME NEW j \in Jobs \cup {n}, Pending(job'[j]),
                        ~DestroyAccepted(job[j].vm)'
        PROVE  /\ rec[job'[j].vm].state \in {"absent", "provisioning"}
               /\ rec[job'[j].vm].mod = 0
               /\ zone[job'[j].vm] = NoZone
               /\ \A i \in Jobs \cup {n} : i # j /\ job'[i].vm = job'[j].vm
                    => job'[i].kind = "destroy" /\ ~job'[i].mounts
    BY <1>1, <1>2 DEF Virgin
  <2>2. CASE j = n
    BY <1>1, <1>6, <2>1, <2>2 DEF Pending, NoRecord
  <2>3. CASE j \in Jobs
    <3>1. /\ Pending(job[j]) /\ job'[j] = job[j]
          /\ ~DestroyAccepted(job[j].vm)
      BY <1>1, <1>a, <2>1, <2>3
    <3> QED BY <1>1, <1>7, <2>3, <3>1 DEF VolInv, Virgin
  <2> QED BY <2>1, <2>2, <2>3
<1>9. Untouched'
  BY <1>1, <1>2 DEF VolInv, Untouched
<1>10. GoneStays' /\ Bare'
  BY <1>2, <1>a DEF VolInv, GoneStays, Bare, HasZone
<1>11. Destroyed'
  <2>1. SUFFICES ASSUME NEW j \in Jobs \cup {n}, job'[j].kind = "destroy",
                        job'[j].task = "complete",
                        ~DestroyAccepted(job[j].vm)'
        PROVE  ~(zone[job'[j].vm].state # "none") /\ zone[job'[j].vm].mod > 0
    BY <1>1, <1>2 DEF Destroyed, HasZone
  <2>2. j \in Jobs /\ job'[j] = job[j] /\ ~DestroyAccepted(job[j].vm)
    BY <1>1, <1>3, <1>a, <2>1
  <2> QED BY <2>1, <2>2 DEF VolInv, Destroyed, HasZone
<1> QED BY <1>b, <1>5, <1>8, <1>9, <1>10, <1>11 DEF VolInv

\* No job moves, and the records and the volume stay true
LEMMA VolStill ==
  ASSUME JobType, VolInv, job' = job, zone' = zone, RecKept, VolKept
  PROVE  VolInv'
<1>1. ASSUME NEW i \in Jobs
      PROVE  /\ Keeps(job'[i], job[i]) /\ Carried(job'[i])
             /\ \/ DestroyAccepted(job[i].vm)
                \/ Own(job'[i], volume', Held')
  <2>1. /\ Carried(job[i])
        /\ DestroyAccepted(job[i].vm) \/ Own(job[i], volume, Held)
    BY DEF VolInv, OwnInv
  <2> QED BY <2>1, OwnKept DEF Keeps
<1>2. Jobs' = Jobs
  BY DEF Jobs
<1> QED BY <1>1, <1>2, VolFrame

\* vm-agent reports the VMs that changed, and only those
LEMMA VolReports ==
  ASSUME JobType, VmType, VolInv, NEW v \in Vms, AgentReports(v)
  PROVE  VolInv'
<1>1. /\ rec[v].mod # zone[v].mod /\ rec' = [rec EXCEPT ![v] = RecordOf(zone[v], rec[v])]
      /\ job' = job /\ zone' = zone /\ volVars' = volVars
  BY DEF AgentReports
<1>2. zone[v] \in Zones /\ rec[v] \in Recs
  BY DEF VmType
<1>3. rec'[v] = RecordOf(zone[v], rec[v])
      /\ \A w \in Vms : w # v => rec'[w] = rec[w]
  BY <1>1 DEF VmType
<1>4. rec'[v].state \in {"failed", "destroyed"} => ~HasZone(v)
  BY <1>2, <1>3 DEF RecordOf, Zones, HasZone
<1>5. \E j \in Jobs : job[j].vm = v
  BY <1>1 DEF VolInv, Untouched, NoZone, NoRecord
<1>6. \/ DestroyAccepted(v)
      \/ \A j \in Jobs : job[j].vm = v => ~Pending(job[j])
  BY <1>1 DEF VolInv, Virgin, NoZone
<1>7. RecKept
  BY <1>3, <1>4, <1>5, <1>6 DEF RecKept
<1> QED BY <1>1, <1>7, NothingKept, VolStill

\* VOLAPI drops what a VM holds when VMAPI says that it is gone
LEMMA VolVolapi ==
  ASSUME JobType, VolInv, NEW v \in Vms, VolapiUpdates(v, rec[v].state),
         rec' = rec, zone' = zone
  PROVE  VolInv'
<1>1. job' = job /\ volume' = volume
  BY DEF VolapiUpdates
<1>2. CASE Held' = Held
  BY <1>1, <1>2, NothingKept, VolStill DEF VolKept
<1>3. CASE rec[v].state \in {"failed", "destroyed"} /\ Held' = Held \ {v}
  <2>1. DestroyAccepted(v) \/ zone[v].volume = 0
    BY <1>3 DEF VolInv, GoneStays, Bare
  <2>2. \/ DestroyAccepted(v)
        \/ \A j \in Jobs : job[j].vm = v => ~Pending(job[j])
    BY <1>3 DEF VolInv, Virgin
  <2>3. VolKept
    BY <1>1, <1>3, <2>1, <2>2 DEF VolKept
  <2> QED BY <1>1, <2>3, NothingKept, VolStill
<1>4. Held' = Held \/ (rec[v].state \in {"failed", "destroyed"} /\ Held' = Held \ {v})
  BY DEF VolapiUpdates, Held
<1> QED BY <1>2, <1>3, <1>4

\* A GET for a job ends: the create of its VM is over
LEMMA VolPuts ==
  ASSUME JobType, VmType, FailInv, GetInv, VolInv, NEW v \in Vms, SyncPut(v)
  PROVE  VolInv'
<1>1. /\ gets[v].step = "answered" /\ rec' = [rec EXCEPT ![v] = gets[v].found]
      /\ job' = job /\ zone' = zone /\ volVars' = volVars
  BY DEF SyncPut
<1>2. /\ rec'[v] = gets[v].found
      /\ \A w \in Vms : w # v => rec'[w] = rec[w]
  BY <1>1 DEF VmType
<1>3. PICK j \in Jobs : CreateOf(job[j], v) /\ ~Alive(job[j])
  BY <1>1 DEF GetInv
<1>4. rec'[v].state \in {"failed", "destroyed"} => ~HasZone(v)
  BY <1>1, <1>2 DEF GetInv
<1>5. \A i \in Jobs : job[i].vm = v => ~Pending(job[i])
  BY <1>3 DEF FailInv, OneCreate, CreateOf, Pending
<1>6. RecKept
  BY <1>2, <1>3, <1>4, <1>5 DEF RecKept, CreateOf
<1> QED BY <1>1, <1>6, NothingKept, VolStill

\* What the services do by themselves
LEMMA VolOfServices ==
  ASSUME TypeInv, TaskInv, ClaimInv, FailInv, GetInv, VolInv, Services
  PROVE  VolInv'
<1>0. JobType /\ QueueType /\ UsedType /\ VmType
  BY TypeInvIs DEF TypeInvParts
<1>1. ASSUME NEW j \in Jobs, CnapiRuns(j) PROVE VolInv'
  <2>1. Finishes(j) /\ volVars' = volVars
    BY <1>0, <1>1, CnapiStep DEF CnapiRuns, volVars
  <2> QED BY <1>0, <2>1, VolFinishes
<1>2. ASSUME NEW v \in Vms, AgentReports(v) PROVE VolInv'
  BY <1>0, <1>2, VolReports
<1>3. CASE NatProvisioned /\ UNCHANGED <<volVars, rec, zone, gets>>
  <2>1. job' = job /\ volVars' = volVars /\ rec' = rec /\ zone' = zone
    BY <1>3 DEF NatProvisioned
  <2> QED BY <1>0, <2>1, NothingKept, VolStill
<1>4. CASE VolumeCreated /\ UNCHANGED <<nicVars, rec, zone, gets>>
  <2>1. /\ job' = job /\ rec' = rec /\ zone' = zone /\ Held' = Held
        /\ volume.state # "ready"
    BY <1>4 DEF VolumeCreated, Held
  <2>2. VolKept
    BY <2>1 DEF VolKept
  <2> QED BY <1>0, <2>1, <2>2, NothingKept, VolStill
<1>5. ASSUME NEW v \in Vms, VolapiUpdates(v, rec[v].state),
             UNCHANGED <<nicVars, rec, zone, gets>>
      PROVE  VolInv'
  BY <1>0, <1>5, VolVolapi
<1>6. ASSUME NEW scope \in Scopes, ExpireTicket(scope),
             UNCHANGED <<nicVars, volVars, rec, zone, gets>>
      PROVE  VolInv'
  <2>1. job' = job /\ volVars' = volVars /\ rec' = rec /\ zone' = zone
    BY <1>6 DEF ExpireTicket
  <2> QED BY <1>0, <2>1, NothingKept, VolStill
<1>7. ASSUME NEW v \in Vms, SyncAnswered(v) PROVE VolInv'
  <2>1. job' = job /\ volVars' = volVars /\ rec' = rec /\ zone' = zone
    BY <1>7 DEF SyncAnswered, volVars
  <2> QED BY <1>0, <2>1, NothingKept, VolStill
<1>8. ASSUME NEW v \in Vms, SyncPut(v) PROVE VolInv'
  BY <1>0, <1>8, VolPuts
<1> QED BY <1>1, <1>2, <1>3, <1>4, <1>5, <1>6, <1>7, <1>8 DEF Services

\* What jobs and users do
LEMMA VolOfOthers ==
  ASSUME TypeInv, TaskInv, FailInv, VolInv, Patient, ~SyncGets,
         (\E j \in Jobs : JobStep(j)) \/ Faults \/ Users
  PROVE  VolInv'
<1>0. JobType /\ QueueType /\ UsedType /\ NicType /\ VolumeType /\ VmType
  BY TypeInvIs DEF TypeInvParts
<1>1. ASSUME NEW j \in Jobs, OfTickets(j) PROVE VolInv'
  <2>1. TicketTasks(j) /\ volVars' = volVars /\ rec' = rec /\ zone' = zone
    BY <1>1 DEF OfTickets
  <2> QED BY <1>0, <2>1, VolOfTickets
<1>2. ASSUME NEW j \in Jobs, OfNics(j) PROVE VolInv'
  <2>1. NicTasks(j) /\ volVars' = volVars /\ rec' = rec /\ zone' = zone
    BY <1>2 DEF OfNics
  <2> QED BY <1>0, <2>1, VolOfNics
<1>3. ASSUME NEW j \in Jobs, OfVolumes(j) PROVE VolInv'
  <2>1. VolumeTasks(j) /\ rec' = rec /\ zone' = zone
    BY <1>3 DEF OfVolumes
  <2> QED BY <1>0, <2>1, VolOfVolumes
<1>4. ASSUME NEW j \in Jobs, OfVm(j) PROVE VolInv'
  BY <1>4, VolOfVm
<1>7. ASSUME NEW j \in Jobs, refreshVmGets(j) PROVE VolInv'
  <2>1. job' = job /\ volVars' = volVars /\ rec' = rec /\ zone' = zone
    BY <1>7 DEF refreshVmGets, volVars
  <2> QED BY <1>0, <2>1, NothingKept, VolStill
<1>5. CASE Faults
  <2>1. PICK j \in Jobs :
          \/ (TaskFails(j) \/ CancelJob(j))
             /\ UNCHANGED <<nicVars, volVars, rec, zone, gets>>
          \/ AnswerLost(j)
    BY <1>5 DEF Faults
  <2>2. TaskFails(j) /\ volVars' = volVars /\ rec' = rec /\ zone' = zone
    BY <1>0, <2>1, PatientJobs
  <2> QED BY <1>0, <2>2, VolOfFaults
<1>6. CASE Users
  <2>1. CASE \E r : Asks(r)
    BY <1>0, <2>1, VolAsks
  <2>2. CASE \E v \in Vms : SyncGet(v)
    BY <2>2 DEF SyncGet
  <2>3. CASE DeleteVolume /\ nicVars' = nicVars /\ rec' = rec /\ zone' = zone
    <3>1. job' = job /\ Held = {}
      BY <2>3 DEF DeleteVolume, InUse, Held
    <3>2. VolKept
      BY <3>1 DEF VolKept
    <3> QED BY <1>0, <2>3, <3>1, <3>2, NothingKept, VolStill
  <2> QED BY <1>0, <1>6, <2>1, <2>2, <2>3, UserStep
<1> QED BY <1>1, <1>2, <1>3, <1>4, <1>5, <1>6, <1>7 DEF JobStep

\* A volume that an instance mounts is there, and its owner cannot delete it,
\* of a docker VM until CNAPI has accepted its destroy (VMAPI then says that it
\* is destroyed, while the instance is still to go, and VOLAPI lets go):
\* a create holds the volume from before it makes sure that it is ready until
\* its VM is destroyed, and until CNAPI is done with the provision nothing says
\* of the VM that it failed or was destroyed, by which VOLAPI would let go.
\* The hypothesis ~SyncGets is that nobody asks for a VM with ?sync=true, which
\* says of one that is still being provisioned that it failed
THEOREM MountedVolumeCorrect ==
  Patient /\ ~SyncGets => (Spec => []MountedVolumeKept)
<1> SUFFICES ASSUME Patient, ~SyncGets
             PROVE  Spec => []MountedVolumeKept
  OBVIOUS
<1> DEFINE Inv == /\ TypeInv /\ TicketInv /\ TaskInv /\ AllocInv /\ ClaimInv
                  /\ ZoneInv /\ FailInv /\ GetInv /\ VolInv
<1>1. Init => Inv
  <2> SUFFICES ASSUME Init PROVE Inv
    OBVIOUS
  <2>1. /\ TypeInv /\ TicketInv /\ TaskInv /\ AllocInv /\ ClaimInv /\ ZoneInv
    BY NothingAtFirst
  <2>2. Jobs = {}
    BY DEF Init, WorkflowsInit, Jobs
  <2>3. \A v \in Vms : zone[v] = NoZone /\ rec[v] = NoRecord /\ gets[v] = NoGet
    BY DEF Init
  <2>4. FailInv /\ GetInv
    BY <2>2, <2>3 DEF FailInv, OneCreate, QueuedIsTaken, ZoneIsTaken,
       FailedIsOver, GetInv, NoGet, NoZone, NoRecord, HasZone
  <2>5. VolInv
    BY <2>2, <2>3 DEF VolInv, OwnInv, Virgin, Untouched, GoneStays, Destroyed,
       Bare, MountedVolumeKept, NoZone, NoRecord, HasZone
  <2> QED BY <2>1, <2>4, <2>5
<1>2. Inv /\ [Next]_vars => Inv'
  <2> SUFFICES ASSUME Inv, [Next]_vars PROVE Inv'
    OBVIOUS
  <2>1. TypeInv' /\ Move /\ GetMove
    BY StepMoves
  <2>2. /\ TicketInv' /\ TaskInv' /\ AllocInv' /\ ClaimInv' /\ ZoneInv'
        /\ FailInv' /\ GetInv'
    BY <2>1, TicketNext, TaskNext, AllocNext, ClaimNext, FailNext, GetNext
  <2>3. VolInv'
    <3>1. CASE Services
      BY <3>1, VolOfServices
    <3>2. CASE (\E j \in Jobs : JobStep(j)) \/ Faults \/ Users
      BY <3>2, VolOfOthers
    <3>3. CASE UNCHANGED vars
      <4>1. JobType
        BY TypeInvIs DEF TypeInvParts
      <4>2. job' = job /\ volVars' = volVars /\ rec' = rec /\ zone' = zone
        BY <3>3 DEF vars, volVars
      <4> QED BY <4>1, <4>2, NothingKept, VolStill
    <3> QED BY <3>1, <3>2, <3>3 DEF Next, Done
  <2> QED BY <2>1, <2>2, <2>3
<1>3. Inv => MountedVolumeKept
  BY DEF VolInv
<1> QED BY <1>1, <1>2, <1>3, PTL DEF Spec
=============================================================================
