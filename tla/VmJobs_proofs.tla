---------------------------- MODULE VmJobs_proofs ----------------------------
(***************************************************************************)
(* Proofs about the jobs of VMs, for any number of VMs, servers, requests  *)
(* and faults.  The argument goes by the places of tasks: first what every *)
(* request, chain and clean-up says about the tasks around a place, then   *)
(* where a job may go from there, then the waitlist, then the invariants.  *)
(***************************************************************************)
EXTENDS VmJobs, SequenceTheorems, TLAPS

-----------------------------------------------------------------------------
(* The types of the state.                                                  *)
Zones == [state : {"none", "running", "stopped"},
          server : Servers \cup {NoServer}, nics : SUBSET Nics,
          volume : Nat, mod : Nat]
Recs == [state : RecStates, server : Servers \cup {NoServer},
         nics : SUBSET Nics, mod : Nat]
Modes == {"request", "cleanup", "chain", "onerror", "oncancel", "ended"}
JobRecs ==
    [kind : Kinds, vm : Vms, net : Networks, mode : Modes, pc : Nat \ {0},
     tickets : SUBSET Scopes, server : Servers \cup {NoServer},
     seen : RecStates, mod : Nat, nics : SUBSET Nics, fabric : BOOLEAN,
     nat : Nat, mounts : BOOLEAN, volume : Nat, creating : BOOLEAN,
     waits : BOOLEAN, task : {"none", "queued", "complete", "failure"},
     action : AllKinds, taken : BOOLEAN, finished : Zones]
Gets == [step : {"none", "loaded", "answered", "put"}, by : 0..MaxJobs,
         found : Recs]

PcOK(r) == r.mode = "ended" \/ r.pc \in 1..Len(Steps(r))

TypeInv ==
    /\ job \in Seq(JobRecs) /\ Len(job) <= MaxJobs
    /\ \A j \in Jobs : PcOK(job[j])
    /\ queue \in [Scopes -> Seq(Jobs)]
    /\ used \in [faults : Nat, cancels : Nat, deletes : Nat]
    /\ napi \subseteq Nics /\ nats \in Seq(NatStates)
    /\ volume \in [id : Nat, state : {"none", "creating", "ready"}]
    /\ reserved \subseteq Vms /\ refs \subseteq Vms
    /\ rec \in [Vms -> Recs] /\ zone \in [Vms -> Zones]
    /\ gets \in [Vms -> Gets]

-----------------------------------------------------------------------------
(* The places of tasks in the chains.                                       *)
Queueing == {"zoneAction", "stopForRollback", "provision"}
ChainTasks == Queueing \cup
    {"acquireFabricTickets", "waitOnFabricTicket", "getNetwork", "createNat",
     "listNics", "destroyNat", "releaseFabricNatTickets", "loadVolume",
     "reserveVolume", "createVolume", "waitForNfsVolumeProvisions",
     "waitForFabricNatProvisions", "waitTask", "addVolumesReferences",
     "putVm", "releaseVMTicket", "acquireVMTicket", "waitOnVMTicket",
     "getFabricNatNics", "removeNics", "removeVolumesReferences",
     "checkUpdated", "updateNicsInNapi", "ensureVmState",
     "markVmAsDestroyed"}
\* What some chains do between queueing a task and awaiting it
Between(kind, task) ==
    \/ kind = "removeNics" /\ task = "removeNics"
    \/ kind = "destroy" /\ task = "markVmAsDestroyed"

(* A task is queued in CNAPI behind the wait for the VM's ticket, unless    *)
(* the request has the ticket already, and is awaited next.                 *)
ChainGood(c, kind, i) ==
    /\ c[i] \in ChainTasks
    /\ c[i] \in Queueing =>
        /\ i < Len(c)
        /\ \/ c[i + 1] = "waitTask"
           \/ Between(kind, c[i + 1])
        /\ \/ kind = "create"
           \/ i > 1 /\ c[i - 1] = "waitOnVMTicket"
           \/ i > 2 /\ c[i - 2] = "waitOnVMTicket"
                    /\ c[i - 1] # "releaseVMTicket"
    /\ Between(kind, c[i]) => i < Len(c) /\ c[i + 1] = "waitTask"
    /\ c[i] = "markVmAsDestroyed" => kind = "destroy"
    /\ c[i] = "waitOnVMTicket" => i > 1 /\ c[i - 1] = "acquireVMTicket"
    /\ c[i] = "getNetwork" => i < Len(c) /\ c[i + 1] = "createNat"
    /\ c[i] = "listNics" => i < Len(c) /\ c[i + 1] = "destroyNat"
    /\ c[i] = "getFabricNatNics" => kind = "destroy" /\ i = 3
    /\ c[i] = "provision" => kind = "create"
    /\ c[i] \in {"stopForRollback", "putVm"} => kind # "destroy"
    /\ kind = "create" =>
        c[i] \notin {"zoneAction", "stopForRollback", "acquireVMTicket",
                     "waitOnVMTicket"}
    /\ kind = "create" /\ c[i] = "provision" =>
        \A m \in 1..(i - 1) : c[m] # "releaseVMTicket"

ChainIsGood(c, kind) ==
    /\ Len(c) \in Nat \ {0} /\ DOMAIN c = 1..Len(c)
    /\ \A i \in 1..Len(c) : ChainGood(c, kind, i)

(* The parts of the chains that depend on what a job needs.                 *)
PF == FabricProvisionChain \o <<"waitForFabricNatProvisions">>
PV == <<"provision", "waitTask">>
PA == <<"addVolumesReferences">>
PE == <<"putVm", "releaseVMTicket", "releaseFabricNatTickets">>
\* The chain of a provision, with any of its optional parts
LEMMA ProvisionGood ==
  ASSUME NEW r, r.fabric \in BOOLEAN, r.mounts \in BOOLEAN
  PROVE  ChainIsGood(ProvisionChain(r), "create")
<1> DEFINE c == ProvisionChain(r)
<1>1. CASE r.fabric /\ r.mounts
  <2>1. c = PF \o NfsProvisionChain \o PV \o PA \o PE
    BY <1>1 DEF ProvisionChain, PF, PV, PA, PE
  <2> HIDE DEF c
  <2>2. ChainIsGood(c, "create")
    BY <2>1 DEF FabricProvisionChain, NfsProvisionChain, PF, PV, PA, PE,
                ChainGood, ChainIsGood, ChainTasks, Queueing,
                Between
  <2> QED BY <2>2 DEF c
<1>2. CASE r.fabric /\ ~r.mounts
  <2>1. c = PF \o << >> \o PV \o << >> \o PE
    BY <1>2 DEF ProvisionChain, PF, PV, PA, PE
  <2> HIDE DEF c
  <2>2. ChainIsGood(c, "create")
    BY <2>1 DEF FabricProvisionChain, PF, PV, PE,
                ChainGood, ChainIsGood, ChainTasks, Queueing,
                Between
  <2> QED BY <2>2 DEF c
<1>3. CASE ~r.fabric /\ r.mounts
  <2>1. c = << >> \o NfsProvisionChain \o PV \o PA \o PE
    BY <1>3 DEF ProvisionChain, PF, PV, PA, PE
  <2> HIDE DEF c
  <2>2. ChainIsGood(c, "create")
    BY <2>1 DEF NfsProvisionChain, PV, PA, PE,
                ChainGood, ChainIsGood, ChainTasks, Queueing,
                Between
  <2> QED BY <2>2 DEF c
<1>4. CASE ~r.fabric /\ ~r.mounts
  <2>1. c = << >> \o << >> \o PV \o << >> \o PE
    BY <1>4 DEF ProvisionChain, PF, PV, PA, PE
  <2> HIDE DEF c
  <2>2. ChainIsGood(c, "create")
    BY <2>1 DEF PV, PE, ChainGood, ChainIsGood, ChainTasks, Queueing,
                Between
  <2> QED BY <2>2 DEF c
<1> QED BY <1>1, <1>2, <1>3, <1>4

DE == <<"acquireVMTicket", "waitOnVMTicket", "getFabricNatNics", "zoneAction",
      "markVmAsDestroyed", "waitTask", "removeNics",
      "removeVolumesReferences", "releaseVMTicket">>
\* The chain of a destroy, which looks at its NICs third
LEMMA DestroyGood ==
  ASSUME NEW r, r.fabric \in BOOLEAN
  PROVE  /\ ChainIsGood(DestroyChain(r), "destroy")
         /\ Len(DestroyChain(r)) > 3
         /\ DestroyChain(r)[1] = "acquireVMTicket"
         /\ DestroyChain(r)[2] = "waitOnVMTicket"
         /\ DestroyChain(r)[3] = "getFabricNatNics"
<1> DEFINE c == DestroyChain(r)
<1>1. CASE r.fabric
  <2>1. c = DE \o FabricDestroyChain
    BY <1>1 DEF DestroyChain, DE
  <2> HIDE DEF c
  <2>2. /\ ChainIsGood(c, "destroy") /\ Len(c) > 3
        /\ c[1] = "acquireVMTicket" /\ c[2] = "waitOnVMTicket"
        /\ c[3] = "getFabricNatNics"
    BY <2>1 DEF DE, FabricDestroyChain,
                ChainGood, ChainIsGood, ChainTasks, Queueing,
                Between
  <2> QED BY <2>2 DEF c
<1>2. CASE ~r.fabric
  <2>1. c = DE \o << >>
    BY <1>2 DEF DestroyChain, DE
  <2> HIDE DEF c
  <2>2. /\ ChainIsGood(c, "destroy") /\ Len(c) > 3
        /\ c[1] = "acquireVMTicket" /\ c[2] = "waitOnVMTicket"
        /\ c[3] = "getFabricNatNics"
    BY <2>1 DEF DE, ChainGood, ChainIsGood, ChainTasks, Queueing,
                Between
  <2> QED BY <2>2 DEF c
<1> QED BY <1>1, <1>2

NV == <<"acquireVMTicket", "waitOnVMTicket">>
NW == <<"waitForFabricNatProvisions">>
NE == <<"zoneAction", "waitTask", "checkUpdated", "putVm", "releaseVMTicket",
        "releaseFabricNatTickets">>
\* The chain of add_nics, with the fabric part or without
LEMMA AddNicsGood ==
  ASSUME NEW r, r.fabric \in BOOLEAN
  PROVE  ChainIsGood(AddNicsChain(r), "addNics")
<1> DEFINE c == AddNicsChain(r)
<1>1. CASE r.fabric
  <2>1. c = FabricProvisionChain \o NV \o NW \o NE
    BY <1>1 DEF AddNicsChain, NV, NW, NE
  <2> HIDE DEF c
  <2>2. ChainIsGood(c, "addNics")
    BY <2>1 DEF NV, NW, NE, FabricProvisionChain,
                ChainGood, ChainIsGood, ChainTasks, Queueing,
                Between
  <2> QED BY <2>2 DEF c
<1>2. CASE ~r.fabric
  <2>1. c = << >> \o NV \o << >> \o NE
    BY <1>2 DEF AddNicsChain, NV, NW, NE
  <2> HIDE DEF c
  <2>2. ChainIsGood(c, "addNics")
    BY <2>1 DEF NV, NE, ChainGood, ChainIsGood, ChainTasks, Queueing,
                Between
  <2> QED BY <2>2 DEF c
<1> QED BY <1>1, <1>2

\* The chains that have no optional parts
LEMMA FixedGood ==
  /\ ChainIsGood(RemoveNicsChain, "removeNics")
  /\ ChainIsGood(UpdateNicsChain, "updateNics")
  /\ ChainIsGood(StartChain, "start")
  /\ ChainIsGood(StopChain, "stop")
  /\ ChainIsGood(RebootChain, "reboot")
  /\ ChainIsGood(KillChain, "kill")
  /\ ChainIsGood(ReprovisionChain, "reprovision")
  /\ ChainIsGood(UpdateChain, "update")
  /\ ChainIsGood(SnapshotChain, "snapshot")
  /\ ChainIsGood(DeleteSnapshotChain, "deleteSnapshot")
  /\ ChainIsGood(RollbackChain, "rollback")
<1>1. ChainIsGood(RemoveNicsChain, "removeNics")
  BY DEF ChainIsGood, ChainGood, ChainTasks, Queueing, Between,
         RemoveNicsChain
<1>2. ChainIsGood(UpdateNicsChain, "updateNics")
  BY DEF ChainIsGood, ChainGood, ChainTasks, Queueing, Between,
         UpdateNicsChain
<1>3. ChainIsGood(StartChain, "start")
  BY DEF ChainIsGood, ChainGood, ChainTasks, Queueing, Between,
         StartChain
<1>4. ChainIsGood(StopChain, "stop")
  BY DEF ChainIsGood, ChainGood, ChainTasks, Queueing, Between,
         StopChain
<1>5. ChainIsGood(RebootChain, "reboot")
  BY DEF ChainIsGood, ChainGood, ChainTasks, Queueing, Between,
         RebootChain
<1>6. ChainIsGood(KillChain, "kill")
  BY DEF ChainIsGood, ChainGood, ChainTasks, Queueing, Between,
         KillChain
<1>7. ChainIsGood(ReprovisionChain, "reprovision")
  BY DEF ChainIsGood, ChainGood, ChainTasks, Queueing, Between,
         ReprovisionChain
<1>8. ChainIsGood(UpdateChain, "update")
  BY DEF ChainIsGood, ChainGood, ChainTasks, Queueing, Between,
         UpdateChain
<1>9. ChainIsGood(SnapshotChain, "snapshot")
  BY DEF ChainIsGood, ChainGood, ChainTasks, Queueing, Between,
         SnapshotChain
<1>10. ChainIsGood(DeleteSnapshotChain, "deleteSnapshot")
  BY DEF ChainIsGood, ChainGood, ChainTasks, Queueing, Between,
         DeleteSnapshotChain
<1>11. ChainIsGood(RollbackChain, "rollback")
  BY DEF ChainIsGood, ChainGood, ChainTasks, Queueing, Between,
         RollbackChain
<1> QED BY <1>1, <1>2, <1>3, <1>4, <1>5, <1>6,
           <1>7, <1>8, <1>9, <1>10, <1>11

\* Every chain a job may have
LEMMA ChainsGood ==
  ASSUME NEW r \in JobRecs
  PROVE  ChainIsGood(Chain(r), r.kind)
<1>1. r.kind \in AllKinds /\ r.fabric \in BOOLEAN /\ r.mounts \in BOOLEAN
  BY WorkflowsAssumption DEF JobRecs
<1> QED
  BY <1>1, ProvisionGood, DestroyGood, AddNicsGood, FixedGood
     DEF Chain, AllKinds, ActionKinds

(* The places of tasks outside the chains.                                  *)
CleanupTasks == {"refreshVmOnError", "releaseVMTicket",
                 "releaseAllocationTicket", "cleanupNicsOfRequest"}
EndTasks == {"cleanupNics", "postBack", "releaseVMTicket", "refreshVm",
             "releaseFabricNatTickets", "releaseVMTicketIgnoringErr"}
StepsGood(r) ==
    LET c == Steps(r)
    IN /\ Len(c) \in Nat /\ DOMAIN c = 1..Len(c)
       /\ r.mode = "ended" => c = << >>
       /\ r.mode \in {"request", "chain", "onerror", "oncancel"} => Len(c) > 0
       /\ r.mode = "request" /\ r.kind = "create" =>
            /\ Len(c) = 9
            /\ c[1] = "acquireAllocationTicket"
            /\ c[2] = "waitOnAllocationTicket" /\ c[3] = "getAllocation"
            /\ c[4] = "putVmInMoray" /\ c[5] = "acquireVMTicket"
            /\ c[6] = "releaseAllocationTicket" /\ c[7] = "waitOnVMTicket"
            /\ c[8] = "provisionNics" /\ c[9] = "createJob"
       /\ r.mode = "request" /\ r.kind # "create" =>
            \A i \in 1..Len(c) : c[i] \in {"provisionNics", "createJob"}
       /\ r.mode = "cleanup" =>
            /\ c = << >> \/ Len(c) > 0
            /\ \A i \in 1..Len(c) : c[i] \in CleanupTasks
            /\ r.kind = "create" => Len(c) = 6
            /\ r.kind = "destroy" => c = << >>
       /\ r.mode \in {"onerror", "oncancel"} =>
            \A i \in 1..Len(c) : c[i] \in EndTasks
       /\ r.mode \in {"onerror", "oncancel"} /\ r.kind # "create" =>
            \A i \in 1..Len(c) : c[i] \notin {"postBack", "refreshVm"}
       /\ r.mode = "chain" => \A i \in 1..Len(c) : ChainGood(c, r.kind, i)
\* Every list of tasks a job may be at
LEMMA StepsAre ==
  ASSUME NEW r \in JobRecs
  PROVE  StepsGood(r)
<1>1. r.kind \in AllKinds /\ r.mode \in Modes
  BY WorkflowsAssumption DEF JobRecs
<1>2. CASE r.mode = "request"
  <2>1. Steps(r) = RequestSteps(r.kind)
    BY <1>2 DEF Steps
  <2>2. CASE r.kind = "create"
    <3>1. Steps(r) = AllocateServer \o <<"provisionNics", "createJob">>
      BY <2>1, <2>2 DEF RequestSteps
    <3> QED BY <1>2, <2>2, <3>1 DEF StepsGood, AllocateServer
  <2>3. CASE r.kind # "create"
    <3>1. \/ Steps(r) = <<"provisionNics", "createJob">>
          \/ Steps(r) = <<"createJob">>
      BY <2>1, <2>3 DEF RequestSteps
    <3>2. CASE Steps(r) = <<"provisionNics", "createJob">>
      BY <1>2, <2>3, <3>2 DEF StepsGood
    <3>3. CASE Steps(r) = <<"createJob">>
      BY <1>2, <2>3, <3>3 DEF StepsGood
    <3> QED BY <3>1, <3>2, <3>3
  <2> QED BY <2>2, <2>3
<1>3. CASE r.mode = "cleanup"
  <2>1. Steps(r) = RequestCleanup(r.kind)
    BY <1>3 DEF Steps
  <2>2. CASE r.kind = "create"
    <3>1. Steps(r) = AllocateCleanup \o
            <<"cleanupNicsOfRequest", "refreshVmOnError", "releaseVMTicket">>
      BY <2>1, <2>2 DEF RequestCleanup
    <3> QED BY <1>3, <2>2, <3>1 DEF StepsGood, AllocateCleanup, CleanupTasks
  <2>3. CASE r.kind # "create"
    <3>1. \/ Steps(r) = <<"cleanupNicsOfRequest">> /\ r.kind # "destroy"
          \/ Steps(r) = << >>
      BY <2>1, <2>3 DEF RequestCleanup
    <3> QED BY <1>3, <2>3, <3>1 DEF StepsGood, CleanupTasks
  <2> QED BY <2>2, <2>3
<1>4. CASE r.mode = "chain"
  BY <1>4, ChainsGood DEF StepsGood, Steps, ChainIsGood
<1>5. CASE r.mode = "onerror"
  <2>1. Steps(r) = OnErrorChain(r.kind)
    BY <1>5 DEF Steps
  <2> USE DEF StepsGood, EndTasks
  <2>2. CASE r.kind = "create"
    <3>1. Steps(r) = <<"cleanupNics", "postBack", "releaseVMTicket",
                       "refreshVm", "releaseFabricNatTickets">>
      BY <2>1, <2>2 DEF OnErrorChain
    <3> QED BY <1>5, <2>2, <3>1
  <2>3. CASE r.kind = "destroy"
    <3>1. Steps(r) = <<"releaseVMTicketIgnoringErr",
                       "releaseFabricNatTickets">>
      BY <2>1, <2>3 DEF OnErrorChain
    <3> QED BY <1>5, <2>3, <3>1
  <2>4. CASE r.kind = "addNics"
    <3>1. Steps(r) = <<"cleanupNics", "releaseVMTicketIgnoringErr",
                       "releaseFabricNatTickets">>
      BY <2>1, <2>4 DEF OnErrorChain
    <3> QED BY <1>5, <2>4, <3>1
  <2>5. CASE r.kind = "updateNics"
    <3>1. Steps(r) = <<"cleanupNics", "releaseVMTicketIgnoringErr">>
      BY <2>1, <2>5 DEF OnErrorChain
    <3> QED BY <1>5, <2>5, <3>1
  <2>6. CASE r.kind \notin {"create", "destroy", "addNics", "updateNics"}
    <3>1. Steps(r) = <<"releaseVMTicketIgnoringErr">>
      BY <2>1, <2>6 DEF OnErrorChain
    <3> QED BY <1>5, <2>6, <3>1
  <2> QED BY <2>2, <2>3, <2>4, <2>5, <2>6
<1>6. CASE r.mode = "oncancel"
  <2>1. Steps(r) = OnCancelChain(r.kind)
    BY <1>6 DEF Steps
  <2> USE DEF StepsGood, EndTasks
  <2>2. CASE r.kind = "create"
    <3>1. Steps(r) = <<"refreshVm", "releaseVMTicket",
                       "releaseFabricNatTickets">>
      BY <2>1, <2>2 DEF OnCancelChain
    <3> QED BY <1>6, <2>2, <3>1
  <2>3. CASE r.kind \in {"destroy", "addNics"}
    <3>1. Steps(r) = <<"releaseVMTicketIgnoringErr",
                       "releaseFabricNatTickets">>
      BY <2>1, <2>3 DEF OnCancelChain
    <3> QED BY <1>6, <2>3, <3>1
  <2>4. CASE r.kind \notin {"create", "destroy", "addNics"}
    <3>1. Steps(r) = <<"releaseVMTicketIgnoringErr">>
      BY <2>1, <2>4 DEF OnCancelChain
    <3> QED BY <1>6, <2>4, <3>1
  <2> QED BY <2>2, <2>3, <2>4
<1>7. CASE r.mode = "ended"
  BY <1>7 DEF StepsGood, Steps
<1> QED BY <1>1, <1>2, <1>3, <1>4, <1>5, <1>6, <1>7 DEF Modes

\* The tasks depend on nothing but the kind, the needs and the mode
LEMMA SameSteps ==
  ASSUME NEW r, NEW s, s.kind = r.kind, s.fabric = r.fabric,
         s.mounts = r.mounts, s.mode = r.mode
  PROVE  Steps(s) = Steps(r)
  BY DEF Steps, Chain, ProvisionChain, DestroyChain, AddNicsChain

-----------------------------------------------------------------------------
(* Where a job goes from a task.                                            *)
\* The same but for where it is
SameData(s, r) ==
    /\ s.kind = r.kind /\ s.vm = r.vm /\ s.net = r.net
    /\ s.tickets = r.tickets /\ s.server = r.server /\ s.seen = r.seen
    /\ s.mod = r.mod /\ s.nics = r.nics /\ s.fabric = r.fabric
    /\ s.nat = r.nat /\ s.mounts = r.mounts /\ s.volume = r.volume
    /\ s.creating = r.creating /\ s.waits = r.waits /\ s.task = r.task
    /\ s.action = r.action /\ s.taken = r.taken /\ s.finished = r.finished

\* A job that changes its mode only
LEMMA MoveModeOK ==
  ASSUME NEW r \in JobRecs, NEW m \in Modes
  PROVE  /\ [r EXCEPT !.mode = m] \in JobRecs
         /\ [r EXCEPT !.mode = m].mode = m
         /\ [r EXCEPT !.mode = m].pc = r.pc
         /\ SameData([r EXCEPT !.mode = m], r)
  BY DEF JobRecs, SameData

\* A job that goes on to another place
LEMMA MovePcOK ==
  ASSUME NEW r \in JobRecs, NEW p \in Nat \ {0}
  PROVE  /\ [r EXCEPT !.pc = p] \in JobRecs
         /\ [r EXCEPT !.pc = p].mode = r.mode
         /\ [r EXCEPT !.pc = p].pc = p
         /\ SameData([r EXCEPT !.pc = p], r)
  BY DEF JobRecs, SameData

\* A job that moved within its mode has the same tasks
LEMMA SameDataSteps ==
  ASSUME NEW r, NEW s, SameData(s, r), s.mode = r.mode
  PROVE  Steps(s) = Steps(r)
  BY SameSteps DEF SameData

\* What entering a chain, a clean-up or the end makes of a job
LEMMA EnterOK ==
  ASSUME NEW r \in JobRecs, NEW m \in Modes
  PROVE  /\ Enter(r, m) \in JobRecs /\ PcOK(Enter(r, m))
         /\ SameData(Enter(r, m), r) /\ Enter(r, m).pc = 1
         /\ Enter(r, m).mode = m \/ Enter(r, m).mode = "ended"
         /\ m \in {"request", "chain", "onerror", "oncancel"}
              => Enter(r, m).mode = m
<1> DEFINE s == [r EXCEPT !.mode = m, !.pc = 1]
           t == [s EXCEPT !.mode = "ended"]
<1>1. s \in JobRecs /\ s.mode = m /\ s.pc = 1 /\ SameData(s, r)
  <2>1. 1 \in Nat \ {0}
    OBVIOUS
  <2> QED BY <2>1 DEF JobRecs, SameData
<1>2. Enter(r, m) = IF Steps(s) = << >> THEN t ELSE s
  BY DEF Enter
<1>3. StepsGood(s)
  BY <1>1, StepsAre
<1> HIDE DEF s
<1>4. t \in JobRecs /\ t.mode = "ended" /\ t.pc = 1 /\ SameData(t, s)
  BY <1>1, MoveModeOK DEF Modes
<1> HIDE DEF t
<1>5. SameData(t, r)
  BY <1>1, <1>4 DEF SameData
<1>6. CASE Steps(s) = << >>
  BY <1>1, <1>2, <1>3, <1>4, <1>5, <1>6 DEF StepsGood, PcOK
<1>7. CASE Steps(s) # << >>
  <2>1. Len(Steps(s)) \in Nat /\ Len(Steps(s)) > 0
    BY <1>1, <1>3, <1>7 DEF StepsGood, Modes
  <2> QED BY <1>1, <1>2, <1>7, <2>1 DEF PcOK
<1> QED BY <1>6, <1>7

\* Where the success of a task leads
LEMMA Next1OK ==
  ASSUME NEW r \in JobRecs, PcOK(r), r.mode # "ended"
  PROVE  /\ Next1(r) \in JobRecs /\ PcOK(Next1(r)) /\ SameData(Next1(r), r)
         /\ r.pc < Len(Steps(r)) =>
              /\ Next1(r).mode = r.mode /\ Next1(r).pc = r.pc + 1
              /\ Steps(Next1(r)) = Steps(r)
         /\ r.pc >= Len(Steps(r)) =>
              /\ Next1(r).mode = IF r.mode = "request" THEN "chain" ELSE "ended"
              /\ Next1(r).pc = 1
<1>1. Len(Steps(r)) \in Nat /\ r.pc \in Nat \ {0} /\ r.mode \in Modes
  BY StepsAre DEF StepsGood, JobRecs
<1>2. CASE r.pc < Len(Steps(r))
  <2>1. Next1(r) = [r EXCEPT !.pc = r.pc + 1]
    BY <1>1, <1>2 DEF Next1
  <2> HIDE DEF Next1
  <2>2. /\ Next1(r) \in JobRecs /\ Next1(r).mode = r.mode
        /\ Next1(r).pc = r.pc + 1 /\ SameData(Next1(r), r)
    BY <1>1, <2>1, MovePcOK, r.pc + 1 \in Nat \ {0}
  <2>3. Steps(Next1(r)) = Steps(r)
    BY <2>2, SameDataSteps
  <2> QED BY <1>1, <1>2, <2>2, <2>3 DEF PcOK
<1>3. CASE r.pc >= Len(Steps(r)) /\ r.mode = "request"
  <2>1. Next1(r) = Enter(r, "chain")
    BY <1>1, <1>3 DEF Next1
  <2> QED BY <1>1, <1>3, <2>1, EnterOK DEF Modes
<1>4. CASE r.pc >= Len(Steps(r)) /\ r.mode # "request"
  <2>1. Next1(r) = Enter(r, "ended")
    BY <1>1, <1>4 DEF Next1
  <2> QED BY <1>1, <1>4, <2>1, EnterOK DEF Modes
<1> QED BY <1>1, <1>2, <1>3, <1>4

\* Where the failure of a task leads
LEMMA FailedOK ==
  ASSUME NEW r \in JobRecs, PcOK(r), r.mode # "ended"
  PROVE  /\ Failed(r) \in JobRecs /\ PcOK(Failed(r)) /\ SameData(Failed(r), r)
         /\ r.mode = "request" => Failed(r).mode \in {"cleanup", "ended"}
         /\ r.mode = "cleanup" => Failed(r).mode \in {"cleanup", "ended"}
         /\ r.mode = "chain" => Failed(r).mode = "onerror"
         /\ r.mode \in {"onerror", "oncancel"} => Failed(r).mode = "ended"
<1>0. StepsGood(r)
  BY StepsAre
<1>1. /\ Len(Steps(r)) \in Nat /\ r.pc \in Nat \ {0} /\ r.mode \in Modes
      /\ StepsGood(r) /\ r.pc <= Len(Steps(r))
  <2>1. Len(Steps(r)) \in Nat
    BY <1>0 DEF StepsGood
  <2>2. r.pc \in Nat \ {0} /\ r.mode \in Modes /\ r.pc <= Len(Steps(r))
    BY <2>1 DEF JobRecs, PcOK
  <2> QED BY <1>0, <2>1, <2>2
<1>2. CASE r.mode = "request" /\ r.kind = "create"
  <2>1. CASE Steps(r)[r.pc] = "createJob"
    <3>1. Failed(r) = Enter(r, "ended")
      BY <1>2, <2>1 DEF Failed
    <3> QED BY <1>2, <3>1, EnterOK DEF Modes
  <2>2. CASE Steps(r)[r.pc] # "createJob"
    <3> DEFINE p == IF r.pc <= Len(AllocateServer) THEN 1
                    ELSE 1 + Len(AllocateCleanup)
    <3>1. p \in Nat \ {0} /\ p <= 6
      BY DEF AllocateCleanup
    <3>2. Failed(r) = [r EXCEPT !.mode = "cleanup", !.pc = p]
      BY <1>2, <2>2 DEF Failed
    <3> HIDE DEF p
    <3>3. /\ Failed(r) \in JobRecs /\ Failed(r).mode = "cleanup"
          /\ Failed(r).pc = p /\ SameData(Failed(r), r)
      <4>1. "cleanup" \in Modes
        BY DEF Modes
      <4> QED BY ZenonT(60), <3>1, <3>2, <4>1 DEF JobRecs, SameData
    <3>4. Len(Steps(Failed(r))) = 6
      BY <1>2, <3>3, StepsAre DEF StepsGood, SameData
    <3> QED BY <1>2, <3>1, <3>3, <3>4 DEF PcOK
  <2> QED BY <2>1, <2>2
<1>3. CASE r.mode = "request" /\ r.kind # "create"
  <2>1. Failed(r) = Enter(r, "cleanup")
    BY <1>3 DEF Failed
  <2> QED BY <1>3, <2>1, EnterOK DEF Modes
<1>4. CASE r.mode = "cleanup" /\ r.pc <= Len(AllocateCleanup)
           /\ r.kind = "create"
  <2> DEFINE p == 1 + Len(AllocateCleanup)
  <2>1. p \in Nat \ {0} /\ p <= 6
    BY DEF AllocateCleanup
  <2>2. Failed(r) = [r EXCEPT !.pc = p]
    BY <1>4 DEF Failed
  <2> HIDE DEF p
  <2>3. /\ Failed(r) \in JobRecs /\ Failed(r).mode = "cleanup"
        /\ Failed(r).pc = p /\ SameData(Failed(r), r)
    BY <1>4, <2>1, <2>2, MovePcOK
  <2>4. Len(Steps(Failed(r))) = 6
    BY <1>4, <2>3, StepsAre DEF StepsGood, SameData
  <2> QED BY <1>4, <2>1, <2>3, <2>4 DEF PcOK
<1>5. CASE r.mode = "cleanup"
           /\ ~(r.pc <= Len(AllocateCleanup) /\ r.kind = "create")
  <2>1. Failed(r) = Enter(r, "ended")
    BY <1>5 DEF Failed
  <2> QED BY <1>5, <2>1, EnterOK DEF Modes
<1>6. CASE r.mode = "chain"
  <2>1. Failed(r) = Enter(r, "onerror")
    BY <1>6 DEF Failed
  <2> QED BY <1>6, <2>1, EnterOK DEF Modes
<1>7. CASE r.mode \in {"onerror", "oncancel"}
  <2>1. Failed(r) = Enter(r, "ended")
    BY <1>7 DEF Failed
  <2> QED BY <1>7, <2>1, EnterOK DEF Modes
<1> QED BY <1>1, <1>2, <1>3, <1>4, <1>5, <1>6, <1>7 DEF Modes

-----------------------------------------------------------------------------
(* The waitlist.                                                            *)
QueueType == queue \in [Scopes -> Seq(Jobs)]

\* Whoever is in line, or first, stays so when another ticket is created
LEMMA AppendKeeps ==
  ASSUME QueueType, NEW scope \in Scopes, NEW j \in Jobs,
         queue' = [queue EXCEPT ![scope] = Append(@, j)]
  PROVE  /\ queue' \in [Scopes -> Seq(Jobs)]
         /\ InLine(j, scope)'
         /\ \A i, sc : sc \in Scopes /\ InLine(i, sc) => InLine(i, sc)'
         /\ \A i, sc : sc \in Scopes /\ Holds(i, sc) => Holds(i, sc)'
         /\ \A sc \in Scopes : sc # scope => queue'[sc] = queue[sc]
<1>1. queue[scope] \in Seq(Jobs)
  BY DEF QueueType
<1>2. /\ queue'[scope] = Append(queue[scope], j)
      /\ queue' \in [Scopes -> Seq(Jobs)]
      /\ \A sc \in Scopes : sc # scope => queue'[sc] = queue[sc]
  BY <1>1 DEF QueueType
<1>3. /\ Append(queue[scope], j) \in Seq(Jobs)
      /\ Len(Append(queue[scope], j)) = Len(queue[scope]) + 1
      /\ \A i \in 1..Len(queue[scope]) :
            Append(queue[scope], j)[i] = queue[scope][i]
      /\ Append(queue[scope], j)[Len(queue[scope]) + 1] = j
      /\ Len(queue[scope]) \in Nat
      /\ DOMAIN queue[scope] = 1..Len(queue[scope])
      /\ DOMAIN Append(queue[scope], j) = 1..(Len(queue[scope]) + 1)
  BY <1>1
<1>4. InLine(j, scope)'
  BY <1>2, <1>3 DEF InLine
<1>5. ASSUME NEW i, NEW sc \in Scopes, InLine(i, sc)
      PROVE  InLine(i, sc)'
  BY <1>2, <1>3, <1>5 DEF InLine
<1>6. ASSUME NEW i, NEW sc \in Scopes, Holds(i, sc)
      PROVE  Holds(i, sc)'
  <2>1. CASE sc # scope
    BY <1>2, <1>6, <2>1 DEF Holds
  <2>2. CASE sc = scope
    <3>1. queue[scope] # << >> /\ Head(queue[scope]) = i
      BY <1>6, <2>2 DEF Holds
    <3>2. /\ Append(queue[scope], j) # << >>
          /\ Head(Append(queue[scope], j)) = Head(queue[scope])
      BY <1>1, <3>1
    <3> QED BY <1>2, <2>2, <3>1, <3>2 DEF Holds
  <2> QED BY <2>1, <2>2
<1> QED BY <1>2, <1>4, <1>5, <1>6

\* A ticket that goes leaves every other job's ticket where it was in line
LEMMA WithoutKeeps ==
  ASSUME QueueType, NEW scope \in Scopes, NEW j,
         queue' = Without(scope, j)
  PROVE  /\ queue' \in [Scopes -> Seq(Jobs)]
         /\ \A i, sc : sc \in Scopes /\ i # j /\ InLine(i, sc) => InLine(i, sc)'
         /\ \A i, sc : sc \in Scopes /\ i # j /\ Holds(i, sc) => Holds(i, sc)'
         /\ \A sc \in Scopes : sc # scope => queue'[sc] = queue[sc]
<1>1. CASE ~InLine(j, scope)
  BY <1>1 DEF QueueType, Without, InLine, Holds
<1>2. CASE InLine(j, scope)
  <2> DEFINE q == queue[scope]
             p == Place(j, scope)
             a == SubSeq(q, 1, p - 1)
             b == SubSeq(q, p + 1, Len(q))
             n == a \o b
  <2>1. q \in Seq(Jobs) /\ p \in 1..Len(q) /\ q[p] = j /\ Len(q) \in Nat
    BY <1>2 DEF QueueType, Place, InLine
  <2>2. queue' = [queue EXCEPT ![scope] = n]
    BY <1>2 DEF Without, RemoveAt
  <2> HIDE DEF p
  <2>3. /\ n \in Seq(Jobs) /\ Len(n) = Len(q) - 1
        /\ \A k \in 1..(p - 1) : n[k] = q[k]
        /\ \A k \in p..(Len(q) - 1) : n[k] = q[k + 1]
        /\ DOMAIN q = 1..Len(q) /\ DOMAIN n = 1..Len(n)
    <3>1. /\ a \in Seq(Jobs) /\ Len(a) = p - 1
          /\ \A k \in 1..(p - 1) : a[k] = q[k]
      BY <2>1
    <3>2. /\ b \in Seq(Jobs) /\ Len(b) = Len(q) - p
          /\ \A k \in 1..(Len(q) - p) : b[k] = q[p + k]
      BY <2>1
    <3> HIDE DEF a, b, q
    <3>3. n \in Seq(Jobs) /\ Len(n) = Len(q) - 1
      <4>1. n \in Seq(Jobs)
        BY <3>1, <3>2
      <4>2. Len(n) = Len(a) + Len(b)
        BY <3>1, <3>2, ConcatProperties
      <4> QED BY <2>1, <3>1, <3>2, <4>1, <4>2
    <3>4. ASSUME NEW k \in 1..(p - 1)
          PROVE  n[k] = q[k]
      BY <2>1, <3>1, <3>2
    <3>5. ASSUME NEW k \in p..(Len(q) - 1)
          PROVE  n[k] = q[k + 1]
      <4>1. n[k] = b[k - p + 1]
        BY <2>1, <3>1, <3>2
      <4> QED BY <2>1, <3>2, <4>1
    <3> QED BY <2>1, <3>3, <3>4, <3>5
  <2> HIDE DEF n
  <2>4. /\ queue' \in [Scopes -> Seq(Jobs)] /\ queue'[scope] = n
        /\ \A sc \in Scopes : sc # scope => queue'[sc] = queue[sc]
    BY <2>2, <2>3 DEF QueueType
  <2>5. ASSUME NEW i, NEW sc \in Scopes, i # j, InLine(i, sc)
        PROVE  InLine(i, sc)'
    <3>1. CASE sc # scope
      BY <2>4, <2>5, <3>1 DEF InLine
    <3>2. CASE sc = scope
      <4>1. PICK k \in 1..Len(q) : q[k] = i
        BY <2>3, <2>5, <3>2 DEF InLine
      <4>2. CASE k < p
        <5>1. k \in 1..Len(n) /\ n[k] = i
          BY <2>1, <2>3, <4>1, <4>2
        <5> QED BY <2>3, <2>4, <3>2, <5>1 DEF InLine
      <4>3. CASE k > p
        <5>1. k - 1 \in 1..Len(n) /\ n[k - 1] = i
          BY <2>1, <2>3, <4>1, <4>3
        <5> QED BY <2>3, <2>4, <3>2, <5>1 DEF InLine
      <4> QED BY <2>1, <2>5, <4>1, <4>2, <4>3
    <3> QED BY <3>1, <3>2
  <2>6. ASSUME NEW i, NEW sc \in Scopes, i # j, Holds(i, sc)
        PROVE  Holds(i, sc)'
    <3>1. CASE sc # scope
      BY <2>4, <2>6, <3>1 DEF Holds
    <3>2. CASE sc = scope
      <4>1. q # << >> /\ q[1] = i
        BY <2>1, <2>6, <3>2 DEF Holds
      <4>2. p > 1 /\ Len(n) > 0 /\ n[1] = i
        BY <2>1, <2>3, <2>6, <4>1
      <4>3. n # << >> /\ Head(n) = i
        BY <2>3, <4>2
      <4> QED BY <2>4, <3>2, <4>3 DEF Holds
    <3> QED BY <3>1, <3>2
  <2> QED BY <2>4, <2>5, <2>6
<1> QED BY <1>1, <1>2

-----------------------------------------------------------------------------
(* The steps of a job.  Most tasks leave alone what the invariants below     *)
(* are about: what the job is for, its server and its task in CNAPI.        *)
SameFlow(x, r) ==
    /\ x.kind = r.kind /\ x.vm = r.vm /\ x.mode = r.mode /\ x.pc = r.pc
    /\ Steps(x) = Steps(r)
\* The tasks in which a job learns which volume to mount
Learning == {"loadVolume", "createVolume"}
SameKey(x, r) ==
    /\ x.server = r.server /\ x.task = r.task /\ x.action = r.action
    /\ x.taken = r.taken /\ x.mounts = r.mounts /\ x.finished = r.finished
    /\ x.volume = r.volume \/ Steps(r)[r.pc] \in Learning

\* The tasks that make a job a holder of a ticket or of a server
Lines == {"acquireVMTicket", "waitOnVMTicket", "acquireAllocationTicket",
          "waitOnAllocationTicket", "getAllocation"}
\* The tasks that bring the VM and its volume about
Makings == {"zoneAction", "provision", "waitTask", "reserveVolume",
            "waitForNfsVolumeProvisions"}
Stages == Lines \cup Makings

\* Where it goes, without success of the tasks in T
Outcome(s, x, T) ==
    \/ s = x
    \/ x.mode # "ended" /\ Steps(x)[x.pc] \notin T /\ s = Next1(x)
    \/ x.mode # "ended" /\ s = Failed(x)
    \/ /\ x.mode = "chain" /\ Steps(x)[x.pc] \in {"getNetwork", "listNics"}
       /\ s = Next1(Next1(x))

Minor(j, T) ==
    \E x \in JobRecs :
        /\ SameFlow(x, job[j]) /\ SameKey(x, job[j])
        /\ \E s : Outcome(s, x, T) /\ job' = [job EXCEPT ![j] = s]

JobType ==
    /\ job \in Seq(JobRecs) /\ Len(job) <= MaxJobs
    /\ \A j \in Jobs : PcOK(job[j])

\* What the type of the jobs says of one of them
LEMMA JobTyped ==
  ASSUME JobType, NEW j \in Jobs
  PROVE  /\ job[j] \in JobRecs /\ PcOK(job[j]) /\ StepsGood(job[j])
         /\ Jobs = 1..Len(job) /\ Len(job) \in Nat
<1>1. job[j] \in JobRecs /\ Jobs = 1..Len(job) /\ Len(job) \in Nat
  BY DEF JobType, Jobs
<1> QED BY <1>1, StepsAre DEF JobType

\* A job at a task has not ended, and is at one of its steps
LEMMA AtOK ==
  ASSUME JobType, NEW j \in Jobs, NEW task, At(j, task)
  PROVE  /\ job[j].mode # "ended" /\ job[j].pc \in 1..Len(Steps(job[j]))
         /\ Steps(job[j])[job[j].pc] = task
<1>1. /\ job[j] \in JobRecs /\ PcOK(job[j]) /\ StepsGood(job[j])
      /\ job[j].pc \in Nat \ {0}
  BY JobTyped DEF JobRecs
<1>2. job[j].pc <= Len(Steps(job[j])) /\ Steps(job[j])[job[j].pc] = task
  BY DEF At
<1>3. job[j].mode # "ended"
  <2>1. SUFFICES ASSUME job[j].mode = "ended" PROVE FALSE
    OBVIOUS
  <2>2. Steps(job[j]) = << >>
    BY <1>1, <2>1 DEF StepsGood
  <2> QED BY <1>1, <1>2, <2>2
<1> QED BY <1>1, <1>2, <1>3 DEF StepsGood

\* One job moves, the others do not
LEMMA MoveTyped ==
  ASSUME JobType, NEW j \in Jobs, NEW s \in JobRecs, PcOK(s),
         job' = [job EXCEPT ![j] = s]
  PROVE  /\ JobType' /\ Jobs' = Jobs /\ job'[j] = s
         /\ \A i \in Jobs : i # j => job'[i] = job[i]
<1>1. job \in Seq(JobRecs) /\ Jobs = 1..Len(job) /\ Len(job) \in Nat
  BY DEF JobType, Jobs
<1>2. job' \in Seq(JobRecs) /\ Len(job') = Len(job)
  BY <1>1
<1>3. Jobs' = Jobs
  BY <1>1, <1>2 DEF Jobs
<1>4. job'[j] = s /\ \A i \in Jobs : i # j => job'[i] = job[i]
  BY <1>1
<1>5. \A i \in Jobs : PcOK(job'[i])
  BY <1>4 DEF JobType
<1> QED BY <1>2, <1>3, <1>4, <1>5 DEF JobType

\* Wherever a task leads, the job keeps what it is about
LEMMA OutcomeOK ==
  ASSUME NEW x \in JobRecs, PcOK(x), NEW s, NEW T, Outcome(s, x, T)
  PROVE  s \in JobRecs /\ PcOK(s) /\ (s = x \/ SameData(s, x))
<1>1. CASE s = x
  BY <1>1
<1>2. CASE x.mode # "ended" /\ s = Next1(x)
  BY <1>2, Next1OK
<1>3. CASE x.mode # "ended" /\ s = Failed(x)
  BY <1>3, FailedOK
<1>4. CASE /\ x.mode = "chain" /\ Steps(x)[x.pc] \in {"getNetwork", "listNics"}
           /\ s = Next1(Next1(x))
  <2>1. StepsGood(x) /\ x.pc \in 1..Len(Steps(x))
    BY <1>4, StepsAre DEF PcOK
  <2>2. x.pc < Len(Steps(x))
    BY <1>4, <2>1 DEF StepsGood, ChainGood
  <2>3. /\ Next1(x) \in JobRecs /\ PcOK(Next1(x)) /\ SameData(Next1(x), x)
        /\ Next1(x).mode = "chain"
    BY <1>4, <2>2, Next1OK
  <2>4. /\ s \in JobRecs /\ PcOK(s) /\ SameData(s, Next1(x))
    BY <1>4, <2>3, Next1OK
  <2> QED BY <2>3, <2>4 DEF SameData
<1> QED BY <1>1, <1>2, <1>3, <1>4 DEF Outcome

\* What a minor step makes of the jobs
LEMMA MinorTyped ==
  ASSUME JobType, NEW j \in Jobs, NEW T, Minor(j, T)
  PROVE  \E x, s \in JobRecs :
            /\ SameFlow(x, job[j]) /\ SameKey(x, job[j]) /\ Outcome(s, x, T)
            /\ job' = [job EXCEPT ![j] = s]
            /\ PcOK(x) /\ PcOK(s) /\ JobType' /\ Jobs' = Jobs
            /\ job'[j] = s /\ \A i \in Jobs : i # j => job'[i] = job[i]
<1>1. PICK x \in JobRecs : /\ SameFlow(x, job[j]) /\ SameKey(x, job[j])
                           /\ \E s : /\ Outcome(s, x, T)
                                     /\ job' = [job EXCEPT ![j] = s]
  BY DEF Minor
<1>2. PICK s : Outcome(s, x, T) /\ job' = [job EXCEPT ![j] = s]
  BY <1>1
<1>3. PcOK(x)
  BY <1>1, JobTyped DEF PcOK, SameFlow
<1>4. s \in JobRecs /\ PcOK(s)
  BY <1>2, <1>3, OutcomeOK
<1>5. /\ JobType' /\ Jobs' = Jobs /\ job'[j] = s
      /\ \A i \in Jobs : i # j => job'[i] = job[i]
  BY <1>2, <1>4, MoveTyped
<1> QED BY <1>1, <1>2, <1>3, <1>4, <1>5

\* A step without success of any stage is none of a line, nor one that brings
\* the VM about
LEMMA FewerStages ==
  ASSUME NEW j, Minor(j, Stages)
  PROVE  Minor(j, Lines) /\ Minor(j, Makings)
  BY DEF Minor, Outcome, Stages

(* What a task may change of its job.                                       *)
LEMMA Updates ==
  ASSUME NEW r \in JobRecs, NEW scope \in Scopes, NEW n \in Nat,
         NEW b \in BOOLEAN, NEW x,
         \/ x = r
         \/ x = [r EXCEPT !.tickets = @ \cup {scope}]
         \/ x = [r EXCEPT !.nat = n]
         \/ x = [r EXCEPT !.volume = n] /\ Steps(r)[r.pc] \in Learning
         \/ x = [r EXCEPT !.creating = b]
         \/ x = [r EXCEPT !.waits = b]
  PROVE  x \in JobRecs /\ SameFlow(x, r) /\ SameKey(x, r)
<1>1. /\ x \in JobRecs /\ SameKey(x, r)
      /\ x.kind = r.kind /\ x.vm = r.vm /\ x.mode = r.mode /\ x.pc = r.pc
      /\ x.fabric = r.fabric /\ x.mounts = r.mounts
  BY DEF JobRecs, SameKey
<1> QED BY <1>1, SameSteps DEF SameFlow

\* A task that succeeds is a minor step, unless it is in T
LEMMA ProceedIsMinor ==
  ASSUME JobType, NEW j \in Jobs, NEW task, At(j, task), NEW T, task \notin T,
         NEW x \in JobRecs, SameFlow(x, job[j]), SameKey(x, job[j]),
         Proceed(j, x)
  PROVE  Minor(j, T)
<1>1. Outcome(Next1(x), x, T)
  BY AtOK DEF SameFlow, Outcome
<1> QED BY <1>1 DEF Minor, Proceed

\* A task that fails is a minor step
LEMMA FailIsMinor ==
  ASSUME JobType, NEW j \in Jobs, NEW task, At(j, task), NEW T,
         NEW x \in JobRecs, SameFlow(x, job[j]), SameKey(x, job[j]),
         FailWith(j, x)
  PROVE  Minor(j, T)
<1>1. Outcome(Failed(x), x, T)
  BY AtOK DEF SameFlow, Outcome
<1> QED BY <1>1 DEF Minor, FailWith

\* A job that has not changed
LEMMA SameAsItself ==
  ASSUME JobType, NEW j \in Jobs
  PROVE  /\ job[j] \in JobRecs
         /\ SameFlow(job[j], job[j]) /\ SameKey(job[j], job[j])
  BY JobTyped DEF SameFlow, SameKey

(* Which steps a task is in.                                                *)
RequestTasks == {"acquireAllocationTicket", "waitOnAllocationTicket",
                 "getAllocation", "putVmInMoray", "acquireVMTicket",
                 "releaseAllocationTicket", "waitOnVMTicket",
                 "provisionNics", "createJob"}
LEMMA TaskPlaces ==
  ASSUME JobType, NEW j \in Jobs, NEW task, At(j, task)
  PROVE  /\ job[j].mode = "request" => task \in RequestTasks
         /\ job[j].mode = "cleanup" => task \in CleanupTasks
         /\ job[j].mode = "chain" =>
              task \in ChainTasks /\ ChainGood(Steps(job[j]), job[j].kind,
                                               job[j].pc)
         /\ job[j].mode \in {"onerror", "oncancel"} => task \in EndTasks
         /\ job[j].mode \in {"request", "cleanup", "chain", "onerror",
                             "oncancel"}
<1> DEFINE r == job[j]
<1>1. /\ StepsGood(r) /\ r.pc \in 1..Len(Steps(r)) /\ Steps(r)[r.pc] = task
      /\ r.mode \in Modes \ {"ended"}
  BY JobTyped, AtOK DEF JobRecs
<1> HIDE DEF r
<1>2. CASE r.mode = "request" /\ r.kind = "create"
  <2>1. r.pc \in 1..9
    BY <1>1, <1>2 DEF StepsGood
  <2>2. \/ r.pc = 1 \/ r.pc = 2 \/ r.pc = 3 \/ r.pc = 4 \/ r.pc = 5
        \/ r.pc = 6 \/ r.pc = 7 \/ r.pc = 8 \/ r.pc = 9
    BY <2>1
  <2>3. task \in RequestTasks
    BY <1>1, <1>2, <2>2 DEF StepsGood, RequestTasks
  <2> QED BY <1>2, <2>3 DEF r
<1>3. CASE r.mode = "request" /\ r.kind # "create"
  BY <1>1, <1>3 DEF StepsGood, RequestTasks, r
<1>4. CASE r.mode = "cleanup"
  BY <1>1, <1>4 DEF StepsGood, r
<1>5. CASE r.mode = "chain"
  BY <1>1, <1>5 DEF StepsGood, ChainGood, r
<1>6. CASE r.mode \in {"onerror", "oncancel"}
  BY <1>1, <1>6 DEF StepsGood, r
<1> QED BY <1>1, <1>2, <1>3, <1>4, <1>5, <1>6 DEF Modes

UsedType == used \in [faults : Nat, cancels : Nat, deletes : Nat]

\* The counts of faults, cancellations and deletions stay counts
LEMMA CountsTyped ==
  ASSUME UsedType
  PROVE  /\ used' = used => UsedType'
         /\ used' = [used EXCEPT !.faults = @ + 1] => UsedType'
         /\ used' = [used EXCEPT !.cancels = @ + 1] => UsedType'
         /\ used' = [used EXCEPT !.deletes = @ + 1] => UsedType'
  BY DEF UsedType

QueueTyped == queue' \in [Scopes -> Seq(Jobs)]

\* The queues of the VMs are as they were
LeavesVms == \A v \in Vms : queue'[v] = queue[v]
LeavesOther == LeavesVms /\ queue'["allocate"] = queue["allocate"]

\* Asking the waitlist for a ticket
LEMMA AcquireStep ==
  ASSUME JobType, QueueType, UsedType, NEW j \in Jobs, NEW task, At(j, task),
         NEW scope \in Scopes,
         Acquire(j, scope) \/ AcquireAndFail(j, scope)
  PROVE  /\ Minor(j, {}) /\ UsedType' /\ QueueTyped
         /\ queue' = [queue EXCEPT ![scope] = Append(@, j)]
<1>1. CASE Acquire(j, scope)
  <2> DEFINE x == [job[j] EXCEPT !.tickets = @ \cup {scope}]
  <2>1. x \in JobRecs /\ SameFlow(x, job[j]) /\ SameKey(x, job[j])
    BY JobTyped, Updates
  <2>2. Proceed(j, x) /\ used' = used
        /\ queue' = [queue EXCEPT ![scope] = Append(@, j)]
    BY <1>1 DEF Acquire
  <2> HIDE DEF x
  <2>3. Minor(j, {})
    BY <2>1, <2>2, ProceedIsMinor
  <2> QED BY <2>2, <2>3, CountsTyped, AppendKeeps DEF QueueTyped
<1>2. CASE AcquireAndFail(j, scope)
  <2>1. FailWith(j, job[j]) /\ used' = [used EXCEPT !.faults = @ + 1]
        /\ queue' = [queue EXCEPT ![scope] = Append(@, j)]
    BY <1>2 DEF AcquireAndFail
  <2>2. Minor(j, {})
    BY <2>1, SameAsItself, FailIsMinor
  <2> QED BY <2>1, <2>2, CountsTyped, AppendKeeps DEF QueueTyped
<1> QED BY <1>1, <1>2

\* Waiting for a ticket
LEMMA WaitStep ==
  ASSUME JobType, QueueType, UsedType, NEW j \in Jobs, NEW task, At(j, task),
         NEW scope \in Scopes, WaitOn(j, scope)
  PROVE  /\ Minor(j, {}) /\ UsedType' /\ QueueTyped /\ queue' = queue
         /\ \/ Holds(j, scope) \/ ~InLine(j, scope)
<1>1. /\ Proceed(j, job[j]) \/ FailWith(j, job[j])
      /\ queue' = queue /\ used' = used
      /\ Holds(j, scope) \/ ~InLine(j, scope)
  BY DEF WaitOn
<1>2. Minor(j, {})
  BY <1>1, SameAsItself, ProceedIsMinor, FailIsMinor
<1> QED BY <1>1, <1>2, CountsTyped DEF QueueTyped, QueueType

\* Giving a ticket up
LEMMA ReleaseStep ==
  ASSUME JobType, QueueType, UsedType, NEW j \in Jobs, NEW task, At(j, task),
         NEW T, task \notin T, NEW scope \in Scopes, Release(j, scope)
  PROVE  /\ Minor(j, T) /\ UsedType' /\ QueueTyped
         /\ queue' = queue \/ queue' = Without(scope, j)
<1>1. /\ Proceed(j, job[j]) /\ used' = used
      /\ queue' = queue \/ queue' = Without(scope, j)
  BY DEF Release
<1>2. Minor(j, T)
  BY <1>1, SameAsItself, ProceedIsMinor
<1> QED BY <1>1, <1>2, CountsTyped, WithoutKeeps DEF QueueTyped, QueueType

\* The clean-up that has no allocation ticket to release ends every request
Crash(j) ==
    /\ At(j, "releaseAllocationTicket")
    /\ job' = [i \in Jobs |->
                IF job[i].mode \in {"request", "cleanup"}
                THEN Enter(job[i], "ended") ELSE job[i]]
    /\ UNCHANGED <<queue, used>>
\* A crash of VMAPI ends requests and changes nothing else of the jobs
LEMMA CrashTyped ==
  ASSUME JobType, NEW j \in Jobs, Crash(j)
  PROVE  /\ JobType' /\ Jobs' = Jobs
         /\ \A i \in Jobs : /\ job'[i] \in JobRecs
                            /\ \/ job'[i] = job[i]
                               \/ /\ job[i].mode \in {"request", "cleanup"}
                                  /\ job'[i].mode = "ended"
                                  /\ SameData(job'[i], job[i])
<1>1. Jobs = 1..Len(job) /\ Len(job) \in Nat
  BY JobTyped
<1>2. ASSUME NEW i \in Jobs
      PROVE  /\ job'[i] \in JobRecs /\ PcOK(job'[i])
             /\ \/ job'[i] = job[i]
                \/ /\ job[i].mode \in {"request", "cleanup"}
                   /\ job'[i].mode = "ended" /\ SameData(job'[i], job[i])
  <2>1. job'[i] = IF job[i].mode \in {"request", "cleanup"}
                  THEN Enter(job[i], "ended") ELSE job[i]
    BY DEF Crash
  <2>2. "ended" \in Modes
    BY DEF Modes
  <2> QED BY <2>1, <2>2, JobTyped, EnterOK
<1>3. job' \in Seq(JobRecs) /\ Len(job') = Len(job)
  <2>1. job' = [i \in 1..Len(job) |-> job'[i]]
    BY <1>1 DEF Crash
  <2> QED BY <1>1, <1>2, <2>1
<1>4. Jobs' = Jobs
  BY <1>1, <1>3 DEF Jobs
<1> QED BY <1>2, <1>3, <1>4 DEF JobType

\* The scopes of tickets: each VM, the allocation and the NAT zone
LEMMA ScopesAre ==
  /\ "allocate" \in Scopes /\ "nat" \in Scopes /\ Vms \subseteq Scopes
  /\ "allocate" \notin Vms /\ "nat" \notin Vms
  BY WorkflowsAssumption DEF Scopes

\* The tasks on tickets are minor steps or crash VMAPI
LEMMA TicketStep ==
  ASSUME JobType, QueueType, UsedType, NEW j \in Jobs, TicketTasks(j)
  PROVE  /\ UsedType' /\ QueueTyped
         /\ Crash(j) \/ Minor(j, {})
<1>1. job[j].vm \in Scopes /\ "allocate" \in Scopes
  BY JobTyped, ScopesAre DEF JobRecs
<1>2. CASE acquireVMTicket(j)
  BY <1>1, <1>2, AcquireStep DEF acquireVMTicket
<1>3. CASE waitOnVMTicket(j)
  BY <1>1, <1>3, WaitStep DEF waitOnVMTicket
<1>4. CASE releaseVMTicket(j)
  BY <1>1, <1>4, ReleaseStep, "releaseVMTicket" \notin {}
     DEF releaseVMTicket
<1>5. CASE releaseVMTicketIgnoringErr(j)
  BY <1>1, <1>5, ReleaseStep, "releaseVMTicketIgnoringErr" \notin {}
     DEF releaseVMTicketIgnoringErr
<1>6. CASE acquireAllocationTicket(j)
  BY <1>1, <1>6, AcquireStep DEF acquireAllocationTicket
<1>7. CASE waitOnAllocationTicket(j)
  BY <1>1, <1>7, WaitStep DEF waitOnAllocationTicket
<1>8. CASE releaseAllocationTicket(j)
  <2>1. CASE "allocate" \in job[j].tickets
    BY <1>1, <1>8, <2>1, ReleaseStep, "releaseAllocationTicket" \notin {}
       DEF releaseAllocationTicket
  <2>2. CASE "allocate" \notin job[j].tickets
    BY <1>8, <2>2, CountsTyped
       DEF releaseAllocationTicket, Crash, QueueTyped, QueueType
  <2> QED BY <2>1, <2>2
<1> QED
  BY <1>2, <1>3, <1>4, <1>5, <1>6, <1>7, <1>8 DEF TicketTasks

-----------------------------------------------------------------------------
(* The tasks on NICs and the NAT zone.                                      *)
NicType == napi \subseteq Nics /\ nats \in Seq(NatStates)

\* A destroy learns at its third task whether it has to do with the NAT zone
LooksAtNics(j) ==
    /\ At(j, "getFabricNatNics")
    /\ \E b \in BOOLEAN : Proceed(j, [job[j] EXCEPT !.fabric = b])

\* Where a destroy is when it looks at its NICs
LEMMA LookStep ==
  ASSUME JobType, NEW j \in Jobs, LooksAtNics(j)
  PROVE  /\ job[j].kind = "destroy" /\ job[j].mode = "chain" /\ job[j].pc = 3
         /\ Steps(job[j])[1] = "acquireVMTicket"
         /\ Steps(job[j])[2] = "waitOnVMTicket"
         /\ Steps(job[j])[3] = "getFabricNatNics"
         /\ \E s \in JobRecs :
              /\ job' = [job EXCEPT ![j] = s]
              /\ PcOK(s) /\ SameKey(s, job[j]) /\ s.vm = job[j].vm
              /\ s.kind = "destroy" /\ s.mode = "chain" /\ s.pc = 4
<1> DEFINE r == job[j]
<1>1. PICK b \in BOOLEAN : Proceed(j, [r EXCEPT !.fabric = b])
  BY DEF LooksAtNics
<1> DEFINE x == [r EXCEPT !.fabric = b]
<1>2. r \in JobRecs /\ Steps(r)[r.pc] = "getFabricNatNics"
  BY JobTyped, AtOK DEF LooksAtNics
<1>3. r.mode = "chain" /\ r.kind = "destroy" /\ r.pc = 3
  <2>1. At(j, "getFabricNatNics")
    BY DEF LooksAtNics
  <2>2. r.mode = "chain"
    BY <2>1, TaskPlaces DEF RequestTasks, CleanupTasks, EndTasks
  <2> QED BY <1>2, <2>1, <2>2, TaskPlaces DEF ChainGood
<1>4. /\ x \in JobRecs /\ SameKey(x, r) /\ x.mode = "chain"
      /\ x.kind = "destroy" /\ x.pc = 3 /\ x.vm = r.vm
  BY <1>2, <1>3 DEF JobRecs, SameKey
<1>5. Proceed(j, x)
  BY <1>1
<1> HIDE DEF x
<1>6. Steps(r) = DestroyChain(r) /\ Steps(x) = DestroyChain(x)
  BY <1>3, <1>4 DEF Steps, Chain
<1>7. r.fabric \in BOOLEAN /\ x.fabric \in BOOLEAN
  BY <1>2, <1>4 DEF JobRecs
<1>8. Len(Steps(x)) \in Nat /\ Len(Steps(x)) > 3
  BY <1>4, <1>6, <1>7, DestroyGood DEF ChainIsGood
<1>9. /\ Next1(x) \in JobRecs /\ PcOK(Next1(x)) /\ SameData(Next1(x), x)
      /\ Next1(x).mode = "chain" /\ Next1(x).pc = 4
  BY <1>4, <1>8, Next1OK DEF PcOK
<1>10. job' = [job EXCEPT ![j] = Next1(x)]
  BY <1>5 DEF Proceed
<1>11. /\ SameKey(Next1(x), r) /\ Next1(x).vm = r.vm
       /\ Next1(x).kind = "destroy"
  BY <1>4, <1>9 DEF SameKey, SameData
<1>12. /\ Steps(r)[1] = "acquireVMTicket" /\ Steps(r)[2] = "waitOnVMTicket"
       /\ Steps(r)[3] = "getFabricNatNics"
  BY <1>6, <1>7, DestroyGood
<1> QED BY <1>3, <1>9, <1>10, <1>11, <1>12

\* What happens to the NAT ticket leaves the other queues alone
LEMMA NatQueue ==
  ASSUME QueueType, NEW j
  PROVE  /\ queue' = Without("nat", j) => LeavesOther /\ QueueTyped
         /\ queue' = queue => LeavesOther /\ QueueTyped
         /\ j \in Jobs /\ queue' = [queue EXCEPT !["nat"] = Append(@, j)]
              => LeavesOther /\ QueueTyped
<1>1. queue' = Without("nat", j) => LeavesOther /\ QueueTyped
  BY WithoutKeeps, ScopesAre DEF LeavesOther, LeavesVms, QueueTyped
<1>2. queue' = queue => LeavesOther /\ QueueTyped
  BY DEF LeavesOther, LeavesVms, QueueTyped, QueueType
<1>3. ASSUME j \in Jobs, queue' = [queue EXCEPT !["nat"] = Append(@, j)]
      PROVE  LeavesOther /\ QueueTyped
  BY <1>3, AppendKeeps, ScopesAre DEF LeavesOther, LeavesVms, QueueTyped
<1> QED BY <1>1, <1>2, <1>3

\* The tasks on NICs and the NAT zone take no ticket of a VM
LEMMA NicStep ==
  ASSUME JobType, QueueType, UsedType, NicType, NEW j \in Jobs, NicTasks(j)
  PROVE  /\ UsedType' /\ NicType' /\ QueueTyped /\ LeavesOther
         /\ Minor(j, Stages) \/ LooksAtNics(j)
<1> USE DEF Lines, Makings, Stages
<1>a. /\ job[j] \in JobRecs /\ SameFlow(job[j], job[j])
      /\ SameKey(job[j], job[j])
  BY SameAsItself
<1>b. job[j].nics \subseteq Nics /\ job[j].vm \in Vms /\ job[j].net \in Networks
  BY <1>a DEF JobRecs
<1>1. CASE provisionNics(j)
  <2> DEFINE nic == <<job[j].vm, job[j].net>>
             b == nic \notin napi /\ ~HasGateway /\ OnFabric({nic}) # {}
             x == [job[j] EXCEPT !.nics = {nic}, !.fabric = b]
  <2>1. /\ At(j, "provisionNics") /\ Proceed(j, x) /\ napi' = napi \cup {nic}
        /\ queue' = queue /\ used' = used /\ nats' = nats
    BY <1>1 DEF provisionNics
  <2>2. nic \in Nics /\ b \in BOOLEAN
    BY <1>b DEF Nics
  <2> HIDE DEF nic, b
  <2>3. /\ x \in JobRecs /\ SameKey(x, job[j])
        /\ x.kind = job[j].kind /\ x.vm = job[j].vm /\ x.mode = job[j].mode
        /\ x.pc = job[j].pc
    BY <1>a, <2>2 DEF JobRecs, SameKey
  <2> HIDE DEF x
  <2>4. job[j].mode = "request"
    BY <2>1, TaskPlaces DEF CleanupTasks, EndTasks, ChainTasks, Queueing
  <2>5. Steps(x) = Steps(job[j])
    BY <2>3, <2>4 DEF Steps
  <2>6. Minor(j, Stages)
    BY <2>1, <2>3, <2>5, ProceedIsMinor DEF SameFlow
  <2> QED
    BY <2>1, <2>2, <2>6, CountsTyped, NatQueue DEF NicType
<1>2. CASE cleanupNicsOfRequest(j)
  <2>1. /\ At(j, "cleanupNicsOfRequest") /\ Proceed(j, job[j])
        /\ napi' = napi \ job[j].nics
        /\ queue' = queue /\ used' = used /\ nats' = nats
    BY <1>2 DEF cleanupNicsOfRequest
  <2> QED BY <1>a, <2>1, ProceedIsMinor, CountsTyped, NatQueue DEF NicType
<1>3. CASE cleanupNics(j)
  <2>1. /\ At(j, "cleanupNics")
        /\ Proceed(j, job[j]) \/ FailWith(j, job[j])
        /\ napi' = napi \/ napi' = napi \ job[j].nics
        /\ queue' = queue /\ used' = used /\ nats' = nats
    BY <1>3 DEF cleanupNics
  <2>2. Minor(j, Stages)
    BY <1>a, <2>1, ProceedIsMinor, FailIsMinor
  <2> QED BY <2>1, <2>2, CountsTyped, NatQueue DEF NicType
<1>4. CASE removeNics(j)
  <2>1. /\ At(j, "removeNics") /\ Proceed(j, job[j])
        /\ napi' = napi \ job[j].nics
        /\ queue' = queue /\ used' = used /\ nats' = nats
    BY <1>4 DEF removeNics
  <2> QED BY <1>a, <2>1, ProceedIsMinor, CountsTyped, NatQueue DEF NicType
<1>5. CASE updateNicsInNapi(j)
  <2>1. /\ At(j, "updateNicsInNapi")
        /\ Proceed(j, job[j]) \/ FailWith(j, job[j])
        /\ napi' = napi /\ queue' = queue /\ used' = used /\ nats' = nats
    BY <1>5 DEF updateNicsInNapi
  <2>2. Minor(j, Stages)
    BY <1>a, <2>1, ProceedIsMinor, FailIsMinor
  <2> QED BY <2>1, <2>2, CountsTyped, NatQueue DEF NicType
<1>6. CASE AddNicsGivesUp(j)
  <2> DEFINE x == [job[j] EXCEPT !.waits = FALSE]
  <2>1. /\ job' = [job EXCEPT ![j] = x] /\ napi' = napi \ job[j].nics
        /\ queue' = queue /\ used' = used /\ nats' = nats
    BY <1>6 DEF AddNicsGivesUp
  <2>2. x \in JobRecs /\ SameFlow(x, job[j]) /\ SameKey(x, job[j])
    BY <1>a, ScopesAre, Updates, 0 \in Nat
  <2> HIDE DEF x
  <2>3. Minor(j, Stages)
    BY <2>1, <2>2 DEF Minor, Outcome
  <2> QED BY <2>1, <2>3, CountsTyped, NatQueue DEF NicType
<1>7. CASE acquireFabricTickets(j)
  <2>1. /\ At(j, "acquireFabricTickets") /\ nicVars' = nicVars
        /\ Acquire(j, "nat") \/ AcquireAndFail(j, "nat")
    BY <1>7 DEF acquireFabricTickets
  <2>2. UsedType' /\ QueueTyped /\ LeavesOther
    BY <2>1, AcquireStep, NatQueue, ScopesAre
  <2>3. Minor(j, Stages)
    <3>1. CASE Acquire(j, "nat")
      <4> DEFINE x == [job[j] EXCEPT !.tickets = @ \cup {"nat"}]
      <4>1. Proceed(j, x)
        BY <3>1 DEF Acquire
      <4>2. x \in JobRecs /\ SameFlow(x, job[j]) /\ SameKey(x, job[j])
        BY <1>a, Updates, ScopesAre
      <4> HIDE DEF x
      <4> QED BY <2>1, <4>1, <4>2, ProceedIsMinor
    <3>2. CASE AcquireAndFail(j, "nat")
      BY <1>a, <2>1, <3>2, FailIsMinor DEF AcquireAndFail
    <3> QED BY <2>1, <3>1, <3>2
  <2> QED BY <2>1, <2>2, <2>3 DEF NicType, nicVars
<1>8. CASE waitOnFabricTicket(j)
  <2>1. /\ At(j, "waitOnFabricTicket") /\ nicVars' = nicVars
        /\ Proceed(j, job[j]) \/ FailWith(j, job[j])
        /\ queue' = queue /\ used' = used
    BY <1>8 DEF waitOnFabricTicket, WaitOn
  <2>2. Minor(j, Stages)
    BY <1>a, <2>1, ProceedIsMinor, FailIsMinor
  <2> QED BY <2>1, <2>2, CountsTyped, NatQueue DEF NicType, nicVars
<1>9. CASE getNetwork(j)
  <2>1. /\ At(j, "getNetwork") /\ used' = used /\ napi' = napi /\ nats' = nats
        /\ \/ queue' = Without("nat", j) /\ Proceed(j, Next1(job[j]))
           \/ queue' = queue /\ Proceed(j, job[j])
    BY <1>9 DEF getNetwork
  <2>2. CASE Proceed(j, Next1(job[j]))
    <3>1. job[j].mode = "chain"
      BY <2>1, TaskPlaces DEF RequestTasks, CleanupTasks, EndTasks
    <3>2. Outcome(Next1(Next1(job[j])), job[j], Stages)
      BY <2>1, <3>1, AtOK DEF Outcome
    <3>3. job' = [job EXCEPT ![j] = Next1(Next1(job[j]))]
      BY <2>2 DEF Proceed
    <3> QED BY <1>a, <2>1, <3>2, <3>3, CountsTyped, NatQueue DEF Minor, NicType
  <2>3. CASE Proceed(j, job[j])
    BY <1>a, <2>1, <2>3, ProceedIsMinor, CountsTyped, NatQueue DEF NicType
  <2> QED BY <2>1, <2>2, <2>3
<1>10. CASE createNat(j)
  <2>1. CASE HasGateway
    <3>1. /\ At(j, "createNat") /\ FailWith(j, job[j]) /\ napi' = napi
          /\ queue' = Without("nat", j) /\ used' = used /\ nats' = nats
      BY <1>10, <2>1 DEF createNat
    <3> QED BY <1>a, <3>1, FailIsMinor, CountsTyped, NatQueue DEF NicType
  <2>2. CASE ~HasGateway
    <3> DEFINE x == [job[j] EXCEPT !.nat = Len(nats) + 1]
    <3>1. /\ At(j, "createNat") /\ Proceed(j, x) /\ napi' = napi
          /\ queue' = queue /\ used' = used
          /\ nats' = Append(nats, "provisioning")
      BY <1>10, <2>2 DEF createNat
    <3>2. Len(nats) + 1 \in Nat
      BY DEF NicType
    <3>3. x \in JobRecs /\ SameFlow(x, job[j]) /\ SameKey(x, job[j])
      BY <1>a, <3>2, ScopesAre, Updates
    <3>4. nats' \in Seq(NatStates)
      BY <3>1 DEF NicType, NatStates
    <3> HIDE DEF x
    <3>5. Minor(j, Stages)
      BY <3>1, <3>3, ProceedIsMinor
    <3> QED BY <3>1, <3>4, <3>5, CountsTyped, NatQueue DEF NicType
  <2> QED BY <2>1, <2>2
<1>11. CASE CreateNatFails(j)
  <2>1. /\ At(j, "createNat") /\ FailWith(j, job[j]) /\ nicVars' = nicVars
        /\ queue' = Without("nat", j)
        /\ used' = [used EXCEPT !.faults = @ + 1]
    BY <1>11 DEF CreateNatFails
  <2> QED
    BY <1>a, <2>1, FailIsMinor, CountsTyped, NatQueue DEF NicType, nicVars
<1>12. CASE waitForFabricNatProvisions(j)
  <2>1. /\ At(j, "waitForFabricNatProvisions")
        /\ Proceed(j, job[j]) \/ FailWith(j, job[j])
        /\ napi' = napi /\ queue' = queue /\ used' = used /\ nats' = nats
    BY <1>12 DEF waitForFabricNatProvisions
  <2>2. Minor(j, Stages)
    BY <1>a, <2>1, ProceedIsMinor, FailIsMinor
  <2> QED BY <2>1, <2>2, CountsTyped, NatQueue DEF NicType
<1>13. CASE releaseFabricNatTickets(j)
  <2>1. At(j, "releaseFabricNatTickets") /\ Release(j, "nat")
        /\ nicVars' = nicVars
    BY <1>13 DEF releaseFabricNatTickets
  <2>2. /\ Minor(j, Stages) /\ UsedType' /\ QueueTyped
        /\ queue' = queue \/ queue' = Without("nat", j)
    BY <2>1, ReleaseStep, ScopesAre
  <2> QED BY <2>1, <2>2, NatQueue DEF NicType, nicVars
<1>14. CASE getFabricNatNics(j)
  <2> DEFINE b == HasGateway /\ OnFabric(job[j].nics \cap napi) # {}
  <2>1. /\ At(j, "getFabricNatNics")
        /\ Proceed(j, [job[j] EXCEPT !.fabric = b])
        /\ napi' = napi /\ queue' = queue /\ used' = used /\ nats' = nats
    BY <1>14 DEF getFabricNatNics
  <2>2. b \in BOOLEAN
    OBVIOUS
  <2> HIDE DEF b
  <2>3. LooksAtNics(j)
    BY <2>1, <2>2 DEF LooksAtNics
  <2> QED BY <2>1, <2>3, CountsTyped, NatQueue DEF NicType
<1>15. CASE listNics(j)
  <2>1. /\ At(j, "listNics") /\ used' = used /\ napi' = napi /\ nats' = nats
        /\ queue' = queue
        /\ Proceed(j, Next1(job[j])) \/ Proceed(j, job[j])
    BY <1>15 DEF listNics
  <2>2. CASE Proceed(j, Next1(job[j]))
    <3>1. job[j].mode = "chain"
      BY <2>1, TaskPlaces DEF RequestTasks, CleanupTasks, EndTasks
    <3>2. Outcome(Next1(Next1(job[j])), job[j], Stages)
      BY <2>1, <3>1, AtOK DEF Outcome
    <3>3. job' = [job EXCEPT ![j] = Next1(Next1(job[j]))]
      BY <2>2 DEF Proceed
    <3> QED BY <1>a, <2>1, <3>2, <3>3, CountsTyped, NatQueue DEF Minor, NicType
  <2>3. CASE Proceed(j, job[j])
    BY <1>a, <2>1, <2>3, ProceedIsMinor, CountsTyped, NatQueue DEF NicType
  <2> QED BY <2>1, <2>2, <2>3
<1>16. CASE destroyNat(j)
  <2>1. /\ At(j, "destroyNat") /\ Proceed(j, job[j]) /\ napi' = napi
        /\ queue' = queue /\ used' = used
        /\ nats' = [i \in DOMAIN nats |->
                     IF nats[i] = "running" THEN "destroyed" ELSE nats[i]]
    BY <1>16 DEF destroyNat
  <2>2. nats' \in Seq(NatStates)
    BY <2>1 DEF NicType, NatStates
  <2> QED BY <1>a, <2>1, <2>2, ProceedIsMinor, CountsTyped, NatQueue DEF NicType
<1> QED
  BY <1>1, <1>2, <1>3, <1>4, <1>5, <1>6, <1>7, <1>8, <1>9, <1>10, <1>11,
     <1>12, <1>13, <1>14, <1>15, <1>16 DEF NicTasks

-----------------------------------------------------------------------------
(* The tasks on the volume, and those of VMAPI itself.                      *)
VolumeType ==
    /\ volume \in [id : Nat, state : {"none", "creating", "ready"}]
    /\ reserved \subseteq Vms /\ refs \subseteq Vms

\* The tasks on the shared volume touch no queue
LEMMA VolumeStep ==
  ASSUME JobType, QueueType, UsedType, VolumeType, NEW j \in Jobs,
         VolumeTasks(j)
  PROVE  /\ UsedType' /\ VolumeType' /\ QueueTyped /\ LeavesOther
         /\ Minor(j, Lines)
<1> USE DEF Lines
<1>a. /\ job[j] \in JobRecs /\ SameFlow(job[j], job[j])
      /\ SameKey(job[j], job[j])
  BY SameAsItself
<1>b. /\ volume.id \in Nat /\ job[j].vm \in Vms /\ job[j].volume \in Nat
      /\ "nat" \in Scopes
  BY <1>a, ScopesAre DEF JobRecs, VolumeType
<1>c. queue' = queue /\ used' = used
  BY DEF VolumeTasks, loadVolume, reserveVolume, createVolume,
         waitForNfsVolumeProvisions, addVolumesReferences,
         removeVolumesReferences
<1>d. UsedType' /\ QueueTyped /\ LeavesOther
  BY <1>c, CountsTyped, NatQueue
<1>e. At(j, "loadVolume") \/ At(j, "createVolume")
        => Steps(job[j])[job[j].pc] \in Learning
  BY AtOK DEF Learning
<1>1. CASE loadVolume(j)
  <2> DEFINE x == [job[j] EXCEPT !.volume = volume.id]
  <2>1. /\ At(j, "loadVolume")
        /\ Proceed(j, x) \/ Proceed(j, job[j])
        /\ volVars' = volVars
    BY <1>1 DEF loadVolume
  <2>2. x \in JobRecs /\ SameFlow(x, job[j]) /\ SameKey(x, job[j])
    BY <1>a, <1>b, <1>e, <2>1, Updates
  <2> HIDE DEF x
  <2>3. Minor(j, Lines)
    BY <1>a, <2>1, <2>2, ProceedIsMinor
  <2> QED BY <1>d, <2>1, <2>3 DEF VolumeType, volVars
<1>2. CASE reserveVolume(j)
  <2>1. /\ At(j, "reserveVolume") /\ Proceed(j, job[j])
        /\ reserved' = reserved \cup {job[j].vm}
        /\ volume' = volume /\ refs' = refs
    BY <1>2 DEF reserveVolume
  <2> QED BY <1>a, <1>b, <1>d, <2>1, ProceedIsMinor DEF VolumeType
<1>3. CASE createVolume(j)
  <2>0. /\ At(j, "createVolume") /\ reserved' = reserved /\ refs' = refs
    BY <1>3 DEF createVolume
  <2>a. Steps(job[j])[job[j].pc] \in Learning
    BY <1>e, <2>0
  <2>1. CASE volume' = volume /\ Proceed(j, job[j])
    BY <1>a, <1>d, <2>0, <2>1, ProceedIsMinor DEF VolumeType
  <2>2. CASE /\ volume' = [id |-> volume.id + 1, state |-> "creating"]
             /\ job' = [job EXCEPT ![j].volume = volume.id + 1,
                                   ![j].creating = TRUE]
    <3> DEFINE y == [job[j] EXCEPT !.volume = volume.id + 1]
               x == [y EXCEPT !.creating = TRUE]
    <3>1. /\ job' = [job EXCEPT ![j] = x]
      BY <1>a, <2>2 DEF JobType
    <3>2. volume.id + 1 \in Nat /\ TRUE \in BOOLEAN
      BY <1>b
    <3>3. y \in JobRecs /\ SameFlow(y, job[j]) /\ SameKey(y, job[j])
      BY <1>a, <1>b, <2>a, <3>2, Updates
    <3> HIDE DEF y
    <3>4. x \in JobRecs /\ SameFlow(x, y) /\ SameKey(x, y)
      BY <1>b, <3>2, <3>3, Updates
    <3> HIDE DEF x
    <3>5. Minor(j, Lines)
      BY <3>1, <3>3, <3>4 DEF Minor, Outcome, SameFlow, SameKey
    <3> QED BY <1>d, <2>0, <2>2, <3>2, <3>5 DEF VolumeType
  <2>3. CASE /\ volume' = volume
             /\ Proceed(j, [job[j] EXCEPT !.volume = volume.id])
    <3> DEFINE x == [job[j] EXCEPT !.volume = volume.id]
    <3>1. x \in JobRecs /\ SameFlow(x, job[j]) /\ SameKey(x, job[j])
      BY <1>a, <1>b, <2>a, Updates
    <3>2. Proceed(j, x)
      BY <2>3
    <3> HIDE DEF x
    <3> QED BY <1>d, <2>0, <2>3, <3>1, <3>2, ProceedIsMinor DEF VolumeType
  <2>4. CASE /\ volume' = volume
             /\ \/ Proceed(j, [job[j] EXCEPT !.creating = FALSE])
                \/ FailWith(j, [job[j] EXCEPT !.creating = FALSE])
    <3> DEFINE x == [job[j] EXCEPT !.creating = FALSE]
    <3>1. x \in JobRecs /\ SameFlow(x, job[j]) /\ SameKey(x, job[j])
      BY <1>a, <1>b, Updates
    <3>2. Proceed(j, x) \/ FailWith(j, x)
      BY <2>4
    <3> HIDE DEF x
    <3>3. Minor(j, Lines)
      BY <2>0, <3>1, <3>2, ProceedIsMinor, FailIsMinor
    <3> QED BY <1>d, <2>0, <2>4, <3>3 DEF VolumeType
  <2> QED BY <1>3, <2>1, <2>2, <2>3, <2>4 DEF createVolume
<1>4. CASE waitForNfsVolumeProvisions(j)
  <2>1. /\ At(j, "waitForNfsVolumeProvisions") /\ volVars' = volVars
        /\ Proceed(j, job[j]) \/ FailWith(j, job[j])
    BY <1>4 DEF waitForNfsVolumeProvisions
  <2>2. Minor(j, Lines)
    BY <1>a, <2>1, ProceedIsMinor, FailIsMinor
  <2> QED BY <1>d, <2>1, <2>2 DEF VolumeType, volVars
<1>5. CASE addVolumesReferences(j)
  <2>1. /\ At(j, "addVolumesReferences") /\ volume' = volume
        /\ \/ /\ Proceed(j, job[j]) /\ refs' = refs \cup {job[j].vm}
              /\ reserved' = reserved \ {job[j].vm}
           \/ FailWith(j, job[j]) /\ refs' = refs /\ reserved' = reserved
    BY <1>5 DEF addVolumesReferences
  <2>2. Minor(j, Lines)
    BY <1>a, <2>1, ProceedIsMinor, FailIsMinor
  <2> QED BY <1>b, <1>d, <2>1, <2>2 DEF VolumeType
<1>6. CASE removeVolumesReferences(j)
  <2>1. /\ At(j, "removeVolumesReferences") /\ Proceed(j, job[j])
        /\ refs' = refs \ {job[j].vm} \/ refs' = refs
        /\ volume' = volume /\ reserved' = reserved
    BY <1>6 DEF removeVolumesReferences
  <2> QED BY <1>a, <1>d, <2>1, ProceedIsMinor DEF VolumeType
<1> QED BY <1>1, <1>2, <1>3, <1>4, <1>5, <1>6 DEF VolumeTasks

VmType == rec \in [Vms -> Recs] /\ zone \in [Vms -> Zones]

\* What VMAPI stores of an instance is a record
LEMMA RecordOfTyped ==
  ASSUME NEW z \in Zones, NEW r \in Recs
  PROVE  RecordOf(z, r) \in Recs
<1>1. CASE z.state = "none"
  BY <1>1 DEF RecordOf, Zones, Recs, RecStates
<1>2. CASE z.state # "none"
  BY <1>2 DEF RecordOf, Zones, Recs, RecStates
<1> QED BY <1>1, <1>2

\* A VM that is not there has the type of one
LEMMA NothingTyped ==
  NoZone \in Zones /\ NoRecord \in Recs
  BY DEF NoZone, NoRecord, Zones, Recs, RecStates, NoServer

\* What a GET with ?sync=true stores is a record
LEMMA AnswerTyped ==
  ASSUME VmType, NEW v \in Vms, NEW r \in Recs
  PROVE  Answer(v, r) \in Recs
<1>1. zone[v] \in Zones
  BY DEF VmType
<1>2. [r EXCEPT !.state = "failed"] \in Recs
  BY DEF Recs, RecStates
<1> QED BY <1>1, <1>2, RecordOfTyped DEF Answer

\* DAPI picks a server for the VM of a create
Allocates(j) ==
    /\ At(j, "getAllocation") /\ queue' = queue /\ rec' = rec
    /\ \E s \in Servers : /\ HasRoom(s)
                          /\ Proceed(j, [job[j] EXCEPT !.server = s])
\* A job queues its task in CNAPI
Starts(j) ==
    /\ queue' = queue /\ rec' = rec
    /\ \E task \in Queueing, x \in JobRecs :
        /\ At(j, task) /\ SameFlow(x, job[j])
        /\ x.server = job[j].server /\ x.task = "queued"
        /\ x.action = "create" <=> job[j].kind = "create"
        /\ x.action = "destroy" <=> job[j].kind = "destroy"
        /\ job[j].kind = "create" => x.taken
        /\ x.mounts = job[j].mounts /\ x.volume = job[j].volume
        /\ x.finished = job[j].finished
        /\ job' = [job EXCEPT ![j] = Next1(x)]

\* What may become of the record of the job's VM.  It says failed from then
\* on where CNAPI did not take the provision
Marks(j) == At(j, "postBack") /\ ~job[j].taken
Records(j) ==
    \E r \in Recs :
        /\ rec' = [rec EXCEPT ![job[j].vm] = r]
        /\ r.state = "failed" =>
             rec[job[j].vm].state = "failed" \/ Marks(j)

\* What VMAPI stores of an instance never says failed
LEMMA RecordOfState ==
  ASSUME NEW z \in Zones, NEW r \in Recs
  PROVE  RecordOf(z, r).state # "failed"
<1>1. CASE z.state = "none"
  BY <1>1 DEF RecordOf, Recs
<1>2. CASE z.state # "none"
  BY <1>2 DEF RecordOf, Zones
<1> QED BY <1>1, <1>2

\* A job that is given a server
LEMMA UpdateServer ==
  ASSUME NEW r \in JobRecs, NEW n \in Servers, NEW x,
         x = [r EXCEPT !.server = n]
  PROVE  /\ x \in JobRecs /\ SameFlow(x, r) /\ x.server = n
         /\ x.task = r.task /\ x.action = r.action /\ x.taken = r.taken
         /\ x.mounts = r.mounts /\ x.volume = r.volume
         /\ x.finished = r.finished
<1>1. /\ x \in JobRecs /\ x.server = n
      /\ x.task = r.task /\ x.action = r.action /\ x.taken = r.taken
      /\ x.volume = r.volume /\ x.finished = r.finished
      /\ x.kind = r.kind /\ x.vm = r.vm /\ x.mode = r.mode /\ x.pc = r.pc
      /\ x.fabric = r.fabric /\ x.mounts = r.mounts
  BY DEF JobRecs
<1> QED BY <1>1, SameSteps DEF SameFlow

\* A job that queues its task
LEMMA UpdateTask ==
  ASSUME NEW r \in JobRecs, NEW a \in AllKinds, NEW x,
         \/ x = Queued(r, a)
         \/ x = [Queued(r, a) EXCEPT !.taken = TRUE]
  PROVE  /\ x \in JobRecs /\ SameFlow(x, r) /\ x.server = r.server
         /\ x.task = "queued" /\ x.action = a
         /\ x = [Queued(r, a) EXCEPT !.taken = TRUE] => x.taken
         /\ x.mounts = r.mounts /\ x.volume = r.volume
         /\ x.finished = r.finished
<1>1. /\ x \in JobRecs /\ x.server = r.server
      /\ x.task = "queued" /\ x.action = a
      /\ x.volume = r.volume /\ x.finished = r.finished
      /\ x = [Queued(r, a) EXCEPT !.taken = TRUE] => x.taken
      /\ x.kind = r.kind /\ x.vm = r.vm /\ x.mode = r.mode /\ x.pc = r.pc
      /\ x.fabric = r.fabric /\ x.mounts = r.mounts
  <2> DEFINE q == Queued(r, a)
  <2>1. /\ q \in JobRecs /\ q.server = r.server /\ q.task = "queued"
        /\ q.action = a /\ q.kind = r.kind /\ q.vm = r.vm
        /\ q.mode = r.mode /\ q.pc = r.pc
        /\ q.fabric = r.fabric /\ q.mounts = r.mounts
        /\ q.volume = r.volume /\ q.finished = r.finished
    BY DEF JobRecs, Queued
  <2> HIDE DEF q
  <2>2. CASE x = q /\ x # [q EXCEPT !.taken = TRUE]
    BY <2>1, <2>2 DEF q
  <2>3. CASE x = [q EXCEPT !.taken = TRUE]
    BY <2>1, <2>3 DEF JobRecs
  <2> QED BY <2>2, <2>3 DEF q
<1> QED BY <1>1, SameSteps DEF SameFlow

\* The tasks on the VM: minor steps, allocations, and tasks for CNAPI;
\* each changes at most the record of the job's own VM
LEMMA VmStep ==
  ASSUME JobType, QueueType, UsedType, VmType, NEW j \in Jobs, OfVm(j)
  PROVE  /\ UsedType' /\ VmType' /\ QueueTyped /\ LeavesOther
         /\ zone' = zone /\ Records(j)
         /\ Minor(j, Lines) \/ Allocates(j) \/ Starts(j)
<1> USE DEF Lines
<1>a. /\ job[j] \in JobRecs /\ SameFlow(job[j], job[j])
      /\ SameKey(job[j], job[j])
  BY SameAsItself
<1>b. /\ job[j].vm \in Vms /\ rec[job[j].vm] \in Recs
      /\ zone[job[j].vm] \in Zones /\ job[j].kind \in AllKinds
      /\ job[j].server \in Servers \cup {NoServer}
      /\ job[j].finished \in Zones /\ job[j].nics \subseteq Nics
  BY <1>a, WorkflowsAssumption DEF VmType, JobRecs
<1>c. queue' = queue /\ used' = used /\ zone' = zone
  BY DEF OfVm, getAllocation, putVmInMoray, refreshVmOnError, createJob,
         ensureVmState, zoneAction, markVmAsDestroyed, stopForRollback,
         provision, waitTask, checkUpdated, putVm, postBack, refreshVm
<1>d. UsedType' /\ QueueTyped /\ LeavesOther
  BY <1>c, CountsTyped, NatQueue
<1>e. ASSUME NEW r \in Recs, rec' = [rec EXCEPT ![job[j].vm] = r],
             r.state = "failed" =>
                rec[job[j].vm].state = "failed" \/ Marks(j)
      PROVE  VmType' /\ Records(j)
  BY <1>c, <1>e DEF VmType, Records
<1>f. rec' = rec => VmType' /\ Records(j)
  <2>1. rec = [rec EXCEPT ![job[j].vm] = rec[job[j].vm]]
    BY DEF VmType
  <2> QED BY <1>b, <1>c, <2>1 DEF VmType, Records
<1>1. CASE getAllocation(j)
  <2>1. rec' = rec
    BY <1>1 DEF getAllocation
  <2>2. CASE FailWith(j, job[j])
    BY <1>1, <1>a, <1>c, <1>d, <1>f, <2>1, <2>2, FailIsMinor
       DEF getAllocation
  <2>3. CASE ~FailWith(j, job[j])
    BY <1>1, <1>c, <1>d, <1>f, <2>1, <2>3 DEF getAllocation, Allocates
  <2> QED BY <2>2, <2>3
<1>2. CASE putVmInMoray(j)
  <2> DEFINE r == [state |-> "provisioning", server |-> job[j].server,
                   nics |-> {}, mod |-> 0]
  <2>1. /\ At(j, "putVmInMoray") /\ Proceed(j, job[j])
        /\ rec' = [rec EXCEPT ![job[j].vm] = r]
    BY <1>2 DEF putVmInMoray
  <2>2. r \in Recs /\ r.state # "failed"
    BY <1>b DEF Recs, RecStates
  <2> HIDE DEF r
  <2>3. VmType' /\ Records(j)
    BY <1>e, <2>1, <2>2
  <2> QED BY <1>a, <1>c, <1>d, <2>1, <2>3, ProceedIsMinor
<1>3. CASE refreshVmOnError(j)
  <2> DEFINE n == [NoRecord EXCEPT !.server = job[j].server]
             r == RecordOf(zone[job[j].vm], n)
  <2>1. /\ At(j, "refreshVmOnError") /\ Proceed(j, job[j])
        /\ rec' = [rec EXCEPT ![job[j].vm] = r]
    BY <1>3 DEF refreshVmOnError
  <2>2. n \in Recs
    BY <1>b, NothingTyped DEF Recs
  <2>3. r \in Recs /\ r.state # "failed"
    BY <1>b, <2>2, RecordOfTyped, RecordOfState
  <2> HIDE DEF r
  <2>4. VmType' /\ Records(j)
    BY <1>e, <2>1, <2>3
  <2> QED BY <1>a, <1>c, <1>d, <2>1, <2>4, ProceedIsMinor
<1>4. CASE createJob(j)
  <2>1. At(j, "createJob") /\ Proceed(j, job[j]) /\ rec' = rec
    BY <1>4 DEF createJob
  <2> QED BY <1>a, <1>c, <1>d, <1>f, <2>1, ProceedIsMinor
<1>5. CASE ensureVmState(j)
  <2>1. /\ At(j, "ensureVmState") /\ rec' = rec
        /\ Proceed(j, job[j]) \/ FailWith(j, job[j])
    BY <1>5 DEF ensureVmState
  <2>2. Minor(j, Lines)
    BY <1>a, <2>1, ProceedIsMinor, FailIsMinor
  <2> QED BY <1>c, <1>d, <1>f, <2>1, <2>2
<1>6. CASE zoneAction(j)
  <2> DEFINE x == Queued(job[j], job[j].kind)
  <2>1. At(j, "zoneAction") /\ Proceed(j, x) /\ rec' = rec
    BY <1>6 DEF zoneAction
  <2>2. job[j].kind # "create"
    BY <2>1, TaskPlaces, AtOK
       DEF RequestTasks, CleanupTasks, EndTasks, ChainGood
  <2>3. /\ x \in JobRecs /\ SameFlow(x, job[j]) /\ x.server = job[j].server
        /\ x.task = "queued" /\ x.action = job[j].kind
        /\ x.mounts = job[j].mounts /\ x.volume = job[j].volume
        /\ x.finished = job[j].finished
    BY <1>a, <1>b, UpdateTask
  <2> HIDE DEF x
  <2>4. Starts(j)
    BY <1>c, <2>1, <2>2, <2>3 DEF Starts, Queueing, Proceed
  <2> QED BY <1>c, <1>d, <1>f, <2>1, <2>4
<1>7. CASE stopForRollback(j)
  <2> DEFINE x == Queued(job[j], "stop")
  <2>1. /\ At(j, "stopForRollback") /\ rec' = rec
        /\ Proceed(j, x) \/ Proceed(j, job[j])
    BY <1>7 DEF stopForRollback
  <2>2. job[j].kind \notin {"create", "destroy"}
    BY <2>1, TaskPlaces, AtOK
       DEF RequestTasks, CleanupTasks, EndTasks, ChainGood
  <2>3. /\ x \in JobRecs /\ SameFlow(x, job[j]) /\ x.server = job[j].server
        /\ x.task = "queued" /\ x.action = "stop"
        /\ x.mounts = job[j].mounts /\ x.volume = job[j].volume
        /\ x.finished = job[j].finished
    <3>1. "stop" \in AllKinds
      BY DEF AllKinds, ActionKinds
    <3> QED BY <1>a, <3>1, UpdateTask
  <2> HIDE DEF x
  <2>4. CASE Proceed(j, x)
    <3>1. Starts(j)
      BY <1>c, <2>1, <2>2, <2>3, <2>4 DEF Starts, Queueing, Proceed
    <3> QED BY <1>c, <1>d, <1>f, <2>1, <3>1
  <2>5. CASE Proceed(j, job[j])
    BY <1>a, <1>c, <1>d, <1>f, <2>1, <2>5, ProceedIsMinor
  <2> QED BY <2>1, <2>4, <2>5
<1>8. CASE provision(j)
  <2> DEFINE x == [Queued(job[j], "create") EXCEPT !.taken = TRUE]
  <2>1. At(j, "provision") /\ Proceed(j, x) /\ rec' = rec
    BY <1>8 DEF provision
  <2>2. job[j].kind = "create"
    BY <2>1, TaskPlaces, AtOK
       DEF RequestTasks, CleanupTasks, EndTasks, ChainGood
  <2>3. /\ x \in JobRecs /\ SameFlow(x, job[j]) /\ x.server = job[j].server
        /\ x.task = "queued" /\ x.action = "create" /\ x.taken
        /\ x.mounts = job[j].mounts /\ x.volume = job[j].volume
        /\ x.finished = job[j].finished
    BY <1>a, <1>b, <2>2, UpdateTask
  <2> HIDE DEF x
  <2>4. Starts(j)
    BY <1>c, <2>1, <2>2, <2>3 DEF Starts, Queueing, Proceed
  <2> QED BY <1>c, <1>d, <1>f, <2>1, <2>4
<1>9. CASE waitTask(j)
  <2>1. /\ At(j, "waitTask") /\ rec' = rec
        /\ Proceed(j, job[j]) \/ FailWith(j, job[j])
    BY <1>9 DEF waitTask
  <2>2. Minor(j, Lines)
    BY <1>a, <2>1, ProceedIsMinor, FailIsMinor
  <2> QED BY <1>c, <1>d, <1>f, <2>1, <2>2
<1>10. CASE checkUpdated(j)
  <2>1. At(j, "checkUpdated") /\ Proceed(j, job[j]) /\ rec' = rec
    BY <1>10 DEF checkUpdated
  <2> QED BY <1>a, <1>c, <1>d, <1>f, <2>1, ProceedIsMinor
<1>11. CASE putVm(j)
  <2> DEFINE r == RecordOf(job[j].finished, rec[job[j].vm])
  <2>1. /\ At(j, "putVm") /\ Proceed(j, job[j])
        /\ rec' = [rec EXCEPT ![job[j].vm] = r]
    BY <1>11 DEF putVm
  <2>2. r \in Recs /\ r.state # "failed"
    BY <1>b, RecordOfTyped, RecordOfState
  <2> HIDE DEF r
  <2>3. VmType' /\ Records(j)
    BY <1>e, <2>1, <2>2
  <2> QED BY <1>a, <1>c, <1>d, <2>1, <2>3, ProceedIsMinor
<1>12. CASE postBack(j)
  <2> DEFINE r == [rec[job[j].vm] EXCEPT !.state = "failed",
                                         !.nics = job[j].nics]
  <2>1. /\ At(j, "postBack") /\ Proceed(j, job[j])
        /\ \/ rec' = rec
           \/ /\ ~job[j].taken
              /\ rec' = [rec EXCEPT ![job[j].vm].state = "failed",
                                    ![job[j].vm].nics = job[j].nics]
    BY <1>12 DEF postBack
  <2>2. \/ rec' = rec
        \/ Marks(j) /\ rec' = [rec EXCEPT ![job[j].vm] = r]
    BY <1>b, <2>1 DEF VmType, Marks
  <2>3. r \in Recs
    BY <1>b DEF Recs, RecStates
  <2> HIDE DEF r
  <2>4. VmType' /\ Records(j)
    BY <1>e, <1>f, <2>2, <2>3
  <2> QED BY <1>a, <1>c, <1>d, <2>1, <2>4, ProceedIsMinor
<1>13. CASE refreshVm(j)
  <2>1. At(j, "refreshVm") /\ Proceed(j, job[j]) /\ rec' = rec
    BY <1>13 DEF refreshVm
  <2> QED BY <1>a, <1>c, <1>d, <1>f, <2>1, ProceedIsMinor
<1>14. CASE markVmAsDestroyed(j)
  <2> DEFINE r == [state |-> "destroyed", server |-> job[j].server,
                   nics |-> job[j].nics, mod |-> job[j].mod]
  <2>1. /\ At(j, "markVmAsDestroyed") /\ Proceed(j, job[j])
        /\ rec' = rec \/ rec' = [rec EXCEPT ![job[j].vm] = r]
    BY <1>14 DEF markVmAsDestroyed
  <2>2. r \in Recs /\ r.state # "failed"
    BY <1>a, <1>b DEF Recs, RecStates, JobRecs
  <2> HIDE DEF r
  <2>3. VmType' /\ Records(j)
    BY <1>e, <1>f, <2>1, <2>2
  <2> QED BY <1>a, <1>c, <1>d, <2>1, <2>3, ProceedIsMinor
<1> QED
  BY <1>1, <1>2, <1>3, <1>4, <1>5, <1>6, <1>7, <1>8, <1>9, <1>10, <1>11,
     <1>12, <1>13, <1>14 DEF OfVm

-----------------------------------------------------------------------------
(* What else may happen: CNAPI, faults, expiries and requests.              *)
\* What the agent makes of an instance: only a create gives it a server,
\* and only a destroy takes it away
LEMMA AfterTyped ==
  ASSUME NEW z \in Zones, NEW r \in JobRecs
  PROVE  /\ After(z, r) \in Zones
         /\ r.action = "create" =>
              /\ After(z, r).state = "running"
              /\ After(z, r).server = r.server
              /\ After(z, r).volume = r.volume
         /\ r.action = "destroy" =>
              After(z, r) = [NoZone EXCEPT !.mod = z.mod + 1]
         /\ r.action \notin {"create", "destroy"} =>
              /\ After(z, r).server = z.server
              /\ After(z, r).volume = z.volume
              /\ z.state # "none" => After(z, r).state # "none"
<1> DEFINE y == After(z, r)
<1>0. /\ r.nics \subseteq Nics /\ r.volume \in Nat
      /\ r.server \in Servers \cup {NoServer}
  BY DEF JobRecs
<1> DEFINE n == z.mod + 1
<1>n. n \in Nat
  BY DEF Zones
<1>1. CASE r.action \in {"start", "reboot", "rollback"}
  <2>1. y = [z EXCEPT !.state = "running", !.mod = n]
    BY <1>1 DEF After
  <2> HIDE DEF y, n
  <2>2. y \in Zones /\ y.server = z.server /\ y.volume = z.volume
        /\ y.state = "running"
    BY <1>n, <2>1 DEF Zones
  <2> QED BY <1>1, <2>2 DEF y
<1>2. CASE r.action \in {"stop", "kill"}
  <2>1. y = [z EXCEPT !.state = "stopped", !.mod = n]
    BY <1>2 DEF After
  <2> HIDE DEF y, n
  <2>2. y \in Zones /\ y.server = z.server /\ y.volume = z.volume
        /\ y.state = "stopped"
    BY <1>n, <2>1 DEF Zones
  <2> QED BY <1>2, <2>2 DEF y
<1>3. CASE r.action = "addNics"
  <2>1. y = [z EXCEPT !.nics = z.nics \cup r.nics, !.mod = n]
    BY <1>3 DEF After
  <2> HIDE DEF y, n
  <2>2. y \in Zones /\ y.server = z.server /\ y.volume = z.volume
        /\ y.state = z.state
    BY <1>0, <1>n, <2>1 DEF Zones
  <2> QED BY <1>3, <2>2 DEF y
<1>4. CASE r.action = "removeNics"
  <2>1. y = [z EXCEPT !.nics = z.nics \ r.nics, !.mod = n]
    BY <1>4 DEF After
  <2> HIDE DEF y, n
  <2>2. y \in Zones /\ y.server = z.server /\ y.volume = z.volume
        /\ y.state = z.state
    BY <1>n, <2>1 DEF Zones
  <2> QED BY <1>4, <2>2 DEF y
<1>5. CASE r.action = "destroy"
  <2>1. y = [NoZone EXCEPT !.mod = n]
    BY <1>5 DEF After
  <2> HIDE DEF y, n
  <2>3. y \in Zones
    BY <1>n, <2>1 DEF Zones, NoZone, NoServer
  <2> QED BY <1>5, <2>1, <2>3 DEF y, n
<1>6. CASE r.action = "create"
  <2>1. y = [state |-> "running", server |-> r.server, nics |-> r.nics,
             volume |-> r.volume, mod |-> n]
    BY <1>6 DEF After
  <2> HIDE DEF y, n
  <2>2. y \in Zones /\ y.server = r.server /\ y.volume = r.volume
        /\ y.state = "running"
    BY <1>0, <1>n, <2>1 DEF Zones
  <2> QED BY <1>6, <2>2 DEF y
<1>7. CASE r.action \notin {"start", "reboot", "rollback", "stop", "kill",
                            "addNics", "removeNics", "destroy", "create"}
  <2>1. y = [z EXCEPT !.mod = n]
    BY <1>7 DEF After
  <2> HIDE DEF y, n
  <2>2. y \in Zones /\ y.server = z.server /\ y.volume = z.volume
        /\ y.state = z.state
    BY <1>n, <2>1 DEF Zones
  <2> QED BY <1>7, <2>2 DEF y
<1> QED BY <1>1, <1>2, <1>3, <1>4, <1>5, <1>6, <1>7

(* CNAPI is done with the task of a job, with or without success.           *)
Finishes(j) ==
    /\ job[j].task = "queued"
    /\ queue' = queue /\ rec' = rec
    /\ \E x \in JobRecs :
        /\ SameFlow(x, job[j]) /\ x.server = job[j].server
        /\ x.action = job[j].action /\ x.taken = job[j].taken
        /\ x.mounts = job[j].mounts /\ x.volume = job[j].volume
        /\ job' = [job EXCEPT ![j] = x]
        /\ \/ /\ x.task = "failure" /\ x.finished = job[j].finished
              /\ zone' = zone
           \/ /\ x.task = "complete"
              /\ x.finished = After(zone[job[j].vm], job[j])
              /\ HasZone(job[j].vm) # (job[j].action = "create")
              /\ zone' = [zone EXCEPT ![job[j].vm] =
                            After(zone[job[j].vm], job[j])]

\* A job whose task CNAPI has carried out
LEMMA UpdateFinished ==
  ASSUME NEW r \in JobRecs, NEW z \in Zones, NEW x,
         x = [r EXCEPT !.task = "complete", !.finished = z]
  PROVE  /\ x \in JobRecs /\ SameFlow(x, r) /\ x.server = r.server
         /\ x.action = r.action /\ x.taken = r.taken
         /\ x.mounts = r.mounts /\ x.volume = r.volume
         /\ x.task = "complete" /\ x.finished = z
<1>1. /\ x \in JobRecs /\ x.server = r.server
      /\ x.action = r.action /\ x.taken = r.taken
      /\ x.kind = r.kind /\ x.vm = r.vm /\ x.mode = r.mode /\ x.pc = r.pc
      /\ x.fabric = r.fabric /\ x.mounts = r.mounts
      /\ x.task = "complete"
  BY DEF JobRecs
<1>2. x.volume = r.volume /\ x.finished = z
  BY DEF JobRecs
<1> QED BY <1>1, <1>2, SameSteps DEF SameFlow

\* A job whose task has failed in CNAPI
LEMMA UpdateFailed ==
  ASSUME NEW r \in JobRecs, NEW x,
         x = [r EXCEPT !.task = "failure"]
  PROVE  /\ x \in JobRecs /\ SameFlow(x, r) /\ x.server = r.server
         /\ x.action = r.action /\ x.taken = r.taken
         /\ x.mounts = r.mounts /\ x.volume = r.volume
         /\ x.task = "failure" /\ x.finished = r.finished
<1>1. /\ x \in JobRecs /\ x.server = r.server
      /\ x.action = r.action /\ x.taken = r.taken
      /\ x.kind = r.kind /\ x.vm = r.vm /\ x.mode = r.mode /\ x.pc = r.pc
      /\ x.fabric = r.fabric /\ x.mounts = r.mounts
      /\ x.task = "failure"
  BY DEF JobRecs
<1>2. x.volume = r.volume /\ x.finished = r.finished
  BY DEF JobRecs
<1> QED BY <1>1, <1>2, SameSteps DEF SameFlow

\* CNAPI ends the task of a job
LEMMA CnapiStep ==
  ASSUME JobType, QueueType, UsedType, VmType, NEW j \in Jobs, CnapiRuns(j)
  PROVE  Finishes(j) /\ UsedType' /\ VmType' /\ QueueTyped
<1> DEFINE r == job[j]
           z == After(zone[r.vm], r)
<1>1. r \in JobRecs /\ r.vm \in Vms /\ zone[r.vm] \in Zones
  BY JobTyped DEF VmType, JobRecs
<1>2. z \in Zones
  BY <1>1, AfterTyped
<1>3. /\ r.task = "queued" /\ queue' = queue /\ rec' = rec
      /\ used' = used \/ used' = [used EXCEPT !.faults = @ + 1]
  BY DEF CnapiRuns
<1>4. \/ /\ HasZone(r.vm) # (r.action = "create")
         /\ zone' = [zone EXCEPT ![r.vm] = z]
         /\ job' = [job EXCEPT ![j].task = "complete", ![j].finished = z]
      \/ zone' = zone /\ job' = [job EXCEPT ![j].task = "failure"]
  BY DEF CnapiRuns
<1> HIDE DEF z
<1>5. CASE zone' = zone /\ job' = [job EXCEPT ![j].task = "failure"]
  <2> DEFINE x == [r EXCEPT !.task = "failure"]
  <2>1. job' = [job EXCEPT ![j] = x]
    BY <1>5 DEF JobType
  <2>2. /\ x \in JobRecs /\ SameFlow(x, r) /\ x.server = r.server
        /\ x.action = r.action /\ x.taken = r.taken
        /\ x.mounts = r.mounts /\ x.volume = r.volume
        /\ x.task = "failure" /\ x.finished = r.finished
    BY <1>1, <1>2, UpdateFailed
  <2> HIDE DEF x
  <2>3. Finishes(j)
    BY <1>3, <1>5, <2>1, <2>2 DEF Finishes
  <2>4. VmType'
    BY <1>3, <1>5 DEF VmType
  <2> QED BY <1>3, <2>3, <2>4, CountsTyped DEF QueueTyped, QueueType
<1>6. CASE /\ HasZone(r.vm) # (r.action = "create")
           /\ zone' = [zone EXCEPT ![r.vm] = z]
           /\ job' = [job EXCEPT ![j].task = "complete", ![j].finished = z]
  <2> DEFINE x == [r EXCEPT !.task = "complete", !.finished = z]
  <2>1. job' = [job EXCEPT ![j] = x]
    BY <1>6 DEF JobType
  <2>2. /\ x \in JobRecs /\ SameFlow(x, r) /\ x.server = r.server
        /\ x.action = r.action /\ x.taken = r.taken
        /\ x.mounts = r.mounts /\ x.volume = r.volume
        /\ x.task = "complete" /\ x.finished = z
    BY ZenonT(60), <1>1, <1>2, UpdateFinished
  <2> HIDE DEF x
  <2>3. Finishes(j)
    BY <1>3, <1>6, <2>1, <2>2 DEF Finishes, z
  <2>4. VmType'
    BY <1>1, <1>2, <1>3, <1>6 DEF VmType
  <2> QED BY <1>3, <2>3, <2>4, CountsTyped DEF QueueTyped, QueueType
<1> QED BY <1>4, <1>5, <1>6

\* A task that fails by itself is a minor step that takes no ticket
LEMMA FaultStep ==
  ASSUME JobType, QueueType, UsedType, NEW j \in Jobs, TaskFails(j)
  PROVE  Minor(j, Stages) /\ UsedType' /\ QueueTyped /\ queue' = queue
<1>1. PICK task \in FailingTasks :
        /\ At(j, task)
        /\ IF task \in NeverFail THEN Proceed(j, job[j])
                                 ELSE FailWith(j, job[j])
  BY DEF TaskFails
<1>2. queue' = queue /\ used' = [used EXCEPT !.faults = @ + 1]
  BY DEF TaskFails
<1>3. task \in NeverFail => task \notin Stages
  BY DEF NeverFail, Lines, Makings, Stages
<1>4. Minor(j, Stages)
  BY <1>1, <1>3, SameAsItself, ProceedIsMinor, FailIsMinor
<1> QED BY <1>2, <1>4, CountsTyped DEF QueueTyped, QueueType

\* Canceling a job keeps the types
LEMMA CancelStep ==
  ASSUME JobType, QueueType, UsedType, NEW j \in Jobs, CancelJob(j)
  PROVE  /\ JobType' /\ Jobs' = Jobs /\ UsedType' /\ QueueTyped
         /\ used.cancels < MaxCancels
<1>1. /\ job' = [job EXCEPT ![j] = Enter(job[j], "oncancel")]
      /\ queue' = queue /\ used' = [used EXCEPT !.cancels = @ + 1]
      /\ used.cancels < MaxCancels
  BY DEF CancelJob, JobType
<1>2. "oncancel" \in Modes
  BY DEF Modes
<1>3. Enter(job[j], "oncancel") \in JobRecs /\ PcOK(Enter(job[j], "oncancel"))
  BY <1>2, JobTyped, EnterOK
<1> QED
  BY <1>1, <1>3, MoveTyped, CountsTyped DEF QueueTyped, QueueType

\* A lost answer of CNAPI keeps the types
LEMMA LostStep ==
  ASSUME JobType, QueueType, UsedType, NEW j \in Jobs, AnswerLost(j)
  PROVE  /\ JobType' /\ Jobs' = Jobs /\ UsedType' /\ QueueTyped
         /\ "answer" \in FailingTasks
<1> DEFINE x == Queued(job[j], job[j].kind)
<1>1. PICK task : At(j, task) /\ FailWith(j, x)
  BY DEF AnswerLost
<1>2. /\ queue' = queue /\ used' = [used EXCEPT !.faults = @ + 1]
      /\ "answer" \in FailingTasks
  BY DEF AnswerLost
<1>3. job[j] \in JobRecs /\ PcOK(job[j]) /\ job[j].kind \in AllKinds
  BY JobTyped, WorkflowsAssumption DEF JobRecs
<1>4. x \in JobRecs /\ SameFlow(x, job[j])
  BY <1>3, UpdateTask
<1> HIDE DEF x
<1>5. PcOK(x) /\ x.mode # "ended"
  BY <1>1, <1>3, <1>4, AtOK DEF PcOK, SameFlow
<1>6. Failed(x) \in JobRecs /\ PcOK(Failed(x))
  BY <1>4, <1>5, FailedOK
<1>7. job' = [job EXCEPT ![j] = Failed(x)]
  BY <1>1 DEF FailWith
<1> QED
  BY <1>2, <1>6, <1>7, MoveTyped, CountsTyped DEF QueueTyped, QueueType

\* A request is taken: the VM is loaded and a new process begins
Asks(r) ==
    /\ Len(job) < MaxJobs /\ job' = Append(job, r)
    /\ r \in JobRecs /\ r.mode = "request" /\ r.pc = 1 /\ r.task = "none"
    /\ ~r.taken /\ r.volume = Unknown
    /\ r.kind = "create" => /\ rec[r.vm].state = "absent"
                            /\ \A j \in Jobs : job[j].vm # r.vm
    /\ r.kind = "destroy" /\ r.mounts => rec[r.vm].mod # 0
    /\ r.kind \notin {"create", "destroy"} =>
         rec[r.vm].state \notin {"absent", "provisioning"}
    /\ queue' = queue /\ used' = used /\ nicVars' = nicVars
    /\ volVars' = volVars /\ rec' = rec /\ zone' = zone

\* A new request has the type of a job
LEMMA NewJobTyped ==
  ASSUME VmType, NEW kind \in Kinds, NEW v \in Vms, NEW net \in Networks,
         NEW nics \in SUBSET Nics, NEW r, r = NewJob(kind, v, net, nics)
  PROVE  /\ r \in JobRecs /\ r.mode = "request" /\ r.pc = 1
         /\ r.task = "none" /\ r.kind = kind /\ r.vm = v
         /\ ~r.taken /\ r.volume = Unknown
         /\ kind # "create" /\ r.mounts => rec[v].mod # 0
<1>1. rec[v] \in Recs /\ NoZone \in Zones /\ kind \in AllKinds
  BY NothingTyped, WorkflowsAssumption DEF VmType
<1>2. /\ rec[v].server \in Servers \cup {NoServer}
      /\ rec[v].state \in RecStates /\ rec[v].mod \in Nat
      /\ WaitsGiveUp \in BOOLEAN
  BY <1>1, VmJobsAssumption DEF Recs
<1>3. r \in JobRecs
  BY <1>1, <1>2 DEF NewJob, JobRecs, Modes, Unknown
<1>4. /\ r.mode = "request" /\ r.pc = 1 /\ r.task = "none"
      /\ r.kind = kind /\ r.vm = v /\ ~r.taken /\ r.volume = Unknown
      /\ kind # "create" /\ r.mounts => rec[v].mod # 0
  BY DEF NewJob
<1> QED BY <1>3, <1>4

\* A request adds a job, and changes nothing of the others
LEMMA AskStep ==
  ASSUME JobType, QueueType, NEW r, Asks(r)
  PROVE  /\ JobType' /\ Jobs' = Jobs \cup {Len(job) + 1}
         /\ Len(job) + 1 \notin Jobs
         /\ job'[Len(job) + 1] = r /\ \A j \in Jobs : job'[j] = job[j]
         /\ QueueType'
<1>1. /\ job \in Seq(JobRecs) /\ Jobs = 1..Len(job) /\ Len(job) \in Nat
      /\ MaxJobs \in Nat
  BY WorkflowsAssumption DEF JobType, Jobs
<1>2. /\ job' = Append(job, r) /\ r \in JobRecs /\ r.mode = "request"
      /\ r.pc = 1 /\ queue' = queue /\ Len(job) < MaxJobs
  BY DEF Asks
<1>3. /\ job' \in Seq(JobRecs) /\ Len(job') = Len(job) + 1
      /\ job'[Len(job) + 1] = r /\ \A j \in Jobs : job'[j] = job[j]
  BY <1>1, <1>2
<1>4. Jobs' = 1..(Len(job) + 1)
  BY <1>1, <1>3 DEF Jobs
<1>5. PcOK(r)
  <2>1. Len(Steps(r)) \in Nat /\ Len(Steps(r)) > 0
    BY <1>2, StepsAre DEF StepsGood
  <2> QED BY <1>2, <2>1 DEF PcOK
<1>6. ASSUME NEW j \in Jobs'
      PROVE  PcOK(job'[j])
  BY <1>1, <1>3, <1>4, <1>5 DEF JobType
<1>7. QueueType'
  <2>1. \A q \in Seq(Jobs) : q \in Seq(Jobs')
    BY <1>1, <1>4
  <2> QED BY <1>2, <2>1 DEF QueueType, Scopes
<1> QED BY <1>1, <1>2, <1>3, <1>4, <1>6, <1>7 DEF JobType

\* What the users of the API do
LEMMA UserStep ==
  ASSUME JobType, UsedType, VmType, VolumeType, Users
  PROVE  \/ \E r : Asks(r)
         \/ \E v \in Vms : SyncGet(v)
         \/ DeleteVolume /\ nicVars' = nicVars /\ rec' = rec /\ zone' = zone
<1>1. ASSUME NEW kind, NEW v \in Vms, NEW net \in Networks,
             NEW nics \in SUBSET Nics, Request(kind, v, net, nics),
             kind = "create" => /\ rec[v].state = "absent"
                                /\ \A j \in Jobs : job[j].vm # v,
             kind \notin {"create", "destroy"} =>
               rec[v].state \notin {"absent", "provisioning"}
      PROVE  \E r : Asks(r)
  <2> DEFINE r == NewJob(kind, v, net, nics)
  <2>1. kind \in Kinds
    BY <1>1 DEF Request
  <2>a. r = NewJob(kind, v, net, nics)
    OBVIOUS
  <2>b. job' = Append(job, r)
    BY <1>1 DEF Request
  <2> HIDE DEF r
  <2>2. /\ r \in JobRecs /\ r.mode = "request" /\ r.pc = 1
        /\ r.task = "none" /\ r.kind = kind /\ r.vm = v /\ ~r.taken
        /\ r.volume = Unknown
        /\ kind # "create" /\ r.mounts => rec[v].mod # 0
    <3>1. VmType /\ kind \in Kinds /\ v \in Vms /\ net \in Networks
          /\ nics \in SUBSET Nics
      BY <2>1
    <3>2. r \in JobRecs
      BY <2>a, <3>1, NewJobTyped
    <3> QED BY <2>a, <3>1, NewJobTyped
  <2>3. /\ Len(job) < MaxJobs
        /\ queue' = queue /\ used' = used /\ nicVars' = nicVars
        /\ volVars' = volVars /\ rec' = rec /\ zone' = zone
    BY <1>1 DEF Request
  <2> QED BY <1>1, <2>b, <2>2, <2>3 DEF Asks
<1>2. 1 \in Networks /\ {} \in SUBSET Nics
  BY DEF Networks
<1>3. ASSUME NEW kind, NEW v \in Vms, NEW net \in Networks,
             NEW nics \in SUBSET Nics, updateVm(kind, v, net, nics),
             kind # "create"
      PROVE  \E r : Asks(r)
  BY <1>1, <1>3 DEF updateVm
<1>4. ASSUME NEW v \in Vms, createVm(v)
      PROVE  \E r : Asks(r)
  BY <1>1, <1>2, <1>4 DEF createVm
<1>5. ASSUME NEW v \in Vms, deleteVm(v)
      PROVE  \E r : Asks(r)
  <2>1. rec[v].nics \in SUBSET Nics
    BY DEF VmType, Recs
  <2> QED BY <1>1, <1>2, <1>5, <2>1 DEF deleteVm
<1>6. ASSUME NEW v \in Vms,
             \/ changeVm(v) \/ startVm(v) \/ stopVm(v) \/ killVm(v)
             \/ rebootVm(v) \/ reprovisionVm(v) \/ createSnapshot(v)
             \/ deleteSnapshot(v) \/ rollbackSnapshot(v)
      PROVE  \E r : Asks(r)
  BY <1>2, <1>3, <1>6
     DEF changeVm, startVm, stopVm, killVm, rebootVm, reprovisionVm,
         createSnapshot, deleteSnapshot, rollbackSnapshot
<1>7. ASSUME NEW v \in Vms, NEW net \in Networks,
             addNics(v, net) \/ updateNics(v, net) \/ removeNicsOfVm(v, net)
      PROVE  \E r : Asks(r)
  <2>1. {<<v, net>>} \in SUBSET Nics
    BY DEF Nics
  <2> QED BY <1>2, <1>3, <1>7, <2>1 DEF addNics, updateNics, removeNicsOfVm
<1>8. CASE DeleteVolume /\ UNCHANGED <<nicVars, rec, zone, gets>>
  BY <1>8
<1>9. CASE ~(DeleteVolume /\ UNCHANGED <<nicVars, rec, zone, gets>>)
  <2>1. PICK v \in Vms :
        \/ createVm(v) \/ deleteVm(v) \/ changeVm(v) \/ SyncGet(v)
        \/ startVm(v) \/ stopVm(v) \/ killVm(v) \/ rebootVm(v)
        \/ reprovisionVm(v)
        \/ createSnapshot(v) \/ deleteSnapshot(v) \/ rollbackSnapshot(v)
        \/ \E net \in Networks :
            addNics(v, net) \/ updateNics(v, net) \/ removeNicsOfVm(v, net)
    BY <1>9 DEF Users
  <2> QED BY <1>4, <1>5, <1>6, <1>7, <2>1
<1> QED BY <1>8, <1>9

-----------------------------------------------------------------------------
(* All the steps, by what they do to the jobs, the queues and the instances.*)
\* A ticket that is due goes
Expires ==
    /\ \E scope \in Scopes, j \in Jobs :
        /\ queue' = Without(scope, j)
        /\ Ended(j) \/ ExpireHeld
    /\ job' = job /\ zone' = zone /\ rec' = rec

\* A job stays where it awaits its task in CNAPI, and gets there
Waits(j) ==
    /\ At(j, "waitTask") /\ job[j].task = "queued"
         => SameFlow(job'[j], job[j])
    /\ At(j, "removeNics") \/ At(j, "markVmAsDestroyed")
         => SameFlow(job'[j], job[j]) \/ job'[j] = Next1(job[j])

\* VMAPI looks at the VM itself: it hears of it from vm-agent, or ends a GET
Refreshes ==
    \E v \in Vms, r \in Recs :
        /\ rec' = [rec EXCEPT ![v] = r]
        /\ r.state = "failed" => gets[v].step = "answered"
                                /\ r = gets[v].found

Move ==
    \/ \E j \in Jobs : TicketTasks(j) /\ zone' = zone /\ rec' = rec
    \/ \E j \in Jobs : Minor(j, Lines) /\ Waits(j) /\ LeavesOther
                       /\ zone' = zone /\ (rec' = rec \/ Records(j))
    \/ \E j \in Jobs : TaskFails(j) /\ zone' = zone /\ rec' = rec
    \/ \E j \in Jobs : LooksAtNics(j) /\ LeavesOther
                       /\ zone' = zone /\ rec' = rec
    \/ \E j \in Jobs : Allocates(j) /\ zone' = zone
    \/ \E j \in Jobs : Starts(j) /\ zone' = zone
    \/ \E j \in Jobs : Finishes(j)
    \/ \E j \in Jobs : CancelJob(j) \/ AnswerLost(j)
    \/ \E r : Asks(r)
    \/ Expires
    \/ job' = job /\ queue' = queue /\ zone' = zone
       /\ (rec' = rec \/ Refreshes)

TypeInvParts ==
    JobType /\ QueueType /\ UsedType /\ NicType /\ VolumeType /\ VmType
\* The type invariant by the parts of the state
GetType == gets \in [Vms -> Gets]
LEMMA TypeInvIs ==
  TypeInv <=> TypeInvParts /\ GetType
  BY DEF TypeInv, TypeInvParts, JobType, QueueType, UsedType, NicType,
         VolumeType, VmType, GetType

\* What an allocation makes of the jobs
LEMMA AllocatesTyped ==
  ASSUME JobType, NEW j \in Jobs, Allocates(j)
  PROVE  \E n \in Servers : \E x, s \in JobRecs :
            /\ HasRoom(n) /\ x.server = n
            /\ SameFlow(x, job[j]) /\ x.task = job[j].task
            /\ x.action = job[j].action /\ x.taken = job[j].taken
            /\ x.mounts = job[j].mounts /\ x.volume = job[j].volume
            /\ x.finished = job[j].finished
            /\ PcOK(x) /\ x.mode # "ended"
            /\ Steps(job[j])[job[j].pc] = "getAllocation"
            /\ s = Next1(x) /\ PcOK(s) /\ SameData(s, x)
            /\ JobType' /\ Jobs' = Jobs
            /\ job'[j] = s /\ \A i \in Jobs : i # j => job'[i] = job[i]
<1>1. PICK n \in Servers : /\ HasRoom(n)
                           /\ Proceed(j, [job[j] EXCEPT !.server = n])
  BY DEF Allocates
<1> DEFINE x == [job[j] EXCEPT !.server = n]
<1>2. job[j] \in JobRecs /\ PcOK(job[j])
  BY JobTyped
<1>3. /\ x \in JobRecs /\ SameFlow(x, job[j]) /\ x.server = n
      /\ x.task = job[j].task /\ x.action = job[j].action
      /\ x.taken = job[j].taken /\ x.finished = job[j].finished
      /\ x.mounts = job[j].mounts /\ x.volume = job[j].volume
  BY <1>2, UpdateServer
<1>4. job' = [job EXCEPT ![j] = Next1(x)]
  BY <1>1 DEF Proceed
<1> HIDE DEF x
<1>5. At(j, "getAllocation")
  BY DEF Allocates
<1>6. PcOK(x) /\ x.mode # "ended"
  BY <1>2, <1>3, <1>5, AtOK DEF PcOK, SameFlow
<1>7. Steps(job[j])[job[j].pc] = "getAllocation"
  BY <1>5, AtOK
<1>8. Next1(x) \in JobRecs /\ PcOK(Next1(x)) /\ SameData(Next1(x), x)
  BY <1>3, <1>6, Next1OK
<1>9. /\ JobType' /\ Jobs' = Jobs /\ job'[j] = Next1(x)
      /\ \A i \in Jobs : i # j => job'[i] = job[i]
  BY <1>4, <1>8, MoveTyped
<1> QED BY <1>1, <1>3, <1>6, <1>7, <1>8, <1>9

\* What a task that is queued in CNAPI makes of the jobs
LEMMA StartsTyped ==
  ASSUME JobType, NEW j \in Jobs, Starts(j)
  PROVE  \E x, s \in JobRecs :
            /\ SameFlow(x, job[j])
            /\ x.server = job[j].server /\ x.task = "queued"
            /\ x.action = "create" <=> job[j].kind = "create"
            /\ x.action = "destroy" <=> job[j].kind = "destroy"
            /\ job[j].kind = "create" => x.taken
            /\ x.mounts = job[j].mounts /\ x.volume = job[j].volume
            /\ x.finished = job[j].finished
            /\ PcOK(x) /\ x.mode = "chain"
            /\ Steps(job[j])[job[j].pc] \in Queueing
            /\ ChainGood(Steps(job[j]), job[j].kind, job[j].pc)
            /\ s = Next1(x) /\ PcOK(s) /\ SameData(s, x)
            /\ JobType' /\ Jobs' = Jobs
            /\ job'[j] = s /\ \A i \in Jobs : i # j => job'[i] = job[i]
<1>1. PICK task \in Queueing, x \in JobRecs :
        /\ At(j, task) /\ SameFlow(x, job[j])
        /\ x.server = job[j].server /\ x.task = "queued"
        /\ x.action = "create" <=> job[j].kind = "create"
        /\ x.action = "destroy" <=> job[j].kind = "destroy"
        /\ job[j].kind = "create" => x.taken
        /\ x.mounts = job[j].mounts /\ x.volume = job[j].volume
        /\ x.finished = job[j].finished
        /\ job' = [job EXCEPT ![j] = Next1(x)]
  BY DEF Starts
<1>2. job[j] \in JobRecs /\ PcOK(job[j])
  BY JobTyped
<1>3. /\ Steps(job[j])[job[j].pc] = task /\ job[j].mode = "chain"
      /\ ChainGood(Steps(job[j]), job[j].kind, job[j].pc)
  BY <1>1, AtOK, TaskPlaces DEF Queueing, RequestTasks, CleanupTasks, EndTasks
<1>4. PcOK(x) /\ x.mode = "chain"
  BY <1>1, <1>2, <1>3 DEF PcOK, SameFlow
<1>5. Next1(x) \in JobRecs /\ PcOK(Next1(x)) /\ SameData(Next1(x), x)
  BY <1>4, Next1OK
<1>6. /\ JobType' /\ Jobs' = Jobs /\ job'[j] = Next1(x)
      /\ \A i \in Jobs : i # j => job'[i] = job[i]
  BY <1>1, <1>5, MoveTyped
<1> QED BY <1>1, <1>3, <1>4, <1>5, <1>6

\* What a task that ends in CNAPI makes of the jobs
LEMMA FinishesTyped ==
  ASSUME JobType, NEW j \in Jobs, Finishes(j)
  PROVE  \E x \in JobRecs :
            /\ SameFlow(x, job[j]) /\ x.server = job[j].server
            /\ x.action = job[j].action /\ x.taken = job[j].taken
            /\ x.mounts = job[j].mounts /\ x.volume = job[j].volume
            /\ \/ /\ x.task = "failure" /\ x.finished = job[j].finished
                  /\ zone' = zone
               \/ /\ x.task = "complete"
                  /\ x.finished = After(zone[job[j].vm], job[j])
                  /\ HasZone(job[j].vm) # (job[j].action = "create")
                  /\ zone' = [zone EXCEPT ![job[j].vm] =
                                After(zone[job[j].vm], job[j])]
            /\ x.task # "queued" /\ PcOK(x)
            /\ JobType' /\ Jobs' = Jobs
            /\ job'[j] = x /\ \A i \in Jobs : i # j => job'[i] = job[i]
<1>1. PICK x \in JobRecs :
        /\ SameFlow(x, job[j]) /\ x.server = job[j].server
        /\ x.action = job[j].action /\ x.taken = job[j].taken
        /\ x.mounts = job[j].mounts /\ x.volume = job[j].volume
        /\ job' = [job EXCEPT ![j] = x]
        /\ \/ /\ x.task = "failure" /\ x.finished = job[j].finished
              /\ zone' = zone
           \/ /\ x.task = "complete"
              /\ x.finished = After(zone[job[j].vm], job[j])
              /\ HasZone(job[j].vm) # (job[j].action = "create")
              /\ zone' = [zone EXCEPT ![job[j].vm] =
                            After(zone[job[j].vm], job[j])]
  BY DEF Finishes
<1>2. PcOK(x) /\ x.task # "queued"
  BY <1>1, JobTyped DEF PcOK, SameFlow
<1>3. /\ JobType' /\ Jobs' = Jobs /\ job'[j] = x
      /\ \A i \in Jobs : i # j => job'[i] = job[i]
  BY <1>1, <1>2, MoveTyped
<1> QED BY <1>1, <1>2, <1>3

\* What a look at the NICs makes of the jobs
LEMMA LookTyped ==
  ASSUME JobType, NEW j \in Jobs, LooksAtNics(j)
  PROVE  \E s \in JobRecs :
            /\ PcOK(s) /\ SameKey(s, job[j]) /\ s.vm = job[j].vm
            /\ s.kind = "destroy" /\ s.mode = "chain" /\ s.pc = 4
            /\ JobType' /\ Jobs' = Jobs
            /\ job'[j] = s /\ \A i \in Jobs : i # j => job'[i] = job[i]
<1>1. PICK s \in JobRecs :
        /\ job' = [job EXCEPT ![j] = s]
        /\ PcOK(s) /\ SameKey(s, job[j]) /\ s.vm = job[j].vm
        /\ s.kind = "destroy" /\ s.mode = "chain" /\ s.pc = 4
  BY LookStep
<1>2. /\ JobType' /\ Jobs' = Jobs /\ job'[j] = s
      /\ \A i \in Jobs : i # j => job'[i] = job[i]
  BY <1>1, MoveTyped
<1> QED BY <1>1, <1>2

\* The queues hold jobs, also when there are more of them
LEMMA QueueRetyped ==
  ASSUME QueueTyped, Jobs' = Jobs
  PROVE  QueueType'
  BY DEF QueueTyped, QueueType, Scopes

\* A job goes on from the wait for its task only when it has ended
LEMMA JobWaits ==
  ASSUME JobType, NEW j \in Jobs, NicTasks(j) \/ VolumeTasks(j) \/ OfVm(j)
  PROVE  Waits(j)
<1>1. job[j] \in JobRecs /\ SameFlow(job[j], job[j])
  BY SameAsItself
<1>2. CASE AddNicsGivesUp(j)
  <2> DEFINE x == [job[j] EXCEPT !.waits = FALSE]
  <2>1. job' = [job EXCEPT ![j] = x]
    BY <1>2 DEF AddNicsGivesUp
  <2>2. x \in JobRecs /\ SameFlow(x, job[j])
    BY <1>1, ScopesAre, Updates, 0 \in Nat
  <2> HIDE DEF x
  <2>3. job'[j] = x
    BY <2>1 DEF JobType, Jobs
  <2> QED BY <2>2, <2>3 DEF Waits
<1>3. CASE waitTask(j)
  <2>1. At(j, "waitTask") /\ job[j].task # "queued"
    BY <1>3 DEF waitTask
  <2> QED BY <2>1 DEF Waits, At
<1>4. CASE removeNics(j)
  <2>1. At(j, "removeNics") /\ job' = [job EXCEPT ![j] = Next1(job[j])]
    BY <1>4 DEF removeNics, Proceed
  <2>2. job'[j] = Next1(job[j])
    BY <2>1 DEF JobType, Jobs
  <2> QED BY <2>1, <2>2 DEF Waits, At
<1>5. CASE NicTasks(j) /\ ~AddNicsGivesUp(j) /\ ~removeNics(j)
  <2>1. /\ ~At(j, "waitTask") /\ ~At(j, "removeNics")
        /\ ~At(j, "markVmAsDestroyed")
    BY <1>5 DEF NicTasks, provisionNics, cleanupNicsOfRequest, cleanupNics,
                updateNicsInNapi, acquireFabricTickets, waitOnFabricTicket,
                getNetwork, createNat, CreateNatFails,
                waitForFabricNatProvisions, releaseFabricNatTickets,
                getFabricNatNics, listNics, destroyNat, At
  <2> QED BY <2>1 DEF Waits
<1>6. CASE VolumeTasks(j)
  <2>1. /\ ~At(j, "waitTask") /\ ~At(j, "removeNics")
        /\ ~At(j, "markVmAsDestroyed")
    BY <1>6 DEF VolumeTasks, loadVolume, reserveVolume, createVolume,
                waitForNfsVolumeProvisions, addVolumesReferences,
                removeVolumesReferences, At
  <2> QED BY <2>1 DEF Waits
<1>7. CASE OfVm(j) /\ ~waitTask(j) /\ ~markVmAsDestroyed(j)
  <2>1. /\ ~At(j, "waitTask") /\ ~At(j, "removeNics")
        /\ ~At(j, "markVmAsDestroyed")
    BY <1>7 DEF OfVm, getAllocation, putVmInMoray, refreshVmOnError,
                createJob, ensureVmState, zoneAction, stopForRollback,
                provision, checkUpdated, putVm, postBack, refreshVm, At
  <2> QED BY <2>1 DEF Waits
<1>8. CASE markVmAsDestroyed(j)
  <2>1. /\ At(j, "markVmAsDestroyed")
        /\ job' = [job EXCEPT ![j] = Next1(job[j])]
    BY <1>8 DEF markVmAsDestroyed, Proceed
  <2>2. job'[j] = Next1(job[j])
    BY <2>1 DEF JobType, Jobs
  <2> QED BY <2>1, <2>2 DEF Waits, At
<1> QED BY <1>2, <1>3, <1>4, <1>5, <1>6, <1>7, <1>8

\* The steps of jobs are moves and keep the types
LEMMA JobStepMoves ==
  ASSUME TypeInvParts, NEW j \in Jobs, JobStep(j)
  PROVE  TypeInvParts' /\ Move
<1> USE DEF TypeInvParts
<1>1. CASE OfTickets(j)
  <2>1. /\ TicketTasks(j) /\ nicVars' = nicVars /\ volVars' = volVars
        /\ rec' = rec /\ zone' = zone
    BY <1>1 DEF OfTickets
  <2>2. UsedType' /\ QueueTyped /\ (Crash(j) \/ Minor(j, {}))
    BY <2>1, TicketStep
  <2>3. JobType' /\ Jobs' = Jobs
    BY <2>2, CrashTyped, MinorTyped
  <2>4. NicType' /\ VolumeType' /\ VmType'
    BY <2>1 DEF NicType, VolumeType, VmType, nicVars, volVars
  <2> QED BY <2>1, <2>2, <2>3, <2>4, QueueRetyped DEF Move
<1>2. CASE OfNics(j)
  <2>1. NicTasks(j) /\ volVars' = volVars /\ rec' = rec /\ zone' = zone
    BY <1>2 DEF OfNics
  <2>2. /\ UsedType' /\ NicType' /\ QueueTyped /\ LeavesOther
        /\ Minor(j, Lines) \/ LooksAtNics(j)
    BY <2>1, NicStep, FewerStages
  <2>3. JobType' /\ Jobs' = Jobs
    BY <2>2, MinorTyped, LookTyped
  <2>4. VolumeType' /\ VmType'
    BY <2>1 DEF VolumeType, VmType, volVars
  <2>5. Waits(j)
    BY <2>1, JobWaits
  <2>6. Move
    BY <2>1, <2>2, <2>5 DEF Move
  <2>7. QueueType'
    BY <2>2, <2>3, QueueRetyped
  <2> QED BY <2>2, <2>3, <2>4, <2>6, <2>7
<1>3. CASE OfVolumes(j)
  <2>1. VolumeTasks(j) /\ nicVars' = nicVars /\ rec' = rec /\ zone' = zone
    BY <1>3 DEF OfVolumes
  <2>2. /\ UsedType' /\ VolumeType' /\ QueueTyped /\ LeavesOther
        /\ Minor(j, Lines)
    BY <2>1, VolumeStep
  <2>3. JobType' /\ Jobs' = Jobs
    BY <2>2, MinorTyped
  <2>4. NicType' /\ VmType'
    BY <2>1 DEF NicType, VmType, nicVars
  <2>5. Waits(j)
    BY <2>1, JobWaits
  <2>6. Move
    BY <2>1, <2>2, <2>5 DEF Move
  <2>7. QueueType'
    BY <2>2, <2>3, QueueRetyped
  <2> QED BY <2>2, <2>3, <2>4, <2>6, <2>7
<1>4. CASE OfVm(j)
  <2>1. nicVars' = nicVars /\ volVars' = volVars
    BY <1>4 DEF OfVm, getAllocation, putVmInMoray, refreshVmOnError,
                createJob, ensureVmState, zoneAction, markVmAsDestroyed,
                stopForRollback, provision, waitTask, checkUpdated, putVm,
                postBack, refreshVm
  <2>2. /\ UsedType' /\ VmType' /\ QueueTyped /\ LeavesOther
        /\ zone' = zone /\ Records(j)
        /\ Minor(j, Lines) \/ Allocates(j) \/ Starts(j)
    BY <1>4, VmStep
  <2>3. JobType' /\ Jobs' = Jobs
    BY <2>2, MinorTyped, AllocatesTyped, StartsTyped
  <2>4. NicType' /\ VolumeType'
    BY <2>1 DEF NicType, VolumeType, nicVars, volVars
  <2> QED BY <1>4, <2>2, <2>3, <2>4, JobWaits, QueueRetyped DEF Move
<1>5. CASE refreshVmGets(j)
  <2>1. /\ job' = job /\ queue' = queue /\ used' = used
        /\ nicVars' = nicVars /\ volVars' = volVars
        /\ rec' = rec /\ zone' = zone
    BY <1>5 DEF refreshVmGets
  <2>2. NicType' /\ VolumeType' /\ UsedType' /\ VmType'
    BY <2>1 DEF NicType, VolumeType, UsedType, VmType, nicVars, volVars
  <2>3. JobType' /\ QueueType'
    BY <2>1 DEF JobType, QueueType, Jobs, PcOK
  <2> QED BY <2>1, <2>2, <2>3 DEF Move
<1> QED BY <1>1, <1>2, <1>3, <1>4, <1>5 DEF JobStep

\* Jobs that do not change keep their types
LEMMA StillTyped ==
  ASSUME JobType, QueueType, job' = job
  PROVE  JobType' /\ Jobs' = Jobs /\ (queue' = queue => QueueTyped)
  BY DEF JobType, Jobs, PcOK, QueueTyped, QueueType

\* What the services do by themselves are moves and keep the types
LEMMA ServiceMoves ==
  ASSUME TypeInvParts, GetType, Services
  PROVE  TypeInvParts' /\ Move
<1> USE DEF TypeInvParts
<1>1. ASSUME NEW j \in Jobs, CnapiRuns(j)
      PROVE  TypeInvParts' /\ Move
  <2>1. Finishes(j) /\ UsedType' /\ VmType' /\ QueueTyped
    BY <1>1, CnapiStep
  <2>2. JobType' /\ Jobs' = Jobs
    BY <2>1, FinishesTyped
  <2>3. NicType' /\ VolumeType'
    BY <1>1 DEF CnapiRuns, NicType, VolumeType, nicVars, volVars
  <2> QED BY <2>1, <2>2, <2>3, QueueRetyped DEF Move
<1>2. ASSUME NEW v \in Vms, AgentReports(v)
      PROVE  TypeInvParts' /\ Move
  <2>1. /\ job' = job /\ queue' = queue /\ used' = used /\ zone' = zone
        /\ nicVars' = nicVars /\ volVars' = volVars
        /\ rec' = [rec EXCEPT ![v] = RecordOf(zone[v], rec[v])]
    BY <1>2 DEF AgentReports
  <2>2. /\ RecordOf(zone[v], rec[v]) \in Recs
        /\ RecordOf(zone[v], rec[v]).state # "failed"
    BY RecordOfTyped, RecordOfState DEF VmType
  <2>a. Refreshes
    BY <2>1, <2>2 DEF Refreshes
  <2>3. VmType'
    BY <2>1, <2>2 DEF VmType
  <2>4. NicType' /\ VolumeType' /\ UsedType'
    BY <2>1 DEF NicType, VolumeType, UsedType, nicVars, volVars
  <2> QED BY <2>1, <2>a, <2>3, <2>4, StillTyped, QueueRetyped DEF Move
<1>3. ASSUME NatProvisioned /\ UNCHANGED <<volVars, rec, zone, gets>>
      PROVE  TypeInvParts' /\ Move
  <2>1. /\ job' = job /\ queue' = queue /\ napi' = napi
        /\ volVars' = volVars /\ rec' = rec /\ zone' = zone
        /\ used' = used \/ used' = [used EXCEPT !.faults = @ + 1]
    BY <1>3 DEF NatProvisioned
  <2>2. nats' \in Seq(NatStates)
    BY <1>3 DEF NatProvisioned, NicType, NatStates
  <2>3. NicType' /\ VolumeType' /\ UsedType' /\ VmType'
    BY <2>1, <2>2, CountsTyped DEF NicType, VolumeType, VmType, volVars
  <2> QED BY <2>1, <2>3, StillTyped, QueueRetyped DEF Move
<1>4. ASSUME VolumeCreated /\ UNCHANGED <<nicVars, rec, zone, gets>>
      PROVE  TypeInvParts' /\ Move
  <2>1. /\ job' = job /\ queue' = queue /\ nicVars' = nicVars
        /\ rec' = rec /\ zone' = zone /\ reserved' = reserved
        /\ refs' = refs
        /\ used' = used \/ used' = [used EXCEPT !.faults = @ + 1]
        /\ \/ volume' = [volume EXCEPT !.state = "ready"]
           \/ volume' = [volume EXCEPT !.state = "none"]
    BY <1>4 DEF VolumeCreated
  <2>2. NicType' /\ VolumeType' /\ UsedType' /\ VmType'
    BY <2>1, CountsTyped DEF NicType, VolumeType, VmType, nicVars
  <2> QED BY <2>1, <2>2, StillTyped, QueueRetyped DEF Move
<1>5. ASSUME NEW v \in Vms, VolapiUpdates(v, rec[v].state),
             UNCHANGED <<nicVars, rec, zone, gets>>
      PROVE  TypeInvParts' /\ Move
  <2>1. /\ job' = job /\ queue' = queue /\ used' = used
        /\ nicVars' = nicVars /\ rec' = rec /\ zone' = zone
        /\ volume' = volume /\ reserved' = reserved \ {v}
        /\ refs' = refs \cup {v} \/ refs' = refs \ {v}
    BY <1>5 DEF VolapiUpdates
  <2>2. NicType' /\ VolumeType' /\ UsedType' /\ VmType'
    BY <2>1, CountsTyped DEF NicType, VolumeType, VmType, nicVars
  <2> QED BY <2>1, <2>2, StillTyped, QueueRetyped DEF Move
<1>6. ASSUME NEW scope \in Scopes, ExpireTicket(scope),
             UNCHANGED <<nicVars, volVars, rec, zone, gets>>
      PROVE  TypeInvParts' /\ Move
  <2>1. PICK j \in Jobs : /\ Ended(j) \/ ExpireHeld
                          /\ queue' = Without(scope, j)
    BY <1>6 DEF ExpireTicket
  <2>2. /\ job' = job /\ used' = used /\ nicVars' = nicVars
        /\ volVars' = volVars /\ rec' = rec /\ zone' = zone
    BY <1>6 DEF ExpireTicket
  <2>3. QueueTyped
    BY <2>1, WithoutKeeps DEF QueueTyped
  <2>4. NicType' /\ VolumeType' /\ UsedType' /\ VmType'
    BY <2>2, CountsTyped DEF NicType, VolumeType, VmType, nicVars, volVars
  <2>5. Expires
    BY <2>1, <2>2 DEF Expires
  <2> QED BY <2>2, <2>3, <2>4, <2>5, StillTyped, QueueRetyped DEF Move
<1>7. ASSUME NEW v \in Vms, SyncAnswered(v) \/ SyncPut(v)
      PROVE  TypeInvParts' /\ Move
  <2>1. /\ job' = job /\ queue' = queue /\ used' = used /\ zone' = zone
        /\ nicVars' = nicVars /\ volVars' = volVars
        /\ \/ rec' = rec
           \/ gets[v].step = "answered"
              /\ rec' = [rec EXCEPT ![v] = gets[v].found]
    BY <1>7 DEF SyncAnswered, SyncPut
  <2>2. gets[v].found \in Recs
    BY DEF GetType, Gets
  <2>3. VmType' /\ (rec' = rec \/ Refreshes)
    BY <2>1, <2>2 DEF VmType, Refreshes
  <2>4. NicType' /\ VolumeType' /\ UsedType'
    BY <2>1 DEF NicType, VolumeType, UsedType, nicVars, volVars
  <2> QED BY <2>1, <2>3, <2>4, StillTyped, QueueRetyped DEF Move
<1> QED BY <1>1, <1>2, <1>3, <1>4, <1>5, <1>6, <1>7 DEF Services

\* Faults are moves and keep the types
LEMMA FaultMoves ==
  ASSUME TypeInvParts, Faults
  PROVE  TypeInvParts' /\ Move
<1> USE DEF TypeInvParts
<1>1. PICK j \in Jobs : \/ /\ TaskFails(j) \/ CancelJob(j)
                           /\ UNCHANGED <<nicVars, volVars, rec, zone, gets>>
                        \/ AnswerLost(j)
  BY DEF Faults
<1>2. nicVars' = nicVars /\ volVars' = volVars /\ rec' = rec /\ zone' = zone
  BY <1>1 DEF AnswerLost
<1>3. NicType' /\ VolumeType' /\ VmType'
  BY <1>2 DEF NicType, VolumeType, VmType, nicVars, volVars
<1>4. CASE TaskFails(j)
  <2>1. Minor(j, Lines) /\ UsedType' /\ QueueTyped /\ queue' = queue
    BY <1>4, FaultStep, FewerStages
  <2>2. JobType' /\ Jobs' = Jobs
    BY <2>1, MinorTyped
  <2> QED BY <1>2, <1>3, <1>4, <2>1, <2>2, QueueRetyped DEF Move
<1>5. CASE CancelJob(j)
  BY <1>3, <1>5, CancelStep, QueueRetyped DEF Move
<1>6. CASE AnswerLost(j)
  BY <1>3, <1>6, LostStep, QueueRetyped DEF Move
<1> QED BY <1>1, <1>4, <1>5, <1>6

\* Requests are moves and keep the types
LEMMA UserMoves ==
  ASSUME TypeInvParts, Users
  PROVE  TypeInvParts' /\ Move
<1> USE DEF TypeInvParts
<1>1. ASSUME NEW r, Asks(r)
      PROVE  TypeInvParts' /\ Move
  <2>1. /\ used' = used /\ nicVars' = nicVars /\ volVars' = volVars
        /\ rec' = rec /\ zone' = zone
    BY <1>1 DEF Asks
  <2>2. NicType' /\ VolumeType' /\ UsedType' /\ VmType'
    BY <2>1, CountsTyped DEF NicType, VolumeType, VmType, nicVars, volVars
  <2> QED BY <1>1, <2>2, AskStep DEF Move
<1>2. ASSUME NEW v \in Vms, SyncGet(v)
      PROVE  TypeInvParts' /\ Move
  <2>1. /\ job' = job /\ queue' = queue /\ used' = used /\ zone' = zone
        /\ nicVars' = nicVars /\ volVars' = volVars /\ rec' = rec
    BY <1>2 DEF SyncGet
  <2>2. VmType'
    BY <2>1 DEF VmType
  <2>3. NicType' /\ VolumeType' /\ UsedType'
    BY <2>1, CountsTyped DEF NicType, VolumeType, nicVars, volVars
  <2> QED BY <2>1, <2>2, <2>3, StillTyped, QueueRetyped DEF Move
<1>3. ASSUME DeleteVolume, nicVars' = nicVars, rec' = rec, zone' = zone
      PROVE  TypeInvParts' /\ Move
  <2>1. /\ job' = job /\ queue' = queue
        /\ used' = [used EXCEPT !.deletes = @ + 1]
        /\ volume' = [volume EXCEPT !.state = "none"]
        /\ reserved' = reserved /\ refs' = refs
    BY <1>3 DEF DeleteVolume
  <2>2. NicType' /\ VolumeType' /\ UsedType' /\ VmType'
    BY <1>3, <2>1, CountsTyped DEF NicType, VolumeType, VmType, nicVars
  <2> QED BY <1>3, <2>1, <2>2, StillTyped, QueueRetyped DEF Move
<1> QED BY <1>1, <1>2, <1>3, UserStep

(* The GETs with ?sync=true.                                                *)
\* One begins, for a caller or a job, is answered, or ends
Begins(v, by) ==
    /\ gets' = [gets EXCEPT ![v] = [step |-> "loaded", by |-> by,
                                    found |-> rec[v]]]
    /\ job' = job /\ rec' = rec /\ zone' = zone
    /\ \/ by = Caller /\ SyncGets
       \/ /\ by \in Jobs /\ job[by].vm = v
          /\ At(by, "refreshVm") /\ job[by].taken
Clears(v) ==
    \E g \in Gets : /\ g.step \in {"none", "put"}
                     /\ gets' = [gets EXCEPT ![v] = g]
GetMove ==
    \/ gets' = gets
    \/ \E v \in Vms : \/ \E by \in Jobs \cup {Caller} : Begins(v, by)
                       \/ SyncAnswered(v)
                       \/ Clears(v)

\* A GET of the right type
LEMMA GetTyped ==
  ASSUME JobType
  PROVE  /\ NoGet \in Gets /\ NoGet.step = "none"
         /\ \A by \in Jobs \cup {Caller}, r \in Recs :
              [step |-> "loaded", by |-> by, found |-> r] \in Gets
         /\ \A by \in 0..MaxJobs : Put(by) \in Gets /\ Put(by).step = "put"
<1>1. MaxJobs \in Nat /\ NoRecord \in Recs
  BY NothingTyped, WorkflowsAssumption
<1>2. Jobs \cup {Caller} \subseteq 0..MaxJobs
  BY <1>1 DEF JobType, Jobs, Caller
<1> QED BY <1>1, <1>2 DEF Gets, NoGet, Put, Caller

\* Every step is one of these for the GETs
LEMMA GetMoves ==
  ASSUME TypeInv, [Next]_vars
  PROVE  GetMove
<1>a. JobType /\ GetType /\ VmType
  BY TypeInvIs DEF TypeInvParts
<1>1. ASSUME NEW j \in Jobs, JobStep(j)
      PROVE  GetMove
  <2>1. CASE refreshVmGets(j)
    <3>1. /\ job[j].vm \in Vms
          /\ Begins(job[j].vm, j)
      BY <1>a, <2>1, JobTyped
         DEF refreshVmGets, StartGet, Begins, JobRecs
    <3> QED BY <3>1 DEF GetMove
  <2>2. CASE refreshVm(j)
    <3>1. gets' = gets \/ gets' = [gets EXCEPT ![job[j].vm] = NoGet]
      BY <2>2 DEF refreshVm
    <3>2. job[j].vm \in Vms
      BY <1>a, JobTyped DEF JobRecs
    <3> QED BY <1>a, <3>1, <3>2, GetTyped DEF GetMove, Clears
  <2>3. CASE OfTickets(j) \/ OfNics(j) \/ OfVolumes(j)
    BY <2>3 DEF OfTickets, OfNics, OfVolumes, GetMove
  <2>4. CASE OfVm(j) /\ ~refreshVm(j)
    BY <2>4 DEF OfVm, getAllocation, putVmInMoray, refreshVmOnError,
                createJob, ensureVmState, zoneAction, markVmAsDestroyed,
                stopForRollback, provision, waitTask, checkUpdated, putVm,
                postBack, GetMove
  <2> QED BY <1>1, <2>1, <2>2, <2>3, <2>4 DEF JobStep
<1>2. ASSUME NEW v \in Vms, SyncPut(v)
      PROVE  GetMove
  <2>1. \/ gets' = [gets EXCEPT ![v] = Put(gets[v].by)]
        \/ gets' = [gets EXCEPT ![v] = NoGet]
    BY <1>2 DEF SyncPut, GetType
  <2>2. gets[v].by \in 0..MaxJobs
    BY <1>a DEF GetType, Gets
  <2> QED BY <1>a, <2>1, <2>2, GetTyped DEF GetMove, Clears
<1>3. CASE Services
  BY <1>2, <1>3 DEF Services, CnapiRuns, AgentReports, GetMove
<1>4. CASE Faults
  BY <1>4 DEF Faults, AnswerLost, GetMove
<1>5. CASE Users
  <2>1. ASSUME NEW v \in Vms, SyncGet(v)
        PROVE  GetMove
    BY <2>1 DEF SyncGet, StartGet, Begins, GetMove
  <2>2. ASSUME NEW kind, NEW v, NEW net, NEW nics,
               Request(kind, v, net, nics)
        PROVE  GetMove
    BY <2>2 DEF Request, GetMove
  <2>3. ASSUME NEW kind, NEW v, NEW net, NEW nics,
               updateVm(kind, v, net, nics)
        PROVE  GetMove
    BY <2>2, <2>3 DEF updateVm
  <2>4. ASSUME NEW v \in Vms, createVm(v) \/ deleteVm(v)
        PROVE  GetMove
    BY <2>2, <2>4 DEF createVm, deleteVm
  <2>5. CASE DeleteVolume /\ UNCHANGED <<nicVars, rec, zone, gets>>
    BY <2>5 DEF GetMove
  <2> QED
    BY <1>5, <2>1, <2>3, <2>4, <2>5
       DEF Users, changeVm, startVm, stopVm, killVm, rebootVm, reprovisionVm,
           createSnapshot, deleteSnapshot, rollbackSnapshot, addNics,
           updateNics, removeNicsOfVm
<1>6. CASE UNCHANGED vars \/ Done
  BY <1>6 DEF vars, Done, GetMove
<1> QED BY <1>1, <1>3, <1>4, <1>5, <1>6 DEF Next

\* The GETs keep their type
LEMMA GetsTyped ==
  ASSUME TypeInv, GetMove
  PROVE  GetType'
<1>a. JobType /\ GetType /\ VmType
  BY TypeInvIs DEF TypeInvParts
<1>1. ASSUME NEW v \in Vms, NEW by \in Jobs \cup {Caller}, Begins(v, by)
      PROVE  GetType'
  <2>1. [step |-> "loaded", by |-> by, found |-> rec[v]] \in Gets
    BY <1>a, GetTyped DEF VmType
  <2> QED BY <1>a, <1>1, <2>1 DEF Begins, GetType
<1>2. ASSUME NEW v \in Vms, SyncAnswered(v)
      PROVE  GetType'
  <2>1. gets[v] \in Gets /\ gets[v].found \in Recs
    BY <1>a DEF GetType, Gets
  <2>2. Answer(v, gets[v].found) \in Recs
    BY <1>a, <2>1, AnswerTyped
  <2> DEFINE g == [gets[v] EXCEPT !.step = "answered",
                                  !.found = Answer(v, gets[v].found)]
  <2>3. g \in Gets
    BY <2>1, <2>2 DEF Gets
  <2>4. gets' = [gets EXCEPT ![v] = g]
    BY <1>a, <1>2 DEF SyncAnswered, GetType
  <2> QED BY <1>a, <2>3, <2>4 DEF GetType
<1> QED BY <1>a, <1>1, <1>2 DEF GetMove, Clears, GetType

\* Every step is a move and keeps the types
LEMMA StepMoves ==
  ASSUME TypeInv, [Next]_vars
  PROVE  TypeInv' /\ Move /\ GetMove
<1>1. TypeInvParts /\ GetType
  BY TypeInvIs
<1>a. GetMove /\ GetType'
  BY GetMoves, GetsTyped
<1>2. CASE UNCHANGED vars
  <2>1. /\ job' = job /\ queue' = queue /\ used' = used /\ napi' = napi
        /\ nats' = nats /\ volume' = volume /\ reserved' = reserved
        /\ refs' = refs /\ rec' = rec /\ zone' = zone /\ gets' = gets
    BY <1>2 DEF vars
  <2>2. TypeInv'
    BY <2>1 DEF TypeInv, Jobs, PcOK
  <2> QED BY <1>a, <2>1, <2>2 DEF Move
<1>3. CASE \E j \in Jobs : JobStep(j)
  <2>1. PICK j \in Jobs : JobStep(j)
    BY <1>3
  <2>2. TypeInvParts' /\ Move
    BY <1>1, <2>1, JobStepMoves
  <2> QED BY <1>a, <2>2, TypeInvIs, PTL
<1>4. CASE Services
  BY <1>1, <1>a, <1>4, ServiceMoves, TypeInvIs, PTL
<1>5. CASE Faults
  BY <1>1, <1>a, <1>5, FaultMoves, TypeInvIs, PTL
<1>6. CASE Users
  BY <1>1, <1>a, <1>6, UserMoves, TypeInvIs, PTL
<1>7. CASE Done
  BY <1>2, <1>7 DEF Done
<1> QED BY <1>2, <1>3, <1>4, <1>5, <1>6, <1>7 DEF Next

\* At first there is nothing, of the right type
LEMMA InitTyped ==
  Init => TypeInv
<1> SUFFICES ASSUME Init PROVE TypeInv
  OBVIOUS
<1>1. /\ job = << >> /\ queue = [scope \in Scopes |-> << >>]
      /\ used = [faults |-> 0, cancels |-> 0, deletes |-> 0]
      /\ napi = {} /\ nats = << >> /\ volume = [id |-> 0, state |-> "none"]
      /\ reserved = {} /\ refs = {}
      /\ rec = [v \in Vms |-> NoRecord] /\ zone = [v \in Vms |-> NoZone]
      /\ gets = [v \in Vms |-> NoGet]
  BY DEF Init, WorkflowsInit, NicsInit, VolumesInit
<1>2. job \in Seq(JobRecs) /\ Len(job) <= MaxJobs /\ Jobs = {}
  BY <1>1, WorkflowsAssumption DEF Jobs
<1>3. NoGet \in Gets
  BY NothingTyped, WorkflowsAssumption DEF NoGet, Gets, Caller
<1> QED BY <1>1, <1>2, <1>3, NothingTyped DEF TypeInv

\* The state of the requests, jobs, tickets, NICs, volumes, records and
\* instances has its type, and a job that has not ended is at some step of its
\* request, its clean-up or one of its chains: whatever a job learns on the
\* way, it does not make it go past the end of a chain that got shorter
THEOREM TypeCorrect == Spec => []TypeOK
<1>1. Init => TypeInv
  BY InitTyped
<1>2. TypeInv /\ [Next]_vars => TypeInv'
  BY StepMoves
<1>3. TypeInv => TypeOK
  <2> SUFFICES ASSUME TypeInv PROVE TypeOK
    OBVIOUS
  <2>1. ASSUME NEW j \in Jobs, ~Ended(j)
        PROVE  job[j].pc \in DOMAIN Steps(job[j])
    BY <2>1, TypeInvIs, JobTyped DEF TypeInvParts, StepsGood, PcOK, Ended
  <2>2. \A v \in Vms : rec[v].state \in RecStates
    BY DEF TypeInv, Recs
  <2>3. \A v \in Vms :
          /\ gets[v].step \in {"none", "loaded", "answered", "put"}
          /\ gets[v].by \in 0..MaxJobs
    BY DEF TypeInv, Gets
  <2> QED BY <2>1, <2>2, <2>3 DEF TypeInv, TypeOK
<1> QED BY <1>1, <1>2, <1>3, PTL DEF Spec

-----------------------------------------------------------------------------
(* The ticket of a VM and its task in CNAPI.                                *)

\* Tickets do not expire under a job that runs, no job is canceled, and none
\* gives up on its task in CNAPI; the tasks of a destroy and a remove_nics are
\* followed by a call of VMAPI or NAPI before they are awaited
Patient ==
    /\ ~ExpireHeld /\ MaxCancels = 0
    /\ "waitTask" \notin FailingTasks /\ "answer" \notin FailingTasks
    /\ "removeNics" \in FailingTasks => "removeNics" \notin Kinds
    /\ "markVmAsDestroyed" \in FailingTasks => "destroy" \notin Kinds

\* The job is past a task, and has not released the VM's ticket since then
PastWithout(r, first) ==
    \E k \in 1..(r.pc - 1) :
        /\ Steps(r)[k] = first
        /\ \A m \in k..(r.pc - 1) : Steps(r)[m] # "releaseVMTicket"
\* The chain of a create begins with the ticket of its request
Since(r, first) ==
    /\ r.mode \in {"request", "chain"}
    /\ \/ PastWithout(r, first)
       \/ /\ r.mode = "chain" /\ r.kind = "create"
          /\ \A m \in 1..(r.pc - 1) : Steps(r)[m] # "releaseVMTicket"

Firsts == {"acquireVMTicket", "waitOnVMTicket"}

\* What a task changes of its job does not matter to where the job is
LEMMA SinceFlow ==
  ASSUME NEW x, NEW r, SameFlow(x, r), NEW f
  PROVE  Since(x, f) <=> Since(r, f)
  BY DEF Since, PastWithout, SameFlow

\* Going on past a ticket's task takes having been past it, or at it
LEMMA SinceNext ==
  ASSUME NEW x \in JobRecs, PcOK(x), x.mode # "ended", NEW f \in Firsts,
         Since(Next1(x), f)
  PROVE  /\ Since(x, f) \/ Steps(x)[x.pc] = f
         /\ Steps(x)[x.pc] # "releaseVMTicket"
         /\ x.mode \in {"request", "chain"}
<1> DEFINE s == Next1(x)
<1>1. /\ Len(Steps(x)) \in Nat /\ x.pc \in 1..Len(Steps(x)) /\ x.pc \in Nat
      /\ StepsGood(x)
  BY StepsAre DEF PcOK, StepsGood
<1>2. s.kind = x.kind
  BY Next1OK DEF SameData
<1>3. CASE x.pc < Len(Steps(x))
  <2>1. s.mode = x.mode /\ s.pc = x.pc + 1 /\ Steps(s) = Steps(x)
    BY <1>3, Next1OK
  <2> HIDE DEF s
  <2>2. Since(s, f)
    BY DEF s
  <2>3. x.pc \in 1..(s.pc - 1) /\ s.pc - 1 = x.pc
    BY <1>1, <2>1
  <2>4. x.mode \in {"request", "chain"}
    BY <2>1, <2>2 DEF Since
  <2>5. CASE PastWithout(s, f)
    <3>1. PICK k \in 1..x.pc :
            /\ Steps(x)[k] = f
            /\ \A m \in k..x.pc : Steps(x)[m] # "releaseVMTicket"
      BY <2>1, <2>3, <2>5 DEF PastWithout
    <3>2. x.pc \in k..x.pc /\ \A m \in k..(x.pc - 1) : m \in k..x.pc
      BY <1>1
    <3>3. k # x.pc => k \in 1..(x.pc - 1)
      BY <1>1
    <3> QED BY <2>4, <3>1, <3>2, <3>3 DEF Since, PastWithout
  <2>6. CASE ~PastWithout(s, f)
    <3>1. /\ x.mode = "chain" /\ x.kind = "create"
          /\ \A m \in 1..x.pc : Steps(x)[m] # "releaseVMTicket"
      BY <1>2, <2>1, <2>2, <2>3, <2>6 DEF Since
    <3>2. x.pc \in 1..x.pc /\ \A m \in 1..(x.pc - 1) : m \in 1..x.pc
      BY <1>1
    <3> QED BY <3>1, <3>2 DEF Since
  <2> QED BY <2>5, <2>6
<1>4. CASE x.pc >= Len(Steps(x))
  <2>1. /\ s.mode = IF x.mode = "request" THEN "chain" ELSE "ended"
        /\ s.pc = 1
    BY <1>4, Next1OK
  <2> HIDE DEF s
  <2>2. Since(s, f)
    BY DEF s
  <2>3. x.mode = "request" /\ x.kind = "create"
    BY <1>2, <2>1, <2>2 DEF Since, PastWithout
  <2>4. x.pc = 9 /\ Steps(x)[9] = "createJob"
    <3>1. Len(Steps(x)) = 9 /\ Steps(x)[9] = "createJob"
      BY <1>1, <2>3 DEF StepsGood
    <3> QED BY <1>1, <1>4, <3>1
  <2>5. /\ Steps(x)[5] = "acquireVMTicket"
        /\ Steps(x)[6] = "releaseAllocationTicket"
        /\ Steps(x)[7] = "waitOnVMTicket" /\ Steps(x)[8] = "provisionNics"
    BY <1>1, <2>3 DEF StepsGood
  <2>6. \A m \in 5..8 : Steps(x)[m] # "releaseVMTicket"
    <3>1. SUFFICES ASSUME NEW m \in 5..8
                   PROVE  Steps(x)[m] # "releaseVMTicket"
      OBVIOUS
    <3>2. m = 5 \/ m = 6 \/ m = 7 \/ m = 8
      BY <3>1
    <3> QED BY <2>5, <3>2
  <2>7. PastWithout(x, f)
    <3>1. CASE f = "acquireVMTicket"
      <4>1. 5 \in 1..(x.pc - 1)
        BY <2>4
      <4> QED BY <2>4, <2>5, <2>6, <3>1, <4>1 DEF PastWithout
    <3>2. CASE f = "waitOnVMTicket"
      <4>1. 7 \in 1..(x.pc - 1) /\ \A m \in 7..8 : m \in 5..8
        BY <2>4
      <4> QED BY <2>4, <2>5, <2>6, <3>2, <4>1 DEF PastWithout
    <3> QED BY <3>1, <3>2 DEF Firsts
  <2> QED BY <2>3, <2>4, <2>7 DEF Since
<1> QED BY <1>1, <1>3, <1>4

\* A job that failed is past nothing
LEMMA SinceFailed ==
  ASSUME NEW x \in JobRecs, PcOK(x), x.mode # "ended", NEW f
  PROVE  ~Since(Failed(x), f)
<1>1. x.mode \in Modes
  BY DEF JobRecs
<1> QED BY <1>1, FailedOK DEF Since, Modes

\* The same for wherever a task leads
LEMMA SinceOutcome ==
  ASSUME NEW x \in JobRecs, PcOK(x), NEW T, NEW s, Outcome(s, x, T),
         NEW f \in Firsts, Since(s, f)
  PROVE  Since(x, f) \/ (Steps(x)[x.pc] = f /\ f \notin T)
<1>1. CASE s = x
  BY <1>1
<1>2. CASE x.mode # "ended" /\ Steps(x)[x.pc] \notin T /\ s = Next1(x)
  BY <1>2, SinceNext
<1>3. CASE x.mode # "ended" /\ s = Failed(x)
  BY <1>3, SinceFailed
<1>4. CASE /\ x.mode = "chain"
           /\ Steps(x)[x.pc] \in {"getNetwork", "listNics"}
           /\ s = Next1(Next1(x))
  <2> DEFINE y == Next1(x)
  <2>1. StepsGood(x) /\ x.pc \in 1..Len(Steps(x))
    BY <1>4, StepsAre DEF PcOK
  <2>2. /\ x.pc < Len(Steps(x))
        /\ Steps(x)[x.pc + 1] \in {"createNat", "destroyNat"}
    BY <1>4, <2>1 DEF StepsGood, ChainGood
  <2>3. /\ y \in JobRecs /\ PcOK(y) /\ y.mode = "chain"
        /\ y.pc = x.pc + 1 /\ Steps(y) = Steps(x)
    BY <1>4, <2>2, Next1OK
  <2>4. Since(y, f)
    BY <1>4, <2>2, <2>3, SinceNext DEF Firsts
  <2> QED BY <1>4, <2>4, SinceNext DEF Firsts
<1> QED BY <1>1, <1>2, <1>3, <1>4 DEF Outcome

\* A job that is past the acquire has its ticket in line, and one that is past
\* the wait has the active one
TicketInv ==
    \A j \in Jobs :
        /\ Since(job[j], "acquireVMTicket") => InLine(j, job[j].vm)
        /\ Since(job[j], "waitOnVMTicket") => Holds(j, job[j].vm)

\* A task of CNAPI's is awaited by its job, which holds the VM's ticket
TaskInv ==
    \A j \in Jobs : job[j].task = "queued" =>
        /\ job[j].mode = "chain" /\ Since(job[j], "waitOnVMTicket")
        /\ \/ Steps(job[j])[job[j].pc] = "waitTask"
           \/ Between(job[j].kind, Steps(job[j])[job[j].pc])

\* Nobody loses a place in line, nor gets past a task of the waitlist
LEMMA TicketFrame ==
  ASSUME TicketInv, Jobs' = Jobs,
         \A i \in Jobs, f \in Firsts : Since(job'[i], f) =>
            /\ Since(job[i], f) /\ job'[i].vm = job[i].vm
            /\ InLine(i, job[i].vm) => InLine(i, job[i].vm)'
            /\ Holds(i, job[i].vm) => Holds(i, job[i].vm)'
  PROVE  TicketInv'
<1>1. ASSUME NEW i \in Jobs, Since(job'[i], "acquireVMTicket")
      PROVE  InLine(i, job[i].vm)' /\ job'[i].vm = job[i].vm
  BY <1>1 DEF TicketInv, Firsts
<1>2. ASSUME NEW i \in Jobs, Since(job'[i], "waitOnVMTicket")
      PROVE  Holds(i, job[i].vm)' /\ job'[i].vm = job[i].vm
  BY <1>2 DEF TicketInv, Firsts
<1> QED BY <1>1, <1>2 DEF TicketInv, InLine, Holds


\* The same for a minor step
LEMMA MinorSince ==
  ASSUME JobType, NEW j \in Jobs, NEW T, Minor(j, T)
  PROVE  /\ Jobs' = Jobs /\ job'[j].vm = job[j].vm
         /\ \A i \in Jobs : i # j => job'[i] = job[i]
         /\ \A f \in Firsts : Since(job'[j], f) =>
              \/ Since(job[j], f)
              \/ Steps(job[j])[job[j].pc] = f /\ f \notin T
<1>1. PICK x \in JobRecs, s \in JobRecs :
        /\ SameFlow(x, job[j]) /\ SameKey(x, job[j]) /\ Outcome(s, x, T)
        /\ PcOK(x) /\ Jobs' = Jobs
        /\ job'[j] = s /\ \A i \in Jobs : i # j => job'[i] = job[i]
  BY MinorTyped
<1>2. s.vm = job[j].vm
  BY <1>1, OutcomeOK DEF SameData, SameFlow
<1>3. ASSUME NEW f \in Firsts, Since(s, f)
      PROVE  Since(job[j], f) \/ (Steps(job[j])[job[j].pc] = f /\ f \notin T)
  <2>1. Since(x, f) \/ (Steps(x)[x.pc] = f /\ f \notin T)
    BY <1>1, <1>3, SinceOutcome
  <2>2. Since(x, f) <=> Since(job[j], f)
    BY <1>1, SinceFlow
  <2> QED BY <1>1, <2>1, <2>2 DEF SameFlow
<1> QED BY <1>1, <1>2, <1>3

\* The VMs' queues are as they were, and the job gets past none of their tasks
LEMMA TicketQuiet ==
  ASSUME JobType, TicketInv, NEW j \in Jobs, LeavesVms, Jobs' = Jobs,
         job'[j].vm = job[j].vm,
         \A i \in Jobs : i # j => job'[i] = job[i],
         \A f \in Firsts : Since(job'[j], f) => Since(job[j], f)
  PROVE  TicketInv'
<1>1. ASSUME NEW i \in Jobs, NEW f \in Firsts, Since(job'[i], f)
      PROVE  /\ Since(job[i], f) /\ job'[i].vm = job[i].vm
             /\ InLine(i, job[i].vm) => InLine(i, job[i].vm)'
             /\ Holds(i, job[i].vm) => Holds(i, job[i].vm)'
  <2>1. job'[i].vm = job[i].vm /\ Since(job[i], f)
    BY <1>1
  <2>2. queue'[job[i].vm] = queue[job[i].vm]
    BY JobTyped DEF LeavesVms, JobRecs
  <2> QED BY <2>1, <2>2 DEF InLine, Holds
<1> QED BY <1>1, TicketFrame

\* A minor step that is not one for a ticket and leaves the queues
LEMMA TicketMinor ==
  ASSUME JobType, TicketInv, NEW j \in Jobs, NEW T, Minor(j, T), LeavesVms,
         Firsts \subseteq T \/ Steps(job[j])[job[j].pc] \notin Firsts
  PROVE  TicketInv'
<1>1. /\ Jobs' = Jobs /\ job'[j].vm = job[j].vm
      /\ \A i \in Jobs : i # j => job'[i] = job[i]
      /\ \A f \in Firsts : Since(job'[j], f) => Since(job[j], f)
  BY MinorSince
<1> QED BY <1>1, TicketQuiet

\* Whoever is to wait for the ticket of a VM has one in its queue
LEMMA WaitsInLine ==
  ASSUME JobType, NEW j \in Jobs, At(j, "waitOnVMTicket")
  PROVE  Since(job[j], "acquireVMTicket")
<1> DEFINE r == job[j]
           c == Steps(r)
<1>1. /\ r.pc \in 1..Len(c) /\ c[r.pc] = "waitOnVMTicket" /\ StepsGood(r)
      /\ Len(c) \in Nat /\ r.mode # "ended"
  BY JobTyped, AtOK DEF StepsGood
<1>2. CASE r.mode = "request"
  <2>1. r.kind = "create"
    BY <1>1, <1>2 DEF StepsGood
  <2>2. /\ Len(c) = 9 /\ c[1] = "acquireAllocationTicket"
        /\ c[2] = "waitOnAllocationTicket" /\ c[3] = "getAllocation"
        /\ c[4] = "putVmInMoray" /\ c[5] = "acquireVMTicket"
        /\ c[6] = "releaseAllocationTicket" /\ c[8] = "provisionNics"
        /\ c[9] = "createJob"
    BY <1>1, <1>2, <2>1 DEF StepsGood
  <2> HIDE DEF r, c
  <2>3. r.pc = 7
    <3>1. \/ r.pc = 1 \/ r.pc = 2 \/ r.pc = 3 \/ r.pc = 4 \/ r.pc = 5
          \/ r.pc = 6 \/ r.pc = 7 \/ r.pc = 8 \/ r.pc = 9
      BY <1>1, <2>2
    <3> QED BY <1>1, <2>2, <3>1
  <2>4. 5 \in 1..(r.pc - 1) /\ \A m \in 5..(r.pc - 1) : m = 5 \/ m = 6
    BY <2>3
  <2>5. PastWithout(r, "acquireVMTicket")
    BY <2>2, <2>4 DEF PastWithout, c
  <2> QED BY <1>2, <2>5 DEF Since, r
<1>3. CASE r.mode = "chain"
  <2>1. r.pc > 1 /\ c[r.pc - 1] = "acquireVMTicket"
    BY <1>1, <1>3 DEF StepsGood, ChainGood
  <2> HIDE DEF r, c
  <2>2. /\ r.pc - 1 \in 1..(r.pc - 1)
        /\ \A m \in (r.pc - 1)..(r.pc - 1) : m = r.pc - 1
    BY <1>1, <2>1
  <2>3. PastWithout(r, "acquireVMTicket")
    BY <2>1, <2>2 DEF PastWithout, c
  <2> QED BY <1>3, <2>3 DEF Since, r
<1> QED
  BY <1>2, <1>3, TaskPlaces DEF CleanupTasks, EndTasks

\* A job that gave the ticket up is past nothing
LEMMA NoSinceAfter ==
  ASSUME JobType, NEW j \in Jobs, NEW task, At(j, task),
         task \in {"releaseVMTicket", "releaseVMTicketIgnoringErr"},
         job' = [job EXCEPT ![j] = Next1(job[j])], NEW f \in Firsts
  PROVE  ~Since(job'[j], f)
<1>1. SUFFICES ASSUME Since(job'[j], f) PROVE FALSE
  OBVIOUS
<1>2. job'[j] = Next1(job[j])
  BY DEF JobType, Jobs
<1>3. /\ job[j] \in JobRecs /\ PcOK(job[j]) /\ job[j].mode # "ended"
      /\ Steps(job[j])[job[j].pc] = task
  BY JobTyped, AtOK
<1>4. /\ Steps(job[j])[job[j].pc] # "releaseVMTicket"
      /\ job[j].mode \in {"request", "chain"}
  BY <1>1, <1>2, <1>3, SinceNext
<1>5. task = "releaseVMTicketIgnoringErr"
  BY <1>3, <1>4
<1> QED BY <1>4, <1>5, TaskPlaces DEF RequestTasks, ChainTasks, Queueing

\* The tasks on tickets keep the tickets in order
LEMMA TicketOfTickets ==
  ASSUME JobType, QueueType, UsedType, TicketInv, NEW j \in Jobs,
         TicketTasks(j)
  PROVE  TicketInv'
<1>v. PICK v : v = job[j].vm
  OBVIOUS
<1>a. v \in Vms /\ v \in Scopes /\ \A i \in Jobs : job[i].vm \in Scopes
  BY <1>v, JobTyped, ScopesAre DEF JobRecs
<1>b. ASSUME queue' = queue PROVE LeavesVms
  BY <1>b DEF LeavesVms
<1>1. CASE acquireVMTicket(j)
  <2>1. /\ At(j, "acquireVMTicket")
        /\ Minor(j, {}) /\ queue' = [queue EXCEPT ![v] = Append(@, j)]
    BY <1>1, <1>a, <1>v, AcquireStep DEF acquireVMTicket
  <2>2. Steps(job[j])[job[j].pc] = "acquireVMTicket"
    BY <2>1, AtOK
  <2>3. /\ Jobs' = Jobs /\ job'[j].vm = v
        /\ \A i \in Jobs : i # j => job'[i] = job[i]
        /\ \A f \in Firsts : Since(job'[j], f) =>
             Since(job[j], f) \/ f = "acquireVMTicket"
    BY <1>v, <2>1, <2>2, MinorSince
  <2>4. /\ InLine(j, v)'
        /\ \A i, sc : sc \in Scopes /\ InLine(i, sc) => InLine(i, sc)'
        /\ \A i, sc : sc \in Scopes /\ Holds(i, sc) => Holds(i, sc)'
    BY <1>a, <2>1, AppendKeeps
  <2>5. ASSUME NEW i \in Jobs, Since(job'[i], "acquireVMTicket")
        PROVE  InLine(i, job[i].vm)'
    <3>1. CASE i = j
      BY <2>3, <2>4, <3>1 DEF InLine
    <3>2. CASE i # j
      <4>1. job'[i] = job[i] /\ InLine(i, job[i].vm)
        BY <2>3, <2>5, <3>2 DEF TicketInv
      <4>2. InLine(i, job[i].vm)'
        BY <1>a, <2>4, <4>1
      <4> QED BY <4>1, <4>2 DEF InLine
    <3> QED BY <3>1, <3>2
  <2>6. ASSUME NEW i \in Jobs, Since(job'[i], "waitOnVMTicket")
        PROVE  Holds(i, job[i].vm)'
    <3>1. Since(job[i], "waitOnVMTicket") /\ job'[i].vm = job[i].vm
      BY <1>v, <2>3, <2>6 DEF Firsts
    <3>2. Holds(i, job[i].vm)
      BY <3>1 DEF TicketInv
    <3>3. Holds(i, job[i].vm)'
      BY <1>a, <2>4, <3>1, <3>2
    <3> QED BY <3>3
  <2> QED BY <2>3, <2>5, <2>6 DEF TicketInv, InLine, Holds
<1>2. CASE waitOnVMTicket(j)
  <2>1. /\ At(j, "waitOnVMTicket") /\ Minor(j, {}) /\ queue' = queue
        /\ Holds(j, v) \/ ~InLine(j, v)
    BY <1>2, <1>a, <1>v, WaitStep DEF waitOnVMTicket
  <2>2. /\ Since(job[j], "acquireVMTicket")
        /\ InLine(j, v) /\ Holds(j, v)
    BY <1>v, <2>1, WaitsInLine DEF TicketInv
  <2>3. /\ Jobs' = Jobs /\ job'[j].vm = v
        /\ \A i \in Jobs : i # j => job'[i] = job[i]
    BY <1>v, <2>1, MinorSince
  <2> QED BY <2>1, <2>2, <2>3 DEF TicketInv, InLine, Holds
<1>3. CASE releaseVMTicket(j) \/ releaseVMTicketIgnoringErr(j)
  <2>1. /\ \E task \in {"releaseVMTicket", "releaseVMTicketIgnoringErr"} :
             At(j, task)
        /\ job' = [job EXCEPT ![j] = Next1(job[j])]
        /\ queue' = queue \/ queue' = Without(v, j)
    BY <1>3, <1>v
       DEF releaseVMTicket, releaseVMTicketIgnoringErr, Release, Proceed
  <2>2. Jobs' = Jobs /\ \A i \in Jobs : i # j => job'[i] = job[i]
    BY <2>1 DEF JobType, Jobs
  <2>3. \A f \in Firsts : ~Since(job'[j], f)
    BY <2>1, NoSinceAfter
  <2>4. /\ \A i, sc : sc \in Scopes /\ i # j /\ InLine(i, sc) => InLine(i, sc)'
        /\ \A i, sc : sc \in Scopes /\ i # j /\ Holds(i, sc) => Holds(i, sc)'
    <3>1. CASE queue' = queue
      BY <3>1 DEF InLine, Holds
    <3>2. CASE queue' = Without(v, j)
      BY <1>a, <3>2, WithoutKeeps
    <3> QED BY <2>1, <3>1, <3>2
  <2>5. ASSUME NEW i \in Jobs, NEW f \in Firsts, Since(job'[i], f)
        PROVE  /\ Since(job[i], f) /\ job'[i].vm = job[i].vm
               /\ InLine(i, job[i].vm) => InLine(i, job[i].vm)'
               /\ Holds(i, job[i].vm) => Holds(i, job[i].vm)'
    <3>1. i # j /\ job'[i] = job[i]
      BY <2>2, <2>3, <2>5
    <3> QED BY <1>a, <2>4, <2>5, <3>1
  <2> QED BY <2>2, <2>5, TicketFrame
<1>4. CASE acquireAllocationTicket(j)
  <2>1. /\ At(j, "acquireAllocationTicket") /\ Minor(j, {})
        /\ queue' = [queue EXCEPT !["allocate"] = Append(@, j)]
    BY <1>4, ScopesAre, AcquireStep DEF acquireAllocationTicket
  <2>2. LeavesVms
    BY <2>1, AppendKeeps, ScopesAre DEF LeavesVms
  <2>3. Steps(job[j])[job[j].pc] \notin Firsts
    BY <2>1, AtOK DEF Firsts
  <2> QED BY <2>1, <2>2, <2>3, TicketMinor
<1>5. CASE waitOnAllocationTicket(j)
  <2>1. At(j, "waitOnAllocationTicket") /\ Minor(j, {}) /\ queue' = queue
    BY <1>5, ScopesAre, WaitStep DEF waitOnAllocationTicket
  <2>2. Steps(job[j])[job[j].pc] \notin Firsts
    BY <2>1, AtOK DEF Firsts
  <2> QED BY <1>b, <2>1, <2>2, TicketMinor
<1>6. CASE releaseAllocationTicket(j) /\ "allocate" \in job[j].tickets
  <2>1. At(j, "releaseAllocationTicket") /\ Release(j, "allocate")
    BY <1>6 DEF releaseAllocationTicket
  <2>2. /\ Minor(j, {})
        /\ queue' = queue \/ queue' = Without("allocate", j)
    BY <2>1, ScopesAre, ReleaseStep, "releaseAllocationTicket" \notin {}
  <2>3. LeavesVms
    BY <1>b, <2>2, WithoutKeeps, ScopesAre DEF LeavesVms
  <2>4. Steps(job[j])[job[j].pc] \notin Firsts
    BY <2>1, AtOK DEF Firsts
  <2> QED BY <2>2, <2>3, <2>4, TicketMinor
<1>7. CASE releaseAllocationTicket(j) /\ "allocate" \notin job[j].tickets
  <2>1. Crash(j)
    BY <1>7 DEF releaseAllocationTicket, Crash
  <2>2. queue' = queue /\ Jobs' = Jobs
    BY <2>1, CrashTyped DEF Crash
  <2>3. ASSUME NEW i \in Jobs, NEW f \in Firsts, Since(job'[i], f)
        PROVE  job'[i] = job[i]
    BY <2>1, <2>3, CrashTyped DEF Since
  <2> QED BY <2>2, <2>3, TicketFrame DEF InLine, Holds
<1> QED BY <1>1, <1>2, <1>3, <1>4, <1>5, <1>6, <1>7 DEF TicketTasks

\* Jobs are not canceled, nor do they fail behind a task that CNAPI took
LEMMA PatientJobs ==
  ASSUME JobType, QueueType, UsedType, Patient,
         NEW j \in Jobs, CancelJob(j) \/ AnswerLost(j)
  PROVE  FALSE
<1>1. CASE CancelJob(j)
  <2>1. used.cancels < MaxCancels /\ used.cancels \in Nat
    BY <1>1, CancelStep DEF UsedType
  <2> QED BY <2>1 DEF Patient
<1>2. CASE AnswerLost(j)
  BY <1>2, LostStep DEF Patient
<1> QED BY <1>1, <1>2

\* The place in line is kept by whatever else moves a job on
LEMMA TicketOfOthers ==
  ASSUME TypeInv, TicketInv, Patient, Move,
         \A j \in Jobs : ~TicketTasks(j)
  PROVE  TicketInv'
<1>a. JobType /\ QueueType /\ UsedType
  BY TypeInvIs DEF TypeInvParts
<1>b. queue' = queue => LeavesVms
  BY DEF LeavesVms
<1>1. ASSUME NEW j \in Jobs, Minor(j, Lines), LeavesOther
      PROVE  TicketInv'
  BY <1>1, <1>a, TicketMinor DEF LeavesOther, Firsts, Lines
<1>2. ASSUME NEW j \in Jobs, TaskFails(j)
      PROVE  TicketInv'
  <2>1. Minor(j, Lines) /\ queue' = queue
    BY <1>a, <1>2, FaultStep, FewerStages
  <2> QED BY <1>a, <1>b, <2>1, TicketMinor DEF Firsts, Lines
<1>3. ASSUME NEW j \in Jobs, LooksAtNics(j), LeavesOther
      PROVE  TicketInv'
  <2>1. PICK s \in JobRecs :
          /\ SameKey(s, job[j]) /\ s.vm = job[j].vm
          /\ Jobs' = Jobs /\ job'[j] = s
          /\ \A i \in Jobs : i # j => job'[i] = job[i]
    BY <1>a, <1>3, LookTyped
  <2>2. /\ job[j].mode = "chain" /\ job[j].pc = 3
        /\ Steps(job[j])[1] = "acquireVMTicket"
        /\ Steps(job[j])[2] = "waitOnVMTicket"
    BY <1>a, <1>3, LookStep
  <2>3. /\ 1 \in 1..(job[j].pc - 1) /\ 2 \in 1..(job[j].pc - 1)
        /\ \A k, m \in 1..2 : m \in k..(job[j].pc - 1) => m = 1 \/ m = 2
        /\ \A k \in 1..2 : \A m \in k..(job[j].pc - 1) : m \in 1..2
    BY <2>2
  <2>4. ASSUME NEW f \in Firsts
        PROVE  Since(job[j], f)
    <3>1. CASE f = "acquireVMTicket"
      BY <2>2, <2>3, <3>1 DEF Since, PastWithout
    <3>2. CASE f = "waitOnVMTicket"
      BY <2>2, <2>3, <3>2 DEF Since, PastWithout
    <3> QED BY <3>1, <3>2 DEF Firsts
  <2> QED BY <1>a, <1>3, <2>1, <2>4, TicketQuiet DEF LeavesOther
<1>4. ASSUME NEW j \in Jobs, NEW x \in JobRecs, NEW s \in JobRecs,
             SameFlow(x, job[j]), PcOK(x), x.mode # "ended",
             Steps(job[j])[job[j].pc] \notin Firsts,
             s = Next1(x), SameData(s, x), Jobs' = Jobs, queue' = queue,
             job'[j] = s, \A i \in Jobs : i # j => job'[i] = job[i]
      PROVE  TicketInv'
  <2>1. Steps(x)[x.pc] \notin Firsts /\ s.vm = job[j].vm
    BY <1>4 DEF SameFlow, SameData
  <2>2. ASSUME NEW f \in Firsts, Since(s, f)
        PROVE  Since(job[j], f)
    <3>1. Since(x, f)
      BY <1>4, <2>1, <2>2, SinceNext
    <3> QED BY <1>4, <3>1, SinceFlow
  <2> QED BY <1>a, <1>b, <1>4, <2>1, <2>2, TicketQuiet
<1>5. ASSUME NEW j \in Jobs, Allocates(j)
      PROVE  TicketInv'
  <2>1. queue' = queue /\ "getAllocation" \notin Firsts
    BY <1>5 DEF Allocates, Firsts
  <2> QED BY <1>a, <1>4, <1>5, <2>1, AllocatesTyped
<1>6. ASSUME NEW j \in Jobs, Starts(j)
      PROVE  TicketInv'
  <2>1. queue' = queue /\ Queueing \cap Firsts = {}
    BY <1>6 DEF Starts, Queueing, Firsts
  <2> QED BY <1>a, <1>4, <1>6, <2>1, StartsTyped
<1>7. ASSUME NEW j \in Jobs, Finishes(j)
      PROVE  TicketInv'
  <2>1. PICK x \in JobRecs :
          /\ SameFlow(x, job[j]) /\ Jobs' = Jobs /\ job'[j] = x
          /\ \A i \in Jobs : i # j => job'[i] = job[i]
    BY <1>a, <1>7, FinishesTyped
  <2>2. queue' = queue
    BY <1>7 DEF Finishes
  <2>3. \A f \in Firsts : Since(x, f) => Since(job[j], f)
    BY <2>1, SinceFlow
  <2> QED BY <1>a, <1>b, <2>1, <2>2, <2>3, TicketQuiet DEF SameFlow
<1>8. ASSUME NEW j \in Jobs, CancelJob(j) \/ AnswerLost(j)
      PROVE  FALSE
  BY <1>8, PatientJobs, <1>a
<1>9. ASSUME NEW r, Asks(r)
      PROVE  TicketInv'
  <2>1. /\ Jobs' = Jobs \cup {Len(job) + 1}
        /\ job'[Len(job) + 1] = r /\ \A j \in Jobs : job'[j] = job[j]
        /\ queue' = queue /\ r.mode = "request" /\ r.pc = 1
    BY <1>a, <1>9, AskStep DEF Asks
  <2>2. \A f \in Firsts : ~Since(r, f)
    <3>1. \A k : k \notin 1..(r.pc - 1)
      BY <2>1
    <3> QED BY <2>1, <3>1 DEF Since, PastWithout
  <2>3. ASSUME NEW i \in Jobs', NEW f \in Firsts, Since(job'[i], f)
        PROVE  i \in Jobs /\ job'[i] = job[i]
    BY <2>1, <2>2, <2>3
  <2> QED BY <2>1, <2>3 DEF TicketInv, InLine, Holds, Firsts
<1>10. ASSUME Expires
       PROVE  TicketInv'
  <2>1. PICK scope \in Scopes, j \in Jobs :
          queue' = Without(scope, j) /\ Ended(j)
    BY <1>10 DEF Expires, Patient
  <2>2. job' = job /\ Jobs' = Jobs
    BY <1>a, <1>10, StillTyped DEF Expires
  <2>3. /\ \A i, sc : sc \in Scopes /\ i # j /\ InLine(i, sc) => InLine(i, sc)'
        /\ \A i, sc : sc \in Scopes /\ i # j /\ Holds(i, sc) => Holds(i, sc)'
    BY <1>a, <2>1, WithoutKeeps
  <2>4. ASSUME NEW i \in Jobs, NEW f \in Firsts, Since(job'[i], f)
        PROVE  /\ Since(job[i], f) /\ job'[i].vm = job[i].vm
               /\ InLine(i, job[i].vm) => InLine(i, job[i].vm)'
               /\ Holds(i, job[i].vm) => Holds(i, job[i].vm)'
    <3>1. i # j /\ job'[i] = job[i]
      BY <2>1, <2>2, <2>4 DEF Since, Ended
    <3>2. job[i].vm \in Scopes
      BY <1>a, JobTyped, ScopesAre DEF JobRecs
    <3> QED BY <2>3, <2>4, <3>1, <3>2
  <2> QED BY <2>2, <2>4, TicketFrame
<1>11. ASSUME job' = job, queue' = queue
       PROVE  TicketInv'
  <2>1. Jobs' = Jobs
    BY <1>a, <1>11, StillTyped
  <2> QED BY <1>11, <2>1 DEF TicketInv, InLine, Holds
<1> QED
  BY <1>1, <1>2, <1>3, <1>5, <1>6, <1>7, <1>8, <1>9, <1>10, <1>11 DEF Move

\* Every move keeps the tickets in order, if jobs are patient
LEMMA TicketNext ==
  ASSUME TypeInv, TicketInv, Patient, Move
  PROVE  TicketInv'
<1>1. JobType /\ QueueType /\ UsedType
  BY TypeInvIs DEF TypeInvParts
<1> QED BY <1>1, TicketOfTickets, TicketOfOthers

\* What is said of a job while its task is queued
Awaits(r) ==
    /\ r.mode = "chain" /\ Since(r, "waitOnVMTicket")
    /\ \/ Steps(r)[r.pc] = "waitTask"
       \/ Between(r.kind, Steps(r)[r.pc])

\* What a task changes of its job does not matter to what it awaits
LEMMA AwaitsFlow ==
  ASSUME NEW x, NEW r, SameFlow(x, r)
  PROVE  Awaits(x) <=> Awaits(r)
<1>1. Since(x, "waitOnVMTicket") <=> Since(r, "waitOnVMTicket")
  BY SinceFlow
<1> QED BY <1>1 DEF Awaits, SameFlow

\* One job moves, and awaits its task if it has one
LEMMA TaskFrame ==
  ASSUME TaskInv, NEW j \in Jobs, Jobs' = Jobs,
         \A i \in Jobs : i # j => job'[i] = job[i],
         job'[j].task = "queued" => Awaits(job'[j])
  PROVE  TaskInv'
<1>1. \A i \in Jobs : job'[i].task = "queued" => Awaits(job'[i])
  BY DEF TaskInv, Awaits
<1> QED BY <1>1 DEF TaskInv, Awaits

\* A job whose task is queued is where it is awaited, and nowhere else
LEMMA AwaitedAt ==
  ASSUME JobType, TaskInv, NEW j \in Jobs, NEW task, At(j, task),
         task \notin {"waitTask", "removeNics", "markVmAsDestroyed"}
  PROVE  job[j].task # "queued"
  BY AtOK DEF TaskInv, Between

\* A minor step leaves the task in CNAPI alone
LEMMA MinorTask ==
  ASSUME JobType, NEW j \in Jobs, NEW T, Minor(j, T)
  PROVE  job'[j].task = job[j].task
<1>1. PICK x \in JobRecs, s \in JobRecs :
        /\ SameKey(x, job[j]) /\ Outcome(s, x, T) /\ PcOK(x) /\ job'[j] = s
  BY MinorTyped
<1>2. s.task = x.task
  BY <1>1, OutcomeOK DEF SameData
<1> QED BY <1>1, <1>2 DEF SameKey

\* A job that goes on in its chain keeps its ticket
LEMMA StepsOn ==
  ASSUME NEW r \in JobRecs, PcOK(r), r.mode = "chain",
         Since(r, "waitOnVMTicket"), r.pc < Len(Steps(r)),
         Steps(r)[r.pc] # "releaseVMTicket"
  PROVE  Since(Next1(r), "waitOnVMTicket")
<1> DEFINE s == Next1(r)
<1>1. /\ s.mode = "chain" /\ s.kind = r.kind /\ s.pc = r.pc + 1
      /\ Steps(s) = Steps(r)
  BY Next1OK DEF SameData
<1>2. r.pc \in Nat /\ s.pc - 1 = r.pc
  BY <1>1 DEF JobRecs
<1> HIDE DEF s
<1>3. CASE PastWithout(r, "waitOnVMTicket")
  <2>1. PICK k \in 1..(r.pc - 1) :
          /\ Steps(r)[k] = "waitOnVMTicket"
          /\ \A m \in k..(r.pc - 1) : Steps(r)[m] # "releaseVMTicket"
    BY <1>3 DEF PastWithout
  <2>2. /\ k \in 1..r.pc
        /\ \A m \in k..r.pc : m \in k..(r.pc - 1) \/ m = r.pc
    BY <1>2
  <2>3. \A m \in k..r.pc : Steps(r)[m] # "releaseVMTicket"
    BY <2>1, <2>2
  <2>4. PastWithout(s, "waitOnVMTicket")
    BY <1>1, <1>2, <2>1, <2>2, <2>3 DEF PastWithout
  <2> QED BY <1>1, <2>4 DEF Since, s
<1>4. CASE ~PastWithout(r, "waitOnVMTicket")
  <2>1. /\ r.kind = "create"
        /\ \A m \in 1..(r.pc - 1) : Steps(r)[m] # "releaseVMTicket"
    BY <1>4 DEF Since
  <2>2. \A m \in 1..r.pc : m \in 1..(r.pc - 1) \/ m = r.pc
    BY <1>2
  <2>3. \A m \in 1..(s.pc - 1) : Steps(s)[m] # "releaseVMTicket"
    BY <1>1, <1>2, <2>1, <2>2
  <2> QED BY <1>1, <2>1, <2>3 DEF Since, s
<1> QED BY <1>3, <1>4

\* A task is queued under the VM's ticket, and awaited next
LEMMA StartAwaits ==
  ASSUME JobType, NEW j \in Jobs, Starts(j)
  PROVE  Awaits(job'[j])
<1> DEFINE r == job[j]
<1>1. PICK x \in JobRecs, s \in JobRecs :
        /\ SameFlow(x, r) /\ PcOK(x) /\ x.mode = "chain"
        /\ Steps(r)[r.pc] \in Queueing /\ ChainGood(Steps(r), r.kind, r.pc)
        /\ s = Next1(x) /\ job'[j] = s
  BY StartsTyped
<1>2. /\ Steps(x)[x.pc] \in Queueing /\ ChainGood(Steps(x), x.kind, x.pc)
      /\ x.pc \in Nat /\ x.pc \in 1..Len(Steps(x)) /\ Len(Steps(x)) \in Nat
  BY <1>1, StepsAre DEF SameFlow, PcOK, JobRecs, StepsGood
<1> HIDE DEF r
<1>3. /\ x.pc < Len(Steps(x)) /\ Steps(x)[x.pc] # "releaseVMTicket"
      /\ \/ Steps(x)[x.pc + 1] = "waitTask"
         \/ Between(x.kind, Steps(x)[x.pc + 1])
  BY <1>2 DEF ChainGood, Queueing
<1>4. Since(x, "waitOnVMTicket")
  <2>1. CASE x.kind = "create"
    <3>1. Steps(x)[x.pc] = "provision"
      BY <1>2, <2>1 DEF ChainGood, Queueing
    <3> QED BY <1>1, <1>2, <2>1, <3>1 DEF ChainGood, Since
  <2>2. CASE x.pc > 1 /\ Steps(x)[x.pc - 1] = "waitOnVMTicket"
    <3>1. /\ x.pc - 1 \in 1..(x.pc - 1)
          /\ \A m \in (x.pc - 1)..(x.pc - 1) : m = x.pc - 1
      BY <1>2, <2>2
    <3> QED BY <1>1, <2>2, <3>1 DEF Since, PastWithout
  <2>3. CASE /\ x.pc > 2 /\ Steps(x)[x.pc - 2] = "waitOnVMTicket"
             /\ Steps(x)[x.pc - 1] # "releaseVMTicket"
    <3>1. /\ x.pc - 2 \in 1..(x.pc - 1)
          /\ \A m \in (x.pc - 2)..(x.pc - 1) : m = x.pc - 1 \/ m = x.pc - 2
      BY <1>2, <2>3
    <3> QED BY <1>1, <2>3, <3>1 DEF Since, PastWithout
  <2> QED BY <1>2, <2>1, <2>2, <2>3 DEF ChainGood
<1>5. Since(s, "waitOnVMTicket")
  BY <1>1, <1>3, <1>4, StepsOn
<1>6. /\ s.mode = "chain" /\ s.kind = x.kind /\ s.pc = x.pc + 1
      /\ Steps(s) = Steps(x)
  BY <1>1, <1>3, Next1OK DEF SameData
<1> QED BY <1>1, <1>3, <1>5, <1>6 DEF Awaits

\* A minor step does not lead away from a task that is queued
LEMMA MinorAwaits ==
  ASSUME JobType, TaskInv, NEW j \in Jobs, Minor(j, Lines), Waits(j)
  PROVE  job'[j].task = "queued" => Awaits(job'[j])
<1>1. SUFFICES ASSUME job'[j].task = "queued" PROVE Awaits(job'[j])
  OBVIOUS
<1>2. job[j].task = "queued" /\ Awaits(job[j])
  BY <1>1, MinorTask DEF TaskInv, Awaits
<1>3. /\ job[j] \in JobRecs /\ PcOK(job[j]) /\ job[j].pc \in Nat
      /\ Len(Steps(job[j])) \in Nat /\ job[j].pc \in 1..Len(Steps(job[j]))
      /\ job[j].mode = "chain" /\ StepsGood(job[j])
  BY <1>2, JobTyped DEF Awaits, JobRecs, PcOK, StepsGood
<1>4. job[j].pc <= Len(Steps(job[j]))
  BY <1>3
<1>5. CASE SameFlow(job'[j], job[j])
  BY <1>2, <1>5, AwaitsFlow
<1>6. CASE ~SameFlow(job'[j], job[j])
  <2>1. /\ Between(job[j].kind, Steps(job[j])[job[j].pc])
        /\ Steps(job[j])[job[j].pc] \in {"removeNics", "markVmAsDestroyed"}
        /\ job'[j] = Next1(job[j])
    BY <1>2, <1>4, <1>6 DEF Awaits, Waits, At, Between
  <2>2. /\ job[j].pc < Len(Steps(job[j]))
        /\ Steps(job[j])[job[j].pc + 1] = "waitTask"
    BY <1>3, <2>1 DEF StepsGood, ChainGood
  <2>3. Since(job'[j], "waitOnVMTicket")
    BY <1>2, <1>3, <2>1, <2>2, StepsOn DEF Awaits
  <2>4. /\ job'[j].mode = "chain" /\ job'[j].pc = job[j].pc + 1
        /\ Steps(job'[j]) = Steps(job[j])
    BY <1>3, <2>1, <2>2, Next1OK
  <2> QED BY <2>2, <2>3, <2>4 DEF Awaits
<1> QED BY <1>5, <1>6

\* Every move keeps tasks awaited, if jobs are patient
LEMMA TaskNext ==
  ASSUME TypeInv, TaskInv, Patient, Move
  PROVE  TaskInv'
<1>a. JobType /\ QueueType /\ UsedType
  BY TypeInvIs DEF TypeInvParts
<1>1. ASSUME NEW j \in Jobs, TicketTasks(j)
      PROVE  TaskInv'
  <2>1. \E task : /\ At(j, task)
                  /\ task \notin {"waitTask", "removeNics",
                                  "markVmAsDestroyed"}
    BY <1>1 DEF TicketTasks, acquireVMTicket, waitOnVMTicket,
                releaseVMTicket, releaseVMTicketIgnoringErr,
                acquireAllocationTicket, waitOnAllocationTicket,
                releaseAllocationTicket
  <2>2. job[j].task # "queued"
    BY <1>a, <2>1, AwaitedAt
  <2>3. CASE Minor(j, {})
    BY <1>a, <2>2, <2>3, MinorTask, MinorSince, TaskFrame
  <2>4. CASE Crash(j)
    <3>1. /\ Jobs' = Jobs
          /\ \A i \in Jobs :
                \/ job'[i] = job[i]
                \/ /\ job[i].mode \in {"request", "cleanup"}
                   /\ job'[i].task = job[i].task
      BY <1>a, <2>4, CrashTyped DEF SameData
    <3> QED BY <3>1 DEF TaskInv
  <2> QED BY <1>a, <1>1, <2>3, <2>4, TicketStep
<1>2. ASSUME NEW j \in Jobs, Minor(j, Lines), Waits(j)
      PROVE  TaskInv'
  BY <1>a, <1>2, MinorAwaits, MinorSince, TaskFrame
<1>3. ASSUME NEW j \in Jobs, TaskFails(j)
      PROVE  TaskInv'
  <2>1. PICK task \in FailingTasks : At(j, task)
    BY <1>3 DEF TaskFails
  <2>2. Steps(job[j])[job[j].pc] = task /\ job[j].kind \in Kinds
    BY <1>a, <2>1, AtOK, JobTyped DEF JobRecs
  <2>3. job[j].task # "queued"
    BY <2>1, <2>2 DEF TaskInv, Patient, Between
  <2>4. Minor(j, Lines)
    BY <1>a, <1>3, FaultStep, FewerStages
  <2> QED BY <1>a, <2>3, <2>4, MinorTask, MinorSince, TaskFrame
<1>4. ASSUME NEW j \in Jobs, LooksAtNics(j)
      PROVE  TaskInv'
  <2>1. job[j].task # "queued"
    BY <1>a, <1>4, AwaitedAt DEF LooksAtNics
  <2> QED BY <1>a, <1>4, <2>1, LookTyped, TaskFrame DEF SameKey
<1>5. ASSUME NEW j \in Jobs, Allocates(j)
      PROVE  TaskInv'
  <2>1. job[j].task # "queued"
    BY <1>a, <1>5, AwaitedAt DEF Allocates
  <2> QED BY <1>a, <1>5, <2>1, AllocatesTyped, TaskFrame DEF SameData
<1>6. ASSUME NEW j \in Jobs, Starts(j)
      PROVE  TaskInv'
  BY <1>a, <1>6, StartsTyped, StartAwaits, TaskFrame
<1>7. ASSUME NEW j \in Jobs, Finishes(j)
      PROVE  TaskInv'
  BY <1>a, <1>7, FinishesTyped, TaskFrame
<1>8. ASSUME NEW j \in Jobs, CancelJob(j) \/ AnswerLost(j)
      PROVE  FALSE
  BY <1>8, PatientJobs, <1>a
<1>9. ASSUME NEW r, Asks(r)
      PROVE  TaskInv'
  <2>1. /\ Jobs' = Jobs \cup {Len(job) + 1} /\ r.task = "none"
        /\ job'[Len(job) + 1] = r /\ \A j \in Jobs : job'[j] = job[j]
    BY <1>a, <1>9, AskStep DEF Asks
  <2> QED BY <2>1 DEF TaskInv
<1>10. ASSUME job' = job
       PROVE  TaskInv'
  BY <1>a, <1>10, StillTyped DEF TaskInv
<1> QED
  BY <1>1, <1>2, <1>3, <1>4, <1>5, <1>6, <1>7, <1>8, <1>9, <1>10
     DEF Move, Expires

\* What TypeInv, the tickets and the tasks say together
TasksInvariant == TypeInv /\ TicketInv /\ TaskInv

\* It is inductive, and of two jobs that await a task each is first in line
LEMMA TasksInvariantKept ==
  ASSUME Patient
  PROVE  /\ TypeInv /\ Jobs = {} => TasksInvariant
         /\ TasksInvariant /\ [Next]_vars => TasksInvariant'
         /\ TasksInvariant => OneTaskPerVm
<1>1. TypeInv /\ Jobs = {} => TasksInvariant
  BY DEF TasksInvariant, TicketInv, TaskInv
<1>2. TasksInvariant /\ [Next]_vars => TasksInvariant'
  BY StepMoves, TicketNext, TaskNext DEF TasksInvariant
<1>3. TasksInvariant => OneTaskPerVm
  <2> SUFFICES ASSUME TasksInvariant, NEW i \in Jobs, NEW j \in Jobs,
                      job[i].task = "queued", job[j].task = "queued",
                      i # j, job[i].vm = job[j].vm
               PROVE  FALSE
    BY DEF OneTaskPerVm
  <2>1. Holds(i, job[i].vm) /\ Holds(j, job[j].vm)
    BY DEF TasksInvariant, TaskInv, TicketInv
  <2> QED BY <2>1 DEF Holds
<1> QED BY <1>1, <1>2, <1>3

\* While the workflows' tickets and tasks are waited for, CNAPI works on one
\* task of a VM at a time: every chain, as well as a create in its request,
\* holds the VM's ticket from before it queues its task until after it
THEOREM OneTaskCorrect == Patient => (Spec => []OneTaskPerVm)
<1> SUFFICES ASSUME Patient PROVE Spec => []OneTaskPerVm
  OBVIOUS
<1>1. Init => TypeInv /\ Jobs = {}
  BY InitTyped DEF Init, WorkflowsInit, Jobs
<1> QED BY <1>1, TasksInvariantKept, PTL DEF Spec

\* The same from any VMs, NICs and volumes that were there before the first
\* request, whatever has happened to them
THEOREM OneTaskOnExisting ==
  Patient => (TypeInv /\ Jobs = {} /\ [][Next]_vars => []OneTaskPerVm)
<1> SUFFICES ASSUME Patient
             PROVE  TypeInv /\ Jobs = {} /\ [][Next]_vars => []OneTaskPerVm
  OBVIOUS
<1> QED BY TasksInvariantKept, PTL

-----------------------------------------------------------------------------
(* One VM for each server.                                                  *)
\* A create that is past a step of its allocation, and has not given up the
\* ticket for it
Allocating(r, n) ==
    r.kind = "create" /\ r.mode = "request" /\ r.pc \in n..6
AllocInv ==
    \A j \in Jobs :
        /\ Allocating(job[j], 2) => InLine(j, "allocate")
        /\ Allocating(job[j], 3) => Holds(j, "allocate")

\* The places of a create's request
LEMMA CreatePlaces ==
  ASSUME NEW r \in JobRecs, PcOK(r), r.kind = "create", r.mode = "request"
  PROVE  /\ Steps(r)[r.pc] = "acquireAllocationTicket" <=> r.pc = 1
         /\ Steps(r)[r.pc] = "waitOnAllocationTicket" <=> r.pc = 2
         /\ Steps(r)[r.pc] = "getAllocation" <=> r.pc = 3
         /\ r.pc \in 1..9 /\ Len(Steps(r)) = 9
<1>1. StepsGood(r) /\ r.pc \in 1..Len(Steps(r))
  BY StepsAre DEF PcOK
<1>2. r.pc \in 1..9 /\ Len(Steps(r)) = 9
  BY <1>1 DEF StepsGood
<1>3. \/ r.pc = 1 \/ r.pc = 2 \/ r.pc = 3 \/ r.pc = 4 \/ r.pc = 5
      \/ r.pc = 6 \/ r.pc = 7 \/ r.pc = 8 \/ r.pc = 9
  BY <1>2
<1> QED BY <1>1, <1>2, <1>3 DEF StepsGood

\* A create gets past the tasks for the allocation only through them
LEMMA AllocatingNext ==
  ASSUME NEW x \in JobRecs, PcOK(x), NEW T, NEW s, Outcome(s, x, T),
         NEW n \in {2, 3}, Allocating(s, n)
  PROVE  /\ x.mode = "request" /\ x.kind = "create"
         /\ Allocating(x, n) \/ x.pc = n - 1
<1>1. CASE s = x
  BY <1>1 DEF Allocating
<1>2. CASE x.mode # "ended" /\ s = Next1(x)
  <2>1. s.kind = x.kind /\ s.kind = "create" /\ s.mode = "request"
    BY <1>2, Next1OK DEF Allocating, SameData
  <2>2. x.pc \in Nat /\ Len(Steps(x)) \in Nat
    BY StepsAre DEF JobRecs, StepsGood
  <2>3. x.pc < Len(Steps(x))
    BY <1>2, <2>1, <2>2, Next1OK
  <2>4. x.mode = "request" /\ s.pc = x.pc + 1
    BY <1>2, <2>1, <2>3, Next1OK
  <2>5. x.pc + 1 \in n..6
    BY <2>4 DEF Allocating
  <2>6. x.pc \in n..6 \/ x.pc = n - 1
    BY <2>2, <2>5
  <2> QED BY <2>1, <2>4, <2>6 DEF Allocating
<1>3. CASE x.mode # "ended" /\ s = Failed(x)
  BY <1>3, FailedOK DEF Allocating, JobRecs, Modes
<1>4. CASE /\ x.mode = "chain"
           /\ Steps(x)[x.pc] \in {"getNetwork", "listNics"}
           /\ s = Next1(Next1(x))
  <2>1. StepsGood(x) /\ x.pc \in 1..Len(Steps(x))
    BY <1>4, StepsAre DEF PcOK
  <2>2. x.pc < Len(Steps(x))
    BY <1>4, <2>1 DEF StepsGood, ChainGood
  <2>3. /\ Next1(x) \in JobRecs /\ PcOK(Next1(x)) /\ Next1(x).mode = "chain"
    BY <1>4, <2>2, Next1OK
  <2>4. Len(Steps(Next1(x))) \in Nat /\ Next1(x).pc \in Nat
    BY <2>3, StepsAre DEF JobRecs, StepsGood
  <2>5. s.mode \in {"chain", "ended"}
    BY <1>4, <2>3, <2>4, Next1OK
  <2> QED BY <2>5 DEF Allocating
<1> QED BY <1>1, <1>2, <1>3, <1>4 DEF Outcome

\* The same for a minor step
LEMMA MinorAllocating ==
  ASSUME JobType, NEW j \in Jobs, NEW T, Minor(j, T), NEW n \in {2, 3},
         Allocating(job'[j], n)
  PROVE  /\ job[j].mode = "request" /\ job[j].kind = "create"
         /\ Allocating(job[j], n) \/ job[j].pc = n - 1
<1>1. PICK x \in JobRecs, s \in JobRecs :
        /\ SameFlow(x, job[j]) /\ Outcome(s, x, T) /\ PcOK(x) /\ job'[j] = s
  BY MinorTyped
<1>2. /\ x.mode = "request" /\ x.kind = "create"
      /\ Allocating(x, n) \/ x.pc = n - 1
  BY <1>1, AllocatingNext
<1> QED BY <1>1, <1>2 DEF SameFlow, Allocating

\* Nobody loses a place in the line for the allocation
LEMMA AllocFrame ==
  ASSUME AllocInv, Jobs' = Jobs,
         \A i \in Jobs, n \in {2, 3} : Allocating(job'[i], n) =>
            /\ Allocating(job[i], n)
            /\ InLine(i, "allocate") => InLine(i, "allocate")'
            /\ Holds(i, "allocate") => Holds(i, "allocate")'
  PROVE  AllocInv'
  BY DEF AllocInv

\* A step that leaves the queue alone and is not one for the ticket
LEMMA AllocQuiet ==
  ASSUME JobType, AllocInv, NEW j \in Jobs, Jobs' = Jobs,
         queue'["allocate"] = queue["allocate"],
         \A i \in Jobs : i # j => job'[i] = job[i],
         \A n \in {2, 3} : Allocating(job'[j], n) => Allocating(job[j], n)
  PROVE  AllocInv'
<1>1. \A i : /\ InLine(i, "allocate") => InLine(i, "allocate")'
             /\ Holds(i, "allocate") => Holds(i, "allocate")'
  BY DEF InLine, Holds
<1> QED BY <1>1, AllocFrame

\* A minor step that is not one for the allocation ticket
LEMMA AllocMinor ==
  ASSUME JobType, AllocInv, NEW j \in Jobs, NEW T, Minor(j, T),
         queue'["allocate"] = queue["allocate"],
         \/ T = Lines
         \/ Steps(job[j])[job[j].pc] \notin
              {"acquireAllocationTicket", "waitOnAllocationTicket"}
  PROVE  AllocInv'
<1>1. /\ Jobs' = Jobs /\ \A i \in Jobs : i # j => job'[i] = job[i]
  BY MinorSince
<1>2. ASSUME NEW n \in {2, 3}, Allocating(job'[j], n)
      PROVE  Allocating(job[j], n)
  <2>1. PICK x \in JobRecs, s \in JobRecs :
          /\ SameFlow(x, job[j]) /\ Outcome(s, x, T) /\ PcOK(x) /\ job'[j] = s
    BY MinorTyped
  <2>2. /\ x.mode = "request" /\ x.kind = "create"
        /\ Allocating(x, n) \/ x.pc = n - 1
    BY <1>2, <2>1, AllocatingNext
  <2>3. CASE Steps(x)[x.pc] \notin
              {"acquireAllocationTicket", "waitOnAllocationTicket"}
    <3>1. x.pc # 1 /\ x.pc # 2
      BY <2>1, <2>2, <2>3, CreatePlaces
    <3> QED BY <2>1, <2>2, <3>1 DEF Allocating, SameFlow
  <2>4. CASE s = x
    BY <1>2, <2>1, <2>4 DEF Allocating, SameFlow
  <2>5. CASE s # x /\ Steps(x)[x.pc] \in Lines /\ T = Lines
    <3>1. s = Failed(x) /\ x.mode # "ended"
      BY <2>1, <2>2, <2>5 DEF Outcome
    <3> QED BY <1>2, <2>1, <2>2, <3>1, FailedOK DEF Allocating
  <2>6. SameFlow(x, job[j])
    BY <2>1
  <2> QED BY <2>3, <2>4, <2>5, <2>6 DEF SameFlow, Lines
<1> QED BY <1>1, <1>2, AllocQuiet

\* A create that gave the allocation ticket up has no need of it
LEMMA ReleasedAllocation ==
  ASSUME JobType, NEW j \in Jobs, At(j, "releaseAllocationTicket"),
         job' = [job EXCEPT ![j] = Next1(job[j])], NEW n \in {2, 3}
  PROVE  ~Allocating(job'[j], n)
<1> DEFINE r == job[j]
<1>1. SUFFICES ASSUME Allocating(job'[j], n) PROVE FALSE
  OBVIOUS
<1>2. job'[j] = Next1(r)
  BY DEF JobType, Jobs
<1>3. /\ r \in JobRecs /\ PcOK(r) /\ r.mode # "ended" /\ StepsGood(r)
      /\ Steps(r)[r.pc] = "releaseAllocationTicket"
  BY JobTyped, AtOK
<1>4. Outcome(Next1(r), r, {})
  BY <1>3 DEF Outcome
<1>5. r.mode = "request" /\ r.kind = "create"
  BY <1>1, <1>2, <1>3, <1>4, AllocatingNext
<1>6. r.pc \in 1..9 /\ Len(Steps(r)) = 9
  BY <1>3, <1>5, CreatePlaces
<1>7. /\ Steps(r)[1] = "acquireAllocationTicket"
      /\ Steps(r)[2] = "waitOnAllocationTicket"
      /\ Steps(r)[3] = "getAllocation" /\ Steps(r)[4] = "putVmInMoray"
      /\ Steps(r)[5] = "acquireVMTicket"
  BY <1>3, <1>5 DEF StepsGood
<1>8. r.pc > 5
  BY <1>3, <1>6, <1>7
<1>9. Next1(r).pc \notin n..6
  <2>1. CASE r.pc < 9
    BY <1>3, <1>6, <1>8, <2>1, Next1OK
  <2>2. CASE r.pc = 9
    BY <1>3, <1>6, <2>2, Next1OK
  <2> QED BY <1>6, <2>1, <2>2
<1> QED BY <1>1, <1>2, <1>9 DEF Allocating

\* The tasks on tickets keep the allocation ticket in order
LEMMA AllocOfTickets ==
  ASSUME JobType, QueueType, UsedType, AllocInv, NEW j \in Jobs,
         TicketTasks(j)
  PROVE  AllocInv'
<1>a. /\ job[j].vm \in Scopes /\ job[j].vm # "allocate"
      /\ "allocate" \in Scopes
  BY JobTyped, ScopesAre DEF JobRecs
<1>b. queue' = queue => queue'["allocate"] = queue["allocate"]
  OBVIOUS
<1>v. PICK v \in Scopes : v = job[j].vm /\ v # "allocate"
  BY <1>a
<1>1. CASE \/ acquireVMTicket(j) \/ waitOnVMTicket(j) \/ releaseVMTicket(j)
           \/ releaseVMTicketIgnoringErr(j)
  <2>1. PICK task : /\ At(j, task) /\ Minor(j, {})
                    /\ task \notin {"acquireAllocationTicket",
                                    "waitOnAllocationTicket"}
                    /\ \/ queue' = queue
                       \/ queue' = [queue EXCEPT ![v] = Append(@, j)]
                       \/ queue' = Without(v, j)
    <3>1. CASE acquireVMTicket(j)
      <4>1. /\ At(j, "acquireVMTicket") /\ Minor(j, {})
            /\ queue' = [queue EXCEPT ![v] = Append(@, j)]
        BY <1>v, <3>1, AcquireStep DEF acquireVMTicket
      <4> QED BY <4>1
    <3>2. CASE waitOnVMTicket(j)
      <4>1. /\ At(j, "waitOnVMTicket") /\ Minor(j, {}) /\ queue' = queue
        BY <1>v, <3>2, WaitStep DEF waitOnVMTicket
      <4> QED BY <4>1
    <3>3. CASE releaseVMTicket(j)
      <4>1. /\ At(j, "releaseVMTicket") /\ Minor(j, {})
            /\ queue' = queue \/ queue' = Without(v, j)
        BY <1>v, <3>3, ReleaseStep, "releaseVMTicket" \notin {}
           DEF releaseVMTicket
      <4> QED BY <4>1
    <3>4. CASE releaseVMTicketIgnoringErr(j)
      <4>1. /\ At(j, "releaseVMTicketIgnoringErr") /\ Minor(j, {})
            /\ queue' = queue \/ queue' = Without(v, j)
        BY <1>v, <3>4, ReleaseStep, "releaseVMTicketIgnoringErr" \notin {}
           DEF releaseVMTicketIgnoringErr
      <4> QED BY <4>1
    <3> QED BY <1>1, <3>1, <3>2, <3>3, <3>4
  <2>2. queue'["allocate"] = queue["allocate"]
    BY <1>a, <1>v, <2>1, AppendKeeps, WithoutKeeps
  <2>3. Steps(job[j])[job[j].pc] = task
    BY <2>1, AtOK
  <2> QED BY <2>1, <2>2, <2>3, AllocMinor
<1>2. CASE acquireAllocationTicket(j)
  <2>1. /\ At(j, "acquireAllocationTicket") /\ Minor(j, {})
        /\ queue' = [queue EXCEPT !["allocate"] = Append(@, j)]
    BY <1>2, <1>a, AcquireStep DEF acquireAllocationTicket
  <2>2. /\ Jobs' = Jobs /\ \A i \in Jobs : i # j => job'[i] = job[i]
    BY <2>1, MinorSince
  <2>3. /\ InLine(j, "allocate")'
        /\ \A i : InLine(i, "allocate") => InLine(i, "allocate")'
        /\ \A i : Holds(i, "allocate") => Holds(i, "allocate")'
    BY <1>a, <2>1, AppendKeeps
  <2>4. ~Allocating(job'[j], 3)
    <3>1. SUFFICES ASSUME Allocating(job'[j], 3) PROVE FALSE
      OBVIOUS
    <3>2. /\ job[j].mode = "request" /\ job[j].kind = "create"
          /\ Allocating(job[j], 3) \/ job[j].pc = 2
      BY <2>1, <3>1, MinorAllocating
    <3>3. job[j].pc = 1
      BY <2>1, <3>2, AtOK, JobTyped, CreatePlaces
    <3> QED BY <3>2, <3>3 DEF Allocating
  <2> QED BY <2>2, <2>3, <2>4 DEF AllocInv
<1>3. CASE waitOnAllocationTicket(j)
  <2>1. /\ At(j, "waitOnAllocationTicket") /\ Minor(j, {}) /\ queue' = queue
        /\ Holds(j, "allocate") \/ ~InLine(j, "allocate")
    BY <1>3, <1>a, WaitStep DEF waitOnAllocationTicket
  <2>2. /\ Jobs' = Jobs /\ \A i \in Jobs : i # j => job'[i] = job[i]
    BY <2>1, MinorSince
  <2>3. Allocating(job[j], 2)
    <3>1. job[j].mode = "request"
      BY <2>1, TaskPlaces DEF CleanupTasks, EndTasks, ChainTasks, Queueing
    <3>2. job[j].kind = "create"
      BY <2>1, <3>1, AtOK, JobTyped DEF StepsGood
    <3>3. job[j].pc = 2
      BY <2>1, <3>1, <3>2, AtOK, JobTyped, CreatePlaces
    <3> QED BY <3>1, <3>2, <3>3 DEF Allocating
  <2>4. Holds(j, "allocate") /\ InLine(j, "allocate")
    BY <2>1, <2>3 DEF AllocInv
  <2> QED BY <2>1, <2>2, <2>4 DEF AllocInv, InLine, Holds
<1>4. CASE releaseAllocationTicket(j) /\ "allocate" \in job[j].tickets
  <2>1. At(j, "releaseAllocationTicket") /\ Release(j, "allocate")
    BY <1>4 DEF releaseAllocationTicket
  <2>2. /\ Minor(j, {})
        /\ queue' = queue \/ queue' = Without("allocate", j)
    BY <2>1, <1>a, ReleaseStep, "releaseAllocationTicket" \notin {}
  <2>3. Jobs' = Jobs /\ \A i \in Jobs : i # j => job'[i] = job[i]
    BY <2>2, MinorSince
  <2>4. /\ \A i : i # j /\ InLine(i, "allocate") => InLine(i, "allocate")'
        /\ \A i : i # j /\ Holds(i, "allocate") => Holds(i, "allocate")'
    <3>1. CASE queue' = queue
      BY <3>1 DEF InLine, Holds
    <3>2. CASE queue' = Without("allocate", j)
      BY <1>a, <3>2, WithoutKeeps
    <3> QED BY <2>2, <3>1, <3>2
  <2>5. \A n \in {2, 3} : ~Allocating(job'[j], n)
    BY <2>1, ReleasedAllocation DEF Release, Proceed
  <2> QED BY <2>3, <2>4, <2>5, AllocFrame
<1>5. CASE releaseAllocationTicket(j) /\ "allocate" \notin job[j].tickets
  <2>1. Crash(j)
    BY <1>5 DEF releaseAllocationTicket, Crash
  <2>2. queue' = queue /\ Jobs' = Jobs
    BY <2>1, CrashTyped DEF Crash
  <2>3. ASSUME NEW i \in Jobs, NEW n \in {2, 3}, Allocating(job'[i], n)
        PROVE  job'[i] = job[i]
    BY <2>1, <2>3, CrashTyped DEF Allocating
  <2> QED BY <2>2, <2>3, AllocFrame DEF InLine, Holds
<1> QED BY <1>1, <1>2, <1>3, <1>4, <1>5 DEF TicketTasks

\* So does everything else, if jobs are patient
LEMMA AllocOfOthers ==
  ASSUME TypeInv, AllocInv, Patient, Move,
         \A j \in Jobs : ~TicketTasks(j)
  PROVE  AllocInv'
<1>a. JobType /\ QueueType /\ UsedType
  BY TypeInvIs DEF TypeInvParts
<1>b. queue' = queue => queue'["allocate"] = queue["allocate"]
  OBVIOUS
<1>1. ASSUME NEW j \in Jobs, Minor(j, Lines), LeavesOther
      PROVE  AllocInv'
  BY <1>1, <1>a, AllocMinor DEF LeavesOther
<1>2. ASSUME NEW j \in Jobs, TaskFails(j)
      PROVE  AllocInv'
  <2>1. Minor(j, Lines) /\ queue' = queue
    BY <1>a, <1>2, FaultStep, FewerStages
  <2> QED BY <1>a, <1>b, <2>1, AllocMinor
<1>3. ASSUME NEW j \in Jobs, LooksAtNics(j), LeavesOther
      PROVE  AllocInv'
  <2>1. /\ job'[j].mode = "chain" /\ Jobs' = Jobs
        /\ \A i \in Jobs : i # j => job'[i] = job[i]
    BY <1>a, <1>3, LookTyped
  <2> QED BY <1>a, <1>3, <2>1, AllocQuiet DEF LeavesOther, Allocating
<1>4. ASSUME NEW j \in Jobs, Allocates(j)
      PROVE  AllocInv'
  <2>1. PICK x \in JobRecs, s \in JobRecs :
          /\ SameFlow(x, job[j]) /\ PcOK(x) /\ x.mode # "ended"
          /\ Steps(job[j])[job[j].pc] = "getAllocation"
          /\ s = Next1(x) /\ Jobs' = Jobs /\ job'[j] = s
          /\ \A i \in Jobs : i # j => job'[i] = job[i]
    BY <1>a, <1>4, AllocatesTyped
  <2>2. queue' = queue
    BY <1>4 DEF Allocates
  <2>3. ASSUME NEW n \in {2, 3}, Allocating(s, n)
        PROVE  Allocating(job[j], n)
    <3>1. Steps(x)[x.pc] = "getAllocation"
      BY <2>1 DEF SameFlow
    <3>2. Outcome(s, x, {})
      BY <2>1 DEF Outcome
    <3>3. x.mode = "request" /\ x.kind = "create" /\ x.pc = 3
      BY <2>1, <2>3, <3>1, <3>2, AllocatingNext, CreatePlaces
    <3> QED BY <2>1, <3>3 DEF Allocating, SameFlow
  <2> QED BY <1>a, <1>b, <2>1, <2>2, <2>3, AllocQuiet
<1>5. ASSUME NEW j \in Jobs, Starts(j)
      PROVE  AllocInv'
  <2>1. /\ job'[j].mode = "chain" /\ Jobs' = Jobs
        /\ \A i \in Jobs : i # j => job'[i] = job[i]
    BY <1>a, <1>5, StartsTyped, StartAwaits DEF Awaits
  <2>2. queue' = queue
    BY <1>5 DEF Starts
  <2> QED BY <1>a, <1>b, <2>1, <2>2, AllocQuiet DEF Allocating
<1>6. ASSUME NEW j \in Jobs, Finishes(j)
      PROVE  AllocInv'
  <2>1. PICK x \in JobRecs :
          /\ SameFlow(x, job[j]) /\ Jobs' = Jobs /\ job'[j] = x
          /\ \A i \in Jobs : i # j => job'[i] = job[i]
    BY <1>a, <1>6, FinishesTyped
  <2>2. queue' = queue
    BY <1>6 DEF Finishes
  <2>3. \A n \in {2, 3} : Allocating(x, n) => Allocating(job[j], n)
    BY <2>1 DEF SameFlow, Allocating
  <2> QED BY <1>a, <1>b, <2>1, <2>2, <2>3, AllocQuiet
<1>7. ASSUME NEW j \in Jobs, CancelJob(j) \/ AnswerLost(j)
      PROVE  FALSE
  BY <1>7, PatientJobs, <1>a
<1>8. ASSUME NEW r, Asks(r)
      PROVE  AllocInv'
  <2>1. /\ Jobs' = Jobs \cup {Len(job) + 1}
        /\ job'[Len(job) + 1] = r /\ \A j \in Jobs : job'[j] = job[j]
        /\ queue' = queue /\ r.pc = 1
    BY <1>a, <1>8, AskStep DEF Asks
  <2>2. ASSUME NEW i \in Jobs', NEW n \in {2, 3}, Allocating(job'[i], n)
        PROVE  i \in Jobs /\ job'[i] = job[i]
    BY <2>1, <2>2 DEF Allocating
  <2> QED BY <2>1, <2>2 DEF AllocInv, InLine, Holds
<1>9. ASSUME Expires
      PROVE  AllocInv'
  <2>1. PICK scope \in Scopes, j \in Jobs :
          queue' = Without(scope, j) /\ Ended(j)
    BY <1>9 DEF Expires, Patient
  <2>2. job' = job /\ Jobs' = Jobs
    BY <1>a, <1>9, StillTyped DEF Expires
  <2>3. /\ \A i : i # j /\ InLine(i, "allocate") => InLine(i, "allocate")'
        /\ \A i : i # j /\ Holds(i, "allocate") => Holds(i, "allocate")'
    BY <1>a, <2>1, WithoutKeeps, ScopesAre
  <2>4. \A n \in {2, 3} : ~Allocating(job[j], n)
    BY <2>1 DEF Allocating, Ended
  <2> QED BY <2>2, <2>3, <2>4, AllocFrame
<1>10. ASSUME job' = job, queue' = queue
       PROVE  AllocInv'
  <2>1. Jobs' = Jobs
    BY <1>a, <1>10, StillTyped
  <2> QED BY <1>10, <2>1 DEF AllocInv, InLine, Holds
<1> QED
  BY <1>1, <1>2, <1>3, <1>4, <1>5, <1>6, <1>7, <1>8, <1>9, <1>10 DEF Move

\* Every move keeps the allocation ticket in order
LEMMA AllocNext ==
  ASSUME TypeInv, AllocInv, Patient, Move
  PROVE  AllocInv'
<1>1. JobType /\ QueueType /\ UsedType
  BY TypeInvIs DEF TypeInvParts
<1> QED BY <1>1, AllocOfTickets, AllocOfOthers

\* A create to which a server was given, until its VM is there or it failed
Claims(r) ==
    /\ r.kind = "create"
    /\ \/ r.mode = "request" /\ r.pc > 3
       \/ r.mode = "chain" /\ Since(r, "acquireVMTicket")

ClaimInv ==
    /\ \A j \in Jobs : Claims(job[j]) => job[j].server \in Servers
    /\ \A i, j \in Jobs : i # j /\ Claims(job[i]) /\ Claims(job[j])
                          => job[i].server # job[j].server
    /\ \A j \in Jobs, v \in Vms : Claims(job[j]) /\ v # job[j].vm
                                  => zone[v].server # job[j].server
    /\ \A j \in Jobs : job[j].task = "queued" =>
         (job[j].action = "create" <=> job[j].kind = "create")
\* Each instance has a server to itself
ZoneInv ==
    /\ \A v \in Vms : IF HasZone(v) THEN zone[v].server \in Servers
                                    ELSE zone[v].server = NoServer
    /\ \A v, w \in Vms : v # w /\ HasZone(v)
                         => zone[v].server # zone[w].server

\* What a task changes of its job does not matter to its claim
LEMMA ClaimsFlow ==
  ASSUME NEW x, NEW r, SameFlow(x, r)
  PROVE  Claims(x) <=> Claims(r)
<1>1. Since(x, "acquireVMTicket") <=> Since(r, "acquireVMTicket")
  BY SinceFlow
<1> QED BY <1>1 DEF Claims, SameFlow

\* Only an allocation makes a claim
LEMMA ClaimsNext ==
  ASSUME NEW x \in JobRecs, PcOK(x), NEW T, NEW s, Outcome(s, x, T),
         Claims(s), Steps(x)[x.pc] # "getAllocation" \/ s = x
  PROVE  Claims(x)
<1>0. x.pc \in Nat /\ Len(Steps(x)) \in Nat /\ x.mode \in Modes
  BY StepsAre DEF JobRecs, StepsGood
<1>1. CASE s = x
  BY <1>1
<1>2. CASE x.mode = "request" /\ s # x
  <2>1. s = Next1(x) /\ s.kind = x.kind
    <3>1. s = Next1(x) \/ s = Failed(x)
      BY <1>2 DEF Outcome
    <3>2. s # Failed(x)
      BY <1>2, FailedOK DEF Claims
    <3> QED BY <1>2, <3>1, <3>2, Next1OK DEF SameData
  <2>2. x.kind = "create" /\ x.pc # 3 /\ x.pc \in 1..9 /\ Len(Steps(x)) = 9
    BY <1>2, <2>1, CreatePlaces DEF Claims
  <2>3. CASE x.pc < 9
    <3>1. s.mode = "request" /\ s.pc = x.pc + 1
      BY <1>2, <2>1, <2>2, <2>3, Next1OK
    <3>2. x.pc > 3
      BY <2>2, <3>1 DEF Claims
    <3> QED BY <1>2, <2>2, <3>2 DEF Claims
  <2>4. CASE x.pc = 9
    BY <1>2, <2>2, <2>4 DEF Claims
  <2> QED BY <2>2, <2>3, <2>4
<1>3. CASE x.mode = "chain" /\ s # x
  <2>1. s.kind = x.kind /\ s.mode # "request"
    <3>1. CASE s = Next1(x)
      <4>1. s.mode \in {"chain", "ended"}
        BY <1>0, <1>3, <3>1, Next1OK
      <4> QED BY <1>3, <3>1, <4>1, Next1OK DEF SameData
    <3>2. CASE s = Failed(x)
      BY <1>3, <3>2, FailedOK DEF SameData
    <3>3. CASE /\ Steps(x)[x.pc] \in {"getNetwork", "listNics"}
               /\ s = Next1(Next1(x))
      <4>1. StepsGood(x) /\ x.pc \in 1..Len(Steps(x))
        BY <1>3, StepsAre DEF PcOK
      <4>2. x.pc < Len(Steps(x))
        BY <1>3, <3>3, <4>1 DEF StepsGood, ChainGood
      <4>3. /\ Next1(x) \in JobRecs /\ PcOK(Next1(x))
            /\ Next1(x).mode = "chain" /\ Next1(x).kind = x.kind
        BY <1>3, <4>2, Next1OK DEF SameData
      <4>4. Len(Steps(Next1(x))) \in Nat /\ Next1(x).pc \in Nat
        BY <4>3, StepsAre DEF JobRecs, StepsGood
      <4>5. s.mode \in {"chain", "ended"} /\ s.kind = x.kind
        BY <3>3, <4>3, <4>4, Next1OK DEF SameData
      <4> QED BY <4>5
    <3> QED BY <1>3, <3>1, <3>2, <3>3 DEF Outcome
  <2>2. x.kind = "create" /\ Since(s, "acquireVMTicket")
    BY <2>1 DEF Claims
  <2>3. Steps(x)[x.pc] # "acquireVMTicket"
    BY <1>3, <2>2, StepsAre DEF StepsGood, ChainGood, PcOK
  <2>4. Since(x, "acquireVMTicket")
    BY <2>2, <2>3, SinceOutcome DEF Firsts
  <2> QED BY <1>3, <2>2, <2>4 DEF Claims
<1>4. CASE x.mode \notin {"request", "chain"} /\ s # x
  <2>1. s.mode \notin {"request", "chain"}
    <3>1. x.mode # "ended" /\ (s = Next1(x) \/ s = Failed(x))
      BY <1>4 DEF Outcome
    <3>2. CASE s = Next1(x)
      <4>1. s.mode \in {x.mode, "ended"}
        BY <1>0, <1>4, <3>1, <3>2, Next1OK
      <4> QED BY <1>4, <4>1
    <3>3. CASE s = Failed(x)
      BY <1>0, <1>4, <3>1, <3>3, FailedOK DEF Modes
    <3> QED BY <3>1, <3>2, <3>3
  <2> QED BY <2>1 DEF Claims
<1> QED BY <1>1, <1>2, <1>3, <1>4

\* Claims that go away hurt nobody
LEMMA ClaimFrame ==
  ASSUME ClaimInv, ZoneInv, zone' = zone, Jobs' = Jobs,
         \A i \in Jobs :
            /\ Claims(job'[i]) => Claims(job[i])
            /\ job'[i].vm = job[i].vm /\ job'[i].kind = job[i].kind
            /\ job'[i].server = job[i].server
            /\ job'[i].task = "queued" =>
                 job[i].task = "queued" /\ job'[i].action = job[i].action
  PROVE  ClaimInv' /\ ZoneInv'
<1>1. ZoneInv'
  BY DEF ZoneInv, HasZone
<1>2. /\ \A j \in Jobs : Claims(job'[j]) => job'[j].server \in Servers
      /\ \A i, j \in Jobs : i # j /\ Claims(job'[i]) /\ Claims(job'[j])
                            => job'[i].server # job'[j].server
  BY DEF ClaimInv
<1>3. \A j \in Jobs, v \in Vms : Claims(job'[j]) /\ v # job'[j].vm
                                 => zone[v].server # job'[j].server
  BY DEF ClaimInv
<1>4. \A j \in Jobs : job'[j].task = "queued" =>
        (job'[j].action = "create" <=> job'[j].kind = "create")
  BY DEF ClaimInv
<1> QED BY <1>1, <1>2, <1>3, <1>4 DEF ClaimInv

\* The same with one job that moves
LEMMA ClaimMoves ==
  ASSUME ClaimInv, ZoneInv, zone' = zone, Jobs' = Jobs, NEW j \in Jobs,
         \A i \in Jobs : i # j => job'[i] = job[i],
         Claims(job'[j]) => Claims(job[j]),
         job'[j].vm = job[j].vm, job'[j].kind = job[j].kind,
         job'[j].server = job[j].server,
         job'[j].task = "queued" =>
            job[j].task = "queued" /\ job'[j].action = job[j].action
  PROVE  ClaimInv' /\ ZoneInv'
<1>1. \A i \in Jobs :
        /\ Claims(job'[i]) => Claims(job[i])
        /\ job'[i].vm = job[i].vm /\ job'[i].kind = job[i].kind
        /\ job'[i].server = job[i].server
        /\ job'[i].task = "queued" =>
             job[i].task = "queued" /\ job'[i].action = job[i].action
  OBVIOUS
<1> QED BY <1>1, ClaimFrame

\* A minor step makes no claim
LEMMA ClaimMinor ==
  ASSUME JobType, ClaimInv, ZoneInv, zone' = zone, NEW j \in Jobs, NEW T,
         Minor(j, T),
         "getAllocation" \in T \/ Steps(job[j])[job[j].pc] # "getAllocation"
  PROVE  ClaimInv' /\ ZoneInv'
<1>1. PICK x \in JobRecs, s \in JobRecs :
        /\ SameFlow(x, job[j]) /\ SameKey(x, job[j]) /\ Outcome(s, x, T)
        /\ PcOK(x) /\ Jobs' = Jobs /\ job'[j] = s
        /\ \A i \in Jobs : i # j => job'[i] = job[i]
  BY MinorTyped
<1>2. s = x \/ SameData(s, x)
  BY <1>1, OutcomeOK
<1>3. /\ s.vm = job[j].vm /\ s.kind = job[j].kind
      /\ s.server = job[j].server /\ s.task = job[j].task
      /\ s.action = job[j].action
  BY <1>1, <1>2 DEF SameData, SameKey, SameFlow
<1>4. ASSUME Claims(s)
      PROVE  Claims(job[j])
  <2>1. CASE Steps(x)[x.pc] # "getAllocation" \/ s = x
    BY <1>1, <1>4, <2>1, ClaimsNext, ClaimsFlow
  <2>2. CASE Steps(x)[x.pc] = "getAllocation" /\ s # x
    <3>1. "getAllocation" \in T
      BY <1>1, <2>2 DEF SameFlow
    <3>2. s = Failed(x) /\ x.mode # "ended"
      BY <1>1, <2>2, <3>1 DEF Outcome
    <3>3. s.mode \notin {"request", "chain"}
      BY <1>1, <3>2, FailedOK DEF JobRecs, Modes
    <3> QED BY <1>4, <3>3 DEF Claims
  <2> QED BY <2>1, <2>2
<1> QED BY <1>1, <1>3, <1>4, ClaimMoves

\* DAPI picks a server that nobody else claims: of those that were given one,
\* some hold the ticket for it, which the job has, and the VM tickets of the
\* others are in line
LEMMA ClaimAllocates ==
  ASSUME JobType, TicketInv, AllocInv, ClaimInv, ZoneInv, zone' = zone,
         NEW j \in Jobs, Allocates(j)
  PROVE  ClaimInv' /\ ZoneInv'
<1>1. PICK n \in Servers, x \in JobRecs, s \in JobRecs :
        /\ HasRoom(n) /\ x.server = n
        /\ SameFlow(x, job[j]) /\ x.task = job[j].task
        /\ x.action = job[j].action
        /\ PcOK(x) /\ x.mode # "ended"
        /\ Steps(job[j])[job[j].pc] = "getAllocation"
        /\ s = Next1(x) /\ SameData(s, x) /\ Jobs' = Jobs
        /\ job'[j] = s /\ \A i \in Jobs : i # j => job'[i] = job[i]
  BY AllocatesTyped
<1>2. /\ s.vm = job[j].vm /\ s.kind = job[j].kind /\ s.server = n
      /\ s.task = job[j].task /\ s.action = job[j].action
  BY <1>1 DEF SameData, SameFlow
<1>3. job[j].mode = "request" /\ job[j].kind = "create" /\ job[j].pc = 3
  <2>1. At(j, "getAllocation")
    BY DEF Allocates
  <2>2. job[j].mode = "request"
    BY <2>1, TaskPlaces DEF CleanupTasks, EndTasks, ChainTasks, Queueing
  <2>3. job[j].kind = "create"
    BY <2>1, <2>2, AtOK, JobTyped DEF StepsGood
  <2> QED BY <1>1, <2>2, <2>3, JobTyped, CreatePlaces
<1>4. ASSUME NEW i \in Jobs, i # j, Claims(job[i])
      PROVE  job[i].server # n
  <2>1. job[i] \in JobRecs /\ PcOK(job[i]) /\ job[i].kind = "create"
    BY <1>4, JobTyped DEF Claims
  <2>2. CASE Since(job[i], "acquireVMTicket")
    BY <1>1, <2>1, <2>2 DEF TicketInv, HasRoom
  <2>3. CASE job[i].mode = "request" /\ job[i].pc > 3
    <3>1. job[i].pc \in 1..9 /\ StepsGood(job[i])
      BY <2>1, <2>3, CreatePlaces, StepsAre
    <3>2. CASE job[i].pc <= 6
      <4>1. Allocating(job[i], 3) /\ Allocating(job[j], 3)
        BY <1>3, <2>1, <2>3, <3>1, <3>2 DEF Allocating
      <4>2. Holds(i, "allocate") /\ Holds(j, "allocate")
        BY <4>1 DEF AllocInv
      <4> QED BY <1>4, <4>2 DEF Holds
    <3>3. CASE job[i].pc > 6
      <4> DEFINE r == job[i]
      <4>1. /\ Steps(r)[5] = "acquireVMTicket"
            /\ Steps(r)[6] = "releaseAllocationTicket"
            /\ Steps(r)[7] = "waitOnVMTicket"
            /\ Steps(r)[8] = "provisionNics"
        BY <2>1, <2>3, <3>1 DEF StepsGood
      <4>2. /\ 5 \in 1..(r.pc - 1)
            /\ \A m \in 5..(r.pc - 1) : m = 5 \/ m = 6 \/ m = 7 \/ m = 8
        BY <3>1, <3>3
      <4> HIDE DEF r
      <4>3. \A m \in 5..(r.pc - 1) : Steps(r)[m] # "releaseVMTicket"
        BY <4>1, <4>2
      <4>4. PastWithout(r, "acquireVMTicket")
        BY <4>1, <4>2, <4>3 DEF PastWithout
      <4> QED BY <2>2, <2>3, <4>4 DEF Since, r
    <3> QED BY <3>1, <3>2, <3>3
  <2> QED BY <1>4, <2>2, <2>3 DEF Claims
<1>5. ZoneInv'
  BY DEF ZoneInv, HasZone
<1>6. /\ \A v \in Vms : zone[v].server # n
  BY <1>1 DEF HasRoom
<1>7. /\ \A i \in Jobs : Claims(job'[i]) => job'[i].server \in Servers
      /\ \A i \in Jobs : job'[i].task = "queued" =>
            (job'[i].action = "create" <=> job'[i].kind = "create")
  BY <1>1, <1>2 DEF ClaimInv
<1>8. ASSUME NEW i \in Jobs, NEW k \in Jobs, i # k, Claims(job'[i]),
             Claims(job'[k])
      PROVE  job'[i].server # job'[k].server
  BY <1>1, <1>2, <1>4, <1>8 DEF ClaimInv
<1>9. ASSUME NEW i \in Jobs, NEW v \in Vms, Claims(job'[i]), v # job'[i].vm
      PROVE  zone[v].server # job'[i].server
  BY <1>1, <1>2, <1>6, <1>9 DEF ClaimInv
<1> QED BY <1>1, <1>5, <1>7, <1>8, <1>9 DEF ClaimInv

\* A create has its claim when it queues its task
LEMMA ClaimStarts ==
  ASSUME JobType, ClaimInv, ZoneInv, zone' = zone, NEW j \in Jobs, Starts(j)
  PROVE  ClaimInv' /\ ZoneInv'
<1>1. PICK x \in JobRecs, s \in JobRecs :
        /\ SameFlow(x, job[j]) /\ x.server = job[j].server
        /\ x.action = "create" <=> job[j].kind = "create"
        /\ PcOK(x) /\ x.mode = "chain"
        /\ Steps(job[j])[job[j].pc] \in Queueing
        /\ s = Next1(x) /\ SameData(s, x) /\ Jobs' = Jobs
        /\ job'[j] = s /\ \A i \in Jobs : i # j => job'[i] = job[i]
  BY StartsTyped
<1>2. /\ s.vm = job[j].vm /\ s.kind = job[j].kind
      /\ s.server = job[j].server
      /\ s.action = "create" <=> s.kind = "create"
  BY <1>1 DEF SameData, SameFlow
<1>3. ASSUME Claims(s)
      PROVE  Claims(job[j])
  <2>1. Steps(x)[x.pc] # "getAllocation"
    BY <1>1 DEF Queueing, SameFlow
  <2>2. Outcome(s, x, {})
    BY <1>1 DEF Outcome
  <2> QED BY <1>1, <1>3, <2>1, <2>2, ClaimsNext, ClaimsFlow
<1>4. \A i \in Jobs :
        /\ Claims(job'[i]) => Claims(job[i])
        /\ job'[i].vm = job[i].vm /\ job'[i].kind = job[i].kind
        /\ job'[i].server = job[i].server
  BY <1>1, <1>2, <1>3
<1>5. ZoneInv'
  BY DEF ZoneInv, HasZone
<1>6. /\ \A i \in Jobs : Claims(job'[i]) => job'[i].server \in Servers
      /\ \A i, k \in Jobs : i # k /\ Claims(job'[i]) /\ Claims(job'[k])
                            => job'[i].server # job'[k].server
  BY <1>4 DEF ClaimInv
<1>7. \A i \in Jobs, v \in Vms : Claims(job'[i]) /\ v # job'[i].vm
                                 => zone[v].server # job'[i].server
  BY <1>4 DEF ClaimInv
<1>8. \A i \in Jobs : job'[i].task = "queued" =>
        (job'[i].action = "create" <=> job'[i].kind = "create")
  BY <1>1, <1>2 DEF ClaimInv
<1> QED BY <1>1, <1>5, <1>6, <1>7, <1>8 DEF ClaimInv

\* A create that is awaited has still its claim
LEMMA AwaitingClaims ==
  ASSUME NEW r \in JobRecs, PcOK(r), Awaits(r), r.kind = "create"
  PROVE  Claims(r)
<1>1. /\ r.mode = "chain" /\ r.pc \in 1..Len(Steps(r))
      /\ Since(r, "waitOnVMTicket") /\ Len(Steps(r)) \in Nat
      /\ \A i \in 1..Len(Steps(r)) : Steps(r)[i] # "waitOnVMTicket"
  BY StepsAre DEF Awaits, PcOK, StepsGood, ChainGood
<1>2. ~PastWithout(r, "waitOnVMTicket")
  <2>1. \A k \in 1..(r.pc - 1) : k \in 1..Len(Steps(r))
    BY <1>1
  <2> QED BY <1>1, <2>1 DEF PastWithout
<1> QED BY <1>1, <1>2 DEF Since, Claims

\* CNAPI makes the VM on the server that its create claims
LEMMA ClaimFinishes ==
  ASSUME JobType, VmType, TaskInv, ClaimInv, ZoneInv, NEW j \in Jobs,
         Finishes(j)
  PROVE  ClaimInv' /\ ZoneInv'
<1> DEFINE r == job[j]
<1>1. PICK x \in JobRecs :
        /\ SameFlow(x, r) /\ x.server = r.server
        /\ x.action = r.action /\ x.task # "queued" /\ Jobs' = Jobs
        /\ job'[j] = x /\ \A i \in Jobs : i # j => job'[i] = job[i]
  BY FinishesTyped
<1>2. CASE zone' = zone
  <2>1. Claims(x) => Claims(r)
    BY <1>1, ClaimsFlow
  <2> QED BY <1>1, <1>2, <2>1, ClaimMoves DEF SameFlow
<1>3. CASE /\ HasZone(r.vm) # (r.action = "create")
           /\ zone' = [zone EXCEPT ![r.vm] = After(zone[r.vm], r)]
  <2>1. /\ r \in JobRecs /\ PcOK(r) /\ r.vm \in Vms
        /\ zone[r.vm] \in Zones /\ r.task = "queued"
    BY JobTyped DEF JobRecs, VmType, Finishes
  <2>2. PICK v \in Vms : v = r.vm
    BY <2>1
  <2>3. PICK z : z = After(zone[v], r)
    OBVIOUS
  <2>4. /\ zone'[v] = z /\ \A w \in Vms : w # v => zone'[w] = zone[w]
    BY <1>3, <2>2, <2>3 DEF VmType
  <2>5. /\ Awaits(r)
        /\ r.action = "create" <=> r.kind = "create"
    BY <2>1 DEF TaskInv, Awaits, ClaimInv
  <2>6. ASSUME z.server # NoServer, z.server # zone[v].server
        PROVE  /\ r.action = "create" /\ z.server = r.server /\ Claims(r)
    <3>1. r.action = "create"
      <4>1. CASE r.action = "destroy"
        <5>1. z = [NoZone EXCEPT !.mod = zone[v].mod + 1]
          BY <2>1, <2>2, <2>3, <4>1, AfterTyped
        <5> QED BY <2>6, <5>1 DEF NoZone
      <4>2. CASE r.action \notin {"create", "destroy"}
        BY <2>1, <2>2, <2>3, <2>6, <4>2, AfterTyped
      <4> QED BY <4>1, <4>2
    <3> QED BY <2>1, <2>2, <2>3, <2>5, <3>1, AfterTyped, AwaitingClaims
  <2>7. \/ z.server = NoServer \/ z.server = zone[v].server
        \/ r.action = "create" /\ z.server = r.server /\ Claims(r)
    BY <2>6
  <2>8. /\ IF z.state # "none" THEN z.server \in Servers
                               ELSE z.server = NoServer
    <3>1. CASE r.action = "create"
      <4>1. z.state = "running" /\ z.server = r.server
        BY <2>1, <2>2, <2>3, <3>1, AfterTyped
      <4>2. Claims(r)
        BY <2>1, <2>5, <3>1, AwaitingClaims
      <4> QED BY <4>1, <4>2 DEF ClaimInv
    <3>2. CASE r.action = "destroy"
      <4>1. z = [NoZone EXCEPT !.mod = zone[v].mod + 1]
        BY <2>1, <2>2, <2>3, <3>2, AfterTyped
      <4> QED BY <4>1 DEF NoZone
    <3>3. CASE r.action \notin {"create", "destroy"}
      <4>1. /\ z.server = zone[v].server
            /\ zone[v].state # "none" => z.state # "none"
        BY <2>1, <2>2, <2>3, <3>3, AfterTyped
      <4>2. HasZone(v)
        BY <1>3, <2>2, <3>3 DEF HasZone
      <4> QED BY <4>1, <4>2 DEF ZoneInv, HasZone
    <3> QED BY <3>1, <3>2, <3>3
  <2>9. NoServer \notin Servers
    BY VmJobsAssumption DEF NoServer
  <2>10. \A i \in Jobs :
          /\ Claims(job'[i]) <=> Claims(job[i])
          /\ job'[i].vm = job[i].vm /\ job'[i].server = job[i].server
          /\ job'[i].kind = job[i].kind
          /\ job'[i].task = "queued" =>
               job[i].task = "queued" /\ job'[i].action = job[i].action
    BY <1>1, ClaimsFlow DEF SameFlow
  <2> HIDE DEF r
  <2>11. ASSUME NEW i \in Jobs, NEW w \in Vms, Claims(job[i]),
                w # job[i].vm
         PROVE  zone'[w].server # job[i].server
    <3>1. job[i].server \in Servers /\ zone[w].server # job[i].server
      BY <2>11 DEF ClaimInv
    <3>2. CASE w = v /\ Claims(r) /\ z.server = r.server
      BY <2>2, <2>4, <2>11, <3>2 DEF ClaimInv, r
    <3>3. CASE w = v /\ z.server \in {NoServer, zone[v].server}
      BY <2>4, <2>9, <3>1, <3>3
    <3>4. CASE w # v
      BY <2>4, <3>1, <3>4
    <3> QED BY <2>7, <3>2, <3>3, <3>4
  <2>12. \A u \in Vms : IF HasZone(u)' THEN zone'[u].server \in Servers
                                       ELSE zone'[u].server = NoServer
    BY <2>4, <2>8 DEF ZoneInv, HasZone
  <2>13. ASSUME NEW u \in Vms, NEW w \in Vms, u # w, HasZone(u)'
         PROVE  zone'[u].server # zone'[w].server
    <3>1. zone'[u].server \in Servers
      BY <2>12, <2>13
    <3>2. ASSUME NEW y \in Vms, y # v, z.server \in Servers
          PROVE  z.server # zone[y].server
      <4>1. CASE r.action = "create" /\ z.server = r.server /\ Claims(r)
        BY <2>2, <3>2, <4>1 DEF ClaimInv, r
      <4>2. CASE z.server = zone[v].server
        <5>1. HasZone(v)
          BY <2>9, <3>2, <4>2 DEF ZoneInv
        <5> QED BY <3>2, <4>2, <5>1 DEF ZoneInv
      <4> QED BY <2>7, <2>9, <3>2, <4>1, <4>2
    <3>3. CASE u = v
      BY <2>4, <2>13, <3>1, <3>2, <3>3
    <3>4. CASE w = v
      BY <2>4, <2>13, <3>1, <3>2, <3>4
    <3>5. CASE u # v /\ w # v
      <4>1. HasZone(u)
        BY <2>4, <2>13, <3>5 DEF HasZone
      <4> QED BY <2>4, <2>13, <3>5, <4>1 DEF ZoneInv
    <3> QED BY <3>3, <3>4, <3>5
  <2>14. ZoneInv'
    BY <2>12, <2>13 DEF ZoneInv
  <2>15. ClaimInv'
    <3>1. /\ \A i \in Jobs : Claims(job'[i]) => job'[i].server \in Servers
          /\ \A i, k \in Jobs : i # k /\ Claims(job'[i]) /\ Claims(job'[k])
                                => job'[i].server # job'[k].server
      BY <2>10 DEF ClaimInv
    <3>2. \A i \in Jobs, w \in Vms : Claims(job'[i]) /\ w # job'[i].vm
                                     => zone'[w].server # job'[i].server
      BY <2>10, <2>11
    <3>3. \A i \in Jobs : job'[i].task = "queued" =>
            (job'[i].action = "create" <=> job'[i].kind = "create")
      BY <2>10 DEF ClaimInv
    <3> QED BY <1>1, <3>1, <3>2, <3>3 DEF ClaimInv
  <2> QED BY <2>14, <2>15
<1> QED BY <1>2, <1>3 DEF Finishes

\* Every move keeps claims and servers apart, if jobs are patient
LEMMA ClaimNext ==
  ASSUME TypeInv, TicketInv, TaskInv, AllocInv, ClaimInv, ZoneInv, Patient,
         Move
  PROVE  ClaimInv' /\ ZoneInv'
<1>a. JobType /\ QueueType /\ UsedType /\ VmType
  BY TypeInvIs DEF TypeInvParts
<1>1. ASSUME NEW j \in Jobs, TicketTasks(j), zone' = zone
      PROVE  ClaimInv' /\ ZoneInv'
  <2>1. \E task : At(j, task) /\ task # "getAllocation"
    BY <1>1 DEF TicketTasks, acquireVMTicket, waitOnVMTicket,
                releaseVMTicket, releaseVMTicketIgnoringErr,
                acquireAllocationTicket, waitOnAllocationTicket,
                releaseAllocationTicket
  <2>2. Steps(job[j])[job[j].pc] # "getAllocation"
    BY <1>a, <2>1, AtOK
  <2>3. CASE Minor(j, {})
    BY <1>a, <1>1, <2>2, <2>3, ClaimMinor
  <2>4. CASE Crash(j)
    <3>1. Jobs' = Jobs
      BY <1>a, <2>4, CrashTyped
    <3>2. ASSUME NEW i \in Jobs
          PROVE  /\ Claims(job'[i]) => Claims(job[i])
                 /\ job'[i].vm = job[i].vm /\ job'[i].kind = job[i].kind
                 /\ job'[i].server = job[i].server
                 /\ job'[i].task = "queued" =>
                      /\ job[i].task = "queued"
                      /\ job'[i].action = job[i].action
      <4>1. \/ job'[i] = job[i]
            \/ job'[i].mode = "ended" /\ SameData(job'[i], job[i])
        BY <1>a, <2>4, CrashTyped
      <4> QED BY <4>1 DEF SameData, Claims
    <3> QED BY <1>1, <3>1, <3>2, ClaimFrame
  <2> QED BY <1>a, <1>1, <2>3, <2>4, TicketStep
<1>2. ASSUME NEW j \in Jobs, Minor(j, Lines) \/ TaskFails(j), zone' = zone
      PROVE  ClaimInv' /\ ZoneInv'
  <2>1. Minor(j, Lines)
    BY <1>a, <1>2, FaultStep, FewerStages
  <2> QED BY <1>a, <1>2, <2>1, ClaimMinor DEF Lines
<1>3. ASSUME NEW j \in Jobs, LooksAtNics(j), zone' = zone
      PROVE  ClaimInv' /\ ZoneInv'
  <2>1. PICK s \in JobRecs :
          /\ SameKey(s, job[j]) /\ s.vm = job[j].vm /\ s.kind = "destroy"
          /\ Jobs' = Jobs /\ job'[j] = s
          /\ \A i \in Jobs : i # j => job'[i] = job[i]
    BY <1>a, <1>3, LookTyped
  <2>2. job[j].kind = "destroy"
    BY <1>a, <1>3, LookStep
  <2>3. ~Claims(s)
    BY <2>1 DEF Claims
  <2> QED BY <1>3, <2>1, <2>2, <2>3, ClaimMoves DEF SameKey
<1>4. ASSUME NEW r, Asks(r)
      PROVE  ClaimInv' /\ ZoneInv'
  <2>1. /\ Jobs' = Jobs \cup {Len(job) + 1} /\ Len(job) + 1 \notin Jobs
        /\ job'[Len(job) + 1] = r /\ \A j \in Jobs : job'[j] = job[j]
        /\ zone' = zone /\ r.pc = 1 /\ r.mode = "request" /\ r.task = "none"
    BY <1>a, <1>4, AskStep DEF Asks
  <2>2. ~Claims(r)
    BY <2>1 DEF Claims
  <2>3. \A i \in Jobs' : Claims(job'[i]) \/ job'[i].task = "queued"
                         => i \in Jobs /\ job'[i] = job[i]
    BY <2>1, <2>2
  <2>4. ZoneInv'
    BY <2>1 DEF ZoneInv, HasZone
  <2>5. /\ \A i \in Jobs' : Claims(job'[i]) => job'[i].server \in Servers
        /\ \A i, k \in Jobs' : i # k /\ Claims(job'[i]) /\ Claims(job'[k])
                               => job'[i].server # job'[k].server
    BY <2>3 DEF ClaimInv
  <2>6. \A i \in Jobs', w \in Vms : Claims(job'[i]) /\ w # job'[i].vm
                                    => zone'[w].server # job'[i].server
    BY <2>1, <2>3 DEF ClaimInv
  <2>7. \A i \in Jobs' : job'[i].task = "queued" =>
          (job'[i].action = "create" <=> job'[i].kind = "create")
    BY <2>3 DEF ClaimInv
  <2> QED BY <2>4, <2>5, <2>6, <2>7 DEF ClaimInv
<1>5. ASSUME job' = job, zone' = zone
      PROVE  ClaimInv' /\ ZoneInv'
  <2>1. Jobs' = Jobs
    BY <1>a, <1>5, StillTyped
  <2> QED BY <1>5, <2>1, ClaimFrame
<1>6. CASE \E j \in Jobs : Allocates(j) /\ zone' = zone
  BY <1>a, <1>6, ClaimAllocates
<1>7. CASE \E j \in Jobs : Starts(j) /\ zone' = zone
  BY <1>a, <1>7, ClaimStarts
<1>8. CASE \E j \in Jobs : Finishes(j)
  BY <1>a, <1>8, ClaimFinishes
<1>9. CASE \E j \in Jobs : CancelJob(j) \/ AnswerLost(j)
  BY <1>a, <1>9, PatientJobs
<1> QED
  BY <1>1, <1>2, <1>3, <1>4, <1>5, <1>6, <1>7, <1>8, <1>9 DEF Move, Expires

\* At first there is nothing to be wrong about
LEMMA NothingAtFirst ==
  Init => TypeInv /\ TicketInv /\ TaskInv /\ AllocInv /\ ClaimInv /\ ZoneInv
<1> SUFFICES ASSUME Init
             PROVE  TicketInv /\ TaskInv /\ AllocInv /\ ClaimInv /\ ZoneInv
  BY InitTyped
<1>1. Jobs = {} /\ \A v \in Vms : zone[v] = NoZone
  BY DEF Init, WorkflowsInit, Jobs
<1>2. ZoneInv
  BY <1>1 DEF ZoneInv, HasZone, NoZone
<1> QED BY <1>1, <1>2 DEF TicketInv, TaskInv, AllocInv, ClaimInv

\* While tickets and tasks are waited for, no server gets two VMs where there
\* is room for one: a create gives up the ticket for the allocation only when
\* its VM's ticket is in line, by which DAPI counts it
THEOREM NoOvercommitCorrect == Patient => (Spec => []NoOvercommit)
<1> SUFFICES ASSUME Patient PROVE Spec => []NoOvercommit
  OBVIOUS
<1> DEFINE Inv == /\ TypeInv /\ TicketInv /\ TaskInv /\ AllocInv
                  /\ ClaimInv /\ ZoneInv
<1>1. Init => Inv
  BY NothingAtFirst
<1>2. Inv /\ [Next]_vars => Inv'
  BY StepMoves, TicketNext, TaskNext, AllocNext, ClaimNext
<1>3. Inv => NoOvercommit
  BY DEF ZoneInv, NoOvercommit
<1> QED BY <1>1, <1>2, <1>3, PTL DEF Spec

-----------------------------------------------------------------------------
(* VMs that failed.                                                         *)
\* A request or chain that runs, and may get to have the VM made
Alive(r) == r.mode \in {"request", "chain"}
CreateOf(r, v) == r.kind = "create" /\ r.vm = v

OneCreate ==
    \A i, j \in Jobs : i # j /\ job[i].kind = "create"
                       /\ job[j].kind = "create" => job[i].vm # job[j].vm
QueuedIsTaken ==
    \A j \in Jobs : job[j].kind = "create" /\ job[j].task = "queued"
                    => job[j].taken
ZoneIsTaken ==
    \A v \in Vms : HasZone(v) =>
        \E j \in Jobs : CreateOf(job[j], v) /\ job[j].taken
FailedIsOver ==
    \A v \in Vms : rec[v].state = "failed" =>
        /\ ~HasZone(v)
        /\ \A j \in Jobs : CreateOf(job[j], v) => ~Alive(job[j])
FailInv == OneCreate /\ QueuedIsTaken /\ ZoneIsTaken /\ FailedIsOver

\* What a job may become while no VM is made
Later(s, r) ==
    /\ s.vm = r.vm /\ s.kind = r.kind
    /\ s.kind = "create" /\ r.taken => s.taken
    /\ s.kind = "create" /\ s.task = "queued" => s.taken
    /\ Alive(s) => Alive(r)

\* A job that is in a clean-up stays out of its request and chain
LEMMA AliveOutcome ==
  ASSUME NEW x \in JobRecs, PcOK(x), NEW T, NEW s, Outcome(s, x, T),
         Alive(s)
  PROVE  Alive(x)
<1> SUFFICES ASSUME ~Alive(x), s # x
             PROVE  FALSE
  OBVIOUS
<1>0. x.pc \in Nat /\ Len(Steps(x)) \in Nat /\ x.mode \in Modes
  BY StepsAre DEF JobRecs, StepsGood
<1>1. x.mode # "ended" /\ (s = Next1(x) \/ s = Failed(x))
  BY DEF Outcome, Alive
<1>2. CASE s = Next1(x)
  <2>1. s.mode \in {x.mode, "ended"}
    BY <1>0, <1>1, <1>2, Next1OK DEF Alive
  <2> QED BY <1>1, <2>1 DEF Alive
<1>3. CASE s = Failed(x)
  BY <1>0, <1>1, <1>3, FailedOK DEF Modes, Alive
<1> QED BY <1>1, <1>2, <1>3

\* Jobs that go on, while no VM is made and none is newly marked
LEMMA FailFrame ==
  ASSUME FailInv, zone' = zone, Jobs' = Jobs,
         \A i \in Jobs : Later(job'[i], job[i]),
         \A v \in Vms : rec'[v].state = "failed" =>
            \/ rec[v].state = "failed"
            \/ /\ ~HasZone(v)
               /\ \A i \in Jobs : CreateOf(job[i], v) => ~Alive(job'[i])
  PROVE  FailInv'
<1>1. OneCreate'
  BY DEF FailInv, OneCreate, Later
<1>2. QueuedIsTaken'
  BY DEF QueuedIsTaken, Later
<1>3. ZoneIsTaken'
  BY DEF FailInv, ZoneIsTaken, HasZone, CreateOf, Later
<1>4. FailedIsOver'
  <2> SUFFICES ASSUME NEW v \in Vms, rec'[v].state = "failed"
               PROVE  /\ ~HasZone(v)'
                      /\ \A i \in Jobs : CreateOf(job'[i], v)
                                         => ~Alive(job'[i])
    BY DEF FailedIsOver
  <2>1. \A i \in Jobs : CreateOf(job'[i], v) => CreateOf(job[i], v)
    BY DEF CreateOf, Later
  <2>2. HasZone(v)' <=> HasZone(v)
    BY DEF HasZone
  <2>3. CASE rec[v].state = "failed"
    BY <2>1, <2>2, <2>3 DEF FailInv, FailedIsOver, Later
  <2>4. CASE rec[v].state # "failed"
    BY <2>1, <2>2, <2>4
  <2> QED BY <2>3, <2>4
<1> QED BY <1>1, <1>2, <1>3, <1>4 DEF FailInv

\* The same with one job that moves and leaves the records
LEMMA FailMoves ==
  ASSUME FailInv, zone' = zone, rec' = rec, Jobs' = Jobs, NEW j \in Jobs,
         \A i \in Jobs : i # j => job'[i] = job[i],
         Later(job'[j], job[j])
  PROVE  FailInv'
<1>1. \A i \in Jobs : Later(job'[i], job[i])
  BY DEF FailInv, QueuedIsTaken, Later
<1> QED BY <1>1, FailFrame

\* A job that tells of its failure, or gets its VM again, is the end of a
\* create
LEMMA EndOfCreate ==
  ASSUME JobType, NEW j \in Jobs, NEW task \in {"postBack", "refreshVm"},
         At(j, task)
  PROVE  CreateOf(job[j], job[j].vm) /\ ~Alive(job[j])
<1>1. job[j].mode \in {"onerror", "oncancel"}
  BY TaskPlaces DEF RequestTasks, CleanupTasks, ChainTasks, Queueing
<1>2. job[j].kind = "create"
  BY <1>1, AtOK, JobTyped DEF StepsGood
<1> QED BY <1>1, <1>2 DEF CreateOf, Alive

\* Whoever marks a VM as failed is the end of its create, and it has no VM
LEMMA MarksAtEnd ==
  ASSUME JobType, FailInv, NEW j \in Jobs, Marks(j)
  PROVE  /\ CreateOf(job[j], job[j].vm) /\ ~Alive(job[j])
         /\ ~HasZone(job[j].vm)
<1> DEFINE r == job[j]
<1>1. CreateOf(r, r.vm) /\ ~Alive(r) /\ ~r.taken
  BY EndOfCreate DEF Marks
<1>2. r.vm \in Vms
  BY JobTyped DEF JobRecs
<1>3. \A i \in Jobs : CreateOf(job[i], r.vm) => ~job[i].taken
  BY <1>1 DEF FailInv, OneCreate, CreateOf
<1> QED BY <1>1, <1>2, <1>3 DEF FailInv, ZoneIsTaken

\* A minor step marks no VM that is there or may be
LEMMA FailMinor ==
  ASSUME JobType, VmType, FailInv, zone' = zone, NEW j \in Jobs, NEW T,
         Minor(j, T), rec' = rec \/ Records(j)
  PROVE  FailInv'
<1>1. PICK x \in JobRecs, s \in JobRecs :
        /\ SameFlow(x, job[j]) /\ SameKey(x, job[j]) /\ Outcome(s, x, T)
        /\ PcOK(x) /\ Jobs' = Jobs /\ job'[j] = s
        /\ \A i \in Jobs : i # j => job'[i] = job[i]
  BY MinorTyped
<1>2. s = x \/ SameData(s, x)
  BY <1>1, OutcomeOK
<1>3. /\ s.vm = job[j].vm /\ s.kind = job[j].kind
      /\ s.task = job[j].task /\ s.taken = job[j].taken
  BY <1>1, <1>2 DEF SameData, SameKey, SameFlow
<1>4. Alive(s) => Alive(job[j])
  BY <1>1, AliveOutcome DEF Alive, SameFlow
<1>5. \A i \in Jobs : Later(job'[i], job[i])
  BY <1>1, <1>3, <1>4 DEF FailInv, QueuedIsTaken, Later
<1>6. CASE rec' = rec
  BY <1>1, <1>5, <1>6, FailFrame
<1>7. CASE Records(j)
  <2>1. PICK r \in Recs :
          /\ rec' = [rec EXCEPT ![job[j].vm] = r]
          /\ r.state = "failed" =>
               rec[job[j].vm].state = "failed" \/ Marks(j)
    BY <1>7 DEF Records
  <2>2. PICK w : w = job[j].vm
    OBVIOUS
  <2>3. rec'[w] = r /\ \A v \in Vms : v # w => rec'[v] = rec[v]
    <3>1. w \in Vms
      BY <2>2, JobTyped DEF JobRecs
    <3> QED BY <2>1, <2>2, <3>1 DEF VmType
  <2>4. ASSUME Marks(j)
        PROVE  /\ ~HasZone(w)
               /\ \A i \in Jobs : CreateOf(job[i], w) => ~Alive(job'[i])
    <3>1. CreateOf(job[j], w) /\ ~Alive(job[j]) /\ ~HasZone(w)
      BY <2>2, <2>4, MarksAtEnd
    <3>2. \A i \in Jobs : CreateOf(job[i], w) => i = j
      BY <3>1 DEF FailInv, OneCreate, CreateOf
    <3> QED BY <1>1, <1>4, <3>1, <3>2
  <2>5. \A v \in Vms : rec'[v].state = "failed" =>
            \/ rec[v].state = "failed"
            \/ /\ ~HasZone(v)
               /\ \A i \in Jobs : CreateOf(job[i], v) => ~Alive(job'[i])
    BY <2>1, <2>2, <2>3, <2>4
  <2> QED BY <1>1, <1>5, <2>5, FailFrame
<1> QED BY <1>6, <1>7

\* A create that queues its task is taken
LEMMA FailStarts ==
  ASSUME JobType, FailInv, zone' = zone, NEW j \in Jobs, Starts(j)
  PROVE  FailInv'
<1>1. PICK x \in JobRecs, s \in JobRecs :
        /\ SameFlow(x, job[j])
        /\ job[j].kind = "create" => x.taken
        /\ PcOK(x) /\ x.mode = "chain"
        /\ SameData(s, x) /\ Jobs' = Jobs
        /\ job'[j] = s /\ \A i \in Jobs : i # j => job'[i] = job[i]
  BY StartsTyped
<1>2. Later(s, job[j])
  BY <1>1 DEF SameData, SameFlow, Later, Alive
<1>3. rec' = rec
  BY DEF Starts
<1> QED BY <1>1, <1>2, <1>3, FailMoves

\* CNAPI makes the VM for a create that waits for it, and leaves no doubt
\* about a VM that failed
LEMMA FailFinishes ==
  ASSUME JobType, VmType, TaskInv, ClaimInv, FailInv, NEW j \in Jobs,
         Finishes(j)
  PROVE  FailInv'
<1> DEFINE r == job[j]
<1>1. PICK x \in JobRecs :
        /\ SameFlow(x, r) /\ x.taken = r.taken /\ x.task # "queued"
        /\ Jobs' = Jobs /\ job'[j] = x
        /\ \A i \in Jobs : i # j => job'[i] = job[i]
  BY FinishesTyped
<1>2. Later(x, r) /\ rec' = rec
  BY <1>1 DEF Later, SameFlow, Alive, Finishes
<1>3. CASE zone' = zone
  BY <1>1, <1>2, <1>3, FailMoves
<1>4. CASE /\ HasZone(r.vm) # (r.action = "create")
           /\ zone' = [zone EXCEPT ![r.vm] = After(zone[r.vm], r)]
  <2>1. /\ r \in JobRecs /\ PcOK(r) /\ r.vm \in Vms /\ r.task = "queued"
        /\ r.mode = "chain"
        /\ r.action = "create" <=> r.kind = "create"
    BY JobTyped DEF JobRecs, Finishes, TaskInv, ClaimInv
  <2>2. PICK v \in Vms : v = r.vm
    BY <2>1
  <2>3. \A w \in Vms : w # v => zone'[w] = zone[w]
    BY <1>4, <2>2 DEF VmType
  <2>4. \A i \in Jobs : Later(job'[i], job[i])
    BY <1>1, <1>2 DEF FailInv, QueuedIsTaken, Later
  <2>a. r.kind # "create" => HasZone(v)
    BY <1>4, <2>1, <2>2 DEF HasZone
  <2>5. rec[v].state # "failed"
    <3>1. CASE r.kind = "create"
      BY <2>1, <2>2, <3>1 DEF FailInv, FailedIsOver, CreateOf, Alive
    <3>2. CASE r.kind # "create"
      BY <2>a, <2>2, <3>2 DEF FailInv, FailedIsOver
    <3> QED BY <3>1, <3>2
  <2>6. \E i \in Jobs : CreateOf(job[i], v) /\ job[i].taken
    <3>1. CASE r.kind = "create"
      BY <2>1, <2>2, <3>1 DEF FailInv, QueuedIsTaken, CreateOf
    <3>2. CASE r.kind # "create"
      BY <2>a, <2>2, <3>2 DEF FailInv, ZoneIsTaken
    <3> QED BY <3>1, <3>2
  <2> HIDE DEF r
  <2>7. OneCreate' /\ QueuedIsTaken'
    BY <1>1, <2>4 DEF FailInv, OneCreate, QueuedIsTaken, Later
  <2>8. ZoneIsTaken'
    <3>1. \A w \in Vms : w # v => (HasZone(w)' <=> HasZone(w))
      BY <2>3 DEF HasZone
    <3>2. \A i \in Jobs, w \in Vms : CreateOf(job[i], w) /\ job[i].taken
                                => CreateOf(job'[i], w) /\ job'[i].taken
      BY <2>4 DEF Later, CreateOf
    <3>3. \A w \in Vms : HasZone(w)' =>
            \E i \in Jobs : CreateOf(job[i], w) /\ job[i].taken
      BY <2>6, <3>1 DEF FailInv, ZoneIsTaken
    <3> QED BY <1>1, <3>2, <3>3 DEF ZoneIsTaken
  <2>9. FailedIsOver'
    <3>1. \A w \in Vms : w # v => (HasZone(w)' <=> HasZone(w))
      BY <2>3 DEF HasZone
    <3>2. \A i \in Jobs, w \in Vms : CreateOf(job'[i], w) /\ Alive(job'[i])
                                     => CreateOf(job[i], w) /\ Alive(job[i])
      BY <2>4 DEF Later, CreateOf
    <3>3. \A w \in Vms : rec[w].state = "failed" =>
            /\ ~HasZone(w)'
            /\ \A i \in Jobs : CreateOf(job'[i], w) => ~Alive(job'[i])
      BY <2>5, <3>1, <3>2 DEF FailInv, FailedIsOver
    <3> QED BY <1>1, <1>2, <3>3 DEF FailedIsOver
  <2> QED BY <2>7, <2>8, <2>9 DEF FailInv
<1> QED BY <1>3, <1>4 DEF Finishes

\* A request for a VM is the first one for it, and finds no record
LEMMA FailAsks ==
  ASSUME JobType, QueueType, FailInv, NEW r, Asks(r)
  PROVE  FailInv'
<1>1. /\ Jobs' = Jobs \cup {Len(job) + 1} /\ Len(job) + 1 \notin Jobs
      /\ job'[Len(job) + 1] = r /\ \A j \in Jobs : job'[j] = job[j]
      /\ zone' = zone /\ rec' = rec /\ r.task = "none"
      /\ r.kind = "create" => /\ rec[r.vm].state = "absent"
                              /\ \A j \in Jobs : job[j].vm # r.vm
  BY AskStep DEF Asks
<1>2. \A i \in Jobs' : \/ i \in Jobs /\ job'[i] = job[i]
                       \/ i \notin Jobs /\ job'[i] = r
  BY <1>1
<1>3. OneCreate'
  <2> SUFFICES ASSUME NEW i \in Jobs', NEW j \in Jobs', i # j,
                      job'[i].kind = "create", job'[j].kind = "create"
               PROVE  job'[i].vm # job'[j].vm
    BY DEF OneCreate
  <2>1. CASE i \in Jobs /\ j \in Jobs
    BY <1>1, <2>1 DEF FailInv, OneCreate
  <2>2. CASE i \notin Jobs \/ j \notin Jobs
    BY <1>1, <2>2
  <2> QED BY <2>1, <2>2
<1>4. QueuedIsTaken'
  BY <1>1, <1>2 DEF FailInv, QueuedIsTaken
<1>5. ZoneIsTaken'
  BY <1>1 DEF FailInv, ZoneIsTaken, HasZone
<1>6. FailedIsOver'
  BY <1>1, <1>2 DEF FailInv, FailedIsOver, HasZone, CreateOf
<1> QED BY <1>3, <1>4, <1>5, <1>6 DEF FailInv

\* A GET that is at work for a job is for the end of a create, and if it has
\* found no instance there will be none when it puts that
GetInv ==
    \A v \in Vms : gets[v].step \in {"loaded", "answered"} =>
        /\ \E j \in Jobs : CreateOf(job[j], v) /\ ~Alive(job[j])
        /\ gets[v].step = "answered"
           /\ gets[v].found.state \in {"failed", "destroyed"} => ~HasZone(v)

\* VMAPI marks no VM when it hears of it from vm-agent, nor one that is there
\* when it gets it for a job
LEMMA FailRefreshes ==
  ASSUME JobType, VmType, FailInv, GetInv, job' = job, zone' = zone,
         Refreshes
  PROVE  FailInv'
<1>1. PICK v \in Vms, r \in Recs :
        /\ rec' = [rec EXCEPT ![v] = r]
        /\ r.state = "failed" => gets[v].step = "answered"
                                /\ r = gets[v].found
  BY DEF Refreshes
<1>2. rec'[v] = r /\ \A w \in Vms : w # v => rec'[w] = rec[w]
  BY <1>1 DEF VmType
<1>3. ASSUME r.state = "failed"
      PROVE  /\ ~HasZone(v)
             /\ \A i \in Jobs : CreateOf(job[i], v) => ~Alive(job'[i])
  <2>1. /\ ~HasZone(v)
        /\ \E j \in Jobs : CreateOf(job[j], v) /\ ~Alive(job[j])
    BY <1>1, <1>3 DEF GetInv
  <2>2. \A i, j \in Jobs : CreateOf(job[i], v) /\ CreateOf(job[j], v)
                           => i = j
    BY DEF FailInv, OneCreate, CreateOf
  <2> QED BY <2>1, <2>2
<1>4. \A w \in Vms : rec'[w].state = "failed" =>
        \/ rec[w].state = "failed"
        \/ /\ ~HasZone(w)
           /\ \A i \in Jobs : CreateOf(job[i], w) => ~Alive(job'[i])
  BY <1>2, <1>3
<1>5. Jobs' = Jobs
  BY DEF Jobs
<1>6. \A i \in Jobs : Later(job'[i], job[i])
  BY DEF FailInv, QueuedIsTaken, Later
<1> QED BY <1>4, <1>5, <1>6, FailFrame

\* Whatever a move does to the jobs, and a VM is made only for a create that
\* is not over
LEMMA JobsGoOn ==
  ASSUME TypeInv, TaskInv, ClaimInv, FailInv, Patient, Move
  PROVE  /\ \A i \in Jobs : i \in Jobs' /\ Later(job'[i], job[i])
         /\ \A v \in Vms : HasZone(v)' =>
              \/ HasZone(v)
              \/ \E j \in Jobs : CreateOf(job[j], v) /\ Alive(job[j])
<1>a. JobType /\ QueueType /\ UsedType /\ VmType
  BY TypeInvIs DEF TypeInvParts
<1> DEFINE GoOn == \A i \in Jobs : i \in Jobs' /\ Later(job'[i], job[i])
           Made == \A v \in Vms : HasZone(v)' =>
                     \/ HasZone(v)
                     \/ \E j \in Jobs : CreateOf(job[j], v) /\ Alive(job[j])
<1>b. zone' = zone => Made
  BY DEF HasZone
<1>c. \A i \in Jobs : Later(job[i], job[i])
  BY DEF FailInv, QueuedIsTaken, Later
<1>d. ASSUME NEW j \in Jobs, Jobs' = Jobs, Later(job'[j], job[j]),
             \A i \in Jobs : i # j => job'[i] = job[i]
      PROVE  GoOn
  BY <1>c, <1>d
<1>e. ASSUME NEW j \in Jobs, NEW T, Minor(j, T)
      PROVE  GoOn
  <2>1. PICK x \in JobRecs, s \in JobRecs :
          /\ SameFlow(x, job[j]) /\ SameKey(x, job[j]) /\ Outcome(s, x, T)
          /\ PcOK(x) /\ Jobs' = Jobs /\ job'[j] = s
          /\ \A i \in Jobs : i # j => job'[i] = job[i]
    BY <1>a, <1>e, MinorTyped
  <2>2. s = x \/ SameData(s, x)
    BY <2>1, OutcomeOK
  <2>3. /\ s.vm = job[j].vm /\ s.kind = job[j].kind
        /\ s.task = job[j].task /\ s.taken = job[j].taken
    BY <2>1, <2>2 DEF SameData, SameKey, SameFlow
  <2>4. Alive(s) => Alive(job[j])
    BY <2>1, AliveOutcome DEF Alive, SameFlow
  <2>5. Later(s, job[j])
    BY <2>3, <2>4 DEF FailInv, QueuedIsTaken, Later
  <2> QED BY <1>d, <2>1, <2>5
<1>1. ASSUME NEW j \in Jobs, TicketTasks(j)
      PROVE  GoOn
  <2>1. CASE Minor(j, {})
    BY <1>e, <2>1
  <2>2. CASE Crash(j)
    <3>1. Jobs' = Jobs
      BY <1>a, <2>2, CrashTyped
    <3>2. ASSUME NEW i \in Jobs
          PROVE  Later(job'[i], job[i])
      <4>1. \/ job'[i] = job[i]
            \/ job'[i].mode = "ended" /\ SameData(job'[i], job[i])
        BY <1>a, <2>2, CrashTyped
      <4> QED
        BY <1>c, <4>1 DEF SameData, Later, Alive, FailInv, QueuedIsTaken
    <3> QED BY <3>1, <3>2
  <2> QED BY <1>a, <1>1, <2>1, <2>2, TicketStep
<1>2. ASSUME NEW j \in Jobs, Minor(j, Lines) \/ TaskFails(j)
      PROVE  GoOn
  <2>1. Minor(j, Lines)
    BY <1>a, <1>2, FaultStep, FewerStages
  <2> QED BY <1>e, <2>1
<1>3. ASSUME NEW j \in Jobs, LooksAtNics(j)
      PROVE  GoOn
  <2>1. PICK s \in JobRecs :
          /\ SameKey(s, job[j]) /\ s.vm = job[j].vm /\ s.kind = "destroy"
          /\ Jobs' = Jobs /\ job'[j] = s
          /\ \A i \in Jobs : i # j => job'[i] = job[i]
    BY <1>a, <1>3, LookTyped
  <2>2. job[j].kind = "destroy" /\ job[j].mode = "chain"
    BY <1>a, <1>3, LookStep
  <2>3. Later(s, job[j])
    BY <2>1, <2>2 DEF Later, SameKey, Alive
  <2> QED BY <1>d, <2>1, <2>3
<1>4. ASSUME NEW j \in Jobs, Allocates(j)
      PROVE  GoOn
  <2>1. PICK x \in JobRecs, s \in JobRecs :
          /\ SameFlow(x, job[j]) /\ x.task = job[j].task
          /\ x.taken = job[j].taken /\ PcOK(x) /\ x.mode # "ended"
          /\ Steps(job[j])[job[j].pc] = "getAllocation"
          /\ s = Next1(x) /\ SameData(s, x) /\ Jobs' = Jobs
          /\ job'[j] = s /\ \A i \in Jobs : i # j => job'[i] = job[i]
    BY <1>a, <1>4, AllocatesTyped
  <2>2. Alive(s) => Alive(x)
    <3>1. Outcome(s, x, {})
      BY <2>1 DEF Outcome
    <3> QED BY <2>1, <3>1, AliveOutcome
  <2>3. Later(s, job[j])
    BY <2>1, <2>2
       DEF Later, SameFlow, SameData, Alive, FailInv, QueuedIsTaken
  <2> QED BY <1>d, <2>1, <2>3
<1>5. ASSUME NEW j \in Jobs, Starts(j)
      PROVE  GoOn
  <2>1. PICK x \in JobRecs, s \in JobRecs :
          /\ SameFlow(x, job[j])
          /\ job[j].kind = "create" => x.taken
          /\ PcOK(x) /\ x.mode = "chain"
          /\ SameData(s, x) /\ Jobs' = Jobs
          /\ job'[j] = s /\ \A i \in Jobs : i # j => job'[i] = job[i]
    BY <1>a, <1>5, StartsTyped
  <2>2. Later(s, job[j])
    BY <2>1 DEF SameData, SameFlow, Later, Alive
  <2> QED BY <1>d, <2>1, <2>2
<1>6. ASSUME NEW j \in Jobs, Finishes(j)
      PROVE  GoOn /\ Made
  <2>1. PICK x \in JobRecs :
          /\ SameFlow(x, job[j]) /\ x.taken = job[j].taken
          /\ x.task # "queued" /\ Jobs' = Jobs /\ job'[j] = x
          /\ \A i \in Jobs : i # j => job'[i] = job[i]
    BY <1>a, <1>6, FinishesTyped
  <2>2. Later(x, job[j])
    BY <2>1 DEF Later, SameFlow, Alive
  <2>3. GoOn
    BY <1>d, <2>1, <2>2
  <2>4. CASE /\ HasZone(job[j].vm) # (job[j].action = "create")
             /\ zone' = [zone EXCEPT ![job[j].vm] =
                           After(zone[job[j].vm], job[j])]
    <3>1. /\ job[j].vm \in Vms /\ job[j].mode = "chain"
          /\ job[j].action = "create" <=> job[j].kind = "create"
      BY <1>a, <1>6, JobTyped DEF JobRecs, Finishes, TaskInv, ClaimInv
    <3>2. \A w \in Vms : w # job[j].vm => zone'[w] = zone[w]
      BY <1>a, <2>4, <3>1 DEF VmType
    <3>3. HasZone(job[j].vm) \/ job[j].action = "create"
      BY <2>4 DEF HasZone
    <3>4. \A w \in Vms : w # job[j].vm => (HasZone(w)' <=> HasZone(w))
      BY <3>2 DEF HasZone
    <3>5. HasZone(job[j].vm) \/ (CreateOf(job[j], job[j].vm) /\ Alive(job[j]))
      BY <3>1, <3>3 DEF CreateOf, Alive
    <3> QED BY <2>3, <3>4, <3>5
  <2> QED BY <1>b, <1>6, <2>3, <2>4 DEF Finishes
<1>7. ASSUME NEW r, Asks(r)
      PROVE  GoOn
  <2>1. Jobs' = Jobs \cup {Len(job) + 1} /\ \A i \in Jobs : job'[i] = job[i]
    BY <1>a, <1>7, AskStep
  <2> QED BY <1>c, <2>1
<1>8. ASSUME job' = job
      PROVE  GoOn
  <2>1. Jobs' = Jobs
    BY <1>a, <1>8, StillTyped
  <2> QED BY <1>8, <1>c, <2>1
<1>9. ASSUME NEW j \in Jobs, CancelJob(j) \/ AnswerLost(j)
      PROVE  FALSE
  BY <1>a, <1>9, PatientJobs
<1>10. ASSUME NEW r, Asks(r)
       PROVE  zone' = zone
  BY <1>10 DEF Asks
<1> HIDE DEF GoOn, Made
<1>11. GoOn /\ Made
  BY <1>b, <1>1, <1>2, <1>3, <1>4, <1>5, <1>6, <1>7, <1>8, <1>9, <1>10
     DEF Move, Expires
<1> QED BY <1>11 DEF GoOn, Made

\* Every step keeps what is said of the GETs, if jobs are patient and no
\* caller asks for one
LEMMA GetNext ==
  ASSUME TypeInv, TaskInv, ClaimInv, FailInv, GetInv, Patient, ~SyncGets,
         Move, GetMove
  PROVE  GetInv'
<1>a. JobType /\ QueueType /\ VmType /\ GetType
  BY TypeInvIs DEF TypeInvParts
<1>1. /\ \A i \in Jobs : i \in Jobs' /\ Later(job'[i], job[i])
      /\ \A v \in Vms : HasZone(v)' =>
           \/ HasZone(v)
           \/ \E j \in Jobs : CreateOf(job[j], v) /\ Alive(job[j])
  BY JobsGoOn
<1>2. ASSUME NEW v \in Vms, NEW j \in Jobs, CreateOf(job[j], v),
             ~Alive(job[j])
      PROVE  /\ j \in Jobs' /\ CreateOf(job'[j], v) /\ ~Alive(job'[j])
             /\ ~HasZone(v) => ~HasZone(v)'
  <2>1. \A i \in Jobs : CreateOf(job[i], v) => i = j
    BY <1>2 DEF FailInv, OneCreate, CreateOf
  <2> QED BY <1>1, <1>2, <2>1 DEF Later, CreateOf
<1>3. ASSUME NEW v \in Vms, gets'[v].step \in {"loaded", "answered"},
             gets'[v] = gets[v]
      PROVE  /\ \E j \in Jobs' : CreateOf(job'[j], v) /\ ~Alive(job'[j])
             /\ gets'[v].step = "answered"
                /\ gets'[v].found.state \in {"failed", "destroyed"}
                  => ~HasZone(v)'
  <2>1. PICK j \in Jobs : CreateOf(job[j], v) /\ ~Alive(job[j])
    BY <1>3 DEF GetInv
  <2> QED BY <1>2, <1>3, <2>1 DEF GetInv
<1>4. CASE gets' = gets
  BY <1>3, <1>4 DEF GetInv
<1>5. ASSUME NEW w \in Vms, NEW by \in Jobs \cup {Caller}, Begins(w, by)
      PROVE  GetInv'
  <2>1. /\ by \in Jobs /\ job[by].vm = w /\ At(by, "refreshVm")
    BY <1>5 DEF Begins
  <2>2. CreateOf(job[by], w) /\ ~Alive(job[by])
    BY <1>a, <2>1, EndOfCreate
  <2>3. /\ gets'[w].step = "loaded"
        /\ \A v \in Vms : v # w => gets'[v] = gets[v]
    BY <1>a, <1>5 DEF Begins, GetType
  <2>4. by \in Jobs' /\ CreateOf(job'[by], w) /\ ~Alive(job'[by])
    BY <1>2, <2>1, <2>2
  <2> QED BY <1>3, <2>3, <2>4 DEF GetInv
<1>6. ASSUME NEW w \in Vms, SyncAnswered(w)
      PROVE  GetInv'
  <2>1. /\ gets[w].step = "loaded" /\ gets'[w].step = "answered"
        /\ gets'[w].found = Answer(w, gets[w].found)
        /\ \A v \in Vms : v # w => gets'[v] = gets[v]
        /\ zone' = zone
    BY <1>a, <1>6 DEF SyncAnswered, GetType, Gets
  <2>2. gets'[w].found.state \in {"failed", "destroyed"} => ~HasZone(w)'
    <3>1. zone[w] \in Zones
      BY <1>a DEF VmType
    <3> QED BY <2>1, <3>1 DEF Answer, RecordOf, HasZone, Zones
  <2>3. PICK j \in Jobs : CreateOf(job[j], w) /\ ~Alive(job[j])
    BY <2>1 DEF GetInv
  <2>4. j \in Jobs' /\ CreateOf(job'[j], w) /\ ~Alive(job'[j])
    BY <1>2, <2>3
  <2> QED BY <1>3, <2>1, <2>2, <2>4 DEF GetInv
<1>7. ASSUME NEW w \in Vms, Clears(w)
      PROVE  GetInv'
  <2>1. /\ gets'[w].step \notin {"loaded", "answered"}
        /\ \A v \in Vms : v # w => gets'[v] = gets[v]
    BY <1>a, <1>7 DEF Clears, GetType
  <2> QED BY <1>3, <2>1 DEF GetInv
<1> QED BY <1>4, <1>5, <1>6, <1>7 DEF GetMove

\* Every move keeps failed VMs gone, if jobs are patient
LEMMA FailNext ==
  ASSUME TypeInv, TaskInv, ClaimInv, FailInv, GetInv, Patient, Move
  PROVE  FailInv'
<1>a. JobType /\ QueueType /\ UsedType /\ VmType
  BY TypeInvIs DEF TypeInvParts
<1>1. ASSUME NEW j \in Jobs, TicketTasks(j), zone' = zone, rec' = rec
      PROVE  FailInv'
  <2>1. CASE Minor(j, {})
    BY <1>a, <1>1, <2>1, FailMinor
  <2>2. CASE Crash(j)
    <3>1. Jobs' = Jobs
      BY <1>a, <2>2, CrashTyped
    <3>2. ASSUME NEW i \in Jobs
          PROVE  Later(job'[i], job[i])
      <4>1. \/ job'[i] = job[i]
            \/ job'[i].mode = "ended" /\ SameData(job'[i], job[i])
        BY <1>a, <2>2, CrashTyped
      <4> QED
        BY <4>1 DEF SameData, Later, Alive, FailInv, QueuedIsTaken
    <3> QED BY <1>1, <3>1, <3>2, FailFrame
  <2> QED BY <1>a, <1>1, <2>1, <2>2, TicketStep
<1>2. ASSUME NEW j \in Jobs, Minor(j, Lines) \/ TaskFails(j), zone' = zone,
             rec' = rec \/ Records(j)
      PROVE  FailInv'
  <2>1. Minor(j, Lines)
    BY <1>a, <1>2, FaultStep, FewerStages
  <2> QED BY <1>a, <1>2, <2>1, FailMinor
<1>3. ASSUME NEW j \in Jobs, LooksAtNics(j), zone' = zone, rec' = rec
      PROVE  FailInv'
  <2>1. PICK s \in JobRecs :
          /\ SameKey(s, job[j]) /\ s.vm = job[j].vm /\ s.kind = "destroy"
          /\ Jobs' = Jobs /\ job'[j] = s
          /\ \A i \in Jobs : i # j => job'[i] = job[i]
    BY <1>a, <1>3, LookTyped
  <2>2. job[j].kind = "destroy" /\ job[j].mode = "chain"
    BY <1>a, <1>3, LookStep
  <2>3. Later(s, job[j])
    BY <2>1, <2>2 DEF Later, SameKey, Alive
  <2> QED BY <1>3, <2>1, <2>3, FailMoves
<1>4. ASSUME NEW j \in Jobs, Allocates(j), zone' = zone
      PROVE  FailInv'
  <2>1. PICK x \in JobRecs, s \in JobRecs :
          /\ SameFlow(x, job[j]) /\ x.task = job[j].task
          /\ x.taken = job[j].taken /\ PcOK(x) /\ x.mode # "ended"
          /\ Steps(job[j])[job[j].pc] = "getAllocation"
          /\ s = Next1(x) /\ SameData(s, x) /\ Jobs' = Jobs
          /\ job'[j] = s /\ \A i \in Jobs : i # j => job'[i] = job[i]
    BY <1>a, <1>4, AllocatesTyped
  <2>2. Alive(s) => Alive(x)
    <3>1. Outcome(s, x, {})
      BY <2>1 DEF Outcome
    <3> QED BY <2>1, <3>1, AliveOutcome
  <2>3. Later(s, job[j])
    BY <2>1, <2>2
       DEF Later, SameFlow, SameData, Alive, FailInv, QueuedIsTaken
  <2>4. rec' = rec
    BY <1>4 DEF Allocates
  <2> QED BY <1>4, <2>1, <2>3, <2>4, FailMoves
<1>5. ASSUME job' = job, zone' = zone, rec' = rec
      PROVE  FailInv'
  <2>1. Jobs' = Jobs
    BY <1>a, <1>5, StillTyped
  <2>2. \A i \in Jobs : Later(job'[i], job[i])
    BY <1>5 DEF FailInv, QueuedIsTaken, Later
  <2> QED BY <1>5, <2>1, <2>2, FailFrame
<1>6. CASE \E j \in Jobs : Starts(j) /\ zone' = zone
  BY <1>a, <1>6, FailStarts
<1>7. CASE \E j \in Jobs : Finishes(j)
  BY <1>a, <1>7, FailFinishes
<1>8. CASE \E j \in Jobs : CancelJob(j) \/ AnswerLost(j)
  BY <1>a, <1>8, PatientJobs
<1>9. CASE \E r : Asks(r)
  BY <1>a, <1>9, FailAsks
<1>10. CASE job' = job /\ zone' = zone /\ Refreshes
  BY <1>a, <1>10, FailRefreshes
<1> QED
  BY <1>1, <1>2, <1>3, <1>4, <1>5, <1>6, <1>7, <1>8, <1>9, <1>10
     DEF Move, Expires

\* A VM that VMAPI gives out as failed has no instance and gets none: whoever
\* marks it is the end of its only create, and CNAPI either never took the
\* provision or has no VM.  The hypothesis ~SyncGets is that nobody asks for a
\* VM with ?sync=true, which marks one that is still being provisioned
THEOREM FailedIsGoneCorrect ==
  Patient /\ ~SyncGets => (Spec => []FailedIsGone)
<1> SUFFICES ASSUME Patient, ~SyncGets PROVE Spec => []FailedIsGone
  OBVIOUS
<1> DEFINE Inv == /\ TypeInv /\ TicketInv /\ TaskInv /\ AllocInv
                  /\ ClaimInv /\ ZoneInv /\ FailInv /\ GetInv
<1>1. Init => Inv
  <2> SUFFICES ASSUME Init
               PROVE  FailInv /\ GetInv
    BY NothingAtFirst
  <2>1. /\ Jobs = {}
        /\ \A v \in Vms : /\ zone[v] = NoZone /\ rec[v] = NoRecord
                          /\ gets[v] = NoGet
    BY DEF Init, WorkflowsInit, Jobs
  <2> QED
    BY <2>1 DEF FailInv, OneCreate, QueuedIsTaken, ZoneIsTaken, FailedIsOver,
                HasZone, NoZone, NoRecord, GetInv, NoGet
<1>2. Inv /\ [Next]_vars => Inv'
  BY StepMoves, TicketNext, TaskNext, AllocNext, ClaimNext, FailNext, GetNext
<1>3. Inv => FailedIsGone
  BY DEF FailInv, FailedIsOver, FailedIsGone, TaskInv, CreateOf, Alive
<1> QED BY <1>1, <1>2, <1>3, PTL DEF Spec
====
