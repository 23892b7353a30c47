------------------------------ MODULE Workflows ------------------------------
(***************************************************************************)
(* The jobs of VMAPI's workflows other than migrations (lib/workflows),    *)
(* each with the request that queues it (lib/endpoints/vms.js), and the    *)
(* waitlist tickets of CNAPI that they wait in line for.                   *)
(*                                                                         *)
(* A request and its job are one process: a sequence of tasks that goes    *)
(* through the steps of the request and then through the job's chain.  A   *)
(* task that fails sends a request to its clean-up and a job to its        *)
(* onerror chain; a canceled job goes to its oncancel chain.  The modules  *)
(* that extend this one say what each task does.                           *)
(***************************************************************************)
EXTENDS Naturals, Sequences, FiniteSets, SequencesExt

CONSTANTS
    Vms,          \* the VMs
    Kinds,        \* the requests callers make, a subset of AllKinds
    MaxJobs,      \* BOUND: requests over a behaviour
    FailingTasks, \* the tasks that may fail for a reason outside the model
    MaxFaults,    \* BOUND: how many of them do
    MaxCancels,   \* BOUND: jobs canceled through the workflow API
    ExpireHeld    \* TRUE if a ticket may expire under a job that runs on

ActionKinds ==
    {"start", "stop", "kill", "reboot", "reprovision", "update", "snapshot",
     "deleteSnapshot", "rollback", "updateNics"}
AllKinds == ActionKinds \cup {"create", "destroy", "addNics", "removeNics"}

ASSUME WorkflowsAssumption ==
    /\ Kinds \subseteq AllKinds
    /\ Vms \cap {"allocate", "nat"} = {}
    /\ MaxJobs \in Nat /\ MaxFaults \in Nat /\ MaxCancels \in Nat
    /\ ExpireHeld \in BOOLEAN

VARIABLES
    job,    \* the requests made so far, each with its job
    queue,  \* the tickets of each queue of the waitlist, the active one first
    used    \* how much of the bounds the behaviour has used

\* What tickets are for: a VM, DAPI's allocation, the NAT of the network
Scopes == Vms \cup {"allocate", "nat"}
Jobs == DOMAIN job

-----------------------------------------------------------------------------
(* The steps of a request.  Those of create are allocateServer's and then  *)
(* createVm's; where one of them fails decides where its clean-up begins.  *)
\* Mutant: the allocation ticket is released before the VM's is in line
AllocateReleasesFirst ==
    <<"acquireAllocationTicket", "waitOnAllocationTicket", "getAllocation",
      "putVmInMoray", "releaseAllocationTicket", "acquireVMTicket",
      "waitOnVMTicket">>
AllocateServer ==
    <<"acquireAllocationTicket", "waitOnAllocationTicket", "getAllocation",
      "putVmInMoray", "acquireVMTicket", "releaseAllocationTicket",
      "waitOnVMTicket">>
RequestSteps(kind) ==
    CASE kind = "create" -> AllocateServer \o <<"provisionNics", "createJob">>
      [] kind = "addNics" -> <<"provisionNics", "createJob">>
      [] OTHER -> <<"createJob">>

AllocateCleanup == <<"refreshVmOnError", "releaseVMTicket",
                     "releaseAllocationTicket">>
RequestCleanup(kind) ==
    CASE kind = "create" -> AllocateCleanup \o
             <<"cleanupNicsOfRequest", "refreshVmOnError", "releaseVMTicket">>
      [] kind = "addNics" -> <<"cleanupNicsOfRequest">>
      [] OTHER -> << >>

(* The chains.  Validation, passwords, images, FWAPI and network parameters *)
(* are left out; a task that does several calls in turn is several steps.   *)
FabricProvisionChain == <<"acquireFabricTickets", "waitOnFabricTicket",
                          "getNetwork", "createNat">>
FabricDestroyChain == <<"acquireFabricTickets", "waitOnFabricTicket",
                        "listNics", "destroyNat", "releaseFabricNatTickets">>
NfsProvisionChain == <<"loadVolume", "reserveVolume", "createVolume",
                       "waitForNfsVolumeProvisions">>
ProvisionChain(r) ==
    (IF r.fabric THEN FabricProvisionChain \o <<"waitForFabricNatProvisions">>
                 ELSE << >>)
    \o (IF r.mounts THEN NfsProvisionChain ELSE << >>)
    \o <<"provision", "waitTask">>
    \o (IF r.mounts THEN <<"addVolumesReferences">> ELSE << >>)
    \o <<"putVm", "releaseVMTicket", "releaseFabricNatTickets">>
DestroyChain(r) ==
    <<"acquireVMTicket", "waitOnVMTicket", "getFabricNatNics", "zoneAction",
      "markVmAsDestroyed", "waitTask", "removeNics",
      "removeVolumesReferences", "releaseVMTicket">>
    \o (IF r.fabric THEN FabricDestroyChain ELSE << >>)
AddNicsChain(r) ==
    (IF r.fabric THEN FabricProvisionChain ELSE << >>)
    \o <<"acquireVMTicket", "waitOnVMTicket">>
    \o (IF r.fabric THEN <<"waitForFabricNatProvisions">> ELSE << >>)
    \o <<"zoneAction", "waitTask", "checkUpdated", "putVm", "releaseVMTicket",
         "releaseFabricNatTickets">>
RemoveNicsChain ==
    <<"acquireVMTicket", "waitOnVMTicket", "zoneAction", "removeNics",
      "waitTask", "checkUpdated", "putVm", "releaseVMTicket">>
UpdateNicsChain ==
    <<"acquireVMTicket", "waitOnVMTicket", "updateNicsInNapi", "zoneAction",
      "waitTask", "checkUpdated", "putVm", "releaseVMTicket">>
\* Start, stop and reboot look at the VM's state once they have its ticket
StartChain ==
    <<"acquireVMTicket", "waitOnVMTicket", "ensureVmState", "zoneAction",
      "waitTask", "putVm", "releaseVMTicket">>
StopChain ==
    <<"acquireVMTicket", "waitOnVMTicket", "ensureVmState", "zoneAction",
      "waitTask", "putVm", "releaseVMTicket">>
RebootChain ==
    <<"acquireVMTicket", "waitOnVMTicket", "ensureVmState", "zoneAction",
      "waitTask", "putVm", "releaseVMTicket">>
KillChain == <<"acquireVMTicket", "waitOnVMTicket", "zoneAction", "waitTask",
               "putVm", "releaseVMTicket">>
ReprovisionChain == <<"acquireVMTicket", "waitOnVMTicket", "zoneAction",
                      "waitTask", "putVm", "releaseVMTicket">>
UpdateChain == <<"acquireVMTicket", "waitOnVMTicket", "zoneAction", "waitTask",
                 "putVm", "releaseVMTicket">>
SnapshotChain == <<"acquireVMTicket", "waitOnVMTicket", "zoneAction",
                   "waitTask", "putVm", "releaseVMTicket">>
DeleteSnapshotChain == <<"acquireVMTicket", "waitOnVMTicket", "zoneAction",
                         "waitTask", "putVm", "releaseVMTicket">>
\* Mutant: a rollback that does not take the VM's ticket again
RollbackWithoutTicket ==
    <<"acquireVMTicket", "waitOnVMTicket", "stopForRollback", "waitTask",
      "releaseVMTicket", "zoneAction", "waitTask", "putVm",
      "releaseVMTicketIgnoringErr">>
\* A rollback gives the ticket up between the stop and the rollback
RollbackChain ==
    <<"acquireVMTicket", "waitOnVMTicket", "stopForRollback", "waitTask",
      "releaseVMTicket", "acquireVMTicket", "waitOnVMTicket", "zoneAction",
      "waitTask", "putVm", "releaseVMTicket">>

Chain(r) ==
    CASE r.kind = "create" -> ProvisionChain(r)
      [] r.kind = "destroy" -> DestroyChain(r)
      [] r.kind = "addNics" -> AddNicsChain(r)
      [] r.kind = "removeNics" -> RemoveNicsChain
      [] r.kind = "updateNics" -> UpdateNicsChain
      [] r.kind = "start" -> StartChain
      [] r.kind = "stop" -> StopChain
      [] r.kind = "reboot" -> RebootChain
      [] r.kind = "kill" -> KillChain
      [] r.kind = "reprovision" -> ReprovisionChain
      [] r.kind = "update" -> UpdateChain
      [] r.kind = "snapshot" -> SnapshotChain
      [] r.kind = "deleteSnapshot" -> DeleteSnapshotChain
      [] r.kind = "rollback" -> RollbackChain

\* Mutant: a failed provision keeps the ticket of the NAT zone
OnErrorKeepsNat(kind) ==
    IF kind = "create" THEN <<"cleanupNics", "postBack", "releaseVMTicket",
                              "refreshVm">>
    ELSE <<"releaseVMTicketIgnoringErr", "releaseFabricNatTickets">>
OnErrorChain(kind) ==
    CASE kind = "create" ->
             <<"cleanupNics", "postBack", "releaseVMTicket", "refreshVm",
               "releaseFabricNatTickets">>
      [] kind = "destroy" -> <<"releaseVMTicketIgnoringErr",
                               "releaseFabricNatTickets">>
      [] kind = "addNics" -> <<"cleanupNics", "releaseVMTicketIgnoringErr",
                               "releaseFabricNatTickets">>
      [] kind = "updateNics" -> <<"cleanupNics", "releaseVMTicketIgnoringErr">>
      [] OTHER -> <<"releaseVMTicketIgnoringErr">>
OnCancelChain(kind) ==
    CASE kind = "create" -> <<"refreshVm", "releaseVMTicket",
                              "releaseFabricNatTickets">>
      [] kind \in {"destroy", "addNics"} -> <<"releaseVMTicketIgnoringErr",
                                              "releaseFabricNatTickets">>
      [] OTHER -> <<"releaseVMTicketIgnoringErr">>

-----------------------------------------------------------------------------
(* How the runner of workflows, and vasync.pipeline for a request, go on.   *)
Steps(r) ==
    CASE r.mode = "request" -> RequestSteps(r.kind)
      [] r.mode = "cleanup" -> RequestCleanup(r.kind)
      [] r.mode = "chain" -> Chain(r)
      [] r.mode = "onerror" -> OnErrorChain(r.kind)
      [] r.mode = "oncancel" -> OnCancelChain(r.kind)
      [] OTHER -> << >>

At(j, task) ==
    /\ job[j].pc <= Len(Steps(job[j]))
    /\ Steps(job[j])[job[j].pc] = task

Enter(r, mode) ==
    LET s == [r EXCEPT !.mode = mode, !.pc = 1]
    IN IF Steps(s) = << >> THEN [s EXCEPT !.mode = "ended"] ELSE s

\* Mutant: goes on past the last task
Next1PastEnd(r) ==
    IF r.mode = "request" /\ r.pc >= Len(Steps(r)) THEN Enter(r, "chain")
    ELSE [r EXCEPT !.pc = @ + 1]
\* After a task that succeeded
Next1(r) ==
    CASE r.pc < Len(Steps(r)) -> [r EXCEPT !.pc = @ + 1]
      [] r.pc >= Len(Steps(r)) /\ r.mode = "request" -> Enter(r, "chain")
      [] OTHER -> Enter(r, "ended")

\* Mutant: an onerror chain that fails starts again
FailedRetries(r) ==
    CASE r.mode = "request" -> Enter(r, "cleanup")
      [] r.mode \in {"chain", "onerror"} -> Enter(r, "onerror")
      [] OTHER -> Enter(r, "ended")
(* After a task that failed.  A create whose allocation failed cleans up    *)
(* after the allocation first, and goes on to the clean-up of the request   *)
(* when a step of the first fails; one whose job cannot be queued does not  *)
(* clean up at all.  A failure in an onerror or oncancel chain ends it.     *)
Failed(r) ==
    CASE r.mode = "request" /\ r.kind = "create" ->
             IF Steps(r)[r.pc] = "createJob" THEN Enter(r, "ended")
             ELSE [r EXCEPT !.mode = "cleanup",
                            !.pc = IF r.pc <= Len(AllocateServer)
                                   THEN 1 ELSE 1 + Len(AllocateCleanup)]
      [] r.mode = "request" /\ r.kind # "create" -> Enter(r, "cleanup")
      [] r.mode = "cleanup" /\ r.pc <= Len(AllocateCleanup)
            /\ r.kind = "create" -> [r EXCEPT !.pc = 1 + Len(AllocateCleanup)]
      [] r.mode = "chain" -> Enter(r, "onerror")
      [] OTHER -> Enter(r, "ended")

Proceed(j, r) == job' = [job EXCEPT ![j] = Next1(r)]
FailWith(j, r) == job' = [job EXCEPT ![j] = Failed(r)]

Ended(j) == job[j].mode = "ended"
AllEnded == \A j \in Jobs : Ended(j)

-----------------------------------------------------------------------------
(* The waitlist of CNAPI: a ticket is active when it is first in its queue. *)
Holds(j, scope) == queue[scope] # << >> /\ Head(queue[scope]) = j
InLine(j, scope) == \E i \in DOMAIN queue[scope] : queue[scope][i] = j

Acquire(j, scope) ==
    /\ queue' = [queue EXCEPT ![scope] = Append(@, j)]
    /\ Proceed(j, [job[j] EXCEPT !.tickets = @ \cup {scope}])
    /\ UNCHANGED used

\* The ticket was created, but the job failed before it learnt of it
AcquireAndFail(j, scope) ==
    /\ used.faults < MaxFaults
    /\ used' = [used EXCEPT !.faults = @ + 1]
    /\ queue' = [queue EXCEPT ![scope] = Append(@, j)]
    /\ FailWith(j, job[j])

\* A ticket that has expired is no longer in the queue: the wait may end
\* either way
WaitOn(j, scope) ==
    /\ \/ Holds(j, scope) /\ Proceed(j, job[j])
       \/ ~InLine(j, scope) /\ (Proceed(j, job[j]) \/ FailWith(j, job[j]))
    /\ UNCHANGED <<queue, used>>

\* The queue without the job's ticket
Place(j, scope) == CHOOSE i \in DOMAIN queue[scope] : queue[scope][i] = j
Without(scope, j) ==
    IF InLine(j, scope)
    THEN [queue EXCEPT ![scope] = RemoveAt(@, Place(j, scope))] ELSE queue

\* Releasing a ticket the job does not know of does nothing
Release(j, scope) ==
    /\ queue' = IF scope \in job[j].tickets THEN Without(scope, j) ELSE queue
    /\ Proceed(j, job[j])
    /\ UNCHANGED used

acquireVMTicket(j) ==
    /\ At(j, "acquireVMTicket")
    /\ \/ Acquire(j, job[j].vm)
       \/ "acquireVMTicket" \in FailingTasks /\ AcquireAndFail(j, job[j].vm)
waitOnVMTicket(j) == At(j, "waitOnVMTicket") /\ WaitOn(j, job[j].vm)
releaseVMTicket(j) == At(j, "releaseVMTicket") /\ Release(j, job[j].vm)
releaseVMTicketIgnoringErr(j) ==
    At(j, "releaseVMTicketIgnoringErr") /\ Release(j, job[j].vm)

acquireAllocationTicket(j) ==
    /\ At(j, "acquireAllocationTicket")
    /\ \/ Acquire(j, "allocate")
       \/ "acquireAllocationTicket" \in FailingTasks
          /\ AcquireAndFail(j, "allocate")
waitOnAllocationTicket(j) ==
    At(j, "waitOnAllocationTicket") /\ WaitOn(j, "allocate")

(* The release asserts that there is a ticket.  When the clean-up comes to  *)
(* it without one it throws, which ends the process and every request in it.*)
releaseAllocationTicket(j) ==
    /\ At(j, "releaseAllocationTicket")
    /\ IF "allocate" \in job[j].tickets
       THEN Release(j, "allocate")
       ELSE /\ job' = [i \in Jobs |->
                        IF job[i].mode \in {"request", "cleanup"}
                        THEN Enter(job[i], "ended") ELSE job[i]]
            /\ UNCHANGED <<queue, used>>

(* CNAPI ends tickets that are due: those of jobs that have ended, and in   *)
(* some runs the active one of a job that runs on.                          *)
ExpireTicket(scope) ==
    \E j \in Jobs :
        /\ \/ InLine(j, scope) /\ Ended(j)
           \/ ExpireHeld /\ Holds(j, scope)
        /\ queue' = Without(scope, j)
        /\ UNCHANGED <<job, used>>

-----------------------------------------------------------------------------
(* A task fails before it has an effect.  The release of a ticket that      *)
(* ignores errors goes on, with the ticket where it was; the removal of     *)
(* volume references and the post back never fail either.                   *)
NeverFail == {"releaseVMTicketIgnoringErr", "removeVolumesReferences",
              "postBack"}
TaskFails(j) ==
    /\ used.faults < MaxFaults
    /\ \E task \in FailingTasks :
        /\ At(j, task)
        /\ IF task \in NeverFail THEN Proceed(j, job[j])
                                 ELSE FailWith(j, job[j])
    /\ used' = [used EXCEPT !.faults = @ + 1]
    /\ UNCHANGED queue

CancelJob(j) ==
    /\ used.cancels < MaxCancels
    /\ job[j].mode = "chain"
    /\ job' = [job EXCEPT ![j] = Enter(@, "oncancel")]
    /\ used' = [used EXCEPT !.cancels = @ + 1]
    /\ UNCHANGED queue

WorkflowsInit ==
    /\ job = << >>
    /\ queue = [scope \in Scopes |-> << >>]
    /\ used = [faults |-> 0, cancels |-> 0, deletes |-> 0]

TicketTasks(j) ==
    \/ acquireVMTicket(j) \/ waitOnVMTicket(j) \/ releaseVMTicket(j)
    \/ releaseVMTicketIgnoringErr(j)
    \/ acquireAllocationTicket(j) \/ waitOnAllocationTicket(j)
    \/ releaseAllocationTicket(j)
=============================================================================
