------------------------------- MODULE VmJobs -------------------------------
(***************************************************************************)
(* Creating, changing and destroying VMs: the requests of                  *)
(* lib/endpoints/vms.js with the workflow jobs they queue, over the NICs   *)
(* and the NAT zone (Nics), the shared volume (NfsVolumes), VMAPI's        *)
(* records of the VMs and the instances on the compute nodes.              *)
(***************************************************************************)
EXTENDS Nics, NfsVolumes

CONSTANTS
    Servers,     \* the compute nodes; each has room for one VM
    Docker,      \* the VMs that are docker containers
    SyncGets,    \* TRUE if callers get VMs with ?sync=true
    WaitsGiveUp  \* TRUE if a caller's wait for its job may end before the job

ASSUME VmJobsAssumption ==
    /\ "none" \notin Servers /\ Docker \subseteq Vms
    /\ SyncGets \in BOOLEAN /\ WaitsGiveUp \in BOOLEAN

VARIABLES
    rec,  \* VMAPI's record of each VM
    zone, \* each VM's instance on a compute node
    gets  \* BOUND: the one GET with ?sync=true at work on each VM, if any

vars == <<job, queue, used, napi, nats, volume, reserved, refs, rec, zone,
          gets>>

NoServer == "none"
RecStates == {"absent", "provisioning", "running", "stopped", "failed",
              "destroyed"}
NoZone == [state |-> "none", server |-> NoServer, nics |-> {}, volume |-> 0,
           mod |-> 0]
NoRecord == [state |-> "absent", server |-> NoServer, nics |-> {}, mod |-> 0]
\* Who asked is a caller, or the job that refreshes its VM
Caller == 0
NoGet == [step |-> "none", by |-> Caller, found |-> NoRecord]

HasZone(v) == zone[v].state # "none"
\* What VMAPI stores of an instance; of one that is gone, what it knew
RecordOf(z, r) ==
    IF z.state = "none" THEN [r EXCEPT !.state = "destroyed", !.mod = z.mod]
    ELSE [state |-> z.state, server |-> z.server, nics |-> z.nics,
          mod |-> z.mod]

-----------------------------------------------------------------------------
(* Requests.  The VM is loaded with the request, and its job works on that. *)
NewJob(kind, v, net, nics) ==
    [kind |-> kind, vm |-> v, net |-> net, mode |-> "request", pc |-> 1,
     tickets |-> {}, server |-> rec[v].server, seen |-> rec[v].state,
     mod |-> rec[v].mod, nics |-> nics, fabric |-> FALSE, nat |-> 0,
     mounts |-> v \in Mounting /\ (kind = "create" \/ rec[v].mod # 0),
     volume |-> Unknown, creating |-> FALSE, waits |-> WaitsGiveUp,
     task |-> "none", action |-> kind, taken |-> FALSE, finished |-> NoZone]

Request(kind, v, net, nics) ==
    /\ kind \in Kinds /\ Len(job) < MaxJobs
    /\ job' = Append(job, NewJob(kind, v, net, nics))
    /\ UNCHANGED <<queue, used, nicVars, volVars, rec, zone, gets>>

createVm(v) ==
    /\ rec[v].state = "absent" /\ \A j \in Jobs : job[j].vm # v
    /\ Request("create", v, 1, {})

\* Without its server the VM could not be destroyed
deleteVm(v) ==
    /\ rec[v].server # NoServer
    /\ Request("destroy", v, 1, rec[v].nics)

\* Nothing but a destroy is accepted while the VM is provisioning
updateVm(kind, v, net, nics) ==
    /\ rec[v].state \notin {"absent", "provisioning"}
    /\ Request(kind, v, net, nics)

startVm(v) == updateVm("start", v, 1, {})
stopVm(v) == updateVm("stop", v, 1, {})
killVm(v) == updateVm("kill", v, 1, {})
rebootVm(v) == updateVm("reboot", v, 1, {})
reprovisionVm(v) == updateVm("reprovision", v, 1, {})
changeVm(v) == updateVm("update", v, 1, {})
createSnapshot(v) == updateVm("snapshot", v, 1, {})
deleteSnapshot(v) == updateVm("deleteSnapshot", v, 1, {})
rollbackSnapshot(v) == updateVm("rollback", v, 1, {})

\* The NICs of add_nics are made with the request; the others name theirs
addNics(v, net) == updateVm("addNics", v, net, {})
updateNics(v, net) == updateVm("updateNics", v, net, {<<v, net>>})
removeNicsOfVm(v, net) == updateVm("removeNics", v, net, {<<v, net>>})

-----------------------------------------------------------------------------
(* DAPI picks a server that has room, counting the provisions whose VM      *)
(* tickets are in the server's queue.                                       *)
HasRoom(s) ==
    /\ \A v \in Vms : zone[v].server # s
    /\ \A j \in Jobs : job[j].kind = "create" /\ job[j].server = s
                          => ~InLine(j, job[j].vm)

getAllocation(j) ==
    /\ At(j, "getAllocation")
    /\ \/ \E s \in Servers :
            /\ HasRoom(s)
            /\ Proceed(j, [job[j] EXCEPT !.server = s])
       \/ /\ \A s \in Servers : ~HasRoom(s)
          /\ FailWith(j, job[j])
    /\ UNCHANGED <<queue, used, nicVars, volVars, rec, zone, gets>>

putVmInMoray(j) ==
    /\ At(j, "putVmInMoray")
    /\ rec' = [rec EXCEPT ![job[j].vm] =
                 [state |-> "provisioning", server |-> job[j].server,
                  nics |-> {}, mod |-> 0]]
    /\ Proceed(j, job[j])
    /\ UNCHANGED <<queue, used, nicVars, volVars, zone, gets>>

\* _getVmSync with the request's own VM object, which has no state.  CNAPI
\* never heard of the VM, so that its answer is the same whenever it comes
refreshVmOnError(j) ==
    /\ At(j, "refreshVmOnError")
    /\ LET v == job[j].vm
       IN rec' = [rec EXCEPT ![v] =
                    RecordOf(zone[v], [NoRecord EXCEPT
                                         !.server = job[j].server])]
    /\ Proceed(j, job[j])
    /\ UNCHANGED <<queue, used, nicVars, volVars, zone, gets>>

createJob(j) ==
    /\ At(j, "createJob")
    /\ Proceed(j, job[j])
    /\ UNCHANGED <<queue, used, nicVars, volVars, rec, zone, gets>>

-----------------------------------------------------------------------------
(* Tasks in CNAPI.  A task is queued, and its job waits for it to end.      *)
Queued(r, action) == [r EXCEPT !.task = "queued", !.action = action]

\* A request that says that it is idempotent goes on in any state
ensureVmState(j) ==
    /\ At(j, "ensureVmState")
    /\ \/ Proceed(j, job[j])
       \/ /\ rec[job[j].vm].state #
                 (IF job[j].kind = "start" THEN "stopped" ELSE "running")
          /\ FailWith(j, job[j])
    /\ UNCHANGED <<queue, used, nicVars, volVars, rec, zone, gets>>

zoneAction(j) ==
    /\ At(j, "zoneAction")
    /\ Proceed(j, Queued(job[j], job[j].kind))
    /\ UNCHANGED <<queue, used, nicVars, volVars, rec, zone, gets>>

\* A docker VM is put as destroyed while CNAPI's task is still to run, as the
\* request loaded it
markVmAsDestroyed(j) ==
    /\ At(j, "markVmAsDestroyed")
    /\ rec' = IF job[j].vm \in Docker
              THEN [rec EXCEPT ![job[j].vm] =
                      [state |-> "destroyed", server |-> job[j].server,
                       nics |-> job[j].nics, mod |-> job[j].mod]]
              ELSE rec
    /\ Proceed(j, job[j])
    /\ UNCHANGED <<queue, used, nicVars, volVars, zone, gets>>

\* The VM is stopped first if it was running when the request loaded it
stopForRollback(j) ==
    /\ At(j, "stopForRollback")
    /\ Proceed(j, IF job[j].seen = "running" THEN Queued(job[j], "stop")
                                             ELSE job[j])
    /\ UNCHANGED <<queue, used, nicVars, volVars, rec, zone, gets>>

\* From here on NICs are not cleaned up and the VM is not marked as failed
provision(j) ==
    /\ At(j, "provision")
    /\ Proceed(j, [Queued(job[j], "create") EXCEPT !.taken = TRUE])
    /\ UNCHANGED <<queue, used, nicVars, volVars, rec, zone, gets>>

\* CNAPI took the task, and its answer is lost
AnswerLost(j) ==
    /\ "answer" \in FailingTasks /\ used.faults < MaxFaults
    /\ \E task \in {"zoneAction", "provision"} :
        /\ At(j, task)
        /\ FailWith(j, Queued(job[j], job[j].kind))
    /\ used' = [used EXCEPT !.faults = @ + 1]
    /\ UNCHANGED <<queue, nicVars, volVars, rec, zone, gets>>

After(z, r) ==
    CASE r.action \in {"start", "reboot", "rollback"} ->
             [z EXCEPT !.state = "running", !.mod = @ + 1]
      [] r.action \in {"stop", "kill"} ->
             [z EXCEPT !.state = "stopped", !.mod = @ + 1]
      [] r.action = "addNics" ->
             [z EXCEPT !.nics = @ \cup r.nics, !.mod = @ + 1]
      [] r.action = "removeNics" ->
             [z EXCEPT !.nics = @ \ r.nics, !.mod = @ + 1]
      [] r.action = "destroy" -> [NoZone EXCEPT !.mod = z.mod + 1]
      [] r.action = "create" ->
             [state |-> "running", server |-> r.server, nics |-> r.nics,
              volume |-> r.volume, mod |-> z.mod + 1]
      [] OTHER -> [z EXCEPT !.mod = @ + 1]

\* The agent on the compute node carries the task out, and loads the VM
CnapiRuns(j) ==
    /\ job[j].task = "queued"
    /\ LET v == job[j].vm
       IN \/ /\ HasZone(v) # (job[j].action = "create")
             /\ zone' = [zone EXCEPT ![v] = After(@, job[j])]
             /\ job' = [job EXCEPT ![j].task = "complete",
                                   ![j].finished = After(zone[v], job[j])]
             /\ UNCHANGED used
          \/ /\ HasZone(v) = (job[j].action = "create")
             /\ job' = [job EXCEPT ![j].task = "failure"]
             /\ UNCHANGED <<zone, used>>
          \/ /\ "cnapi" \in FailingTasks /\ used.faults < MaxFaults
             /\ job' = [job EXCEPT ![j].task = "failure"]
             /\ used' = [used EXCEPT !.faults = @ + 1]
             /\ UNCHANGED zone
    /\ UNCHANGED <<queue, nicVars, volVars, rec, gets>>

waitTask(j) ==
    /\ At(j, "waitTask")
    /\ \/ job[j].task \in {"complete", "none"} /\ Proceed(j, job[j])
       \/ job[j].task = "failure" /\ FailWith(j, job[j])
    /\ UNCHANGED <<queue, used, nicVars, volVars, rec, zone, gets>>

\* Until VMAPI's record is newer than the one the request loaded
checkUpdated(j) ==
    /\ At(j, "checkUpdated")
    /\ rec[job[j].vm].mod > job[j].mod
    /\ Proceed(j, job[j])
    /\ UNCHANGED <<queue, used, nicVars, volVars, rec, zone, gets>>

-----------------------------------------------------------------------------
(* VMAPI's record.                                                          *)
putVm(j) ==
    /\ At(j, "putVm")
    /\ rec' = [rec EXCEPT ![job[j].vm] = RecordOf(job[j].finished, @)]
    /\ Proceed(j, job[j])
    /\ UNCHANGED <<queue, used, nicVars, volVars, zone, gets>>

\* Mutant: a provision that CNAPI took is marked as failed too
PostBackAnyway(j) ==
    /\ At(j, "postBack")
    /\ rec' = [rec EXCEPT ![job[j].vm].state = "failed"]
    /\ Proceed(j, job[j])
    /\ UNCHANGED <<queue, used, nicVars, volVars, zone, gets>>
\* /job_results: the VM failed, unless CNAPI had taken the provision
postBack(j) ==
    /\ At(j, "postBack")
    /\ rec' = IF job[j].taken THEN rec
              ELSE [rec EXCEPT ![job[j].vm].state = "failed",
                               ![job[j].vm].nics = job[j].nics]
    /\ Proceed(j, job[j])
    /\ UNCHANGED <<queue, used, nicVars, volVars, zone, gets>>

(* GET /vms/:uuid?sync=true: the VM is loaded, CNAPI is asked for it, and   *)
(* what follows from the answer is put, whatever was put in between.        *)
StartGet(v, by) ==
    /\ gets[v].step = "none"
    /\ gets' = [gets EXCEPT ![v] = [step |-> "loaded", by |-> by,
                                    found |-> rec[v]]]

SyncGet(v) ==
    /\ SyncGets
    /\ rec[v].state # "absent" /\ rec[v].server # NoServer
    /\ StartGet(v, Caller)
    /\ UNCHANGED <<job, queue, used, nicVars, volVars, rec, zone>>

\* A VM that is provisioning and not there failed
Answer(v, r) ==
    IF ~HasZone(v) /\ r.state = "provisioning"
    THEN [r EXCEPT !.state = "failed"] ELSE RecordOf(zone[v], r)

SyncAnswered(v) ==
    /\ gets[v].step = "loaded"
    /\ gets' = [gets EXCEPT ![v].step = "answered",
                            ![v].found = Answer(v, @)]
    /\ UNCHANGED <<job, queue, used, nicVars, volVars, rec, zone>>

Put(by) == [step |-> "put", by |-> by, found |-> NoRecord]
ByJob(by) == by # Caller /\ At(by, "refreshVm")
SyncPut(v) ==
    /\ gets[v].step = "answered"
    /\ rec' = [rec EXCEPT ![v] = gets[v].found]
    /\ gets' = [gets EXCEPT ![v] = IF ByJob(@.by) THEN Put(@.by) ELSE NoGet]
    /\ UNCHANGED <<job, queue, used, nicVars, volVars, zone>>

\* A job gets its VM so, unless the provision was marked as failed
refreshVmGets(j) ==
    /\ At(j, "refreshVm") /\ job[j].taken
    /\ StartGet(job[j].vm, j)
    /\ UNCHANGED <<job, queue, used, nicVars, volVars, rec, zone>>
refreshVm(j) ==
    /\ At(j, "refreshVm")
    /\ \/ ~job[j].taken /\ UNCHANGED gets
       \/ /\ gets[job[j].vm] = Put(j)
          /\ gets' = [gets EXCEPT ![job[j].vm] = NoGet]
    /\ Proceed(j, job[j])
    /\ UNCHANGED <<queue, used, nicVars, volVars, rec, zone>>

\* vm-agent reports a VM that changed
AgentReports(v) ==
    /\ rec[v].mod # zone[v].mod
    /\ rec' = [rec EXCEPT ![v] = RecordOf(zone[v], @)]
    /\ UNCHANGED <<job, queue, used, nicVars, volVars, zone, gets>>

-----------------------------------------------------------------------------
Init ==
    /\ WorkflowsInit /\ NicsInit /\ VolumesInit
    /\ rec = [v \in Vms |-> NoRecord]
    /\ zone = [v \in Vms |-> NoZone]
    /\ gets = [v \in Vms |-> NoGet]

OfTickets(j) ==
    TicketTasks(j) /\ UNCHANGED <<nicVars, volVars, rec, zone, gets>>
OfNics(j) ==
    /\ NicTasks(j)
    /\ UNCHANGED <<volVars, rec, zone, gets>>
OfVolumes(j) == VolumeTasks(j) /\ UNCHANGED <<nicVars, rec, zone, gets>>
OfVm(j) ==
    \/ getAllocation(j) \/ putVmInMoray(j) \/ refreshVmOnError(j)
    \/ createJob(j) \/ ensureVmState(j) \/ zoneAction(j)
    \/ markVmAsDestroyed(j)
    \/ stopForRollback(j) \/ provision(j) \/ waitTask(j) \/ checkUpdated(j)
    \/ putVm(j) \/ postBack(j) \/ refreshVm(j)

JobStep(j) == OfTickets(j) \/ OfNics(j) \/ OfVolumes(j) \/ OfVm(j)
              \/ refreshVmGets(j)

\* What the services do by themselves
Services ==
    \/ \E j \in Jobs : CnapiRuns(j)
    \/ \E v \in Vms : AgentReports(v) \/ SyncAnswered(v) \/ SyncPut(v)
    \/ NatProvisioned /\ UNCHANGED <<volVars, rec, zone, gets>>
    \/ VolumeCreated /\ UNCHANGED <<nicVars, rec, zone, gets>>
    \/ \E v \in Vms : VolapiUpdates(v, rec[v].state)
                      /\ UNCHANGED <<nicVars, rec, zone, gets>>
    \/ \E scope \in Scopes : ExpireTicket(scope)
                             /\ UNCHANGED <<nicVars, volVars, rec, zone, gets>>

Faults ==
    \E j \in Jobs :
        \/ (TaskFails(j) \/ CancelJob(j))
           /\ UNCHANGED <<nicVars, volVars, rec, zone, gets>>
        \/ AnswerLost(j)

Users ==
    \/ \E v \in Vms :
        \/ createVm(v) \/ deleteVm(v) \/ changeVm(v) \/ SyncGet(v)
        \/ startVm(v) \/ stopVm(v) \/ killVm(v) \/ rebootVm(v)
        \/ reprovisionVm(v)
        \/ createSnapshot(v) \/ deleteSnapshot(v) \/ rollbackSnapshot(v)
        \/ \E net \in Networks :
            addNics(v, net) \/ updateNics(v, net) \/ removeNicsOfVm(v, net)
    \/ DeleteVolume /\ UNCHANGED <<nicVars, rec, zone, gets>>

Done == AllEnded /\ UNCHANGED vars

Next == (\E j \in Jobs : JobStep(j)) \/ Services \/ Faults \/ Users \/ Done

Spec == Init /\ [][Next]_vars

\* Jobs run on and the services work; requests, faults and expiries need not
FairSpec ==
    /\ Spec
    /\ WF_vars(\E j \in Jobs : JobStep(j))
    /\ WF_vars(\E j \in Jobs : CnapiRuns(j))
    /\ WF_vars(\E v \in Vms : AgentReports(v))
    /\ WF_vars(\E v \in Vms : SyncAnswered(v) \/ SyncPut(v))
    /\ WF_vars(NatProvisioned /\ UNCHANGED <<volVars, rec, zone, gets>>)
    /\ WF_vars(VolumeCreated /\ UNCHANGED <<nicVars, rec, zone, gets>>)
    /\ WF_vars(\E scope \in Scopes, j \in Jobs :
                 /\ InLine(j, scope) /\ Ended(j)
                 /\ queue' = Without(scope, j)
                 /\ UNCHANGED <<job, used, nicVars, volVars, rec, zone, gets>>)
-----------------------------------------------------------------------------
(* PROPERTIES *)

Quiet == AllEnded /\ \A j \in Jobs : job[j].task # "queued"
DestroyAccepted(v) ==
    v \in Docker /\ \E j \in Jobs : /\ job[j].vm = v
                                   /\ job[j].kind = "destroy"
                                   /\ job[j].task # "none"

\* The shape of the state, and that a job that has not ended is at some step
\* of its request, its clean-up or one of its chains
TypeOK ==
    /\ Len(job) <= MaxJobs
    /\ \A j \in Jobs : Ended(j) \/ job[j].pc \in DOMAIN Steps(job[j])
    /\ queue \in [Scopes -> Seq(Jobs)]
    /\ napi \subseteq Nics
    /\ nats \in Seq(NatStates)
    /\ reserved \subseteq Vms /\ refs \subseteq Vms
    /\ \A v \in Vms : rec[v].state \in RecStates
    /\ \A v \in Vms : /\ gets[v].step \in {"none", "loaded", "answered", "put"}
                      /\ gets[v].by \in 0..MaxJobs

\* No NIC of an instance is deleted in NAPI, where its address could be given
\* to another VM, and the NICs made for a VM are gone when it is, unless CNAPI
\* failed its provision, or its destroy was asked for before VMAPI's record
\* had them: whichever task of a create or a destroy fails, it cleans up after
\* itself, and spares what CNAPI took.  (Not among the faults of the run are
\* those of a destroy after CNAPI has taken it, at its mark or its removal of
\* the NICs, and of a create's clean-up of its NICs: NICs then stay in NAPI.)
NicsSettle ==
    Quiet =>
        /\ \A v \in Vms : zone[v].nics \subseteq napi
        /\ \A nic \in napi : ~HasZone(nic[1]) =>
              \E j \in Jobs : job[j].vm = nic[1] /\
                \/ job[j].kind = "create" /\ job[j].task = "failure"
                \/ job[j].kind = "destroy" /\ nic \notin job[j].nics

\* No server gets two VMs where there is room for one: allocateServer gives
\* the allocation ticket up only once its VM ticket tells DAPI of the first
NoOvercommit ==
    \A v, w \in Vms :
        (v # w /\ HasZone(v)) => zone[v].server # zone[w].server

\* CNAPI works on one task of a VM at a time: every workflow holds the VM's
\* ticket from before its task until after it
OneTaskPerVm ==
    \A i, j \in Jobs :
        (job[i].task = "queued" /\ job[j].task = "queued" /\ i # j)
            => job[i].vm # job[j].vm


\* A create or destroy that ended has let go of its tickets, in whichever of
\* its clean-ups or chains it ended.  (Of the other requests, add_nics and
\* update_nics keep theirs when they cannot clean up their NICs before.)
TicketsReleased ==
    \A scope \in Scopes, j \in Jobs :
        /\ InLine(j, scope) /\ scope \in job[j].tickets
        /\ job[j].kind \in {"create", "destroy"}
        => ~Ended(j)

\* A volume that an instance mounts is there, and is the VM's by reservation
\* or reference, so that its owner cannot delete it: until the end, and of a
\* docker VM until CNAPI has accepted its destroy.  (It is then put as
\* destroyed and VOLAPI lets go, with the instance still there, and for good
\* if CNAPI fails the destroy.)
MountedVolumeKept ==
    \A v \in Vms : zone[v].volume # 0 /\ ~DestroyAccepted(v) =>
        /\ volume = [id |-> zone[v].volume, state |-> "ready"]
        /\ v \in reserved \cup refs

\* A VM that VMAPI gives out as failed has no instance and gets none
FailedIsGone ==
    \A v \in Vms : rec[v].state = "failed" =>
        ~HasZone(v) /\ \A j \in Jobs : job[j].vm = v /\ job[j].kind = "create"
                                       => job[j].task # "queued"

\* Every request and job ends, with tasks failing, jobs canceled and tickets
\* expiring: no two wait for each other's tickets
JobsEnd == []<>AllEnded
=============================================================================
