----------------------------- MODULE VmMigration -----------------------------
(***************************************************************************)
(* The migration of one VM between compute nodes: the migrate endpoint     *)
(* (lib/vm-migration/migrate.js), the workflow jobs it queues              *)
(* (lib/workflows/migrate-*.js and the start and stop jobs they wait for), *)
(* the migration records in moray, the VM's own record and the instances   *)
(* on the compute nodes.                                                   *)
(*                                                                         *)
(* A job runs a chain of tasks, one action per task.  A task that fails    *)
(* sends the job to its onerror chain.  The jobs of the VM share the       *)
(* records, the VM's record, the instances and CNAPI's waitlist tickets;   *)
(* the parameters of a job (the VM and the record) are those of the        *)
(* request that queued it.                                                 *)
(***************************************************************************)
EXTENDS MigrationRecord, FiniteSets

CONSTANTS
    Requested,       \* the migration actions callers ask for
    Automatic,       \* the values of migration_automatic they ask for
    MaxRequests,     \* BOUND: requests of callers over a behaviour
    MaxOpen,         \* BOUND: jobs nobody waits for, open at one time
    MaxFaults,       \* BOUND: tasks that fail for a reason outside the model
    MaxUserActions,  \* BOUND: starts, stops and record deletions by callers
    ExpireHeld       \* TRUE if a ticket may expire under a job that runs on

ASSUME BoundsAssumption ==
    /\ Requested \subseteq MigrationActions
    /\ Automatic \subseteq BOOLEAN
    /\ MaxRequests \in Nat /\ MaxOpen \in Nat
    /\ MaxFaults \in Nat /\ MaxUserActions \in Nat
    /\ ExpireHeld \in BOOLEAN

VARIABLES
    records,  \* the migration records of the VM, by id
    stored,   \* whether an id was never written, is in the bucket, was deleted
    vm,       \* VMAPI's record of the VM: its server and its state
    inst,     \* the instance each compute node has of the VM
    ticket,   \* the job holding the VM's waitlist ticket of a server, or 0
    job,      \* the parameters each job was queued with
    mode,     \* what each job is doing
    pc,       \* the task a job is at, in the chain its mode says
    loc,      \* what the tasks of a job keep between them
    used      \* how much of the bounds the behaviour has used

vars == <<records, stored, vm, inst, ticket, job, mode, pc, loc, used>>
db == <<records, stored>>

-----------------------------------------------------------------------------
(* The chains of the workflows.  Tasks that only read or write what the    *)
(* model leaves out (quotas, snapshots, autoboot, progress) are left out.  *)
BeginChain ==
    <<"allocateServer", "acquireVMTicket", "storeInitialRecord",
      "disallowRetry", "releaseVMTicket", "provisionVm", "storeSuccess",
      "startSyncWhenAutomatic">>
SyncChain ==
    <<"acquireVMTicket", "cleanup", "storeInitialRecord", "releaseVMTicket",
      "storeProcessDetails", "sync", "storeSuccess",
      "startSyncOrSwitchWhenAutomatic">>
PauseChain ==
    <<"acquireVMTicket", "validateSyncIsRunning", "cancelSyncWorkflow",
      "cleanup", "storeRecord", "releaseVMTicket">>
SwitchChain ==
    <<"acquireVMTicket", "setRecordStateRunning", "releaseVMTicket",
      "stopSourceVm", "waitForWorkflowJob", "startFinalSync", "waitForSync",
      "acquireVMTicket", "getRecord", "storeInitialRecord",
      "ensureSourceVmStopped", "storeReservedNetworkIps",
      "setupTargetFilesystem", "setTargetVmAutoboot", "disallowRetry",
      "setSourceDoNotInventory", "updateVmServerUuid",
      "removeTargetDoNotInventory", "storeSuccess", "releaseVMTicket",
      "startTargetVm", "waitForWorkflowJob">>
AbortChain ==
    <<"acquireVMTicket", "storeInitialRecord", "ensureTargetVmHasDni",
      "disallowRetry", "abortDeleteTargetDniVm", "storeSuccess",
      "releaseVMTicket">>
RollbackChain ==
    <<"ensureSourceVmHasDni", "stopTargetVm", "waitForWorkflowJob",
      "acquireVMTicket", "ensureTargetVmStopped", "storeInitialRecord",
      "storeReservedNetworkIps", "setTargetDoNotInventory",
      "updateVmServerUuid", "removeSourceDoNotInventory",
      "rollbackDeleteTargetDniVm", "storeSuccess", "releaseVMTicket",
      "startSourceVm", "waitForWorkflowJob">>
StartChain == <<"acquireVMTicket", "ensureVmState", "startVm", "putVm",
                "releaseVMTicket">>
StopChain == <<"acquireVMTicket", "ensureVmState", "stopVm", "putVm",
               "releaseVMTicket">>

Chains(switch, rollback) ==
    [begin |-> BeginChain, sync |-> SyncChain, pause |-> PauseChain,
     switch |-> switch, abort |-> AbortChain, rollback |-> rollback,
     start |-> StartChain, stop |-> StopChain,
     finalize |-> <<"deleteSourceVm", "removeMigrationRecord">>]

(* Mutants: the final sync is made before the source is stopped, the       *)
(* target is shown before the source is hidden, the ticket is not taken    *)
(* again after the final sync, the ticket is kept while the stop job runs; *)
(* a rollback shows the source before it hides the target.                 *)
ChainSyncsFirst ==
    Chains([SwitchChain EXCEPT ![4] = "startFinalSync", ![5] = "waitForSync",
                ![6] = "stopSourceVm", ![7] = "waitForWorkflowJob"],
           RollbackChain)
ChainShowsTargetFirst ==
    Chains([SwitchChain EXCEPT ![16] = "removeTargetDoNotInventory",
                               ![18] = "setSourceDoNotInventory"],
           RollbackChain)
ChainWithoutTicket ==
    Chains([SwitchChain EXCEPT ![8] = "getRecord"], RollbackChain)
ChainKeepsTicket ==
    Chains([SwitchChain EXCEPT ![3] = "waitForWorkflowJob"], RollbackChain)

Chain == Chains(SwitchChain, RollbackChain)

(* The onerror chains; oncancel is the same chain in every workflow.       *)
OnError == [
    begin |-> <<"storeFailure", "releaseVMTicketIgnoringErr">>,
    sync |-> <<"cleanup", "storeFailure", "releaseVMTicketIgnoringErr">>,
    pause |-> <<"cleanup", "storeFailure", "releaseVMTicketIgnoringErr">>,
    switch |-> <<"storeFailure", "unreserveNetworkIps", "startSourceVm",
                 "releaseVMTicketIgnoringErr">>,
    abort |-> <<"storeFailure", "unreserveNetworkIps",
                "releaseVMTicketIgnoringErr">>,
    rollback |-> <<"storeFailure", "unreserveNetworkIps",
                   "releaseVMTicketIgnoringErr">>,
    finalize |-> <<>>,
    start |-> <<"releaseVMTicketIgnoringErr">>,
    stop |-> <<"releaseVMTicketIgnoringErr">> ]

JobActions == DOMAIN Chain
Ended == {"succeeded", "failed", "canceled"}
Cleaning == {"onerror", "canceling"}
Active == {j \in Jobs : mode[j] \notin Ended \cup {"none"}}

NoLocals == [rec |-> NoRecord, idx |-> 0, noRetry |-> FALSE,
             targetHidden |-> FALSE, child |-> 0]
NoJob == [action |-> "stop", queue |-> NoServer, vmState |-> "stopped",
          subtask |-> FALSE, final |-> FALSE]

At(j, task) == mode[j] = "chain" /\ Chain[job[j].action][pc[j]] = task
AtCleanup(j, task) ==
    mode[j] \in Cleaning /\ OnError[job[j].action][pc[j]] = task

-----------------------------------------------------------------------------
(* Where a job goes after a task that worked.                              *)
Tasks(j) == IF mode[j] = "chain" THEN Chain[job[j].action]
                                 ELSE OnError[job[j].action]
IsLast(j) == pc[j] = Len(Tasks(j))
Outcome == [chain |-> "succeeded", onerror |-> "failed",
            canceling |-> "canceled"]

ModeAfter(j) == IF IsLast(j) THEN [mode EXCEPT ![j] = Outcome[@]] ELSE mode
PcAfter(j) == [pc EXCEPT ![j] = IF IsLast(j) THEN 0 ELSE @ + 1]
LocAfter(j, l) == [loc EXCEPT ![j] = IF IsLast(j) THEN NoLocals ELSE l]

Proceed(j, l) == /\ mode' = ModeAfter(j)
                 /\ pc' = PcAfter(j)
                 /\ loc' = LocAfter(j, l)

GoOn(j) == Proceed(j, loc[j])

(* Where it goes after a task that failed.                                 *)
FailWith(j, l) ==
    IF OnError[job[j].action] = <<>>
    THEN /\ mode' = [mode EXCEPT ![j] = "failed"]
         /\ pc' = [pc EXCEPT ![j] = 0]
         /\ loc' = [loc EXCEPT ![j] = NoLocals]
    ELSE /\ mode' = [mode EXCEPT ![j] = "onerror"]
         /\ pc' = [pc EXCEPT ![j] = 1]
         /\ loc' = [loc EXCEPT ![j] = l]

Fail(j) == FailWith(j, loc[j])

(* The newest record the lookup by the VM's server finds.                  *)
LiveIds == {r \in RecordIds : stored[r] = "live"}
Newest(ids) == CHOOSE r \in ids : \A s \in ids : s <= r
Lookup ==
    LET ids == {r \in LiveIds : Matches(records[r], vm.server)}
    IN  IF ids = {} THEN NoRecord ELSE records[Newest(ids)]

(* storeMigrationRecord: the whole record is put, without an etag; the     *)
(* record of an abort or rollback that is done is deleted instead.         *)
Store(rec) ==
    IF rec.state = "successful" /\ rec.phase \in {"abort", "rollback"}
    THEN /\ stored' = [stored EXCEPT ![rec.id] =
                           IF @ = "live" THEN "deleted" ELSE @]
         /\ UNCHANGED records
    ELSE /\ records' = [records EXCEPT ![rec.id] = rec]
         /\ stored' = [stored EXCEPT ![rec.id] = "live"]

(* A job's failure for a reason outside the model: a service that does     *)
(* not answer, a timeout of the task or of the job.                        *)
Fault == used.faults < MaxFaults /\ used' = [used EXCEPT !.faults = @ + 1]

Fresh(k) == mode[k] = "none" /\ \A i \in 1 .. k - 1 : mode[i] # "none"

(* createMigrateJob, createStartJob, createStopJob: a job's parameters     *)
(* are the VM as loaded by the request, its server the ticket's queue.     *)
Params(action, subtask, final) ==
    [action |-> action, queue |-> vm.server, vmState |-> vm.state,
     subtask |-> subtask, final |-> final]

(* A task of j that has another job k queued, and moves on.                *)
Queue(j, k, params, rec, l) ==
    /\ Fresh(k)
    /\ job' = [job EXCEPT ![k] = params]
    /\ mode' = [ModeAfter(j) EXCEPT ![k] = "chain"]
    /\ pc' = [PcAfter(j) EXCEPT ![k] = 1]
    /\ loc' = [LocAfter(j, l) EXCEPT ![k] = [NoLocals EXCEPT !.rec = rec]]

-----------------------------------------------------------------------------
Init ==
    /\ records = [r \in RecordIds |-> NoRecord]
    /\ stored = [r \in RecordIds |-> "never"]
    /\ \E s \in Servers, state \in {"running", "stopped"} :
          /\ vm = [server |-> s, state |-> state]
          /\ inst = [t \in Servers |->
                        [exists |-> t = s, hidden |-> FALSE,
                         running |-> t = s /\ state = "running",
                         current |-> t = s]]
    /\ ticket = [s \in Servers |-> 0]
    /\ job = [j \in Jobs |-> NoJob]
    /\ mode = [j \in Jobs |-> "none"]
    /\ pc = [j \in Jobs |-> 0]
    /\ loc = [j \in Jobs |-> NoLocals]
    /\ used = [requests |-> 0, faults |-> 0, user |-> 0]

-----------------------------------------------------------------------------
(* The migrate endpoint.  It loads the VM and the record and validates     *)
(* the action; what it then does acts on that copy, whatever changed since.*)
(* Open are the jobs and requests no other job waits for.                  *)
Open == {j \in Active : \A i \in Active : loc[i].child # j}

(* Mutant: finalize is not validated.                                      *)
AcceptsFinalize(action, rec, subtask) ==
    \/ action = "begin" /\ (rec.id = 0 \/ RetryAllowed(rec))
    \/ action = "finalize" /\ rec.id # 0
    \/ rec.id # 0 /\ Validates(action, rec, subtask)

Accepts(action, rec, subtask) ==
    IF action = "begin" THEN rec.id = 0 \/ RetryAllowed(rec)
                        ELSE rec.id # 0 /\ Validates(action, rec, subtask)

RequestMigration(k) ==
    /\ Fresh(k)
    /\ used.requests < MaxRequests /\ Cardinality(Open) < MaxOpen
    /\ \E action \in Requested :
          /\ Accepts(action, Lookup, FALSE)
          /\ job' = [job EXCEPT ![k] = Params(action, FALSE, FALSE)]
    /\ mode' = [mode EXCEPT ![k] = "request"]
    /\ loc' = [loc EXCEPT ![k].rec = Lookup]
    /\ used' = [used EXCEPT !.requests = @ + 1]
    /\ UNCHANGED <<db, vm, inst, ticket, pc>>

(* start_create_new_record: begin puts a new record, or the one it retries,*)
(* and then has its job queued; an API that fails in between leaves the    *)
(* record without a job.                                                   *)
CreateRecord(k) ==
    /\ mode[k] = "request" /\ job[k].action = "begin"
    /\ \E id \in RecordIds, auto \in Automatic :
          LET old == loc[k].rec
              rec == IF old.id = 0
                     THEN NewRecord(id, job[k].queue, auto) ELSE old
          IN  /\ IF old.id = 0
                 THEN /\ stored[id] = "never"
                      /\ \A i \in 1 .. id - 1 : stored[i] # "never"
                 ELSE id = old.id /\ auto = old.auto
              /\ Store(rec)
              /\ \/ /\ mode' = [mode EXCEPT ![k] = "chain"]
                    /\ pc' = [pc EXCEPT ![k] = 1]
                    /\ loc' = [loc EXCEPT ![k].rec = rec]
                    /\ UNCHANGED used
                 \/ /\ Fault
                    /\ mode' = [mode EXCEPT ![k] = "failed"]
                    /\ loc' = [loc EXCEPT ![k] = NoLocals]
                    /\ UNCHANGED pc
    /\ UNCHANGED <<vm, inst, ticket, job>>

(* abort_with_no_target_server_uuid: nothing to remove but the record.     *)
AbortWithoutTarget(k) ==
    /\ mode[k] = "request" /\ job[k].action = "abort"
    /\ loc[k].rec.target = NoServer
    /\ stored' = [stored EXCEPT ![loc[k].rec.id] =
                      IF @ = "live" THEN "deleted" ELSE @]
    /\ mode' = [mode EXCEPT ![k] = "succeeded"]
    /\ loc' = [loc EXCEPT ![k] = NoLocals]
    /\ UNCHANGED <<records, vm, inst, ticket, job, pc, used>>

(* start_migration_workflow, or for finalize its own pipeline.             *)
StartWorkflow(k) ==
    /\ mode[k] = "request" /\ job[k].action # "begin"
    /\ job[k].action = "abort" => loc[k].rec.target # NoServer
    /\ mode' = [mode EXCEPT ![k] = "chain"]
    /\ pc' = [pc EXCEPT ![k] = 1]
    /\ UNCHANGED <<db, vm, inst, ticket, job, loc, used>>

(* The same request made by a task of job j for the next job.              *)
RequestSubtask(j, action, final, waits) ==
    /\ IF Accepts(action, Lookup, TRUE)
       THEN \E k \in Jobs :
               Queue(j, k, Params(action, TRUE, final), Lookup,
                     IF waits THEN [loc[j] EXCEPT !.child = k] ELSE loc[j])
       ELSE Fail(j) /\ UNCHANGED job
    /\ UNCHANGED <<db, vm, inst, ticket, used>>

-----------------------------------------------------------------------------
(* The waitlist ticket of the VM, in the queue of the server the job was   *)
(* queued with.                                                            *)
AcquireVMTicket(j) ==
    /\ At(j, "acquireVMTicket")
    /\ ticket[job[j].queue] = 0
    /\ ticket' = [ticket EXCEPT ![job[j].queue] = j]
    /\ GoOn(j)
    /\ UNCHANGED <<db, vm, inst, job, used>>

(* Releasing a ticket that is no longer held may be an error.              *)
ReleaseVMTicket(j) ==
    /\ At(j, "releaseVMTicket")
    /\ IF ticket[job[j].queue] = j
       THEN ticket' = [ticket EXCEPT ![job[j].queue] = 0] /\ GoOn(j)
       ELSE UNCHANGED ticket /\ (GoOn(j) \/ Fail(j))
    /\ UNCHANGED <<db, vm, inst, job, used>>

ReleaseVMTicketIgnoringErr(j) ==
    /\ AtCleanup(j, "releaseVMTicketIgnoringErr")
    /\ ticket' = [ticket EXCEPT ![job[j].queue] = IF @ = j THEN 0 ELSE @]
    /\ GoOn(j)
    /\ UNCHANGED <<db, vm, inst, job, used>>

(* expires_at: 600 seconds after it was created a ticket ends by itself,   *)
(* that of a job that is gone in any case.                                 *)
TicketExpires(s) ==
    /\ ticket[s] # 0
    /\ ExpireHeld \/ mode[ticket[s]] \in Ended
    /\ ticket' = [ticket EXCEPT ![s] = 0]
    /\ UNCHANGED <<db, vm, inst, job, mode, pc, loc, used>>

-----------------------------------------------------------------------------
(* Tasks on the record, shared by the workflows (common.js).  They change  *)
(* the job's copy first: it stays changed when it cannot be stored.        *)
StoreTask(j, rec, l) ==
    /\ \/ /\ Store(rec)
          /\ Proceed(j, [l EXCEPT !.rec = rec])
          /\ UNCHANGED used
       \/ /\ Fault
          /\ FailWith(j, [l EXCEPT !.rec = rec])
          /\ UNCHANGED db
    /\ UNCHANGED <<vm, inst, ticket, job>>

StoreInitialRecord(j) ==
    LET rec == Started(loc[j].rec, job[j].action, j)
    IN  /\ At(j, "storeInitialRecord")
        /\ StoreTask(j, rec, [loc[j] EXCEPT !.idx = Len(rec.history)])

SetRecordStateRunning(j) ==
    /\ At(j, "setRecordStateRunning")
    /\ StoreTask(j, [loc[j].rec EXCEPT !.state = "running"],
                    [loc[j] EXCEPT !.idx = 0])

StoreReservedNetworkIps(j) ==
    /\ At(j, "storeReservedNetworkIps")
    /\ StoreTask(j, loc[j].rec, loc[j])

(* Mutant: the record goes on running whoever asked for the job.           *)
StoreSuccessRunsOn(j) ==
    /\ At(j, "storeSuccess")
    /\ StoreTask(j, Succeeded(loc[j].rec, job[j].action, loc[j].idx, TRUE),
                 loc[j])

StoreSuccess(j) ==
    /\ At(j, "storeSuccess")
    /\ StoreTask(j, Succeeded(loc[j].rec, job[j].action, loc[j].idx,
                                 job[j].subtask), loc[j])

(* A record that cannot be stored is not an error in the cleanup.          *)
StoreFailure(j) ==
    LET rec == Failed(loc[j].rec, job[j].action, loc[j].idx,
                      loc[j].noRetry, j)
    IN  /\ AtCleanup(j, "storeFailure")
        /\ \/ Store(rec) /\ UNCHANGED used
           \/ Fault /\ UNCHANGED db
        /\ Proceed(j, [loc[j] EXCEPT !.rec = rec])
        /\ UNCHANGED <<vm, inst, ticket, job>>

(* Mutant: the flag is not set.                                            *)
DisallowRetryForgets(j) ==
    /\ At(j, "disallowRetry")
    /\ GoOn(j)
    /\ UNCHANGED <<db, vm, inst, ticket, job, used>>

DisallowRetry(j) ==
    /\ At(j, "disallowRetry")
    /\ Proceed(j, [loc[j] EXCEPT !.noRetry = TRUE])
    /\ UNCHANGED <<db, vm, inst, ticket, job, used>>

(* A task that only decides whether the job may go on.                     *)
Check(j, task, ok) ==
    /\ At(j, task)
    /\ IF ok THEN GoOn(j) ELSE Fail(j)
    /\ UNCHANGED <<db, vm, inst, ticket, job, used>>

(* A task that reads the record again, as it is stored now.                *)
Reload(j, task, ok, idx) ==
    /\ At(j, task)
    /\ IF ok THEN Proceed(j, [loc[j] EXCEPT !.rec = Lookup, !.idx = idx])
             ELSE Fail(j)
    /\ UNCHANGED <<db, vm, inst, ticket, job, used>>

WaitForWorkflowJob(j) ==
    /\ At(j, "waitForWorkflowJob") \/ At(j, "waitForSync")
    /\ LET k == loc[j].child
       IN  \/ (k = 0 \/ (k # 0 /\ mode[k] = "succeeded")) /\ GoOn(j)
           \/ k # 0 /\ mode[k] \in {"failed", "canceled"} /\ Fail(j)
    /\ UNCHANGED <<db, vm, inst, ticket, job, used>>

-----------------------------------------------------------------------------
(* begin                                                                   *)
Exists(s) == s \in Servers /\ inst[s].exists

AllocateServer(j) ==
    LET rec == loc[j].rec
    IN  /\ At(j, "allocateServer")
        /\ \E s \in IF rec.target = NoServer THEN Servers \ {rec.source}
                                             ELSE {rec.target} :
              Proceed(j, [loc[j] EXCEPT !.rec.target = s])
        /\ UNCHANGED <<db, vm, inst, ticket, job, used>>

(* The target is made with do_not_inventory set; CNAPI refuses a second    *)
(* instance of a VM on a server.                                           *)
ProvisionVm(j) ==
    LET s == loc[j].rec.target
    IN  /\ At(j, "provisionVm")
        /\ IF Exists(s)
           THEN Fail(j) /\ UNCHANGED inst
           ELSE /\ inst' = [inst EXCEPT ![s] =
                               [exists |-> TRUE, hidden |-> TRUE,
                                running |-> FALSE, current |-> FALSE]]
                /\ GoOn(j)
        /\ UNCHANGED <<db, vm, ticket, job, used>>

StartSyncWhenAutomatic(j) ==
    /\ At(j, "startSyncWhenAutomatic")
    /\ IF loc[j].rec.auto
       THEN RequestSubtask(j, "sync", FALSE, FALSE)
       ELSE GoOn(j) /\ UNCHANGED <<db, vm, inst, ticket, job, used>>

(* sync                                                                    *)
StoreProcessDetails(j) ==
    /\ At(j, "storeProcessDetails")
    /\ IF Exists(loc[j].rec.source) /\ Exists(loc[j].rec.target)
       THEN StoreTask(j, [loc[j].rec EXCEPT !.proc = j], loc[j])
       ELSE Fail(j) /\ UNCHANGED <<db, vm, inst, ticket, job, used>>

(* The target receives what the source holds; a source that runs writes on.*)
Sync(j) ==
    LET s == loc[j].rec.source
        t == loc[j].rec.target
    IN  /\ At(j, "sync")
        /\ IF Exists(s) /\ Exists(t)
           THEN /\ inst' = [inst EXCEPT ![t].current =
                               inst[s].current /\ ~inst[s].running]
                /\ GoOn(j)
           ELSE Fail(j) /\ UNCHANGED inst
        /\ UNCHANGED <<db, vm, ticket, job, used>>

StartSyncOrSwitchWhenAutomatic(j) ==
    /\ At(j, "startSyncOrSwitchWhenAutomatic")
    /\ IF loc[j].rec.auto /\ ~job[j].final
       THEN RequestSubtask(j, IF loc[j].rec.syncs < 2 THEN "sync" ELSE "switch",
                           FALSE, FALSE)
       ELSE GoOn(j) /\ UNCHANGED <<db, vm, inst, ticket, job, used>>

(* cleanupSource and cleanupTarget: the processes the job's copy of the    *)
(* record names are stopped, and with them the sync they work for.         *)
Cleanup(j) ==
    LET k == loc[j].rec.proc
    IN  /\ At(j, "cleanup") \/ AtCleanup(j, "cleanup")
        /\ IF k \notin {0, j} /\ At(k, "sync")
           THEN /\ mode' = [ModeAfter(j) EXCEPT ![k] = "onerror"]
                /\ pc' = [PcAfter(j) EXCEPT ![k] = 1]
                /\ loc' = LocAfter(j, loc[j])
           ELSE GoOn(j)
        /\ UNCHANGED <<db, vm, inst, ticket, job, used>>

(* pause                                                                   *)
ValidateSyncIsRunning(j) ==
    LET syncs == RunningSyncs(Lookup)
    IN  Reload(j, "validateSyncIsRunning", Cardinality(syncs) = 1,
               CHOOSE i \in syncs : TRUE)

(* A job that has finished cannot be canceled, which is no error; finalize *)
(* is no job of the workflow service.                                      *)
CancelSyncWorkflow(j) ==
    LET k == loc[j].rec.history[loc[j].idx].job
    IN  /\ At(j, "cancelSyncWorkflow")
        /\ IF mode[k] = "chain" /\ job[k].action # "finalize"
           THEN /\ mode' = [ModeAfter(j) EXCEPT ![k] = "canceling"]
                /\ pc' = [PcAfter(j) EXCEPT ![k] = 1]
                /\ loc' = LocAfter(j, loc[j])
           ELSE GoOn(j)
        /\ UNCHANGED <<db, vm, inst, ticket, job, used>>

StoreRecord(j) ==
    /\ At(j, "storeRecord")
    /\ StoreTask(j, Paused(loc[j].rec, loc[j].idx), loc[j])

-----------------------------------------------------------------------------
(* switch                                                                  *)
StopOrStart(j, task, action, needed) ==
    /\ At(j, task) \/ AtCleanup(j, task)
    /\ IF needed
       THEN \E k \in Jobs :
               Queue(j, k, Params(action, FALSE, FALSE), NoRecord,
                     [loc[j] EXCEPT !.child = k])
       ELSE GoOn(j) /\ UNCHANGED job
    /\ UNCHANGED <<db, vm, inst, ticket, used>>

StopSourceVm(j) ==
    StopOrStart(j, "stopSourceVm", "stop", job[j].vmState # "stopped")

(* The VM's server as VMAPI has it now decides where the VM is started.    *)
StartTargetVm(j) ==
    StopOrStart(j, "startTargetVm", "start", job[j].vmState = "running")

(* Mutant: the source is started where the job found it.                   *)
StartSourceVmThere(j) ==
    /\ At(j, "startSourceVm") \/ AtCleanup(j, "startSourceVm")
    /\ IF job[j].vmState = "running"
       THEN \E k \in Jobs :
               Queue(j, k, [Params("start", FALSE, FALSE) EXCEPT
                               !.queue = job[j].queue],
                     NoRecord, [loc[j] EXCEPT !.child = k])
       ELSE GoOn(j) /\ UNCHANGED job
    /\ UNCHANGED <<db, vm, inst, ticket, used>>

StartSourceVm(j) ==
    StopOrStart(j, "startSourceVm", "start", job[j].vmState = "running")

(* Mutant: no final sync.                                                  *)
StartNoFinalSync(j) ==
    /\ At(j, "startFinalSync")
    /\ GoOn(j)
    /\ UNCHANGED <<db, vm, inst, ticket, job, used>>

StartFinalSync(j) ==
    /\ At(j, "startFinalSync")
    /\ RequestSubtask(j, "sync", TRUE, TRUE)

GetRecord(j) == Reload(j, "getRecord", Lookup.id # 0, loc[j].idx)

EnsureSourceVmStopped(j) ==
    Check(j, "ensureSourceVmStopped", vm.state = "stopped")

(* Of these two tasks only that the target must be there is modelled.      *)
SetupTarget(j) ==
    \E task \in {"setupTargetFilesystem", "setTargetVmAutoboot"} :
        Check(j, task, Exists(loc[j].rec.target))

SetDoNotInventory(j, task, s, hidden, current) ==
    /\ At(j, task)
    /\ IF Exists(s)
       THEN /\ inst' = [inst EXCEPT ![s].hidden = hidden,
                                    ![s].current = current]
            /\ GoOn(j)
       ELSE Fail(j) /\ UNCHANGED inst
    /\ UNCHANGED <<db, vm, ticket, job, used>>

SetSourceDoNotInventory(j) ==
    LET s == loc[j].rec.source
    IN  SetDoNotInventory(j, "setSourceDoNotInventory", s, TRUE,
                          inst[s].current)

RemoveTargetDoNotInventory(j) ==
    LET s == loc[j].rec.target
    IN  SetDoNotInventory(j, "removeTargetDoNotInventory", s, FALSE,
                          inst[s].current)

(* Mutant: the VM is recorded at the source's server.                      *)
UpdateVmServerUuidToSource(j) ==
    /\ At(j, "updateVmServerUuid")
    /\ vm' = [vm EXCEPT !.server = loc[j].rec.source]
    /\ GoOn(j)
    /\ UNCHANGED <<db, inst, ticket, job, used>>

(* Both switch and rollback use the task of switch.js, which writes the    *)
(* target's server.                                                        *)
UpdateVmServerUuid(j) ==
    /\ At(j, "updateVmServerUuid")
    /\ IF loc[j].rec.target = NoServer
       THEN Fail(j) /\ UNCHANGED vm
       ELSE vm' = [vm EXCEPT !.server = loc[j].rec.target] /\ GoOn(j)
    /\ UNCHANGED <<db, inst, ticket, job, used>>

UnreserveNetworkIps(j) ==
    /\ AtCleanup(j, "unreserveNetworkIps")
    /\ GoOn(j)
    /\ UNCHANGED <<db, vm, inst, ticket, job, used>>

(* rollback                                                                *)
EnsureSourceVmHasDni(j) ==
    LET s == loc[j].rec.source
    IN  Check(j, "ensureSourceVmHasDni", Exists(s) /\ inst[s].hidden)

(* A target an earlier rollback has hidden is remembered, not stopped.     *)
StopTargetVm(j) ==
    LET t == loc[j].rec.target
    IN  /\ At(j, "stopTargetVm")
        /\ \/ /\ job[j].vmState = "stopped"
              /\ Proceed(j, [loc[j] EXCEPT !.child = 0])
              /\ UNCHANGED job
           \/ /\ job[j].vmState # "stopped" /\ Exists(t) /\ ~inst[t].hidden
              /\ \E k \in Jobs : Queue(j, k, Params("stop", FALSE, FALSE),
                                       NoRecord, [loc[j] EXCEPT !.child = k])
           \/ /\ job[j].vmState # "stopped" /\ Exists(t) /\ inst[t].hidden
              /\ IF inst[t].running
                 THEN Fail(j)
                 ELSE Proceed(j, [loc[j] EXCEPT !.child = 0,
                                                !.targetHidden = TRUE])
              /\ UNCHANGED job
           \/ /\ job[j].vmState # "stopped" /\ ~Exists(t)
              /\ Fail(j) /\ UNCHANGED job
        /\ UNCHANGED <<db, vm, inst, ticket, used>>

EnsureTargetVmStopped(j) ==
    Check(j, "ensureTargetVmStopped",
          loc[j].targetHidden \/ vm.state = "stopped")

SetTargetDoNotInventory(j) ==
    LET t == loc[j].rec.target
    IN  IF loc[j].targetHidden
        THEN Check(j, "setTargetDoNotInventory", TRUE)
        ELSE SetDoNotInventory(j, "setTargetDoNotInventory", t, TRUE,
                               inst[t].current)

(* The writes made to the target since the switch are given up here, as    *)
(* the documentation says: from now on the source holds every write.       *)
RemoveSourceDoNotInventory(j) ==
    SetDoNotInventory(j, "removeSourceDoNotInventory", loc[j].rec.source,
                      FALSE, TRUE)

-----------------------------------------------------------------------------
(* Removing an instance from its compute node.                             *)
Gone == [exists |-> FALSE, hidden |-> FALSE, running |-> FALSE,
         current |-> FALSE]

DeleteInstance(j, task, s, mayBeGone) ==
    /\ At(j, task)
    /\ IF Exists(s) \/ mayBeGone
       THEN /\ inst' = [inst EXCEPT ![s] = Gone]
            /\ GoOn(j)
       ELSE Fail(j) /\ UNCHANGED inst
    /\ UNCHANGED <<db, vm, ticket, job, used>>

(* Mutant: the target is removed whether it is hidden or not.              *)
EnsureNothing(j) == Check(j, "ensureTargetVmHasDni", TRUE)

EnsureTargetVmHasDni(j) ==
    LET t == loc[j].rec.target
    IN  Check(j, "ensureTargetVmHasDni", Exists(t) => inst[t].hidden)

(* Mutant: the abort removes nothing but the record.                       *)
AbortDeletesNothing(j) == Check(j, "abortDeleteTargetDniVm", TRUE)

AbortDeleteTargetDniVm(j) ==
    DeleteInstance(j, "abortDeleteTargetDniVm", loc[j].rec.target, TRUE)

RollbackDeleteTargetDniVm(j) ==
    DeleteInstance(j, "rollbackDeleteTargetDniVm", loc[j].rec.target, FALSE)

DeleteSourceVm(j) ==
    DeleteInstance(j, "deleteSourceVm", loc[j].rec.source, TRUE)

RemoveMigrationRecord(j) ==
    /\ At(j, "removeMigrationRecord")
    /\ stored' = [stored EXCEPT ![loc[j].rec.id] =
                      IF @ = "live" THEN "deleted" ELSE @]
    /\ GoOn(j)
    /\ UNCHANGED <<records, vm, inst, ticket, job, used>>

-----------------------------------------------------------------------------
(* The start and stop jobs, of callers and of migrations.                  *)
EnsureVmState(j) ==
    Check(j, "ensureVmState",
          vm.state = IF job[j].action = "start" THEN "stopped" ELSE "running")

(* zoneAction and waitTask: an instance that starts takes the writes from  *)
(* now on, so that no other one still holds them all.                      *)
StartVm(j) ==
    LET s == job[j].queue
    IN  /\ At(j, "startVm")
        /\ IF inst[s].exists /\ ~inst[s].running
           THEN /\ inst' = [t \in Servers |->
                               IF t = s THEN [inst[t] EXCEPT !.running = TRUE]
                                        ELSE [inst[t] EXCEPT !.current = FALSE]]
                /\ GoOn(j)
           ELSE Fail(j) /\ UNCHANGED inst
        /\ UNCHANGED <<db, vm, ticket, job, used>>

StopVm(j) ==
    LET s == job[j].queue
    IN  /\ At(j, "stopVm")
        /\ IF inst[s].exists /\ inst[s].running
           THEN inst' = [inst EXCEPT ![s].running = FALSE] /\ GoOn(j)
           ELSE Fail(j) /\ UNCHANGED inst
        /\ UNCHANGED <<db, vm, ticket, job, used>>

(* The VM as the compute node loaded it when the task ended.               *)
PutVm(j) ==
    /\ At(j, "putVm")
    /\ vm' = [server |-> job[j].queue,
              state |-> IF job[j].action = "start" THEN "running"
                                                   ELSE "stopped"]
    /\ GoOn(j)
    /\ UNCHANGED <<db, inst, ticket, job, used>>

-----------------------------------------------------------------------------
(* Faults, callers and the agents on the compute nodes.                    *)
TaskFails(j) ==
    /\ mode[j] = "chain"
    /\ Fault
    /\ Fail(j)
    /\ UNCHANGED <<db, vm, inst, ticket, job>>

(* An error in the cleanup ends it: what follows is not run.               *)
CleanupFails(j) ==
    /\ \E task \in {"cleanup", "unreserveNetworkIps", "startSourceVm"} :
          AtCleanup(j, task)
    /\ Fault
    /\ mode' = [mode EXCEPT ![j] = Outcome[@]]
    /\ pc' = [pc EXCEPT ![j] = 0]
    /\ loc' = [loc EXCEPT ![j] = NoLocals]
    /\ UNCHANGED <<db, vm, inst, ticket, job>>

UserAction == used.user < MaxUserActions /\ used' = [used EXCEPT !.user = @ + 1]

UserStartsOrStops(k) ==
    /\ Fresh(k) /\ UserAction
    /\ \E action \in {"start", "stop"} :
          job' = [job EXCEPT ![k] = Params(action, FALSE, FALSE)]
    /\ mode' = [mode EXCEPT ![k] = "chain"]
    /\ pc' = [pc EXCEPT ![k] = 1]
    /\ UNCHANGED <<db, vm, inst, ticket, loc>>

(* DELETE /migrations/:uuid takes the newest record, whatever its state.   *)
DeleteVmMigration ==
    /\ UserAction
    /\ LiveIds # {}
    /\ stored' = [stored EXCEPT ![Newest(LiveIds)] = "deleted"]
    /\ UNCHANGED <<records, vm, inst, ticket, job, mode, pc, loc>>

(* The agent of a compute node puts the instances it sees, which matters   *)
(* when VMAPI knows otherwise.                                             *)
AgentReport(s) ==
    /\ inst[s].exists /\ ~inst[s].hidden
    /\ vm' = [server |-> s,
              state |-> IF inst[s].running THEN "running" ELSE "stopped"]
    /\ vm' # vm
    /\ UNCHANGED <<db, inst, ticket, job, mode, pc, loc, used>>

Quiescent == Active = {} /\ UNCHANGED vars

-----------------------------------------------------------------------------
MigrationTask(j) ==
    \/ AllocateServer(j) \/ ProvisionVm(j) \/ StartSyncWhenAutomatic(j)
    \/ StoreProcessDetails(j) \/ Sync(j) \/ Cleanup(j)
    \/ StartSyncOrSwitchWhenAutomatic(j)
    \/ ValidateSyncIsRunning(j) \/ CancelSyncWorkflow(j) \/ StoreRecord(j)
    \/ SetRecordStateRunning(j) \/ StopSourceVm(j) \/ StartFinalSync(j)
    \/ GetRecord(j) \/ EnsureSourceVmStopped(j) \/ StoreReservedNetworkIps(j)
    \/ SetupTarget(j) \/ SetSourceDoNotInventory(j) \/ UpdateVmServerUuid(j)
    \/ RemoveTargetDoNotInventory(j) \/ StartTargetVm(j)
    \/ EnsureTargetVmHasDni(j) \/ AbortDeleteTargetDniVm(j)
    \/ EnsureSourceVmHasDni(j) \/ StopTargetVm(j) \/ EnsureTargetVmStopped(j)
    \/ SetTargetDoNotInventory(j) \/ RemoveSourceDoNotInventory(j)
    \/ RollbackDeleteTargetDniVm(j) \/ StartSourceVm(j)
    \/ DeleteSourceVm(j) \/ RemoveMigrationRecord(j)

SharedTask(j) ==
    \/ AcquireVMTicket(j) \/ ReleaseVMTicket(j) \/ ReleaseVMTicketIgnoringErr(j)
    \/ StoreInitialRecord(j) \/ StoreSuccess(j) \/ StoreFailure(j)
    \/ DisallowRetry(j) \/ WaitForWorkflowJob(j) \/ UnreserveNetworkIps(j)
    \/ EnsureVmState(j) \/ StartVm(j) \/ StopVm(j) \/ PutVm(j)

JobStep(j) == MigrationTask(j) \/ SharedTask(j)
RequestStep(k) == CreateRecord(k) \/ AbortWithoutTarget(k) \/ StartWorkflow(k)

Next ==
    \/ \E j \in Jobs : \/ JobStep(j) \/ RequestStep(j)
                       \/ RequestMigration(j) \/ UserStartsOrStops(j)
                       \/ TaskFails(j) \/ CleanupFails(j)
    \/ \E s \in Servers : TicketExpires(s) \/ AgentReport(s)
    \/ DeleteVmMigration
    \/ Quiescent

Spec == Init /\ [][Next]_vars

(* The API process and the workflow runners go on with some request or     *)
(* task while there is one to go on with, and CNAPI ends tickets that are  *)
(* due.                                                                    *)
Fairness == /\ WF_vars(\E j \in Jobs : JobStep(j) \/ RequestStep(j))
            /\ WF_vars(\E s \in Servers : TicketExpires(s))

-----------------------------------------------------------------------------
VmRecord == [server : Servers, state : {"running", "stopped"}]
Instance == [exists : BOOLEAN, hidden : BOOLEAN,
             running : BOOLEAN, current : BOOLEAN]
JobParams == [action : JobActions, queue : Servers \cup {NoServer},
              vmState : {"running", "stopped"},
              subtask : BOOLEAN, final : BOOLEAN]
Modes == Ended \cup Cleaning \cup {"none", "request", "chain"}
Locals == [rec : Record, idx : Nat, noRetry : BOOLEAN,
           targetHidden : BOOLEAN, child : Jobs \cup {0}]

(* Every variable has the values the code can give it: a record is one the *)
(* record functions can make, the VM is at a server, never at none.        *)
TypeOK ==
    /\ records \in [RecordIds -> Record]
    /\ stored \in [RecordIds -> {"never", "live", "deleted"}]
    /\ vm \in VmRecord
    /\ inst \in [Servers -> Instance]
    /\ ticket \in [Servers -> Jobs \cup {0}]
    /\ job \in [Jobs -> JobParams]
    /\ mode \in [Jobs -> Modes]
    /\ pc \in [Jobs -> Nat]
    /\ loc \in [Jobs -> Locals]
    /\ used \in [requests : Nat, faults : Nat, user : Nat]

Visible(s) == inst[s].exists /\ ~inst[s].hidden
Settled == Active = {}

(* The source is hidden before the target is shown, and back, in every     *)
(* order the tasks of two jobs, their failures and expired tickets allow:  *)
(* two compute nodes never report the VM at once.  (Two switches and a     *)
(* rollback of the first break it, see the README.)                        *)
AtMostOneVisible ==
    \A s, t \in Servers : Visible(s) /\ Visible(t) => s = t

(* The VM never runs in two places: a switch stops the source before the   *)
(* target is started, a rollback the target before the source is.          *)
OneRuns ==
    \A s, t \in Servers : inst[s].running /\ inst[t].running => s = t

(* The instance the VM's owner reaches holds every write that was made to  *)
(* the VM (but those a rollback gives up): the final sync is made with the *)
(* source stopped, and the source stays so until the target is shown.      *)
PrimaryIsCurrent == \A s \in Servers : Visible(s) => inst[s].current

(* The same at the moment an instance is shown, also while the jobs of two *)
(* requests overlap (a third request, or a failing task, breaks it).       *)
PromotesCurrent ==
    [][\A s \in Servers : Visible(s)' /\ ~Visible(s) => inst'[s].current]_vars

(* Only a hidden instance is ever removed from a compute node: begin's     *)
(* target by abort, the source by finalize, the target by rollback.        *)
RemovesOnlyHidden ==
    [][\A s \in Servers : inst[s].exists /\ ~inst'[s].exists =>
           inst[s].hidden]_vars

(* A begin that may be retried has left no instance behind: from           *)
(* disallowRetry on there may be a hidden one, before it there is none.    *)
RetryLeavesNoTarget ==
    Settled => \A r \in LiveIds :
        RetryAllowed(records[r]) =>
            LET t == records[r].target IN Exists(t) => ~inst[t].hidden

(* When all jobs have ended, the VM has an instance its owner can reach,   *)
(* ...                                                                     *)
SomeVisible == Settled => \E s \in Servers : Visible(s)

(* ... VMAPI says it is where it is, ...                                   *)
VmAtPrimary == Settled => \A s \in Servers : Visible(s) => vm.server = s

(* ... no record says that a job still runs, which would refuse every      *)
(* later action, ...                                                       *)
RunningHasJob ==
    Settled => \A r \in LiveIds : records[r].state # "running"

(* ... and every hidden instance is named by a record, the only way to     *)
(* have it removed.                                                        *)
NoOrphan ==
    Settled => \A s \in Servers : inst[s].exists /\ inst[s].hidden =>
        \E r \in LiveIds : s \in {records[r].source, records[r].target}

(* What the waitlist ticket is taken for: a job changes the record before  *)
(* its long tasks, hides or shows instances, moves the VM's record and     *)
(* starts or stops an instance only while it holds the ticket.             *)
Protected ==
    {"cleanup", "storeInitialRecord", "setRecordStateRunning",
     "storeReservedNetworkIps", "setSourceDoNotInventory",
     "updateVmServerUuid", "removeTargetDoNotInventory",
     "setTargetDoNotInventory", "removeSourceDoNotInventory",
     "abortDeleteTargetDniVm", "rollbackDeleteTargetDniVm",
     "startVm", "stopVm", "putVm"}

ProtectedByTicket ==
    \A j \in Jobs : \A task \in Protected :
        At(j, task) => ticket[job[j].queue] = j

(* All jobs come to an end: none waits for ever for the ticket of a job    *)
(* that waits for it, or for one that a job which is gone still holds.     *)
AlwaysSettles == []<>Settled

=============================================================================
