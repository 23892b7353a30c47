--------------------------- MODULE MigrationRecord ---------------------------
(***************************************************************************)
(* The migration record kept in moray for one VM, and the pure functions   *)
(* the API handler and the workflow tasks apply to it: the validation of a *)
(* migration action, the progress entries and the outcome a task stores.   *)
(*                                                                         *)
(* A record is abstracted to the fields some decision of the code reads.   *)
(* "noRetry" is the entry field disallowRetry, "syncs" num_sync_phases,    *)
(* "auto" automatic, "proc" the job whose cn-agent processes are in the    *)
(* process details (0 for a pid of -1).                                    *)
(***************************************************************************)
EXTENDS Naturals, Sequences

CONSTANTS
    Servers,     \* compute nodes
    NoServer,    \* stands for an absent target_server_uuid
    MaxJobs,     \* BOUND: jobs and requests created over a behaviour
    MaxRecords   \* BOUND: migration records created over a behaviour

ASSUME ConstantsAssumption ==
    /\ NoServer \notin Servers
    /\ MaxJobs \in Nat \ {0}
    /\ MaxRecords \in Nat \ {0}

Jobs == 1 .. MaxJobs
RecordIds == 1 .. MaxRecords

(* Actions of the migrate endpoint ("estimate" reads only, see README).    *)
MigrationActions ==
    {"begin", "sync", "pause", "switch", "abort", "rollback", "finalize"}
Phases == {"begin", "sync", "switch", "abort", "rollback", "pause"}
States == {"running", "paused", "failed", "successful"}

ProgressEntry == [phase : Phases, state : States,
                  job : Jobs, noRetry : BOOLEAN]

Record == [id : 0 .. MaxRecords, phase : Phases, state : States,
           syncs : Nat, auto : BOOLEAN,
           source : Servers \cup {NoServer}, target : Servers \cup {NoServer},
           proc : Jobs \cup {0}, history : Seq(ProgressEntry)]

NoRecord == [id |-> 0, phase |-> "begin", state |-> "failed", syncs |-> 0,
             auto |-> FALSE, source |-> NoServer, target |-> NoServer,
             proc |-> 0, history |-> <<>>]

(* The record a fresh "begin" writes before its job is created.            *)
NewRecord(id, server, auto) ==
    [id |-> id, phase |-> "begin", state |-> "running", syncs |-> 0,
     auto |-> auto, source |-> server, target |-> NoServer,
     proc |-> 0, history |-> <<>>]

-----------------------------------------------------------------------------
(* What the lookup by the VM's current server finds: the source side of    *)
(* any migration, the target side of a finished or failed-rollback one.    *)
Matches(rec, server) ==
    \/ rec.source = server
    \/ /\ rec.target = server
       /\ \/ rec.state = "successful"
          \/ rec.phase = "rollback" /\ rec.state = "failed"

(* A failed begin that did not get as far as reserving the target.         *)
RetryAllowed(rec) ==
    /\ rec.phase = "begin" /\ rec.state = "failed"
    /\ rec.history # <<>>
    /\ LET last == rec.history[Len(rec.history)]
       IN  last.phase = "begin" /\ ~last.noRetry

(* The precondition each action has on the stored record.                  *)
Resumable(rec, subtask) ==
    rec.state \in {"paused", "failed"} \/ (rec.state = "running" /\ subtask)

Validates(action, rec, subtask) ==
    \/ action = "abort"    /\ rec.state \notin {"running", "successful"}
    \/ action = "finalize" /\ rec.state = "successful"
    \/ action = "pause"    /\ rec.phase = "sync" /\ rec.state = "running"
    \/ /\ action = "rollback"
       /\ rec.state = "successful" \/ rec.phase = "rollback"
    \/ /\ action = "switch"
       /\ rec.phase \in {"begin", "sync"}
       /\ Resumable(rec, subtask)
       /\ rec.syncs > 0
    \/ /\ action = "sync"
       /\ Resumable(rec, subtask)
       /\ \/ rec.phase = "begin" /\ rec.state = "paused"
          \/ rec.phase = "sync" /\ rec.state \in {"paused", "failed"}
          \/ rec.state = "running" /\ subtask

-----------------------------------------------------------------------------
(* storeInitialRecord: the action's phase starts, with an entry for it.    *)
Started(rec, action, j) ==
    [rec EXCEPT !.state = "running", !.phase = action, !.proc = 0,
                !.history = Append(@, [phase |-> action, state |-> "running",
                                       job |-> j, noRetry |-> FALSE])]

(* storeSuccess: the entry succeeds; the record waits, runs on or is done. *)
Succeeded(rec, action, idx, subtask) ==
    [rec EXCEPT
        !.history[idx].state = "successful",
        !.proc = 0,
        !.syncs = IF action = "sync" THEN @ + 1 ELSE @,
        !.state = IF action \in {"switch", "abort", "rollback"}
                  THEN "successful"
                  ELSE IF (rec.auto /\ action \in {"begin", "sync"}) \/ subtask
                  THEN "running"
                  ELSE "paused"]

(* Mutant: the record keeps the state it had, the error is its state.      *)
FailedWithError(rec, action, idx, noRetry, j) ==
    [rec EXCEPT !.state = "error"]

(* storeFailure: a job that has no entry yet (idx 0) adds one; a switch    *)
(* that may be retried falls back to phase "sync".                         *)
Failed(rec, action, idx, noRetry, j) ==
    LET h == rec.history
    IN  [rec EXCEPT
            !.state = "failed",
            !.phase = IF ~noRetry /\ @ = "switch" THEN "sync" ELSE @,
            !.history =
                IF idx \in DOMAIN h
                THEN [h EXCEPT ![idx].state = "failed",
                               ![idx].noRetry = @ \/ noRetry]
                ELSE Append(h, [phase |-> action, state |-> "failed",
                                job |-> j, noRetry |-> noRetry])]

(* The entries a pause may act on.                                         *)
RunningSyncs(rec) ==
    {i \in DOMAIN rec.history :
        rec.history[i].phase = "sync" /\ rec.history[i].state = "running"}

(* markSyncPaused                                                          *)
Paused(rec, idx) ==
    [rec EXCEPT !.state = "paused", !.proc = 0,
                !.history[idx].state = "paused"]

=============================================================================
