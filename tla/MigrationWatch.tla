--------------------------- MODULE MigrationWatch ---------------------------
(***************************************************************************)
(* Watching a VM's migration (lib/vm-migration/migrate.js): each watch is  *)
(* a loop that reads, every second, what the process remembers of the      *)
(* migration.  The jobs' reports renew it, and so does a watch that saw    *)
(* nothing happen for a while and looks the record up in moray.            *)
(***************************************************************************)
EXTENDS Naturals, Sequences, FiniteSets

CONSTANTS
    Watches,      \* the requests to watch the migration
    Attempts,     \* how many idle rounds of a watch end with a lookup
    MaxActions,   \* BOUND: actions requested over a behaviour
    MaxEvents,    \* BOUND: progress events
    MaxFaults     \* BOUND: lookups that fail, restarts and DELETEs, in all

ASSUME MigrationWatchAssumption ==
    Attempts \in Nat \ {0} /\ {MaxActions, MaxEvents, MaxFaults} \subseteq Nat

VARIABLES
    moray,   \* the record of the migration, or NoRecord
    cache,   \* MIGRATION_RECORD_FOR_VM_UUID of the VM, or NoRecord
    event,   \* MIGRATION_PROGRESS_FOR_VM_UUID: a number, 0 if there is none
    start,   \* the record of a request whose job was just queued, or NoRecord
    job,     \* the action whose job is queued or runs
    watch,   \* the watches
    other,   \* a record that a watch of someone else has looked up
    used     \* how much of the bounds the behaviour has used

vars == <<moray, cache, event, start, job, watch, other, used>>

NoRecord == [state |-> "none", len |-> 0]
NoJob == [pc |-> "none", undo |-> FALSE, len |-> 0]
Outcomes == {"paused", "successful"}

(* A watch: got is what its client was sent of progress_history, next is    *)
(* nextProgressIdx, last is what lastRecord is to the cached record, timers *)
(* its rounds to come and lookups those that wait for the answer of moray.  *)
NoWatch == [pc |-> "idle", got |-> << >>, next |-> 0, last |-> "none",
            lastEvent |-> 0, attempts |-> 0, ended |-> FALSE, timers |-> 0,
            lookups |-> << >>]
Closed == [NoWatch EXCEPT !.pc = "closed"]

Open(w) == watch[w].pc \in {"loading", "open"}

\* The cached record is another object now, whatever it says
Remember(r) ==
    /\ cache' = r
    /\ watch' = [w \in Watches |->
                   [watch[w] EXCEPT !.last = IF @ = "current" THEN "stale"
                                                              ELSE @]]
-----------------------------------------------------------------------------
(* The migration.  Only some actions are allowed when it was successful; an *)
(* abort or a rollback undoes it, and its record is deleted in the end.     *)
RequestAction(undo) ==
    /\ job = NoJob /\ start = NoRecord
    /\ used.actions < MaxActions
    /\ moray.state = "paused" \/ (undo /\ moray.state = "successful")
    /\ used' = [used EXCEPT !.actions = @ + 1]
    /\ start' = [moray EXCEPT !.state = "running"]
    /\ job' = [pc |-> "queued", undo |-> undo, len |-> moray.len]
    /\ UNCHANGED <<moray, cache, event, watch, other>>

\* The answer that the job is queued; the job may have begun, or ended, by then
StartMigrationWorkflow ==
    /\ start # NoRecord
    /\ Remember(start)
    /\ event' = 0
    /\ start' = NoRecord
    /\ UNCHANGED <<moray, job, other, used>>

StoreMigrationRecord(r, deletes) ==
    /\ moray' = IF deletes THEN NoRecord ELSE r
    /\ Remember(r)

StoreInitialRecord ==
    /\ job.pc = "queued"
    /\ job' = [job EXCEPT !.pc = "running", !.len = @ + 1]
    /\ StoreMigrationRecord([state |-> "running", len |-> job.len + 1], FALSE)
    /\ UNCHANGED <<event, start, other, used>>

OnProgress ==
    /\ job.pc = "running"
    /\ used.events < MaxEvents
    /\ used' = [used EXCEPT !.events = @ + 1]
    /\ event' = used.events + 1
    /\ UNCHANGED <<moray, cache, start, job, watch, other>>

\* storeSuccess or storeFailure
StoreOutcome ==
    /\ job.pc = "running"
    /\ \E outcome \in Outcomes :
         StoreMigrationRecord([state |-> outcome, len |-> job.len],
                              job.undo /\ outcome = "successful")
    /\ job' = NoJob
    /\ UNCHANGED <<event, start, other, used>>

Fault == used.faults < MaxFaults /\ used' = [used EXCEPT !.faults = @ + 1]

DeleteVmMigration ==
    /\ Fault
    /\ moray # NoRecord
    /\ moray' = NoRecord
    /\ Remember(NoRecord)
    /\ UNCHANGED <<event, start, job, other>>

\* What the process remembers is gone, and so are its clients
Restart ==
    /\ Fault
    /\ cache' = NoRecord /\ event' = 0 /\ start' = NoRecord
    /\ watch' = [w \in Watches |->
                   IF Open(w) THEN Closed ELSE watch[w]]
    /\ other' = NoRecord
    /\ UNCHANGED <<moray, job>>

-----------------------------------------------------------------------------
LoadVmMigration(w) ==
    /\ watch[w].pc = "idle" /\ moray # NoRecord
    /\ watch' = [watch EXCEPT ![w].pc = "loading", ![w].lookups = <<moray>>]
    /\ UNCHANGED <<moray, cache, event, start, job, other, used>>

(* The entry of a running action is sent.  If neither the record nor the    *)
(* cached one is running, the end event is too and that is all.             *)
WatchVmMigration(w) ==
    /\ watch[w].pc = "loading"
    /\ LET record == watch[w].lookups[1]
           running == "running" \in {record.state, cache.state}
       IN watch' = [watch EXCEPT ![w] =
            IF ~running THEN Closed
            ELSE [NoWatch EXCEPT !.pc = "open", !.next = record.len,
                                 !.timers = 1,
                                 !.got = IF record.state = "running"
                                         THEN <<record.len>> ELSE << >>]]
    /\ UNCHANGED <<moray, cache, event, start, job, other, used>>

Same(w) ==
    /\ event = watch[w].lastEvent
    /\ watch[w].last = IF cache = NoRecord THEN "none" ELSE "current"
Idle(w) == Same(w) \/ (event = 0 /\ cache = NoRecord)

\* Mutant: nextProgressIdx follows the record, even an older one
SentAnyLength(w) ==
    LET x == watch[w]
    IN IF cache = NoRecord THEN x
       ELSE [x EXCEPT
               !.got = @ \o [i \in 1..(IF cache.len > x.next
                                       THEN cache.len - x.next ELSE 0)
                               |-> x.next + i],
               !.next = cache.len,
               !.last = "current",
               !.ended = cache.state # "running"]
\* What a watch has when it has written the cached record's new entries
Sent(w) ==
    LET x == watch[w]
    IN IF cache = NoRecord \/ x.last = "current" THEN x
       ELSE [x EXCEPT
               !.got = @ \o [i \in 1..(IF cache.len > x.next
                                       THEN cache.len - x.next ELSE 0)
                               |-> x.next + i],
               !.next = IF cache.len > @ THEN cache.len ELSE @,
               !.last = "current",
               !.ended = cache.state # "running"]

\* A round finds something to send, be it only that the record is gone
SendProgress(w) ==
    /\ watch[w].pc = "open" /\ watch[w].timers > 0
    /\ ~watch[w].ended /\ ~Idle(w)
    /\ watch' = [watch EXCEPT ![w] =
         [Sent(w) EXCEPT !.attempts = 0,
                         !.lastEvent = IF event = 0 THEN @ ELSE event]]
    /\ UNCHANGED <<moray, cache, event, start, job, other, used>>

\* Mutants: the counter of idle rounds is not reset by a lookup; and a record
\* that is remembered is not looked up
AttemptDoneUncounted(w) ==
    /\ watch[w].pc = "open" /\ watch[w].timers > 0
    /\ ~watch[w].ended /\ Idle(w)
    /\ watch' = [watch EXCEPT
                   ![w].attempts = @ + 1,
                   ![w].timers = IF watch[w].attempts < Attempts THEN @
                                 ELSE @ - 1,
                   ![w].lookups = IF watch[w].attempts < Attempts THEN @
                                  ELSE Append(@, moray)]
    /\ UNCHANGED <<moray, cache, event, start, job, other, used>>
AttemptDoneTrusting(w) ==
    /\ watch[w].pc = "open" /\ watch[w].timers > 0
    /\ ~watch[w].ended /\ Idle(w)
    /\ watch' = [watch EXCEPT ![w] =
         IF @.attempts + 1 < Attempts \/ cache # NoRecord
         THEN [@ EXCEPT !.attempts = (@ + 1) % Attempts]
         ELSE [@ EXCEPT !.attempts = 0, !.timers = @ - 1,
                        !.lookups = Append(@, moray)]]
    /\ UNCHANGED <<moray, cache, event, start, job, other, used>>
\* An idle round; the last one in a row looks the record up
AttemptDone(w) ==
    /\ watch[w].pc = "open" /\ watch[w].timers > 0
    /\ ~watch[w].ended /\ Idle(w)
    /\ LET x == watch[w]
       IN watch' = [watch EXCEPT ![w] =
            IF x.attempts + 1 < Attempts
            THEN [x EXCEPT !.attempts = x.attempts + 1]
            ELSE [x EXCEPT !.attempts = 0, !.timers = x.timers - 1,
                           !.lookups = Append(x.lookups, moray)]]
    /\ UNCHANGED <<moray, cache, event, start, job, other, used>>

(* The answer to a lookup.  An error forgets the record, clears the count   *)
(* of errors it has just counted, and calls back twice: two rounds are to   *)
(* come where there was one.  (More than two are counted as two.)           *)
OnGetMigration(w) ==
    /\ watch[w].pc = "open" /\ watch[w].lookups # << >>
    /\ \/ cache' = Head(watch[w].lookups) /\ UNCHANGED used
       \/ cache' = NoRecord /\ Head(watch[w].lookups) # NoRecord /\ Fault
    /\ watch' = [v \in Watches |->
         LET x == [watch[v] EXCEPT !.last = IF @ = "current" THEN "stale"
                                                             ELSE @]
         IN IF v # w THEN x
            ELSE [x EXCEPT !.lookups = Tail(@),
                           !.timers = IF /\ cache' = NoRecord
                                         /\ @ + Len(x.lookups) = 1
                                      THEN 2 ELSE @ + 1]]
    /\ UNCHANGED <<moray, event, start, job, other>>

\* The round after the one that saw the migration stop: the end event
OnWatchWhilst(w) ==
    /\ watch[w].pc = "open" /\ watch[w].timers > 0 /\ watch[w].ended
    /\ watch' = [watch EXCEPT ![w] = Closed]
    /\ UNCHANGED <<moray, cache, event, start, job, other, used>>

\* The lookups of other watches renew what all of them read
OtherLookup ==
    /\ other = NoRecord /\ moray # NoRecord
    /\ other' = moray
    /\ UNCHANGED <<moray, cache, event, start, job, watch, used>>

OtherOnGetMigration ==
    /\ other # NoRecord
    /\ Remember(other)
    /\ other' = NoRecord
    /\ UNCHANGED <<moray, event, start, job, used>>

ClientCloses(w) ==
    /\ watch[w].pc = "open"
    /\ watch' = [watch EXCEPT ![w] = Closed]
    /\ UNCHANGED <<moray, cache, event, start, job, other, used>>

-----------------------------------------------------------------------------
(* An action may be under way when the process starts.                      *)
Init ==
    /\ \/ moray = [state |-> "paused", len |-> 1] /\ job = NoJob
       \/ /\ moray = [state |-> "running", len |-> 1]
          /\ job = [pc |-> "running", undo |-> FALSE, len |-> 1]
    /\ cache = NoRecord /\ event = 0 /\ start = NoRecord
    /\ other = NoRecord
    /\ watch = [w \in Watches |-> NoWatch]
    /\ used = [actions |-> 0, events |-> 0, faults |-> 0]

Migration ==
    \/ \E undo \in BOOLEAN : RequestAction(undo)
    \/ StartMigrationWorkflow \/ StoreInitialRecord
    \/ OnProgress \/ StoreOutcome
    \/ DeleteVmMigration \/ Restart
    \/ OtherLookup \/ OtherOnGetMigration

Round(w) ==
    \/ WatchVmMigration(w) \/ SendProgress(w) \/ AttemptDone(w)
    \/ OnGetMigration(w) \/ OnWatchWhilst(w)

Next ==
    \/ Migration
    \/ \E w \in Watches : LoadVmMigration(w) \/ Round(w) \/ ClientCloses(w)
    \/ ~(\E w \in Watches : Open(w)) /\ UNCHANGED vars

\* Timers fire, moray answers, and the jobs report how they end
FairSpec ==
    /\ Init /\ [][Next]_vars
    /\ \A w \in Watches :
        /\ WF_vars(WatchVmMigration(w)) /\ WF_vars(OnGetMigration(w))
        /\ WF_vars(SendProgress(w) \/ AttemptDone(w) \/ OnWatchWhilst(w))
    /\ WF_vars(StartMigrationWorkflow)
    /\ WF_vars(StoreInitialRecord) /\ WF_vars(StoreOutcome)
-----------------------------------------------------------------------------
(* PROPERTIES *)

\* The shape of the state, and that an open watch has a round or a lookup to
\* come and counts fewer idle rounds than a lookup takes
TypeOK ==
    /\ {moray.state, cache.state} \subseteq
           Outcomes \cup {"running", "none"}
    /\ event \in 0..MaxEvents
    /\ \A w \in Watches :
        /\ watch[w].attempts \in 0..(Attempts - 1)
        /\ watch[w].pc = "open" =>
               watch[w].timers > 0 \/ watch[w].lookups # << >>

\* A client is sent the entries of the migration's history in order, none
\* twice and none left out, though lookups bring older records back
EntriesInOrder ==
    \A w \in Watches :
        LET got == watch[w].got
        IN \A i \in 2..Len(got) : got[i] = got[i - 1] + 1

(* Something that the watch last saw was deleted.  It then takes every      *)
(* round for one with something to send, and never looks the record up.     *)
Blind(w) ==
    \/ event = 0 /\ watch[w].lastEvent # 0
    \/ cache = NoRecord /\ watch[w].last # "none"

\* A watch comes to its end unless it was made blind or the record is gone,
\* though an older record may be put back over the one that says so
WatchEnds ==
    \A w \in Watches :
        Open(w) ~> (~Open(w) \/ Blind(w) \/ moray = NoRecord)
=============================================================================
