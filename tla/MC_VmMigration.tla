--------------------------- MODULE MC_VmMigration ---------------------------
(***************************************************************************)
(* VmMigration on small instances for TLC, from the start and from two     *)
(* later points of a migration that went well: behaviours in which several *)
(* requests overlap are too long to be enumerated from the start.          *)
(***************************************************************************)
EXTENDS VmMigration, TLC

ServerSymmetry == Permutations(Servers)

Entry(phase, j) == [phase |-> phase, state |-> "successful", job |-> j,
                    noRetry |-> FALSE]

Done(action, s, state) ==
    [action |-> action, queue |-> s, vmState |-> state,
     subtask |-> FALSE, final |-> FALSE]

(* A begin and a sync have succeeded, as jobs 1 and 2.                     *)
InitSynced ==
    \E s \in Servers, state \in {"running", "stopped"} :
    \E t \in Servers \ {s} :
       /\ records = [r \in RecordIds |->
              IF r = 1 THEN [id |-> 1, phase |-> "sync", state |-> "paused",
                             syncs |-> 1, auto |-> FALSE,
                             source |-> s, target |-> t, proc |-> 0,
                             history |-> <<Entry("begin", 1),
                                           Entry("sync", 2)>>]
                       ELSE NoRecord]
       /\ stored = [r \in RecordIds |-> IF r = 1 THEN "live" ELSE "never"]
       /\ vm = [server |-> s, state |-> state]
       /\ inst = [u \in Servers |->
              [exists |-> u \in {s, t}, hidden |-> u = t,
               running |-> u = s /\ state = "running",
               current |-> u = s \/ (u = t /\ state = "stopped")]]
       /\ ticket = [u \in Servers |-> 0]
       /\ job = [j \in Jobs |-> IF j = 1 THEN Done("begin", s, state)
                                ELSE IF j = 2 THEN Done("sync", s, state)
                                ELSE NoJob]
       /\ mode = [j \in Jobs |-> IF j \in {1, 2} THEN "succeeded" ELSE "none"]
       /\ pc = [j \in Jobs |-> 0]
       /\ loc = [j \in Jobs |-> NoLocals]
       /\ used = [requests |-> 0, faults |-> 0, user |-> 0]

SpecSynced == InitSynced /\ [][Next]_vars
FairSpecSynced == SpecSynced /\ Fairness

(* A switch of a stopped VM has succeeded after them, as job 3, with its   *)
(* final sync as job 4; the VM may have been started since.                *)
InitSwitched ==
    \E s \in Servers : \E t \in Servers \ {s} :
       /\ records = [r \in RecordIds |->
              IF r = 1 THEN [id |-> 1, phase |-> "switch",
                             state |-> "successful", syncs |-> 2,
                             auto |-> FALSE, source |-> s, target |-> t,
                             proc |-> 0,
                             history |-> <<Entry("begin", 1), Entry("sync", 2),
                                           Entry("sync", 4),
                                           Entry("switch", 3)>>]
                       ELSE NoRecord]
       /\ stored = [r \in RecordIds |-> IF r = 1 THEN "live" ELSE "never"]
       /\ \E state \in {"running", "stopped"} :
             /\ vm = [server |-> t, state |-> state]
             /\ inst = [u \in Servers |->
                    [exists |-> u \in {s, t}, hidden |-> u = s,
                     running |-> u = t /\ state = "running",
                     current |-> u = t \/ (u = s /\ state = "stopped")]]
       /\ ticket = [u \in Servers |-> 0]
       /\ job = [j \in Jobs |->
              IF j = 4 THEN [Done("sync", s, "stopped") EXCEPT
                                !.subtask = TRUE, !.final = TRUE]
              ELSE IF j <= 3 THEN Done(<<"begin", "sync", "switch">>[j],
                                       s, "stopped")
              ELSE NoJob]
       /\ mode = [j \in Jobs |-> IF j <= 4 THEN "succeeded" ELSE "none"]
       /\ pc = [j \in Jobs |-> 0]
       /\ loc = [j \in Jobs |-> NoLocals]
       /\ used = [requests |-> 0, faults |-> 0, user |-> 0]

SpecSwitched == InitSwitched /\ [][Next]_vars

=============================================================================
