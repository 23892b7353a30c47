------------------------------- MODULE JobWait -------------------------------
(***************************************************************************)
(* What waitForJob promises its callers, however it learns of the job's    *)
(* end: one answer, the outcome of the job or that it took too long.       *)
(***************************************************************************)
EXTENDS FiniteSets

CONSTANTS WfJobs, Waits,
          NoWfJob   \* stands for the job of a wait that has not begun

VARIABLES exec,     \* the execution state of each job
          on,       \* the job each wait is for
          answer    \* what each wait was answered with

vars == <<exec, on, answer>>

Finished == {"succeeded", "failed", "canceled"}

Init == /\ exec = [j \in WfJobs |-> "running"]
        /\ on = [w \in Waits |-> NoWfJob]
        /\ answer = [w \in Waits |-> "none"]

JobEnds(j) == /\ exec[j] = "running"
              /\ \E state \in Finished : exec' = [exec EXCEPT ![j] = state]
              /\ UNCHANGED <<on, answer>>

Wait(w, j) == /\ on[w] = NoWfJob
              /\ on' = [on EXCEPT ![w] = j]
              /\ UNCHANGED <<exec, answer>>

(* One notification may answer several waits.                              *)
Answer == /\ \A w \in Waits : answer'[w] # answer[w] =>
                 /\ on[w] # NoWfJob /\ answer[w] = "none"
                 /\ \/ exec[on[w]] \in Finished /\ answer'[w] = exec[on[w]]
                    \/ answer'[w] = "timeout"
          /\ UNCHANGED <<exec, on>>

Next == \/ \E j \in WfJobs : JobEnds(j) \/ \E w \in Waits : Wait(w, j)
        \/ Answer

Spec == Init /\ [][Next]_vars

=============================================================================
