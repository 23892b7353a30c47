------------------------------- MODULE PollJob -------------------------------
(***************************************************************************)
(* waitForJob (lib/common/util.js), behind GET /jobs/:uuid/wait and the    *)
(* "sync" requests: each call polls the workflow API and has a handler on  *)
(* the listener, and is answered by whichever learns of the job's end      *)
(* first.                                                                  *)
(***************************************************************************)
EXTENDS WorkflowListener

CONSTANTS
    NoWfJob,        \* stands for the job of a wait that has not begun
    ErrorLimit,     \* the errors of getJob a wait gives up at (5)
    AttemptLimit,   \* the attempts after which it times out (720)
    MaxApiErrors    \* BOUND: errors of getJob over a behaviour

ASSUME PollAssumption ==
    /\ NoWfJob \notin WfJobs
    /\ ErrorLimit \in Nat \ {0} /\ AttemptLimit \in Nat \ {0}
    /\ MaxApiErrors \in Nat

VARIABLES
    exec,       \* the execution state of each job, in the workflow service
    on,         \* the job each wait is for
    poll,       \* its poll: off, asking, replied, or sleeping on the timer
    reply,      \* the reply to getJob that is to be handled
    attempts,   \* replies handled
    errors,     \* of which errors
    answer,     \* what the callback was called with; "thrown": it was not
    apiErrors   \* errors of getJob, so far

waitVars == <<on, poll, reply, attempts, errors, answer>>
vars == <<listenerVars, exec, waitVars, apiErrors>>

Finished == {"succeeded", "failed", "canceled"}

Init ==
    /\ ListenerInit
    /\ exec = [j \in WfJobs |-> "running"]
    /\ on = [w \in Waits |-> NoWfJob]
    /\ poll = [w \in Waits |-> "off"]
    /\ reply = [w \in Waits |-> "none"]
    /\ attempts = [w \in Waits |-> 0]
    /\ errors = [w \in Waits |-> 0]
    /\ answer = [w \in Waits |-> "none"]
    /\ apiErrors = 0

-----------------------------------------------------------------------------
(* The workflow service ends a job and notifies the listen calls that have *)
(* reached moray by then; other changes of a job are ignored by handlers.  *)
JobEnds(j) ==
    /\ exec[j] = "running"
    /\ \E state \in Finished : exec' = [exec EXCEPT ![j] = state]
    /\ inbox' \in {inbox} \cup IF listening THEN {Append(inbox, j)} ELSE {}
    /\ UNCHANGED <<handlers, listenerCount, listening, openCalls, idle, stale,
                   supported, listenErrors, waitVars, apiErrors>>

(* pollJob: the handler is added and the first poll made.                  *)
PollJob(w, j) ==
    /\ on[w] = NoWfJob
    /\ on' = [on EXCEPT ![w] = j]
    /\ OnListenerAdded(j, w)
    /\ poll' = [poll EXCEPT ![w] = "asking"]
    /\ UNCHANGED <<exec, reply, attempts, errors, answer, apiErrors>>

(* wfapi.getJob: the job as it is now, or an error.                        *)
WfapiReplies(w) ==
    /\ poll[w] = "asking"
    /\ poll' = [poll EXCEPT ![w] = "replied"]
    /\ \/ reply' = [reply EXCEPT ![w] = exec[on[w]]] /\ UNCHANGED apiErrors
       \/ /\ apiErrors < MaxApiErrors
          /\ apiErrors' = apiErrors + 1
          /\ reply' = [reply EXCEPT ![w] = "error"]
    /\ UNCHANGED <<listenerVars, exec, on, attempts, errors, answer>>

(* Mutant: the poll timer is not cleared.                                  *)
AnsweredKeepsTimer(gone, outcome) ==
    /\ answer' = [w \in Waits |-> IF w \in gone THEN outcome ELSE answer[w]]
    /\ poll' = [w \in Waits |-> IF w \in gone /\ poll[w] = "replied"
                                THEN "off" ELSE poll[w]]

(* cb: the callback, the handler and the poll timer of the waits that are  *)
(* answered; a poll that is under way goes on, to be ignored.              *)
Answered(gone, outcome) ==
    /\ answer' = [w \in Waits |-> IF w \in gone THEN outcome ELSE answer[w]]
    /\ poll' = [w \in Waits |-> IF w \in gone /\ poll[w] = "sleeping"
                                THEN "off" ELSE poll[w]]

-----------------------------------------------------------------------------
(* The reply to a poll.                                                    *)
Replied(w) == poll[w] = "replied" /\ reply' = [reply EXCEPT ![w] = "none"]

PollIgnored(w) ==
    /\ Replied(w) /\ answer[w] # "none"
    /\ poll' = [poll EXCEPT ![w] = "off"]
    /\ attempts' = [attempts EXCEPT ![w] = @ + 1]
    /\ UNCHANGED <<listenerVars, exec, on, errors, answer, apiErrors>>

(* Mutant: an error ends the polling.                                      *)
PollFailsStops(w) ==
    /\ Replied(w) /\ answer[w] = "none" /\ reply[w] = "error"
    /\ attempts' = [attempts EXCEPT ![w] = @ + 1]
    /\ errors' = [errors EXCEPT ![w] = @ + 1]
    /\ poll' = [poll EXCEPT ![w] = "off"]
    /\ UNCHANGED <<listenerVars, exec, on, answer, apiErrors>>

(* At the last error cb is called without a job, whose state it logs: it   *)
(* throws, the callback is not called and the handler is not removed.      *)
PollFails(w) ==
    /\ Replied(w) /\ answer[w] = "none" /\ reply[w] = "error"
    /\ attempts' = [attempts EXCEPT ![w] = @ + 1]
    /\ errors' = [errors EXCEPT ![w] = @ + 1]
    /\ IF errors'[w] >= ErrorLimit
       THEN /\ answer' = [answer EXCEPT ![w] = "thrown"]
            /\ poll' = [poll EXCEPT ![w] = "off"]
       ELSE /\ poll' = [poll EXCEPT ![w] = "sleeping"]
            /\ UNCHANGED answer
    /\ UNCHANGED <<listenerVars, exec, on, apiErrors>>

(* The job has ended, or there were too many attempts.                     *)
PollEnds(w) ==
    /\ Replied(w) /\ answer[w] = "none" /\ reply[w] # "error"
    /\ attempts' = [attempts EXCEPT ![w] = @ + 1]
    /\ reply[w] \in Finished \/ attempts'[w] > AttemptLimit
    /\ answer' = [answer EXCEPT ![w] = IF reply[w] \in Finished
                                       THEN reply[w] ELSE "timeout"]
    /\ poll' = [poll EXCEPT ![w] = "off"]
    /\ OnListenersRemoved(on[w], {w})
    /\ UNCHANGED <<callVars, exec, on, errors, apiErrors>>

PollGoesOn(w) ==
    /\ Replied(w) /\ answer[w] = "none" /\ reply[w] = "running"
    /\ attempts' = [attempts EXCEPT ![w] = @ + 1]
    /\ attempts'[w] <= AttemptLimit
    /\ poll' = [poll EXCEPT ![w] = "sleeping"]
    /\ UNCHANGED <<listenerVars, exec, on, errors, answer, apiErrors>>

PollTimerFires(w) ==
    /\ poll[w] = "sleeping"
    /\ poll' = [poll EXCEPT ![w] = "asking"]
    /\ UNCHANGED <<listenerVars, exec, on, reply, attempts, errors, answer,
                   apiErrors>>

-----------------------------------------------------------------------------
(* onNotification calls the handlers of the job with forEach.  One that is *)
(* called answers its wait and is removed from the array at once, so that  *)
(* the one behind it is not called; one whose wait threw does nothing.     *)
Called(h) ==
    CHOOSE C \in SUBSET DOMAIN h :
        \A i \in DOMAIN h :
            i \in C <=> ~(i - 1 \in C /\ answer[h[i - 1]] = "none")

(* Mutant: the handlers of every job are called.                           *)
NotifyEveryone(j) == {w \in Waits : on[w] # NoWfJob /\ answer[w] = "none"}

(* notificationHandler asserts that the job is its own; cb does nothing    *)
(* the second time it is called.                                           *)
Notified(j) ==
    {w \in Waits : /\ on[w] = j /\ answer[w] = "none"
                  /\ \E i \in Called(handlers[j]) : handlers[j][i] = w}

(* onReadable: the event carries the outcome of the job.                   *)
OnNotification ==
    /\ listening /\ inbox # <<>>
    /\ inbox' = Tail(inbox)
    /\ LET j == Head(inbox) IN /\ Answered(Notified(j), exec[j])
                               /\ OnListenersRemoved(j, Notified(j))
    /\ UNCHANGED <<listening, openCalls, supported, listenErrors, exec, on,
                   reply, attempts, errors, apiErrors>>

ListenerStep == ListenEnds \/ IdleTimerFires

(* Every wait has been answered: nothing has to happen any more.           *)
Idle == (\A w \in Waits : answer[w] # "none") /\ UNCHANGED vars

Next ==
    \/ \E j \in WfJobs : JobEnds(j) \/ \E w \in Waits : PollJob(w, j)
    \/ \E w \in Waits : \/ WfapiReplies(w) \/ PollIgnored(w) \/ PollFails(w)
                        \/ PollEnds(w) \/ PollGoesOn(w) \/ PollTimerFires(w)
    \/ OnNotification
    \/ ListenerStep /\ UNCHANGED <<exec, waitVars, apiErrors>>
    \/ Idle

Spec == Init /\ [][Next]_vars

(* The workflow API answers or the request to it times out, and timers     *)
(* fire.  That jobs end, or that notifications arrive, is not assumed.     *)
Fairness ==
    /\ \A w \in Waits :
          /\ WF_vars(WfapiReplies(w)) /\ WF_vars(PollTimerFires(w))
          /\ WF_vars(PollFails(w) \/ PollEnds(w) \/ PollGoesOn(w))
    /\ WF_vars(IdleTimerFires /\ UNCHANGED <<exec, waitVars, apiErrors>>)

FairSpec == Spec /\ Fairness

-----------------------------------------------------------------------------
TypeOK ==
    /\ ListenerTypeOK
    /\ exec \in [WfJobs -> Finished \cup {"running"}]
    /\ on \in [Waits -> WfJobs \cup {NoWfJob}]
    /\ poll \in [Waits -> {"off", "asking", "replied", "sleeping"}]
    /\ reply \in [Waits -> Finished \cup {"none", "running", "error"}]
    /\ attempts \in [Waits -> Nat]
    /\ errors \in [Waits -> 0 .. ErrorLimit]
    /\ answer \in [Waits -> Finished \cup {"none", "timeout", "thrown"}]
    /\ apiErrors \in 0 .. MaxApiErrors

(* The handlers are those of the waits without an answer, each once, and   *)
(* the count is theirs: it decides when the listen call is ended.          *)
HandlersAreWaits ==
    /\ \A j \in WfJobs, w \in Waits :
          Cardinality({i \in DOMAIN handlers[j] : handlers[j][i] = w}) =
              IF on[w] = j /\ answer[w] \in {"none", "thrown"} THEN 1 ELSE 0
    /\ listenerCount = Cardinality({w \in Waits : on[w] # NoWfJob /\
                                      answer[w] \in {"none", "thrown"}})

(* A wait without an answer is polled by one request or one timer, whether *)
(* a notification can come or not; one with an answer has no timer left.   *)
PolledUntilAnswered ==
    \A w \in Waits :
        /\ on[w] # NoWfJob /\ answer[w] = "none" => poll[w] # "off"
        /\ answer[w] # "none" => poll[w] # "sleeping"

(* moray serves no listen call but the one the listener still knows.       *)
NoListenLeft == openCalls = IF listening THEN 1 ELSE 0

(* Whoever is first, and whatever is lost, errs or comes twice, a wait is  *)
(* answered at most once, with the outcome its job has or as timed out.    *)
Promised == INSTANCE JobWait WITH
    answer <- [w \in Waits |-> IF answer[w] = "thrown" THEN "none"
                                                      ELSE answer[w]]
AnsweredAsPromised == Promised!Spec

(* Every wait is answered in the end, though its notification may be lost  *)
(* or skip its handler and its job may never end; but for one whose poll   *)
(* throws when the workflow API has failed once too often.                 *)
EveryWaitEnds ==
    \A w \in Waits : on[w] # NoWfJob ~> answer[w] # "none"

(* A listen call nobody needs is ended: the idle timer is set whenever the *)
(* last handler goes, by whichever way it goes.                            *)
ListenCallEnds == []<>(listenerCount > 0 \/ ~listening)

(* An idle timer never ends a listen call that handlers came back to, as   *)
(* long as moray has ended none: then the timer that is set is the one     *)
(* the next handler clears.  (Once moray has ended one it may, see README.)*)
KeptWhileWaited ==
    [][listening /\ ~listening' /\ listenerCount > 0 =>
           listenErrors' > 0]_vars

=============================================================================
