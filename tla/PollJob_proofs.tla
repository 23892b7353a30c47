--------------------------- MODULE PollJob_proofs ---------------------------
(***************************************************************************)
(* PollJob implements JobWait, for any number of jobs and waits and any    *)
(* limits.  What a wait is answered with comes from a reply or from a      *)
(* notification; both may be old when they are handled, which is harmless  *)
(* because an outcome, once there, stays.  That is the invariant: a reply  *)
(* that names an outcome names the job's, and only jobs that have ended    *)
(* are in the inbox.                                                       *)
(***************************************************************************)
EXTENDS PollJob, FiniteSetTheorems, TLAPS

Shape ==
    /\ exec \in [WfJobs -> Finished \cup {"running"}]
    /\ on \in [Waits -> WfJobs \cup {NoWfJob}]
    /\ poll \in [Waits -> {"off", "asking", "replied", "sleeping"}]
    /\ reply \in [Waits -> Finished \cup {"none", "running", "error"}]
    /\ answer \in [Waits -> Finished \cup {"none", "timeout", "thrown"}]
    /\ inbox \in Seq(WfJobs)

NotOff == \A w \in Waits : poll[w] # "off" => on[w] # NoWfJob
RepliesTrue ==
    \A w \in Waits : reply[w] \in Finished =>
        on[w] # NoWfJob /\ reply[w] = exec[on[w]]
InboxTrue == \A i \in 1 .. Len(inbox) : exec[inbox[i]] \in Finished

Inv == Shape /\ NotOff /\ RepliesTrue /\ InboxTrue

(* The outcome of a job that has ended is final.                           *)
Final == \A j \in WfJobs : exec[j] \in Finished => exec'[j] = exec[j]

LEMMA InitInv == Init => Inv
  BY PollAssumption DEF Init, ListenerInit, Inv, Shape, NotOff, RepliesTrue,
     InboxTrue, Finished

(* A step that changes neither the jobs nor the inbox, but for what the    *)
(* listener loses of it, keeps the inbox true.                             *)
LEMMA InboxKept ==
  ASSUME Inv, UNCHANGED exec,
         \/ inbox' = inbox \/ inbox' = <<>>
         \/ inbox # <<>> /\ inbox' = Tail(inbox)
  PROVE  inbox' \in Seq(WfJobs) /\ InboxTrue'
<1>1. CASE inbox' = inbox
  BY <1>1 DEF Inv, Shape, InboxTrue
<1>2. CASE inbox' = <<>>
  BY <1>2 DEF InboxTrue
<1>3. CASE inbox # <<>> /\ inbox' = Tail(inbox)
  <2>1. inbox \in Seq(WfJobs) /\ Len(inbox) > 0
    BY <1>3 DEF Inv, Shape
  <2>2. /\ inbox' \in Seq(WfJobs) /\ Len(inbox') = Len(inbox) - 1
        /\ \A i \in 1 .. Len(inbox') : inbox'[i] = inbox[i + 1]
    BY <2>1, <1>3
  <2>3. \A i \in 1 .. Len(inbox') : i + 1 \in 1 .. Len(inbox)
    BY <2>1, <2>2
  <2> QED
    BY <2>2, <2>3 DEF Inv, InboxTrue
<1> QED BY <1>1, <1>2, <1>3

LEMMA StepInv == Inv /\ [Next]_vars => Inv'
<1> SUFFICES ASSUME Inv, [Next]_vars PROVE Inv'
  OBVIOUS
<1> USE PollAssumption
<1>1. ASSUME NEW j \in WfJobs, JobEnds(j) PROVE Inv'
  <2>1. Final /\ exec' \in [WfJobs -> Finished \cup {"running"}]
    BY <1>1 DEF JobEnds, Final, Inv, Shape, Finished
  <2>2. inbox' \in Seq(WfJobs) /\ InboxTrue'
    <3>1. exec'[j] \in Finished
      BY <1>1 DEF JobEnds, Inv, Shape
    <3>2. CASE inbox' = inbox
      BY <3>2, <2>1 DEF Inv, Shape, InboxTrue, Final
    <3>3. CASE inbox' = Append(inbox, j)
      <4>1. /\ inbox' \in Seq(WfJobs) /\ Len(inbox') = Len(inbox) + 1
            /\ \A i \in 1 .. Len(inbox) : inbox'[i] = inbox[i]
            /\ inbox'[Len(inbox) + 1] = j
        BY <3>3 DEF Inv, Shape
      <4>2. \A i \in 1 .. Len(inbox) :
               inbox[i] \in WfJobs /\ exec[inbox[i]] \in Finished
        BY DEF Inv, Shape, InboxTrue
      <4>3. \A i \in 1 .. Len(inbox') : exec'[inbox'[i]] \in Finished
        BY <4>1, <4>2, <3>1, <2>1 DEF Final, Inv, Shape
      <4> QED BY <4>1, <4>3 DEF InboxTrue
    <3> QED BY <1>1, <3>2, <3>3 DEF JobEnds
  <2>3. NotOff' /\ RepliesTrue'
    BY <1>1, <2>1 DEF JobEnds, Inv, Shape, NotOff, RepliesTrue, Final,
       waitVars
  <2> QED
    BY <1>1, <2>1, <2>2, <2>3 DEF JobEnds, Inv, Shape, waitVars
<1>2. ASSUME NEW w \in Waits, NEW j \in WfJobs, PollJob(w, j) PROVE Inv'
  <2>1. inbox' = inbox
    BY <1>2 DEF PollJob, OnListenerAdded, callVars
  <2>2. UNCHANGED <<exec, reply, answer>>
    BY <1>2 DEF PollJob
  <2>3. Shape'
    BY <1>2, <2>1, <2>2 DEF PollJob, Inv, Shape
  <2>4. NotOff' /\ RepliesTrue'
    BY <1>2, <2>2 DEF PollJob, Inv, Shape, NotOff, RepliesTrue, Finished
  <2> QED BY <2>1, <2>2, <2>3, <2>4, InboxKept DEF Inv
<1>3. ASSUME NEW w \in Waits, WfapiReplies(w) PROVE Inv'
  <2>1. UNCHANGED <<exec, on, answer, inbox>>
    BY <1>3 DEF WfapiReplies, listenerVars
  <2>2. on[w] \in WfJobs
    BY <1>3 DEF WfapiReplies, Inv, Shape, NotOff
  <2>3. Shape'
    BY <1>3, <2>1, <2>2 DEF WfapiReplies, Inv, Shape, Finished
  <2>4. NotOff' /\ RepliesTrue'
    BY <1>3, <2>1, <2>2 DEF WfapiReplies, Inv, Shape, NotOff, RepliesTrue,
       Finished
  <2> QED BY <2>1, <2>3, <2>4, InboxKept DEF Inv
<1>4. ASSUME NEW w \in Waits,
             PollIgnored(w) \/ PollFails(w) \/ PollGoesOn(w) \/ PollEnds(w)
      PROVE  Inv'
  <2>1. UNCHANGED <<exec, on, inbox>>
    BY <1>4 DEF PollIgnored, PollFails, PollGoesOn, PollEnds, listenerVars,
       callVars
  <2>2. /\ poll[w] = "replied" /\ reply' = [reply EXCEPT ![w] = "none"]
        /\ poll' \in {[poll EXCEPT ![w] = "off"],
                      [poll EXCEPT ![w] = "sleeping"]}
    BY <1>4 DEF PollIgnored, PollFails, PollGoesOn, PollEnds, Replied
  <2>3. answer' \in [Waits -> Finished \cup {"none", "timeout", "thrown"}]
    BY <1>4 DEF PollIgnored, PollFails, PollGoesOn, PollEnds, Inv, Shape,
       Finished
  <2>4. Shape' /\ NotOff' /\ RepliesTrue'
    <3>1. /\ poll' \in [Waits -> {"off", "asking", "replied", "sleeping"}]
          /\ \A v \in Waits : poll'[v] # "off" => poll[v] # "off"
      BY <2>2 DEF Inv, Shape
    <3>2. /\ reply' \in [Waits -> Finished \cup {"none", "running", "error"}]
          /\ \A v \in Waits : reply'[v] \in {reply[v], "none"}
      BY <2>2 DEF Inv, Shape
    <3>3. Shape' /\ NotOff'
      BY <2>1, <2>3, <3>1, <3>2 DEF Inv, Shape, NotOff
    <3>4. RepliesTrue'
      BY <2>1, <3>2 DEF Inv, RepliesTrue, Finished
    <3> QED BY <3>3, <3>4
  <2> QED BY <2>1, <2>4, InboxKept DEF Inv
<1>5. ASSUME NEW w \in Waits, PollTimerFires(w) PROVE Inv'
  <2>1. UNCHANGED <<exec, on, reply, answer, inbox>>
    BY <1>5 DEF PollTimerFires, listenerVars
  <2>2. Shape' /\ NotOff' /\ RepliesTrue'
    BY <1>5, <2>1 DEF PollTimerFires, Inv, Shape, NotOff, RepliesTrue
  <2> QED BY <2>1, <2>2, InboxKept DEF Inv
<1>6. ASSUME OnNotification PROVE Inv'
  <2>1. /\ UNCHANGED <<exec, on, reply>>
        /\ inbox # <<>> /\ inbox' = Tail(inbox)
    BY <1>6 DEF OnNotification
  <2>2. exec[Head(inbox)] \in Finished
    BY <2>1 DEF Inv, Shape, InboxTrue
  <2>3. /\ answer' \in [Waits -> Finished \cup {"none", "timeout", "thrown"}]
        /\ poll' \in [Waits -> {"off", "asking", "replied", "sleeping"}]
        /\ \A w \in Waits : poll'[w] # "off" => poll[w] # "off"
    BY <1>6, <2>2 DEF OnNotification, Answered, Inv, Shape
  <2>4. inbox' \in Seq(WfJobs) /\ InboxTrue'
    BY <2>1, InboxKept
  <2>5. Shape' /\ NotOff' /\ RepliesTrue'
    BY <2>1, <2>3, <2>4 DEF Inv, Shape, NotOff, RepliesTrue
  <2> QED BY <2>4, <2>5 DEF Inv
<1>7. ASSUME ListenerStep /\ UNCHANGED <<exec, waitVars, apiErrors>> PROVE Inv'
  <2>1. UNCHANGED <<exec, on, poll, reply, answer>> /\ inbox' = <<>>
    BY <1>7 DEF ListenerStep, ListenEnds, IdleTimerFires,
       TeardownMorayListener, waitVars
  <2>2. inbox' \in Seq(WfJobs) /\ InboxTrue'
    BY <2>1, InboxKept
  <2> QED
    BY <2>1, <2>2 DEF Inv, Shape, NotOff, RepliesTrue
<1>8. CASE UNCHANGED vars
  BY <1>8 DEF vars, listenerVars, waitVars, Inv, Shape, NotOff, RepliesTrue,
     InboxTrue
<1> QED
  BY <1>1, <1>2, <1>3, <1>4, <1>5, <1>6, <1>7, <1>8 DEF Next, Idle

-----------------------------------------------------------------------------

LEMMA StepPromised == Inv /\ [Next]_vars => [Promised!Next]_(Promised!vars)
<1> SUFFICES ASSUME Inv, [Next]_vars
             PROVE  Promised!Next \/ UNCHANGED Promised!vars
  BY DEF Promised!vars
<1> USE DEF Promised!Next, Promised!vars, Promised!Finished
<1>1. ASSUME NEW j \in WfJobs, JobEnds(j) PROVE Promised!JobEnds(j)
  BY <1>1 DEF JobEnds, Promised!JobEnds, waitVars, Finished
<1>2. ASSUME NEW w \in Waits, NEW j \in WfJobs, PollJob(w, j)
      PROVE  Promised!Wait(w, j)
  BY <1>2 DEF PollJob, Promised!Wait
<1>3. ASSUME NEW w \in Waits,
             \/ WfapiReplies(w) \/ PollIgnored(w) \/ PollGoesOn(w)
             \/ PollTimerFires(w)
      PROVE  UNCHANGED Promised!vars
  BY <1>3 DEF WfapiReplies, PollIgnored, PollGoesOn, PollTimerFires
<1>4. ASSUME NEW w \in Waits, PollFails(w) PROVE UNCHANGED Promised!vars
  BY <1>4 DEF PollFails, Replied, Inv, Shape
<1>5. ASSUME NEW w \in Waits, PollEnds(w) PROVE Promised!Answer
  <2>1. /\ UNCHANGED <<exec, on>> /\ on[w] # NoWfJob
        /\ answer[w] = "none"
        /\ answer' = [answer EXCEPT ![w] = IF reply[w] \in Finished
                                           THEN reply[w] ELSE "timeout"]
        /\ reply[w] \in Finished => reply[w] = exec[on[w]]
    BY <1>5 DEF PollEnds, Replied, Inv, NotOff, RepliesTrue
  <2> QED
    BY <2>1 DEF Promised!Answer, Inv, Shape, Finished
<1>6. ASSUME OnNotification PROVE Promised!Answer
  <2>1. /\ UNCHANGED <<exec, on>> /\ Head(inbox) \in WfJobs
        /\ exec[Head(inbox)] \in Finished
    BY <1>6 DEF OnNotification, Inv, Shape, InboxTrue
  <2>2. answer' = [w \in Waits |-> IF w \in Notified(Head(inbox))
                                   THEN exec[Head(inbox)] ELSE answer[w]]
    BY <1>6 DEF OnNotification, Answered
  <2>3. \A w \in Notified(Head(inbox)) :
           on[w] = Head(inbox) /\ answer[w] = "none"
    BY DEF Notified
  <2> QED
    BY <2>1, <2>2, <2>3, PollAssumption
       DEF Promised!Answer, Finished, Inv, Shape
<1>7. ASSUME ListenerStep /\ UNCHANGED <<exec, waitVars, apiErrors>>
      PROVE  UNCHANGED Promised!vars
  BY <1>7 DEF waitVars
<1>8. CASE UNCHANGED vars
  BY <1>8 DEF vars, waitVars
<1> QED
  BY <1>1, <1>2, <1>3, <1>4, <1>5, <1>6, <1>7, <1>8 DEF Next, Idle

(* Every wait gets at most one answer, which is the outcome of its job or  *)
(* that it timed out, whichever of the poll and the notification is first. *)
THEOREM WaitsAreAnsweredAsPromised == Spec => AnsweredAsPromised
<1>1. Init => Promised!Init
  BY DEF Init, Promised!Init
<1> QED
  BY <1>1, InitInv, StepInv, StepPromised, PTL
     DEF Spec, AnsweredAsPromised, Promised!Spec

-----------------------------------------------------------------------------
(* The poll and the listen call: who is polled, which calls moray serves,  *)
(* and when one is ended.  The last rests on the count of handlers being   *)
(* that of the waits without an answer: as long as moray has ended no      *)
(* listen call, a handler means that there is a call, and a timer that is  *)
(* set that there is no handler.                                           *)

\* The waits with a handler
Listening == {w \in Waits : on[w] # NoWfJob /\ answer[w] \in {"none", "thrown"}}

Counted == IsFiniteSet(Listening) /\ listenerCount = Cardinality(Listening)

CallShape == /\ listening \in BOOLEAN /\ openCalls \in Nat
             /\ listenErrors \in Nat /\ stale \in Nat

\* The timer that is set is the one the next handler clears
Undisturbed ==
    listenErrors = 0 =>
        /\ supported /\ stale = 0
        /\ idle = "pending" => listening /\ listenerCount = 0
        /\ listenerCount # 0 => listening

\* A wait that has not begun has no answer
Begun == \A w \in Waits : on[w] = NoWfJob => answer[w] = "none"

PInv == Inv /\ Begun /\ CallShape /\ PolledUntilAnswered /\ NoListenLeft
        /\ Counted /\ Undisturbed

LEMMA InitPInv == Init => PInv
<1> SUFFICES ASSUME Init PROVE PInv
  OBVIOUS
<1>1. Inv
  BY InitInv
<1>2. CallShape /\ PolledUntilAnswered /\ NoListenLeft
  BY DEF Init, ListenerInit, CallShape, PolledUntilAnswered, NoListenLeft
<1>6. Begun
  BY DEF Init, Begun
<1>3. Listening = {}
  BY DEF Init, Listening
<1>4. Counted
  BY <1>3, FS_EmptySet DEF Counted, Init, ListenerInit
<1>5. Undisturbed
  BY DEF Init, ListenerInit, Undisturbed
<1> QED BY <1>1, <1>2, <1>4, <1>5, <1>6 DEF PInv

(* Handlers that go: the count goes down by as many, and the last of them  *)
(* sets the timer.                                                         *)
LEMMA GoneKeeps ==
  ASSUME PInv, NEW j, NEW gone \in SUBSET Listening,
         OnListenersRemoved(j, gone), Listening' = Listening \ gone,
         UNCHANGED <<listening, supported, listenErrors>>
  PROVE  Counted' /\ Undisturbed' /\ stale' \in Nat
<1>1. /\ IsFiniteSet(gone) /\ Cardinality(gone) \in Nat
      /\ gone # {} => Cardinality(gone) > 0
      /\ gone = {} => Cardinality(gone) = 0
  <2>1. IsFiniteSet(gone)
    BY FS_Subset DEF PInv, Counted
  <2> QED BY <2>1, FS_CardinalityType, FS_EmptySet
<1>2. /\ IsFiniteSet(Listening')
      /\ Cardinality(Listening') = Cardinality(Listening) - Cardinality(gone)
  <2>1. Listening \cap gone = gone
    OBVIOUS
  <2>2. /\ IsFiniteSet(Listening \ gone)
        /\ Cardinality(Listening \ gone) =
             Cardinality(Listening) - Cardinality(Listening \cap gone)
    BY FS_Difference DEF PInv, Counted
  <2> QED BY <2>1, <2>2
<1>3. Counted'
  BY <1>2 DEF PInv, Counted, OnListenersRemoved
<1>4. Cardinality(Listening) \in Nat /\ Cardinality(Listening') \in Nat
  BY <1>2, FS_CardinalityType DEF PInv, Counted
<1>5. /\ listenerCount \in Nat /\ listenerCount' \in Nat
      /\ listenerCount' = listenerCount - Cardinality(gone)
  BY <1>1, <1>2, <1>3, <1>4 DEF PInv, Counted
<1>6. stale' \in Nat
  BY DEF OnListenersRemoved, PInv, CallShape
<1>7. Undisturbed'
  <2> SUFFICES ASSUME listenErrors = 0 PROVE Undisturbed'
    BY DEF Undisturbed
  <2>0. /\ supported /\ stale = 0
        /\ idle = "pending" => listening /\ listenerCount = 0
        /\ listenerCount # 0 => listening
    BY DEF PInv, Undisturbed
  <2>1. CASE gone # {} /\ listenerCount' = 0
    <3>1. listenerCount # 0
      BY <2>1, <1>1, <1>5
    <3>2. idle # "pending" /\ listening
      BY <3>1, <2>0
    <3>3. idle' = "pending" /\ stale' = stale
      BY <2>1, <3>2 DEF OnListenersRemoved
    <3> QED BY <2>0, <2>1, <3>2, <3>3 DEF Undisturbed
  <2>2. CASE ~(gone # {} /\ listenerCount' = 0)
    <3>1. UNCHANGED <<idle, stale>>
      BY <2>2 DEF OnListenersRemoved
    <3>2. listenerCount' # 0 => listenerCount # 0
      BY <1>1, <1>5
    <3>3. listenerCount = 0 => listenerCount' = 0
      BY <1>1, <1>5
    <3> QED BY <2>0, <3>1, <3>2, <3>3 DEF Undisturbed
  <2> QED BY <2>1, <2>2
<1> QED BY <1>3, <1>6, <1>7

(* Steps that leave the listener alone.                                    *)
LEMMA ListenerAlone ==
  ASSUME PInv, UNCHANGED listenerVars, Listening' = Listening
  PROVE  CallShape' /\ NoListenLeft' /\ Counted' /\ Undisturbed'
  BY DEF PInv, listenerVars, CallShape, NoListenLeft, Counted, Undisturbed

LEMMA StepBegun ==
  ASSUME Inv, Begun, [Next]_vars PROVE Begun'
<1> USE PollAssumption
<1>1. ASSUME NEW w \in Waits,
             PollFails(w) \/ PollEnds(w) \/ PollIgnored(w) \/ PollGoesOn(w)
      PROVE  Begun'
  <2>1. on[w] # NoWfJob /\ UNCHANGED on
        /\ \A v \in Waits : v # w => answer'[v] = answer[v]
    BY <1>1 DEF PollFails, PollEnds, PollIgnored, PollGoesOn, Replied, Inv,
       NotOff, Shape
  <2> QED BY <2>1 DEF Begun
<1>2. ASSUME OnNotification PROVE Begun'
  <2>1. Head(inbox) \in WfJobs /\ UNCHANGED on
    BY <1>2 DEF OnNotification, Inv, Shape
  <2>2. \A w \in Waits : on[w] = NoWfJob => answer'[w] = answer[w]
    BY <1>2, <2>1 DEF OnNotification, Answered, Notified
  <2> QED BY <2>1, <2>2 DEF Begun
<1>3. ASSUME NEW w \in Waits, NEW j \in WfJobs, PollJob(w, j) PROVE Begun'
  BY <1>3 DEF PollJob, Begun, Inv, Shape
<1>4. CASE UNCHANGED <<on, answer>>
  BY <1>4 DEF Begun
<1> QED
  BY <1>1, <1>2, <1>3, <1>4
     DEF Next, JobEnds, WfapiReplies, PollTimerFires, ListenerStep, Idle, vars,
         waitVars

LEMMA StepPInv == PInv /\ [Next]_vars => PInv'
<1> SUFFICES ASSUME PInv, [Next]_vars PROVE PInv'
  OBVIOUS
<1> USE PollAssumption
<1>0. Inv /\ Inv' /\ Begun'
  BY StepInv, StepBegun DEF PInv
<1>1. ASSUME NEW j \in WfJobs, JobEnds(j) PROVE PInv'
  <2>1. /\ UNCHANGED <<listenerCount, listening, openCalls, idle, stale>>
        /\ UNCHANGED <<supported, listenErrors, on, answer, poll>>
    BY <1>1 DEF JobEnds, waitVars
  <2>2. Listening' = Listening
    BY <2>1 DEF Listening
  <2> QED
    BY <1>0, <2>1, <2>2 DEF PInv, CallShape, PolledUntilAnswered, NoListenLeft,
       Counted, Undisturbed
<1>2. ASSUME NEW w \in Waits, NEW j \in WfJobs, PollJob(w, j) PROVE PInv'
  <2>1. /\ UNCHANGED answer /\ on[w] = NoWfJob
        /\ on' = [on EXCEPT ![w] = j] /\ poll' = [poll EXCEPT ![w] = "asking"]
        /\ OnListenerAdded(j, w)
    BY <1>2 DEF PollJob
  <2>2. PolledUntilAnswered'
    BY <1>0, <2>1 DEF PInv, PolledUntilAnswered, Inv, Shape
  <2>3. CallShape' /\ NoListenLeft'
    <3>1. /\ UNCHANGED <<stale, listenErrors>>
          /\ \/ UNCHANGED <<listening, openCalls>>
             \/ ~listening /\ listening' = TRUE /\ openCalls' = openCalls + 1
      <4>1. CASE listenerCount = 0 /\ ~listening /\ supported
        BY <2>1, <4>1 DEF OnListenerAdded
      <4>2. CASE ~(listenerCount = 0 /\ ~listening /\ supported)
        <5>1. UNCHANGED <<callVars, stale>>
          BY <2>1, <4>2 DEF OnListenerAdded
        <5> QED BY <5>1 DEF callVars
      <4> QED BY <4>1, <4>2
    <3>2. /\ listening \in BOOLEAN /\ openCalls \in Nat
          /\ listenErrors \in Nat /\ stale \in Nat
          /\ openCalls = IF listening THEN 1 ELSE 0
      BY DEF PInv, CallShape, NoListenLeft
    <3>3. CASE UNCHANGED <<listening, openCalls>>
      BY <3>1, <3>2, <3>3 DEF CallShape, NoListenLeft
    <3>4. CASE ~listening /\ listening' = TRUE /\ openCalls' = openCalls + 1
      <4>1. openCalls' = 1
        BY <3>2, <3>4
      <4>2. stale' \in Nat /\ listenErrors' \in Nat
        BY <3>1, <3>2
      <4> QED BY <3>4, <4>1, <4>2 DEF CallShape, NoListenLeft
    <3> QED BY <3>1, <3>3, <3>4
  <2>4. answer[w] = "none"
    BY <2>1 DEF PInv, Begun
  <2>5. Listening' = Listening \cup {w} /\ w \notin Listening
    BY <1>0, <2>1, <2>4 DEF Listening, Inv, Shape
  <2>6. /\ IsFiniteSet(Listening')
        /\ Cardinality(Listening') = Cardinality(Listening) + 1
    BY <2>5, FS_AddElement DEF PInv, Counted
  <2>7. Counted'
    BY <2>1, <2>6 DEF PInv, Counted, OnListenerAdded
  <2>8. listenerCount \in Nat /\ listenerCount' = listenerCount + 1
    BY <2>1, FS_CardinalityType DEF PInv, Counted, OnListenerAdded
  <2>9. Undisturbed'
    <3> SUFFICES ASSUME listenErrors' = 0 PROVE Undisturbed'
      BY DEF Undisturbed
    <3>0. listenErrors = 0 /\ stale' = stale /\ supported' = supported
      BY <2>1 DEF OnListenerAdded, callVars
    <3>1. /\ supported /\ stale = 0
          /\ idle = "pending" => listening /\ listenerCount = 0
          /\ listenerCount # 0 => listening
      BY <3>0 DEF PInv, Undisturbed
    <3>2. listening' /\ idle' # "pending"
      BY <2>1, <3>1 DEF OnListenerAdded, callVars
    <3> QED BY <3>0, <3>1, <3>2 DEF Undisturbed
  <2> QED BY <1>0, <2>2, <2>3, <2>7, <2>9 DEF PInv
<1>3. ASSUME NEW w \in Waits, WfapiReplies(w) \/ PollTimerFires(w) PROVE PInv'
  <2>1. UNCHANGED <<on, answer>> /\ UNCHANGED listenerVars
    BY <1>3 DEF WfapiReplies, PollTimerFires
  <2>2. PolledUntilAnswered'
    BY <1>0, <1>3, <2>1
       DEF PInv, PolledUntilAnswered, Inv, Shape, WfapiReplies, PollTimerFires
  <2>3. Listening' = Listening
    BY <2>1 DEF Listening
  <2> QED BY <1>0, <2>1, <2>2, <2>3, ListenerAlone DEF PInv
<1>4. ASSUME NEW w \in Waits, PollIgnored(w) \/ PollFails(w) \/ PollGoesOn(w)
      PROVE  PInv'
  <2>1. UNCHANGED on /\ UNCHANGED listenerVars
    BY <1>4 DEF PollIgnored, PollFails, PollGoesOn
  <2>2. PolledUntilAnswered'
    BY <1>0, <1>4, <2>1 DEF PInv, PolledUntilAnswered, Inv, Shape, PollIgnored,
       PollFails, PollGoesOn
  <2>3. answer' = answer \/ (answer[w] = "none"
                             /\ answer' = [answer EXCEPT ![w] = "thrown"])
    BY <1>4 DEF PollIgnored, PollFails, PollGoesOn
  <2>4. Listening' = Listening
    BY <1>0, <2>1, <2>3 DEF Listening, Inv, Shape
  <2> QED BY <1>0, <2>1, <2>2, <2>4, ListenerAlone DEF PInv
<1>5. ASSUME NEW w \in Waits, PollEnds(w) PROVE PInv'
  <2>1. /\ UNCHANGED on /\ UNCHANGED callVars
        /\ answer[w] = "none" /\ poll[w] = "replied"
        /\ answer' = [answer EXCEPT ![w] = IF reply[w] \in Finished
                                           THEN reply[w] ELSE "timeout"]
        /\ poll' = [poll EXCEPT ![w] = "off"]
        /\ OnListenersRemoved(on[w], {w})
    BY <1>5 DEF PollEnds, Replied
  <2>2. PolledUntilAnswered'
    BY <1>0, <2>1 DEF PInv, PolledUntilAnswered, Inv, Shape, Finished
  <2>3. on[w] # NoWfJob
    BY <1>0, <2>1 DEF Inv, NotOff
  <2>4. {w} \in SUBSET Listening /\ Listening' = Listening \ {w}
    BY <1>0, <2>1, <2>3 DEF Listening, Inv, Shape, Finished
  <2>5. Counted' /\ Undisturbed' /\ stale' \in Nat
    BY <2>1, <2>4, GoneKeeps DEF callVars
  <2>6. CallShape' /\ NoListenLeft'
    BY <2>1, <2>5 DEF PInv, CallShape, NoListenLeft, callVars
  <2> QED BY <1>0, <2>2, <2>5, <2>6 DEF PInv
<1>6. ASSUME OnNotification PROVE PInv'
  <2> DEFINE j == Head(inbox)
             gone == Notified(j)
  <2>1. /\ UNCHANGED <<on, listening, openCalls, supported, listenErrors>>
        /\ inbox # << >>
        /\ Answered(gone, exec[j]) /\ OnListenersRemoved(j, gone)
    BY <1>6 DEF OnNotification
  <2>2. j \in WfJobs /\ exec[j] \in Finished
    BY <1>0, <2>1 DEF Inv, Shape, InboxTrue
  <2>3. \A w \in gone : w \in Waits /\ on[w] = j /\ answer[w] = "none"
    BY DEF Notified
  <2> HIDE DEF gone, j
  <2>4. PolledUntilAnswered'
    BY <1>0, <2>1, <2>2, <2>3
       DEF PInv, PolledUntilAnswered, Answered, Inv, Shape, Finished
  <2>5. gone \in SUBSET Listening
    BY <2>2, <2>3 DEF Listening
  <2>6. Listening' = Listening \ gone
    BY <1>0, <2>1, <2>2, <2>3 DEF Listening, Answered, Inv, Shape, Finished
  <2>7. Counted' /\ Undisturbed' /\ stale' \in Nat
    BY <2>1, <2>5, <2>6, GoneKeeps
  <2>8. CallShape' /\ NoListenLeft'
    BY <2>1, <2>7 DEF PInv, CallShape, NoListenLeft
  <2> QED BY <1>0, <2>4, <2>7, <2>8 DEF PInv
<1>7. ASSUME ListenerStep /\ UNCHANGED <<exec, waitVars, apiErrors>>
      PROVE  PInv'
  <2>1. UNCHANGED <<on, answer, poll, listenerCount>>
    BY <1>7 DEF waitVars, ListenerStep, ListenEnds, IdleTimerFires
  <2>2. Listening' = Listening
    BY <2>1 DEF Listening
  <2>3. PolledUntilAnswered' /\ Counted'
    BY <2>1, <2>2 DEF PInv, PolledUntilAnswered, Counted
  <2>4. CallShape' /\ NoListenLeft'
    <3>1. TeardownMorayListener
      BY <1>7 DEF ListenerStep, ListenEnds, IdleTimerFires
    <3>2. stale' \in Nat /\ listenErrors' \in Nat
      <4>1. stale \in Nat /\ listenErrors \in Nat
        BY DEF PInv, CallShape
      <4>2. \/ stale' = stale
            \/ stale > 0 /\ stale' = stale - 1
        BY <1>7 DEF ListenerStep, ListenEnds, IdleTimerFires
      <4>3. listenErrors' \in {listenErrors, listenErrors + 1}
        BY <1>7 DEF ListenerStep, ListenEnds, IdleTimerFires
      <4> QED BY <4>1, <4>2, <4>3
    <3>3. listening' = FALSE /\ openCalls' = 0
      BY <3>1 DEF TeardownMorayListener, PInv, NoListenLeft, CallShape
    <3> QED BY <3>2, <3>3 DEF CallShape, NoListenLeft
  <2>5. Undisturbed'
    <3>1. CASE ListenEnds
      <4>1. listenErrors' # 0
        BY <3>1 DEF ListenEnds, PInv, CallShape
      <4> QED BY <4>1 DEF Undisturbed
    <3>2. CASE IdleTimerFires
      BY <2>1, <3>2 DEF PInv, Undisturbed, CallShape, IdleTimerFires,
         TeardownMorayListener
    <3> QED BY <1>7, <3>1, <3>2 DEF ListenerStep
  <2> QED BY <1>0, <2>3, <2>4, <2>5 DEF PInv
<1>8. CASE UNCHANGED vars
  <2>1. Listening' = Listening /\ UNCHANGED listenerVars
    BY <1>8 DEF vars, waitVars, Listening
  <2>2. PolledUntilAnswered'
    BY <1>8 DEF vars, waitVars, PInv, PolledUntilAnswered
  <2> QED BY <1>0, <2>1, <2>2, ListenerAlone DEF PInv
<1> QED
  BY <1>1, <1>2, <1>3, <1>4, <1>5, <1>6, <1>7, <1>8 DEF Next, Idle

-----------------------------------------------------------------------------
(* A wait without an answer has a poll or its timer, whatever the listener *)
(* does, and one with an answer has no timer.                              *)
THEOREM WaitsArePolled == Spec => []PolledUntilAnswered
<1>1. PInv => PolledUntilAnswered
  BY DEF PInv
<1> QED BY <1>1, InitPInv, StepPInv, PTL DEF Spec

(* moray serves the listen call that the listener knows, and no other.     *)
THEOREM OneListenCall == Spec => []NoListenLeft
<1>1. PInv => NoListenLeft
  BY DEF PInv
<1> QED BY <1>1, InitPInv, StepPInv, PTL DEF Spec

LEMMA StepKept ==
  PInv /\ PInv' /\ [Next]_vars =>
      [listening /\ ~listening' /\ listenerCount > 0 => listenErrors' > 0]_vars
<1> SUFFICES ASSUME PInv, PInv', [Next]_vars,
                    listening /\ ~listening' /\ listenerCount > 0,
                    listenErrors' = 0
             PROVE  FALSE
  BY DEF PInv, CallShape
<1>1. ListenEnds \/ IdleTimerFires
  BY DEF Next, JobEnds, PollJob, OnListenerAdded, WfapiReplies, PollIgnored,
     PollFails, PollEnds, PollGoesOn, PollTimerFires, OnNotification, Idle,
     ListenerStep, vars, listenerVars, callVars
<1>2. CASE ListenEnds
  BY <1>2 DEF ListenEnds, PInv, CallShape
<1>3. CASE IdleTimerFires
  <2>1. listenErrors = 0
    BY <1>3 DEF IdleTimerFires
  <2>2. stale = 0 /\ idle # "pending"
    BY <2>1 DEF PInv, Undisturbed
  <2> QED BY <1>3, <2>2 DEF IdleTimerFires
<1> QED BY <1>1, <1>2, <1>3

(* As long as moray has ended none, a listen call is not ended while there *)
(* are handlers: the timer that is set is the one that is cleared.         *)
THEOREM ListenCallKept == Spec => KeptWhileWaited
<1>1. Spec => []PInv
  BY InitPInv, StepPInv, PTL DEF Spec
<1> QED BY <1>1, StepKept, PTL DEF Spec, KeptWhileWaited

-----------------------------------------------------------------------------
(* The handlers: each wait without an answer has one, in the array of its  *)
(* job, and nobody else has.  That is more than their number, which is all *)
(* the listener counts.                                                    *)

Has(h, w) == \E i \in DOMAIN h : h[i] = w

(* How many of a set of positions come up to one of them tells them apart, *)
(* so that every number up to theirs is that of one: the positions kept    *)
(* have an order, without a recursion that follows it.                     *)
LEMMA PlacesAre ==
  ASSUME NEW kept, IsFiniteSet(kept), kept \subseteq Nat
  PROVE  LET Place(i) == Cardinality({k \in kept : k <= i})
         IN  /\ \A i \in kept : Place(i) \in 1 .. Cardinality(kept)
             /\ \A i, k \in kept : Place(i) = Place(k) => i = k
             /\ \A n \in 1 .. Cardinality(kept) :
                  \E i \in kept : Place(i) = n
<1> DEFINE UpTo(i) == {k \in kept : k <= i}
           Place(i) == Cardinality(UpTo(i))
           size == Cardinality(kept)
<1>1. size \in Nat
  BY FS_CardinalityType
<1>2. ASSUME NEW i \in kept PROVE IsFiniteSet(UpTo(i)) /\ Place(i) \in 1 .. size
  <2>1. IsFiniteSet(UpTo(i)) /\ Place(i) <= size
    BY FS_Subset
  <2>2. UpTo(i) # {} /\ Place(i) \in Nat
    BY <2>1, FS_CardinalityType
  <2>3. Place(i) # 0
    BY <2>1, <2>2, FS_EmptySet
  <2> QED BY <1>1, <2>1, <2>2, <2>3
<1>3. ASSUME NEW i \in kept, NEW k \in kept, Place(i) = Place(k), i < k
      PROVE  FALSE
  <2>1. UpTo(i) \in SUBSET UpTo(k)
    <3>1. ASSUME NEW m \in kept, m <= i PROVE m <= k
      <4>1. m \in Nat /\ i \in Nat /\ k \in Nat
        OBVIOUS
      <4> QED BY <1>3, <3>1, <4>1
    <3> QED BY <3>1
  <2>2. UpTo(k) = UpTo(i)
    BY <1>2, <1>3, <2>1, FS_Subset
  <2>3. k \in UpTo(k) /\ k \notin UpTo(i)
    BY <1>3
  <2> QED BY <2>2, <2>3
<1>4. ASSUME NEW i \in kept, NEW k \in kept, Place(i) = Place(k) PROVE i = k
  <2>1. i \in Nat /\ k \in Nat
    OBVIOUS
  <2>2. ~(i < k) /\ ~(k < i)
    BY <1>3, <1>4
  <2> QED BY <2>1, <2>2
<1> DEFINE f == [i \in kept |-> Place(i)]
<1>5. f \in Injection(kept, 1 .. size)
  <2>1. f \in [kept -> 1 .. size]
    BY <1>2
  <2>2. \A i, k \in kept : f[i] = f[k] => i = k
    BY <1>4
  <2> HIDE DEF f
  <2> QED BY <2>1, <2>2 DEF Injection, IsInjective
<1>6. IsFiniteSet(1 .. size) /\ Cardinality(1 .. size) = size
  BY <1>1, FS_Interval
<1>7. f \in Surjection(kept, 1 .. size)
  <2> HIDE DEF f
  <2> QED BY <1>5, <1>6, FS_Injection
<1>8. \A n \in 1 .. size : \E i \in kept : Place(i) = n
  BY <1>7 DEF Surjection
<1> HIDE DEF Place, size
<1> QED BY <1>2, <1>4, <1>8 DEF Place, size, UpTo

(* Without keeps the others, each as often as it was there if that was     *)
(* once at most.                                                           *)
LEMMA WithoutKeeps ==
  ASSUME NEW h \in Seq(Waits), IsInjective(h), NEW gone
  PROVE  /\ Without(h, gone) \in Seq(Waits) /\ IsInjective(Without(h, gone))
         /\ \A w : Has(Without(h, gone), w) <=> Has(h, w) /\ w \notin gone
<1> DEFINE kept == {i \in DOMAIN h : h[i] \notin gone}
           Place(i) == Cardinality({k \in kept : k <= i})
           size == Cardinality(kept)
           at(n) == CHOOSE i \in kept : Place(i) = n
           left == [n \in 1 .. size |-> h[at(n)]]
<1>1. /\ DOMAIN h = 1 .. Len(h) /\ Len(h) \in Nat
      /\ \A i \in DOMAIN h : h[i] \in Waits
  OBVIOUS
<1>2. IsFiniteSet(kept) /\ kept \subseteq Nat
  <2>1. IsFiniteSet(1 .. Len(h))
    BY <1>1, FS_Interval
  <2>2. kept \in SUBSET (1 .. Len(h))
    BY <1>1
  <2> QED BY <2>1, <2>2, FS_Subset
<1>3. /\ \A i \in kept : Place(i) \in 1 .. size
      /\ \A i, k \in kept : Place(i) = Place(k) => i = k
      /\ \A n \in 1 .. size : \E i \in kept : Place(i) = n
  <2> HIDE DEF kept
  <2> QED BY <1>2, PlacesAre
<1>4. Without(h, gone) = left
  BY DEF Without
<1>5. size \in Nat
  BY <1>2, FS_CardinalityType
<1> HIDE DEF Place, size
<1>6. \A n \in 1 .. size : at(n) \in kept /\ Place(at(n)) = n
  BY <1>3
<1> HIDE DEF at
<1>7. \A i \in kept : at(Place(i)) = i
  BY <1>3, <1>6
<1>8. left \in Seq(Waits) /\ DOMAIN left = 1 .. size
  <2>1. \A n \in 1 .. size : h[at(n)] \in Waits
    BY <1>1, <1>6
  <2> QED BY <1>5, <2>1
<1>9. \A n \in 1 .. size : left[n] = h[at(n)]
  OBVIOUS
<1>10. IsInjective(left)
  <2> SUFFICES ASSUME NEW n \in 1 .. size, NEW m \in 1 .. size,
                      left[n] = left[m]
               PROVE  n = m
    BY <1>8 DEF IsInjective
  <2>1. at(n) = at(m)
    BY <1>6, <1>9 DEF IsInjective
  <2> QED BY <1>6, <2>1
<1>11. ASSUME NEW w PROVE Has(left, w) <=> Has(h, w) /\ w \notin gone
  <2>1. ASSUME Has(left, w) PROVE Has(h, w) /\ w \notin gone
    BY <1>6, <1>8, <1>9, <2>1 DEF Has
  <2>2. ASSUME Has(h, w), w \notin gone PROVE Has(left, w)
    <3>1. PICK i \in kept : h[i] = w
      BY <2>2 DEF Has
    <3>2. Place(i) \in 1 .. size /\ left[Place(i)] = w
      BY <1>3, <1>7, <1>9, <3>1
    <3> QED BY <1>8, <3>2 DEF Has
  <2> QED BY <2>1, <2>2
<1> QED BY <1>4, <1>8, <1>10, <1>11

(* The handlers of a job are those of its waits without an answer.         *)
Waiting(j, w) == on[w] = j /\ answer[w] \in {"none", "thrown"}

HandlersOK ==
    /\ handlers \in [WfJobs -> Seq(Waits)]
    /\ \A j \in WfJobs : /\ IsInjective(handlers[j])
                         /\ \A w \in Waits : Has(handlers[j], w) <=> Waiting(j, w)

\* What is counted of a wait, up to the errors at which it gives up
Tallies ==
    /\ attempts \in [Waits -> Nat] /\ errors \in [Waits -> 0 .. ErrorLimit]
    /\ \A w \in Waits : answer[w] = "none" => errors[w] < ErrorLimit
    /\ apiErrors \in 0 .. MaxApiErrors
    /\ idle \in {"unset", "pending", "fired"} /\ supported \in BOOLEAN
    /\ listenErrors \in 0 .. MaxListenErrors

HInv == PInv /\ HandlersOK /\ Tallies

LEMMA InitHInv == Init => HInv
<1> SUFFICES ASSUME Init PROVE HInv
  OBVIOUS
<1>1. HandlersOK
  BY PollAssumption DEF Init, ListenerInit, HandlersOK, Has, Waiting, IsInjective
<1>2. Tallies
  BY PollAssumption, ListenerAssumption DEF Init, ListenerInit, Tallies
<1> QED BY <1>1, <1>2, InitPInv DEF HInv

(* Some waits of a job are answered and their handlers go.                 *)
LEMMA HandlersGo ==
  ASSUME HandlersOK, NEW j \in WfJobs, NEW gone \in SUBSET Waits,
         handlers' = [handlers EXCEPT ![j] = Without(@, gone)],
         UNCHANGED on,
         \A w \in gone : on[w] = j /\ answer'[w] \notin {"none", "thrown"},
         \A w \in Waits \ gone : answer'[w] = answer[w]
  PROVE  HandlersOK'
<1>1. handlers[j] \in Seq(Waits) /\ IsInjective(handlers[j])
  BY DEF HandlersOK
<1> DEFINE left == Without(handlers[j], gone)
<1>2. /\ left \in Seq(Waits) /\ IsInjective(left)
      /\ \A w : Has(left, w) <=> Has(handlers[j], w) /\ w \notin gone
  BY <1>1, WithoutKeeps
<1> HIDE DEF left
<1>3. /\ handlers' \in [WfJobs -> Seq(Waits)]
      /\ handlers'[j] = left
      /\ \A k \in WfJobs : k # j => handlers'[k] = handlers[k]
  BY <1>2 DEF HandlersOK, left
<1>4. ASSUME NEW k \in WfJobs, NEW w \in Waits
      PROVE  Waiting(k, w)' <=> Waiting(k, w) /\ w \notin gone
  BY DEF Waiting
<1>5. ASSUME NEW k \in WfJobs
      PROVE  /\ IsInjective(handlers'[k])
             /\ \A w \in Waits : Has(handlers'[k], w) <=> Waiting(k, w)'
  <2>1. CASE k = j
    BY <1>2, <1>3, <1>4, <2>1 DEF HandlersOK
  <2>2. CASE k # j
    <3>1. handlers'[k] = handlers[k] /\ IsInjective(handlers[k])
      BY <1>3, <2>2 DEF HandlersOK
    <3>2. \A w \in Waits : Waiting(k, w)' <=> Waiting(k, w)
      BY <1>4, <2>2 DEF Waiting
    <3> QED BY <3>1, <3>2 DEF HandlersOK
  <2> QED BY <2>1, <2>2
<1> QED BY <1>3, <1>5 DEF HandlersOK

LEMMA HandlersStay ==
  ASSUME HandlersOK, UNCHANGED <<handlers, on>>,
         \A w \in Waits : answer'[w] \in {"none", "thrown"}
                            <=> answer[w] \in {"none", "thrown"}
  PROVE  HandlersOK'
  BY DEF HandlersOK, Waiting

LEMMA StepHandlers ==
  ASSUME PInv, HandlersOK, [Next]_vars PROVE HandlersOK'
<1> USE PollAssumption
<1>0. Inv /\ Begun
  BY DEF PInv
<1>1. ASSUME NEW w \in Waits, NEW j \in WfJobs, PollJob(w, j)
      PROVE  HandlersOK'
  <2>1. /\ on[w] = NoWfJob /\ on' = [on EXCEPT ![w] = j] /\ UNCHANGED answer
        /\ handlers' = [handlers EXCEPT ![j] = Append(@, w)]
    BY <1>1 DEF PollJob, OnListenerAdded
  <2>2. answer[w] = "none" /\ j # NoWfJob /\ on[w] # j
    BY <1>0, <2>1 DEF Begun
  <2>3. /\ handlers[j] \in Seq(Waits) /\ IsInjective(handlers[j])
        /\ ~Has(handlers[j], w)
    BY <2>2 DEF HandlersOK, Waiting
  <2> DEFINE h == handlers[j]
             more == Append(h, w)
  <2>4. /\ more \in Seq(Waits) /\ Len(h) \in Nat
        /\ DOMAIN h = 1 .. Len(h) /\ DOMAIN more = 1 .. Len(h) + 1
        /\ \A i \in 1 .. Len(h) : more[i] = h[i]
        /\ more[Len(h) + 1] = w
    BY <2>3
  <2>5. /\ handlers' \in [WfJobs -> Seq(Waits)] /\ handlers'[j] = more
        /\ \A k \in WfJobs : k # j => handlers'[k] = handlers[k]
    BY <2>1, <2>4 DEF HandlersOK
  <2> HIDE DEF more, h
  <2>6. IsInjective(more)
    <3>1. \A i \in 1 .. Len(h) : h[i] # w
      BY <2>3, <2>4 DEF Has, h
    <3>2. \A i, k \in 1 .. Len(h) : h[i] = h[k] => i = k
      BY <2>3, <2>4 DEF IsInjective, h
    <3>3. \A i, k \in 1 .. Len(h) + 1 : more[i] = more[k] => i = k
      BY <2>4, <3>1, <3>2
    <3> QED BY <2>4, <3>3 DEF IsInjective
  <2>7. \A v : Has(more, v) <=> Has(h, v) \/ v = w
    <3>1. \A i : i \in 1 .. Len(h) + 1 <=> i \in 1 .. Len(h) \/ i = Len(h) + 1
      BY <2>4
    <3> QED BY <2>4, <3>1 DEF Has
  <2>8. /\ on'[w] = j
        /\ \A v \in Waits : v # w => on'[v] = on[v]
    BY <1>0, <2>1 DEF Inv, Shape
  <2>9. ASSUME NEW k \in WfJobs
        PROVE  /\ IsInjective(handlers'[k])
               /\ \A v \in Waits : Has(handlers'[k], v) <=> Waiting(k, v)'
    <3>1. CASE k = j
      <4>1. \A v \in Waits : Has(h, v) <=> Waiting(j, v)
        BY DEF HandlersOK, h
      <4>2. Waiting(j, w)'
        BY <2>1, <2>2, <2>8 DEF Waiting
      <4>3. \A v \in Waits : v # w => (Waiting(j, v)' <=> Waiting(j, v))
        BY <2>1, <2>8 DEF Waiting
      <4> QED BY <2>5, <2>6, <2>7, <3>1, <4>1, <4>2, <4>3
    <3>2. CASE k # j
      BY <2>1, <2>5, <2>8, <3>2 DEF HandlersOK, Waiting
    <3> QED BY <3>1, <3>2
  <2> QED BY <2>5, <2>9 DEF HandlersOK
<1>2. ASSUME NEW w \in Waits, PollEnds(w) PROVE HandlersOK'
  <2>1. /\ UNCHANGED on /\ on[w] \in WfJobs
        /\ handlers' = [handlers EXCEPT ![on[w]] = Without(@, {w})]
    BY <1>0, <1>2 DEF PollEnds, OnListenersRemoved, Replied, Inv, NotOff, Shape
  <2>2. /\ answer'[w] \notin {"none", "thrown"}
        /\ \A v \in Waits : v # w => answer'[v] = answer[v]
    BY <1>0, <1>2 DEF PollEnds, Inv, Shape, Finished
  <2>3. {w} \in SUBSET Waits
    OBVIOUS
  <2>4. /\ \A v \in {w} : on[v] = on[w] /\ answer'[v] \notin {"none", "thrown"}
        /\ \A v \in Waits \ {w} : answer'[v] = answer[v]
    BY <2>2
  <2> QED BY <2>1, <2>3, <2>4, HandlersGo
<1>3. ASSUME OnNotification PROVE HandlersOK'
  <2> DEFINE j == Head(inbox)
             gone == Notified(j)
  <2>1. /\ UNCHANGED on /\ inbox # << >>
        /\ Answered(gone, exec[j]) /\ OnListenersRemoved(j, gone)
    BY <1>3 DEF OnNotification
  <2>2. j \in WfJobs /\ exec[j] \in Finished
    BY <1>0, <2>1 DEF Inv, Shape, InboxTrue
  <2>3. \A w \in gone : w \in Waits /\ on[w] = j
    BY DEF Notified
  <2> HIDE DEF gone, j
  <2>4. /\ \A w \in gone : answer'[w] \notin {"none", "thrown"}
        /\ \A w \in Waits \ gone : answer'[w] = answer[w]
    BY <2>1, <2>2, <2>3 DEF Answered, Finished
  <2>5. handlers' = [handlers EXCEPT ![j] = Without(@, gone)]
    BY <2>1 DEF OnListenersRemoved
  <2> QED BY <2>1, <2>2, <2>3, <2>4, <2>5, HandlersGo
<1>4. ASSUME NEW w \in Waits, PollFails(w) PROVE HandlersOK'
  <2>1. UNCHANGED <<handlers, on>>
    BY <1>4 DEF PollFails, listenerVars
  <2>2. \A v \in Waits : answer'[v] \in {"none", "thrown"}
                            <=> answer[v] \in {"none", "thrown"}
    BY <1>0, <1>4 DEF PollFails, Inv, Shape
  <2> QED BY <2>1, <2>2, HandlersStay
<1>5. CASE UNCHANGED <<handlers, on, answer>>
  BY <1>5, HandlersStay
<1> QED
  BY <1>1, <1>2, <1>3, <1>4, <1>5
     DEF Next, JobEnds, WfapiReplies, PollIgnored, PollGoesOn, PollTimerFires,
         ListenerStep, ListenEnds, IdleTimerFires, Idle, vars, waitVars,
         listenerVars

LEMMA StepTallies ==
  ASSUME PInv, Tallies, [Next]_vars PROVE Tallies'
<1> USE PollAssumption, ListenerAssumption
<1>0. Inv
  BY DEF PInv
<1>1. ASSUME NEW w \in Waits, PollFails(w) PROVE Tallies'
  <2>1. /\ UNCHANGED <<apiErrors, idle, supported, listenErrors>>
        /\ answer[w] = "none"
        /\ attempts' = [attempts EXCEPT ![w] = @ + 1]
        /\ errors' = [errors EXCEPT ![w] = @ + 1]
    BY <1>1 DEF PollFails, listenerVars
  <2>2. errors[w] \in Nat /\ errors[w] < ErrorLimit
    BY <2>1 DEF Tallies
  <2>3. /\ errors' \in [Waits -> 0 .. ErrorLimit]
        /\ errors'[w] = errors[w] + 1
        /\ \A v \in Waits : v # w => errors'[v] = errors[v]
    BY <2>1, <2>2 DEF Tallies
  <2>4. /\ errors'[w] >= ErrorLimit => answer'[w] = "thrown"
        /\ \A v \in Waits : v # w => answer'[v] = answer[v]
    BY <1>0, <1>1 DEF PollFails, Inv, Shape
  <2>5. \A v \in Waits : answer'[v] = "none" => errors'[v] < ErrorLimit
    BY <2>2, <2>3, <2>4 DEF Tallies
  <2>6. attempts' \in [Waits -> Nat]
    BY <2>1 DEF Tallies
  <2> QED BY <2>1, <2>3, <2>5, <2>6 DEF Tallies
<1>2. ASSUME NEW w \in Waits, PollIgnored(w) \/ PollGoesOn(w) PROVE Tallies'
  <2>1. /\ UNCHANGED <<apiErrors, errors, answer, idle, supported, listenErrors>>
        /\ attempts' = [attempts EXCEPT ![w] = @ + 1]
    BY <1>2 DEF PollIgnored, PollGoesOn, listenerVars
  <2> QED BY <2>1 DEF Tallies
<1>3. ASSUME NEW w \in Waits, PollEnds(w) PROVE Tallies'
  <2>1. /\ UNCHANGED <<apiErrors, errors, supported, listenErrors>>
        /\ attempts' = [attempts EXCEPT ![w] = @ + 1]
        /\ OnListenersRemoved(on[w], {w})
    BY <1>3 DEF PollEnds, callVars
  <2>2. \A v \in Waits : answer'[v] = "none" => answer[v] = "none"
    BY <1>0, <1>3 DEF PollEnds, Inv, Shape
  <2>3. idle' \in {idle, "pending"}
    BY <2>1 DEF OnListenersRemoved
  <2> QED BY <2>1, <2>2, <2>3 DEF Tallies
<1>4. ASSUME OnNotification PROVE Tallies'
  <2> DEFINE j == Head(inbox)
             gone == Notified(j)
  <2>1. /\ UNCHANGED <<apiErrors, attempts, errors, supported, listenErrors>>
        /\ inbox # << >>
        /\ Answered(gone, exec[j]) /\ OnListenersRemoved(j, gone)
    BY <1>4 DEF OnNotification
  <2>2. exec[j] \in Finished
    BY <1>0, <2>1 DEF Inv, Shape, InboxTrue
  <2> HIDE DEF gone, j
  <2>3. \A v \in Waits : answer'[v] = "none" => answer[v] = "none"
    BY <2>1, <2>2 DEF Answered, Finished
  <2>4. idle' \in {idle, "pending"}
    BY <2>1 DEF OnListenersRemoved
  <2> QED BY <2>1, <2>3, <2>4 DEF Tallies
<1>5. ASSUME NEW w \in Waits, NEW j \in WfJobs, PollJob(w, j) PROVE Tallies'
  <2>1. /\ UNCHANGED <<apiErrors, attempts, errors, answer, supported>>
        /\ UNCHANGED listenErrors /\ idle' \in {idle, "unset"}
    BY <1>5 DEF PollJob, OnListenerAdded, callVars
  <2> QED BY <2>1 DEF Tallies
<1>6. ASSUME NEW w \in Waits, WfapiReplies(w) PROVE Tallies'
  <2>1. /\ UNCHANGED <<attempts, errors, answer, idle, supported, listenErrors>>
        /\ \/ UNCHANGED apiErrors
           \/ apiErrors < MaxApiErrors /\ apiErrors' = apiErrors + 1
    BY <1>6 DEF WfapiReplies, listenerVars
  <2> QED BY <2>1 DEF Tallies
<1>7. ASSUME ListenerStep /\ UNCHANGED <<exec, waitVars, apiErrors>>
      PROVE  Tallies'
  <2>1. UNCHANGED <<attempts, errors, answer, apiErrors>>
    BY <1>7 DEF waitVars
  <2>2. CASE ListenEnds
    <3>1. /\ listenErrors \in 0 .. MaxListenErrors
          /\ listenErrors < MaxListenErrors
          /\ listenErrors' = listenErrors + 1
      BY <2>2 DEF Tallies, ListenEnds
    <3>2. supported' \in BOOLEAN /\ idle' = idle
      BY <2>2 DEF Tallies, ListenEnds
    <3>3. listenErrors' \in 0 .. MaxListenErrors
      BY <3>1
    <3> QED BY <2>1, <3>2, <3>3 DEF Tallies
  <2>3. CASE IdleTimerFires
    BY <2>1, <2>3 DEF Tallies, IdleTimerFires
  <2> QED BY <1>7, <2>2, <2>3 DEF ListenerStep
<1>8. CASE UNCHANGED <<attempts, errors, answer, apiErrors, idle, supported,
                       listenErrors>>
  BY <1>8 DEF Tallies
<1> QED
  BY <1>1, <1>2, <1>3, <1>4, <1>5, <1>6, <1>7, <1>8
     DEF Next, JobEnds, PollTimerFires, Idle, vars, waitVars, listenerVars

LEMMA SpecHInv == Spec => []HInv
<1>1. HInv /\ [Next]_vars => HInv'
  BY StepPInv, StepHandlers, StepTallies DEF HInv
<1> QED BY <1>1, InitHInv, PTL DEF Spec

(* Every variable keeps its type: a wait that has had its last error polls *)
(* no more, and the count of handlers does not go below zero.              *)
THEOREM TypeCorrect == Spec => []TypeOK
<1>1. HInv => TypeOK
  <2> SUFFICES ASSUME HInv PROVE TypeOK
    OBVIOUS
  <2>1. listenerCount \in Nat
    BY FS_CardinalityType DEF HInv, PInv, Counted
  <2>2. ListenerTypeOK
    BY <2>1 DEF ListenerTypeOK, HInv, HandlersOK, Tallies, PInv, CallShape,
       Inv, Shape
  <2> QED BY <2>2 DEF TypeOK, HInv, Tallies, PInv, Inv, Shape
<1> QED BY <1>1, SpecHInv, PTL

(* The handlers of a job are its waits without an answer, each once, and   *)
(* the count by which the listen call is ended is theirs.                  *)
THEOREM HandlersAsWaits == Spec => []HandlersAreWaits
<1>1. HInv => HandlersAreWaits
  <2> SUFFICES ASSUME HInv PROVE HandlersAreWaits
    OBVIOUS
  <2>1. ASSUME NEW j \in WfJobs, NEW w \in Waits
        PROVE  Cardinality({i \in DOMAIN handlers[j] : handlers[j][i] = w}) =
                 IF on[w] = j /\ answer[w] \in {"none", "thrown"} THEN 1 ELSE 0
    <3> DEFINE S == {i \in DOMAIN handlers[j] : handlers[j][i] = w}
    <3>1. /\ Has(handlers[j], w) <=> Waiting(j, w)
          /\ IsInjective(handlers[j])
      BY DEF HInv, HandlersOK
    <3>2. CASE Waiting(j, w)
      <4>1. PICK i \in DOMAIN handlers[j] : handlers[j][i] = w
        BY <3>1, <3>2 DEF Has
      <4>2. S = {i}
        BY <3>1, <4>1 DEF IsInjective
      <4> QED BY <3>2, <4>2, FS_Singleton DEF Waiting
    <3>3. CASE ~Waiting(j, w)
      <4>1. S = {}
        BY <3>1, <3>3 DEF Has
      <4> QED BY <3>3, <4>1, FS_EmptySet DEF Waiting
    <3> QED BY <3>2, <3>3
  <2>2. listenerCount = Cardinality({w \in Waits : on[w] # NoWfJob /\
                                      answer[w] \in {"none", "thrown"}})
    BY DEF HInv, PInv, Counted, Listening
  <2> QED BY <2>1, <2>2 DEF HandlersAreWaits
<1> QED BY <1>1, SpecHInv, PTL
=============================================================================
