-------------------------- MODULE WorkflowListener --------------------------
(***************************************************************************)
(* MorayWorkflowListener (lib/moray/moray-workflow-listener.js): one moray *)
(* "listen" call shared by everything in the process that waits for a      *)
(* workflow job.  It is started for the first handler and ended by a timer *)
(* some time after the last one is removed, or when moray ends it.         *)
(*                                                                         *)
(* The operators are what the object's methods do to its state; PollJob    *)
(* makes them parts of its actions.                                        *)
(***************************************************************************)
EXTENDS Naturals, Sequences, FiniteSets

CONSTANTS
    WfJobs,           \* workflow jobs
    Waits,            \* calls of waitForJob, each with its own handler
    MaxListenErrors   \* BOUND: listen calls that end by themselves

ASSUME ListenerAssumption == MaxListenErrors \in Nat

VARIABLES
    handlers,       \* wf_handlersByJobUuid
    listenerCount,  \* wf_listenerCount
    listening,      \* whether wf_morayListener is set
    openCalls,      \* listen calls moray serves for this object
    inbox,          \* notifications on the listen call, not read yet
    idle,           \* the timer wf_idleTimeout names: unset, pending, fired
    stale,          \* timers still pending that it no longer names
    supported,      \* isListenSupported
    listenErrors    \* listen calls that ended by themselves, so far

listenerVars == <<handlers, listenerCount, listening, openCalls, inbox, idle,
                  stale, supported, listenErrors>>
callVars == <<listening, openCalls, inbox, supported, listenErrors>>

ListenerInit ==
    /\ handlers = [j \in WfJobs |-> <<>>]
    /\ listenerCount = 0
    /\ listening = FALSE
    /\ openCalls = 0
    /\ inbox = <<>>
    /\ idle = "unset"
    /\ stale = 0
    /\ supported = TRUE
    /\ listenErrors = 0

-----------------------------------------------------------------------------
(* Mutant: an idle timer is left running when the call is taken up again.  *)
OnListenerAddedToIdle(j, w) ==
    /\ handlers' = [handlers EXCEPT ![j] = Append(@, w)]
    /\ listenerCount' = listenerCount + 1
    /\ IF listenerCount = 0 /\ ~listening /\ supported
       THEN /\ listening' = TRUE /\ openCalls' = openCalls + 1
            /\ UNCHANGED <<inbox, supported, listenErrors>>
       ELSE UNCHANGED callVars
    /\ UNCHANGED <<idle, stale>>

(* The first handler starts the listen call, or keeps an idle one: then,   *)
(* and only then, the idle timer is cleared.                               *)
OnListenerAdded(j, w) ==
    /\ handlers' = [handlers EXCEPT ![j] = Append(@, w)]
    /\ listenerCount' = listenerCount + 1
    /\ IF listenerCount = 0 /\ listening
       THEN idle' = "unset" /\ UNCHANGED callVars
       ELSE IF listenerCount = 0 /\ supported
       THEN /\ listening' = TRUE /\ openCalls' = openCalls + 1
            /\ UNCHANGED <<inbox, idle, supported, listenErrors>>
       ELSE UNCHANGED <<callVars, idle>>
    /\ UNCHANGED stale

(* The handlers that are left, in their order.                             *)
Without(h, gone) ==
    LET kept == {i \in DOMAIN h : h[i] \notin gone}
        Place(i) == Cardinality({k \in kept : k <= i})
    IN  [n \in 1 .. Cardinality(kept) |-> h[CHOOSE i \in kept : Place(i) = n]]

(* Mutant: the handlers go, the count stays.                               *)
OnListenersRemovedUncounted(j, gone) ==
    /\ handlers' = [handlers EXCEPT ![j] = Without(@, gone)]
    /\ UNCHANGED <<listenerCount, idle, stale>>

(* Mutant: the timer is set only if there never was one.                   *)
OnListenersRemovedOnce(j, gone) ==
    /\ handlers' = [handlers EXCEPT ![j] = Without(@, gone)]
    /\ listenerCount' = listenerCount - Cardinality(gone)
    /\ idle' = IF gone # {} /\ listenerCount' = 0 /\ idle = "unset"
               THEN "pending" ELSE idle
    /\ UNCHANGED stale

(* onListenerRemoved for each of the handlers that are gone; the last one  *)
(* of all sets the idle timer.                                             *)
OnListenersRemoved(j, gone) ==
    /\ handlers' = [handlers EXCEPT ![j] = Without(@, gone)]
    /\ listenerCount' = listenerCount - Cardinality(gone)
    /\ IF gone # {} /\ listenerCount' = 0
       THEN /\ idle' = "pending"
            /\ stale' = IF idle = "pending" THEN stale + 1 ELSE stale
       ELSE UNCHANGED <<idle, stale>>

(* Mutant: it does not ask whether there is a listen call.                 *)
TeardownAlways ==
    /\ listening' = FALSE
    /\ openCalls' = openCalls - 1
    /\ inbox' = <<>>

(* teardownMorayListener: what was not read is lost.                       *)
TeardownMorayListener ==
    /\ listening' = FALSE
    /\ openCalls' = IF listening THEN openCalls - 1 ELSE openCalls
    /\ inbox' = <<>>

(* onListenerError and onListenerEnd; an error may say that the server     *)
(* does not know the call, which is then not tried again.                  *)
ListenEnds ==
    /\ listening /\ listenErrors < MaxListenErrors
    /\ listenErrors' = listenErrors + 1
    /\ supported' \in {supported, FALSE}
    /\ TeardownMorayListener
    /\ UNCHANGED <<handlers, listenerCount, idle, stale>>

(* Mutant: the call is forgotten, not ended.                               *)
IdleTimerForgets ==
    /\ \/ idle = "pending" /\ idle' = "fired" /\ UNCHANGED stale
       \/ stale > 0 /\ stale' = stale - 1 /\ UNCHANGED idle
    /\ listening' = FALSE /\ inbox' = <<>>
    /\ UNCHANGED <<handlers, listenerCount, openCalls, supported, listenErrors>>

(* The timer of IDLE_TEARDOWN_MS, whether wf_idleTimeout still names it or *)
(* not; it does not ask whether there are handlers.                        *)
IdleTimerFires ==
    /\ \/ idle = "pending" /\ idle' = "fired" /\ UNCHANGED stale
       \/ stale > 0 /\ stale' = stale - 1 /\ UNCHANGED idle
    /\ TeardownMorayListener
    /\ UNCHANGED <<handlers, listenerCount, supported, listenErrors>>

ListenerTypeOK ==
    /\ handlers \in [WfJobs -> Seq(Waits)]
    /\ listenerCount \in Nat
    /\ listening \in BOOLEAN
    /\ openCalls \in Nat
    /\ inbox \in Seq(WfJobs)
    /\ idle \in {"unset", "pending", "fired"}
    /\ stale \in Nat
    /\ supported \in BOOLEAN
    /\ listenErrors \in 0 .. MaxListenErrors

=============================================================================
