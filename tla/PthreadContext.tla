--------------------------- MODULE PthreadContext ---------------------------
(***************************************************************************)
(* Requests for the register context of a guest thread (PthreadContext.cpp)*)
(*                                                                         *)
(* A guest collector raises a signal on a thread and waits until the       *)
(* thread's handler acknowledges; the handler then blocks until the        *)
(* collector restarts the world.  The handler may run only at a safe       *)
(* point: a signal that lands elsewhere arms a retry timer.  The module    *)
(* models one target thread, created and closed again and again, and the   *)
(* collectors that raise requests on it.  PthreadLife puts it into the     *)
(* thread's life and states the fairness.                                  *)
(*                                                                         *)
(* The host's signals and timer are counted as tokens: "queued" for those  *)
(* sent with tgkill and not yet delivered, "armed" for the timer.          *)
(***************************************************************************)
EXTENDS Naturals, FiniteSets

CONSTANT Raisers        \* the collectors

ASSUME RaisersAssumption == IsFiniteSet(Raisers)

VARIABLES
  state,      \* context_state: a set of the bits "open", "pending", "running"
  hostTid,    \* host_tid # 0: the thread has started
  installed,  \* g_context_handler # 0
  hasTimer,   \* has_retry_timer
  queued,     \* signals sent to the thread and not yet delivered
  armed,      \* the retry timer runs
  at,         \* where the thread's own code is
  phase,      \* how far the request being delivered on top of it is
  raiser,     \* where each collector is
  lost        \* history: a resend failed and nobody looked

vars == <<state, hostTid, installed, hasTimer, queued, armed, at, phase, raiser, lost>>
hostVars == <<hasTimer, queued, armed>>
threadVars == <<hostTid, at, phase>>

(***************************************************************************)
(* "host" stands for host code that holds a host lock, "closing" for the   *)
(* loop of PthreadCloseContext between its sleeps, "wait" and "sleep" for  *)
(* system calls inside a PthreadInterruptibleScope.                        *)
(***************************************************************************)
Places == {"new", "guest", "host", "wait", "closing", "sleep", "closed"}
AtSafePoint == at \in {"guest", "wait", "sleep"}

\* g_context_mutex is kept over more than one step only by a collector that
\* has set the bit and not sent the signal yet.
ContextMutexFree == \A r \in Raisers : raiser[r] # "sending"

Waiting == {r \in Raisers : raiser[r] = "waiting"}
Acknowledged == {r \in Raisers : raiser[r] = "acknowledged"}

Tgkill == /\ queued' = IF queued < 2 THEN queued + 1 ELSE 2
          /\ UNCHANGED armed

Init ==
  /\ state = {} /\ hostTid = FALSE /\ installed = FALSE
  /\ hasTimer = FALSE /\ queued = 0 /\ armed = FALSE
  /\ at = "closed" /\ phase = "none" /\ lost = FALSE
  /\ raiser = [r \in Raisers |-> "idle"]

-----------------------------------------------------------------------------
(* The collectors *)

InstallHandler ==
  /\ ~installed
  /\ installed' = TRUE
  /\ UNCHANGED <<state, hostVars, threadVars, raiser, lost>>

\* ESRCH from a closed thread, OK without a handler, or a failed
\* PrepareDelivery: the call returns and leaves no request.
RaiseRefused(r) ==
  /\ raiser[r] = "idle" /\ ContextMutexFree
  /\ "open" \notin state \/ ~installed \/ (hostTid /\ ~hasTimer)
  /\ UNCHANGED vars

\* A thread that has not started takes the request when it starts.
RaiseBeforeStart(r) ==
  /\ raiser[r] = "idle" /\ ContextMutexFree
  /\ "open" \in state /\ installed /\ ~hostTid
  /\ state' = state \cup {"pending"}
  /\ raiser' = [raiser EXCEPT ![r] = "waiting"]
  /\ UNCHANGED <<installed, hostVars, threadVars, lost>>

\* Mutant: a running handler is not taken for a cover.
CoveredByPending == "pending" \in state

\* The bits of fetch_or's old value that make another signal unnecessary: a
\* pending request has its signal, a running handler looks again at its end.
AlreadyCovered == {"pending", "running"} \cap state # {}

RaiseSets(r) ==
  /\ raiser[r] = "idle" /\ ContextMutexFree
  /\ "open" \in state /\ installed /\ hostTid
  /\ hasTimer' = TRUE
  /\ state' = state \cup {"pending"}
  /\ raiser' = [raiser EXCEPT ![r] = IF AlreadyCovered THEN "waiting" ELSE "sending"]
  /\ UNCHANGED <<installed, queued, armed, threadVars, lost>>

RaiseSends(r) ==
  /\ raiser[r] = "sending"
  /\ Tgkill
  /\ raiser' = [raiser EXCEPT ![r] = "waiting"]
  /\ UNCHANGED <<state, installed, hasTimer, threadVars, lost>>

\* tgkill failed: the request is withdrawn and EAGAIN returned.
RaiseWithdraws(r) ==
  /\ raiser[r] = "sending"
  /\ state' = state \ {"pending"}
  /\ raiser' = [raiser EXCEPT ![r] = "idle"]
  /\ UNCHANGED <<installed, hostVars, threadVars, lost>>

\* The guest's side: the collector that was acknowledged works, for which it
\* takes every host lock once, and restarts the world.
Restart(r) ==
  /\ raiser[r] = "acknowledged"
  /\ at \notin {"host", "closing"}
  /\ raiser' = [raiser EXCEPT ![r] = "idle"]
  /\ UNCHANGED <<state, installed, hostVars, threadVars, lost>>

-----------------------------------------------------------------------------
(* Delivery on the thread *)

\* A signal or the timer interrupts the thread.  Without a request, or while
\* the handler runs, nothing is done; away from a safe point the timer is
\* armed; at one the running bit is set.
Delivered ==
  IF "pending" \notin state \/ "running" \in state
  THEN UNCHANGED <<state, phase>> /\ armed' = FALSE
  ELSE IF ~AtSafePoint
       THEN UNCHANGED <<state, phase>> /\ armed' = TRUE
       ELSE /\ state' = state \cup {"running"}
            /\ phase' = "claimed"
            /\ armed' = FALSE

Interrupt ==
  /\ at \notin {"new", "closed"}
  /\ phase \in {"none", "handler"}
  /\ \/ queued > 0 /\ queued' = queued - 1
     \/ queued = 0 /\ armed /\ UNCHANGED queued
  /\ Delivered
  /\ UNCHANGED <<hostTid, installed, hasTimer, at, raiser, lost>>

\* The pending bit is cleared and the handler invoked, which acknowledges
\* every request accepted so far.
TakeRequest ==
  /\ phase = "claimed"
  /\ phase' = "handler"
  /\ state' = state \ {"pending"}
  /\ raiser' = [r \in Raisers |-> IF r \in Waiting THEN "acknowledged" ELSE raiser[r]]
  /\ UNCHANGED <<hostTid, installed, hostVars, at, lost>>

\* Mutant: the end of the handler does not look for a request raised meanwhile.
NothingRaised == FALSE

RaisedMeanwhile == "pending" \in state

\* The handler returns when the world restarts; the signal stays blocked from
\* here to the resume.
HandlerReturns ==
  /\ phase = "handler" /\ Acknowledged = {}
  /\ phase' = IF RaisedMeanwhile THEN "resend" ELSE "none"
  /\ state' = state \ {"running"}
  /\ UNCHANGED <<hostTid, installed, hostVars, at, raiser, lost>>

Resend ==
  /\ phase = "resend"
  /\ phase' = "none"
  /\ Tgkill
  /\ UNCHANGED <<state, hostTid, installed, hasTimer, at, raiser, lost>>

\* The result of this tgkill is not looked at.
ResendFails ==
  /\ phase = "resend"
  /\ phase' = "none"
  /\ lost' = TRUE
  /\ UNCHANGED <<state, hostTid, installed, hostVars, at, raiser>>

-----------------------------------------------------------------------------
(* The thread's own steps *)

StartContext ==
  /\ at = "new" /\ ContextMutexFree
  /\ hostTid' = TRUE
  /\ at' = "host"
  /\ IF "pending" \in state THEN hasTimer' = TRUE /\ Tgkill ELSE UNCHANGED hostVars
  /\ UNCHANGED <<state, installed, phase, raiser, lost>>

\* pthread_create failed: PthreadCreate closes the context of a thread that
\* never started, and what was raised on it is void.
CreationFails ==
  /\ at = "new" /\ ContextMutexFree
  /\ at' = "closed"
  /\ state' = state \ {"open"}
  /\ raiser' = [r \in Raisers |-> IF r \in Waiting THEN "idle" ELSE raiser[r]]
  /\ UNCHANGED <<hostTid, installed, hostVars, phase, lost>>

Moves(from, to) ==
  /\ phase = "none" /\ at \in from
  /\ at' \in to
  /\ UNCHANGED <<state, hostTid, installed, hostVars, phase, raiser, lost>>

EnterHost == Moves({"guest", "wait"}, {"host"})
LeaveHost == Moves({"host"}, {"guest", "wait"})

CloseContext ==
  /\ phase = "none" /\ at = "host" /\ ContextMutexFree
  /\ at' = "closing"
  /\ state' = state \ {"open"}
  /\ UNCHANGED <<hostTid, installed, hostVars, phase, raiser, lost>>

RequestLeft == "pending" \in state

CloseSleeps == RequestLeft /\ Moves({"closing"}, {"sleep"})
CloseLooks == Moves({"sleep"}, {"closing"})

CloseEnd ==
  /\ phase = "none" /\ at = "closing" /\ ~RequestLeft /\ ContextMutexFree
  /\ at' = "closed"
  /\ hasTimer' = FALSE /\ armed' = FALSE
  /\ UNCHANGED <<state, hostTid, installed, queued, phase, raiser, lost>>

\* The pool's next thread in the same PthreadPrivate; a signal left to the
\* old host thread died with it.
OpenContext ==
  /\ at = "closed" /\ ContextMutexFree
  /\ at' = "new"
  /\ hostTid' = FALSE
  /\ state' = {"open"}
  /\ queued' = 0 /\ lost' = FALSE
  /\ UNCHANGED <<installed, hasTimer, armed, phase, raiser>>

-----------------------------------------------------------------------------
Raise(r) == RaiseBeforeStart(r) \/ RaiseSets(r)
Send(r) == RaiseSends(r) \/ RaiseWithdraws(r)
Deliver == Interrupt \/ TakeRequest
Return == HandlerReturns \/ Resend \/ ResendFails
Close == CloseSleeps \/ CloseLooks \/ CloseEnd

Next ==
  \/ InstallHandler
  \/ \E r \in Raisers : RaiseRefused(r) \/ Raise(r) \/ Send(r) \/ Restart(r)
  \/ Deliver \/ Return
  \/ StartContext \/ CreationFails \/ EnterHost \/ LeaveHost \/ CloseContext
  \/ Close \/ OpenContext

Spec == Init /\ [][Next]_vars

-----------------------------------------------------------------------------
(* Properties *)

TypeOK ==
  /\ state \subseteq {"open", "pending", "running"}
  /\ hostTid \in BOOLEAN /\ installed \in BOOLEAN /\ hasTimer \in BOOLEAN
  /\ queued \in 0..2 /\ armed \in BOOLEAN /\ lost \in BOOLEAN
  /\ at \in Places /\ phase \in {"none", "claimed", "handler", "resend"}
  /\ raiser \in [Raisers -> {"idle", "sending", "waiting", "acknowledged"}]

Tokens == queued + (IF armed THEN 1 ELSE 0)

\* A request that nobody is delivering or about to signal.
Unattended ==
  /\ "pending" \in state /\ hostTid
  /\ phase = "none" /\ ContextMutexFree

(***************************************************************************)
(* A pending request has exactly one signal or timer under way to it, and  *)
(* there is never one without a request: the raise (PthreadRaiseContext),  *)
(* the delivery (HandleContextSignal) and the end of the handler           *)
(* (ContextTrampoline) hand it on without a gap.  The timer they may arm   *)
(* exists.  Only a resend that failed leaves a request without.            *)
(***************************************************************************)
OneSignalPerRequest ==
  /\ TypeOK
  /\ Unattended /\ ~lost => Tokens = 1
  /\ Tokens > 0 => Unattended /\ Tokens = 1 /\ hasTimer

(***************************************************************************)
(* PthreadCloseContext: the thread takes what was accepted before it stops *)
(* for good: no collector waits for a closed thread, no handler runs on it *)
(* and no timer is left to its successor.                                  *)
(***************************************************************************)
ClosedIsQuiet ==
  at = "closed" =>
    /\ Waiting \cup Acknowledged = {} /\ phase = "none"
    /\ ~hasTimer /\ Tokens = 0

(***************************************************************************)
(* Every accepted request is acknowledged by the handler and the world     *)
(* restarts, whatever the thread does meanwhile, its end included (unless  *)
(* a resend failed): the handler never stops the thread where it holds     *)
(* what the collector needs, and a thread that closes waits for the        *)
(* request where it can be delivered.                                      *)
(***************************************************************************)
RequestAnswered ==
  \A r \in Raisers : (raiser[r] = "waiting") ~> (raiser[r] = "idle" \/ lost)

=============================================================================
