----------------------------- MODULE EventQueue -----------------------------
(***************************************************************************)
(* Kernel event queues (EventQueue.cpp) with the video-out flip events     *)
(* registered on them (VideoOut.cpp).                                      *)
(*                                                                         *)
(* A queue is used by raw address; a registry of lifetimes pins it while a *)
(* call is inside and tells its generations apart, for a new queue may get *)
(* the address of the one deleted before it.  All queues of the model have *)
(* the same address.  An event of a queue refers to a binding, which its   *)
(* video-out session lists too; whoever of the adding thread and the       *)
(* event's delete function comes last releases it.                         *)
(*                                                                         *)
(* The threads: waiters (KernelWaitEqueue), users (VideoOutAddFlipEvent    *)
(* and VideoOutDeleteFlipEvent), one that deletes queues                   *)
(* (KernelDeleteEqueue), the presenter, which triggers the published       *)
(* events, and one that closes the session (VideoOutContext::Close).       *)
(***************************************************************************)
EXTENDS Naturals, FiniteSets

CONSTANTS
  EventWaiters, Users, \* threads, beside the three with a role of their own
  Deleter, Presenter, SessionCloser,
  Bindings,           \* addresses of VideoOutEventBinding objects
  NoBinding,
  MaxGeneration,      \* bound: queues created
  MaxPending          \* bound: flips triggered and not delivered

EqueueThreads == EventWaiters \cup Users \cup {Deleter, Presenter, SessionCloser}

ASSUME BoundsAssumption == MaxGeneration \in Nat \ {0} /\ MaxPending \in Nat \ {0}
ASSUME EqueueAssumption ==
  /\ IsFiniteSet(EqueueThreads) /\ IsFiniteSet(Bindings) /\ NoBinding \notin Bindings
  /\ EventWaiters \cap Users = {}
  /\ {Deleter, Presenter, SessionCloser} \cap (EventWaiters \cup Users) = {}
  /\ Deleter # Presenter /\ Deleter # SessionCloser /\ Presenter # SessionCloser

VARIABLES
  nextGeneration,   \* g_next_equeue_generation
  lifetime,         \* g_equeue_lifetimes at the address; generation 0: no entry
  closingGens,      \* g_closing_equeue_generations
  object,           \* generation of the queue object at the address, 0: none
  queueClosing,     \* its m_closing
  event,            \* its flip event: deliveries outstanding and its binding
  binding,          \* state and generation of every binding
  sessionState,     \* the video-out session: "open", "closing" or "closed"
  at, pin,          \* of every thread: where it is, the generation it pins
  mine,             \* of every user: the binding it registers
  asleepOnLifetime, \* threads asleep on g_equeue_lifetime_changed
  awaited           \* generations the closer still waits for

registryVars == <<nextGeneration, lifetime, closingGens>>
queueVars == <<object, queueClosing, event>>
sessionVars == <<sessionState, binding, mine>>
waitVars == <<asleepOnLifetime, awaited>>
equeueVars == <<registryVars, queueVars, sessionVars, at, pin, waitVars>>

NoLifetime == [generation |-> 0, pins |-> 0, closing |-> FALSE]
NoEvent == [count |-> 0, binding |-> NoBinding]
UnusedBinding == [state |-> "free", generation |-> 0]

Free(b) == binding[b].state = "free"
Listed == {b \in Bindings : binding[b].state \in {"begun", "published"}}
Published == {b \in Bindings : binding[b].state = "published"}

Goes(t, to) == at' = [at EXCEPT ![t] = to]

EqueueInit ==
  /\ nextGeneration = 1 /\ lifetime = NoLifetime /\ closingGens = {}
  /\ object = 0 /\ queueClosing = FALSE /\ event = NoEvent
  /\ sessionState = "open"
  /\ binding = [b \in Bindings |-> UnusedBinding]
  /\ mine = [u \in Users |-> NoBinding]
  /\ at = [t \in EqueueThreads |-> "idle"] /\ pin = [t \in EqueueThreads |-> 0]
  /\ asleepOnLifetime = {} /\ awaited = {}

-----------------------------------------------------------------------------
(* The registry of lifetimes *)

\* Both forms of KernelAcquireEqueue: by address any open queue is found, by
\* identity only the generation asked for.
CanAcquire(generations) ==
  /\ lifetime.generation \in generations \ {0}
  /\ ~lifetime.closing

AnyGeneration == 1 .. MaxGeneration

TakePin(t) ==
  /\ lifetime' = [lifetime EXCEPT !.pins = @ + 1]
  /\ pin' = [pin EXCEPT ![t] = lifetime.generation]

\* g_equeue_lifetime_changed.SignalAll
LifetimeChanged == asleepOnLifetime' = {}

\* Mutant: the signal comes one pin too early.
EarlySignal == IF lifetime.pins = 2 THEN LifetimeChanged ELSE UNCHANGED asleepOnLifetime

ReleaseSignals == IF lifetime.pins = 1 THEN LifetimeChanged ELSE UNCHANGED asleepOnLifetime

ReleasePin(t) ==
  /\ lifetime' = [lifetime EXCEPT !.pins = @ - 1]
  /\ pin' = [pin EXCEPT ![t] = 0]
  /\ ReleaseSignals

\* KernelCreateEqueue.
CreateQueue ==
  /\ object = 0 /\ nextGeneration <= MaxGeneration
  /\ object' = nextGeneration /\ queueClosing' = FALSE /\ event' = NoEvent
  /\ lifetime' = [generation |-> nextGeneration, pins |-> 0, closing |-> FALSE]
  /\ nextGeneration' = nextGeneration + 1
  /\ UNCHANGED <<closingGens, sessionVars, at, pin, waitVars>>

-----------------------------------------------------------------------------
(* Waiting for events *)

WaitersAt(places) == {w \in EventWaiters : at[w] \in places}

\* m_cond_var.Signal: one of the sleeping waiters, if there is one.
SignalOne ==
  IF WaitersAt({"asleep"}) = {} THEN UNCHANGED at
  ELSE \E w \in WaitersAt({"asleep"}) : Goes(w, "inside")

WaitBegins(w) ==
  /\ at[w] = "idle" /\ CanAcquire(AnyGeneration)
  /\ TakePin(w) /\ Goes(w, "inside")
  /\ UNCHANGED <<nextGeneration, closingGens, queueVars, sessionVars, waitVars>>

\* GetTriggeredEvents takes one delivery; one that is pending takes its place.
Taken == [event EXCEPT !.count = @ - 1]

\* A waiter that was just let in, woken or timed out looks at the queue.
WaitLooks(w) ==
  /\ at[w] \in {"inside", "expired"}
  /\ IF ~queueClosing /\ event.count > 0
     THEN event' = Taken /\ Goes(w, "leaving")
     ELSE /\ UNCHANGED event
          /\ Goes(w, IF queueClosing \/ at[w] = "expired" THEN "leaving" ELSE "asleep")
  /\ UNCHANGED <<registryVars, object, queueClosing, sessionVars, pin, waitVars>>

WaitExpires(w) ==
  /\ at[w] = "asleep"
  /\ Goes(w, "expired")
  /\ UNCHANGED <<registryVars, queueVars, sessionVars, pin, waitVars>>

WaitEnds(w) ==
  /\ at[w] = "leaving"
  /\ ReleasePin(w) /\ Goes(w, "idle")
  /\ UNCHANGED <<nextGeneration, closingGens, queueVars, sessionVars, awaited>>

-----------------------------------------------------------------------------
(* Registering flip events *)

\* flip_event_delete_func: a published binding is released, one whose adder is
\* still on its way is left to the adder.
DropBinding(b) ==
  IF b = NoBinding THEN binding
  ELSE IF binding[b].state = "published" THEN [binding EXCEPT ![b] = UnusedBinding]
       ELSE [binding EXCEPT ![b].state = "deleted"]

\* AcquireSession and KernelAcquireEqueue, then a new binding is listed.
AddBegins(u) ==
  /\ at[u] = "idle" /\ sessionState = "open" /\ CanAcquire(AnyGeneration)
  /\ \E b \in Bindings :
       /\ Free(b)
       /\ mine' = [mine EXCEPT ![u] = b]
       /\ binding' = [binding EXCEPT ![b] = [state |-> "begun", generation |-> lifetime.generation]]
  /\ TakePin(u) /\ Goes(u, "adding")
  /\ UNCHANGED <<nextGeneration, closingGens, queueVars, sessionState, waitVars>>

\* KernelEqueuePrivate::AddEvent: an event with the same key is replaced.  A
\* flip event is added untriggered and wakes nobody.
AddEvent(u) ==
  /\ at[u] = "adding"
  /\ binding' = DropBinding(event.binding)
  /\ event' = [count |-> 0, binding |-> mine[u]]
  /\ Goes(u, "added")
  /\ UNCHANGED <<registryVars, object, queueClosing, sessionState, mine, pin, waitVars>>

\* Mutant: the delete function is not heard.
PublishAnyway(b) == [binding[b] EXCEPT !.state = "published"]

\* The second half of VideoOutAddFlipEvent.
AfterAdd(b) ==
  IF binding[b].state = "deleted" THEN UnusedBinding ELSE [binding[b] EXCEPT !.state = "published"]

AddPublishes(u) ==
  /\ at[u] = "added"
  /\ binding' = [binding EXCEPT ![mine[u]] = AfterAdd(mine[u])]
  /\ mine' = [mine EXCEPT ![u] = NoBinding]
  /\ Goes(u, "leaving")
  /\ UNCHANGED <<registryVars, queueVars, sessionState, pin, waitVars>>

\* VideoOutDeleteFlipEvent pins the queue of a published binding.
RemoveBegins(u) ==
  /\ at[u] = "idle" /\ sessionState = "open"
  /\ CanAcquire({binding[b].generation : b \in Published})
  /\ TakePin(u) /\ Goes(u, "removing")
  /\ UNCHANGED <<nextGeneration, closingGens, queueVars, sessionVars, waitVars>>

\* KernelEqueuePrivate::DeleteEvent.
DeleteEvent(t, to) ==
  /\ binding' = DropBinding(event.binding)
  /\ event' = NoEvent
  /\ Goes(t, to)
  /\ UNCHANGED <<registryVars, object, queueClosing, sessionState, mine, pin, waitVars>>

RemoveEvent(u) == at[u] = "removing" /\ DeleteEvent(u, "leaving")

\* The pin and the session are given back.
UserLeaves(u) ==
  /\ at[u] = "leaving"
  /\ ReleasePin(u) /\ Goes(u, "idle")
  /\ UNCHANGED <<nextGeneration, closingGens, queueVars, sessionVars, awaited>>

-----------------------------------------------------------------------------
(* The presenter: FlipQueue::Flip after a frame *)

PresentBegins ==
  /\ at[Presenter] = "idle" /\ event.count < MaxPending
  /\ CanAcquire({binding[b].generation : b \in Published})
  /\ TakePin(Presenter) /\ Goes(Presenter, "triggering")
  /\ UNCHANGED <<nextGeneration, closingGens, queueVars, sessionVars, waitVars>>

\* Mutant: an event that is triggered already signals nobody.
SignalFirst == IF event.count = 0 THEN SignalOne ELSE UNCHANGED at

TriggerSignals == SignalOne

\* KernelEqueuePrivate::TriggerEvent with flip_event_trigger_func; ENOENT
\* without the event.
Trigger ==
  /\ at[Presenter] = "triggering" /\ pin[Presenter] # 0
  /\ IF event.binding = NoBinding THEN UNCHANGED <<event, at>>
     ELSE event' = [event EXCEPT !.count = @ + 1] /\ TriggerSignals
  /\ ReleasePin(Presenter)
  /\ UNCHANGED <<nextGeneration, closingGens, object, queueClosing, sessionVars, awaited>>

PresentEnds ==
  /\ at[Presenter] = "triggering" /\ pin[Presenter] = 0
  /\ Goes(Presenter, "idle")
  /\ UNCHANGED <<registryVars, queueVars, sessionVars, pin, waitVars>>

-----------------------------------------------------------------------------
(* KernelDeleteEqueue *)

MarkClosing ==
  /\ at[Deleter] = "idle" /\ CanAcquire(AnyGeneration)
  /\ lifetime' = [lifetime EXCEPT !.closing = TRUE]
  /\ Goes(Deleter, "marked")
  /\ UNCHANGED <<nextGeneration, closingGens, queueVars, sessionVars, pin, waitVars>>

\* Mutant: the close leaves the sleeping waiters alone.
WakeNobody == [at EXCEPT ![Deleter] = "draining"]

\* BeginClose wakes every waiter.
WakeWaiters ==
  [t \in EqueueThreads |-> IF t = Deleter THEN "draining"
                     ELSE IF t \in WaitersAt({"asleep"}) THEN "inside" ELSE at[t]]

BeginClose ==
  /\ at[Deleter] = "marked"
  /\ queueClosing' = TRUE
  /\ at' = WakeWaiters
  /\ UNCHANGED <<registryVars, object, event, sessionVars, pin, waitVars>>

AlwaysUnpinned == TRUE    \* mutant: the pins are not waited for
Unpinned == lifetime.pins = 0

DrainSleeps ==
  /\ at[Deleter] = "draining" /\ Deleter \notin asleepOnLifetime /\ ~Unpinned
  /\ asleepOnLifetime' = asleepOnLifetime \cup {Deleter}
  /\ UNCHANGED <<registryVars, queueVars, sessionVars, at, pin, awaited>>

UnregisterQueue ==
  /\ at[Deleter] = "draining" /\ Deleter \notin asleepOnLifetime /\ Unpinned
  /\ lifetime' = NoLifetime
  /\ closingGens' = closingGens \cup {lifetime.generation}
  /\ LifetimeChanged
  /\ Goes(Deleter, "destroying")
  /\ UNCHANGED <<nextGeneration, queueVars, sessionVars, pin, awaited>>

\* The destructor runs the delete function of the event.
Destroy ==
  /\ at[Deleter] = "destroying"
  /\ binding' = DropBinding(event.binding)
  /\ object' = 0 /\ queueClosing' = FALSE /\ event' = NoEvent
  /\ Goes(Deleter, "destroyed")
  /\ UNCHANGED <<registryVars, sessionState, mine, pin, waitVars>>

EndSignals == LifetimeChanged

DeleteEnds ==
  /\ at[Deleter] = "destroyed"
  /\ closingGens' = {}
  /\ EndSignals
  /\ Goes(Deleter, "idle")
  /\ UNCHANGED <<nextGeneration, lifetime, queueVars, sessionVars, pin, awaited>>

-----------------------------------------------------------------------------
(* VideoOutContext::Close, from the point where no call enters the session *)

CloseBegins ==
  /\ at[SessionCloser] = "idle" /\ sessionState = "open"
  /\ sessionState' = "closing"
  /\ Goes(SessionCloser, "quiescing")
  /\ UNCHANGED <<registryVars, queueVars, binding, mine, pin, waitVars>>

\* The calls inside have left: the queue of every binding is pinned or, where
\* that is refused, waited for.
CloseCollects ==
  /\ at[SessionCloser] = "quiescing" /\ \A u \in Users : at[u] = "idle"
  /\ LET bound == {binding[b].generation : b \in Listed}
     IN IF CanAcquire(bound)
        THEN TakePin(SessionCloser) /\ awaited' = bound \ {lifetime.generation}
        ELSE UNCHANGED <<lifetime, pin>> /\ awaited' = bound
  /\ Goes(SessionCloser, "deleting")
  /\ UNCHANGED <<nextGeneration, closingGens, queueVars, sessionVars, asleepOnLifetime>>

CloseDeletes ==
  /\ at[SessionCloser] = "deleting" /\ pin[SessionCloser] # 0
  /\ DeleteEvent(SessionCloser, "unpinning")

CloseUnpins ==
  /\ at[SessionCloser] = "unpinning"
  /\ ReleasePin(SessionCloser) /\ Goes(SessionCloser, "deleting")
  /\ UNCHANGED <<nextGeneration, closingGens, queueVars, sessionVars, awaited>>

\* The loop condition of KernelWaitEqueueClosed.
Closed(g) == lifetime.generation # g /\ g \notin closingGens

CloseWaits ==
  /\ at[SessionCloser] = "deleting" /\ pin[SessionCloser] = 0
  /\ SessionCloser \notin asleepOnLifetime
  /\ \E g \in awaited :
       IF Closed(g) THEN awaited' = awaited \ {g} /\ UNCHANGED asleepOnLifetime
       ELSE asleepOnLifetime' = asleepOnLifetime \cup {SessionCloser} /\ UNCHANGED awaited
  /\ UNCHANGED <<registryVars, queueVars, sessionVars, at, pin>>

CloseEnds ==
  /\ at[SessionCloser] = "deleting" /\ pin[SessionCloser] = 0 /\ awaited = {}
  /\ sessionState' = "closed"
  /\ Goes(SessionCloser, "idle")
  /\ UNCHANGED <<registryVars, queueVars, binding, mine, pin, waitVars>>

\* VideoOutContext::Open.
Reopen ==
  /\ sessionState = "closed"
  /\ sessionState' = "open"
  /\ UNCHANGED <<registryVars, queueVars, binding, mine, at, pin, waitVars>>

-----------------------------------------------------------------------------
Wait(w) == WaitLooks(w) \/ WaitEnds(w)
Use(u) == AddEvent(u) \/ AddPublishes(u) \/ RemoveEvent(u) \/ UserLeaves(u)
Present == Trigger \/ PresentEnds
Delete == BeginClose \/ DrainSleeps \/ UnregisterQueue \/ Destroy \/ DeleteEnds
Close == CloseCollects \/ CloseDeletes \/ CloseUnpins \/ CloseWaits \/ CloseEnds

EqueueNext ==
  \/ CreateQueue \/ MarkClosing \/ PresentBegins \/ CloseBegins \/ Reopen
  \/ \E w \in EventWaiters : WaitBegins(w) \/ WaitExpires(w) \/ Wait(w)
  \/ \E u \in Users : AddBegins(u) \/ RemoveBegins(u) \/ Use(u)
  \/ Present \/ Delete \/ Close

EqueueSpec == EqueueInit /\ [][EqueueNext]_equeueVars

\* A thread that is not blocked goes on; nothing makes it start a call, and no
\* wait has a deadline that must come.
Fairness ==
  /\ \A w \in EventWaiters : WF_equeueVars(Wait(w))
  /\ \A u \in Users : WF_equeueVars(Use(u))
  /\ WF_equeueVars(Present) /\ WF_equeueVars(Delete) /\ WF_equeueVars(Close)

EqueueFairSpec == EqueueSpec /\ Fairness

-----------------------------------------------------------------------------
(* Properties *)

Places == {"idle", "inside", "asleep", "expired", "leaving", "adding", "added", "removing",
           "triggering", "marked", "draining", "destroying", "destroyed",
           "quiescing", "deleting", "unpinning"}

EqueueTypeOK ==
  /\ at \in [EqueueThreads -> Places]
  /\ nextGeneration \in 1 .. MaxGeneration + 1
  /\ lifetime \in [generation : 0 .. MaxGeneration, pins : Nat, closing : BOOLEAN]
  /\ closingGens \subseteq AnyGeneration /\ awaited \subseteq AnyGeneration
  /\ object \in 0 .. MaxGeneration /\ queueClosing \in BOOLEAN
  /\ event \in [count : 0 .. MaxPending, binding : Bindings \cup {NoBinding}]
  /\ binding \in [Bindings -> [state : {"free", "begun", "published", "deleted"},
                               generation : 0 .. MaxGeneration]]
  /\ sessionState \in {"open", "closing", "closed"}
  /\ pin \in [EqueueThreads -> 0 .. MaxGeneration]
  /\ mine \in [Users -> Bindings \cup {NoBinding}]
  /\ asleepOnLifetime \subseteq {Deleter, SessionCloser}

Pinning == {t \in EqueueThreads : pin[t] # 0}

(***************************************************************************)
(* A pin keeps its queue: whoever is inside a call works on the object it  *)
(* pinned, of the generation it pinned, and the registry counts exactly    *)
(* those.  KernelDeleteEqueue frees the object when none is left and the   *)
(* address is free for a successor (ReleaseEqueue, KernelAcquireEqueue).   *)
(***************************************************************************)
PinKeepsQueue ==
  /\ EqueueTypeOK
  /\ \A t \in Pinning : pin[t] = object /\ pin[t] = lifetime.generation
  /\ lifetime.generation # 0 => lifetime.pins = Cardinality(Pinning)
  /\ at[Deleter] \in {"marked", "draining"} => object = lifetime.generation /\ lifetime.closing

(***************************************************************************)
(* A binding is released once, and only when neither the event of a queue  *)
(* nor the thread that registers it still uses it; what the checks of      *)
(* flip_event_delete_func and Close assert of it holds: an event's binding *)
(* was not deleted before, and the session that closes finds its bindings  *)
(* published, and none left at the end.                                    *)
(***************************************************************************)
BindingsAreSound ==
  /\ event.binding # NoBinding =>
       /\ binding[event.binding].state \in {"begun", "published"}
       /\ binding[event.binding].generation = object
  /\ \A u \in Users : mine[u] # NoBinding => ~Free(mine[u])
  /\ \A b \in Published : b = event.binding
  /\ at[SessionCloser] \in {"deleting", "unpinning"} => Listed \subseteq Published
  /\ at[SessionCloser] = "deleting" /\ pin[SessionCloser] = 0 /\ awaited = {} =>
       \A b \in Bindings : Free(b)

(***************************************************************************)
(* No waiter sleeps beside an event that is left for it: as long as one    *)
(* sleeps, the deliveries outstanding are not more than the waiters that   *)
(* are still to look.  A trigger signals one waiter only, and what it      *)
(* triggered may be taken by another.                                      *)
(***************************************************************************)
NoWaiterMissed ==
  WaitersAt({"asleep"}) # {} => event.count <= Cardinality(WaitersAt({"inside", "expired"}))

(***************************************************************************)
(* Deletion and close end, although each waits for other threads: deletion *)
(* for the pins of waits without a deadline, close for the queues that are *)
(* being deleted.                                                          *)
(***************************************************************************)
DrainsEnd == []<>(at[Deleter] = "idle") /\ []<>(at[SessionCloser] = "idle")
=============================================================================
