---------------------------- MODULE PthreadCond ----------------------------
(***************************************************************************)
(* A guest condition variable (PthreadCond.cpp) and the mutex it is used   *)
(* with.  Its PthreadCondState is held by the waiters too and outlives the *)
(* condition, so states have identities; `handle` is the condition's own.  *)
(* A state's lock is taken apart from the guest mutex and held while the   *)
(* latter is released.                                                     *)
(***************************************************************************)
EXTENDS PthreadMutex

CONSTANTS Waiters, Signallers,  \* the threads that lock and wait, and those that signal
          States,       \* identities of PthreadCondState objects
          NoState,
          MaxSignals    \* bound: the generations of a state

ASSUME CondAssumption ==
  /\ Waiters \subseteq Threads /\ Signallers \subseteq Threads
  /\ IsFiniteSet(States) /\ NoState \notin States /\ MaxSignals \in Nat

VARIABLES handle,                         \* (*cond)->state, NoState: none yet
          condLock, generation, waiters,  \* per state; condLock is its holder
          state, seen, saved, verdict,    \* per thread: locals of wait_for_signal
          timed, expired,                 \* threads whose wait has a deadline,
                                          \* and those whose deadline is past
          asleep                          \* threads asleep on the cv of their state

stateVars == <<handle, condLock, generation, waiters>>
waitVars == <<state, seen, saved, verdict, timed, expired, asleep>>
condVars == <<stateVars, waitVars>>
allVars == <<vars, condVars>>

(* A wait inside the state; and all of it, from the release of the mutex's *)
(* ownership until it is restored.                                         *)
InState == {"condEnter", "condUnlock", "condCheck"}
WaitPcs == InState \cup {"relock", "restore"}
SignalPcs == {"signal", "broadcast"}

CondTypeOK ==
  /\ TypeOK
  /\ pc \in [Threads -> MutexPcs \cup WaitPcs \cup SignalPcs]
  /\ handle \in States \cup {NoState}
  /\ condLock \in [States -> Threads \cup {Nobody}]
  /\ generation \in [States -> 0..MaxSignals]
  /\ waiters \in [States -> Nat]
  /\ state \in [Threads -> States \cup {NoState}]
  /\ seen \in [Threads -> 0..MaxSignals]
  /\ saved \in [Threads -> Nat]
  /\ verdict \in [Threads -> MutexResults]
  /\ timed \in SUBSET Threads /\ expired \in SUBSET Threads /\ asleep \in SUBSET Threads

CondInit ==
  /\ Init
  /\ handle = NoState
  /\ condLock = [s \in States |-> Nobody]
  /\ generation = [s \in States |-> 0]
  /\ waiters = [s \in States |-> 0]
  /\ state = [t \in Threads |-> NoState]
  /\ seen = [t \in Threads |-> 0]
  /\ saved = [t \in Threads |-> 0]
  /\ verdict = [t \in Threads |-> "None"]
  /\ timed = {} /\ expired = {} /\ asleep = {}

----------------------------------------------------------------------------
(* CreateObject: the first use of a condition makes its state, one no      *)
(* thread refers to.                                                       *)

Unused == {s \in States : s # handle /\ \A t \in Threads : state[t] # s}

UseState(s) ==
  /\ handle' = s
  /\ \/ handle = s /\ UNCHANGED generation
     \/ /\ handle = NoState /\ s \in Unused
        /\ generation' = [generation EXCEPT ![s] = 0]

----------------------------------------------------------------------------
(* wait_for_signal *)

(* Is the host mutex released with its ownership?  Mutant: it is, before   *)
(* the state has counted the thread.                                       *)
ReleasedEarly == host' = Nobody
ReleasedLater == UNCHANGED host

CondWait(t, hasDeadline) ==
  /\ t \in Waiters /\ pc[t] = "idle"
  /\ \E s \in States :
       /\ UseState(s)
       /\ IF HeldByCaller(t)
            THEN /\ saved' = [saved EXCEPT ![t] = recursionCount]
                 /\ DropOwnership /\ ReleasedLater
                 /\ state' = [state EXCEPT ![t] = s]
                 /\ timed' = IF hasDeadline THEN timed \cup {t} ELSE timed
                 /\ GoTo(t, "condEnter")
            ELSE /\ Return(t, "EPERM")
                 /\ UNCHANGED <<saved, owner, recursionCount, host, state, timed>>
  /\ UNCHANGED <<type, locked, condLock, waiters, seen, verdict, expired, asleep>>

CondEnter(t) ==
  /\ pc[t] = "condEnter" /\ condLock[state[t]] = Nobody
  /\ condLock' = [condLock EXCEPT ![state[t]] = t]
  /\ seen' = [seen EXCEPT ![t] = generation[state[t]]]
  /\ waiters' = [waiters EXCEPT ![state[t]] = @ + 1]
  /\ GoTo(t, "condUnlock")
  /\ UNCHANGED <<mutexVars, handle, generation, state, saved, verdict, timed, expired, asleep>>

(* pthread_mutex_unlock, with the state's lock held. *)
CondUnlock(t) ==
  /\ pc[t] = "condUnlock"
  /\ host' = Nobody
  /\ GoTo(t, "condCheck")
  /\ UNCHANGED <<type, owner, recursionCount, locked, condVars>>

(* Has a signal come since the wait began?                                 *)
Signalled(t) == generation[state[t]] # seen[t]

(* Is the deadline past? *)
TimedOut(t) == t \in expired

(* The waiters without this one. *)
OneFewer(s) == waiters[s] - 1

(* The loop, with the state's lock, which a thread that sleeps gives up    *)
(* and one that wakes takes again.                                         *)
CondCheck(t) ==
  /\ pc[t] = "condCheck" /\ t \notin asleep
  /\ condLock[state[t]] \in {t, Nobody}
  /\ condLock' = [condLock EXCEPT ![state[t]] = Nobody]
  /\ \/ /\ Signalled(t) \/ TimedOut(t)
        /\ waiters' = [waiters EXCEPT ![state[t]] = OneFewer(state[t])]
        /\ verdict' = [verdict EXCEPT ![t] = IF Signalled(t) THEN "OK" ELSE "ETIMEDOUT"]
        /\ GoTo(t, "relock") /\ UNCHANGED asleep
     \/ /\ ~Signalled(t) /\ ~TimedOut(t)
        /\ asleep' = asleep \cup {t}
        /\ UNCHANGED <<waiters, verdict, pc, result>>
  /\ UNCHANGED <<mutexVars, handle, generation, state, seen, saved, timed, expired>>

CondRelock(t) ==
  /\ pc[t] = "relock" /\ host = Nobody
  /\ host' = t
  /\ GoTo(t, "restore")
  /\ UNCHANGED <<type, owner, recursionCount, locked, condVars>>

(* The depth the thread gets back.  Mutant: that of a first lock. *)
FirstDepth(t) == 1
SavedDepth(t) == saved[t]

(* The locals die with the call. *)
CondRestore(t) ==
  /\ pc[t] = "restore"
  /\ owner' = t
  /\ recursionCount' = SavedDepth(t)
  /\ Return(t, verdict[t])
  /\ state' = [state EXCEPT ![t] = NoState]
  /\ seen' = [seen EXCEPT ![t] = 0]
  /\ saved' = [saved EXCEPT ![t] = 0]
  /\ verdict' = [verdict EXCEPT ![t] = "None"]
  /\ timed' = timed \ {t} /\ expired' = expired \ {t}
  /\ UNCHANGED <<type, host, locked, stateVars, asleep>>

----------------------------------------------------------------------------
(* signal_cond_state: without waiters it does not take the lock.           *)

Pending(s) == Cardinality({t \in Threads : pc[t] \in SignalPcs /\ state[t] = s})

Signal(t, place) ==
  /\ t \in Signallers /\ pc[t] = "idle"
  /\ \E s \in States :
       /\ UseState(s)
       /\ IF waiters[s] = 0
            THEN Return(t, "OK") /\ UNCHANGED state
            ELSE /\ generation[s] + Pending(s) < MaxSignals
                 /\ GoTo(t, place)
                 /\ state' = [state EXCEPT ![t] = s]
  /\ UNCHANGED <<mutexVars, condLock, waiters, seen, saved, verdict, timed, expired, asleep>>

(* The threads it wakes.  Mutant: a broadcast wakes one. *)
Sleepers(s) == {t \in asleep : state[t] = s}
OneOf(s) == IF Sleepers(s) = {} THEN {{}} ELSE {{t} : t \in Sleepers(s)}
WakesOne(s, all) == OneOf(s)
Wakes(s, all) == IF all THEN {Sleepers(s)} ELSE OneOf(s)

(* May the signal go ahead?  It waits for no waiter. *)
LockFree(s) == condLock[s] = Nobody

SignalLocked(t) ==
  /\ pc[t] \in SignalPcs /\ LockFree(state[t])
  /\ generation' = [generation EXCEPT ![state[t]] = @ + 1]
  /\ \E W \in Wakes(state[t], pc[t] = "broadcast") : asleep' = asleep \ W
  /\ Return(t, "OK")
  /\ state' = [state EXCEPT ![t] = NoState]
  /\ UNCHANGED <<mutexVars, handle, condLock, waiters, seen, saved, verdict, timed, expired>>

(* PthreadCondDestroy.  The guest may destroy a condition when each of its *)
(* waiters has been signalled and nobody is signalling.                    *)
CondDestroy(t) ==
  /\ pc[t] = "idle" /\ handle # NoState
  /\ \A u \in Threads : state[u] = handle =>
       pc[u] \in {"condCheck", "relock", "restore"} /\ u \notin asleep /\ (pc[u] = "condCheck" => Signalled(u))
  /\ handle' = NoState
  /\ Return(t, "OK")
  /\ UNCHANGED <<mutexVars, condLock, generation, waiters, waitVars>>

----------------------------------------------------------------------------
SpuriousWake(t) ==
  /\ t \in asleep
  /\ asleep' = asleep \ {t}
  /\ UNCHANGED <<vars, stateVars, state, seen, saved, verdict, timed, expired>>

Expire(t) ==
  /\ t \in timed \ expired /\ pc[t] = "condCheck"
  /\ expired' = expired \cup {t}
  /\ asleep' = asleep \ {t}
  /\ UNCHANGED <<vars, stateVars, state, seen, saved, verdict, timed>>

CondStep(t) ==
  \/ t \in Waiters /\ Step(t) /\ UNCHANGED condVars
  \/ \E d \in BOOLEAN : CondWait(t, d)
  \/ CondEnter(t) \/ CondUnlock(t) \/ CondCheck(t) \/ CondRelock(t) \/ CondRestore(t)
  \/ \E place \in SignalPcs : Signal(t, place)
  \/ SignalLocked(t) \/ CondDestroy(t) \/ SpuriousWake(t) \/ Expire(t)

CondSpec == CondInit /\ [][\E t \in Threads : CondStep(t)]_allVars

----------------------------------------------------------------------------
(* Properties *)

(* "Changed under the lock while the waiter still holds the guest mutex,   *)
(* so a signal sent after that mutex is released can skip the lock when it *)
(* is 0" (PthreadCondState): a wait that has released the mutex is counted *)
(* until it leaves the state.                                              *)
ReleasedIsCounted ==
  /\ CondTypeOK
  /\ \A t \in Threads : pc[t] \in InState /\ host # t => waiters[state[t]] > 0

(* "Wakes one waiter, or all of them, that started waiting before this     *)
(* call" (signal_cond_state): when a signal moves the generation of a      *)
(* state with waiters, one of those that were there is on its way out, and *)
(* a broadcast leaves none of them behind.                                 *)
WaitingOn(s) == {t \in Threads : pc[t] = "condCheck" /\ state[t] = s}
Released(t, s) == t \notin asleep' /\ seen[t] # generation'[s]
SignalReachesAWaiter ==
  [][\A k \in Threads, s \in States :
       (pc[k] \in SignalPcs /\ state[k] = s /\ generation'[s] # generation[s] /\ WaitingOn(s) # {})
         => /\ \E t \in WaitingOn(s) : Released(t, s)
            /\ pc[k] = "broadcast" /\ pc'[k] = "idle" => \A t \in WaitingOn(s) : Released(t, s)]_allVars
=============================================================================
