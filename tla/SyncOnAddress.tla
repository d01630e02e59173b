--------------------------- MODULE SyncOnAddress ---------------------------
(***************************************************************************)
(* Waits on one guest address (SyncOnAddress.cpp): a waiter registers with *)
(* the AddressWaitState of the address and sleeps while the word at the    *)
(* address is as expected; a wake moves the state's generation under its   *)
(* mutex and signals the condition variable after it has let the mutex go. *)
(*                                                                         *)
(* A state lives in g_address_states while it has waiters.  A wake may     *)
(* still hold one that has been erased, so states have identities.         *)
(* Rejected arguments change nothing and are not modelled.                 *)
(***************************************************************************)
EXTENDS Integers, FiniteSets

CONSTANTS Waiters, Wakers,  \* guest threads, by what they call
          States,           \* identities of AddressWaitState objects
          NoState,
          Values,           \* of the word at the address
          InitValue,
          WakeCounts,       \* the counts of the wakes
          TimedChoices,     \* may a wait have a time-out?
          MaxWakes          \* bound: the wakes made

ASSUME AddressAssumption ==
  /\ IsFiniteSet(Waiters) /\ IsFiniteSet(Wakers) /\ IsFiniteSet(States)
  /\ NoState \notin States
  /\ InitValue \in Values
  /\ WakeCounts \subseteq Int
  /\ TimedChoices \subseteq BOOLEAN
  /\ MaxWakes \in Nat

VARIABLES value,        \* the word at the address
          slot,         \* g_address_states[address]
          generation, waiterCount,   \* per state
          pc, registration, expected, timed, expired, result,  \* per waiter
          asleep,       \* waiters asleep on the cv of their state
          wake,         \* per waker: where it is and what it has to signal
          wakesMade     \* for the bound

vars == <<value, slot, generation, waiterCount, pc, registration, expected,
          timed, expired, result, asleep, wake, wakesMade>>
waiterVars == <<pc, registration, expected, timed, expired, result>>

NoRegistration == [state |-> NoState, generation |-> 0]
NoWake == [at |-> "idle", count |-> 0, waiters |-> 0, state |-> NoState]

TypeOK ==
  /\ value \in Values
  /\ slot \in States \cup {NoState}
  /\ generation \in [States -> 0..MaxWakes]
  /\ waiterCount \in [States -> Nat]
  /\ pc \in [Waiters -> {"idle", "check", "leave"}]
  /\ registration \in [Waiters -> [state : States \cup {NoState}, generation : 0..MaxWakes]]
  /\ expected \in [Waiters -> Values]
  /\ timed \in [Waiters -> BOOLEAN]
  /\ expired \in SUBSET Waiters
  /\ result \in [Waiters -> {"None", "OK", "ETIMEDOUT"}]
  /\ asleep \in SUBSET Waiters
  /\ wake \in [Wakers -> [at : {"idle", "lookup", "signal"}, count : Int,
                          waiters : Nat, state : States \cup {NoState}]]
  /\ wakesMade \in 0..MaxWakes

(* The waiters that hold a registration with state s. *)
Registered(s) == {t \in Waiters : pc[t] # "idle" /\ registration[t].state = s}

Sleepers(s) == {t \in asleep : registration[t].state = s}

(* make_shared: an object nobody refers to any more stands for a new one. *)
Unused == {s \in States : /\ s # slot /\ Registered(s) = {}
                          /\ \A k \in Wakers : wake[k].state # s}

Init ==
  /\ value = InitValue
  /\ slot = NoState
  /\ generation = [s \in States |-> 0]
  /\ waiterCount = [s \in States |-> 0]
  /\ pc = [t \in Waiters |-> "idle"]
  /\ registration = [t \in Waiters |-> NoRegistration]
  /\ expected = [t \in Waiters |-> InitValue]
  /\ timed = [t \in Waiters |-> FALSE]
  /\ expired = {}
  /\ result = [t \in Waiters |-> "None"]
  /\ asleep = {}
  /\ wake = [k \in Wakers |-> NoWake]
  /\ wakesMade = 0

----------------------------------------------------------------------------
(* WaitWhileEqual *)

RegisterWaiter(t, e, f) ==
  /\ pc[t] = "idle"
  /\ \E s \in IF slot = NoState THEN Unused ELSE {slot} :
       /\ slot' = s
       /\ IF slot = NoState
            THEN /\ generation' = [generation EXCEPT ![s] = 0]
                 /\ waiterCount' = [waiterCount EXCEPT ![s] = 1]
            ELSE /\ waiterCount' = [waiterCount EXCEPT ![s] = @ + 1]
                 /\ UNCHANGED generation
       /\ registration' = [registration EXCEPT ![t] = [state |-> s, generation |-> generation'[s]]]
  /\ pc' = [pc EXCEPT ![t] = "check"]
  /\ expected' = [expected EXCEPT ![t] = e]
  /\ timed' = [timed EXCEPT ![t] = f]
  /\ result' = [result EXCEPT ![t] = "None"]
  /\ UNCHANGED <<value, expired, asleep, wake, wakesMade>>

(* The lambda `changed`.  Mutant: it looks at the word only. *)
WordChanged(t) == value # expected[t]
Changed(t) ==
  \/ generation[registration[t].state] # registration[t].generation
  \/ value # expected[t]

(* Has no time remained? *)
TimedOut(t) == t \in expired

(* One turn of the loop, under the state's mutex.  The guest writes the    *)
(* word without the mutex; a write after the word is read is one after the *)
(* thread is asleep, as nothing else tells them apart.                     *)
Check(t) ==
  /\ pc[t] = "check" /\ t \notin asleep
  /\ \/ /\ Changed(t) \/ TimedOut(t)
        /\ pc' = [pc EXCEPT ![t] = "leave"]
        /\ result' = [result EXCEPT ![t] = IF Changed(t) THEN "OK" ELSE "ETIMEDOUT"]
        /\ UNCHANGED asleep
     \/ /\ ~Changed(t) /\ ~TimedOut(t)
        /\ asleep' = asleep \cup {t}
        /\ UNCHANGED <<pc, result>>
  /\ UNCHANGED <<value, slot, generation, waiterCount, registration, expected, timed, expired, wake, wakesMade>>

(* The count without this waiter. *)
OneFewer(s) == waiterCount[s] - 1

(* Is this waiter the last of its state?  Mutant: another one remains.     *)
LastButOne(s) == waiterCount[s] <= 2
LastWaiter(s) == waiterCount[s] = 1

(* The waiter's locals die with the call. *)
UnregisterWaiter(t) ==
  /\ pc[t] = "leave"
  /\ LET s == registration[t].state
     IN IF slot = s
          THEN /\ waiterCount' = [waiterCount EXCEPT ![s] = OneFewer(s)]
               /\ slot' = IF LastWaiter(s) THEN NoState ELSE slot
          ELSE UNCHANGED <<waiterCount, slot>>
  /\ pc' = [pc EXCEPT ![t] = "idle"]
  /\ registration' = [registration EXCEPT ![t] = NoRegistration]
  /\ expected' = [expected EXCEPT ![t] = InitValue]
  /\ timed' = [timed EXCEPT ![t] = FALSE]
  /\ expired' = expired \ {t}
  /\ UNCHANGED <<value, generation, result, asleep, wake, wakesMade>>

----------------------------------------------------------------------------
(* WakeRegisteredWaiters *)

WakeEnter(k, n) ==
  /\ wake[k].at = "idle" /\ wakesMade < MaxWakes
  /\ wakesMade' = wakesMade + 1
  /\ wake' = [wake EXCEPT ![k] = [NoWake EXCEPT !.at = "lookup", !.count = n]]
  /\ UNCHANGED <<value, slot, generation, waiterCount, waiterVars, asleep>>

(* Is every waiter woken? *)
Covers(n, waiters) == n <= 0 \/ n >= waiters

(* The part under the mutexes. *)
WakeLookup(k) ==
  /\ wake[k].at = "lookup"
  /\ \/ /\ slot = NoState
        /\ wake' = [wake EXCEPT ![k] = NoWake]
        /\ UNCHANGED generation
     \/ /\ slot # NoState
        /\ generation' = [generation EXCEPT ![slot] = @ + 1]
        /\ wake' = [wake EXCEPT ![k] = [at |-> "signal", count |-> wake[k].count,
                                        waiters |-> waiterCount[slot], state |-> slot]]
  /\ UNCHANGED <<value, slot, waiterCount, waiterVars, asleep, wakesMade>>

WakesAll(k) == Covers(wake[k].count, wake[k].waiters)

(* SignalAll, or one Signal: of the sleepers it wakes any one. *)
WakeSignal(k) ==
  /\ wake[k].at = "signal"
  /\ LET s == wake[k].state
     IN \/ /\ WakesAll(k)
           /\ asleep' = asleep \ Sleepers(s)
        \/ /\ ~WakesAll(k) /\ Sleepers(s) = {}
           /\ UNCHANGED asleep
        \/ /\ ~WakesAll(k)
           /\ \E t \in Sleepers(s) : asleep' = asleep \ {t}
  /\ wake' = IF WakesAll(k) \/ wake[k].count = 1 THEN [wake EXCEPT ![k] = NoWake]
             ELSE [wake EXCEPT ![k].count = @ - 1]
  /\ UNCHANGED <<value, slot, generation, waiterCount, waiterVars, wakesMade>>

----------------------------------------------------------------------------
(* The guest writes the word; the condition variable; the clock. *)

Store(v) ==
  /\ value' = v /\ v # value
  /\ UNCHANGED <<slot, generation, waiterCount, waiterVars, asleep, wake, wakesMade>>

SpuriousWake(t) ==
  /\ t \in asleep
  /\ asleep' = asleep \ {t}
  /\ UNCHANGED <<value, slot, generation, waiterCount, waiterVars, wake, wakesMade>>

Expire(t) ==
  /\ timed[t] /\ pc[t] = "check" /\ t \notin expired
  /\ expired' = expired \cup {t}
  /\ asleep' = asleep \ {t}
  /\ UNCHANGED <<value, slot, generation, waiterCount, pc, registration,
                 expected, timed, result, wake, wakesMade>>

----------------------------------------------------------------------------
RunWaiter(t) == Check(t) \/ UnregisterWaiter(t)
RunWaker(k) == WakeLookup(k) \/ WakeSignal(k)

Next ==
  \/ \E t \in Waiters : \/ \E e \in Values, f \in TimedChoices : RegisterWaiter(t, e, f)
                        \/ RunWaiter(t) \/ SpuriousWake(t) \/ Expire(t)
  \/ \E k \in Wakers : (\E n \in WakeCounts : WakeEnter(k, n)) \/ RunWaker(k)
  \/ \E v \in Values : Store(v)

Spec == Init /\ [][Next]_vars

(* A thread that can run does run, and time passes. *)
FairSpec ==
  /\ Spec
  /\ \A t \in Waiters : WF_vars(RunWaiter(t)) /\ WF_vars(Expire(t))
  /\ \A k \in Wakers : WF_vars(RunWaker(k))

----------------------------------------------------------------------------
(* Properties *)

(* Every waiter is registered with the state a wake would find, so that no *)
(* wake misses it, and waiter_count is the number of the registered: the   *)
(* EXIT_IF of UnregisterWaiter is never taken.                             *)
WaitersShareState ==
  /\ TypeOK
  /\ \A t \in Waiters : pc[t] # "idle" => registration[t].state = slot
  /\ slot # NoState => /\ waiterCount[slot] = Cardinality(Registered(slot))
                      /\ waiterCount[slot] > 0

(* Has waiter t registered with state s before its generation moved? *)
Outdated(t, s) == /\ pc[t] # "idle" /\ registration[t].state = s
                  /\ registration[t].generation < generation[s]

(* A wake whose count is zero or covers every waiter makes every waiter    *)
(* return that had registered before it.                                   *)
CoveredWaitersReturn ==
  \A k \in Wakers, t \in Waiters :
    wake[k].at = "signal" /\ WakesAll(k) /\ Outdated(t, wake[k].state) ~> pc[t] = "idle"

(* A guest that writes the word and then wakes every waiter is never       *)
(* missed by a waiter that expects the old value, unless that value comes  *)
(* back: the registration is made before the word is read.                 *)
WakeAfterStore ==
  \A k \in Wakers, t \in Waiters :
    wake[k].at = "lookup" /\ wake[k].count <= 0 /\ pc[t] # "idle" /\ value # expected[t]
      ~> pc[t] = "idle"
=============================================================================
