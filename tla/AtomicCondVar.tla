--------------------------- MODULE AtomicCondVar ---------------------------
(***************************************************************************)
(* What Core::CondVar promises, and what the other modules take it to do:  *)
(* a wait gives up the mutex and begins to sleep in one step, a sleeper    *)
(* may leave at any time, and a signal does not return before it has made  *)
(* its difference.  AtomicCondVar has no counter, no sequence and no futex.*)
(***************************************************************************)

CONSTANTS Threads, Nobody

VARIABLES
  holder,    \* the thread that holds the mutex
  waiting,   \* threads that sleep on the condition variable
  signal,    \* per thread: the signal it is sending
  due,       \* per thread: who has waited since its signal began
  done       \* per thread: has anybody left since, or did nobody wait?

vars == <<holder, waiting, signal, due, done>>

Init ==
  /\ holder = Nobody /\ waiting = {}
  /\ signal = [t \in Threads |-> "none"]
  /\ due = [t \in Threads |-> {}] /\ done = [t \in Threads |-> FALSE]

Acquire(t) ==
  /\ holder = Nobody /\ t \notin waiting
  /\ holder' = t
  /\ UNCHANGED <<waiting, signal, due, done>>

Release(t) ==
  /\ holder = t
  /\ holder' = Nobody
  /\ UNCHANGED <<waiting, signal, due, done>>

Wait(t) ==
  /\ holder = t
  /\ holder' = Nobody
  /\ waiting' = waiting \cup {t}
  /\ UNCHANGED <<signal, due, done>>

(* For whatever reason: a signal, the time, or none at all.                *)
Leave ==
  /\ \E left \in SUBSET waiting :
       /\ left # {}
       /\ waiting' = waiting \ left
       /\ due' = [t \in Threads |-> due[t] \ left]
  /\ done' = [t \in Threads |-> signal[t] # "none"]
  /\ UNCHANGED <<holder, signal>>

SignalBegins(t, kind) ==
  /\ signal[t] = "none"
  /\ signal' = [signal EXCEPT ![t] = kind]
  /\ due' = [due EXCEPT ![t] = waiting]
  /\ done' = [done EXCEPT ![t] = waiting = {}]
  /\ UNCHANGED <<holder, waiting>>

(* Signal returns when somebody has left, SignalAll when everybody has.    *)
SignalEnds(t) ==
  /\ \/ signal[t] = "one" /\ done[t]
     \/ signal[t] = "all" /\ due[t] = {}
  /\ signal' = [signal EXCEPT ![t] = "none"]
  /\ due' = [due EXCEPT ![t] = {}] /\ done' = [done EXCEPT ![t] = FALSE]
  /\ UNCHANGED <<holder, waiting>>

Next ==
  \/ \E t \in Threads : Acquire(t) \/ Release(t) \/ Wait(t) \/ SignalEnds(t)
  \/ \E t \in Threads, kind \in {"one", "all"} : SignalBegins(t, kind)
  \/ Leave

Spec == Init /\ [][Next]_vars
=============================================================================
