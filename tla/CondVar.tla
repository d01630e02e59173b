------------------------------ MODULE CondVar ------------------------------
(***************************************************************************)
(* Core::CondVar on Linux (src/source/lib/Core/src/Threads.cpp): waiters   *)
(* sleep on a sequence word by futex and each signal advances it.  A step  *)
(* is one access to an atomic, one operation of the mutex, or one system   *)
(* call.                                                                   *)
(*                                                                         *)
(* Its client is the monitor all users build from it: tokens under the     *)
(* mutex, threads that wait for one, threads that add one and then signal, *)
(* before or after they give the mutex back.                               *)
(***************************************************************************)
EXTENDS Naturals, FiniteSets

CONSTANTS Threads, Nobody,
          Modulus,     \* the sequence is a counter modulo 2^32
          MaxTokens    \* bound on the client's tokens

ASSUME CondVarAssumption ==
  /\ Nobody \notin Threads /\ IsFiniteSet(Threads)
  /\ Modulus \in Nat /\ Modulus > 1 /\ MaxTokens \in Nat

VARIABLES
  sequence, waiters,   \* CondVarPrivate
  holder,              \* of the mutex
  tokens,              \* the client's state
  location, seen,      \* per thread: where it is; the sequence it has loaded
  signal,              \* per thread: the kind of its signal
  due, done            \* history, as in AtomicCondVar

condVars == <<sequence, waiters>>
history == <<due, done>>
monitorVars == <<condVars, holder, tokens, location, seen, signal, history>>

(* The places of a wait that count in `waiters`.                           *)
Counted == {"load", "unlock", "sleep", "asleep", "awake"}
Locations ==
  {"outside", "inside", "relock", "added", "signal", "look", "wake", "signalled", "leave"}
    \cup Counted

At(places) == {t \in Threads : location[t] \in places}

CondVarTypeOK ==
  /\ sequence \in 0 .. Modulus - 1 /\ waiters \in Nat
  /\ holder \in Threads \cup {Nobody} /\ tokens \in 0 .. MaxTokens
  /\ location \in [Threads -> Locations] /\ seen \in [Threads -> 0 .. Modulus - 1]
  /\ signal \in [Threads -> {"none", "one", "all"}]
  /\ due \in [Threads -> SUBSET Threads] /\ done \in [Threads -> BOOLEAN]

CondVarInit ==
  /\ sequence = 0 /\ waiters = 0 /\ holder = Nobody /\ tokens = 0
  /\ location = [t \in Threads |-> "outside"] /\ seen = [t \in Threads |-> 0]
  /\ signal = [t \in Threads |-> "none"]
  /\ due = [t \in Threads |-> {}] /\ done = [t \in Threads |-> FALSE]

GoTo(t, place) == location' = [location EXCEPT ![t] = place]

(* Who waits, seen from outside: a thread that has unlocked the mutex and  *)
(* that no signal has reached.                                             *)
AwaitingSignal == At({"asleep"}) \cup {t \in At({"sleep"}) : seen[t] = sequence}

(* History: those in `left` wait no more.                                  *)
Left(left) ==
  IF left = {} THEN UNCHANGED history
  ELSE /\ due' = [t \in Threads |-> due[t] \ left]
       /\ done' = [t \in Threads |-> signal[t] # "none"]

----------------------------------------------------------------------------
(* The mutex                                                               *)

Lock(t) ==
  /\ location[t] \in {"outside", "relock"}
  /\ holder = Nobody /\ holder' = t
  /\ GoTo(t, "inside")
  /\ UNCHANGED <<condVars, tokens, seen, signal, history>>

----------------------------------------------------------------------------
(* CondVar::Wait and WaitFor                                               *)

WaitAdds(t) ==
  /\ location[t] = "inside" /\ tokens = 0
  /\ waiters' = waiters + 1
  /\ GoTo(t, "load")
  /\ UNCHANGED <<sequence, holder, tokens, seen, signal, history>>

WaitLoads(t) ==
  /\ location[t] = "load"
  /\ seen' = [seen EXCEPT ![t] = sequence]
  /\ GoTo(t, "unlock")
  /\ UNCHANGED <<condVars, holder, tokens, signal, history>>

WaitUnlocks(t) ==
  /\ location[t] = "unlock"
  /\ holder' = Nobody
  /\ GoTo(t, "sleep")
  /\ UNCHANGED <<condVars, tokens, seen, signal, history>>

(* FutexWait: the kernel compares the word and sleeps in one step.  What   *)
(* was loaded is of no use any more.                                       *)
FutexWait(t) ==
  /\ location[t] = "sleep"
  /\ GoTo(t, IF seen[t] = sequence THEN "asleep" ELSE "awake")
  /\ seen' = [seen EXCEPT ![t] = 0]
  /\ UNCHANGED <<condVars, holder, tokens, signal, history>>

(* The time has passed, or a host signal has come.                         *)
SleepEnds(t) ==
  /\ location[t] = "asleep"
  /\ GoTo(t, "awake")
  /\ Left({t})
  /\ UNCHANGED <<condVars, holder, tokens, seen, signal>>

WaitSubtracts(t) ==
  /\ location[t] = "awake"
  /\ waiters' = waiters - 1
  /\ GoTo(t, "relock")
  /\ UNCHANGED <<sequence, holder, tokens, seen, signal, history>>

----------------------------------------------------------------------------
(* CondVar::Signal and SignalAll                                           *)

(* No thread is held up between its load and its sleep while 2^32 signals  *)
(* are sent.                                                               *)
Advanced == (sequence + 1) % Modulus
NoWrap == \A t \in At({"unlock", "sleep"}) : seen[t] # Advanced

(* Mutant: the sequence stays.                                             *)
SignalStays(t) ==
  /\ location[t] = "signal"
  /\ GoTo(t, "look")
  /\ UNCHANGED <<condVars, holder, tokens, seen, signal, history>>
SignalAdvances(t) ==
  /\ location[t] = "signal" /\ NoWrap
  /\ sequence' = Advanced
  /\ Left({u \in At({"sleep"}) : seen[u] = sequence})
  /\ GoTo(t, "look")
  /\ UNCHANGED <<waiters, holder, tokens, seen, signal>>

(* Mutant: a single waiter is taken for the caller itself.                 *)
SignalLooksForTwo(t) ==
  /\ location[t] = "look"
  /\ GoTo(t, IF waiters <= 1 THEN "signalled" ELSE "wake")
  /\ UNCHANGED <<condVars, holder, tokens, seen, signal, history>>
SignalLooks(t) ==
  /\ location[t] = "look"
  /\ GoTo(t, IF waiters = 0 THEN "signalled" ELSE "wake")
  /\ UNCHANGED <<condVars, holder, tokens, seen, signal, history>>

(* FutexWake: the kernel wakes one sleeper, any one, or all.               *)
Woken(t) ==
  IF signal[t] = "all" THEN {At({"asleep"})}
  ELSE IF At({"asleep"}) = {} THEN {{}} ELSE {{u} : u \in At({"asleep"})}

FutexWake(t) ==
  /\ location[t] = "wake"
  /\ \E woken \in Woken(t) :
       /\ location' = [u \in Threads |-> IF u = t THEN "signalled"
                                         ELSE IF u \in woken THEN "awake" ELSE location[u]]
       /\ Left(woken)
  /\ UNCHANGED <<condVars, holder, tokens, seen, signal>>

----------------------------------------------------------------------------
(* The client                                                              *)

Take(t) ==
  /\ location[t] = "inside" /\ tokens > 0
  /\ tokens' = tokens - 1
  /\ holder' = Nobody
  /\ GoTo(t, "outside")
  /\ UNCHANGED <<condVars, seen, signal, history>>

Add(t, unlocked) ==
  /\ location[t] = "inside" /\ tokens < MaxTokens
  /\ tokens' = tokens + 1
  /\ holder' = IF unlocked THEN Nobody ELSE t
  /\ GoTo(t, "added")
  /\ UNCHANGED <<condVars, seen, signal, history>>

SignalCalled(t, kind) ==
  /\ location[t] = "added"
  /\ signal' = [signal EXCEPT ![t] = kind]
  /\ due' = [due EXCEPT ![t] = AwaitingSignal]
  /\ done' = [done EXCEPT ![t] = AwaitingSignal = {}]
  /\ GoTo(t, "signal")
  /\ UNCHANGED <<condVars, holder, tokens, seen>>

SignalReturns(t) ==
  /\ location[t] = "signalled"
  /\ signal' = [signal EXCEPT ![t] = "none"]
  /\ due' = [due EXCEPT ![t] = {}] /\ done' = [done EXCEPT ![t] = FALSE]
  /\ GoTo(t, IF holder = t THEN "leave" ELSE "outside")
  /\ UNCHANGED <<condVars, holder, tokens, seen>>

Unlock(t) ==
  /\ location[t] = "leave"
  /\ holder' = Nobody
  /\ GoTo(t, "outside")
  /\ UNCHANGED <<condVars, tokens, seen, signal, history>>

----------------------------------------------------------------------------
InWait(t) == WaitLoads(t) \/ WaitUnlocks(t) \/ FutexWait(t) \/ WaitSubtracts(t)
InSignal(t) == SignalAdvances(t) \/ SignalLooks(t) \/ FutexWake(t) \/ SignalReturns(t)
Decides(t) ==
  \/ WaitAdds(t) \/ Take(t) \/ Unlock(t)
  \/ \E unlocked \in BOOLEAN : Add(t, unlocked)
  \/ \E kind \in {"one", "all"} : SignalCalled(t, kind)

CondVarNext == \E t \in Threads : Lock(t) \/ InWait(t) \/ InSignal(t) \/ Decides(t) \/ SleepEnds(t)

CondVarSpec == CondVarInit /\ [][CondVarNext]_monitorVars

(* Threads are scheduled, and one that wants the mutex back is not passed  *)
(* over for ever.  Nobody need come in from outside; sleep need not end.   *)
CondVarFairness ==
  \A t \in Threads :
    /\ WF_monitorVars(InWait(t) \/ InSignal(t) \/ Decides(t))
    /\ SF_monitorVars(location[t] = "relock" /\ Lock(t))

CondVarFairSpec == CondVarSpec /\ CondVarFairness

----------------------------------------------------------------------------
(* Properties *)

Atomic == INSTANCE AtomicCondVar WITH waiting <- AwaitingSignal

(***************************************************************************)
(* Threads.cpp:808, "either the signal sees this waiter or this waiter     *)
(* sees the new sequence": the condition variable is the atomic one that   *)
(* its users take it for.  No signal returns that has passed by everybody  *)
(* who waited, and SignalAll passes by nobody.                             *)
(***************************************************************************)
ImplementsAtomic == Atomic!Spec

(***************************************************************************)
(* The look at `waiters` that spares a system call: while it reads 0       *)
(* nobody is asleep or will be before the next signal, and the mutex has   *)
(* one holder, which is the thread inside.                                 *)
(***************************************************************************)
LookIsSafe ==
  /\ CondVarTypeOK
  /\ waiters = Cardinality(At(Counted))
  /\ At({"inside", "load", "unlock", "leave"}) \subseteq {holder}

(***************************************************************************)
(* A waiter does not sleep on while there are tokens: the signals that     *)
(* come with the tokens, inside the mutex or after it, are enough.         *)
(***************************************************************************)
TokenIsTaken == \A t \in Threads : []<>(t \notin AwaitingSignal \/ tokens = 0)
=============================================================================
