----------------------------- MODULE WaitProofs -----------------------------
(***************************************************************************)
(* Proofs about what threads wait on: the condition variable (CondVar),    *)
(* the waits on an address (SyncOnAddress) and the event queues            *)
(* (EventQueue), for any threads, states, bindings and bounds.             *)
(***************************************************************************)
EXTENDS CondVar, SyncOnAddress, EventQueue, FiniteSetTheorems, TLAPS

----------------------------------------------------------------------------
(* The condition variable                                                  *)

InSignalCall == {"signal", "look", "wake", "signalled"}

(* What a signal has still to do, place by place: nobody that waited since *)
(* its beginning is missing from `due` or from those still waiting, and    *)
(* once the sequence has moved they are all asleep.                        *)
SignalInv(t) ==
  /\ signal[t] = "none" <=> location[t] \notin InSignalCall
  /\ due[t] \subseteq AwaitingSignal
  /\ location[t] = "signal" => done[t] \/ AwaitingSignal # {}
  /\ location[t] \in {"look", "wake"} => due[t] \subseteq At({"asleep"})
  /\ location[t] \in {"look", "wake"} => done[t] \/ At({"asleep"}) # {}
  /\ location[t] = "signalled" => IF signal[t] = "one" THEN done[t] ELSE due[t] = {}

CondInv == LookIsSafe /\ \A t \in Threads : SignalInv(t)

MonitorStep(t) == Lock(t) \/ InWait(t) \/ InSignal(t) \/ Decides(t) \/ SleepEnds(t)

----------------------------------------------------------------------------
(* Counting the threads in a wait                                          *)

LEMMA CountOfThreads ==
  ASSUME NEW S \in SUBSET Threads, NEW t \in Threads
  PROVE  /\ Cardinality(S) \in Nat
         /\ Cardinality(S) = 0 => S = {}
         /\ t \notin S => Cardinality(S \cup {t}) = Cardinality(S) + 1
         /\ t \in S => Cardinality(S) \in Nat \ {0} /\ Cardinality(S \ {t}) = Cardinality(S) - 1
<1>1. IsFiniteSet(S)
  BY CondVarAssumption, FS_Subset
<1>2. Cardinality(S) \in Nat /\ (Cardinality(S) = 0 <=> S = {})
  BY <1>1, FS_CardinalityType, FS_EmptySet
<1>3. QED
  BY <1>1, <1>2, FS_AddElement, FS_RemoveElement

(* The counter keeps up with the threads that are inside a wait.           *)
LEMMA CountStep ==
  ASSUME CondVarTypeOK, NEW t \in Threads, MonitorStep(t), waiters = Cardinality(At(Counted))
  PROVE  waiters' \in Nat /\ waiters' = Cardinality(At(Counted))'
<1> DEFINE In == At(Counted)
<1>0. In \in SUBSET Threads /\ location \in [Threads -> Locations]
  BY DEF At, CondVarTypeOK
<1>1. CASE WaitAdds(t)
  <2>1. t \notin In /\ At(Counted)' = In \cup {t} /\ waiters' = waiters + 1
    BY <1>1, <1>0 DEF WaitAdds, GoTo, At, Counted
  <2>2. QED
    BY <2>1, <1>0, CountOfThreads
<1>2. CASE WaitSubtracts(t)
  <2>1. t \in In /\ At(Counted)' = In \ {t} /\ waiters' = waiters - 1
    BY <1>2, <1>0 DEF WaitSubtracts, GoTo, At, Counted
  <2>2. QED
    BY <2>1, <1>0, CountOfThreads
<1>3. CASE ~ WaitAdds(t) /\ ~ WaitSubtracts(t)
  <2>1. At(Counted)' = In /\ waiters' = waiters
    <3> USE <1>0 DEF At, Counted, GoTo, condVars
    <3>1. CASE Lock(t) \/ Take(t) \/ Unlock(t)
      BY <3>1 DEF Lock, Take, Unlock
    <3>2. CASE \E unlocked \in BOOLEAN : Add(t, unlocked)
      BY <3>2 DEF Add
    <3>3. CASE \E kind \in {"one", "all"} : SignalCalled(t, kind)
      BY <3>3 DEF SignalCalled
    <3>4. CASE WaitLoads(t) \/ WaitUnlocks(t) \/ FutexWait(t) \/ SleepEnds(t)
      BY <3>4 DEF WaitLoads, WaitUnlocks, FutexWait, SleepEnds
    <3>5. CASE SignalAdvances(t) \/ SignalLooks(t) \/ SignalReturns(t)
      BY <3>5 DEF SignalAdvances, SignalLooks, SignalReturns
    <3>6. CASE FutexWake(t)
      BY <3>6 DEF FutexWake, Woken
    <3>7. QED
      BY <1>3, <3>1, <3>2, <3>3, <3>4, <3>5, <3>6 DEF MonitorStep, InWait, InSignal, Decides
  <2>2. QED
    BY <2>1 DEF CondVarTypeOK
<1>4. QED
  BY <1>1, <1>2, <1>3

----------------------------------------------------------------------------
(* The invariant                                                           *)

LEMMA CondVarInitially == CondVarInit => CondInv
<1> SUFFICES ASSUME CondVarInit PROVE CondInv
  OBVIOUS
<1>1. At(Counted) = {} /\ At({"inside", "load", "unlock", "leave"}) = {} /\ AwaitingSignal = {}
  BY DEF CondVarInit, At, Counted, AwaitingSignal
<1>2. LookIsSafe
  BY <1>1, FS_EmptySet, CondVarAssumption DEF CondVarInit, LookIsSafe, CondVarTypeOK, Locations
<1>3. \A t \in Threads : SignalInv(t)
  BY <1>1 DEF CondVarInit, SignalInv, InSignalCall
<1>4. QED
  BY <1>2, <1>3 DEF CondInv

(* The sequence moves on, and within its width.                            *)
LEMMA AdvancedInRange ==
  ASSUME sequence \in 0 .. Modulus - 1
  PROVE  Advanced \in 0 .. Modulus - 1 /\ Advanced # sequence
BY CondVarAssumption DEF Advanced

(* What it does to the history that the threads in L leave.                *)
LEMMA LeftEffect ==
  ASSUME CondVarTypeOK, NEW L \in SUBSET Threads, Left(L)
  PROVE  /\ due' \in [Threads -> SUBSET Threads] /\ done' \in [Threads -> BOOLEAN]
         /\ \A u \in Threads : due'[u] = due[u] \ L
         /\ \A u \in Threads : signal[u] # "none" => (done'[u] <=> done[u] \/ L # {})
<1>1. CASE L = {}
  <2>1. due' = due /\ done' = done
    BY <1>1 DEF Left, history
  <2>2. QED
    BY <1>1, <2>1 DEF CondVarTypeOK
<1>2. CASE L # {}
  <2>1. due' = [u \in Threads |-> due[u] \ L] /\ done' = [u \in Threads |-> signal[u] # "none"]
    BY <1>2 DEF Left
  <2>2. \A u \in Threads : due[u] \ L \in SUBSET Threads
    BY DEF CondVarTypeOK
  <2>3. QED
    BY <1>2, <2>1, <2>2
<1>3. QED
  BY <1>1, <1>2

(* The signals of others are served when threads leave.                    *)
LEMMA LeaveKeeps ==
  ASSUME CondInv, NEW L \in SUBSET Threads, Left(L), signal' = signal,
         AwaitingSignal' = AwaitingSignal \ L, At({"asleep"})' = At({"asleep"}) \ L,
         NEW u \in Threads, location'[u] = location[u] \/ {location[u], location'[u]} \cap InSignalCall = {}
  PROVE  SignalInv(u)'
<1>1. /\ due'[u] = due[u] \ L
      /\ signal[u] # "none" => (done'[u] <=> done[u] \/ L # {})
  BY LeftEffect DEF CondInv, LookIsSafe
<1>2. SignalInv(u)
  BY DEF CondInv
<1>3. QED
  BY <1>1, <1>2 DEF SignalInv, InSignalCall

(* Types, and the mutex has one holder, which is the thread inside.        *)
LEMMA CondVarTypeStep ==
  ASSUME CondInv, NEW t \in Threads, MonitorStep(t)
  PROVE  /\ CondVarTypeOK'
         /\ (At({"inside", "load", "unlock", "leave"}) \subseteq {holder})'
<1>0. waiters' \in Nat
  BY CountStep DEF CondInv, LookIsSafe
<1> USE <1>0, CondVarAssumption DEF CondInv, LookIsSafe, CondVarTypeOK, Locations, Counted, At, GoTo, condVars, history
<1> DEFINE Goal == CondVarTypeOK' /\ (At({"inside", "load", "unlock", "leave"}) \subseteq {holder})'
<1>1. ASSUME Lock(t) PROVE Goal
  BY <1>1 DEF Lock
<1>2. ASSUME WaitAdds(t) PROVE Goal
  BY <1>2 DEF WaitAdds
<1>3. ASSUME WaitLoads(t) PROVE Goal
  BY <1>3 DEF WaitLoads
<1>4. ASSUME WaitUnlocks(t) PROVE Goal
  BY <1>4 DEF WaitUnlocks
<1>5. ASSUME FutexWait(t) PROVE Goal
  BY <1>5 DEF FutexWait
<1>6. ASSUME SleepEnds(t) PROVE Goal
  <2>1. Left({t})
    BY <1>6 DEF SleepEnds
  <2>2. due' \in [Threads -> SUBSET Threads] /\ done' \in [Threads -> BOOLEAN]
    BY <2>1, LeftEffect
  <2>3. QED
    BY <1>6, <2>2 DEF SleepEnds
<1>7. ASSUME WaitSubtracts(t) PROVE Goal
  BY <1>7 DEF WaitSubtracts
<1>8. ASSUME SignalAdvances(t) PROVE Goal
  <2>1. Left({u \in At({"sleep"}) : seen[u] = sequence})
    BY <1>8 DEF SignalAdvances
  <2>2. due' \in [Threads -> SUBSET Threads] /\ done' \in [Threads -> BOOLEAN]
    BY <2>1, LeftEffect
  <2>3. QED
    BY <1>8, <2>2, AdvancedInRange DEF SignalAdvances
<1>9. ASSUME SignalLooks(t) PROVE Goal
  BY <1>9 DEF SignalLooks
<1>10. ASSUME FutexWake(t) PROVE Goal
  <2>1. PICK woken \in Woken(t) :
          /\ location' = [u \in Threads |-> IF u = t THEN "signalled" ELSE IF u \in woken THEN "awake" ELSE location[u]]
          /\ Left(woken)
    BY <1>10 DEF FutexWake
  <2>2. due' \in [Threads -> SUBSET Threads] /\ done' \in [Threads -> BOOLEAN]
    BY <2>1, LeftEffect DEF Woken
  <2>3. QED
    BY <1>10, <2>1, <2>2 DEF FutexWake
<1>11. ASSUME Take(t) PROVE Goal
  BY <1>11 DEF Take
<1>12. ASSUME NEW unlocked \in BOOLEAN, Add(t, unlocked) PROVE Goal
  BY <1>12 DEF Add
<1>13. ASSUME NEW kind \in {"one", "all"}, SignalCalled(t, kind) PROVE Goal
  <2>1. due' \in [Threads -> SUBSET Threads]
    BY <1>13 DEF SignalCalled, AwaitingSignal
  <2>2. (AwaitingSignal = {}) \in BOOLEAN
    OBVIOUS
  <2>3. done' \in [Threads -> BOOLEAN]
    BY <1>13, <2>2, Zenon DEF SignalCalled
  <2>4. QED
    BY <1>13, <2>1, <2>3 DEF SignalCalled
<1>14. ASSUME SignalReturns(t) PROVE Goal
  BY <1>14 DEF SignalReturns
<1>15. ASSUME Unlock(t) PROVE Goal
  BY <1>15 DEF Unlock
<1>16. QED
  BY <1>1, <1>2, <1>3, <1>4, <1>5, <1>6, <1>7, <1>8, <1>9, <1>10, <1>11, <1>12, <1>13, <1>14, <1>15 DEF MonitorStep, InWait, InSignal, Decides

(* What a signal of u has still to do, after a step of t.                  *)
LEMMA SignalStep ==
  ASSUME CondInv, NEW t \in Threads, MonitorStep(t), NEW u \in Threads
  PROVE  SignalInv(u)'
<1>0. waiters = Cardinality(At(Counted)) /\ At(Counted) \in SUBSET Threads
  BY DEF CondInv, LookIsSafe, At
<1> USE CondVarAssumption DEF CondInv, LookIsSafe, CondVarTypeOK, SignalInv, InSignalCall, At, AwaitingSignal, GoTo, condVars, history
<1>1. ASSUME Lock(t) PROVE SignalInv(u)'
  BY <1>1 DEF Lock
<1>2. ASSUME WaitAdds(t) PROVE SignalInv(u)'
  BY <1>2 DEF WaitAdds
<1>3. ASSUME WaitLoads(t) PROVE SignalInv(u)'
  BY <1>3 DEF WaitLoads
<1>4. ASSUME WaitUnlocks(t) PROVE SignalInv(u)'
  BY <1>4 DEF WaitUnlocks
<1>5. ASSUME FutexWait(t) PROVE SignalInv(u)'
  BY <1>5 DEF FutexWait
<1>6. ASSUME SleepEnds(t) PROVE SignalInv(u)'
  <2>1. Left({t}) /\ signal' = signal
    BY <1>6 DEF SleepEnds
  <2>2. AwaitingSignal' = AwaitingSignal \ {t} /\ At({"asleep"})' = At({"asleep"}) \ {t}
    BY <1>6 DEF SleepEnds
  <2>3. location'[u] = location[u] \/ {location[u], location'[u]} \cap InSignalCall = {}
    BY <1>6 DEF SleepEnds
  <2>4. QED
    BY <2>1, <2>2, <2>3, LeaveKeeps
<1>7. ASSUME WaitSubtracts(t) PROVE SignalInv(u)'
  BY <1>7 DEF WaitSubtracts
<1>8. ASSUME SignalAdvances(t) PROVE SignalInv(u)'
  <2> DEFINE L == {v \in At({"sleep"}) : seen[v] = sequence}
  <2>1. Left(L) /\ signal' = signal /\ L \in SUBSET Threads
    BY <1>8 DEF SignalAdvances
  <2>2. /\ AwaitingSignal' = AwaitingSignal \ L /\ AwaitingSignal' = At({"asleep"})
        /\ At({"asleep"})' = At({"asleep"}) \ L
    BY <1>8, AdvancedInRange DEF SignalAdvances, NoWrap
  <2>3. CASE u # t
    <3>1. location'[u] = location[u]
      BY <1>8, <2>3 DEF SignalAdvances
    <3>2. QED
      BY <2>1, <2>2, <3>1, LeaveKeeps
  <2>4. CASE u = t
    <3>1. /\ due'[t] = due[t] \ L
          /\ signal[t] # "none" => (done'[t] <=> done[t] \/ L # {})
      BY <2>1, LeftEffect
    <3>2. SignalInv(t) /\ location[t] = "signal" /\ location'[t] = "look"
      BY <1>8 DEF SignalAdvances
    <3>3. QED
      BY <2>1, <2>2, <2>4, <3>1, <3>2
  <2>5. QED
    BY <2>3, <2>4
<1>9. ASSUME SignalLooks(t) PROVE SignalInv(u)'
  <2>1. waiters = 0 => At({"asleep"}) = {}
    BY <1>0, CountOfThreads DEF Counted
  <2>2. QED
    BY <1>9, <2>1 DEF SignalLooks
<1>10. ASSUME FutexWake(t) PROVE SignalInv(u)'
  <2>1. PICK woken \in Woken(t) :
          /\ location' = [v \in Threads |-> IF v = t THEN "signalled" ELSE IF v \in woken THEN "awake" ELSE location[v]]
          /\ Left(woken)
    BY <1>10 DEF FutexWake
  <2>2. /\ woken \subseteq At({"asleep"}) /\ (At({"asleep"}) # {} => woken # {})
        /\ signal[t] = "all" => woken = At({"asleep"})
    BY DEF Woken
  <2>3. location[t] = "wake" /\ signal' = signal /\ seen' = seen /\ sequence' = sequence
    BY <1>10 DEF FutexWake
  <2>4. AwaitingSignal' = AwaitingSignal \ woken /\ At({"asleep"})' = At({"asleep"}) \ woken
    BY <2>1, <2>2, <2>3
  <2>5. CASE u # t
    <3>1. location'[u] = location[u] \/ {location[u], location'[u]} \cap InSignalCall = {}
      BY <2>1, <2>2, <2>5
    <3>2. QED
      BY <2>1, <2>2, <2>3, <2>4, <3>1, LeaveKeeps
  <2>6. CASE u = t
    <3>1. /\ due'[t] = due[t] \ woken
          /\ signal[t] # "none" => (done'[t] <=> done[t] \/ woken # {})
      BY <2>1, <2>2, LeftEffect
    <3>2. SignalInv(t) /\ location'[t] = "signalled"
      BY <2>1
    <3>3. signal[t] \in {"one", "all"}
      BY <3>2, <2>3
    <3>4. QED
      BY <2>2, <2>3, <2>4, <2>6, <3>1, <3>2, <3>3
  <2>7. QED
    BY <2>5, <2>6
<1>11. ASSUME Take(t) PROVE SignalInv(u)'
  BY <1>11 DEF Take
<1>12. ASSUME NEW unlocked \in BOOLEAN, Add(t, unlocked) PROVE SignalInv(u)'
  BY <1>12 DEF Add
<1>13. ASSUME NEW kind \in {"one", "all"}, SignalCalled(t, kind) PROVE SignalInv(u)'
  <2>1. /\ location' = [location EXCEPT ![t] = "signal"] /\ signal' = [signal EXCEPT ![t] = kind]
        /\ due' = [due EXCEPT ![t] = AwaitingSignal] /\ done' = [done EXCEPT ![t] = (AwaitingSignal = {})]
        /\ location[t] = "added" /\ AwaitingSignal' = AwaitingSignal /\ At({"asleep"})' = At({"asleep"})
    BY <1>13 DEF SignalCalled
  <2>2. CASE u # t
    BY <2>1, <2>2
  <2>3. CASE u = t
    <3>1. due'[t] = AwaitingSignal /\ location'[t] = "signal" /\ signal'[t] = kind
      BY <2>1
    <3>2. done'[t] = (AwaitingSignal = {})
      <4>1. done \in [Threads -> BOOLEAN] /\ done' = [done EXCEPT ![t] = (AwaitingSignal = {})]
        BY <2>1
      <4>2. QED
        BY <4>1, Zenon
    <3>3. QED
      BY <2>1, <2>3, <3>1, <3>2
  <2>4. QED
    BY <2>2, <2>3
<1>14. ASSUME SignalReturns(t) PROVE SignalInv(u)'
  BY <1>14 DEF SignalReturns
<1>15. ASSUME Unlock(t) PROVE SignalInv(u)'
  BY <1>15 DEF Unlock
<1>16. QED
  BY <1>1, <1>2, <1>3, <1>4, <1>5, <1>6, <1>7, <1>8, <1>9, <1>10, <1>11, <1>12, <1>13, <1>14, <1>15 DEF MonitorStep, InWait, InSignal, Decides

(* The invariant holds of every behaviour.                                 *)
LEMMA CondVarInvariance == CondVarSpec => []CondInv
<1>1. CondInv /\ [CondVarNext]_monitorVars => CondInv'
  <2> SUFFICES ASSUME CondInv, [CondVarNext]_monitorVars PROVE CondInv'
    OBVIOUS
  <2>1. ASSUME NEW t \in Threads, MonitorStep(t) PROVE CondInv'
    <3>1. LookIsSafe'
      BY <2>1, CondVarTypeStep, CountStep DEF CondInv, LookIsSafe
    <3>2. QED
      BY <2>1, <3>1, SignalStep DEF CondInv
  <2>2. CASE UNCHANGED monitorVars
    BY <2>2 DEF monitorVars, condVars, history, CondInv, LookIsSafe, CondVarTypeOK, At, SignalInv, AwaitingSignal
  <2>3. QED
    BY <2>1, <2>2 DEF CondVarNext, MonitorStep
<1>2. QED
  BY <1>1, CondVarInitially, PTL DEF CondVarSpec

(* While `waiters` reads 0 nobody sleeps; the mutex has one holder.        *)
THEOREM LookCorrect == CondVarSpec => []LookIsSafe
<1>1. CondInv => LookIsSafe
  BY DEF CondInv
<1>2. QED
  BY <1>1, CondVarInvariance, PTL

----------------------------------------------------------------------------
(* Refinement: every step is a step of the atomic condition variable, or   *)
(* changes nothing that can be seen of it.                                 *)

LEMMA AtomicLeave ==
  ASSUME CondInv, NEW L \in SUBSET AwaitingSignal, Left(L), AwaitingSignal' = AwaitingSignal \ L,
         UNCHANGED <<holder, signal>>
  PROVE  Atomic!Leave \/ UNCHANGED Atomic!vars
<1>1. CASE L = {}
  BY <1>1 DEF Left, history, Atomic!vars
<1>2. CASE L # {}
  BY <1>2 DEF Left, Atomic!Leave
<1>3. QED
  BY <1>1, <1>2

(* A step of the futex protocol is a step of the atomic one, or none.      *)
LEMMA AtomicStep ==
  ASSUME CondInv, NEW t \in Threads, MonitorStep(t)
  PROVE  Atomic!Next \/ UNCHANGED Atomic!vars
<1> DEFINE Goal == Atomic!Next \/ UNCHANGED Atomic!vars
<1> USE DEF CondInv, LookIsSafe, CondVarTypeOK, SignalInv, InSignalCall, At, AwaitingSignal, GoTo, condVars, history, Atomic!vars
<1>1. ASSUME Lock(t) PROVE Goal
  BY <1>1 DEF Lock, Atomic!Next, Atomic!Acquire
<1>2. ASSUME WaitAdds(t) PROVE Goal
  BY <1>2 DEF WaitAdds
<1>3. ASSUME WaitLoads(t) PROVE Goal
  BY <1>3 DEF WaitLoads
<1>4. ASSUME WaitUnlocks(t) PROVE Goal
  BY <1>4 DEF WaitUnlocks, Atomic!Next, Atomic!Release, Atomic!Wait
<1>5. ASSUME FutexWait(t) PROVE Goal
  BY <1>5 DEF FutexWait
<1>6. ASSUME SleepEnds(t) PROVE Goal
  <2>1. /\ {t} \in SUBSET AwaitingSignal /\ Left({t}) /\ AwaitingSignal' = AwaitingSignal \ {t}
        /\ UNCHANGED <<holder, signal>>
    BY <1>6 DEF SleepEnds
  <2>2. QED
    BY <2>1, AtomicLeave DEF Atomic!Next
<1>7. ASSUME WaitSubtracts(t) PROVE Goal
  BY <1>7 DEF WaitSubtracts
<1>8. ASSUME SignalAdvances(t) PROVE Goal
  <2> DEFINE L == {v \in At({"sleep"}) : seen[v] = sequence}
  <2>1. L \in SUBSET AwaitingSignal /\ Left(L) /\ UNCHANGED <<holder, signal>>
    BY <1>8 DEF SignalAdvances
  <2>2. AwaitingSignal' = AwaitingSignal \ L
    BY <1>8, AdvancedInRange DEF SignalAdvances, NoWrap
  <2>3. QED
    BY <2>1, <2>2, AtomicLeave DEF Atomic!Next
<1>9. ASSUME SignalLooks(t) PROVE Goal
  BY <1>9 DEF SignalLooks
<1>10. ASSUME FutexWake(t) PROVE Goal
  BY <1>10 DEF FutexWake, Woken, Left, Atomic!Next, Atomic!Leave
<1>11. ASSUME Take(t) PROVE Goal
  BY <1>11 DEF Take, Atomic!Next, Atomic!Release
<1>12. ASSUME NEW unlocked \in BOOLEAN, Add(t, unlocked) PROVE Goal
  BY <1>12 DEF Add, Atomic!Next, Atomic!Release
<1>13. ASSUME NEW kind \in {"one", "all"}, SignalCalled(t, kind) PROVE Goal
  BY <1>13 DEF SignalCalled, Atomic!Next, Atomic!SignalBegins
<1>14. ASSUME SignalReturns(t) PROVE Goal
  <2>1. (signal[t] = "one" /\ done[t]) \/ (signal[t] = "all" /\ due[t] = {})
    BY <1>14 DEF SignalReturns
  <2>2. /\ signal' = [signal EXCEPT ![t] = "none"]
        /\ due' = [due EXCEPT ![t] = {}] /\ done' = [done EXCEPT ![t] = FALSE]
        /\ UNCHANGED holder /\ AwaitingSignal' = AwaitingSignal
    BY <1>14 DEF SignalReturns
  <2>3. Atomic!SignalEnds(t)
    BY <2>1, <2>2 DEF Atomic!SignalEnds
  <2>4. QED
    BY <2>3 DEF Atomic!Next
<1>15. ASSUME Unlock(t) PROVE Goal
  BY <1>15 DEF Unlock, Atomic!Next, Atomic!Release
<1>16. QED
  BY <1>1, <1>2, <1>3, <1>4, <1>5, <1>6, <1>7, <1>8, <1>9, <1>10, <1>11, <1>12, <1>13, <1>14, <1>15 DEF MonitorStep, InWait, InSignal, Decides

(* Core::CondVar is the condition variable its users take it for.          *)
THEOREM CondVarImplementation == CondVarSpec => ImplementsAtomic
<1>1. CondVarInit => Atomic!Init
  BY DEF CondVarInit, Atomic!Init, AwaitingSignal, At
<1>2. CondInv /\ [CondVarNext]_monitorVars => [Atomic!Next]_Atomic!vars
  <2> SUFFICES ASSUME CondInv, [CondVarNext]_monitorVars PROVE Atomic!Next \/ UNCHANGED Atomic!vars
    OBVIOUS
  <2>1. CASE UNCHANGED monitorVars
    BY <2>1 DEF monitorVars, condVars, history, Atomic!vars, AwaitingSignal, At
  <2>2. QED
    BY <2>1, AtomicStep DEF CondVarNext, MonitorStep
<1>3. QED
  BY <1>1, <1>2, CondVarInvariance, PTL DEF CondVarSpec, ImplementsAtomic, Atomic!Spec

----------------------------------------------------------------------------
(* Waits on an address                                                     *)

(* The wakes that have not moved a generation yet.                         *)
Coming == {k \in Wakers : wake[k].at = "lookup"}

RegistryInv ==
  /\ \A t \in Waiters : pc[t] # "idle" => registration[t].state = slot /\ slot # NoState
  /\ slot # NoState => waiterCount[slot] = Cardinality(Registered(slot)) /\ waiterCount[slot] > 0

(* The generation of a state has room for the wakes that are to come.      *)
GenerationInv == \A s \in States : generation[s] + Cardinality(Coming) <= wakesMade

AddressInv == TypeOK /\ RegistryInv /\ GenerationInv

----------------------------------------------------------------------------
(* Counting                                                                *)

(* One thread moves at a time: what that does to the size of a set.        *)
LEMMA SizeMoves ==
  ASSUME NEW S, IsFiniteSet(S), NEW T, NEW t, T \ {t} = S \ {t}
  PROVE  /\ Cardinality(S) \in Nat /\ Cardinality(T) \in Nat /\ IsFiniteSet(T)
         /\ (t \in T <=> t \in S) => Cardinality(T) = Cardinality(S)
         /\ t \in T /\ t \notin S => Cardinality(T) = Cardinality(S) + 1
         /\ t \notin T /\ t \in S => Cardinality(T) = Cardinality(S) - 1
<1>1. Cardinality(S) \in Nat
  BY FS_CardinalityType
<1>2. CASE t \in T <=> t \in S
  <2>1. T = S
    BY <1>2
  <2>2. QED
    BY <2>1, <1>1, <1>2
<1>3. CASE t \in T /\ t \notin S
  <2>1. T = S \cup {t}
    BY <1>3
  <2>2. QED
    BY <2>1, <1>1, <1>3, FS_AddElement, FS_CardinalityType
<1>4. CASE t \notin T /\ t \in S
  <2>1. T = S \ {t}
    BY <1>4
  <2>2. QED
    BY <2>1, <1>1, <1>4, FS_RemoveElement, FS_CardinalityType
<1>5. QED
  BY <1>2, <1>3, <1>4

(* There are finitely many registered waiters of a state,                  *)
LEMMA RegisteredFinite ==
  ASSUME NEW s
  PROVE  IsFiniteSet(Registered(s)) /\ (Cardinality(Registered(s)) = 0 <=> Registered(s) = {})
<1>1. Registered(s) \subseteq Waiters
  BY DEF Registered
<1>2. IsFiniteSet(Registered(s))
  BY <1>1, AddressAssumption, FS_Subset
<1>3. QED
  BY <1>2, FS_EmptySet

(* and finitely many wakes on their way.                                   *)
LEMMA ComingFinite == IsFiniteSet(Coming) /\ Cardinality(Coming) \in Nat
<1>1. Coming \subseteq Wakers
  BY DEF Coming
<1>2. QED
  BY <1>1, AddressAssumption, FS_Subset, FS_CardinalityType

----------------------------------------------------------------------------
(* One step                                                                *)

LEMMA GenerationStep ==
  ASSUME AddressInv, [Next]_vars
  PROVE  GenerationInv' /\ generation' \in [States -> 0 .. MaxWakes] /\ wakesMade' \in 0 .. MaxWakes
<1> DEFINE Goal == GenerationInv' /\ generation' \in [States -> Nat] /\ wakesMade' \in 0 .. MaxWakes
<1>a. IsFiniteSet(Coming) /\ Cardinality(Coming) \in Nat
  BY ComingFinite
<1> USE AddressAssumption DEF AddressInv, TypeOK, GenerationInv, NoWake, waiterVars
<1>1. ASSUME NEW t \in Waiters, NEW e \in Values, NEW f \in TimedChoices, RegisterWaiter(t, e, f) PROVE Goal
  <2>1. Coming' = Coming
    BY <1>1 DEF RegisterWaiter, Coming
  <2>2. /\ \A s \in States : generation'[s] = generation[s] \/ generation'[s] = 0
        /\ generation' \in [States -> Nat] /\ wakesMade' = wakesMade
    BY <1>1 DEF RegisterWaiter, Unused
  <2>3. QED
    BY <2>1, <2>2, <1>a
<1>2. ASSUME NEW t \in Waiters, Check(t) PROVE Goal
  <2>1. Coming' = Coming
    BY <1>2 DEF Check, Coming
  <2>2. QED
    BY <2>1, <1>a, <1>2 DEF Check
<1>3. ASSUME NEW t \in Waiters, UnregisterWaiter(t) PROVE Goal
  <2>1. Coming' = Coming
    BY <1>3 DEF UnregisterWaiter, Coming
  <2>2. QED
    BY <2>1, <1>a, <1>3 DEF UnregisterWaiter
<1>4. ASSUME NEW t \in Waiters, SpuriousWake(t) \/ Expire(t) PROVE Goal
  <2>1. Coming' = Coming
    BY <1>4 DEF SpuriousWake, Expire, Coming
  <2>2. QED
    BY <2>1, <1>a, <1>4 DEF SpuriousWake, Expire
<1>5. ASSUME NEW k \in Wakers, NEW n \in WakeCounts, WakeEnter(k, n) PROVE Goal
  <2>1. Coming' \ {k} = Coming \ {k} /\ k \in Coming' /\ k \notin Coming
    BY <1>5 DEF WakeEnter, Coming
  <2>2. Cardinality(Coming') = Cardinality(Coming) + 1
    BY <2>1, <1>a, SizeMoves
  <2>3. QED
    BY <2>2, <1>a, <1>5 DEF WakeEnter
<1>6. ASSUME NEW k \in Wakers, WakeLookup(k) PROVE Goal
  <2>1. Coming' \ {k} = Coming \ {k} /\ k \notin Coming' /\ k \in Coming
    BY <1>6 DEF WakeLookup, Coming
  <2>2. Cardinality(Coming') = Cardinality(Coming) - 1
    BY <2>1, <1>a, SizeMoves
  <2>3. /\ \A s \in States : generation'[s] \in {generation[s], generation[s] + 1}
        /\ generation' \in [States -> Nat] /\ wakesMade' = wakesMade
    <3>1. CASE slot = NoState
      BY <1>6, <3>1 DEF WakeLookup
    <3>2. CASE slot # NoState
      <4>1. slot \in States /\ generation' = [generation EXCEPT ![slot] = @ + 1] /\ wakesMade' = wakesMade
        BY <1>6, <3>2 DEF WakeLookup
      <4>2. QED
        BY <4>1
    <3>3. QED
      BY <3>1, <3>2
  <2>4. QED
    BY <2>2, <2>3, <1>a
<1>7. ASSUME NEW k \in Wakers, WakeSignal(k) PROVE Goal
  <2>1. Coming' = Coming
    BY <1>7 DEF WakeSignal, Coming
  <2>2. QED
    BY <2>1, <1>a, <1>7 DEF WakeSignal
<1>8. ASSUME NEW v \in Values, Store(v) PROVE Goal
  <2>1. Coming' = Coming
    BY <1>8 DEF Store, Coming
  <2>2. QED
    BY <2>1, <1>a, <1>8 DEF Store
<1>9. CASE UNCHANGED vars
  <2>1. Coming' = Coming
    BY <1>9 DEF vars, Coming
  <2>2. QED
    BY <2>1, <1>a, <1>9 DEF vars
<1>10. Goal
  BY <1>1, <1>2, <1>3, <1>4, <1>5, <1>6, <1>7, <1>8, <1>9 DEF Next, RunWaiter, RunWaker
<1>11. Cardinality(Coming') \in Nat
  <2>1. Coming' \subseteq Wakers
    BY DEF Coming
  <2>2. QED
    BY <2>1, FS_Subset, FS_CardinalityType
<1>12. QED
  BY <1>10, <1>11

(* Every step of the address waits keeps the types,                        *)
LEMMA TypeStep ==
  ASSUME AddressInv, [Next]_vars
  PROVE  TypeOK'
<1>a. generation' \in [States -> 0 .. MaxWakes] /\ wakesMade' \in 0 .. MaxWakes
  BY GenerationStep
<1> USE AddressAssumption DEF AddressInv, TypeOK, NoWake, NoRegistration, waiterVars
<1>1. ASSUME NEW t \in Waiters, NEW e \in Values, NEW f \in TimedChoices, RegisterWaiter(t, e, f) PROVE TypeOK'
  <2>1. slot' \in States /\ waiterCount' \in [States -> Nat]
    BY <1>1 DEF RegisterWaiter, Unused
  <2>2. PICK s \in States : registration' = [registration EXCEPT ![t] = [state |-> s, generation |-> generation'[s]]]
    BY <1>1 DEF RegisterWaiter, Unused
  <2>3. registration' \in [Waiters -> [state : States \cup {NoState}, generation : 0 .. MaxWakes]]
    BY <1>a, <2>2
  <2>4. QED
    BY <1>a, <1>1, <2>1, <2>3 DEF RegisterWaiter
<1>2. ASSUME NEW t \in Waiters, Check(t) PROVE TypeOK'
  BY <1>a, <1>2 DEF Check
<1>3. ASSUME NEW t \in Waiters, UnregisterWaiter(t) PROVE TypeOK'
  <2>1. registration[t].state = slot /\ slot \in States /\ waiterCount[slot] > 0
    BY <1>3 DEF UnregisterWaiter, RegistryInv
  <2>2. waiterCount' \in [States -> Nat] /\ slot' \in States \cup {NoState}
    <3>1. waiterCount' = [waiterCount EXCEPT ![slot] = waiterCount[slot] - 1] /\ slot' \in {slot, NoState}
      BY <1>3, <2>1 DEF UnregisterWaiter, OneFewer
    <3>2. waiterCount[slot] - 1 \in Nat
      BY <2>1
    <3>3. QED
      BY <2>1, <3>1, <3>2
  <2>3. QED
    BY <1>a, <1>3, <2>2 DEF UnregisterWaiter
<1>4. ASSUME NEW t \in Waiters, SpuriousWake(t) \/ Expire(t) PROVE TypeOK'
  BY <1>a, <1>4 DEF SpuriousWake, Expire
<1>5. ASSUME NEW k \in Wakers, NEW n \in WakeCounts, WakeEnter(k, n) PROVE TypeOK'
  BY <1>a, <1>5 DEF WakeEnter
<1>6. ASSUME NEW k \in Wakers, WakeLookup(k) PROVE TypeOK'
  <2>1. wake[k] \in [at : {"idle", "lookup", "signal"}, count : Int, waiters : Nat, state : States \cup {NoState}]
    OBVIOUS
  <2>2. wake' \in [Wakers -> [at : {"idle", "lookup", "signal"}, count : Int, waiters : Nat, state : States \cup {NoState}]]
    <3>1. CASE slot = NoState
      BY <2>1, <1>6, <3>1 DEF WakeLookup
    <3>2. CASE slot # NoState
      <4>1. wake' = [wake EXCEPT ![k] = [at |-> "signal", count |-> wake[k].count,
                                         waiters |-> waiterCount[slot], state |-> slot]]
        BY <1>6, <3>2 DEF WakeLookup
      <4>2. waiterCount[slot] \in Nat /\ slot \in States
        BY <3>2
      <4>3. QED
        BY <2>1, <4>1, <4>2
    <3>3. QED
      BY <3>1, <3>2
  <2>3. QED
    BY <1>a, <1>6, <2>2 DEF WakeLookup
<1>7. ASSUME NEW k \in Wakers, WakeSignal(k) PROVE TypeOK'
  <2>1. wake' \in [Wakers -> [at : {"idle", "lookup", "signal"}, count : Int, waiters : Nat, state : States \cup {NoState}]]
    <3>1. CASE wake' = [wake EXCEPT ![k] = NoWake]
      BY <3>1
    <3>2. CASE wake' = [wake EXCEPT ![k].count = @ - 1]
      <4>1. wake[k].count - 1 \in Int
        OBVIOUS
      <4>2. QED
        BY <3>2, <4>1
    <3>3. QED
      BY <1>7, <3>1, <3>2 DEF WakeSignal
  <2>2. asleep' \in SUBSET Waiters
    BY <1>7 DEF WakeSignal
  <2>3. QED
    BY <1>a, <1>7, <2>1, <2>2 DEF WakeSignal
<1>8. ASSUME NEW v \in Values, Store(v) PROVE TypeOK'
  BY <1>a, <1>8 DEF Store
<1>9. CASE UNCHANGED vars
  BY <1>a, <1>9 DEF vars
<1>10. QED
  BY <1>1, <1>2, <1>3, <1>4, <1>5, <1>6, <1>7, <1>8, <1>9 DEF Next, RunWaiter, RunWaker

(* and the registry.                                                       *)
LEMMA RegistryStep ==
  ASSUME AddressInv, [Next]_vars
  PROVE  RegistryInv'
<1>a. \A s : IsFiniteSet(Registered(s)) /\ (Cardinality(Registered(s)) = 0 <=> Registered(s) = {})
  BY RegisteredFinite
<1> USE AddressAssumption DEF AddressInv, TypeOK, RegistryInv, waiterVars, NoRegistration
<1>1. ASSUME NEW t \in Waiters, NEW e \in Values, NEW f \in TimedChoices, RegisterWaiter(t, e, f) PROVE RegistryInv'
  <2>1. PICK s \in States :
          /\ slot' = s
          /\ IF slot = NoState THEN waiterCount' = [waiterCount EXCEPT ![s] = 1]
             ELSE s = slot /\ waiterCount' = [waiterCount EXCEPT ![s] = @ + 1]
          /\ registration'[t].state = s
          /\ \A u \in Waiters \ {t} : registration'[u] = registration[u]
    BY <1>1 DEF RegisterWaiter, Unused
  <2>2. pc'[t] = "check" /\ pc[t] = "idle" /\ \A u \in Waiters \ {t} : pc'[u] = pc[u]
    BY <1>1 DEF RegisterWaiter
  <2>3. Registered(s)' \ {t} = Registered(s) \ {t} /\ t \in Registered(s)' /\ t \notin Registered(s)
    BY <2>1, <2>2 DEF Registered
  <2>4. Cardinality(Registered(s)') = Cardinality(Registered(s)) + 1 /\ Cardinality(Registered(s)) \in Nat
    BY <2>3, <1>a, SizeMoves
  <2>5. slot = NoState => Cardinality(Registered(s)) = 0
    BY <1>a DEF Registered
  <2>6. QED
    BY <2>1, <2>2, <2>4, <2>5
<1>2. ASSUME NEW t \in Waiters, Check(t) PROVE RegistryInv'
  <2>1. \A s : Registered(s)' = Registered(s)
    BY <1>2 DEF Check, Registered
  <2>2. QED
    BY <2>1, <1>2 DEF Check
<1>3. ASSUME NEW t \in Waiters, UnregisterWaiter(t) PROVE RegistryInv'
  <2>1. registration[t].state = slot /\ slot \in States /\ t \in Registered(slot)
    BY <1>3 DEF UnregisterWaiter, Registered
  <2>2. pc'[t] = "idle" /\ \A u \in Waiters \ {t} : pc'[u] = pc[u] /\ registration'[u] = registration[u]
    BY <1>3 DEF UnregisterWaiter
  <2>3. Registered(slot) \ {t} = {u \in Waiters : pc'[u] # "idle" /\ registration'[u].state = slot}
    BY <2>1, <2>2 DEF Registered
  <2>4. /\ Cardinality(Registered(slot) \ {t}) = Cardinality(Registered(slot)) - 1
        /\ IsFiniteSet(Registered(slot) \ {t}) /\ Cardinality(Registered(slot) \ {t}) \in Nat
    BY <2>1, <1>a, FS_RemoveElement, FS_CardinalityType
  <2>5. waiterCount'[slot] = waiterCount[slot] - 1 /\ slot' = IF waiterCount[slot] = 1 THEN NoState ELSE slot
    BY <1>3, <2>1 DEF UnregisterWaiter, OneFewer, LastWaiter
  <2>6. waiterCount[slot] = 1 => Registered(slot) \ {t} = {}
    <3>1. \A S : IsFiniteSet(S) /\ Cardinality(S) = 0 => S = {}
      BY FS_EmptySet
    <3>2. waiterCount[slot] = Cardinality(Registered(slot))
      BY <2>1
    <3>3. waiterCount[slot] = 1 => Cardinality(Registered(slot) \ {t}) = 0
      BY <2>4, <3>2
    <3>4. QED
      BY <2>4, <3>1, <3>3
  <2>7. waiterCount[slot] = 1 => \A u \in Waiters : pc'[u] = "idle"
    BY <2>1, <2>2, <2>6 DEF Registered
  <2>8. CASE waiterCount[slot] = 1
    BY <2>5, <2>7, <2>8
  <2>9. CASE waiterCount[slot] # 1
    <3>1. slot' = slot
      BY <2>5, <2>9
    <3>2. Registered(slot)' = Registered(slot) \ {t}
      BY <2>3, <3>1 DEF Registered
    <3>3. waiterCount'[slot'] = Cardinality(Registered(slot) \ {t}) /\ waiterCount'[slot'] > 0
      <4>1. waiterCount[slot] = Cardinality(Registered(slot)) /\ waiterCount[slot] \in Nat
        BY <2>1
      <4>2. QED
        BY <2>1, <2>4, <2>5, <2>9, <3>1, <4>1
    <3>4. Registered(slot)' = {u \in Waiters : pc'[u] # "idle" /\ registration'[u].state = slot'}
      BY DEF Registered
    <3>5. \A u \in Waiters : pc'[u] # "idle" => registration'[u].state = slot' /\ slot' # NoState
      BY <2>1, <2>2, <3>1
    <3>6. QED
      BY <3>2, <3>3, <3>5
  <2>10. QED
    BY <2>8, <2>9
<1>4. ASSUME NEW t \in Waiters, SpuriousWake(t) \/ Expire(t) PROVE RegistryInv'
  <2>1. \A s : Registered(s)' = Registered(s)
    BY <1>4 DEF SpuriousWake, Expire, Registered
  <2>2. QED
    BY <2>1, <1>4 DEF SpuriousWake, Expire
<1>5. ASSUME NEW k \in Wakers, NEW n \in WakeCounts, WakeEnter(k, n) PROVE RegistryInv'
  <2>1. \A s : Registered(s)' = Registered(s)
    BY <1>5 DEF WakeEnter, Registered
  <2>2. QED
    BY <2>1, <1>5 DEF WakeEnter
<1>6. ASSUME NEW k \in Wakers, WakeLookup(k) PROVE RegistryInv'
  <2>1. \A s : Registered(s)' = Registered(s)
    BY <1>6 DEF WakeLookup, Registered
  <2>2. QED
    BY <2>1, <1>6 DEF WakeLookup
<1>7. ASSUME NEW k \in Wakers, WakeSignal(k) PROVE RegistryInv'
  <2>1. \A s : Registered(s)' = Registered(s)
    BY <1>7 DEF WakeSignal, Registered
  <2>2. QED
    BY <2>1, <1>7 DEF WakeSignal
<1>8. ASSUME NEW v \in Values, Store(v) PROVE RegistryInv'
  <2>1. \A s : Registered(s)' = Registered(s)
    BY <1>8 DEF Store, Registered
  <2>2. QED
    BY <2>1, <1>8 DEF Store
<1>9. CASE UNCHANGED vars
  <2>1. \A s : Registered(s)' = Registered(s)
    BY <1>9 DEF vars, Registered
  <2>2. QED
    BY <2>1, <1>9 DEF vars
<1>10. QED
  BY <1>1, <1>2, <1>3, <1>4, <1>5, <1>6, <1>7, <1>8, <1>9 DEF Next, RunWaiter, RunWaker

(* The invariant holds at the start                                        *)
LEMMA Initially == Init => AddressInv
<1> SUFFICES ASSUME Init PROVE AddressInv
  OBVIOUS
<1>1. Coming = {}
  BY DEF Init, Coming, NoWake
<1>2. Cardinality(Coming) = 0
  BY <1>1, FS_EmptySet
<1>3. QED
  BY <1>2, AddressAssumption DEF Init, AddressInv, TypeOK, RegistryInv, GenerationInv, NoWake, NoRegistration

(* and in every behaviour.                                                 *)
LEMMA Invariance == Spec => []AddressInv
<1>1. AddressInv /\ [Next]_vars => AddressInv'
  BY GenerationStep, TypeStep, RegistryStep DEF AddressInv
<1>2. QED
  BY <1>1, Initially, PTL DEF Spec

----------------------------------------------------------------------------
(* The theorem                                                             *)

(* Every waiter is registered with the state that the next wake will find, *)
(* and the state counts exactly its waiters (UnregisterWaiter).            *)
THEOREM RegistryCorrect == Spec => []WaitersShareState
<1>1. AddressInv => WaitersShareState
  BY DEF AddressInv, RegistryInv, WaitersShareState
<1>2. QED
  BY <1>1, Invariance, PTL

----------------------------------------------------------------------------
(* Event queues: the invariant                                             *)

(* Who holds a pin where.                                                  *)
PinInv ==
  /\ \A w \in EventWaiters : at[w] \in {"idle", "inside", "expired", "asleep", "leaving"}
                        /\ (pin[w] = 0 <=> at[w] = "idle")
  /\ \A u \in Users : at[u] \in {"idle", "adding", "added", "removing", "leaving"}
                      /\ (pin[u] = 0 <=> at[u] = "idle")
  /\ at[Presenter] \in {"idle", "triggering"} /\ (at[Presenter] = "idle" => pin[Presenter] = 0)
  /\ at[Deleter] \in {"idle", "marked", "draining", "destroying", "destroyed"} /\ pin[Deleter] = 0
  /\ at[SessionCloser] \in {"idle", "quiescing", "deleting", "unpinning"}
  /\ at[SessionCloser] \in {"idle", "quiescing"} => pin[SessionCloser] = 0
  /\ at[SessionCloser] = "unpinning" => pin[SessionCloser] # 0

(* The object exists from its registration to its destruction, and is      *)
(* announced as closing while it is destroyed.                             *)
LifetimeInv ==
  /\ lifetime.generation # 0 => object = lifetime.generation
  /\ lifetime.generation = 0 => ~lifetime.closing
  /\ lifetime.closing <=> at[Deleter] \in {"marked", "draining"}
  /\ object # 0 <=> lifetime.generation # 0 \/ at[Deleter] = "destroying"
  /\ at[Deleter] = "destroying" => lifetime.generation = 0 /\ object \in closingGens
  /\ at[Presenter] = "triggering" /\ pin[Presenter] # 0 => event.count < MaxPending

QueueInv == PinKeepsQueue /\ PinInv /\ LifetimeInv

(* Between its listing and its publication a binding belongs to one user,  *)
(* and it is in the queue exactly while the delete function was not run.   *)
MineInv ==
  /\ \A u, v \in Users : mine[u] = mine[v] /\ mine[u] # NoBinding => u = v
  /\ \A u \in Users : mine[u] # NoBinding <=> at[u] \in {"adding", "added"}
  /\ \A u \in Users : mine[u] # NoBinding => binding[mine[u]].state \in {"begun", "deleted"}
                                             /\ binding[mine[u]].generation = pin[u]
  /\ \A u \in Users : at[u] = "adding" => binding[mine[u]].state = "begun" /\ event.binding # mine[u]
  /\ \A u \in Users : at[u] = "added" /\ binding[mine[u]].state = "begun" => event.binding = mine[u]
  /\ \A b \in Bindings : binding[b].state \in {"begun", "deleted"} => \E u \in Users : mine[u] = b
  /\ \A b \in Bindings : ~Free(b) => binding[b].generation # 0

(* What the closing session still waits for.                               *)
CloseInv ==
  /\ at[SessionCloser] # "idle" => sessionState = "closing"
  /\ at[SessionCloser] \in {"deleting", "unpinning"} => \A u \in Users : at[u] = "idle"
  /\ at[SessionCloser] = "unpinning" => event.binding = NoBinding
  /\ at[SessionCloser] = "deleting" /\ pin[SessionCloser] = 0 =>
       \A b \in Published : binding[b].generation \in awaited

BindingInv == BindingsAreSound /\ MineInv /\ CloseInv

(* Nobody sleeps on a queue that is closing.                               *)
SleepInv ==
  /\ NoWaiterMissed
  /\ queueClosing <=> at[Deleter] \in {"draining", "destroying"}
  /\ queueClosing => WaitersAt({"asleep"}) = {}

EqueueInv == QueueInv /\ BindingInv /\ SleepInv

----------------------------------------------------------------------------
(* Event queues: counting                                                  *)

LEMMA EqueueNames ==
  /\ EventWaiters \subseteq EqueueThreads /\ Users \subseteq EqueueThreads
  /\ {Deleter, Presenter, SessionCloser} \subseteq EqueueThreads
  /\ \A w \in EventWaiters : w \notin Users /\ w \notin {Deleter, Presenter, SessionCloser}
  /\ \A u \in Users : u \notin EventWaiters /\ u \notin {Deleter, Presenter, SessionCloser}
  /\ Deleter # Presenter /\ Deleter # SessionCloser /\ Presenter # SessionCloser
  /\ NoBinding \notin Bindings
BY EqueueAssumption DEF EqueueThreads

(* One thread more or less in a set of threads.                            *)
LEMMA EqueueCount ==
  ASSUME NEW S \in SUBSET EqueueThreads, NEW t \in EqueueThreads
  PROVE  /\ Cardinality(S) \in Nat
         /\ Cardinality({}) = 0
         /\ Cardinality(S) = 0 => S = {}
         /\ t \notin S => Cardinality(S \cup {t}) = Cardinality(S) + 1
         /\ t \in S => Cardinality(S) \in Nat \ {0} /\ Cardinality(S \ {t}) = Cardinality(S) - 1
<1>1. IsFiniteSet(S)
  BY EqueueAssumption, FS_Subset
<1>2. Cardinality(S) \in Nat /\ (Cardinality(S) = 0 <=> S = {})
  BY <1>1, FS_CardinalityType, FS_EmptySet
<1>3. QED
  BY <1>1, <1>2, FS_AddElement, FS_RemoveElement, FS_EmptySet

(* The count of pins follows those who take and return one.                *)
LEMMA PinTaken ==
  ASSUME QueueInv, NEW t \in EqueueThreads, pin[t] = 0,
         TakePin(t), lifetime.generation # 0
  PROVE  /\ Pinning' = Pinning \cup {t}
         /\ lifetime'.pins = Cardinality(Pinning')
         /\ lifetime' \in [generation : 0 .. MaxGeneration, pins : Nat, closing : BOOLEAN]
         /\ lifetime'.generation = lifetime.generation /\ lifetime'.closing = lifetime.closing
         /\ pin' \in [EqueueThreads -> 0 .. MaxGeneration]
         /\ \A u \in Pinning' : pin'[u] = object /\ pin'[u] = lifetime.generation
<1> USE DEF QueueInv, PinKeepsQueue, EqueueTypeOK
<1>1. Pinning' = Pinning \cup {t} /\ t \notin Pinning
  BY DEF TakePin, Pinning
<1>2. Pinning \in SUBSET EqueueThreads
  BY DEF Pinning
<1>3. Cardinality(Pinning') = Cardinality(Pinning) + 1
  BY <1>1, <1>2, EqueueCount
<1>4. \A u \in Pinning' : pin'[u] = object /\ pin'[u] = lifetime.generation
  BY <1>1 DEF TakePin, LifetimeInv, Pinning
<1>5. QED
  BY <1>1, <1>3, <1>4 DEF TakePin

(* Releasing a pin removes one holder from the count of the entry.         *)
LEMMA PinReleased ==
  ASSUME QueueInv, NEW t \in EqueueThreads, pin[t] # 0, ReleasePin(t)
  PROVE  /\ Pinning' = Pinning \ {t}
         /\ lifetime.generation # 0
         /\ lifetime'.pins = Cardinality(Pinning')
         /\ lifetime' \in [generation : 0 .. MaxGeneration, pins : Nat, closing : BOOLEAN]
         /\ lifetime'.generation = lifetime.generation /\ lifetime'.closing = lifetime.closing
         /\ pin' \in [EqueueThreads -> 0 .. MaxGeneration]
         /\ \A u \in Pinning' : pin'[u] = object /\ pin'[u] = lifetime.generation
         /\ asleepOnLifetime' \in SUBSET asleepOnLifetime
<1> USE DEF QueueInv, PinKeepsQueue, EqueueTypeOK
<1>1. Pinning' = Pinning \ {t} /\ t \in Pinning
  BY DEF ReleasePin, Pinning
<1>2. Pinning \in SUBSET EqueueThreads
  BY DEF Pinning
<1>3. Cardinality(Pinning) \in Nat \ {0} /\ Cardinality(Pinning') = Cardinality(Pinning) - 1
  BY <1>1, <1>2, EqueueCount
<1>4. lifetime.generation # 0 /\ lifetime.pins = Cardinality(Pinning)
  BY <1>1
<1>5. asleepOnLifetime' \in SUBSET asleepOnLifetime
  BY DEF ReleasePin, ReleaseSignals, LifetimeChanged
<1>6. pin' \in [EqueueThreads -> 0 .. MaxGeneration]
  BY BoundsAssumption DEF ReleasePin
<1>7. lifetime.pins - 1 \in Nat
  BY ONLY <1>3, <1>4
<1>8. lifetime' \in [generation : 0 .. MaxGeneration, pins : Nat, closing : BOOLEAN]
  BY <1>7 DEF ReleasePin
<1>9. \A u \in Pinning' : pin'[u] = object /\ pin'[u] = lifetime.generation
  BY <1>1 DEF ReleasePin, Pinning
<1>10. QED
  BY <1>1, <1>3, <1>4, <1>5, <1>6, <1>8, <1>9 DEF ReleasePin

----------------------------------------------------------------------------
(* Event queues: types                                                     *)

LEMMA EqueueDefaults ==
  /\ NoLifetime \in [generation : 0 .. MaxGeneration, pins : Nat, closing : BOOLEAN]
  /\ NoEvent \in [count : 0 .. MaxPending, binding : Bindings \cup {NoBinding}]
  /\ UnusedBinding \in [state : {"free", "begun", "published", "deleted"}, generation : 0 .. MaxGeneration]
  /\ 0 \in 0 .. MaxGeneration
BY BoundsAssumption DEF NoLifetime, NoEvent, UnusedBinding

(* Types.                                                                  *)
LEMMA EqueueTypeStep ==
  ASSUME EqueueInv, EqueueNext
  PROVE  EqueueTypeOK'
<1> USE BoundsAssumption, EqueueNames
    DEF EqueueInv, QueueInv, PinKeepsQueue, EqueueTypeOK, Places, Goes, registryVars, queueVars, sessionVars, waitVars, AnyGeneration
<1>1. ASSUME CreateQueue PROVE EqueueTypeOK'
  <2>1. lifetime' \in [generation : 0 .. MaxGeneration, pins : Nat, closing : BOOLEAN]
    BY <1>1 DEF CreateQueue, NoLifetime
  <2>2. object' \in 0 .. MaxGeneration /\ nextGeneration' \in 1 .. MaxGeneration + 1
    BY <1>1 DEF CreateQueue
  <2>3. event' \in [count : 0 .. MaxPending, binding : Bindings \cup {NoBinding}]
    BY <1>1, EqueueDefaults DEF CreateQueue
  <2>4. QED
    BY <1>1, <2>1, <2>2, <2>3 DEF CreateQueue
<1>2. ASSUME MarkClosing PROVE EqueueTypeOK'
  BY <1>2 DEF MarkClosing
<1>3. ASSUME PresentBegins PROVE EqueueTypeOK'
  BY <1>3, PinTaken DEF PresentBegins, CanAcquire, PinInv
<1>4. ASSUME CloseBegins PROVE EqueueTypeOK'
  BY <1>4 DEF CloseBegins
<1>5. ASSUME Reopen PROVE EqueueTypeOK'
  BY <1>5 DEF Reopen
<1>6. ASSUME Trigger PROVE EqueueTypeOK'
  BY <1>6, PinReleased DEF Trigger, LifetimeInv, PinInv, TriggerSignals, SignalOne, WaitersAt
<1>7. ASSUME PresentEnds PROVE EqueueTypeOK'
  BY <1>7 DEF PresentEnds
<1>8. ASSUME BeginClose PROVE EqueueTypeOK'
  BY <1>8 DEF BeginClose, WakeWaiters, WaitersAt
<1>9. ASSUME DrainSleeps PROVE EqueueTypeOK'
  BY <1>9 DEF DrainSleeps
<1>10. ASSUME UnregisterQueue PROVE EqueueTypeOK'
  <2>1. lifetime.generation \in 1 .. MaxGeneration
    BY <1>10 DEF UnregisterQueue, LifetimeInv
  <2>2. QED
    BY <1>10, <2>1, EqueueDefaults DEF UnregisterQueue, LifetimeChanged
<1>11. ASSUME Destroy PROVE EqueueTypeOK'
  <2>1. binding' \in [Bindings -> [state : {"free", "begun", "published", "deleted"},
                                   generation : 0 .. MaxGeneration]]
    BY <1>11, EqueueDefaults DEF Destroy, DropBinding
  <2>2. QED
    BY <1>11, <2>1, EqueueDefaults DEF Destroy
<1>12. ASSUME DeleteEnds PROVE EqueueTypeOK'
  BY <1>12 DEF DeleteEnds, EndSignals, LifetimeChanged
<1>13. ASSUME CloseCollects PROVE EqueueTypeOK'
  BY <1>13, PinTaken DEF CloseCollects, Listed, BindingInv, MineInv, Free, CanAcquire, PinInv
<1>14. ASSUME CloseDeletes PROVE EqueueTypeOK'
  BY <1>14 DEF CloseDeletes, DeleteEvent, DropBinding, UnusedBinding, NoEvent
<1>15. ASSUME CloseUnpins PROVE EqueueTypeOK'
  BY <1>15, PinReleased DEF CloseUnpins, PinInv
<1>16. ASSUME CloseWaits PROVE EqueueTypeOK'
  <2>1. awaited' \in SUBSET awaited /\ asleepOnLifetime' \in SUBSET {Deleter, SessionCloser}
    BY <1>16 DEF CloseWaits
  <2>2. QED
    BY <1>16, <2>1 DEF CloseWaits
<1>17. ASSUME CloseEnds PROVE EqueueTypeOK'
  BY <1>17 DEF CloseEnds
<1>18. ASSUME NEW w \in EventWaiters, WaitBegins(w) PROVE EqueueTypeOK'
  BY <1>18, PinTaken DEF WaitBegins, CanAcquire, PinInv
<1>19. ASSUME NEW w \in EventWaiters, WaitExpires(w) PROVE EqueueTypeOK'
  BY <1>19 DEF WaitExpires
<1>20. ASSUME NEW w \in EventWaiters, WaitLooks(w) PROVE EqueueTypeOK'
  BY <1>20 DEF WaitLooks, Taken
<1>21. ASSUME NEW w \in EventWaiters, WaitEnds(w) PROVE EqueueTypeOK'
  BY <1>21, PinReleased DEF WaitEnds, PinInv
<1>22. ASSUME NEW u \in Users, AddBegins(u) PROVE EqueueTypeOK'
  BY <1>22, PinTaken DEF AddBegins, CanAcquire, PinInv
<1>23. ASSUME NEW u \in Users, RemoveBegins(u) PROVE EqueueTypeOK'
  BY <1>23, PinTaken DEF RemoveBegins, CanAcquire, PinInv
<1>24. ASSUME NEW u \in Users, AddEvent(u) PROVE EqueueTypeOK'
  BY <1>24 DEF AddEvent, DropBinding, UnusedBinding, BindingInv, MineInv
<1>25. ASSUME NEW u \in Users, AddPublishes(u) PROVE EqueueTypeOK'
  BY <1>25 DEF AddPublishes, AfterAdd, UnusedBinding, BindingInv, MineInv
<1>26. ASSUME NEW u \in Users, RemoveEvent(u) PROVE EqueueTypeOK'
  BY <1>26 DEF RemoveEvent, DeleteEvent, DropBinding, UnusedBinding, NoEvent
<1>27. ASSUME NEW u \in Users, UserLeaves(u) PROVE EqueueTypeOK'
  BY <1>27, PinReleased DEF UserLeaves, PinInv
<1>28. QED
  BY <1>1, <1>2, <1>3, <1>4, <1>5, <1>6, <1>7, <1>8, <1>9, <1>10, <1>11, <1>12, <1>13, <1>14, <1>15, <1>16, <1>17, <1>18, <1>19, <1>20, <1>21, <1>22, <1>23, <1>24, <1>25, <1>26, <1>27 DEF EqueueNext, Wait, Use, Present, Delete, Close

----------------------------------------------------------------------------
(* Event queues: the pins                                                  *)

LEMMA PinStep ==
  ASSUME EqueueInv, EqueueNext, EqueueTypeOK'
  PROVE  (PinInv)'
<1> USE EqueueNames
    DEF EqueueInv, QueueInv, PinInv, Goes, registryVars, queueVars, sessionVars, waitVars, AnyGeneration, EqueueTypeOK
<1> DEFINE Goal == (PinInv)'
<1>1. ASSUME CreateQueue PROVE Goal
  BY <1>1 DEF CreateQueue
<1>2. ASSUME MarkClosing PROVE Goal
  BY <1>2 DEF MarkClosing, CanAcquire
<1>3. ASSUME PresentBegins PROVE Goal
  BY <1>3, PinTaken DEF PresentBegins, CanAcquire, TakePin
<1>4. ASSUME CloseBegins PROVE Goal
  BY <1>4 DEF CloseBegins
<1>5. ASSUME Reopen PROVE Goal
  BY <1>5 DEF Reopen
<1>6. ASSUME Trigger PROVE Goal
  <2>1. /\ at' \in [EqueueThreads -> Places]
        /\ \A t \in EqueueThreads : at'[t] = at[t] \/ (t \in EventWaiters /\ at[t] = "asleep" /\ at'[t] = "inside")
    BY <1>6 DEF Trigger, TriggerSignals, SignalOne, WaitersAt
  <2>2. pin' = [pin EXCEPT ![Presenter] = 0] /\ at[Presenter] = "triggering"
    BY <1>6 DEF Trigger, ReleasePin
  <2>3. QED
    BY <2>1, <2>2
<1>7. ASSUME PresentEnds PROVE Goal
  BY <1>7 DEF PresentEnds
<1>8. ASSUME BeginClose PROVE Goal
  BY <1>8 DEF BeginClose, WakeWaiters, WaitersAt
<1>9. ASSUME DrainSleeps PROVE Goal
  BY <1>9 DEF DrainSleeps
<1>10. ASSUME UnregisterQueue PROVE Goal
  BY <1>10 DEF UnregisterQueue, NoLifetime, Unpinned
<1>11. ASSUME Destroy PROVE Goal
  BY <1>11 DEF Destroy
<1>12. ASSUME DeleteEnds PROVE Goal
  BY <1>12 DEF DeleteEnds
<1>13. ASSUME CloseCollects PROVE Goal
  BY <1>13, PinTaken DEF CloseCollects, CanAcquire, TakePin
<1>14. ASSUME CloseDeletes PROVE Goal
  BY <1>14 DEF CloseDeletes, DeleteEvent, NoEvent
<1>15. ASSUME CloseUnpins PROVE Goal
  BY <1>15, PinReleased DEF CloseUnpins, ReleasePin
<1>16. ASSUME CloseWaits PROVE Goal
  BY <1>16 DEF CloseWaits
<1>17. ASSUME CloseEnds PROVE Goal
  BY <1>17 DEF CloseEnds
<1>18. ASSUME NEW w \in EventWaiters, WaitBegins(w) PROVE Goal
  BY <1>18, PinTaken DEF WaitBegins, CanAcquire, TakePin
<1>19. ASSUME NEW w \in EventWaiters, WaitExpires(w) PROVE Goal
  BY <1>19 DEF WaitExpires
<1>20. ASSUME NEW w \in EventWaiters, WaitLooks(w) PROVE Goal
  BY <1>20 DEF WaitLooks, Taken
<1>21. ASSUME NEW w \in EventWaiters, WaitEnds(w) PROVE Goal
  BY <1>21, PinReleased DEF WaitEnds, ReleasePin
<1>22. ASSUME NEW u \in Users, AddBegins(u) PROVE Goal
  BY <1>22, PinTaken DEF AddBegins, CanAcquire, TakePin
<1>23. ASSUME NEW u \in Users, RemoveBegins(u) PROVE Goal
  BY <1>23, PinTaken DEF RemoveBegins, CanAcquire, TakePin
<1>24. ASSUME NEW u \in Users, AddEvent(u) PROVE Goal
  BY <1>24 DEF AddEvent
<1>25. ASSUME NEW u \in Users, AddPublishes(u) PROVE Goal
  BY <1>25 DEF AddPublishes
<1>26. ASSUME NEW u \in Users, RemoveEvent(u) PROVE Goal
  BY <1>26 DEF RemoveEvent, DeleteEvent, NoEvent
<1>27. ASSUME NEW u \in Users, UserLeaves(u) PROVE Goal
  BY <1>27, PinReleased DEF UserLeaves, ReleasePin
<1>28. QED
  BY ONLY EqueueNext, <1>1, <1>2, <1>3, <1>4, <1>5, <1>6, <1>7, <1>8, <1>9, <1>10, <1>11, <1>12, <1>13, <1>14, <1>15, <1>16, <1>17, <1>18, <1>19, <1>20, <1>21, <1>22, <1>23, <1>24, <1>25, <1>26, <1>27 DEF EqueueNext, Wait, Use, Present, Delete, Close

(* The entry of the registry and the queue object come and go together.    *)
LEMMA LifetimeStep ==
  ASSUME EqueueInv, EqueueNext, EqueueTypeOK'
  PROVE  LifetimeInv'
<1> USE EqueueNames, BoundsAssumption
    DEF EqueueInv, QueueInv, PinInv, LifetimeInv, PinKeepsQueue, Pinning, Goes, registryVars, queueVars, sessionVars, waitVars, AnyGeneration, EqueueTypeOK, Places
<1> DEFINE Goal == LifetimeInv'
<1>1. ASSUME CreateQueue PROVE Goal
  BY <1>1 DEF CreateQueue, NoEvent
<1>2. ASSUME MarkClosing PROVE Goal
  BY <1>2 DEF MarkClosing, CanAcquire
<1>3. ASSUME PresentBegins PROVE Goal
  BY <1>3, PinTaken DEF PresentBegins, CanAcquire, TakePin
<1>4. ASSUME CloseBegins PROVE Goal
  BY <1>4 DEF CloseBegins
<1>5. ASSUME Reopen PROVE Goal
  BY <1>5 DEF Reopen
<1>6. ASSUME Trigger PROVE Goal
  BY <1>6, PinReleased DEF Trigger, ReleasePin, TriggerSignals, SignalOne, WaitersAt
<1>7. ASSUME PresentEnds PROVE Goal
  BY <1>7 DEF PresentEnds
<1>8. ASSUME BeginClose PROVE Goal
  BY <1>8 DEF BeginClose, WakeWaiters, WaitersAt
<1>9. ASSUME DrainSleeps PROVE Goal
  BY <1>9 DEF DrainSleeps
<1>10. ASSUME UnregisterQueue PROVE Goal
  BY <1>10 DEF UnregisterQueue, NoLifetime, Unpinned
<1>11. ASSUME Destroy PROVE Goal
  BY <1>11 DEF Destroy, NoEvent
<1>12. ASSUME DeleteEnds PROVE Goal
  BY <1>12 DEF DeleteEnds
<1>13. ASSUME CloseCollects PROVE Goal
  BY <1>13, PinTaken DEF CloseCollects, CanAcquire, TakePin
<1>14. ASSUME CloseDeletes PROVE Goal
  BY <1>14 DEF CloseDeletes, DeleteEvent, NoEvent
<1>15. ASSUME CloseUnpins PROVE Goal
  BY <1>15, PinReleased DEF CloseUnpins, ReleasePin
<1>16. ASSUME CloseWaits PROVE Goal
  BY <1>16 DEF CloseWaits
<1>17. ASSUME CloseEnds PROVE Goal
  BY <1>17 DEF CloseEnds
<1>18. ASSUME NEW w \in EventWaiters, WaitBegins(w) PROVE Goal
  BY <1>18, PinTaken DEF WaitBegins, CanAcquire, TakePin
<1>19. ASSUME NEW w \in EventWaiters, WaitExpires(w) PROVE Goal
  BY <1>19 DEF WaitExpires
<1>20. ASSUME NEW w \in EventWaiters, WaitLooks(w) PROVE Goal
  BY <1>20 DEF WaitLooks, Taken
<1>21. ASSUME NEW w \in EventWaiters, WaitEnds(w) PROVE Goal
  BY <1>21, PinReleased DEF WaitEnds, ReleasePin
<1>22. ASSUME NEW u \in Users, AddBegins(u) PROVE Goal
  BY <1>22, PinTaken DEF AddBegins, CanAcquire, TakePin
<1>23. ASSUME NEW u \in Users, RemoveBegins(u) PROVE Goal
  BY <1>23, PinTaken DEF RemoveBegins, CanAcquire, TakePin
<1>24. ASSUME NEW u \in Users, AddEvent(u) PROVE Goal
  BY <1>24 DEF AddEvent
<1>25. ASSUME NEW u \in Users, AddPublishes(u) PROVE Goal
  BY <1>25 DEF AddPublishes
<1>26. ASSUME NEW u \in Users, RemoveEvent(u) PROVE Goal
  BY <1>26 DEF RemoveEvent, DeleteEvent, NoEvent
<1>27. ASSUME NEW u \in Users, UserLeaves(u) PROVE Goal
  BY <1>27, PinReleased DEF UserLeaves, ReleasePin
<1>28. QED
  BY ONLY EqueueNext, <1>1, <1>2, <1>3, <1>4, <1>5, <1>6, <1>7, <1>8, <1>9, <1>10, <1>11, <1>12, <1>13, <1>14, <1>15, <1>16, <1>17, <1>18, <1>19, <1>20, <1>21, <1>22, <1>23, <1>24, <1>25, <1>26, <1>27 DEF EqueueNext, Wait, Use, Present, Delete, Close

(* A queue is destroyed only when nobody pins it.                          *)
LEMMA PinKeepsStep ==
  ASSUME EqueueInv, EqueueNext, EqueueTypeOK'
  PROVE  PinKeepsQueue'
<1> USE EqueueNames, BoundsAssumption
    DEF EqueueInv, QueueInv, PinInv, LifetimeInv, PinKeepsQueue, Goes, registryVars, queueVars, sessionVars, waitVars, AnyGeneration, EqueueTypeOK, Places
<1> DEFINE Goal == PinKeepsQueue'
<1>a. UNCHANGED pin => Pinning' = Pinning /\ Cardinality(Pinning') = Cardinality(Pinning)
  BY DEF Pinning
<1>b. Pinning \in SUBSET EqueueThreads /\ Cardinality(Pinning) \in Nat
  BY EqueueCount, EqueueNames DEF Pinning
<1>c. (lifetime.generation = 0 => Pinning = {}) /\ (Cardinality(Pinning) = 0 <=> Pinning = {})
  <2>1. lifetime.generation = 0 => Pinning = {}
    BY DEF Pinning
  <2>2. Deleter \in EqueueThreads
    BY EqueueNames
  <2>3. QED
    BY <1>b, <2>1, <2>2, EqueueCount
<1>d. \A t \in EqueueThreads : t \in Pinning <=> pin[t] # 0
  BY DEF Pinning
<1>1. ASSUME CreateQueue PROVE Goal
  BY <1>1, <1>a, <1>b, <1>c, <1>d DEF CreateQueue, NoEvent
<1>2. ASSUME MarkClosing PROVE Goal
  BY <1>2, <1>a, <1>b, <1>c, <1>d DEF MarkClosing, CanAcquire
<1>3. ASSUME PresentBegins PROVE Goal
  BY <1>3, <1>a, <1>b, <1>c, <1>d, PinTaken DEF PresentBegins, CanAcquire
<1>4. ASSUME CloseBegins PROVE Goal
  BY <1>4, <1>a, <1>b, <1>c, <1>d DEF CloseBegins
<1>5. ASSUME Reopen PROVE Goal
  BY <1>5, <1>a, <1>b, <1>c, <1>d DEF Reopen
<1>6. ASSUME Trigger PROVE Goal
  BY <1>6, <1>a, <1>b, <1>c, <1>d, PinReleased DEF Trigger, TriggerSignals, SignalOne, WaitersAt
<1>7. ASSUME PresentEnds PROVE Goal
  BY <1>7, <1>a, <1>b, <1>c, <1>d DEF PresentEnds
<1>8. ASSUME BeginClose PROVE Goal
  BY <1>8, <1>a, <1>b, <1>c, <1>d DEF BeginClose, WakeWaiters, WaitersAt
<1>9. ASSUME DrainSleeps PROVE Goal
  BY <1>9, <1>a, <1>b, <1>c, <1>d DEF DrainSleeps
<1>10. ASSUME UnregisterQueue PROVE Goal
  BY <1>10, <1>a, <1>b, <1>c, <1>d DEF UnregisterQueue, NoLifetime, Unpinned
<1>11. ASSUME Destroy PROVE Goal
  BY <1>11, <1>a, <1>b, <1>c, <1>d DEF Destroy
<1>12. ASSUME DeleteEnds PROVE Goal
  BY <1>12, <1>a, <1>b, <1>c, <1>d DEF DeleteEnds
<1>13. ASSUME CloseCollects PROVE Goal
  BY <1>13, <1>a, <1>b, <1>c, <1>d, PinTaken DEF CloseCollects, CanAcquire
<1>14. ASSUME CloseDeletes PROVE Goal
  BY <1>14, <1>a, <1>b, <1>c, <1>d DEF CloseDeletes, DeleteEvent, NoEvent
<1>15. ASSUME CloseUnpins PROVE Goal
  BY <1>15, <1>a, <1>b, <1>c, <1>d, PinReleased DEF CloseUnpins
<1>16. ASSUME CloseWaits PROVE Goal
  BY <1>16, <1>a, <1>b, <1>c, <1>d DEF CloseWaits
<1>17. ASSUME CloseEnds PROVE Goal
  BY <1>17, <1>a, <1>b, <1>c, <1>d DEF CloseEnds
<1>18. ASSUME NEW w \in EventWaiters, WaitBegins(w) PROVE Goal
  BY <1>18, <1>a, <1>b, <1>c, <1>d, PinTaken DEF WaitBegins, CanAcquire
<1>19. ASSUME NEW w \in EventWaiters, WaitExpires(w) PROVE Goal
  BY <1>19, <1>a, <1>b, <1>c, <1>d DEF WaitExpires
<1>20. ASSUME NEW w \in EventWaiters, WaitLooks(w) PROVE Goal
  BY <1>20, <1>a, <1>b, <1>c, <1>d DEF WaitLooks, Taken
<1>21. ASSUME NEW w \in EventWaiters, WaitEnds(w) PROVE Goal
  BY <1>21, <1>a, <1>b, <1>c, <1>d, PinReleased DEF WaitEnds
<1>22. ASSUME NEW u \in Users, AddBegins(u) PROVE Goal
  BY <1>22, <1>a, <1>b, <1>c, <1>d, PinTaken DEF AddBegins, CanAcquire
<1>23. ASSUME NEW u \in Users, RemoveBegins(u) PROVE Goal
  BY <1>23, <1>a, <1>b, <1>c, <1>d, PinTaken DEF RemoveBegins, CanAcquire
<1>24. ASSUME NEW u \in Users, AddEvent(u) PROVE Goal
  BY <1>24, <1>a, <1>b, <1>c, <1>d DEF AddEvent
<1>25. ASSUME NEW u \in Users, AddPublishes(u) PROVE Goal
  BY <1>25, <1>a, <1>b, <1>c, <1>d DEF AddPublishes
<1>26. ASSUME NEW u \in Users, RemoveEvent(u) PROVE Goal
  BY <1>26, <1>a, <1>b, <1>c, <1>d DEF RemoveEvent, DeleteEvent, NoEvent
<1>27. ASSUME NEW u \in Users, UserLeaves(u) PROVE Goal
  BY <1>27, <1>a, <1>b, <1>c, <1>d, PinReleased DEF UserLeaves
<1>28. QED
  BY ONLY EqueueNext, <1>1, <1>2, <1>3, <1>4, <1>5, <1>6, <1>7, <1>8, <1>9, <1>10, <1>11, <1>12, <1>13, <1>14, <1>15, <1>16, <1>17, <1>18, <1>19, <1>20, <1>21, <1>22, <1>23, <1>24, <1>25, <1>26, <1>27 DEF EqueueNext, Wait, Use, Present, Delete, Close

----------------------------------------------------------------------------
(* Event queues: the bindings                                              *)

LEMMA MineStep ==
  ASSUME EqueueInv, EqueueNext, EqueueTypeOK'
  PROVE  MineInv'
<1> USE EqueueNames, BoundsAssumption
    DEF EqueueInv, QueueInv, PinInv, LifetimeInv, PinKeepsQueue, BindingInv, BindingsAreSound, MineInv, CloseInv, Free, Listed, Published, Goes, registryVars, queueVars, sessionVars, waitVars, AnyGeneration, EqueueTypeOK, Places
<1> DEFINE Goal == MineInv'
<1>1. ASSUME CreateQueue PROVE Goal
  BY <1>1 DEF CreateQueue, NoEvent
<1>2. ASSUME MarkClosing PROVE Goal
  BY <1>2 DEF MarkClosing, CanAcquire
<1>3. ASSUME PresentBegins PROVE Goal
  BY <1>3 DEF PresentBegins, CanAcquire, TakePin
<1>4. ASSUME CloseBegins PROVE Goal
  BY <1>4 DEF CloseBegins
<1>5. ASSUME Reopen PROVE Goal
  BY <1>5 DEF Reopen
<1>6. ASSUME Trigger PROVE Goal
  BY <1>6 DEF Trigger, ReleasePin, TriggerSignals, SignalOne, WaitersAt
<1>7. ASSUME PresentEnds PROVE Goal
  BY <1>7 DEF PresentEnds
<1>8. ASSUME BeginClose PROVE Goal
  BY <1>8 DEF BeginClose, WakeWaiters, WaitersAt
<1>9. ASSUME DrainSleeps PROVE Goal
  BY <1>9 DEF DrainSleeps
<1>10. ASSUME UnregisterQueue PROVE Goal
  BY <1>10 DEF UnregisterQueue, NoLifetime, Unpinned
<1>11. ASSUME Destroy PROVE Goal
  BY <1>11 DEF Destroy, DropBinding, UnusedBinding, NoEvent
<1>12. ASSUME DeleteEnds PROVE Goal
  BY <1>12 DEF DeleteEnds
<1>13. ASSUME CloseCollects PROVE Goal
  BY <1>13 DEF CloseCollects, CanAcquire, TakePin
<1>14. ASSUME CloseDeletes PROVE Goal
  BY <1>14 DEF CloseDeletes, DeleteEvent, DropBinding, UnusedBinding, NoEvent
<1>15. ASSUME CloseUnpins PROVE Goal
  BY <1>15 DEF CloseUnpins, ReleasePin
<1>16. ASSUME CloseWaits PROVE Goal
  BY <1>16 DEF CloseWaits, Closed
<1>17. ASSUME CloseEnds PROVE Goal
  BY <1>17 DEF CloseEnds
<1>18. ASSUME NEW w \in EventWaiters, WaitBegins(w) PROVE Goal
  BY <1>18 DEF WaitBegins, CanAcquire, TakePin
<1>19. ASSUME NEW w \in EventWaiters, WaitExpires(w) PROVE Goal
  BY <1>19 DEF WaitExpires
<1>20. ASSUME NEW w \in EventWaiters, WaitLooks(w) PROVE Goal
  BY <1>20 DEF WaitLooks, Taken
<1>21. ASSUME NEW w \in EventWaiters, WaitEnds(w) PROVE Goal
  BY <1>21 DEF WaitEnds, ReleasePin
<1>22. ASSUME NEW u \in Users, AddBegins(u) PROVE Goal
  BY <1>22 DEF AddBegins, CanAcquire, TakePin
<1>23. ASSUME NEW u \in Users, RemoveBegins(u) PROVE Goal
  BY <1>23 DEF RemoveBegins, CanAcquire, TakePin
<1>24. ASSUME NEW u \in Users, AddEvent(u) PROVE Goal
  BY <1>24 DEF AddEvent, DropBinding, UnusedBinding
<1>25. ASSUME NEW u \in Users, AddPublishes(u) PROVE Goal
  BY <1>25 DEF AddPublishes, AfterAdd, UnusedBinding
<1>26. ASSUME NEW u \in Users, RemoveEvent(u) PROVE Goal
  BY <1>26 DEF RemoveEvent, DeleteEvent, DropBinding, UnusedBinding, NoEvent
<1>27. ASSUME NEW u \in Users, UserLeaves(u) PROVE Goal
  BY <1>27 DEF UserLeaves, ReleasePin
<1>28. QED
  BY ONLY EqueueNext, <1>1, <1>2, <1>3, <1>4, <1>5, <1>6, <1>7, <1>8, <1>9, <1>10, <1>11, <1>12, <1>13, <1>14, <1>15, <1>16, <1>17, <1>18, <1>19, <1>20, <1>21, <1>22, <1>23, <1>24, <1>25, <1>26, <1>27 DEF EqueueNext, Wait, Use, Present, Delete, Close

(* A binding is freed when the event and its registering thread are done.  *)
LEMMA SoundStep ==
  ASSUME EqueueInv, EqueueNext, EqueueTypeOK'
  PROVE  BindingsAreSound'
<1> USE EqueueNames, BoundsAssumption
    DEF EqueueInv, QueueInv, PinInv, LifetimeInv, PinKeepsQueue, BindingInv, BindingsAreSound, MineInv, CloseInv, Free, Listed, Published, Goes, registryVars, queueVars, sessionVars, waitVars, AnyGeneration, EqueueTypeOK, Places
<1> DEFINE Goal == BindingsAreSound'
<1>1. ASSUME CreateQueue PROVE Goal
  BY <1>1 DEF CreateQueue, NoEvent
<1>2. ASSUME MarkClosing PROVE Goal
  BY <1>2 DEF MarkClosing, CanAcquire
<1>3. ASSUME PresentBegins PROVE Goal
  BY <1>3 DEF PresentBegins, CanAcquire, TakePin
<1>4. ASSUME CloseBegins PROVE Goal
  BY <1>4 DEF CloseBegins
<1>5. ASSUME Reopen PROVE Goal
  BY <1>5 DEF Reopen
<1>6. ASSUME Trigger PROVE Goal
  BY <1>6 DEF Trigger, ReleasePin, TriggerSignals, SignalOne, WaitersAt
<1>7. ASSUME PresentEnds PROVE Goal
  BY <1>7 DEF PresentEnds
<1>8. ASSUME BeginClose PROVE Goal
  BY <1>8 DEF BeginClose, WakeWaiters, WaitersAt
<1>9. ASSUME DrainSleeps PROVE Goal
  BY <1>9 DEF DrainSleeps
<1>10. ASSUME UnregisterQueue PROVE Goal
  BY <1>10 DEF UnregisterQueue, NoLifetime, Unpinned
<1>11. ASSUME Destroy PROVE Goal
  BY <1>11 DEF Destroy, DropBinding, UnusedBinding, NoEvent
<1>12. ASSUME DeleteEnds PROVE Goal
  BY <1>12 DEF DeleteEnds
<1>13. ASSUME CloseCollects PROVE Goal
  <2>1. \A b \in Bindings : binding[b].state \notin {"begun", "deleted"}
    BY <1>13 DEF CloseCollects
  <2>2. /\ UNCHANGED <<binding, event, object, mine>>
        /\ at' = [at EXCEPT ![SessionCloser] = "deleting"]
    BY <1>13 DEF CloseCollects
  <2>3. ASSUME pin'[SessionCloser] = 0, awaited' = {} PROVE Published = {}
    <3>1. ~CanAcquire({binding[b].generation : b \in Listed})
      BY <1>13, <2>3 DEF CloseCollects, CanAcquire, TakePin
    <3>2. {binding[b].generation : b \in Listed} = {}
      BY <1>13, <2>3, <3>1 DEF CloseCollects
    <3>3. Listed = {}
      <4> HIDE DEF Listed
      <4>1. QED
        BY ONLY <3>2
    <3>4. QED
      BY <3>3
  <2>4. QED
    BY <2>1, <2>2, <2>3
<1>14. ASSUME CloseDeletes PROVE Goal
  BY <1>14 DEF CloseDeletes, DeleteEvent, DropBinding, UnusedBinding, NoEvent
<1>15. ASSUME CloseUnpins PROVE Goal
  BY <1>15 DEF CloseUnpins, ReleasePin
<1>16. ASSUME CloseWaits PROVE Goal
  BY <1>16 DEF CloseWaits, Closed
<1>17. ASSUME CloseEnds PROVE Goal
  BY <1>17 DEF CloseEnds
<1>18. ASSUME NEW w \in EventWaiters, WaitBegins(w) PROVE Goal
  BY <1>18 DEF WaitBegins, CanAcquire, TakePin
<1>19. ASSUME NEW w \in EventWaiters, WaitExpires(w) PROVE Goal
  BY <1>19 DEF WaitExpires
<1>20. ASSUME NEW w \in EventWaiters, WaitLooks(w) PROVE Goal
  BY <1>20 DEF WaitLooks, Taken
<1>21. ASSUME NEW w \in EventWaiters, WaitEnds(w) PROVE Goal
  BY <1>21 DEF WaitEnds, ReleasePin
<1>22. ASSUME NEW u \in Users, AddBegins(u) PROVE Goal
  BY <1>22 DEF AddBegins, CanAcquire, TakePin
<1>23. ASSUME NEW u \in Users, RemoveBegins(u) PROVE Goal
  BY <1>23 DEF RemoveBegins, CanAcquire, TakePin
<1>24. ASSUME NEW u \in Users, AddEvent(u) PROVE Goal
  <2>1. /\ at[u] = "adding" /\ mine[u] \in Bindings /\ mine[u] # event.binding
        /\ binding[mine[u]].state = "begun" /\ binding[mine[u]].generation = object
        /\ u \in EqueueThreads /\ at[SessionCloser] \notin {"deleting", "unpinning"}
    BY <1>24 DEF AddEvent, Pinning
  <2>2. /\ at' = [at EXCEPT ![u] = "added"] /\ UNCHANGED <<object, mine>>
        /\ event' = [count |-> 0, binding |-> mine[u]]
        /\ binding' = DropBinding(event.binding)
    BY <1>24 DEF AddEvent
  <2>3. /\ \A b \in Bindings : b # event.binding => binding'[b] = binding[b]
        /\ event.binding # NoBinding => binding'[event.binding].state \in {"free", "deleted"}
        /\ event.binding # NoBinding /\ binding[event.binding].state # "published" =>
             binding'[event.binding].state = "deleted"
    BY <2>2 DEF DropBinding, UnusedBinding
  <2>4. \A b \in Published' : FALSE
    BY <2>1, <2>2, <2>3
  <2>5. \A v \in Users : mine[v] # NoBinding => binding'[mine[v]].state # "free"
    BY <2>1, <2>2, <2>3
  <2>6. QED
    BY <2>1, <2>2, <2>3, <2>4, <2>5
<1>25. ASSUME NEW u \in Users, AddPublishes(u) PROVE Goal
  BY <1>25 DEF AddPublishes, AfterAdd, UnusedBinding
<1>26. ASSUME NEW u \in Users, RemoveEvent(u) PROVE Goal
  BY <1>26 DEF RemoveEvent, DeleteEvent, DropBinding, UnusedBinding, NoEvent
<1>27. ASSUME NEW u \in Users, UserLeaves(u) PROVE Goal
  BY <1>27 DEF UserLeaves, ReleasePin
<1>28. QED
  BY ONLY EqueueNext, <1>1, <1>2, <1>3, <1>4, <1>5, <1>6, <1>7, <1>8, <1>9, <1>10, <1>11, <1>12, <1>13, <1>14, <1>15, <1>16, <1>17, <1>18, <1>19, <1>20, <1>21, <1>22, <1>23, <1>24, <1>25, <1>26, <1>27 DEF EqueueNext, Wait, Use, Present, Delete, Close

(* The closing session waits for the generations that hold its bindings.   *)
LEMMA CloseStep ==
  ASSUME EqueueInv, EqueueNext, EqueueTypeOK'
  PROVE  CloseInv'
<1> USE EqueueNames, BoundsAssumption
    DEF EqueueInv, QueueInv, PinInv, LifetimeInv, PinKeepsQueue, BindingInv, BindingsAreSound, MineInv, CloseInv, Free, Listed, Published, Goes, registryVars, queueVars, sessionVars, waitVars, AnyGeneration, EqueueTypeOK, Places
<1> DEFINE Goal == CloseInv'
<1>1. ASSUME CreateQueue PROVE Goal
  BY <1>1 DEF CreateQueue, NoEvent
<1>2. ASSUME MarkClosing PROVE Goal
  BY <1>2 DEF MarkClosing, CanAcquire
<1>3. ASSUME PresentBegins PROVE Goal
  BY <1>3 DEF PresentBegins, CanAcquire, TakePin
<1>4. ASSUME CloseBegins PROVE Goal
  BY <1>4 DEF CloseBegins
<1>5. ASSUME Reopen PROVE Goal
  BY <1>5 DEF Reopen
<1>6. ASSUME Trigger PROVE Goal
  BY <1>6 DEF Trigger, ReleasePin, TriggerSignals, SignalOne, WaitersAt
<1>7. ASSUME PresentEnds PROVE Goal
  BY <1>7 DEF PresentEnds
<1>8. ASSUME BeginClose PROVE Goal
  BY <1>8 DEF BeginClose, WakeWaiters, WaitersAt
<1>9. ASSUME DrainSleeps PROVE Goal
  BY <1>9 DEF DrainSleeps
<1>10. ASSUME UnregisterQueue PROVE Goal
  BY <1>10 DEF UnregisterQueue, NoLifetime, Unpinned
<1>11. ASSUME Destroy PROVE Goal
  BY <1>11 DEF Destroy, DropBinding, UnusedBinding, NoEvent
<1>12. ASSUME DeleteEnds PROVE Goal
  BY <1>12 DEF DeleteEnds
<1>13. ASSUME CloseCollects PROVE Goal
  BY <1>13 DEF CloseCollects, CanAcquire, TakePin
<1>14. ASSUME CloseDeletes PROVE Goal
  BY <1>14 DEF CloseDeletes, DeleteEvent, DropBinding, UnusedBinding, NoEvent
<1>15. ASSUME CloseUnpins PROVE Goal
  BY <1>15 DEF CloseUnpins, ReleasePin
<1>16. ASSUME CloseWaits PROVE Goal
  BY <1>16 DEF CloseWaits, Closed
<1>17. ASSUME CloseEnds PROVE Goal
  BY <1>17 DEF CloseEnds
<1>18. ASSUME NEW w \in EventWaiters, WaitBegins(w) PROVE Goal
  BY <1>18 DEF WaitBegins, CanAcquire, TakePin
<1>19. ASSUME NEW w \in EventWaiters, WaitExpires(w) PROVE Goal
  BY <1>19 DEF WaitExpires
<1>20. ASSUME NEW w \in EventWaiters, WaitLooks(w) PROVE Goal
  BY <1>20 DEF WaitLooks, Taken
<1>21. ASSUME NEW w \in EventWaiters, WaitEnds(w) PROVE Goal
  BY <1>21 DEF WaitEnds, ReleasePin
<1>22. ASSUME NEW u \in Users, AddBegins(u) PROVE Goal
  BY <1>22 DEF AddBegins, CanAcquire, TakePin
<1>23. ASSUME NEW u \in Users, RemoveBegins(u) PROVE Goal
  BY <1>23 DEF RemoveBegins, CanAcquire, TakePin
<1>24. ASSUME NEW u \in Users, AddEvent(u) PROVE Goal
  BY <1>24 DEF AddEvent, DropBinding, UnusedBinding
<1>25. ASSUME NEW u \in Users, AddPublishes(u) PROVE Goal
  BY <1>25 DEF AddPublishes, AfterAdd, UnusedBinding
<1>26. ASSUME NEW u \in Users, RemoveEvent(u) PROVE Goal
  BY <1>26 DEF RemoveEvent, DeleteEvent, DropBinding, UnusedBinding, NoEvent
<1>27. ASSUME NEW u \in Users, UserLeaves(u) PROVE Goal
  BY <1>27 DEF UserLeaves, ReleasePin
<1>28. QED
  BY ONLY EqueueNext, <1>1, <1>2, <1>3, <1>4, <1>5, <1>6, <1>7, <1>8, <1>9, <1>10, <1>11, <1>12, <1>13, <1>14, <1>15, <1>16, <1>17, <1>18, <1>19, <1>20, <1>21, <1>22, <1>23, <1>24, <1>25, <1>26, <1>27 DEF EqueueNext, Wait, Use, Present, Delete, Close

----------------------------------------------------------------------------
(* Event queues: the sleeping waiters                                      *)

(* Nobody falls asleep on a queue that closes, or stays asleep on one.      *)
LEMMA ClosingStep ==
  ASSUME EqueueInv, EqueueNext, EqueueTypeOK'
  PROVE  (queueClosing <=> at[Deleter] \in {"draining", "destroying"})' /\ (queueClosing => WaitersAt({"asleep"}) = {})'
<1> USE EqueueNames
    DEF EqueueInv, QueueInv, PinInv, LifetimeInv, SleepInv, Goes, registryVars, queueVars, sessionVars, waitVars, AnyGeneration, EqueueTypeOK, Places, WaitersAt
<1> DEFINE Goal == (queueClosing <=> at[Deleter] \in {"draining", "destroying"})' /\ (queueClosing => WaitersAt({"asleep"}) = {})'
<1>1. ASSUME CreateQueue PROVE Goal
  BY <1>1 DEF CreateQueue, NoEvent
<1>2. ASSUME MarkClosing PROVE Goal
  BY <1>2 DEF MarkClosing, CanAcquire
<1>3. ASSUME PresentBegins PROVE Goal
  BY <1>3 DEF PresentBegins
<1>4. ASSUME CloseBegins PROVE Goal
  BY <1>4 DEF CloseBegins
<1>5. ASSUME Reopen PROVE Goal
  BY <1>5 DEF Reopen
<1>6. ASSUME Trigger PROVE Goal
  BY <1>6 DEF Trigger, TriggerSignals, SignalOne
<1>7. ASSUME PresentEnds PROVE Goal
  BY <1>7 DEF PresentEnds
<1>8. ASSUME BeginClose PROVE Goal
  BY <1>8 DEF BeginClose, WakeWaiters
<1>9. ASSUME DrainSleeps PROVE Goal
  BY <1>9 DEF DrainSleeps
<1>10. ASSUME UnregisterQueue PROVE Goal
  BY <1>10 DEF UnregisterQueue
<1>11. ASSUME Destroy PROVE Goal
  BY <1>11 DEF Destroy, NoEvent
<1>12. ASSUME DeleteEnds PROVE Goal
  BY <1>12 DEF DeleteEnds
<1>13. ASSUME CloseCollects PROVE Goal
  BY <1>13 DEF CloseCollects
<1>14. ASSUME CloseDeletes PROVE Goal
  BY <1>14 DEF CloseDeletes, DeleteEvent, NoEvent
<1>15. ASSUME CloseUnpins PROVE Goal
  BY <1>15 DEF CloseUnpins
<1>16. ASSUME CloseWaits PROVE Goal
  BY <1>16 DEF CloseWaits
<1>17. ASSUME CloseEnds PROVE Goal
  BY <1>17 DEF CloseEnds
<1>18. ASSUME NEW w \in EventWaiters, WaitBegins(w) PROVE Goal
  BY <1>18 DEF WaitBegins, CanAcquire
<1>19. ASSUME NEW w \in EventWaiters, WaitExpires(w) PROVE Goal
  BY <1>19 DEF WaitExpires
<1>20. ASSUME NEW w \in EventWaiters, WaitLooks(w) PROVE Goal
  BY <1>20 DEF WaitLooks, Taken
<1>21. ASSUME NEW w \in EventWaiters, WaitEnds(w) PROVE Goal
  BY <1>21 DEF WaitEnds
<1>22. ASSUME NEW u \in Users, AddBegins(u) PROVE Goal
  BY <1>22 DEF AddBegins
<1>23. ASSUME NEW u \in Users, RemoveBegins(u) PROVE Goal
  BY <1>23 DEF RemoveBegins
<1>24. ASSUME NEW u \in Users, AddEvent(u) PROVE Goal
  BY <1>24 DEF AddEvent
<1>25. ASSUME NEW u \in Users, AddPublishes(u) PROVE Goal
  BY <1>25 DEF AddPublishes
<1>26. ASSUME NEW u \in Users, RemoveEvent(u) PROVE Goal
  BY <1>26 DEF RemoveEvent, DeleteEvent, NoEvent
<1>27. ASSUME NEW u \in Users, UserLeaves(u) PROVE Goal
  BY <1>27 DEF UserLeaves
<1>28. QED
  BY ONLY EqueueNext, <1>1, <1>2, <1>3, <1>4, <1>5, <1>6, <1>7, <1>8, <1>9, <1>10, <1>11, <1>12, <1>13, <1>14, <1>15, <1>16, <1>17, <1>18, <1>19, <1>20, <1>21, <1>22, <1>23, <1>24, <1>25, <1>26, <1>27 DEF EqueueNext, Wait, Use, Present, Delete, Close

(* The waiters that are still to look at the queue.                        *)
Lookers == Cardinality(WaitersAt({"inside", "expired"}))

(* Waiters leave the place they were at one at a time.                     *)
LEMMA LookersMove ==
  ASSUME EqueueTypeOK, NEW w \in EventWaiters, NEW to \in Places, at' = [at EXCEPT ![w] = to]
  PROVE  /\ Lookers \in Nat /\ Lookers' \in Nat
         /\ to \in {"inside", "expired"} /\ at[w] \notin {"inside", "expired"} => Lookers' = Lookers + 1
         /\ to \in {"inside", "expired"} /\ at[w] \in {"inside", "expired"} => Lookers' = Lookers
         /\ to \notin {"inside", "expired"} /\ at[w] \in {"inside", "expired"} => Lookers' = Lookers - 1
         /\ to \notin {"inside", "expired"} /\ at[w] \notin {"inside", "expired"} => Lookers' = Lookers
         /\ to # "asleep" /\ WaitersAt({"asleep"}) = {} => WaitersAt({"asleep"})' = {}
<1> DEFINE before == WaitersAt({"inside", "expired"})
           after == WaitersAt({"inside", "expired"})'
<1>1. before \in SUBSET EqueueThreads /\ after \in SUBSET EqueueThreads /\ w \in EqueueThreads
  BY EqueueNames DEF WaitersAt
<1>2. after = IF to \in {"inside", "expired"} THEN before \cup {w} ELSE before \ {w}
  BY EqueueNames DEF WaitersAt, EqueueTypeOK
<1>3. WaitersAt({"asleep"})' = IF to = "asleep" THEN WaitersAt({"asleep"}) \cup {w} ELSE WaitersAt({"asleep"}) \ {w}
  BY EqueueNames DEF WaitersAt, EqueueTypeOK
<1>4. w \in before <=> at[w] \in {"inside", "expired"}
  BY DEF WaitersAt
<1>5. (w \in before => before \cup {w} = before) /\ (w \notin before => before \ {w} = before)
  OBVIOUS
<1> HIDE DEF before, after
<1>6. /\ Cardinality(before) \in Nat /\ Cardinality(after) \in Nat
      /\ w \notin before => Cardinality(before \cup {w}) = Cardinality(before) + 1
      /\ w \in before => Cardinality(before \ {w}) = Cardinality(before) - 1
  BY <1>1, EqueueCount
<1>7. Lookers = Cardinality(before) /\ Lookers' = Cardinality(after)
  BY DEF before, after, Lookers
<1>8. QED
  BY <1>2, <1>3, <1>4, <1>5, <1>6, <1>7

(* One delivery more wakes one waiter, if there is one asleep.             *)
LEMMA MissedStep ==
  ASSUME EqueueInv, EqueueNext, EqueueTypeOK'
  PROVE  NoWaiterMissed'
<1> USE EqueueNames
    DEF EqueueInv, QueueInv, PinInv, PinKeepsQueue, SleepInv, Goes, registryVars, queueVars, sessionVars, waitVars, EqueueTypeOK, Places
<1> DEFINE Goal == NoWaiterMissed'
<1>c. /\ NoWaiterMissed <=> (WaitersAt({"asleep"}) # {} => event.count <= Lookers)
      /\ NoWaiterMissed' <=> (WaitersAt({"asleep"})' # {} => event'.count <= Lookers')
  BY DEF NoWaiterMissed, Lookers
<1>b. event.count \in Nat /\ event'.count \in Nat
  BY BoundsAssumption
<1>a. ASSUME \A w \in EventWaiters : at'[w] = at[w], event'.count <= event.count
      PROVE  Goal
  <2>1. WaitersAt({"asleep"})' = WaitersAt({"asleep"})
    BY <1>a DEF WaitersAt
  <2>2. WaitersAt({"inside", "expired"})' = WaitersAt({"inside", "expired"})
    BY <1>a DEF WaitersAt
  <2>3. Lookers \in Nat /\ Lookers' = Lookers
    <3>1. WaitersAt({"inside", "expired"}) \in SUBSET EqueueThreads /\ Deleter \in EqueueThreads
      BY EqueueNames DEF WaitersAt
    <3>2. QED
      BY <2>2, <3>1, EqueueCount DEF Lookers
  <2>4. QED
    BY <1>a, <1>b, <1>c, <2>1, <2>3
<1>1. ASSUME CreateQueue PROVE Goal
  BY <1>1, <1>a, <1>b DEF CreateQueue, NoEvent
<1>2. ASSUME MarkClosing PROVE Goal
  BY <1>2, <1>a, <1>b DEF MarkClosing, CanAcquire
<1>3. ASSUME PresentBegins PROVE Goal
  BY <1>3, <1>a, <1>b DEF PresentBegins
<1>4. ASSUME CloseBegins PROVE Goal
  BY <1>4, <1>a, <1>b DEF CloseBegins
<1>5. ASSUME Reopen PROVE Goal
  BY <1>5, <1>a, <1>b DEF Reopen
<1>6. ASSUME Trigger PROVE Goal
  <2>1. CASE UNCHANGED at
    <3>1. CASE event.binding = NoBinding
      BY <1>6, <1>a, <2>1, <3>1 DEF Trigger
    <3>2. CASE event.binding # NoBinding
      <4>1. SignalOne
        BY <1>6, <3>2 DEF Trigger, TriggerSignals
      <4>2. WaitersAt({"asleep"}) = {}
        BY <4>1, <2>1 DEF SignalOne, WaitersAt
      <4>3. WaitersAt({"asleep"})' = {}
        BY <4>2, <2>1 DEF WaitersAt
      <4>4. QED
        BY <1>c, <4>3
    <3>3. QED
      BY <3>1, <3>2
  <2>2. ASSUME NEW w \in WaitersAt({"asleep"}), Goes(w, "inside") PROVE Goal
    <3>1. w \in EventWaiters /\ at[w] = "asleep" /\ event'.count \in Nat /\ event'.count <= event.count + 1
      BY <1>6, <1>b, <2>2 DEF Trigger, WaitersAt
    <3>2. Lookers \in Nat /\ Lookers' = Lookers + 1
      BY <3>1, <2>2, LookersMove
    <3>3. WaitersAt({"asleep"}) # {}
      BY <2>2
    <3>4. QED
      BY <3>1, <3>2, <3>3, <1>b, <1>c
  <2>3. QED
    BY <1>6, <2>1, <2>2 DEF Trigger, TriggerSignals, SignalOne
<1>7. ASSUME PresentEnds PROVE Goal
  BY <1>7, <1>a, <1>b DEF PresentEnds
<1>8. ASSUME BeginClose PROVE Goal
  <2>1. WaitersAt({"asleep"})' = {}
    BY <1>8 DEF BeginClose, WakeWaiters, WaitersAt
  <2>2. QED
    BY <2>1, <1>c
<1>9. ASSUME DrainSleeps PROVE Goal
  BY <1>9, <1>a, <1>b DEF DrainSleeps
<1>10. ASSUME UnregisterQueue PROVE Goal
  BY <1>10, <1>a, <1>b DEF UnregisterQueue
<1>11. ASSUME Destroy PROVE Goal
  BY <1>11, <1>a, <1>b DEF Destroy, NoEvent
<1>12. ASSUME DeleteEnds PROVE Goal
  BY <1>12, <1>a, <1>b DEF DeleteEnds
<1>13. ASSUME CloseCollects PROVE Goal
  BY <1>13, <1>a, <1>b DEF CloseCollects
<1>14. ASSUME CloseDeletes PROVE Goal
  BY <1>14, <1>a, <1>b DEF CloseDeletes, DeleteEvent, NoEvent
<1>15. ASSUME CloseUnpins PROVE Goal
  BY <1>15, <1>a, <1>b DEF CloseUnpins
<1>16. ASSUME CloseWaits PROVE Goal
  BY <1>16, <1>a, <1>b DEF CloseWaits
<1>17. ASSUME CloseEnds PROVE Goal
  BY <1>17, <1>a, <1>b DEF CloseEnds
<1>18. ASSUME NEW w \in EventWaiters, WaitBegins(w) PROVE Goal
  <2>1. at[w] = "idle" /\ at' = [at EXCEPT ![w] = "inside"]
    BY <1>18 DEF WaitBegins
  <2>2. event' = event
    BY <1>18 DEF WaitBegins
  <2>3. Lookers \in Nat /\ Lookers' = Lookers + 1
    BY <2>1, LookersMove
  <2>4. WaitersAt({"asleep"}) = {} => WaitersAt({"asleep"})' = {}
    BY <2>1, LookersMove
  <2>5. QED
    BY <2>2, <2>3, <2>4, <1>b, <1>c
<1>19. ASSUME NEW w \in EventWaiters, WaitExpires(w) PROVE Goal
  <2>1. at[w] = "asleep" /\ at' = [at EXCEPT ![w] = "expired"]
    BY <1>19 DEF WaitExpires
  <2>2. event' = event
    BY <1>19 DEF WaitExpires
  <2>3. Lookers \in Nat /\ Lookers' = Lookers + 1
    BY <2>1, LookersMove
  <2>4. WaitersAt({"asleep"}) = {} => WaitersAt({"asleep"})' = {}
    BY <2>1, LookersMove
  <2>5. QED
    BY <2>2, <2>3, <2>4, <1>b, <1>c
<1>20. ASSUME NEW w \in EventWaiters, WaitLooks(w) PROVE Goal
  <2>1. at[w] \in {"inside", "expired"} /\ at' = [at EXCEPT ![w] = at'[w]] /\ at'[w] \in {"leaving", "asleep"}
    BY <1>20 DEF WaitLooks
  <2>2. CASE ~queueClosing /\ event.count > 0
    <3>1. event'.count = event.count - 1 /\ at'[w] = "leaving"
      BY <1>20, <2>2 DEF WaitLooks, Taken
    <3>2. QED
      BY <2>1, <3>1, <1>b, <1>c, LookersMove
  <2>3. CASE ~queueClosing /\ event.count <= 0
    <3>1. event'.count = 0
      BY <1>20, <1>b, <2>3 DEF WaitLooks
    <3>2. QED
      BY <2>1, <3>1, <1>b, <1>c, LookersMove
  <2>4. CASE queueClosing
    <3>1. WaitersAt({"asleep"}) = {} /\ at'[w] = "leaving"
      BY <1>20, <2>4 DEF WaitLooks
    <3>2. WaitersAt({"asleep"})' = {}
      BY <2>1, <3>1 DEF WaitersAt
    <3>3. QED
      BY <3>2, <1>c
  <2>5. QED
    BY <1>b, <2>2, <2>3, <2>4
<1>21. ASSUME NEW w \in EventWaiters, WaitEnds(w) PROVE Goal
  <2>1. at[w] = "leaving" /\ at' = [at EXCEPT ![w] = "idle"]
    BY <1>21 DEF WaitEnds
  <2>2. event' = event
    BY <1>21 DEF WaitEnds
  <2>3. Lookers \in Nat /\ Lookers' = Lookers
    BY <2>1, LookersMove
  <2>4. WaitersAt({"asleep"}) = {} => WaitersAt({"asleep"})' = {}
    BY <2>1, LookersMove
  <2>5. QED
    BY <2>2, <2>3, <2>4, <1>b, <1>c
<1>22. ASSUME NEW u \in Users, AddBegins(u) PROVE Goal
  BY <1>22, <1>a, <1>b DEF AddBegins
<1>23. ASSUME NEW u \in Users, RemoveBegins(u) PROVE Goal
  BY <1>23, <1>a, <1>b DEF RemoveBegins
<1>24. ASSUME NEW u \in Users, AddEvent(u) PROVE Goal
  BY <1>24, <1>a, <1>b DEF AddEvent
<1>25. ASSUME NEW u \in Users, AddPublishes(u) PROVE Goal
  BY <1>25, <1>a, <1>b DEF AddPublishes
<1>26. ASSUME NEW u \in Users, RemoveEvent(u) PROVE Goal
  BY <1>26, <1>a, <1>b DEF RemoveEvent, DeleteEvent, NoEvent
<1>27. ASSUME NEW u \in Users, UserLeaves(u) PROVE Goal
  BY <1>27, <1>a, <1>b DEF UserLeaves
<1>28. QED
  BY ONLY EqueueNext, <1>1, <1>2, <1>3, <1>4, <1>5, <1>6, <1>7, <1>8, <1>9, <1>10, <1>11, <1>12, <1>13, <1>14, <1>15, <1>16, <1>17, <1>18, <1>19, <1>20, <1>21, <1>22, <1>23, <1>24, <1>25, <1>26, <1>27 DEF EqueueNext, Wait, Use, Present, Delete, Close

----------------------------------------------------------------------------
(* Event queues: the theorems                                              *)

LEMMA EqueueInitially == EqueueInit => EqueueInv
<1> SUFFICES ASSUME EqueueInit PROVE EqueueInv
  OBVIOUS
<1> USE EqueueNames, EqueueDefaults, BoundsAssumption DEF EqueueInit
<1>1. EqueueTypeOK
  <2>1. nextGeneration \in 1 .. MaxGeneration + 1
    OBVIOUS
  <2>2. pin \in [EqueueThreads -> 0 .. MaxGeneration] /\ at \in [EqueueThreads -> Places]
    BY DEF Places
  <2>3. QED
    BY <2>1, <2>2 DEF EqueueTypeOK, AnyGeneration
<1>2. Pinning = {}
  BY DEF Pinning
<1>3. PinKeepsQueue
  BY <1>1, <1>2 DEF PinKeepsQueue, NoLifetime
<1>4. PinInv /\ LifetimeInv
  BY DEF PinInv, LifetimeInv, NoLifetime
<1>5. BindingInv
  BY DEF BindingInv, BindingsAreSound, MineInv, CloseInv, Published, Listed, Free, NoEvent, UnusedBinding
<1>6. WaitersAt({"asleep"}) = {}
  BY DEF WaitersAt
<1>7. SleepInv
  BY <1>6 DEF SleepInv, NoWaiterMissed
<1>8. QED
  BY <1>3, <1>4, <1>5, <1>7 DEF EqueueInv, QueueInv

(* A step that changes nothing keeps the invariant.                        *)
LEMMA EqueueStutters == EqueueInv /\ UNCHANGED equeueVars => EqueueInv'
<1> SUFFICES ASSUME EqueueInv, UNCHANGED equeueVars PROVE EqueueInv'
  OBVIOUS
<1> USE DEF equeueVars, registryVars, queueVars, sessionVars, waitVars
<1>1. Pinning' = Pinning /\ Published' = Published /\ Listed' = Listed
  BY DEF Pinning, Published, Listed
<1>2. \A S : WaitersAt(S)' = WaitersAt(S)
  BY DEF WaitersAt
<1>3. QueueInv'
  BY <1>1 DEF EqueueInv, QueueInv, PinKeepsQueue, EqueueTypeOK, PinInv, LifetimeInv
<1>4. BindingInv'
  BY <1>1 DEF EqueueInv, BindingInv, BindingsAreSound, MineInv, CloseInv, Free
<1>5. SleepInv'
  BY <1>2 DEF EqueueInv, SleepInv, NoWaiterMissed
<1>6. QED
  BY <1>3, <1>4, <1>5 DEF EqueueInv

(* The invariant holds of every behaviour.                                 *)
LEMMA EqueueInvariance == EqueueSpec => []EqueueInv
<1>1. ASSUME EqueueInv, EqueueNext PROVE EqueueInv'
  <2>1. EqueueTypeOK'
    BY <1>1, EqueueTypeStep
  <2>2. PinInv' /\ LifetimeInv' /\ PinKeepsQueue'
    BY <1>1, <2>1, PinStep, LifetimeStep, PinKeepsStep
  <2>3. MineInv' /\ BindingsAreSound' /\ CloseInv'
    BY <1>1, <2>1, MineStep, SoundStep, CloseStep
  <2>4. SleepInv'
    BY <1>1, <2>1, ClosingStep, MissedStep DEF SleepInv
  <2>5. QED
    BY <2>2, <2>3, <2>4 DEF EqueueInv, QueueInv, BindingInv
<1>2. QED
  BY <1>1, EqueueInitially, EqueueStutters, PTL DEF EqueueSpec

(* Whoever is inside a call works on the queue it pinned: KernelDeleteEqueue *)
(* frees no object and no address that a call still uses.                  *)
THEOREM PinsCorrect == EqueueSpec => []PinKeepsQueue
<1>1. EqueueInv => PinKeepsQueue
  BY DEF EqueueInv, QueueInv
<1>2. QED
  BY <1>1, EqueueInvariance, PTL

(* A binding is released once, when neither a queue nor the thread that    *)
(* registers it uses it any more, and none is left when a session closes   *)
(* (flip_event_delete_func, VideoOutContext::Close).                       *)
THEOREM BindingsCorrect == EqueueSpec => []BindingsAreSound
<1>1. EqueueInv => BindingsAreSound
  BY DEF EqueueInv, BindingInv
<1>2. QED
  BY <1>1, EqueueInvariance, PTL

(* No waiter sleeps beside an event that is left for it, although a trigger *)
(* signals one waiter only (KernelEqueuePrivate::TriggerEvent).            *)
THEOREM NoWaiterMissedCorrect == EqueueSpec => []NoWaiterMissed
<1>1. EqueueInv => NoWaiterMissed
  BY DEF EqueueInv, SleepInv
<1>2. QED
  BY <1>1, EqueueInvariance, PTL
=============================================================================
