-------------------------- MODULE PthreadCondProofs --------------------------
(***************************************************************************)
(* Proofs about PthreadCond, for mutexes of every type and any number of   *)
(* threads, states and signals.                                            *)
(***************************************************************************)
EXTENDS PthreadCond, FiniteSetTheorems, TLAPS

CondNext == \E t \in Threads : CondStep(t)

(* The places of a thread that has the host mutex for certain, and those   *)
(* of one that may have the guest mutex.                                   *)
WithHost == {"take", "unlock", "condEnter", "condUnlock", "restore"}
MayOwn == {"idle", "timedlock"} \cup SignalPcs

MutexTypeOK ==
  /\ TypeOK /\ pc \in [Threads -> MutexPcs \cup WaitPcs \cup SignalPcs] /\ saved \in [Threads -> Nat]
  /\ verdict \in [Threads -> MutexResults]

OwnerInv ==
  /\ owner # Nobody => host = owner /\ recursionCount > 0 /\ pc[owner] \in MayOwn
  /\ \A t \in Threads :
       /\ pc[t] \in WithHost => host = t
       /\ pc[t] \in MayOwn => IF owner = t THEN locked[t] = recursionCount ELSE locked[t] = 0
       /\ pc[t] \in {"lock", "trylock", "take"} => locked[t] = 0
       /\ pc[t] \in WaitPcs => locked[t] = saved[t] /\ saved[t] > 0
  /\ OneUnlockReleases

MutexInv == MutexTypeOK /\ OwnerInv

LEMMA MutexStep ==
  ASSUME MutexInv, NEW t \in Threads, CondStep(t)
  PROVE  MutexInv'
<1> USE MutexAssumption, CondAssumption
    DEF MutexInv, MutexTypeOK, OwnerInv, OneUnlockReleases, TypeOK, WithHost, MayOwn, MutexPcs, MutexResults,
        WaitPcs, InState, SignalPcs, HeldByCaller, GoTo, Return, mutexVars, condVars, stateVars, waitVars, vars
<1>1. ASSUME NEW op \in Calls, Relock(t, op), UNCHANGED condVars PROVE MutexInv'
  BY <1>1 DEF Relock, Deepens
<1>2. ASSUME NEW op \in Calls, LockCall(t, op), UNCHANGED condVars PROVE MutexInv'
  BY <1>2 DEF LockCall
<1>3. ASSUME HostLock(t), UNCHANGED condVars PROVE MutexInv'
  BY <1>3 DEF HostLock
<1>4. ASSUME HostBusy(t), UNCHANGED condVars PROVE MutexInv'
  BY <1>4 DEF HostBusy, GivesUp, TimedError
<1>5. ASSUME TakeOwnership(t), UNCHANGED condVars PROVE MutexInv'
  BY <1>5 DEF TakeOwnership
<1>6. ASSUME Unlock(t), UNCHANGED condVars PROVE MutexInv'
  BY <1>6 DEF Unlock, DropOwnership
<1>7. ASSUME HostUnlock(t), UNCHANGED condVars PROVE MutexInv'
  BY <1>7 DEF HostUnlock
<1>8. ASSUME NEW d \in BOOLEAN, CondWait(t, d) PROVE MutexInv'
  BY <1>8 DEF CondWait, DropOwnership, ReleasedLater
<1>9. ASSUME CondEnter(t) PROVE MutexInv'
  BY <1>9 DEF CondEnter
<1>10. ASSUME CondUnlock(t) PROVE MutexInv'
  BY <1>10 DEF CondUnlock
<1>11. ASSUME CondCheck(t) PROVE MutexInv'
  BY <1>11 DEF CondCheck
<1>12. ASSUME CondRelock(t) PROVE MutexInv'
  BY <1>12 DEF CondRelock
<1>13. ASSUME CondRestore(t) PROVE MutexInv'
  BY <1>13 DEF CondRestore, SavedDepth
<1>14. ASSUME NEW place \in SignalPcs, Signal(t, place) PROVE MutexInv'
  BY <1>14 DEF Signal
<1>15. ASSUME SignalLocked(t) PROVE MutexInv'
  BY <1>15 DEF SignalLocked
<1>16. ASSUME CondDestroy(t) PROVE MutexInv'
  BY <1>16 DEF CondDestroy
<1>17. ASSUME SpuriousWake(t) \/ Expire(t) PROVE MutexInv'
  BY <1>17 DEF SpuriousWake, Expire
<1>18. QED
  BY <1>1, <1>2, <1>3, <1>4, <1>5, <1>6, <1>7, <1>8, <1>9, <1>10, <1>11, <1>12, <1>13, <1>14, <1>15, <1>16, <1>17
  DEF CondStep, Step, Run

----------------------------------------------------------------------------
(* Counting                                                                *)

Counted(s) == {t \in Threads : pc[t] \in {"condUnlock", "condCheck"} /\ state[t] = s}
Signalling(s) == {t \in Threads : pc[t] \in SignalPcs /\ state[t] = s}

(* A state counts its waiters, and its generation has room for the signals *)
(* that are on their way.                                                  *)
CountInv ==
  /\ \A t \in Threads : state[t] # NoState <=> pc[t] \in WaitPcs \cup SignalPcs
  /\ \A s \in States :
       /\ waiters[s] = Cardinality(Counted(s))
       /\ generation[s] + Cardinality(Signalling(s)) <= MaxSignals

(* A wait has not seen a generation that is still to come.                 *)
SeenInv ==
  \A t \in Threads :
    /\ pc[t] \in {"condUnlock", "condCheck"} => seen[t] <= generation[state[t]]
    /\ t \in asleep => pc[t] = "condCheck"

CondInv == MutexInv /\ CondTypeOK /\ CountInv /\ SeenInv

(* One thread moves at a time: what that does to the size of a set.        *)
LEMMA SizeMoves ==
  ASSUME NEW S \in SUBSET Threads, NEW T \in SUBSET Threads, NEW t \in Threads,
         \A u \in Threads \ {t} : u \in T <=> u \in S
  PROVE  /\ Cardinality(S) \in Nat /\ Cardinality(T) \in Nat
         /\ (t \in T <=> t \in S) => Cardinality(T) = Cardinality(S)
         /\ t \in T /\ t \notin S => Cardinality(T) = Cardinality(S) + 1
         /\ t \notin T /\ t \in S => Cardinality(T) = Cardinality(S) - 1
<1>1. IsFiniteSet(S) /\ Cardinality(S) \in Nat /\ IsFiniteSet(T) /\ Cardinality(T) \in Nat
  BY MutexAssumption, FS_Subset, FS_CardinalityType
<1>2. CASE t \in T <=> t \in S
  <2>1. T = S
    BY <1>2
  <2>2. QED
    BY <2>1, <1>1, <1>2
<1>3. CASE t \in T /\ t \notin S
  <2>1. T = S \cup {t}
    BY <1>3
  <2>2. QED
    BY <2>1, <1>1, <1>3, FS_AddElement
<1>4. CASE t \notin T /\ t \in S
  <2>1. T = S \ {t}
    BY <1>4
  <2>2. QED
    BY <2>1, <1>1, <1>4, FS_RemoveElement
<1>5. QED
  BY <1>2, <1>3, <1>4

LEMMA SizeOfNone ==
  ASSUME NEW s \in States, CondInv, \A t \in Threads : state[t] # s
  PROVE  waiters[s] = 0 /\ Cardinality(Signalling(s)) = 0
<1>1. Counted(s) = {} /\ Signalling(s) = {}
  BY DEF Counted, Signalling
<1>2. QED
  BY <1>1, FS_EmptySet DEF CondInv, CountInv

LEMMA Sizes ==
  ASSUME NEW s \in States, CondInv
  PROVE  /\ waiters[s] \in Nat /\ generation[s] \in Nat /\ Cardinality(Signalling(s)) \in Nat
         /\ Cardinality(Counted(s)') \in Nat /\ Cardinality(Signalling(s)') \in Nat
<1>1. /\ Signalling(s) \subseteq Threads
      /\ Signalling(s)' \subseteq Threads /\ Counted(s)' \subseteq Threads
  BY DEF Signalling, Counted
<1>2. QED
  BY <1>1, MutexAssumption, CondAssumption, FS_Subset, FS_CardinalityType DEF CondInv, CondTypeOK

(* The first use of a condition takes a state that nobody is in.           *)
LEMMA UseStateKeeps ==
  ASSUME CondInv, NEW x \in States, UseState(x)
  PROVE  /\ handle' \in States \cup {NoState}
         /\ \A s \in States : generation'[s] \in 0 .. generation[s]
         /\ generation' \in [States -> 0 .. MaxSignals]
BY CondAssumption DEF UseState, CondInv, CondTypeOK

----------------------------------------------------------------------------
(* One step                                                                *)

(* A step of the mutex's own calls stays among their places.               *)
LEMMA MutexMoves ==
  ASSUME CondInv, NEW t \in Threads, Step(t)
  PROVE  pc[t] \in MutexPcs /\ \E place \in MutexPcs : pc' = [pc EXCEPT ![t] = place]
<1> USE DEF MutexPcs, GoTo, Return
<1>1. ASSUME NEW op \in Calls, Relock(t, op) PROVE pc[t] \in MutexPcs /\ \E place \in MutexPcs : pc' = [pc EXCEPT ![t] = place]
  BY <1>1 DEF Relock
<1>2. ASSUME NEW op \in Calls, LockCall(t, op) PROVE pc[t] \in MutexPcs /\ \E place \in MutexPcs : pc' = [pc EXCEPT ![t] = place]
  BY <1>2, MutexAssumption DEF LockCall
<1>3. CASE Run(t)
  BY <1>3 DEF Run, HostLock, HostBusy, TakeOwnership, HostUnlock, GivesUp
<1>4. CASE Unlock(t)
  BY <1>4 DEF Unlock
<1>5. QED
  BY <1>1, <1>2, <1>3, <1>4 DEF Step

(* The step of a thread leaves the others where they are.                  *)
LEMMA OthersStay ==
  ASSUME CondInv, NEW t \in Threads, CondStep(t)
  PROVE  /\ \A u \in Threads \ {t} : pc'[u] = pc[u] /\ state'[u] = state[u]
         /\ pc' \in [Threads -> MutexPcs \cup WaitPcs \cup SignalPcs]
         /\ state' \in [Threads -> States \cup {NoState}]
<1> DEFINE Stay ==
      /\ \A u \in Threads \ {t} : pc'[u] = pc[u] /\ state'[u] = state[u]
      /\ pc' \in [Threads -> MutexPcs \cup WaitPcs \cup SignalPcs]
      /\ state' \in [Threads -> States \cup {NoState}]
<1> USE DEF CondInv, CondTypeOK, CountInv, MutexPcs, WaitPcs, InState, SignalPcs, GoTo, Return, vars, mutexVars, condVars, stateVars, waitVars
<1>1. ASSUME t \in Waiters, Step(t), UNCHANGED condVars PROVE Stay
  BY <1>1, MutexMoves DEF condVars, waitVars
<1>2. ASSUME NEW d \in BOOLEAN, CondWait(t, d) PROVE Stay
  BY <1>2 DEF CondWait
<1>3. ASSUME CondEnter(t) PROVE Stay
  BY <1>3 DEF CondEnter
<1>4. ASSUME CondUnlock(t) PROVE Stay
  BY <1>4 DEF CondUnlock
<1>5. ASSUME CondCheck(t) PROVE Stay
  BY <1>5 DEF CondCheck, OneFewer
<1>6. ASSUME CondRelock(t) PROVE Stay
  BY <1>6 DEF CondRelock
<1>7. ASSUME CondRestore(t) PROVE Stay
  BY <1>7 DEF CondRestore
<1>8. ASSUME NEW place \in SignalPcs, Signal(t, place) PROVE Stay
  BY <1>8 DEF Signal
<1>9. ASSUME SignalLocked(t) PROVE Stay
  BY <1>9 DEF SignalLocked
<1>10. ASSUME CondDestroy(t) PROVE Stay
  BY <1>10 DEF CondDestroy
<1>11. ASSUME SpuriousWake(t) \/ Expire(t) PROVE Stay
  BY <1>11 DEF SpuriousWake, Expire
<1>12. QED
  BY <1>1, <1>2, <1>3, <1>4, <1>5, <1>6, <1>7, <1>8, <1>9, <1>10, <1>11 DEF CondStep

LEMMA CountStep ==
  ASSUME CondInv, NEW t \in Threads, CondStep(t), NEW s \in States
  PROVE  /\ waiters'[s] = Cardinality(Counted(s)')
         /\ generation'[s] + Cardinality(Signalling(s)') <= MaxSignals
<1> DEFINE Goal == /\ waiters'[s] = Cardinality(Counted(s)')
                   /\ generation'[s] + Cardinality(Signalling(s)') <= MaxSignals
<1>a. /\ \A u \in Threads \ {t} : u \in Counted(s)' <=> u \in Counted(s)
      /\ \A u \in Threads \ {t} : u \in Signalling(s)' <=> u \in Signalling(s)
  BY OthersStay DEF Counted, Signalling
<1>b. /\ Counted(s) \in SUBSET Threads /\ Counted(s)' \in SUBSET Threads
      /\ Signalling(s) \in SUBSET Threads /\ Signalling(s)' \in SUBSET Threads
  BY DEF Counted, Signalling
<1>c. /\ (t \in Counted(s)' <=> t \in Counted(s)) => Cardinality(Counted(s)') = Cardinality(Counted(s))
      /\ t \in Counted(s)' /\ t \notin Counted(s) => Cardinality(Counted(s)') = Cardinality(Counted(s)) + 1
      /\ t \notin Counted(s)' /\ t \in Counted(s) => Cardinality(Counted(s)') = Cardinality(Counted(s)) - 1
  BY <1>a, <1>b, SizeMoves
<1>d. /\ (t \in Signalling(s)' <=> t \in Signalling(s)) => Cardinality(Signalling(s)') = Cardinality(Signalling(s))
      /\ t \in Signalling(s)' /\ t \notin Signalling(s) => Cardinality(Signalling(s)') = Cardinality(Signalling(s)) + 1
      /\ t \notin Signalling(s)' /\ t \in Signalling(s) => Cardinality(Signalling(s)') = Cardinality(Signalling(s)) - 1
  BY <1>a, <1>b, SizeMoves
<1>e. /\ waiters[s] \in Nat /\ generation[s] \in Nat /\ MaxSignals \in Nat
      /\ Cardinality(Signalling(s)) \in Nat
      /\ waiters[s] = Cardinality(Counted(s)) /\ generation[s] + Cardinality(Signalling(s)) <= MaxSignals
  BY Sizes, CondAssumption DEF CondInv, CountInv
<1>f. /\ t \in Counted(s) <=> pc[t] \in {"condUnlock", "condCheck"} /\ state[t] = s
      /\ t \in Counted(s)' <=> pc'[t] \in {"condUnlock", "condCheck"} /\ state'[t] = s
      /\ t \in Signalling(s) <=> pc[t] \in SignalPcs /\ state[t] = s
      /\ t \in Signalling(s)' <=> pc'[t] \in SignalPcs /\ state'[t] = s
  BY DEF Counted, Signalling
<1>g. \A x \in States : UseState(x) => generation'[s] \in 0 .. generation[s]
  BY UseStateKeeps
<1> HIDE DEF Goal
<1> USE DEF CondInv, CondTypeOK, TypeOK, MutexPcs, WaitPcs, InState, SignalPcs, GoTo, Return, vars, mutexVars, condVars, stateVars, waitVars
<1>1. ASSUME t \in Waiters, Step(t), UNCHANGED condVars PROVE Goal
  BY <1>1, <1>c, <1>d, <1>e, <1>f, MutexMoves DEF Goal
<1>2. ASSUME NEW d \in BOOLEAN, CondWait(t, d) PROVE Goal
  BY <1>2, <1>c, <1>d, <1>e, <1>f, <1>g DEF Goal, CondWait
<1>3. ASSUME CondEnter(t) PROVE Goal
  BY <1>3, <1>c, <1>d, <1>e, <1>f, <1>g DEF Goal, CondEnter
<1>4. ASSUME CondUnlock(t) PROVE Goal
  BY <1>4, <1>c, <1>d, <1>e, <1>f, <1>g DEF Goal, CondUnlock
<1>5. ASSUME CondCheck(t) PROVE Goal
  BY <1>5, <1>c, <1>d, <1>e, <1>f, <1>g DEF Goal, CondCheck, OneFewer
<1>6. ASSUME CondRelock(t) PROVE Goal
  BY <1>6, <1>c, <1>d, <1>e, <1>f, <1>g DEF Goal, CondRelock
<1>7. ASSUME CondRestore(t) PROVE Goal
  BY <1>7, <1>c, <1>d, <1>e, <1>f, <1>g DEF Goal, CondRestore
<1>8. ASSUME NEW place \in SignalPcs, Signal(t, place) PROVE Goal
  <2>1. Pending(s) = Cardinality(Signalling(s))
    BY DEF Pending, Signalling
  <2>2. PICK x \in States :
       /\ UseState(x)
       /\ \/ pc'[t] = "idle"
          \/ pc'[t] = place /\ state'[t] = x /\ generation[x] + Pending(x) < MaxSignals
    BY <1>8 DEF Signal
  <2>3. generation'[s] \in 0 .. generation[s] /\ UNCHANGED waiters /\ t \notin Signalling(s) /\ t \notin Counted(s)
    BY <1>8, <1>f, <1>g, <2>2 DEF Signal
  <2>4. t \notin Counted(s)'
    BY <1>8, <1>f, <2>2, <2>3 DEF Signal
  <2>5. t \in Signalling(s)' => generation[s] + Pending(s) < MaxSignals
    BY <1>8, <1>f, <2>2, <2>3 DEF Signal
  <2>6. QED
    BY <1>c, <1>d, <1>e, <2>1, <2>3, <2>4, <2>5 DEF Goal
<1>9. ASSUME SignalLocked(t) PROVE Goal
  BY <1>9, <1>c, <1>d, <1>e, <1>f, <1>g DEF Goal, SignalLocked
<1>10. ASSUME CondDestroy(t) PROVE Goal
  BY <1>10, <1>c, <1>d, <1>e, <1>f, <1>g DEF Goal, CondDestroy
<1>11. ASSUME SpuriousWake(t) \/ Expire(t) PROVE Goal
  BY <1>11, <1>c, <1>d, <1>e, <1>f, <1>g DEF Goal, SpuriousWake, Expire
<1>12. QED
  BY <1>1, <1>2, <1>3, <1>4, <1>5, <1>6, <1>7, <1>8, <1>9, <1>10, <1>11 DEF CondStep, Goal

LEMMA TypeStep ==
  ASSUME CondInv, NEW t \in Threads, CondStep(t)
  PROVE  CondTypeOK'
<1> DEFINE Typed ==
      /\ handle' \in States \cup {NoState}
      /\ condLock' \in [States -> Threads \cup {Nobody}]
      /\ seen' \in [Threads -> 0 .. MaxSignals]
      /\ verdict' \in [Threads -> MutexResults]
      /\ timed' \in SUBSET Threads /\ expired' \in SUBSET Threads /\ asleep' \in SUBSET Threads
      /\ waiters' \in [States -> Int] /\ generation' \in [States -> Nat]
<1>a. \A x \in States : UseState(x) => handle' \in States \cup {NoState} /\ generation' \in [States -> 0 .. MaxSignals]
  BY UseStateKeeps
<1>b. MutexInv'
  BY MutexStep DEF CondInv
<1> USE CondAssumption
    DEF CondInv, CondTypeOK, CountInv, MutexResults, WaitPcs, InState, SignalPcs, condVars, stateVars, waitVars
<1>1. ASSUME t \in Waiters, Step(t), UNCHANGED condVars PROVE Typed
  BY <1>1
<1>2. ASSUME NEW d \in BOOLEAN, CondWait(t, d) PROVE Typed
  BY <1>a, <1>2 DEF CondWait
<1>3. ASSUME CondEnter(t) PROVE Typed
  BY <1>a, <1>3 DEF CondEnter
<1>4. ASSUME CondUnlock(t) PROVE Typed
  BY <1>a, <1>4 DEF CondUnlock
<1>5. ASSUME CondCheck(t) PROVE Typed
  <2>1. waiters' \in [States -> Int]
    BY <1>5 DEF CondCheck, OneFewer
  <2>2. verdict' \in [Threads -> MutexResults]
    BY <1>5 DEF CondCheck
  <2>3. condLock' \in [States -> Threads \cup {Nobody}]
    BY <1>5 DEF CondCheck
  <2>4. asleep' \in SUBSET Threads /\ UNCHANGED <<handle, seen, timed, expired, generation>>
    BY <1>5 DEF CondCheck
  <2>5. QED
    BY <2>1, <2>2, <2>3, <2>4
<1>6. ASSUME CondRelock(t) PROVE Typed
  BY <1>a, <1>6 DEF CondRelock
<1>7. ASSUME CondRestore(t) PROVE Typed
  BY <1>a, <1>7 DEF CondRestore
<1>8. ASSUME NEW place \in SignalPcs, Signal(t, place) PROVE Typed
  BY <1>a, <1>8 DEF Signal
<1>9. ASSUME SignalLocked(t) PROVE Typed
  BY <1>a, <1>9 DEF SignalLocked, Wakes, OneOf
<1>10. ASSUME CondDestroy(t) PROVE Typed
  BY <1>a, <1>10 DEF CondDestroy
<1>11. ASSUME SpuriousWake(t) \/ Expire(t) PROVE Typed
  BY <1>a, <1>11 DEF SpuriousWake, Expire
<1>12. Typed
  BY <1>1, <1>2, <1>3, <1>4, <1>5, <1>6, <1>7, <1>8, <1>9, <1>10, <1>11 DEF CondStep
<1>13. waiters' \in [States -> Nat] /\ generation' \in [States -> 0 .. MaxSignals]
  <2>1. \A s \in States : waiters'[s] \in Nat /\ generation'[s] \in 0 .. MaxSignals
    <3> SUFFICES ASSUME NEW s \in States PROVE waiters'[s] \in Nat /\ generation'[s] \in 0 .. MaxSignals
      OBVIOUS
    <3>1. /\ waiters'[s] = Cardinality(Counted(s)') /\ generation'[s] + Cardinality(Signalling(s)') <= MaxSignals
          /\ Cardinality(Counted(s)') \in Nat /\ Cardinality(Signalling(s)') \in Nat
          /\ generation'[s] \in Nat
      BY <1>12, CountStep, Sizes
    <3>2. QED
      BY <3>1
  <2>2. QED
    BY <1>12, <2>1
<1>14. state' \in [Threads -> States \cup {NoState}]
  BY OthersStay
<1>15. QED
  BY <1>b, <1>12, <1>13, <1>14 DEF MutexInv, MutexTypeOK

LEMMA PlaceStep ==
  ASSUME CondInv, NEW t \in Threads, CondStep(t)
  PROVE  \A u \in Threads : state'[u] # NoState <=> pc'[u] \in WaitPcs \cup SignalPcs
<1> DEFINE Placed == state'[t] # NoState <=> pc'[t] \in WaitPcs \cup SignalPcs
<1>a. \A u \in Threads \ {t} : state'[u] # NoState <=> pc'[u] \in WaitPcs \cup SignalPcs
  BY OthersStay DEF CondInv, CountInv
<1> USE CondAssumption
    DEF CondInv, CondTypeOK, CountInv, TypeOK, MutexPcs, WaitPcs, InState, SignalPcs, GoTo, Return, vars, mutexVars, condVars, stateVars, waitVars
<1>1. ASSUME t \in Waiters, Step(t), UNCHANGED condVars PROVE Placed
  BY <1>1, MutexMoves
<1>2. ASSUME NEW d \in BOOLEAN, CondWait(t, d) PROVE Placed
  BY <1>a, <1>2 DEF CondWait
<1>3. ASSUME CondEnter(t) PROVE Placed
  BY <1>a, <1>3 DEF CondEnter
<1>4. ASSUME CondUnlock(t) PROVE Placed
  BY <1>a, <1>4 DEF CondUnlock
<1>5. ASSUME CondCheck(t) PROVE Placed
  BY <1>a, <1>5 DEF CondCheck
<1>6. ASSUME CondRelock(t) PROVE Placed
  BY <1>a, <1>6 DEF CondRelock
<1>7. ASSUME CondRestore(t) PROVE Placed
  BY <1>a, <1>7 DEF CondRestore
<1>8. ASSUME NEW place \in SignalPcs, Signal(t, place) PROVE Placed
  BY <1>a, <1>8 DEF Signal
<1>9. ASSUME SignalLocked(t) PROVE Placed
  BY <1>a, <1>9 DEF SignalLocked, Wakes, OneOf
<1>10. ASSUME CondDestroy(t) PROVE Placed
  BY <1>a, <1>10 DEF CondDestroy
<1>11. ASSUME SpuriousWake(t) \/ Expire(t) PROVE Placed
  BY <1>a, <1>11 DEF SpuriousWake, Expire
<1>12. QED
  BY <1>a, <1>1, <1>2, <1>3, <1>4, <1>5, <1>6, <1>7, <1>8, <1>9, <1>10, <1>11 DEF CondStep

LEMMA SeenStep ==
  ASSUME CondInv, NEW t \in Threads, CondStep(t)
  PROVE  SeenInv'
<1>a. \A x \in States : UseState(x) => \A s \in States : generation'[s] = generation[s] \/ \A u \in Threads : state[u] # s
  BY DEF UseState, Unused, CondInv, CondTypeOK
<1> USE CondAssumption
    DEF CondInv, SeenInv, CondTypeOK, CountInv, TypeOK, MutexPcs, WaitPcs, InState, SignalPcs, GoTo, Return, vars, mutexVars, condVars, stateVars, waitVars
<1>1. ASSUME t \in Waiters, Step(t), UNCHANGED condVars PROVE SeenInv'
  BY <1>1, MutexMoves
<1>2. ASSUME NEW d \in BOOLEAN, CondWait(t, d) PROVE SeenInv'
  BY <1>a, <1>2 DEF CondWait
<1>3. ASSUME CondEnter(t) PROVE SeenInv'
  BY <1>a, <1>3 DEF CondEnter
<1>4. ASSUME CondUnlock(t) PROVE SeenInv'
  BY <1>a, <1>4 DEF CondUnlock
<1>5. ASSUME CondCheck(t) PROVE SeenInv'
  BY <1>a, <1>5 DEF CondCheck
<1>6. ASSUME CondRelock(t) PROVE SeenInv'
  BY <1>a, <1>6 DEF CondRelock
<1>7. ASSUME CondRestore(t) PROVE SeenInv'
  BY <1>a, <1>7 DEF CondRestore
<1>8. ASSUME NEW place \in SignalPcs, Signal(t, place) PROVE SeenInv'
  BY <1>a, <1>8 DEF Signal
<1>9. ASSUME SignalLocked(t) PROVE SeenInv'
  BY <1>a, <1>9 DEF SignalLocked, Wakes, OneOf
<1>10. ASSUME CondDestroy(t) PROVE SeenInv'
  BY <1>a, <1>10 DEF CondDestroy
<1>11. ASSUME SpuriousWake(t) \/ Expire(t) PROVE SeenInv'
  BY <1>a, <1>11 DEF SpuriousWake, Expire
<1>12. QED
  BY <1>1, <1>2, <1>3, <1>4, <1>5, <1>6, <1>7, <1>8, <1>9, <1>10, <1>11 DEF CondStep

LEMMA CondInvStep == CondInv /\ [CondNext]_allVars => CondInv'
<1> SUFFICES ASSUME CondInv, [CondNext]_allVars PROVE CondInv'
  OBVIOUS
<1>1. ASSUME NEW t \in Threads, CondStep(t) PROVE CondInv'
  <2>1. MutexInv' /\ CondTypeOK' /\ SeenInv'
    BY <1>1, MutexStep, TypeStep, SeenStep DEF CondInv
  <2>2. CountInv'
    BY <1>1, CountStep, PlaceStep DEF CountInv
  <2>3. QED
    BY <2>1, <2>2 DEF CondInv
<1>2. CASE UNCHANGED allVars
  <2> USE <1>2 DEF allVars, vars, mutexVars, condVars, stateVars, waitVars, CondInv
  <2>1. MutexInv'
    BY DEF MutexInv, MutexTypeOK, OwnerInv, OneUnlockReleases, TypeOK
  <2>2. CondTypeOK' /\ SeenInv'
    BY DEF CondTypeOK, TypeOK, SeenInv
  <2>3. \A s \in States : Counted(s)' = Counted(s) /\ Signalling(s)' = Signalling(s)
    BY DEF Counted, Signalling
  <2>4. CountInv'
    BY <2>3 DEF CountInv
  <2>5. QED
    BY <2>1, <2>2, <2>4
<1>3. QED
  BY <1>1, <1>2 DEF CondNext

LEMMA CondInitially == CondInit => CondInv
<1> SUFFICES ASSUME CondInit PROVE CondInv
  OBVIOUS
<1>1. \A s \in States : Cardinality(Counted(s)) = 0 /\ Cardinality(Signalling(s)) = 0
  <2>1. \A s \in States : Counted(s) = {} /\ Signalling(s) = {}
    BY CondAssumption DEF CondInit, Counted, Signalling
  <2>2. QED
    BY <2>1, FS_EmptySet
<1> USE MutexAssumption, CondAssumption
    DEF CondInit, Init, TypeOK, MutexPcs, MutexResults, WaitPcs, InState, SignalPcs
<1>2. MutexInv
  BY DEF MutexInv, MutexTypeOK, OwnerInv, OneUnlockReleases, WithHost, MayOwn
<1>3. CondTypeOK
  BY DEF CondTypeOK
<1>4. CountInv /\ SeenInv
  BY <1>1 DEF CountInv, SeenInv
<1>5. QED
  BY <1>2, <1>3, <1>4 DEF CondInv

LEMMA Invariance == CondSpec => []CondInv
BY CondInitially, CondInvStep, PTL DEF CondSpec, CondNext

----------------------------------------------------------------------------
(* The theorems                                                            *)

(* The owner and the depth kept beside the host mutex are exact for the    *)
(* guest, for each type of mutex, with waits in between (PthreadMutex.cpp, *)
(* wait_for_signal).                                                       *)
THEOREM OwnershipCorrect == CondSpec => []OwnershipIsExact
<1>1. CondInv => OwnershipIsExact
  BY MutexAssumption
  DEF CondInv, MutexInv, MutexTypeOK, OwnerInv, TypeOK, OwnershipIsExact, HeldByCaller, MayOwn, WithHost
<1>2. QED
  BY <1>1, Invariance, PTL

(* A wait that has given up the mutex is counted in its state: a signal    *)
(* that reads a count of zero misses nobody (signal_cond_state).           *)
THEOREM ReleasedCorrect == CondSpec => []ReleasedIsCounted
<1>1. CondInv => ReleasedIsCounted
  <2> SUFFICES ASSUME CondInv, NEW t \in Threads, pc[t] \in InState, host # t
               PROVE  waiters[state[t]] > 0
    BY DEF CondInv, ReleasedIsCounted
  <2>1. pc[t] \in {"condUnlock", "condCheck"} /\ state[t] \in States
    BY CondAssumption
    DEF CondInv, MutexInv, OwnerInv, WithHost, CountInv, CondTypeOK, InState, WaitPcs
  <2>2. t \in Counted(state[t]) /\ Counted(state[t]) \subseteq Threads
    BY <2>1 DEF Counted
  <2>3. Cardinality(Counted(state[t])) \in Nat /\ Cardinality(Counted(state[t])) # 0
    BY <2>2, MutexAssumption, FS_Subset, FS_CardinalityType, FS_EmptySet
  <2>4. QED
    BY <2>1, <2>3 DEF CondInv, CountInv
<1>2. QED
  BY <1>1, Invariance, PTL

(* A signal releases a thread that waited before it, and a broadcast all   *)
(* of them (signal_cond_state).                                            *)
THEOREM SignalsCorrect == CondSpec => SignalReachesAWaiter
<1> DEFINE Reaches ==
      \A k \in Threads, s \in States :
        (pc[k] \in SignalPcs /\ state[k] = s /\ generation'[s] # generation[s] /\ WaitingOn(s) # {})
          => /\ \E t \in WaitingOn(s) : Released(t, s)
             /\ pc[k] = "broadcast" /\ pc'[k] = "idle" => \A t \in WaitingOn(s) : Released(t, s)
<1>1. CondInv /\ [CondNext]_allVars => [Reaches]_allVars
  <2> SUFFICES ASSUME CondInv, NEW x \in Threads, CondStep(x),
                      NEW k \in Threads, NEW s \in States,
                      pc[k] \in SignalPcs, state[k] = s, generation'[s] # generation[s], WaitingOn(s) # {}
               PROVE  /\ \E t \in WaitingOn(s) : Released(t, s)
                      /\ pc[k] = "broadcast" /\ pc'[k] = "idle" => \A t \in WaitingOn(s) : Released(t, s)
    BY DEF CondNext
  <2>1. SignalLocked(x) /\ state[x] = s
    <3>1. \A y \in States : UseState(y) => generation'[s] = generation[s]
      BY DEF UseState, Unused, CondInv, CondTypeOK
    <3>2. QED
      BY <3>1
      DEF CondStep, CondWait, CondEnter, CondUnlock, CondCheck, CondRelock, CondRestore, Signal, SignalLocked, CondDestroy,
          SpuriousWake, Expire, condVars, stateVars, waitVars, CondInv, CondTypeOK
  <2>2. generation'[s] = generation[s] + 1
    BY <2>1 DEF SignalLocked, CondInv, CondTypeOK
  <2>3. \A t \in WaitingOn(s) : seen[t] # generation'[s]
    BY <2>2 DEF WaitingOn, CondInv, SeenInv, CondTypeOK
  <2>4. Sleepers(s) \subseteq WaitingOn(s)
    BY DEF Sleepers, WaitingOn, CondInv, SeenInv, CondTypeOK
  <2>5. PICK W \in Wakes(s, pc[x] = "broadcast") : asleep' = asleep \ W
    BY <2>1 DEF SignalLocked
  <2>6. \E t \in WaitingOn(s) : t \notin asleep'
    BY <2>4, <2>5 DEF Wakes, OneOf, Sleepers, WaitingOn
  <2>7. pc[k] = "broadcast" /\ pc'[k] = "idle" => k = x
    BY <2>1, OthersStay
  <2>8. pc[x] = "broadcast" => \A t \in WaitingOn(s) : t \notin asleep'
    BY <2>5 DEF Wakes, Sleepers, WaitingOn
  <2>9. QED
    BY <2>3, <2>6, <2>7, <2>8 DEF Released
<1>2. QED
  BY <1>1, Invariance, PTL DEF CondSpec, CondNext, SignalReachesAWaiter
=============================================================================
