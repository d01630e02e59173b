--------------------------- MODULE PthreadProofs ----------------------------
(***************************************************************************)
(* Proofs about guest threads: the POSIX semaphore they make under         *)
(* PthreadOnce (PosixGuest), and their life (PthreadLife), for any         *)
(* threads, objects, collectors, users, slots and keys.                    *)
(***************************************************************************)
EXTENDS PosixGuest, PthreadLife, FiniteSetTheorems, TLAPS

----------------------------------------------------------------------------
(* The POSIX semaphore                                                     *)

Destroying == {"erased", "ended"}

(* An object that a call can still use is the table's, or the one that a   *)
(* destruction has taken from the table and not marked yet.                *)
ObjectInv ==
  /\ table # NoObject => ~destroyed[table]
  /\ \A t \in Threads : obj[t] = NoObject <=> semPc[t] = "idle"
  /\ \A t \in Threads : semPc[t] \in Destroying =>
       /\ table = NoObject
       /\ destroyed[obj[t]] <=> semPc[t] = "ended"
       /\ \A u \in Threads \ {t} : semPc[u] \notin Destroying
  /\ \A t \in Threads : obj[t] # NoObject /\ ~destroyed[obj[t]] =>
       \/ table = obj[t]
       \/ \E u \in Threads : semPc[u] = "erased" /\ obj[u] = obj[t]
  /\ \A t \in asleep : ~destroyed[obj[t]]
  /\ \A t \in Threads : semPc[t] = "waiting" => op[t] # "post"

SemInv == BlockIsOfTheTable /\ ObjectInv

(* The control tells how far the one run of the routine is.                *)
OnceInv ==
  /\ control \in Once!Controls /\ oncePc \in [Threads -> Once!Places] /\ ran \in SUBSET Threads
  /\ \A t, u \in Threads :
       {t, u} \subseteq ran \cup {v \in Threads : oncePc[v] \in {"init", "finish"}} => t = u
  /\ \A t \in Threads : oncePc[t] \in {"init", "finish"} => control = "InProgress"
  /\ control = "InProgress" => \E t \in Threads : oncePc[t] \in {"init", "finish"}
  /\ control = "Done" <=> ran # {} /\ \A t \in Threads : oncePc[t] \notin {"init", "finish"}
  /\ \A t \in Threads : oncePc[t] = "finish" => t \in ran
  /\ \A t \in Threads : oncePc[t] = "returned" => control = "Done"

----------------------------------------------------------------------------
(* Counting waiters                                                        *)

LEMMA WaitersFinite ==
  ASSUME NEW o
  PROVE  IsFiniteSet(Waiters(o)) /\ Cardinality(Waiters(o)) \in 0 .. Cardinality(Threads)
<1>1. Waiters(o) \subseteq Threads
  BY DEF Waiters
<1>2. QED
  BY <1>1, PosixAssumption, FS_Subset, FS_CardinalityType

(* One thread moves at a time: what that does to the count of an object.   *)
LEMMA OneMoves ==
  ASSUME NEW o, NEW t \in Threads,
         \A u \in Threads \ {t} : u \in Waiters(o)' <=> u \in Waiters(o)
  PROVE  /\ (t \in Waiters(o)' <=> t \in Waiters(o)) => Cardinality(Waiters(o)') = Cardinality(Waiters(o))
         /\ t \in Waiters(o)' /\ t \notin Waiters(o) => Cardinality(Waiters(o)') = Cardinality(Waiters(o)) + 1
         /\ t \notin Waiters(o)' /\ t \in Waiters(o) => Cardinality(Waiters(o)') = Cardinality(Waiters(o)) - 1
<1>1. Waiters(o) \subseteq Threads /\ Waiters(o)' \subseteq Threads
  BY DEF Waiters
<1>2. IsFiniteSet(Waiters(o))
  BY WaitersFinite
<1>3. CASE t \in Waiters(o)' <=> t \in Waiters(o)
  <2>1. Waiters(o)' = Waiters(o)
    BY <1>1, <1>3
  <2>2. QED
    BY <2>1, <1>3
<1>4. CASE t \in Waiters(o)' /\ t \notin Waiters(o)
  <2>1. Waiters(o)' = Waiters(o) \cup {t}
    BY <1>1, <1>4
  <2>2. QED
    BY <2>1, <1>2, <1>4, FS_AddElement
<1>5. CASE t \notin Waiters(o)' /\ t \in Waiters(o)
  <2>1. Waiters(o)' = Waiters(o) \ {t}
    BY <1>1, <1>5
  <2>2. QED
    BY <2>1, <1>2, <1>5, FS_RemoveElement
<1>6. QED
  BY <1>3, <1>4, <1>5

(* A set with a member has a positive size.                                *)
LEMMA SizeOfSome ==
  ASSUME NEW S, IsFiniteSet(S), NEW x \in S
  PROVE  /\ Cardinality(S) \in Nat /\ Cardinality(S) > 0
         /\ Cardinality(S \ {x}) = Cardinality(S) - 1
<1>1. Cardinality(S) \in Nat /\ Cardinality(S) # 0
  BY FS_EmptySet, FS_CardinalityType
<1>2. Cardinality(S \ {x}) = Cardinality(S) - 1
  BY FS_RemoveElement
<1>3. QED
  BY <1>1, <1>2

(* Nobody waits for an object that no call holds.                          *)
LEMMA NobodyWaits ==
  ASSUME NEW o, \A t \in Threads : obj[t] # o
  PROVE  Cardinality(Waiters(o)) = 0
<1>1. Waiters(o) = {}
  BY DEF Waiters
<1>2. QED
  BY <1>1, FS_EmptySet

(* A sleeper is another waiter than the thread that has its turn.          *)
LEMMA OthersSleep ==
  ASSUME SemInv, NEW t \in Threads, AtTurn(t), Sleepers(obj[t]) # {}
  PROVE  Others(t) > 0
<1>1. PICK u \in asleep : obj[u] = obj[t] /\ u # t
  BY DEF Sleepers, AtTurn
<1>2. u \in Waiters(obj[t]) \ {t} /\ (t \in Waiters(obj[t]) <=> semPc[t] = "waiting")
  BY <1>1 DEF SemInv, BlockIsOfTheTable, SemaphoreTypeOK, Waiters
<1>3. IsFiniteSet(Waiters(obj[t])) /\ IsFiniteSet(Waiters(obj[t]) \ {t})
  BY WaitersFinite, FS_RemoveElement
<1>4. Cardinality(Waiters(obj[t]) \ {t}) \in Nat /\ Cardinality(Waiters(obj[t]) \ {t}) > 0
  BY <1>2, <1>3, SizeOfSome
<1>5. obj[t] \in Objects /\ waiters[obj[t]] = Cardinality(Waiters(obj[t])) /\ waiters[obj[t]] \in Nat
  BY DEF SemInv, BlockIsOfTheTable, ObjectInv, SemaphoreTypeOK, AtTurn
<1>6. CASE semPc[t] = "waiting"
  <2>1. Cardinality(Waiters(obj[t]) \ {t}) = Cardinality(Waiters(obj[t])) - 1
    BY <1>2, <1>3, <1>6, SizeOfSome
  <2>2. QED
    BY <2>1, <1>4, <1>5, <1>6 DEF Others
<1>7. CASE semPc[t] # "waiting"
  <2>1. Waiters(obj[t]) \ {t} = Waiters(obj[t])
    BY <1>2, <1>7
  <2>2. Cardinality(Waiters(obj[t]) \ {t}) = Cardinality(Waiters(obj[t]))
    BY <2>1
  <2>3. QED
    BY <2>2, <1>4, <1>5, <1>7 DEF Others
<1>8. QED
  BY <1>6, <1>7

(* A thread with the mutex of its object: the waiters beside it.           *)
LEMMA OthersCounted ==
  ASSUME SemInv, NEW t \in Threads, AtTurn(t)
  PROVE  Others(t) \in Nat
<1>1. obj[t] \in Objects /\ waiters[obj[t]] = Cardinality(Waiters(obj[t])) /\ waiters[obj[t]] \in Nat
  BY DEF SemInv, BlockIsOfTheTable, ObjectInv, SemaphoreTypeOK, AtTurn
<1>2. semPc[t] = "waiting" => t \in Waiters(obj[t])
  BY DEF Waiters
<1>3. semPc[t] = "waiting" => Cardinality(Waiters(obj[t])) > 0
  BY <1>2, WaitersFinite, SizeOfSome
<1>4. QED
  BY <1>1, <1>3 DEF Others

(* What a post leaves of the sleepers.                                     *)
LEMMA PostWakes ==
  ASSUME NEW t \in Threads, Posts(t)
  PROVE  /\ asleep' \subseteq asleep
         /\ semPc' = [semPc EXCEPT ![t] = "idle"] /\ op' = [op EXCEPT ![t] = "none"]
         /\ obj' = [obj EXCEPT ![t] = NoObject]
         /\ UNCHANGED <<table, waiters, destroyed>>
BY DEF Posts, ReturnFrom, Sleepers

----------------------------------------------------------------------------
(* One step                                                                *)

(* What a step of the semaphore alone does.                                *)
SemNext ==
  \/ \E t \in Threads : InCall(t) \/ SliceEnds(t) \/ GuestCalls(t)
  \/ \E o \in Objects : Collect(o)

(* Every step of the semaphore keeps ObjectInv.                            *)
LEMMA ObjectStep ==
  ASSUME SemInv, SemNext
  PROVE  ObjectInv'
<1> USE PosixAssumption
    DEF SemInv, BlockIsOfTheTable, SemaphoreTypeOK, ObjectInv, Destroying, Sleepers, Unused, ReturnFrom, AtTurn, objectVars
<1>1. ASSUME NEW t \in Threads, DestroyEnds(t) PROVE ObjectInv'
  BY <1>1 DEF DestroyEnds
<1>2. ASSUME NEW t \in Threads, DestroyClears(t) PROVE ObjectInv'
  BY <1>2 DEF DestroyClears
<1>3. ASSUME NEW t \in Threads, Fails(t) PROVE ObjectInv'
  BY <1>3 DEF Fails, Gone
<1>4. ASSUME NEW t \in Threads, Takes(t) PROVE ObjectInv'
  BY <1>4 DEF Takes, Gone
<1>5. ASSUME NEW t \in Threads, GivesUp(t) PROVE ObjectInv'
  BY <1>5 DEF GivesUp, Gone
<1>6. ASSUME NEW t \in Threads, Sleeps(t) PROVE ObjectInv'
  BY <1>6 DEF Sleeps, Gone
<1>7. ASSUME NEW t \in Threads, Posts(t) PROVE ObjectInv'
  BY <1>7 DEF Posts, Gone
<1>8. ASSUME NEW t \in Threads, SliceEnds(t) PROVE ObjectInv'
  BY <1>8 DEF SliceEnds
<1>9. ASSUME NEW t \in Threads, SemDestroy(t) PROVE ObjectInv'
  BY <1>9 DEF SemDestroy
<1>10. ASSUME NEW t \in Threads, NEW initial \in 0 .. MaxValue, SemInit(t, initial) PROVE ObjectInv'
  BY <1>10 DEF SemInit, DestroyOld, NobodyDestroys
<1>11. ASSUME NEW t \in Threads, NEW what \in Ops, LookupSem(t, what) PROVE ObjectInv'
  BY <1>11 DEF LookupSem
<1>12. ASSUME NEW o \in Objects, Collect(o) PROVE ObjectInv'
  BY <1>12 DEF Collect
<1>13. QED
  BY <1>1, <1>2, <1>3, <1>4, <1>5, <1>6, <1>7, <1>8, <1>9, <1>10, <1>11, <1>12 DEF SemNext, InCall, GuestCalls

(* m_waiters counts the waits on its object, step by step.                 *)
LEMMA CountStep ==
  ASSUME SemInv, SemNext, NEW x \in Objects
  PROVE  waiters'[x] = Cardinality(Waiters(x)')
<1> DEFINE Exact == waiters'[x] = Cardinality(Waiters(x)')
<1>0. waiters \in [Objects -> Nat] /\ waiters[x] = Cardinality(Waiters(x))
  BY DEF SemInv, BlockIsOfTheTable, SemaphoreTypeOK
<1> USE PosixAssumption
    DEF SemInv, BlockIsOfTheTable, SemaphoreTypeOK, ObjectInv, Destroying, ReturnFrom, AtTurn, objectVars
<1>1. ASSUME NEW t \in Threads, DestroyEnds(t) PROVE Exact
  <2>1. Waiters(x)' = Waiters(x) /\ UNCHANGED waiters
    BY <1>1 DEF DestroyEnds, Waiters
  <2>2. QED
    BY <1>0, <2>1
<1>2. ASSUME NEW t \in Threads, DestroyClears(t) PROVE Exact
  <2>1. Waiters(x)' = Waiters(x) /\ UNCHANGED waiters
    BY <1>2 DEF DestroyClears, Waiters
  <2>2. QED
    BY <1>0, <2>1
<1>3. ASSUME NEW t \in Threads, Fails(t) PROVE Exact
  <2>1. \A u \in Threads \ {t} : u \in Waiters(x)' <=> u \in Waiters(x)
    BY <1>3 DEF Fails, Waiters
  <2>2. /\ t \in Waiters(x) <=> semPc[t] = "waiting" /\ obj[t] = x
        /\ t \in Waiters(x)' <=> FALSE
    BY <1>3 DEF Fails, Waiters
  <2>3. waiters' = [waiters EXCEPT ![obj[t]] = Others(t)]
    BY <1>3 DEF Fails
  <2>4. QED
    BY <1>0, <2>1, <2>2, <2>3, OneMoves DEF Others
<1>4. ASSUME NEW t \in Threads, Takes(t) PROVE Exact
  <2>1. \A u \in Threads \ {t} : u \in Waiters(x)' <=> u \in Waiters(x)
    BY <1>4 DEF Takes, Waiters
  <2>2. /\ t \in Waiters(x) <=> semPc[t] = "waiting" /\ obj[t] = x
        /\ t \in Waiters(x)' <=> FALSE
    BY <1>4 DEF Takes, Waiters
  <2>3. waiters' = [waiters EXCEPT ![obj[t]] = Others(t)]
    BY <1>4 DEF Takes
  <2>4. QED
    BY <1>0, <2>1, <2>2, <2>3, OneMoves DEF Others
<1>5. ASSUME NEW t \in Threads, GivesUp(t) PROVE Exact
  <2>1. \A u \in Threads \ {t} : u \in Waiters(x)' <=> u \in Waiters(x)
    BY <1>5 DEF GivesUp, Waiters
  <2>2. /\ t \in Waiters(x) <=> semPc[t] = "waiting" /\ obj[t] = x
        /\ t \in Waiters(x)' <=> FALSE
    BY <1>5 DEF GivesUp, Waiters
  <2>3. waiters' = [waiters EXCEPT ![obj[t]] = Others(t)]
    BY <1>5 DEF GivesUp
  <2>4. QED
    BY <1>0, <2>1, <2>2, <2>3, OneMoves DEF Others
<1>6. ASSUME NEW t \in Threads, Sleeps(t) PROVE Exact
  <2>1. \A u \in Threads \ {t} : u \in Waiters(x)' <=> u \in Waiters(x)
    BY <1>6 DEF Sleeps, Waiters
  <2>2. /\ t \in Waiters(x) <=> semPc[t] = "waiting" /\ obj[t] = x
        /\ t \in Waiters(x)' <=> obj[t] = x
    BY <1>6 DEF Sleeps, Waiters
  <2>3. waiters' = [waiters EXCEPT ![obj[t]] = Others(t) + 1]
    BY <1>6 DEF Sleeps
  <2>4. QED
    BY <1>0, <2>1, <2>2, <2>3, OneMoves DEF Others
<1>7. ASSUME NEW t \in Threads, Posts(t) PROVE Exact
  <2>0. semPc[t] = "found"
    BY <1>7 DEF Posts
  <2>1. Waiters(x)' = Waiters(x) /\ UNCHANGED waiters
    BY <1>7, <2>0, PostWakes DEF Waiters
  <2>2. QED
    BY <1>0, <2>1
<1>8. ASSUME NEW t \in Threads, SliceEnds(t) PROVE Exact
  <2>1. Waiters(x)' = Waiters(x) /\ UNCHANGED waiters
    BY <1>8 DEF SliceEnds, Waiters
  <2>2. QED
    BY <1>0, <2>1
<1>9. ASSUME NEW t \in Threads, SemDestroy(t) PROVE Exact
  <2>1. Waiters(x)' = Waiters(x) /\ UNCHANGED waiters
    BY <1>9 DEF SemDestroy, Waiters
  <2>2. QED
    BY <1>0, <2>1
<1>10. ASSUME NEW t \in Threads, NEW initial \in 0 .. MaxValue, SemInit(t, initial) PROVE Exact
  <2>1. Waiters(x)' = Waiters(x) /\ UNCHANGED waiters
    BY <1>10 DEF SemInit, Waiters
  <2>2. QED
    BY <1>0, <2>1
<1>11. ASSUME NEW t \in Threads, NEW what \in Ops, LookupSem(t, what) PROVE Exact
  <2>1. Waiters(x)' = Waiters(x) /\ UNCHANGED waiters
    BY <1>11 DEF LookupSem, Waiters
  <2>2. QED
    BY <1>0, <2>1
<1>12. ASSUME NEW o \in Objects, Collect(o) PROVE Exact
  <2>1. Waiters(x)' = Waiters(x) /\ UNCHANGED waiters
    BY <1>12 DEF Collect, Waiters
  <2>2. QED
    BY <1>0, <2>1
<1>13. QED
  BY <1>1, <1>2, <1>3, <1>4, <1>5, <1>6, <1>7, <1>8, <1>9, <1>10, <1>11, <1>12 DEF SemNext, InCall, GuestCalls

(* The guest block.                                                        *)
BlockInv ==
  /\ table # NoObject =>
       /\ block.magic /\ block.count = count[table]
       /\ Sleepers(table) # {} => block.hasWaiters
  /\ table = NoObject /\ NobodyDestroys => block = NoBlock

(* Every step of the semaphore keeps the block true to the table.          *)
LEMMA BlockStep ==
  ASSUME SemInv, SemNext
  PROVE  BlockInv'
<1>0. \A t \in Threads : AtTurn(t) /\ Sleepers(obj[t]) # {} => Others(t) > 0
  BY OthersSleep
<1> USE PosixAssumption
    DEF SemInv, BlockIsOfTheTable, BlockInv, SemaphoreTypeOK, ObjectInv, Destroying, NobodyDestroys, Sleepers, ReturnFrom, AtTurn, objectVars
<1>1. ASSUME NEW t \in Threads, DestroyEnds(t) PROVE BlockInv'
  BY <1>0, <1>1 DEF DestroyEnds
<1>2. ASSUME NEW t \in Threads, DestroyClears(t) PROVE BlockInv'
  BY <1>0, <1>2 DEF DestroyClears
<1>3. ASSUME NEW t \in Threads, Fails(t) PROVE BlockInv'
  BY <1>0, <1>3 DEF Fails, Gone
<1>4. ASSUME NEW t \in Threads, Takes(t) PROVE BlockInv'
  BY <1>0, <1>4 DEF Takes, Gone, Empty, Others, SyncGuest
<1>5. ASSUME NEW t \in Threads, GivesUp(t) PROVE BlockInv'
  BY <1>0, <1>5 DEF GivesUp, Gone, Others, SyncGuest
<1>6. ASSUME NEW t \in Threads, Sleeps(t) PROVE BlockInv'
  BY <1>0, <1>6, OthersCounted DEF Sleeps, Gone, SyncGuest
<1>7. ASSUME NEW t \in Threads, Posts(t) PROVE BlockInv'
  <2>1. semPc[t] = "found" /\ obj[t] # NoObject /\ ~destroyed[obj[t]] /\ Others(t) = waiters[obj[t]]
    BY <1>7 DEF Posts, Gone, Others
  <2>2. \A o : {u \in asleep' : obj'[u] = o} \subseteq {u \in asleep : obj[u] = o}
    BY <2>1, <1>7, PostWakes
  <2>3. CASE UNCHANGED <<count, block>>
    BY <2>1, <2>2, <2>3, <1>7, PostWakes
  <2>4. CASE count' = [count EXCEPT ![obj[t]] = @ + 1] /\ SyncGuest(count[obj[t]] + 1, waiters[obj[t]])
    BY <1>0, <2>1, <2>2, <2>4, <1>7, PostWakes DEF SyncGuest
  <2>5. QED
    BY <2>3, <2>4, <1>7 DEF Posts
<1>8. ASSUME NEW t \in Threads, SliceEnds(t) PROVE BlockInv'
  BY <1>0, <1>8 DEF SliceEnds
<1>9. ASSUME NEW t \in Threads, SemDestroy(t) PROVE BlockInv'
  BY <1>0, <1>9 DEF SemDestroy
<1>10. ASSUME NEW t \in Threads, NEW initial \in 0 .. MaxValue, SemInit(t, initial) PROVE BlockInv'
  BY <1>0, <1>10 DEF SemInit, DestroyOld, NobodyDestroys, SyncGuest, Unused
<1>11. ASSUME NEW t \in Threads, NEW what \in Ops, LookupSem(t, what) PROVE BlockInv'
  BY <1>0, <1>11 DEF LookupSem
<1>12. ASSUME NEW o \in Objects, Collect(o) PROVE BlockInv'
  BY <1>0, <1>12 DEF Collect, Unused
<1>13. QED
  BY <1>1, <1>2, <1>3, <1>4, <1>5, <1>6, <1>7, <1>8, <1>9, <1>10, <1>11, <1>12 DEF SemNext, InCall, GuestCalls

(* Every step of the semaphore keeps the types.                            *)
LEMMA TypeStep ==
  ASSUME SemInv, SemNext
  PROVE  SemaphoreTypeOK'
<1>0. \A x \in Objects : waiters'[x] \in 0 .. Cardinality(Threads)
  <2> SUFFICES ASSUME NEW x \in Objects PROVE waiters'[x] \in 0 .. Cardinality(Threads)
    OBVIOUS
  <2>1. Waiters(x)' \subseteq Threads
    BY DEF Waiters
  <2>2. Cardinality(Waiters(x)') \in 0 .. Cardinality(Threads)
    BY <2>1, PosixAssumption, FS_Subset, FS_CardinalityType
  <2>3. QED
    BY <2>2, CountStep
<1> USE PosixAssumption
    DEF SemInv, BlockIsOfTheTable, SemaphoreTypeOK, ObjectInv, Destroying, Sleepers, Unused, ReturnFrom, AtTurn, objectVars, Ops
<1>1. ASSUME NEW t \in Threads, DestroyEnds(t) PROVE SemaphoreTypeOK'
  BY <1>0, <1>1 DEF DestroyEnds
<1>2. ASSUME NEW t \in Threads, DestroyClears(t) PROVE SemaphoreTypeOK'
  BY <1>0, <1>2 DEF DestroyClears, NoBlock
<1>3. ASSUME NEW t \in Threads, Fails(t) PROVE SemaphoreTypeOK'
  BY <1>0, <1>3 DEF Fails, Gone
<1>4. ASSUME NEW t \in Threads, Takes(t) PROVE SemaphoreTypeOK'
  <2>1. obj[t] \in Objects /\ count[obj[t]] - 1 \in 0 .. MaxValue
    BY <1>4 DEF Takes, Empty
  <2>2. count' \in [Objects -> 0 .. MaxValue] /\ block' \in [magic : BOOLEAN, hasWaiters : BOOLEAN, count : 0 .. MaxValue]
    BY <1>4, <2>1 DEF Takes, SyncGuest
  <2>3. waiters' \in [Objects -> 0 .. Cardinality(Threads)]
    BY <1>0, <1>4 DEF Takes
  <2>4. QED
    BY <2>2, <2>3, <1>4 DEF Takes
<1>5. ASSUME NEW t \in Threads, GivesUp(t) PROVE SemaphoreTypeOK'
  BY <1>0, <1>5 DEF GivesUp, Gone, Others, SyncGuest
<1>6. ASSUME NEW t \in Threads, Sleeps(t) PROVE SemaphoreTypeOK'
  BY <1>0, <1>6 DEF Sleeps, Gone, Others, SyncGuest
<1>7. ASSUME NEW t \in Threads, Posts(t) PROVE SemaphoreTypeOK'
  <2>1. obj[t] \in Objects /\ semPc[t] = "found" /\ count[obj[t]] \in 0 .. MaxValue
    BY <1>7 DEF Posts
  <2>2. \/ UNCHANGED <<count, block>>
        \/ /\ count[obj[t]] + 1 \in 0 .. MaxValue
           /\ count' = [count EXCEPT ![obj[t]] = @ + 1] /\ SyncGuest(count[obj[t]] + 1, waiters[obj[t]])
    BY <1>7 DEF Posts
  <2>3. count' \in [Objects -> 0 .. MaxValue]
    BY <2>1, <2>2
  <2>4. block' \in [magic : BOOLEAN, hasWaiters : BOOLEAN, count : 0 .. MaxValue]
    <3>1. CASE UNCHANGED <<count, block>>
      BY <3>1
    <3>2. CASE count[obj[t]] + 1 \in 0 .. MaxValue /\ SyncGuest(count[obj[t]] + 1, waiters[obj[t]])
      <4>1. (waiters[obj[t]] > 0) \in BOOLEAN
        OBVIOUS
      <4>2. QED
        BY <3>2, <4>1 DEF SyncGuest
    <3>3. QED
      BY <2>2, <3>1, <3>2
  <2>5. QED
    BY <1>0, <2>1, <2>3, <2>4, <1>7, PostWakes
<1>8. ASSUME NEW t \in Threads, SliceEnds(t) PROVE SemaphoreTypeOK'
  BY <1>0, <1>8 DEF SliceEnds
<1>9. ASSUME NEW t \in Threads, SemDestroy(t) PROVE SemaphoreTypeOK'
  BY <1>0, <1>9 DEF SemDestroy
<1>10. ASSUME NEW t \in Threads, NEW initial \in 0 .. MaxValue, SemInit(t, initial) PROVE SemaphoreTypeOK'
  <2>1. PICK o \in Objects : table' = o /\ count' = [count EXCEPT ![o] = initial] /\ SyncGuest(initial, 0)
    BY <1>10 DEF SemInit
  <2>2. count' \in [Objects -> 0 .. MaxValue] /\ block' \in [magic : BOOLEAN, hasWaiters : BOOLEAN, count : 0 .. MaxValue]
    BY <2>1 DEF SyncGuest
  <2>3. asleep' \subseteq asleep /\ destroyed' \in [Objects -> BOOLEAN]
    <3>1. DestroyOld
      BY <1>10 DEF SemInit
    <3>2. CASE table = NoObject
      BY <3>1, <3>2 DEF DestroyOld
    <3>3. CASE table # NoObject
      <4>1. destroyed' = [destroyed EXCEPT ![table] = TRUE] /\ asleep' = asleep \ Sleepers(table)
        BY <3>1, <3>3 DEF DestroyOld
      <4>2. destroyed' \in [Objects -> BOOLEAN]
        BY <4>1
      <4>3. QED
        BY <4>1, <4>2
    <3>4. QED
      BY <3>2, <3>3
  <2>4. QED
    BY <2>1, <2>2, <2>3, <1>10 DEF SemInit
<1>11. ASSUME NEW t \in Threads, NEW what \in Ops, LookupSem(t, what) PROVE SemaphoreTypeOK'
  BY <1>0, <1>11 DEF LookupSem
<1>12. ASSUME NEW o \in Objects, Collect(o) PROVE SemaphoreTypeOK'
  BY <1>0, <1>12 DEF Collect
<1>13. QED
  BY <1>1, <1>2, <1>3, <1>4, <1>5, <1>6, <1>7, <1>8, <1>9, <1>10, <1>11, <1>12 DEF SemNext, InCall, GuestCalls

(* The three together, with the exact counts of waiters.                   *)
LEMMA SemStep == SemInv /\ SemNext => SemInv'
<1> SUFFICES ASSUME SemInv, SemNext PROVE SemInv'
  OBVIOUS
<1>1. SemaphoreTypeOK' /\ BlockInv' /\ ObjectInv' /\ \A x \in Objects : waiters'[x] = Cardinality(Waiters(x)')
  BY TypeStep, BlockStep, ObjectStep, CountStep
<1>2. QED
  BY <1>1 DEF SemInv, BlockIsOfTheTable, BlockInv

(* A step that is in the once call only.                                   *)
OnceNext == \E t \in Threads : Once!Call(t) \/ Once!Run(t)

(* Every step of PthreadOnce keeps OnceInv.                                *)
LEMMA OnceStep == OnceInv /\ OnceNext => OnceInv'
<1> SUFFICES ASSUME OnceInv, NEW t \in Threads, Once!Call(t) \/ Once!Run(t) PROVE OnceInv'
  BY DEF OnceNext
<1> USE DEF OnceInv, Once!Controls, Once!Places, Once!GoTo
<1>1. CASE Once!Call(t)
  BY <1>1 DEF Once!Call
<1>2. CASE Once!FirstLook(t)
  BY <1>2 DEF Once!FirstLook, Once!Finished
<1>3. CASE Once!Poll(t)
  BY <1>3 DEF Once!Poll, Once!Marked
<1>4. CASE Once!Wake(t)
  BY <1>4 DEF Once!Wake
<1>5. CASE Once!InitRoutine(t)
  BY <1>5 DEF Once!InitRoutine
<1>6. CASE Once!Finish(t)
  BY <1>6 DEF Once!Finish, Once!MarkedDone
<1>7. QED
  BY <1>1, <1>2, <1>3, <1>4, <1>5, <1>6 DEF Once!Run

(* Both invariants hold at the start.                                      *)
LEMMA Initially == GuestInit => SemInv /\ OnceInv
<1> SUFFICES ASSUME GuestInit PROVE SemInv /\ OnceInv
  OBVIOUS
<1>1. OnceInv
  BY DEF GuestInit, OnceInv, Once!Init, Once!Controls, Once!Places
<1>2. \A o \in Objects : Cardinality(Waiters(o)) = 0
  BY NobodyWaits, PosixAssumption DEF GuestInit, SemaphoreInit
<1>3. Cardinality(Threads) \in Nat
  BY PosixAssumption, FS_CardinalityType
<1>4. SemInv
  BY <1>2, <1>3, PosixAssumption
  DEF GuestInit, SemaphoreInit, SemInv, BlockIsOfTheTable, ObjectInv, SemaphoreTypeOK, Destroying, NobodyDestroys, NoBlock, Ops
<1>5. QED
  BY <1>1, <1>4

(* A step of the guest is one of the semaphore, of PthreadOnce or of both. *)
LEMMA GuestStep == (SemInv /\ OnceInv) /\ [GuestNext]_guestVars => (SemInv /\ OnceInv)'
<1> SUFFICES ASSUME SemInv, OnceInv, [GuestNext]_guestVars PROVE SemInv' /\ OnceInv'
  OBVIOUS
<1>1. \/ SemNext \/ UNCHANGED semVars
  BY DEF GuestNext, CallOnce, InOnce, InSem, Slice, UseSemaphore, SemNext, GuestCalls, guestVars
<1>2. OnceNext \/ UNCHANGED onceVars
  BY DEF GuestNext, CallOnce, InOnce, InSem, Slice, UseSemaphore, OnceNext, Once!Run, guestVars
<1>3. UNCHANGED semVars => SemInv'
  BY DEF semVars, objectVars, SemInv, BlockIsOfTheTable, ObjectInv, SemaphoreTypeOK, Waiters, Sleepers, NobodyDestroys, Destroying
<1>4. UNCHANGED onceVars => OnceInv'
  BY DEF onceVars, OnceInv
<1>5. QED
  BY <1>1, <1>2, <1>3, <1>4, SemStep, OnceStep

(* Both invariants hold in every behaviour.                                *)
LEMMA Invariance == GuestSpec => [](SemInv /\ OnceInv)
BY Initially, GuestStep, PTL DEF GuestSpec

----------------------------------------------------------------------------
(* The theorems                                                            *)

(* The guest block shows the semaphore that the table leads to, however    *)
(* many threads wait on it and on the objects it had before (sem_init).    *)
THEOREM BlockCorrect == GuestSpec => []BlockIsOfTheTable
BY Invariance, PTL DEF SemInv

(* PthreadOnce runs its routine once, before any caller returns.           *)
THEOREM OnceCorrect == GuestSpec => []RunsOnceFirst
<1>1. OnceInv => RunsOnceFirst
  <2> SUFFICES ASSUME OnceInv PROVE Once!RunsOnceFirst
    BY DEF RunsOnceFirst
  <2>1. \A t, u \in ran \cup {v \in Threads : oncePc[v] \in {"init", "finish"}} : t = u
    BY DEF OnceInv
  <2>2. Once!TypeOK
    BY DEF OnceInv, Once!TypeOK, Once!Controls, Once!Places
  <2>3. \A t \in Threads : oncePc[t] = "returned" => ran # {} /\ \A u \in ran : oncePc[u] # "finish"
    BY DEF OnceInv
  <2>4. QED
    BY <2>1, <2>2, <2>3 DEF Once!RunsOnceFirst
<1>2. QED
  BY <1>1, Invariance, PTL

----------------------------------------------------------------------------

(***************************************************************************)
(* The context: where the thread is, how far a delivery is, and what the   *)
(* collectors that hold the mutex or wait rely on.                         *)
(***************************************************************************)
PlaceInv ==
  /\ at = "new" => ~hostTid /\ ~hasTimer /\ Tokens = 0 /\ phase = "none"
  /\ at \notin {"new", "closed"} => hostTid
  /\ at \in {"closing", "sleep", "closed"} => "open" \notin state
  /\ "pending" \in state /\ at \notin {"new", "closed"} => hasTimer

DeliveryInv ==
  /\ "running" \in state <=> phase \in {"claimed", "handler"}
  /\ phase \in {"claimed", "resend"} => "pending" \in state
  /\ phase # "none" => hasTimer /\ at \notin {"new", "closed"}

RaiserInv ==
  /\ \A r \in Raisers : raiser[r] = "sending" =>
       /\ "pending" \in state /\ hasTimer /\ at \notin {"new", "closed"}
       /\ phase = "none" /\ Tokens = 0
       /\ \A q \in Raisers : q # r => raiser[q] \notin {"sending", "waiting"}
  /\ \A r \in Raisers : raiser[r] = "waiting" => "pending" \in state
  /\ \A r \in Raisers : raiser[r] = "acknowledged" => phase = "handler"

ContextInv ==
  OneSignalPerRequest /\ ClosedIsQuiet /\ PlaceInv /\ DeliveryInv /\ RaiserInv

(***************************************************************************)
(* The pool: what the handle of a slot and the work on it say of each      *)
(* other, and what the reaper has seen.                                    *)
(***************************************************************************)
Busy == {"fill", "spawn", "undo", "join", "release", "give"}

\* At most one actor works on a slot.
OwnerInv ==
  \A a, b \in Pool!Actors :
    slot[a] = slot[b] /\ pc[a] \in Busy /\ pc[b] \in Busy => a = b

\* What the handle of a slot, and its host thread, say of each other.
SlotInv ==
  \A s \in Slots :
    /\ free[s] => handle[s] = "none" /\ ~stack[s]
    /\ handle[s] = "none" => host[s] = "none" /\ ~almostDone[s]
    /\ handle[s] = "joining" => ~detached[s]
    /\ handle[s] = "open" => ~detached[s] /\ host[s] # "none"
    /\ handle[s] = "detached" => detached[s]
    /\ handle[s] = "detached" /\ host[s] = "none" =>
         slot[Reaper] = s /\ pc[Reaper] \in {"release", "give"}
    /\ host[s] # "none" => stack[s] /\ ~free[s]
    /\ almostDone[s] => host[s] # "running"
    /\ host[s] \in {"leaving", "ended"} => almostDone[s]

\* The slot that somebody works on.
WorkInv ==
  /\ pc[Reaper] \notin {"fill", "spawn", "undo"}
  /\ \A u \in Users :
       /\ pc[u] \in Busy \cup {"idle"}
       /\ pc[u] \in {"fill", "spawn", "undo"} => handle[slot[u]] = "none"
       /\ pc[u] = "spawn" => stack[slot[u]]
       /\ pc[u] \in {"join", "release"} => handle[slot[u]] = "joining"
       /\ pc[u] = "give" => handle[slot[u]] \in {"none", "joining"}
  /\ \A a \in Pool!Actors :
       /\ pc[a] \in Busy => ~free[slot[a]]
       /\ pc[a] = "join" => host[slot[a]] # "none"
       /\ pc[a] \in {"release", "give"} => host[slot[a]] = "none"
       /\ pc[a] = "give" => ~stack[slot[a]] /\ ~almostDone[slot[a]]

\* What the reaper has seen of a detached thread stays so.
ReaperInv ==
  /\ pc[Reaper] \in {"used", "recheck"} =>
       \A u \in Users : slot[u] = slot[Reaper] => pc[u] \notin {"fill", "spawn", "undo"}
  /\ pc[Reaper] \in {"used", "recheck"} /\ detached[slot[Reaper]] =>
       handle[slot[Reaper]] = "detached" /\ host[slot[Reaper]] # "none"
  /\ pc[Reaper] \in {"join", "release", "give"} => handle[slot[Reaper]] = "detached"

PoolInv == Pool!PoolTypeOK /\ OwnerInv /\ SlotInv /\ WorkInv /\ ReaperInv

\* The context of the followed slot is closed unless its thread is being
\* created or has not run to its end.
LastInv ==
  host[Tracked] # "running" /\ (\A u \in Users : slot[u] = Tracked => pc[u] # "spawn")
    => at = "closed"

KeyInv ==
  /\ Key!NoStaleEntry
  /\ exit \in {"calls", "callback"} => pass < Passes

-----------------------------------------------------------------------------
(* Every step of the context keeps its invariant. *)
LEMMA ContextTypes == ASSUME TypeOK, [Next]_vars PROVE TypeOK'
<1> USE DEF TypeOK, Places, vars, hostVars, threadVars
<1>1. ASSUME NEW r \in Raisers, RaiseRefused(r) \/ Raise(r) \/ Send(r) \/ Restart(r) PROVE TypeOK'
  <2>1. UNCHANGED armed /\ queued' \in 0..2
    BY <1>1 DEF RaiseRefused, Raise, Send, Restart, RaiseBeforeStart, RaiseSets, RaiseSends, RaiseWithdraws, Tgkill
  <2>2. UNCHANGED <<hostTid, installed, at, phase, lost>> /\ hasTimer' \in BOOLEAN
    BY <1>1 DEF RaiseRefused, Raise, Send, Restart, RaiseBeforeStart, RaiseSets, RaiseSends, RaiseWithdraws
  <2>3. state' \in {state, state \cup {"pending"}, state \ {"pending"}}
    BY <1>1 DEF RaiseRefused, Raise, Send, Restart, RaiseBeforeStart, RaiseSets, RaiseSends, RaiseWithdraws
  <2>4. raiser' \in [Raisers -> {"idle", "sending", "waiting", "acknowledged"}]
    BY <1>1 DEF RaiseRefused, Raise, Send, Restart, RaiseBeforeStart, RaiseSets, RaiseSends, RaiseWithdraws
  <2> QED
    BY <2>1, <2>2, <2>3, <2>4
<1>2. CASE Interrupt
  <2>1. UNCHANGED <<hostTid, installed, hasTimer, at, raiser, lost>> /\ queued' \in 0..2
    BY <1>2 DEF Interrupt
  <2>2. state' \in {state, state \cup {"running"}} /\ phase' \in {phase, "claimed"} /\ armed' \in BOOLEAN
    BY <1>2 DEF Interrupt, Delivered
  <2> QED
    BY <2>1, <2>2
<1>3. CASE TakeRequest
  BY <1>3 DEF TakeRequest
<1>9. CASE Return
  <2>1. /\ UNCHANGED <<hostTid, installed, hasTimer, armed, at, raiser>>
        /\ phase' \in {"resend", "none"} /\ lost' \in {lost, TRUE}
    BY <1>9 DEF Return, HandlerReturns, Resend, ResendFails, Tgkill
  <2>3. queued' \in {queued, queued + 1, 2} /\ (queued' = queued + 1 => queued < 2)
    BY <1>9 DEF Return, HandlerReturns, Resend, ResendFails, Tgkill
  <2>2. state' \in {state, state \ {"running"}}
    BY <1>9 DEF Return, HandlerReturns, Resend, ResendFails
  <2>4. queued' \in 0..2
    BY <2>3
  <2>5. state' \subseteq {"open", "pending", "running"}
    BY <2>2
  <2> QED
    BY <2>1, <2>4, <2>5
<1>4. CASE StartContext
  <2>1. UNCHANGED <<state, installed, phase, raiser, lost>> /\ hostTid' = TRUE /\ at' = "host"
    BY <1>4 DEF StartContext
  <2>2. hasTimer' \in {hasTimer, TRUE} /\ UNCHANGED armed
    BY <1>4 DEF StartContext, Tgkill
  <2>3. queued' \in 0..2
    BY <1>4 DEF StartContext, Tgkill
  <2> QED
    BY <2>1, <2>2, <2>3
<1>5. CASE CreationFails
  BY <1>5 DEF CreationFails
<1>6. CASE InstallHandler \/ EnterHost \/ LeaveHost \/ CloseContext \/ Close
  BY <1>6 DEF InstallHandler, EnterHost, LeaveHost, CloseContext, Close, CloseSleeps, CloseLooks, CloseEnd, Moves
<1>7. CASE OpenContext
  <2>1. state' = {"open"} /\ queued' = 0 /\ lost' = FALSE /\ hostTid' = FALSE /\ at' = "new"
    BY <1>7 DEF OpenContext
  <2>2. UNCHANGED <<installed, hasTimer, armed, phase, raiser>>
    BY <1>7 DEF OpenContext
  <2>3. state' \subseteq {"open", "pending", "running"}
    BY <2>1
  <2>4. queued' \in 0..2
    BY <2>1
  <2> QED
    BY <2>1, <2>2, <2>3, <2>4
<1>8. CASE UNCHANGED vars
  BY <1>8
<1> QED
  BY <1>1, <1>2, <1>3, <1>4, <1>5, <1>6, <1>7, <1>8, <1>9 DEF Next, Deliver

(* Every step of the context keeps its invariant. *)
LEMMA ContextStep == ASSUME ContextInv, [Next]_vars PROVE ContextInv'
<1> USE DEF ContextInv, OneSignalPerRequest, ClosedIsQuiet, PlaceInv, DeliveryInv, RaiserInv, TypeOK,
            Tokens, Unattended, ContextMutexFree, Waiting, Acknowledged, AtSafePoint, Places,
            vars, hostVars, threadVars
<1>0. TypeOK'
  BY ContextTypes
<1>1. ASSUME InstallHandler PROVE ContextInv'
  BY <1>1 DEF InstallHandler
<1>2. ASSUME NEW r \in Raisers, RaiseBeforeStart(r) PROVE ContextInv'
  BY <1>2 DEF RaiseBeforeStart
<1>3. ASSUME NEW r \in Raisers, RaiseSets(r) PROVE ContextInv'
  BY <1>3 DEF RaiseSets, AlreadyCovered
<1>4. ASSUME NEW r \in Raisers, RaiseSends(r) PROVE ContextInv'
  BY <1>4 DEF RaiseSends, Tgkill
<1>5. ASSUME NEW r \in Raisers, RaiseWithdraws(r) PROVE ContextInv'
  BY <1>5 DEF RaiseWithdraws
<1>6. ASSUME NEW r \in Raisers, Restart(r) PROVE ContextInv'
  BY <1>6 DEF Restart
<1>7. ASSUME Interrupt PROVE ContextInv'
  <2>1. /\ Unattended /\ Tokens = 1 /\ hasTimer
        /\ "pending" \in state /\ "running" \notin state /\ at \notin {"new", "closed"}
    BY <1>7 DEF Interrupt
  <2>2. queued' = 0
    BY <1>7, <2>1 DEF Interrupt
  <2>3. CASE AtSafePoint
    <3>1. state' = state \cup {"running"} /\ phase' = "claimed" /\ ~armed'
      BY <1>7, <2>1, <2>3 DEF Interrupt, Delivered
    <3>11. OneSignalPerRequest'
      <4>1. TypeOK'
        BY <1>0
      <4>2. Tokens' = 0
        BY <1>7, <2>1, <2>2, <2>3, <3>1 DEF Interrupt
      <4>3. ~Unattended'
        BY <1>7, <2>1, <2>2, <2>3, <3>1 DEF Interrupt
      <4> QED
        BY <4>1, <4>2, <4>3, <1>7, <2>1, <2>2, <2>3, <3>1 DEF Interrupt
    <3>12. ClosedIsQuiet'
      BY <1>7, <2>1, <2>2, <2>3, <3>1 DEF Interrupt
    <3>13. PlaceInv'
      BY <1>7, <2>1, <2>2, <2>3, <3>1 DEF Interrupt
    <3>14. DeliveryInv'
      BY <1>7, <2>1, <2>2, <2>3, <3>1 DEF Interrupt
    <3>15. RaiserInv'
      BY <1>7, <2>1, <2>2, <2>3, <3>1 DEF Interrupt
    <3> QED
      BY <3>11, <3>12, <3>13, <3>14, <3>15
  <2>4. CASE ~AtSafePoint
    <3>1. state' = state /\ phase' = phase /\ armed'
      BY <1>7, <2>1, <2>4 DEF Interrupt, Delivered
    <3> QED
      BY <1>7, <2>1, <2>2, <2>4, <3>1 DEF Interrupt
  <2> QED
    BY <2>3, <2>4
<1>8. ASSUME TakeRequest PROVE ContextInv'
  BY <1>8 DEF TakeRequest
<1>9. ASSUME HandlerReturns PROVE ContextInv'
  BY <1>9 DEF HandlerReturns, RaisedMeanwhile
<1>10. ASSUME Resend PROVE ContextInv'
  BY <1>10 DEF Resend, Tgkill
<1>11. ASSUME ResendFails PROVE ContextInv'
  BY <1>11 DEF ResendFails
<1>12. ASSUME StartContext PROVE ContextInv'
  <2>1. CASE "pending" \in state
    <3>1. hasTimer' /\ queued' = 1 /\ ~armed'
      BY <1>12, <2>1 DEF StartContext, Tgkill
    <3>11. OneSignalPerRequest'
      <4>1. TypeOK'
        BY <1>0
      <4>2. Tokens' = 1
        BY <1>12, <2>1, <3>1 DEF StartContext
      <4>3. Unattended'
        BY <1>12, <2>1, <3>1 DEF StartContext
      <4> QED
        BY <4>1, <4>2, <4>3, <1>12, <2>1, <3>1 DEF StartContext
    <3>12. ClosedIsQuiet'
      BY <1>12, <2>1, <3>1 DEF StartContext
    <3>13. PlaceInv'
      BY <1>12, <2>1, <3>1 DEF StartContext
    <3>14. DeliveryInv'
      BY <1>12, <2>1, <3>1 DEF StartContext
    <3>15. RaiserInv'
      BY <1>12, <2>1, <3>1 DEF StartContext
    <3> QED
      BY <3>11, <3>12, <3>13, <3>14, <3>15
  <2>2. CASE "pending" \notin state
    <3>1. UNCHANGED <<hasTimer, queued, armed>>
      BY <1>12, <2>2 DEF StartContext
    <3> QED
      BY <1>12, <2>2, <3>1 DEF StartContext
  <2> QED
    BY <2>1, <2>2
<1>13. ASSUME CreationFails PROVE ContextInv'
  BY <1>13 DEF CreationFails
<1>14. ASSUME EnterHost PROVE ContextInv'
  BY <1>14 DEF EnterHost, Moves
<1>15. ASSUME LeaveHost PROVE ContextInv'
  BY <1>15 DEF LeaveHost, Moves
<1>16. ASSUME CloseContext PROVE ContextInv'
  BY <1>16 DEF CloseContext
<1>17. ASSUME CloseSleeps PROVE ContextInv'
  BY <1>17 DEF CloseSleeps, Moves, RequestLeft
<1>18. ASSUME CloseLooks PROVE ContextInv'
  BY <1>18 DEF CloseLooks, Moves
<1>19. ASSUME CloseEnd PROVE ContextInv'
  <2>1. Waiting = {} /\ Acknowledged = {} /\ Tokens = 0
    BY <1>19 DEF CloseEnd, RequestLeft
  <2>2. queued = 0 /\ queued' = 0 /\ ~armed' /\ ~hasTimer'
    BY <1>19, <2>1 DEF CloseEnd
  <2>11. OneSignalPerRequest'
    <3>1. TypeOK'
      BY <1>19, <2>1, <2>2 DEF CloseEnd, RequestLeft
    <3>2. Tokens' = 0
      BY <1>19, <2>1, <2>2 DEF CloseEnd, RequestLeft
    <3>3. ~Unattended'
      BY <1>19, <2>1, <2>2 DEF CloseEnd, RequestLeft
    <3> QED
      BY <3>1, <3>2, <3>3, <1>19, <2>1, <2>2 DEF CloseEnd, RequestLeft
  <2>12. ClosedIsQuiet'
    BY <1>19, <2>1, <2>2 DEF CloseEnd, RequestLeft
  <2>13. PlaceInv'
    BY <1>19, <2>1, <2>2 DEF CloseEnd, RequestLeft
  <2>14. DeliveryInv'
    BY <1>19, <2>1, <2>2 DEF CloseEnd, RequestLeft
  <2>15. RaiserInv'
    BY <1>19, <2>1, <2>2 DEF CloseEnd, RequestLeft
  <2> QED
    BY <2>11, <2>12, <2>13, <2>14, <2>15
<1>20. ASSUME OpenContext PROVE ContextInv'
  <2>1. Waiting = {} /\ Acknowledged = {} /\ Tokens = 0 /\ ~hasTimer /\ phase = "none"
    BY <1>20 DEF OpenContext
  <2>2. ~armed /\ ~armed' /\ queued' = 0 /\ ~hasTimer'
    BY <1>20, <2>1 DEF OpenContext
  <2>3. \A r \in Raisers : raiser'[r] = "idle"
    BY <1>20, <2>1 DEF OpenContext
  <2>11. OneSignalPerRequest'
    <3>1. TypeOK'
      BY <1>0
    <3>2. Tokens' = 0
      BY <1>20, <2>1, <2>2, <2>3 DEF OpenContext
    <3>3. ~Unattended'
      BY <1>20, <2>1, <2>2, <2>3 DEF OpenContext
    <3> QED
      BY <3>1, <3>2, <3>3, <1>20, <2>1, <2>2, <2>3 DEF OpenContext
  <2>12. ClosedIsQuiet'
    BY <1>20, <2>1, <2>2, <2>3 DEF OpenContext
  <2>13. PlaceInv'
    BY <1>20, <2>1, <2>2, <2>3 DEF OpenContext
  <2>14. DeliveryInv'
    BY <1>20, <2>1, <2>2, <2>3 DEF OpenContext
  <2>15. RaiserInv'
    BY <1>20, <2>1, <2>2, <2>3 DEF OpenContext
  <2> QED
    BY <2>11, <2>12, <2>13, <2>14, <2>15
<1>21. CASE UNCHANGED vars
  BY <1>21
<1> QED
  BY <1>1, <1>2, <1>3, <1>4, <1>5, <1>6, <1>7, <1>8, <1>9, <1>10, <1>11, <1>12, <1>13, <1>14, <1>15, <1>16, <1>17, <1>18, <1>19, <1>20, <1>21 DEF Next, RaiseRefused, Raise, Send, Deliver, Return, Close

(* The context of every behaviour of PthreadContext is sound.              *)
LEMMA ContextCorrect == Spec => []ContextInv
<1>1. Init => ContextInv
  <2> SUFFICES ASSUME Init PROVE ContextInv
    OBVIOUS
  <2>1. TypeOK
    <3>1. state \subseteq {"open", "pending", "running"} /\ queued \in 0..2
      BY DEF Init
    <3>2. raiser \in [Raisers -> {"idle", "sending", "waiting", "acknowledged"}]
      BY DEF Init
    <3> QED
      BY <3>1, <3>2 DEF Init, TypeOK, Places
  <2>2. Tokens = 0 /\ ~Unattended /\ Waiting = {} /\ Acknowledged = {}
    BY DEF Init, Tokens, Unattended, Waiting, Acknowledged
  <2> QED
    BY <2>1, <2>2 DEF Init, ContextInv, OneSignalPerRequest, ClosedIsQuiet, PlaceInv, DeliveryInv, RaiserInv
<1> QED
  BY <1>1, ContextStep, PTL DEF Spec

-----------------------------------------------------------------------------
(***************************************************************************)
(* The composition adds guards to the steps of the context and none of its *)
(* own: whatever the pool and the destructors do, the context of the       *)
(* followed thread is used as PthreadContext says.                         *)
(***************************************************************************)
LEMMA StepIsOfTheContext == ASSUME [LifeNext]_lifeVars PROVE [Next]_vars
<1>1. ASSUME NEW u \in Users, Creates(u) PROVE [Next]_vars
  BY <1>1 DEF Creates, Fills, SpawnFails, Next
<1>2. CASE Starts \/ Leaves \/ Closes
  BY <1>2 DEF Starts, Leaves, Closes, Next
<1>3. CASE Requests
  BY <1>3 DEF Requests, Next
<1>4. ASSUME NEW r \in Raisers, Restarts(r) PROVE [Next]_vars
  BY <1>4 DEF Restarts, Next
<1>5. ASSUME NEW k \in Keys, DestructorBegins(k) PROVE [Next]_vars
  <2>1. LeaveHost
    BY <1>5 DEF DestructorBegins, LeaveHost, Moves
  <2> QED
    BY <2>1 DEF Next
<1>6. CASE DestructorEnds \/ NestedExit
  <2>1. EnterHost
    BY <1>6 DEF DestructorEnds, NestedExit, EnterHost, Moves
  <2> QED
    BY <2>1 DEF Next
<1>7. CASE PoolCall \/ Reap \/ DestructBegins \/ Destruct
  BY <1>7 DEF PoolCall, Reap, DestructBegins, Destruct
<1>8. ASSUME NEW u \in Users, Joins(u) PROVE UNCHANGED vars
  BY <1>8 DEF Joins
<1>9. ASSUME NEW s \in Slots, Ends(s) PROVE UNCHANGED vars
  BY <1>9 DEF Ends
<1>10. ASSUME NEW k \in Keys, KeyCall(k) \/ \E v \in {"null", "data"} : SetsSpecific(k, v) PROVE UNCHANGED vars
  BY <1>10 DEF KeyCall, SetsSpecific
<1>11. CASE UNCHANGED lifeVars
  BY <1>11 DEF lifeVars
<1> QED
  BY <1>1, <1>2, <1>3, <1>4, <1>5, <1>6, <1>7, <1>8, <1>9, <1>10, <1>11 DEF LifeNext

(* Every step of a thread's life is a step of PthreadContext or leaves     *)
(* the context alone: what is proved of the context by itself holds of the *)
(* thread in PthreadCreate, run_thread and cleanup_thread.                 *)
THEOREM ContextImplemented == LifeSpec => Spec
<1>1. LifeInit => Init
  BY DEF LifeInit
<1> QED
  BY <1>1, StepIsOfTheContext, PTL DEF LifeSpec, Spec

(***************************************************************************)
(* A request on a thread has exactly one signal under way to it (in        *)
(* PthreadContext.cpp), at every moment of the thread's life.              *)
(***************************************************************************)
THEOREM SignalsCorrect == LifeSpec => []OneSignalPerRequest
<1>1. ContextInv => OneSignalPerRequest
  BY DEF ContextInv
<1> QED
  BY <1>1, ContextImplemented, ContextCorrect, PTL

-----------------------------------------------------------------------------
(* Every step of the pool keeps its invariant. *)
LEMMA PoolStep ==
  ASSUME PoolInv,
         \/ \E u \in Users, s \in Slots : Pool!TakeSlot(u, s) \/ Pool!Join(u, s)
         \/ \E u \in Users : \/ Pool!Fill(u) \/ Pool!FillFails(u) \/ Pool!Spawn(u)
                             \/ Pool!SpawnFails(u) \/ Pool!Undo(u) \/ Pool!InCall(u)
         \/ \E s \in Slots : Pool!Detach(s) \/ Pool!AlmostDone(s) \/ Pool!HostEnds(s)
         \/ Pool!Reap
         \/ UNCHANGED poolVars
  PROVE  PoolInv'
<1> USE LifeAssumption DEF PoolInv, OwnerInv, SlotInv, WorkInv, ReaperInv, Busy, poolVars,
      Pool!PoolTypeOK, Pool!Actors, Pool!Places, Pool!Goes, Pool!With, Pool!MutexFree, Pool!calls
<1>1. ASSUME NEW u \in Users, NEW s \in Slots, Pool!TakeSlot(u, s) PROVE PoolInv'
  BY <1>1 DEF Pool!TakeSlot
<1>2. ASSUME NEW u \in Users, NEW s \in Slots, Pool!Join(u, s) PROVE PoolInv'
  BY <1>2 DEF Pool!Join, Pool!Refused
<1>3. ASSUME NEW u \in Users, Pool!Fill(u) PROVE PoolInv'
  BY <1>3 DEF Pool!Fill
<1>4. ASSUME NEW u \in Users, Pool!FillFails(u) PROVE PoolInv'
  BY <1>4 DEF Pool!FillFails
<1>5. ASSUME NEW u \in Users, Pool!Spawn(u) PROVE PoolInv'
  BY <1>5 DEF Pool!Spawn
<1>6. ASSUME NEW u \in Users, Pool!SpawnFails(u) PROVE PoolInv'
  BY <1>6 DEF Pool!SpawnFails
<1>7. ASSUME NEW u \in Users, Pool!Undo(u) PROVE PoolInv'
  BY <1>7 DEF Pool!Undo
<1>8. ASSUME NEW a \in Pool!Actors, Pool!HostJoined(a) PROVE PoolInv'
  BY <1>8 DEF Pool!HostJoined
<1>9. ASSUME NEW a \in Pool!Actors, Pool!Release(a) PROVE PoolInv'
  BY <1>9 DEF Pool!Release
<1>10. ASSUME NEW a \in Pool!Actors, Pool!GiveSlot(a) PROVE PoolInv'
  BY <1>10 DEF Pool!GiveSlot
<1>11. ASSUME NEW s \in Slots, Pool!Detach(s) PROVE PoolInv'
  BY <1>11 DEF Pool!Detach
<1>12. ASSUME NEW s \in Slots, Pool!AlmostDone(s) PROVE PoolInv'
  BY <1>12 DEF Pool!AlmostDone
<1>13. ASSUME NEW s \in Slots, Pool!HostEnds(s) PROVE PoolInv'
  BY <1>13 DEF Pool!HostEnds
<1>14. ASSUME Pool!SweepBegins PROVE PoolInv'
  BY <1>14 DEF Pool!SweepBegins
<1>15. ASSUME Pool!SweepEnds PROVE PoolInv'
  BY <1>15 DEF Pool!SweepEnds, Pool!Reads
<1>16. ASSUME NEW s \in Slots, Pool!SeesDetached(s) PROVE PoolInv'
  BY <1>16 DEF Pool!SeesDetached
<1>17. ASSUME Pool!SeesDone PROVE PoolInv'
  BY <1>17 DEF Pool!SeesDone, Pool!SeemsDone, Pool!Reads
<1>18. ASSUME Pool!SeesUsed PROVE PoolInv'
  BY <1>18 DEF Pool!SeesUsed, Pool!Reads
<1>19. ASSUME Pool!ReapChecks PROVE PoolInv'
  BY <1>19 DEF Pool!ReapChecks, Pool!Reads
<1>20. CASE UNCHANGED poolVars
  BY <1>20
<1> QED
  BY <1>1, <1>2, <1>3, <1>4, <1>5, <1>6, <1>7, <1>8, <1>9, <1>10, <1>11, <1>12, <1>13, <1>14, <1>15, <1>16, <1>17, <1>18, <1>19, <1>20 DEF Pool!InCall, Pool!Reap

(* Every step of a life keeps PoolInv.                                     *)
LEMMA StepIsOfThePool ==
  ASSUME PoolInv, [LifeNext]_lifeVars PROVE PoolInv'
<1>1. ASSUME NEW u \in Users, Creates(u) \/ Joins(u) PROVE PoolInv'
  BY <1>1, PoolStep DEF Creates, Fills, SpawnFails, Joins
<1>2. ASSUME NEW s \in Slots, Ends(s) PROVE PoolInv'
  BY <1>2, PoolStep DEF Ends
<1>3. CASE PoolCall \/ Reap
  BY <1>3, PoolStep DEF PoolCall, Reap
<1>4. CASE UNCHANGED poolVars
  BY <1>4, PoolStep
<1> QED
  BY <1>1, <1>2, <1>3, <1>4
  DEF LifeNext, Requests, Starts, Leaves, Restarts, DestructBegins, Destruct, DestructorEnds,
      NestedExit, Closes, DestructorBegins, KeyCall, SetsSpecific, lifeVars

(***************************************************************************)
(* One actor at a time owns a slot, and a free slot has nothing left of    *)
(* the thread that was in it (PthreadPool, pthread_join_internal).         *)
(***************************************************************************)
THEOREM SlotsCorrect == LifeSpec => []SlotsAreSound
<1>1. LifeInit => PoolInv
  BY LifeAssumption
  DEF LifeInit, Pool!Init, PoolInv, OwnerInv, SlotInv, WorkInv, ReaperInv, Busy,
      Pool!PoolTypeOK, Pool!Actors, Pool!Places
<1>2. PoolInv => SlotsAreSound
  BY DEF PoolInv, OwnerInv, SlotInv, WorkInv, Busy, SlotsAreSound, Pool!SlotsAreSound, Pool!Works
<1> QED
  BY <1>1, <1>2, StepIsOfThePool, PTL DEF LifeSpec

-----------------------------------------------------------------------------
(* What the end of a thread leaves. *)
LEMMA KeyStep == ASSUME KeyInv, [LifeNext]_lifeVars PROVE KeyInv'
<1> USE LifeAssumption DEF KeyInv, Key!NoStaleEntry, Key!KeysTypeOK, Key!keyVars, Key!exitVars, keyVars
<1>1. ASSUME NEW u \in Users, Fills(u) PROVE KeyInv'
  BY <1>1 DEF Fills, Key!NewThread
<1>2. CASE DestructBegins
  BY <1>2 DEF DestructBegins, Key!DestructBegins
<1>3. CASE Destruct
  <2>1. CASE Key!Collect
    BY <2>1 DEF Key!Collect, Key!Due, Key!PassLeft
  <2>2. CASE Key!Erase
    BY <2>2 DEF Key!Erase, Key!Erased
  <2> QED
    BY <1>3, <2>1, <2>2 DEF Destruct, Key!Destruct
<1>4. ASSUME NEW k \in Keys, DestructorBegins(k) PROVE KeyInv'
  BY <1>4 DEF DestructorBegins, Key!DestructorBegins
<1>5. CASE DestructorEnds
  BY <1>5 DEF DestructorEnds, Key!DestructorEnds
<1>6. CASE NestedExit
  BY <1>6 DEF NestedExit, Key!NestedExit, Key!Erased
<1>7. ASSUME NEW k \in Keys, KeyCall(k) PROVE KeyInv'
  BY <1>7 DEF KeyCall, Key!KeyCreate, Key!KeyDelete
<1>8. ASSUME NEW k \in Keys, NEW v \in {"null", "data"}, SetsSpecific(k, v) PROVE KeyInv'
  BY <1>8 DEF SetsSpecific, RunsGuestCode, Key!SetSpecific
<1>9. CASE UNCHANGED keyVars
  BY <1>9
<1> QED
  BY <1>1, <1>2, <1>3, <1>4, <1>5, <1>6, <1>7, <1>8, <1>9
  DEF LifeNext, Requests, PoolCall, Reap, Starts, Leaves, Restarts, Creates, SpawnFails, Joins, Ends,
      Closes, lifeVars

(* Every step keeps LastInv, given the other invariants.                   *)
LEMMA LastStep == ASSUME PoolInv, LastInv, [LifeNext]_lifeVars PROVE LastInv'
<1> USE LifeAssumption DEF LastInv, PoolInv, Pool!PoolTypeOK, Pool!Actors
<1>1. ASSUME NEW u \in Users, Creates(u) PROVE LastInv'
  <2>1. CASE Fills(u)
    BY <1>1, <2>1 DEF Fills, Pool!Fill, Pool!Goes, OpenContext, vars
  <2>2. CASE SpawnFails(u)
    BY <1>1, <2>2 DEF SpawnFails, Pool!SpawnFails, Pool!Goes, CreationFails, vars
  <2>3. CASE Pool!FillFails(u) /\ UNCHANGED vars
    BY <2>3 DEF Pool!FillFails, Pool!Goes, vars
  <2>4. CASE Pool!Spawn(u) /\ UNCHANGED vars
    BY <2>4 DEF Pool!Spawn, Pool!Goes, vars
  <2>5. CASE Pool!Undo(u) /\ UNCHANGED vars
    BY <2>5 DEF Pool!Undo, Pool!Goes, vars
  <2> QED
    BY <1>1, <2>1, <2>2, <2>3, <2>4, <2>5 DEF Creates
<1>2. ASSUME NEW s \in Slots, Ends(s) PROVE LastInv'
  BY <1>2 DEF Ends, Pool!AlmostDone, Pool!HostEnds, Pool!calls, vars
<1>3. CASE PoolCall
  BY <1>3 DEF PoolCall, Pool!TakeSlot, Pool!Join, Pool!Detach, Pool!With, Pool!calls, vars
<1>4. ASSUME NEW a \in Pool!Actors, Pool!InCall(a), UNCHANGED vars PROVE LastInv'
  BY <1>4 DEF Pool!InCall, Pool!HostJoined, Pool!Release, Pool!GiveSlot, Pool!Goes, vars, WorkInv, Busy
<1>5. CASE Reap
  BY <1>4, <1>5 DEF Reap, Pool!Reap, Pool!SweepBegins, Pool!SweepEnds, Pool!SeesDetached, Pool!SeesDone,
     Pool!SeesUsed, Pool!ReapChecks, Pool!Reads, Pool!Goes, Pool!With, vars
<1>6. CASE Starts
  BY <1>6 DEF Starts, StartContext, poolVars
<1>7. CASE (Requests \/ Leaves \/ Closes \/ DestructorEnds \/ NestedExit) /\ UNCHANGED poolVars
  <2>1. at = "closed" => at' = "closed"
    BY <1>7 DEF Requests, InstallHandler, RaiseRefused, Raise, RaiseBeforeStart, RaiseSets, Send, RaiseSends,
       RaiseWithdraws, Deliver, Interrupt, TakeRequest, Return, HandlerReturns, Resend, ResendFails,
       EnterHost, LeaveHost, Leaves, Closes, CloseContext, Close, CloseSleeps, CloseLooks, CloseEnd,
       DestructorEnds, NestedExit, Moves, vars, threadVars
  <2> QED
    BY <1>7, <2>1 DEF poolVars
<1>8. ASSUME NEW k \in Keys, DestructorBegins(k) PROVE LastInv'
  BY <1>8 DEF DestructorBegins, Moves, poolVars
<1>9. ASSUME NEW r \in Raisers, Restarts(r) PROVE LastInv'
  BY <1>9 DEF Restarts, Restart, threadVars, poolVars
<1>10. CASE UNCHANGED <<vars, poolVars>>
  BY <1>10 DEF vars, poolVars
<1> QED
  BY <1>1, <1>2, <1>3, <1>4, <1>5, <1>6, <1>7, <1>8, <1>9, <1>10
  DEF LifeNext, Requests, Leaves, Closes, DestructorEnds, NestedExit, Joins, DestructBegins, Destruct,
      KeyCall, SetsSpecific, lifeVars

(***************************************************************************)
(* A thread that ends leaves no request, no timer and no value of a key    *)
(* behind, and its slot is filled again only afterwards (cleanup_thread,   *)
(* PthreadPool::Create).                                                   *)
(***************************************************************************)
THEOREM EndsCorrect == LifeSpec => []EndsClean
<1>1. LifeInit => KeyInv /\ LastInv /\ PoolInv
  BY LifeAssumption
  DEF LifeInit, Init, Pool!Init, Key!Init, KeyInv, LastInv, Key!NoStaleEntry, Key!KeysTypeOK,
      PoolInv, OwnerInv, SlotInv, WorkInv, ReaperInv, Busy, Pool!PoolTypeOK, Pool!Actors, Pool!Places
<1>2. PoolInv /\ KeyInv /\ LastInv /\ ContextInv => EndsClean
  <2> SUFFICES ASSUME PoolInv, KeyInv, LastInv, ContextInv,
                      NEW u \in Users, pc[u] = "fill", slot[u] = Tracked
               PROVE  at = "closed"
    BY DEF EndsClean, KeyInv, ContextInv
  <2>1. host[Tracked] = "none"
    BY LifeAssumption DEF PoolInv, WorkInv, SlotInv, Pool!PoolTypeOK
  <2>2. \A q \in Users : slot[q] = Tracked => pc[q] # "spawn"
    BY DEF PoolInv, OwnerInv, Busy, Pool!Actors
  <2> QED
    BY <2>1, <2>2 DEF LastInv
<1> QED
  BY <1>1, <1>2, StepIsOfThePool, KeyStep, LastStep, ContextImplemented, ContextCorrect, PTL DEF LifeSpec
=============================================================================
