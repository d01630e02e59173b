--------------------------- MODULE SemaphoreProofs ---------------------------
(***************************************************************************)
(* Proofs about Semaphore, for any threads, counts, width of the ints and  *)
(* calls on offer.                                                         *)
(***************************************************************************)
EXTENDS Semaphore, FiniteSetTheorems, TLAPS

(* What the place of a thread says of its call and of the status.          *)
PlaceInv ==
  \A t \in Threads :
    /\ pc[t] = "idle" => call[t] = NoCall
    /\ pc[t] # "idle" => call[t] \in Offered
    /\ pc[t] = "settle" => call[t].op \in {"Wait", "Signal", "Cancel"}
    /\ pc[t] = "counted" => call[t].op = "Wait"
    /\ pc[t] \in {"settle", "counted"} /\ call[t].op = "Wait" => call[t].n \in 1 .. MaxCount
    /\ pc[t] = "settle" /\ call[t].op = "Cancel" => call[t].n <= MaxCount
    /\ pc[t] = "cancel" => status # "Set" /\ \A u \in Threads : pc[u] = "cancel" => u = t
    /\ pc[t] = "delete" => status = "Deleted"

SemaInv == SafetyInv /\ CancelReportsExactly /\ PlaceInv

SemaStep(t) == Stir(t) \/ Run(t)
WaitStep(t) == WaitEnter(t) \/ WaitSettled(t) \/ WaitCounted(t)

----------------------------------------------------------------------------
(* A step of a wait leaves the object or falls asleep in it.               *)

Verdicts == {"Ok", "InvalCount", "Deleted", "TimedOut", "Canceled"}
Active(t) == IF pc[t] = "entry" THEN activeWaitCalls + 1 ELSE activeWaitCalls

(* The test of the second loop, as the build has it. *)
Takes(t) == Available(t) \/ Wrap(count - call[t].n) >= 0

Left(t, r) ==
  /\ IsWait(t) /\ pc[t] \in {"entry", "settle", "counted"}
  /\ pc' = [pc EXCEPT ![t] = "idle"] /\ call' = [call EXCEPT ![t] = NoCall]
  /\ result' = [result EXCEPT ![t] = ErrorCode(t, r)]
  /\ expired' = expired \ {t} /\ waiting' = waiting \ {t}
  /\ activeWaitCalls' = Active(t) - 1
  /\ asleep' \subseteq asleep /\ t \notin asleep
  /\ status = "Deleted" /\ Active(t) = 1 => asleep' = {}
  /\ status = "Canceled" /\ waiting = {t} => asleep' = {}
  /\ told' = IF r = "Canceled" THEN told + 1 ELSE told
  /\ count' \in CInt /\ (r # "Ok" => count' = count)
  /\ r = "Ok" => status # "Deleted"
  /\ ~overdrawn => count' >= 0 /\ count' <= count
  /\ r = "Canceled" => status = "Canceled" /\ pc[t] = "counted"
  /\ status = "Canceled" /\ pc[t] = "counted" => r = "Canceled"
  /\ UNCHANGED <<status, registered, reported, overdrawn>>

Slept(t, where) ==
  /\ IsWait(t) /\ pc[t] \in {"entry", "settle", "counted"}
  /\ call[t].n \in 1 .. MaxCount /\ count < call[t].n /\ t \notin expired
  /\ pc' = [pc EXCEPT ![t] = where]
  /\ activeWaitCalls' = Active(t)
  /\ asleep' \subseteq asleep \cup {t}
  /\ IF where = "settle" THEN status = "Canceled" /\ pc[t] # "counted" /\ waiting' = waiting
     ELSE status = "Set" /\ waiting' = waiting \cup {t}
  /\ UNCHANGED <<status, count, registered, call, result, expired, reported, told, overdrawn>>

LEMMA WaitMoves ==
  ASSUME SemaInv, NEW t \in Threads, WaitStep(t)
  PROVE  (\E r \in Verdicts : Left(t, r)) \/ \E where \in {"settle", "counted"} : Slept(t, where)
<1> DEFINE Goal == (\E r \in Verdicts : Left(t, r)) \/ \E where \in {"settle", "counted"} : Slept(t, where)
<1>a. /\ count \in Int /\ MaxCount \in Nat /\ call[t].n \in Int /\ activeWaitCalls \in Nat
      /\ count \in CInt /\ (~overdrawn => count >= 0)
      /\ status \in {"Set", "Canceled", "Deleted"}
      /\ pc[t] = "entry" => t \notin asleep /\ t \notin waiting
      /\ pc[t] = "settle" => t \notin waiting
      /\ pc[t] = "counted" => t \in waiting /\ IsWait(t) /\ call[t].n \in 1 .. MaxCount
      /\ pc[t] = "settle" /\ IsWait(t) => call[t].n \in 1 .. MaxCount
  BY SemaCountsAssumption
  DEF SemaInv, SafetyInv, TypeOK, CountsAreExact, SleepersHaveReason, PlaceInv, Calls, IsWait, CInt, CountInRange
<1>b. ASSUME call[t].n \in 1 .. MaxCount, Takes(t)
      PROVE  /\ Wrap(count - call[t].n) \in CInt
             /\ ~overdrawn => Wrap(count - call[t].n) >= 0 /\ Wrap(count - call[t].n) <= count
  BY <1>a, <1>b, SemaCountsAssumption DEF Takes, Available, Wrap, CInt
<1> USE DEF Verdicts, Active, LeaveWait, SleepInWait, Return, GuardWakes, OneLess
(* A turn of the second loop. *)
<1>c. ASSUME IsWait(t), pc[t] \in {"entry", "settle", "counted"}, t \notin asleep, call[t].n \in 1 .. MaxCount,
             status # "Deleted", status = "Canceled" => pc[t] # "counted" /\ Available(t),
             CountedLoop(t, Active(t), {}), UNCHANGED <<status, registered, reported, overdrawn>>
      PROVE  Goal
  <2>1. CASE /\ Takes(t) /\ LeaveWait(t, "Ok", Active(t), {})
             /\ count' = Wrap(count - call[t].n) /\ waiting' = waiting \ {t}
    <3>1. Left(t, "Ok")
      BY <1>a, <1>b, <1>c, <2>1 DEF Left
    <3>2. QED
      BY <3>1
  <2>2. CASE ~Available(t) /\ LeaveWait(t, "TimedOut", Active(t), {}) /\ waiting' = waiting \ {t} /\ count' = count
    <3>1. Left(t, "TimedOut")
      BY <1>a, <1>c, <2>2 DEF Left
    <3>2. QED
      BY <3>1
  <2>3. CASE /\ ~Available(t) /\ t \notin expired /\ SleepInWait(t, "counted", Active(t), {})
             /\ waiting' = waiting \cup {t} /\ count' = count
    <3>1. Slept(t, "counted")
      BY <1>a, <1>c, <2>3 DEF Slept, Available
    <3>2. QED
      BY <3>1
  <2>4. QED
    BY <1>c, <2>1, <2>2, <2>3 DEF CountedLoop, Takes
<1>1. ASSUME WaitCounted(t) PROVE Goal
  <2>1. CASE status \in {"Canceled", "Deleted"}
    <3>1. Left(t, status)
      BY <1>a, <1>1, <2>1 DEF WaitCounted, LastOut, Left
    <3>2. QED
      BY <2>1, <3>1
  <2>2. CASE status = "Set"
    <3>1. LastOut(t) = {} /\ CountedLoop(t, Active(t), {})
      BY <1>1, <2>2 DEF WaitCounted, LastOut
    <3>2. QED
      BY <1>a, <1>c, <1>1, <2>2, <3>1 DEF WaitCounted
  <2>3. QED
    BY <1>a, <2>1, <2>2
<1>2. ASSUME pc[t] \in {"entry", "settle"}, IsWait(t), t \notin asleep, call[t].n \in 1 .. MaxCount, status # "Deleted",
             SettleLoop(t, Active(t)), UNCHANGED <<status, registered, reported, overdrawn>>
      PROVE  Goal
  <2>1. CASE status = "Canceled" /\ ~Available(t) /\ t \in expired
    <3>1. Left(t, "TimedOut")
      BY <1>a, <1>2, <2>1 DEF SettleLoop, Left, Available
    <3>2. QED
      BY <3>1
  <2>2. CASE status = "Canceled" /\ ~Available(t) /\ t \notin expired
    <3>1. Slept(t, "settle")
      BY <1>a, <1>2, <2>2 DEF SettleLoop, Slept, Available
    <3>2. QED
      BY <3>1
  <2>3. CASE ~(status = "Canceled" /\ ~Available(t))
    BY <1>c, <1>2, <2>3 DEF SettleLoop
  <2>4. QED
    BY <2>1, <2>2, <2>3
<1>3. ASSUME WaitSettled(t) PROVE Goal
  <2>1. CASE status = "Deleted"
    <3>1. Left(t, "Deleted")
      BY <1>a, <1>3, <2>1 DEF WaitSettled, Left
    <3>2. QED
      BY <3>1
  <2>2. CASE status # "Deleted"
    BY <1>a, <1>2, <1>3, <2>2 DEF WaitSettled
  <2>3. QED
    BY <2>1, <2>2
<1>4. ASSUME WaitEnter(t) PROVE Goal
  <2>1. CASE call[t].n < 1 \/ call[t].n > MaxCount
    <3>1. Left(t, "InvalCount")
      BY <1>a, <1>4, <2>1 DEF WaitEnter, Left
    <3>2. QED
      BY <3>1
  <2>2. CASE call[t].n \in 1 .. MaxCount /\ status = "Deleted"
    <3>1. Left(t, "Deleted")
      BY <1>a, <1>4, <2>2 DEF WaitEnter, Left
    <3>2. QED
      BY <3>1
  <2>3. CASE call[t].n \in 1 .. MaxCount /\ status # "Deleted"
    BY <1>a, <1>2, <1>4, <2>3 DEF WaitEnter
  <2>4. QED
    BY <1>a, <2>1, <2>2, <2>3
<1>5. QED
  BY <1>1, <1>3, <1>4 DEF WaitStep

----------------------------------------------------------------------------
(* Counting the threads of a set as one of them comes or goes. *)
LEMMA SizeMoves ==
  ASSUME NEW S \in SUBSET Threads, NEW t \in Threads
  PROVE  /\ Cardinality(S) \in Nat /\ (Cardinality(S) = 0 <=> S = {})
         /\ t \in S => Cardinality(S) >= 1 /\ Cardinality(S \ {t}) = Cardinality(S) - 1 /\ S \cup {t} = S
         /\ t \notin S => Cardinality(S \cup {t}) = Cardinality(S) + 1 /\ S \ {t} = S
<1>1. IsFiniteSet(S)
  BY SemaThreadsAssumption, FS_Subset
<1>2. Cardinality(S) \in Nat /\ (Cardinality(S) = 0 <=> S = {})
  BY <1>1, FS_CardinalityType, FS_EmptySet
<1>3. t \in S => Cardinality(S) >= 1
  BY <1>2
<1>4. t \in S => Cardinality(S \ {t}) = Cardinality(S) - 1 /\ S \cup {t} = S
  BY <1>1, FS_RemoveElement
<1>5. t \notin S => Cardinality(S \cup {t}) = Cardinality(S) + 1 /\ S \ {t} = S
  BY <1>1, FS_AddElement
<1>6. QED
  BY <1>2, <1>3, <1>4, <1>5

LEMMA Numbers ==
  ASSUME SemaInv, NEW t \in Threads
  PROVE  /\ count \in Int /\ call[t].n \in Int /\ MaxCount \in Nat /\ InitCount \in Nat /\ InitCount <= MaxCount
         /\ count \in CInt /\ call[t].n \in CInt /\ MaxCount <= IntMax /\ IntMax \in Nat
BY SemaCountsAssumption DEF SemaInv, SafetyInv, TypeOK, PlaceInv, Calls, CInt

(* What a signal that the test lets through leaves: an int, and the sum    *)
(* itself if the count was in range and no overflow was asked for.         *)
LEMMA SignalCount ==
  ASSUME SemaInv, NEW t \in Threads, Fits(t)
  PROVE  /\ Wrap(count + call[t].n) \in CInt
         /\ ~overdrawn /\ call[t].n \in Signable => Wrap(count + call[t].n) \in 0 .. MaxCount
<1>1. Wrap(count + call[t].n) <= MaxCount
  BY DEF Fits
<1>2. ~overdrawn => count \in 0 .. MaxCount
  BY DEF SemaInv, SafetyInv, CountInRange
<1>3. QED
  BY <1>1, <1>2, Numbers DEF Wrap, CInt, Signable

(* A Cancel sets the count to the first one or to a given one. *)
LEMMA CancelCount ==
  ASSUME SemaInv, NEW t \in Threads, Cancel(t)
  PROVE  \/ count' = count /\ overdrawn' = overdrawn
         \/ count' \in 0 .. MaxCount /\ overdrawn' = FALSE
<1>1. CASE TooMany(t)
  BY <1>1 DEF Cancel
<1>2. CASE ~TooMany(t)
  <2>1. call[t].n \in Int /\ call[t].n <= MaxCount
    BY <1>2, Numbers DEF Cancel, AtSettle, TooMany, SemaInv, PlaceInv
  <2>2. count' = (IF call[t].n < 0 THEN InitCount ELSE call[t].n) /\ overdrawn' = FALSE
    BY <1>2 DEF Cancel
  <2>3. QED
    BY <2>1, <2>2, Numbers
<1>3. QED
  BY <1>1, <1>2

(* A wait that moves is counted among the active calls. *)
LEMMA ActiveIsPositive ==
  ASSUME SemaInv, NEW t \in Threads, IsWait(t), pc[t] \in {"entry", "settle", "counted"}
  PROVE  Active(t) \in Nat /\ Active(t) >= 1
<1>1. activeWaitCalls \in Nat /\ activeWaitCalls = Cardinality(Inside) /\ Inside \in SUBSET Threads
  BY DEF SemaInv, SafetyInv, TypeOK, CountsAreExact, Inside
<1>2. CASE pc[t] = "entry"
  BY <1>1, <1>2 DEF Active
<1>3. CASE pc[t] # "entry"
  <2>1. t \in Inside
    BY <1>3 DEF Inside
  <2>2. Cardinality(Inside) >= 1
    BY <1>1, <2>1, SizeMoves
  <2>3. QED
    BY <1>1, <1>3, <2>2 DEF Active
<1>4. QED
  BY <1>2, <1>3

LEMMA ErrorCodeIsResult ==
  ASSUME NEW t \in Threads, NEW r \in Verdicts
  PROVE  ErrorCode(t, r) \in Results
BY DEF ErrorCode, Verdicts, Results

LEMMA NoCallIsCall == NoCall \in Calls /\ NoCall.op = "Signal"
BY SemaCountsAssumption DEF NoCall, Calls, CInt, Ops, Timeouts

----------------------------------------------------------------------------
(* Every step keeps the types. *)
LEMMA TypeStep ==
  ASSUME SemaInv, NEW t \in Threads, SemaStep(t)
  PROVE  TypeOK'
<1> USE SemaCountsAssumption, SemaOfferedAssumption, NoCallIsCall
    DEF SemaInv, SafetyInv, TypeOK, PlaceInv, IsWait, vars, sema
<1>a. \A r \in Verdicts : ErrorCode(t, r) \in Results
  BY ErrorCodeIsResult
<1> USE DEF Verdicts
<1>1. ASSUME NEW c \in Offered, Acquire(t, c) PROVE TypeOK'
  <2>1. registered' \in BOOLEAN
    BY <1>1 DEF Acquire
  <2>2. pc' \in [Threads -> {"idle", "entry", "settle", "counted", "cancel", "delete"}] /\ call' \in [Threads -> Calls]
    BY <1>1 DEF Acquire
  <2>3. result' \in [Threads -> Results] /\ expired' \in SUBSET Threads
    BY <1>1 DEF Acquire, Results
  <2>4. QED
    BY <1>1, <2>1, <2>2, <2>3 DEF Acquire
<1>2. ASSUME SpuriousWake(t) PROVE TypeOK'
  BY <1>a, <1>2 DEF SpuriousWake
<1>3. ASSUME Expire(t) PROVE TypeOK'
  BY <1>a, <1>3 DEF Expire
<1>4. ASSUME WaitStep(t) PROVE TypeOK'
  <2>1. ASSUME NEW r \in Verdicts, Left(t, r) PROVE TypeOK'
    <3>1. Active(t) \in Nat /\ Active(t) >= 1
      BY <2>1, ActiveIsPositive DEF Left
    <3>2. QED
      BY <1>a, <2>1, <3>1 DEF Left
  <2>2. ASSUME NEW where \in {"settle", "counted"}, Slept(t, where) PROVE TypeOK'
    BY <1>a, <2>2 DEF Slept, Active
  <2>3. QED
    BY <1>4, <2>1, <2>2, WaitMoves
<1>5. ASSUME Settle(t) PROVE TypeOK'
  BY <1>a, <1>5 DEF Settle, AtSettle, TooMany, Return
<1>6. ASSUME Signal(t) PROVE TypeOK'
  <2>1. count' \in CInt /\ overdrawn' \in BOOLEAN
    BY <1>6, SignalCount DEF Signal
  <2>2. QED
    BY <1>a, <1>6, <2>1 DEF Signal, AtSettle, Return
<1>b. NumWaiting \in Nat
  BY SizeMoves DEF NumWaiting
<1>7. ASSUME Cancel(t) PROVE TypeOK'
  <2>1. count' \in CInt /\ overdrawn' \in BOOLEAN
    <3>1. \A x \in 0 .. MaxCount : x \in CInt
      BY SemaCountsAssumption DEF CInt
    <3>2. QED
      BY <1>7, <3>1, CancelCount
  <2>2. QED
    BY <1>a, <1>b, <1>7, <2>1 DEF Cancel, AtSettle, TooMany, Return
<1>8. ASSUME CancelDrain(t) PROVE TypeOK'
  BY <1>a, <1>8 DEF CancelDrain, Return
<1>9. ASSUME Delete(t) PROVE TypeOK'
  BY <1>a, <1>9 DEF Delete, CallsRemain, Return
<1>10. ASSUME DeleteDrain(t) PROVE TypeOK'
  BY <1>a, <1>10 DEF DeleteDrain, CallsRemain, Return
<1>11. QED
  BY <1>1, <1>2, <1>3, <1>4, <1>5, <1>6, <1>7, <1>8, <1>9, <1>10 DEF SemaStep, Stir, Run, WaitStep
----------------------------------------------------------------------------
(* Every step keeps what the places say. *)
LEMMA PlaceStep ==
  ASSUME SemaInv, NEW t \in Threads, SemaStep(t)
  PROVE  PlaceInv'
<1> USE SemaCountsAssumption, SemaOfferedAssumption, NoCallIsCall
    DEF SemaInv, SafetyInv, TypeOK, PlaceInv, IsWait, vars, sema
<1>1. ASSUME NEW c \in Offered, Acquire(t, c) PROVE PlaceInv'
  BY <1>1 DEF Acquire
<1>2. ASSUME SpuriousWake(t) PROVE PlaceInv'
  BY <1>2 DEF SpuriousWake
<1>3. ASSUME Expire(t) PROVE PlaceInv'
  BY <1>3 DEF Expire
<1>4. ASSUME WaitStep(t) PROVE PlaceInv'
  <2>1. ASSUME NEW r \in Verdicts, Left(t, r) PROVE PlaceInv'
    BY <2>1 DEF Left
  <2>2. ASSUME NEW where \in {"settle", "counted"}, Slept(t, where) PROVE PlaceInv'
    BY <2>2 DEF Slept
  <2>3. QED
    BY <1>4, <2>1, <2>2, WaitMoves
<1>5. ASSUME Settle(t) PROVE PlaceInv'
  BY <1>5, Numbers DEF Settle, AtSettle, TooMany, Return
<1>6. ASSUME Signal(t) PROVE PlaceInv'
  BY <1>6 DEF Signal, AtSettle, Fits, Return
<1>7. ASSUME Cancel(t) PROVE PlaceInv'
  BY <1>7 DEF Cancel, AtSettle, TooMany, NumWaiting, Return
<1>8. ASSUME CancelDrain(t) PROVE PlaceInv'
  BY <1>8 DEF CancelDrain, Return
<1>9. ASSUME Delete(t) PROVE PlaceInv'
  BY <1>9 DEF Delete, CallsRemain, Return
<1>10. ASSUME DeleteDrain(t) PROVE PlaceInv'
  BY <1>10 DEF DeleteDrain, CallsRemain, Return
<1>11. QED
  BY <1>1, <1>2, <1>3, <1>4, <1>5, <1>6, <1>7, <1>8, <1>9, <1>10 DEF SemaStep, Stir, Run, WaitStep
----------------------------------------------------------------------------
(* Only a step of a wait changes who is inside. *)
LEMMA InsideMoves ==
  ASSUME SemaInv, NEW t \in Threads, SemaStep(t)
  PROVE  WaitStep(t) \/ Inside' = Inside
<1> USE SemaCountsAssumption, SemaOfferedAssumption, NoCallIsCall
    DEF SemaInv, SafetyInv, TypeOK, PlaceInv, IsWait, vars, sema
<1> USE DEF Inside
<1>1. ASSUME NEW c \in Offered, Acquire(t, c) PROVE WaitStep(t) \/ Inside' = Inside
  BY <1>1 DEF Acquire
<1>2. ASSUME SpuriousWake(t) PROVE WaitStep(t) \/ Inside' = Inside
  BY <1>2 DEF SpuriousWake
<1>3. ASSUME Expire(t) PROVE WaitStep(t) \/ Inside' = Inside
  BY <1>3 DEF Expire
<1>4. ASSUME WaitStep(t) PROVE WaitStep(t) \/ Inside' = Inside
  BY <1>4
<1>5. ASSUME Settle(t) PROVE WaitStep(t) \/ Inside' = Inside
  BY <1>5 DEF Settle, AtSettle, TooMany, Return
<1>6. ASSUME Signal(t) PROVE WaitStep(t) \/ Inside' = Inside
  BY <1>6 DEF Signal, AtSettle, Fits, Return
<1>7. ASSUME Cancel(t) PROVE WaitStep(t) \/ Inside' = Inside
  BY <1>7 DEF Cancel, AtSettle, TooMany, NumWaiting, Return
<1>8. ASSUME CancelDrain(t) PROVE WaitStep(t) \/ Inside' = Inside
  BY <1>8 DEF CancelDrain, Return
<1>9. ASSUME Delete(t) PROVE WaitStep(t) \/ Inside' = Inside
  BY <1>9 DEF Delete, CallsRemain, Return
<1>10. ASSUME DeleteDrain(t) PROVE WaitStep(t) \/ Inside' = Inside
  BY <1>10 DEF DeleteDrain, CallsRemain, Return
<1>11. QED
  BY <1>1, <1>2, <1>3, <1>4, <1>5, <1>6, <1>7, <1>8, <1>9, <1>10 DEF SemaStep, Stir, Run, WaitStep
----------------------------------------------------------------------------
(* Every step keeps the counts exact. *)
LEMMA CountsStep ==
  ASSUME SemaInv, NEW t \in Threads, SemaStep(t)
  PROVE  CountsAreExact'
<1> USE SemaCountsAssumption, SemaOfferedAssumption, NoCallIsCall
    DEF SemaInv, SafetyInv, TypeOK, PlaceInv, IsWait, vars, sema
<1>1. ASSUME ~WaitStep(t) PROVE CountsAreExact'
  <2>1. Inside' = Inside
    BY <1>1, InsideMoves
  <2>2. waiting' = waiting /\ activeWaitCalls' = activeWaitCalls
    BY <1>1 DEF SemaStep, Stir, Run, WaitStep, Acquire, SpuriousWake, Expire, Settle, Signal, Cancel, CancelDrain,
                Delete, DeleteDrain
  <2>3. {u \in Threads : pc'[u] = "counted"} = {u \in Threads : pc[u] = "counted"}
    BY <1>1 DEF SemaStep, Stir, Run, WaitStep, Acquire, SpuriousWake, Expire, Settle, Signal, Cancel, CancelDrain,
                Delete, DeleteDrain, AtSettle, TooMany, Return
  <2>4. QED
    BY <2>1, <2>2, <2>3 DEF CountsAreExact
<1>2. ASSUME NEW r \in Verdicts, Left(t, r) PROVE CountsAreExact'
  <2>1. Inside' = Inside \ {t} /\ Inside \in SUBSET Threads
    BY <1>2 DEF Left, Inside
  <2>2. pc[t] = "entry" => t \notin Inside
    BY DEF Inside
  <2>3. pc[t] # "entry" => t \in Inside
    BY <1>2 DEF Left, Inside
  <2>4. waiting' = {u \in Threads : pc'[u] = "counted"}
    BY <1>2 DEF Left, CountsAreExact
  <2>5. activeWaitCalls' = Cardinality(Inside')
    <3>1. activeWaitCalls' = Active(t) - 1 /\ activeWaitCalls = Cardinality(Inside) /\ activeWaitCalls \in Nat
      BY <1>2 DEF Left, CountsAreExact
    <3>2. CASE pc[t] = "entry"
      <4>1. Inside' = Inside
        BY <2>1, <2>2, <3>2
      <4>2. QED
        BY <3>1, <3>2, <4>1 DEF Active
    <3>3. CASE pc[t] # "entry"
      <4>1. Cardinality(Inside') = Cardinality(Inside) - 1
        BY <2>1, <2>3, <3>3, SizeMoves
      <4>2. QED
        BY <3>1, <3>3, <4>1 DEF Active
    <3>4. QED
      BY <3>2, <3>3
  <2>6. QED
    BY <2>4, <2>5 DEF CountsAreExact
<1>3. ASSUME NEW where \in {"settle", "counted"}, Slept(t, where) PROVE CountsAreExact'
  <2>1. Inside' = Inside \cup {t} /\ Inside \in SUBSET Threads
    BY <1>3 DEF Slept, Inside
  <2>2. pc[t] = "entry" => t \notin Inside
    BY DEF Inside
  <2>3. pc[t] # "entry" => t \in Inside
    BY <1>3 DEF Slept, Inside
  <2>4. waiting' = {u \in Threads : pc'[u] = "counted"}
    BY <1>3 DEF Slept, CountsAreExact
  <2>5. activeWaitCalls' = Cardinality(Inside')
    BY <1>3, <2>1, <2>2, <2>3, SizeMoves DEF Slept, Active, CountsAreExact
  <2>6. QED
    BY <2>4, <2>5 DEF CountsAreExact
<1>4. QED
  BY <1>1, <1>2, <1>3, WaitMoves
----------------------------------------------------------------------------
(* Every step keeps the count in its range. *)
LEMMA RangeStep ==
  ASSUME SemaInv, NEW t \in Threads, SemaStep(t)
  PROVE  CountInRange'
<1> USE SemaCountsAssumption, SemaOfferedAssumption, NoCallIsCall
    DEF SemaInv, SafetyInv, TypeOK, PlaceInv, IsWait, vars, sema
<1> USE DEF CountInRange
<1>1. ASSUME NEW c \in Offered, Acquire(t, c) PROVE CountInRange'
  BY <1>1 DEF Acquire
<1>2. ASSUME SpuriousWake(t) PROVE CountInRange'
  BY <1>2 DEF SpuriousWake
<1>3. ASSUME Expire(t) PROVE CountInRange'
  BY <1>3 DEF Expire
<1>4. ASSUME WaitStep(t) PROVE CountInRange'
  <2>1. ASSUME NEW r \in Verdicts, Left(t, r) PROVE CountInRange'
    <3>1. overdrawn' = overdrawn /\ count' \in Int /\ (~overdrawn => count' >= 0 /\ count' <= count)
      BY <2>1, SemaCountsAssumption DEF Left, CInt
    <3>2. QED
      BY <3>1, Numbers
  <2>2. ASSUME NEW where \in {"settle", "counted"}, Slept(t, where) PROVE CountInRange'
    BY <2>2 DEF Slept
  <2>3. QED
    BY <1>4, <2>1, <2>2, WaitMoves
<1>5. ASSUME Settle(t) PROVE CountInRange'
  BY <1>5 DEF Settle, AtSettle, TooMany, Return
<1>6. ASSUME Signal(t) PROVE CountInRange'
  BY <1>6, SignalCount DEF Signal
<1>7. ASSUME Cancel(t) PROVE CountInRange'
  BY <1>7, CancelCount
<1>8. ASSUME CancelDrain(t) PROVE CountInRange'
  BY <1>8 DEF CancelDrain, Return
<1>9. ASSUME Delete(t) PROVE CountInRange'
  BY <1>9 DEF Delete, CallsRemain, Return
<1>10. ASSUME DeleteDrain(t) PROVE CountInRange'
  BY <1>10 DEF DeleteDrain, CallsRemain, Return
<1>11. QED
  BY <1>1, <1>2, <1>3, <1>4, <1>5, <1>6, <1>7, <1>8, <1>9, <1>10 DEF SemaStep, Stir, Run, WaitStep
----------------------------------------------------------------------------
(* Every step leaves the sleepers a reason. *)
LEMMA SleepersStep ==
  ASSUME SemaInv, NEW t \in Threads, SemaStep(t)
  PROVE  SleepersHaveReason'
<1> USE SemaCountsAssumption, SemaOfferedAssumption, NoCallIsCall
    DEF SemaInv, SafetyInv, TypeOK, PlaceInv, IsWait, vars, sema
<1> USE DEF SleepersHaveReason, Available
<1>1. ASSUME NEW c \in Offered, Acquire(t, c) PROVE SleepersHaveReason'
  BY <1>1 DEF Acquire
<1>2. ASSUME SpuriousWake(t) PROVE SleepersHaveReason'
  BY <1>2 DEF SpuriousWake
<1>3. ASSUME Expire(t) PROVE SleepersHaveReason'
  BY <1>3 DEF Expire
<1>4. ASSUME WaitStep(t) PROVE SleepersHaveReason'
  <2>1. ASSUME NEW r \in Verdicts, Left(t, r) PROVE SleepersHaveReason'
    <3>1. Active(t) \in Nat /\ Active(t) >= 1
      BY <2>1, ActiveIsPositive DEF Left
    <3>2. status = "Deleted" /\ asleep' # {} => activeWaitCalls' > 0
      BY <2>1, <3>1 DEF Left
    <3>3. count \in Int /\ count' \in Int /\ (~overdrawn => count' <= count) /\ overdrawn' = overdrawn
      BY <2>1, Numbers DEF Left, CInt
    <3>4. status = "Canceled" /\ asleep' # {} /\ waiting # {} => waiting' # {}
      BY <2>1 DEF Left
    <3>5. ASSUME NEW u \in asleep'
          PROVE  /\ u # t /\ u \in asleep /\ pc'[u] = pc[u] /\ call'[u] = call[u]
                 /\ u \in expired' <=> u \in expired
      BY <2>1, <3>5 DEF Left
    <3>6. ASSUME NEW u \in asleep', overdrawn \/ ~Available(u) PROVE overdrawn' \/ ~(Available(u)')
      <4>1. CASE overdrawn
        BY <3>3, <4>1
      <4>2. CASE ~overdrawn
        BY <3>3, <3>5, <3>6, <4>2, Numbers DEF Calls
      <4>3. QED
        BY <4>1, <4>2
    <3>7. ASSUME NEW u \in asleep'
          PROVE  /\ pc'[u] = "settle"  => status' = "Canceled" /\ (IsWait(u)' => overdrawn' \/ ~(Available(u)'))
                 /\ pc'[u] = "counted" => status' = "Set" /\ (overdrawn' \/ ~(Available(u)')) /\ u \notin expired'
      <4>1. u \in asleep /\ pc'[u] = pc[u] /\ call'[u] = call[u] /\ (u \in expired' <=> u \in expired) /\ status' = status
        BY <2>1, <3>5, <3>7 DEF Left
      <4>2. QED
        BY <3>6, <3>7, <4>1 DEF Available
    <3>8. ASSUME NEW u \in asleep'
          PROVE  /\ pc'[u] \in {"settle", "counted", "cancel", "delete"}
                 /\ pc'[u] = "cancel"  => status' = "Canceled" /\ waiting' # {}
                 /\ pc'[u] = "delete"  => status' = "Deleted" /\ activeWaitCalls' > 0
      BY <2>1, <3>2, <3>4, <3>5, <3>8 DEF Left
    <3>9. QED
      BY ONLY <3>7, <3>8 DEF SleepersHaveReason, IsWait, Available
  <2>2. ASSUME NEW where \in {"settle", "counted"}, Slept(t, where) PROVE SleepersHaveReason'
    <3>1. count \in Int /\ (overdrawn' <=> overdrawn) /\ status' = status /\ waiting \subseteq waiting'
      BY <2>2, Numbers DEF Slept
    <3>2. ASSUME NEW u \in asleep', u # t
          PROVE  /\ u \in asleep /\ pc'[u] = pc[u] /\ (Available(u)' <=> Available(u)) /\ (u \in expired' <=> u \in expired)
                 /\ pc[u] # "delete"
      BY <2>2, <3>2 DEF Slept
    <3>3. pc'[t] = where /\ ~(Available(t)') /\ t \notin expired'
      <4>1. count' = count /\ call' = call /\ count < call[t].n /\ pc'[t] = where /\ t \notin expired'
        BY <2>2 DEF Slept
      <4>2. QED
        BY <4>1, Numbers
    <3>4. \/ where = "settle" /\ status' = "Canceled"
          \/ where = "counted" /\ status' = "Set"
      <4>1. where = "settle" => status = "Canceled"
        BY <2>2 DEF Slept
      <4>2. where = "counted" => status = "Set"
        BY <2>2 DEF Slept
      <4>3. QED
        BY <3>1, <4>1, <4>2
    <3>5. waiting # {} => waiting' # {}
      BY <3>1
    <3>6. ASSUME NEW u \in asleep'
          PROVE  /\ pc'[u] \in {"settle", "counted", "cancel"}
                 /\ pc'[u] = "settle"  => status' = "Canceled" /\ (IsWait(u)' => overdrawn' \/ ~(Available(u)'))
                 /\ pc'[u] = "counted" => status' = "Set" /\ (overdrawn' \/ ~(Available(u)')) /\ u \notin expired'
                 /\ pc'[u] = "cancel"  => status' = "Canceled" /\ waiting' # {}
      <4>1. CASE u = t
        BY <3>3, <3>4, <4>1
      <4>2. CASE u # t
        <5>1. call'[u] = call[u]
          BY <2>2 DEF Slept
        <5>2. QED
          BY <3>1, <3>2, <3>5, <3>6, <4>2, <5>1
      <4>3. QED
        BY <4>1, <4>2
    <3>7. QED
      BY <3>6
  <2>3. QED
    BY <1>4, <2>1, <2>2, WaitMoves
<1>5. ASSUME Settle(t) PROVE SleepersHaveReason'
  BY <1>5 DEF Settle, AtSettle, TooMany, Return
<1>6. ASSUME Signal(t) PROVE SleepersHaveReason'
  BY <1>6 DEF Signal, AtSettle, Fits, Return
<1>7. ASSUME Cancel(t) PROVE SleepersHaveReason'
  BY <1>7 DEF Cancel, AtSettle, TooMany, NumWaiting, Return
<1>8. ASSUME CancelDrain(t) PROVE SleepersHaveReason'
  BY <1>8 DEF CancelDrain, Return
<1>9. ASSUME Delete(t) PROVE SleepersHaveReason'
  BY <1>9 DEF Delete, CallsRemain, Return
<1>10. ASSUME DeleteDrain(t) PROVE SleepersHaveReason'
  BY <1>10 DEF DeleteDrain, CallsRemain, Return
<1>11. QED
  BY <1>1, <1>2, <1>3, <1>4, <1>5, <1>6, <1>7, <1>8, <1>9, <1>10 DEF SemaStep, Stir, Run, WaitStep
----------------------------------------------------------------------------
(* A deletion that has returned leaves nobody inside. *)
LEMMA DeletedStep ==
  ASSUME SemaInv, NEW t \in Threads, SemaStep(t)
  PROVE  DeletedIsEmpty'
<1> USE SemaCountsAssumption, SemaOfferedAssumption, NoCallIsCall
    DEF SemaInv, SafetyInv, TypeOK, PlaceInv, IsWait, vars, sema
<1>a. activeWaitCalls = 0 => Inside = {}
  BY SizeMoves DEF CountsAreExact, Inside
<1>b. WaitStep(t) \/ Inside' = Inside
  BY InsideMoves
<1> USE DEF DeletedIsEmpty
<1>c. ASSUME Inside' = Inside, status' = status, \A u \in Threads : pc[u] = "delete" => pc'[u] = "delete"
      PROVE  DeletedIsEmpty'
  BY <1>c
<1>1. ASSUME NEW r \in Verdicts, Left(t, r) PROVE DeletedIsEmpty'
  BY <1>1 DEF Left, Inside
<1>2. ASSUME NEW where \in {"settle", "counted"}, Slept(t, where) PROVE DeletedIsEmpty'
  BY <1>2 DEF Slept
<1>3. ASSUME ~WaitStep(t), ~Cancel(t), ~CancelDrain(t), ~Delete(t), ~DeleteDrain(t) PROVE DeletedIsEmpty'
  <2>1. status' = status /\ \A u \in Threads : pc[u] = "delete" => pc'[u] = "delete"
    BY <1>3 DEF SemaStep, Stir, Run, WaitStep, Acquire, SpuriousWake, Expire, Settle, Signal, AtSettle, TooMany, Return
  <2>2. QED
    BY <1>3, <1>b, <1>c, <2>1
<1>4. ASSUME Cancel(t) PROVE DeletedIsEmpty'
  <2>1. CASE TooMany(t) /\ status' = status
    BY <1>4, <1>b, <1>c, <2>1 DEF Cancel, TooMany, AtSettle, Return, WaitStep, WaitEnter, WaitSettled, WaitCounted
  <2>2. CASE status' # "Deleted"
    BY <2>2
  <2>3. QED
    BY <1>4, <2>1, <2>2 DEF Cancel, AtSettle
<1>5. ASSUME CancelDrain(t) PROVE DeletedIsEmpty'
  BY <1>5, <1>b, <1>c DEF CancelDrain, Return, WaitStep, WaitEnter, WaitSettled, WaitCounted
<1>6. ASSUME Delete(t) PROVE DeletedIsEmpty'
  BY <1>6, <1>a, <1>b DEF Delete, CallsRemain, WaitStep, WaitEnter, WaitSettled, WaitCounted, CountsAreExact
<1>7. ASSUME DeleteDrain(t) PROVE DeletedIsEmpty'
  BY <1>7, <1>a, <1>b DEF DeleteDrain, CallsRemain, Return, WaitStep, WaitEnter, WaitSettled, WaitCounted
<1>8. QED
  BY <1>1, <1>2, <1>3, <1>4, <1>5, <1>6, <1>7, WaitMoves
----------------------------------------------------------------------------
(* Every step keeps the report of a cancellation exact. *)
LEMMA CancelStep ==
  ASSUME SemaInv, NEW t \in Threads, SemaStep(t)
  PROVE  CancelReportsExactly'
<1> USE SemaCountsAssumption, SemaOfferedAssumption, NoCallIsCall
    DEF SemaInv, SafetyInv, TypeOK, PlaceInv, IsWait, vars, sema
<1>a. waiting \in SUBSET Threads /\ Cardinality(waiting) \in Nat /\ (Cardinality(waiting) = 0 <=> waiting = {})
  BY SizeMoves
<1> USE DEF CancelReportsExactly
<1>1. ASSUME NEW c \in Offered, Acquire(t, c) PROVE CancelReportsExactly'
  <2>1. registered' \in BOOLEAN
    BY <1>1 DEF Acquire
  <2>2. pc' \in [Threads -> {"idle", "entry", "settle", "counted", "cancel", "delete"}] /\ call' \in [Threads -> Calls]
    BY <1>1 DEF Acquire
  <2>3. result' \in [Threads -> Results] /\ expired' \in SUBSET Threads
    BY <1>1 DEF Acquire, Results
  <2>4. QED
    BY <1>1, <2>1, <2>2, <2>3 DEF Acquire
<1>2. ASSUME SpuriousWake(t) PROVE CancelReportsExactly'
  BY <1>a, <1>2 DEF SpuriousWake
<1>3. ASSUME Expire(t) PROVE CancelReportsExactly'
  BY <1>a, <1>3 DEF Expire
<1>4. ASSUME WaitStep(t) PROVE CancelReportsExactly'
  <2>1. ASSUME NEW r \in Verdicts, Left(t, r) PROVE CancelReportsExactly'
    <3>1. waiting' \in SUBSET Threads /\ Cardinality(waiting') \in Nat
      BY <2>1, <1>a, SizeMoves DEF Left
    <3>2. CASE t \in waiting
      <4>1. Cardinality(waiting') = Cardinality(waiting) - 1
        BY <2>1, <1>a, <3>2, SizeMoves DEF Left
      <4>2. pc[t] = "counted"
        BY <3>2 DEF CountsAreExact
      <4>3. QED
        BY <2>1, <1>a, <3>1, <4>1, <4>2 DEF Left
    <3>3. CASE t \notin waiting
      <4>1. waiting' = waiting
        BY <2>1, <3>3 DEF Left
      <4>2. pc[t] # "counted"
        BY <3>3 DEF CountsAreExact
      <4>3. QED
        BY <2>1, <1>a, <4>1, <4>2 DEF Left
    <3>4. QED
      BY <3>2, <3>3
  <2>2. ASSUME NEW where \in {"settle", "counted"}, Slept(t, where) PROVE CancelReportsExactly'
    BY <2>2, <1>a DEF Slept
  <2>3. QED
    BY <1>4, <2>1, <2>2, WaitMoves
<1>5. ASSUME Settle(t) PROVE CancelReportsExactly'
  BY <1>a, <1>5 DEF Settle, AtSettle, TooMany, Return
<1>6. ASSUME Signal(t) PROVE CancelReportsExactly'
  BY <1>a, <1>6 DEF Signal, AtSettle, Fits, Return
<1>7. ASSUME Cancel(t) PROVE CancelReportsExactly'
  BY <1>a, <1>7 DEF Cancel, AtSettle, TooMany, NumWaiting, Return
<1>8. ASSUME CancelDrain(t) PROVE CancelReportsExactly'
  BY <1>a, <1>8 DEF CancelDrain, Return
<1>9. ASSUME Delete(t) PROVE CancelReportsExactly'
  BY <1>a, <1>9 DEF Delete, CallsRemain, Return
<1>10. ASSUME DeleteDrain(t) PROVE CancelReportsExactly'
  BY <1>a, <1>10 DEF DeleteDrain, CallsRemain, Return
<1>11. QED
  BY <1>1, <1>2, <1>3, <1>4, <1>5, <1>6, <1>7, <1>8, <1>9, <1>10 DEF SemaStep, Stir, Run, WaitStep

----------------------------------------------------------------------------
LEMMA Initially == Init => SemaInv
<1> SUFFICES ASSUME Init PROVE SemaInv
  OBVIOUS
<1>1. Inside = {} /\ Cardinality({}) = 0
  BY FS_EmptySet DEF Init, Inside
<1>2. QED
  <2>1. count \in CInt /\ count \in 0 .. MaxCount
    BY SemaCountsAssumption DEF Init, CInt
  <2>2. TypeOK
    BY <2>1, NoCallIsCall DEF Init, TypeOK, Results
  <2>3. QED
    BY <1>1, <2>1, <2>2, NoCallIsCall
    DEF Init, SemaInv, SafetyInv, CountsAreExact, CountInRange, SleepersHaveReason, DeletedIsEmpty,
        CancelReportsExactly, PlaceInv

LEMMA StutterKeeps == SemaInv /\ UNCHANGED vars => SemaInv'
BY DEF vars, SemaInv, SafetyInv, TypeOK, CountsAreExact, CountInRange, SleepersHaveReason, DeletedIsEmpty,
       CancelReportsExactly, PlaceInv, Inside, IsWait, Available

(* SemaInv is inductive. *)
LEMMA Invariance == Spec => []SemaInv
<1>1. SemaInv /\ [Next]_vars => SemaInv'
  <2> SUFFICES ASSUME SemaInv, [Next]_vars PROVE SemaInv'
    OBVIOUS
  <2>1. CASE UNCHANGED vars
    BY <2>1, StutterKeeps
  <2>2. ASSUME NEW t \in Threads, SemaStep(t) PROVE SemaInv'
    <3>1. TypeOK' /\ PlaceInv' /\ CountsAreExact'
      BY <2>2, TypeStep, PlaceStep, CountsStep
    <3>2. CountInRange' /\ SleepersHaveReason' /\ DeletedIsEmpty' /\ CancelReportsExactly'
      BY <2>2, RangeStep, SleepersStep, DeletedStep, CancelStep
    <3>3. QED
      BY <3>1, <3>2 DEF SemaInv, SafetyInv
  <2>3. QED
    BY <2>1, <2>2 DEF Next, SemaStep
<1>2. QED
  BY <1>1, Initially, PTL DEF Spec

(* What holds of the object whenever nobody is inside its mutex: exact     *)
(* numbers of waits, a reason for every sleeper, and nobody inside a       *)
(* semaphore whose Delete has returned (Semaphore.cpp).  The range of the  *)
(* count is part of it on the condition CountInRange names: no signal      *)
(* since the last Cancel had a negative count or one over IntMax - MaxCount*)
THEOREM SafetyCorrect == Spec => []SafetyInv
<1>1. SemaInv => SafetyInv
  BY DEF SemaInv
<1>2. QED
  BY <1>1, Invariance, PTL

(* A Cancel that succeeds has reported exactly the waits that returned     *)
(* ECANCELED for it, for any number of waiters and any interleaving.       *)
THEOREM CancelCorrect == Spec => []CancelReportsExactly
<1>1. SemaInv => CancelReportsExactly
  BY DEF SemaInv
<1>2. QED
  BY <1>1, Invariance, PTL
==============================================================================
