-------------------------- MODULE EventFlagProofs --------------------------
(***************************************************************************)
(* Proofs about EventFlag for any finite set of threads, any bits and any  *)
(* calls.  The inductive invariant is built in three layers, each proved   *)
(* from the ones below: the types and counts, the cancellation protocol,   *)
(* and the reasons to sleep.                                               *)
(***************************************************************************)
EXTENDS EventFlag, FiniteSetTheorems, TLAPS

(* A thread past the entry is in the loop that belongs to its call. *)
PcMatchesCall ==
  \A t \in Threads : /\ pc[t] = "counted" => IsWait(t)
                     /\ pc[t] = "cancel" => call[t].op = "Cancel"
                     /\ pc[t] = "delete" => call[t].op = "Delete"

CountInv == TypeOK /\ PcMatchesCall /\ CountsAreExact

ObjectResults == {"Ok", "AlreadyWaiting", "TimedOut", "Canceled", "Deleted"}

----------------------------------------------------------------------------
(* Counting: what adding or removing a thread does to a count of threads. *)
LEMMA CountOfThreads ==
  ASSUME NEW S \in SUBSET Threads, NEW t
  PROVE  /\ IsFiniteSet(S) /\ Cardinality(S) \in Nat
         /\ Cardinality(S \cup {t}) = IF t \in S THEN Cardinality(S) ELSE Cardinality(S) + 1
         /\ Cardinality(S \ {t}) = IF t \in S THEN Cardinality(S) - 1 ELSE Cardinality(S)
         /\ Cardinality(S) = 0 <=> S = {}
         /\ t \in S => Cardinality(S) > 0
<1>1. IsFiniteSet(S)
  BY ThreadsAssumption, FS_Subset
<1>2. Cardinality(S) \in Nat /\ (Cardinality(S) = 0 <=> S = {})
  BY <1>1, FS_CardinalityType, FS_EmptySet
<1>3. t \in S => Cardinality(S) > 0
  BY <1>2
<1>4. QED
  BY <1>1, <1>2, <1>3, FS_AddElement, FS_RemoveElement

(* What a step that moves one thread to p, with call c, does to the sets   *)
(* of counted waiters and of calls inside Wait.                            *)
LEMMA OneThreadMoves ==
  ASSUME CountInv, NEW t \in Threads, NEW p \in PCs, NEW c \in Calls,
         pc' = [pc EXCEPT ![t] = p], call' = [call EXCEPT ![t] = c]
  PROVE  /\ pc' \in [Threads -> PCs] /\ call' \in [Threads -> Calls]
         /\ Counted' = IF p = "counted" THEN Counted \cup {t} ELSE Counted \ {t}
         /\ Inside' = IF c.op = "Wait" /\ p \in {"settle", "counted"}
                        THEN Inside \cup {t} ELSE Inside \ {t}
BY DEF CountInv, TypeOK, Counted, Inside, IsWait

LEMMA NoCallIsCall == NoCall \in Calls
BY DEF NoCall, Calls, Ops, Timeouts

LEMMA ErrorCodeIsResult ==
  ASSUME NEW t \in Threads, NEW r \in ObjectResults
  PROVE  ErrorCode(t, r) \in Results \ {"None"}
BY DEF ErrorCode, ObjectResults, Results

LEMMA ReturnEffect ==
  ASSUME CountInv, NEW t \in Threads, NEW code \in Results, Return(t, code)
  PROVE  /\ pc' \in [Threads -> PCs] /\ call' \in [Threads -> Calls]
         /\ result' \in [Threads -> Results]
         /\ PcMatchesCall'
         /\ Counted' = Counted \ {t} /\ Inside' = Inside \ {t}
<1>1. "idle" \in PCs
  BY DEF PCs
<1>2. QED
  BY <1>1, NoCallIsCall, OneThreadMoves
  DEF Return, CountInv, TypeOK, PcMatchesCall, IsWait

LEMMA LeaveEffect ==
  ASSUME CountInv, NEW t \in Threads, NEW r \in ObjectResults, NEW active \in Nat \ {0},
         NEW woken, LeaveWait(t, r, active, woken)
  PROVE  /\ pc' \in [Threads -> PCs] /\ call' \in [Threads -> Calls]
         /\ result' \in [Threads -> Results]
         /\ asleep' \in SUBSET Threads /\ expired' \in SUBSET Threads /\ told' \in Nat
         /\ PcMatchesCall'
         /\ activeWaitCalls' = active - 1
         /\ Counted' = Counted \ {t} /\ Inside' = Inside \ {t}
<1>1. Return(t, ErrorCode(t, r)) /\ ErrorCode(t, r) \in Results
  BY ErrorCodeIsResult DEF LeaveWait
<1>2. QED
  BY <1>1, ReturnEffect DEF LeaveWait, CountInv, TypeOK, OneLess

LEMMA SleepEffect ==
  ASSUME CountInv, NEW t \in Threads, NEW where \in {"settle", "counted"}, NEW active \in Nat,
         IsWait(t), SleepInWait(t, where, active)
  PROVE  /\ pc' \in [Threads -> PCs] /\ call' \in [Threads -> Calls]
         /\ result' \in [Threads -> Results]
         /\ asleep' \in SUBSET Threads /\ expired' \in SUBSET Threads /\ told' \in Nat
         /\ PcMatchesCall'
         /\ activeWaitCalls' = active
         /\ Counted' = IF where = "counted" THEN Counted \cup {t} ELSE Counted \ {t}
         /\ Inside' = Inside \cup {t}
<1>1. /\ where \in PCs /\ call[t] \in Calls
      /\ pc' = [pc EXCEPT ![t] = where] /\ call' = [call EXCEPT ![t] = call[t]]
  BY DEF SleepInWait, CountInv, TypeOK, PCs
<1>2. /\ pc' \in [Threads -> PCs] /\ call' \in [Threads -> Calls]
      /\ Counted' = IF where = "counted" THEN Counted \cup {t} ELSE Counted \ {t}
      /\ Inside' = Inside \cup {t}
  BY <1>1, OneThreadMoves DEF IsWait
<1>3. PcMatchesCall'
  BY <1>1 DEF SleepInWait, CountInv, TypeOK, PcMatchesCall, IsWait
<1>4. QED
  BY <1>2, <1>3 DEF SleepInWait, CountInv, TypeOK

LEMMA TakenIsPattern ==
  ASSUME CountInv, NEW t \in Threads
  PROVE  Taken(t) \in SUBSET Bits
<1>1. bits \in SUBSET Bits /\ call[t].clear \in {"None", "All", "Bits"}
  BY DEF CountInv, TypeOK, Calls
<1>2. CASE call[t].clear = "None"
  BY <1>1, <1>2 DEF Taken
<1>3. CASE call[t].clear = "All"
  BY <1>1, <1>3 DEF Taken
<1>4. CASE call[t].clear = "Bits"
  BY <1>1, <1>4 DEF Taken
<1>5. QED
  BY <1>1, <1>2, <1>3, <1>4

(* Types and counts survive a turn of the second loop by a thread that is  *)
(* one of the `active` calls inside and is not one of the `waiting`.       *)
LEMMA CountedLoopCounts ==
  ASSUME CountInv, NEW t \in Threads, IsWait(t), NEW active \in Nat \ {0}, NEW waiting \in Nat,
         active = Cardinality(Inside \cup {t}), waiting = Cardinality(Counted \ {t}),
         CountedLoop(t, active, waiting),
         UNCHANGED <<status, single, registered, reported>>
  PROVE  CountInv'
<1>1. Inside \cup {t} \in SUBSET Threads /\ Counted \ {t} \in SUBSET Threads
  BY DEF Inside, Counted
<1>2. Cardinality((Inside \cup {t}) \ {t}) = active - 1
  BY <1>1, CountOfThreads
<1>3. Cardinality((Counted \ {t}) \cup {t}) = waiting + 1
  BY <1>1, CountOfThreads
<1>4. (Inside \cup {t}) \ {t} = Inside \ {t} /\ (Counted \ {t}) \cup {t} = Counted \cup {t}
  OBVIOUS
<1>5. CASE \E r \in {"Ok", "TimedOut"} : /\ LeaveWait(t, r, active, {})
                                         /\ waitingThreads' = waiting
                                         /\ bits' \in SUBSET Bits
  <2>1. PICK r \in {"Ok", "TimedOut"} : LeaveWait(t, r, active, {})
    BY <1>5
  <2>2. r \in ObjectResults
    BY DEF ObjectResults
  <2>3. /\ pc' \in [Threads -> PCs] /\ call' \in [Threads -> Calls]
        /\ result' \in [Threads -> Results]
        /\ asleep' \in SUBSET Threads /\ expired' \in SUBSET Threads /\ told' \in Nat
        /\ PcMatchesCall'
        /\ activeWaitCalls' = active - 1
        /\ Counted' = Counted \ {t} /\ Inside' = Inside \ {t}
    BY <2>1, <2>2, LeaveEffect
  <2>4. CountsAreExact'
    BY <2>3, <1>2, <1>4, <1>5 DEF CountsAreExact
  <2>5. QED
    BY <2>3, <2>4, <1>5 DEF CountInv, TypeOK
<1>6. CASE SleepInWait(t, "counted", active) /\ waitingThreads' = waiting + 1 /\ UNCHANGED bits
  <2>1. /\ pc' \in [Threads -> PCs] /\ call' \in [Threads -> Calls]
        /\ result' \in [Threads -> Results]
        /\ asleep' \in SUBSET Threads /\ expired' \in SUBSET Threads /\ told' \in Nat
        /\ PcMatchesCall'
        /\ activeWaitCalls' = active
        /\ Counted' = Counted \cup {t} /\ Inside' = Inside \cup {t}
    BY <1>6, SleepEffect
  <2>2. CountsAreExact'
    BY <2>1, <1>3, <1>4, <1>6 DEF CountsAreExact
  <2>3. QED
    BY <2>1, <2>2, <1>6 DEF CountInv, TypeOK
<1>7. QED
  BY <1>5, <1>6, TakenIsPattern DEF CountedLoop, CountInv, TypeOK

(* The same for a turn of the first loop by a thread that is not counted. *)
LEMMA SettleLoopCounts ==
  ASSUME CountInv, NEW t \in Threads, IsWait(t), pc[t] # "counted", NEW active \in Nat \ {0},
         active = Cardinality(Inside \cup {t}),
         SettleLoop(t, active), UNCHANGED <<status, single, registered, reported>>
  PROVE  CountInv'
<1>1. Inside \cup {t} \in SUBSET Threads /\ Counted \in SUBSET Threads /\ Counted \ {t} = Counted
  BY DEF Inside, Counted
<1>2. Cardinality((Inside \cup {t}) \ {t}) = active - 1
  BY <1>1, CountOfThreads
<1>3. (Inside \cup {t}) \ {t} = Inside \ {t}
  OBVIOUS
<1>4. CASE \E r \in {"AlreadyWaiting", "TimedOut"} : /\ LeaveWait(t, r, active, {})
                                                     /\ UNCHANGED <<bits, waitingThreads>>
  <2>1. PICK r \in {"AlreadyWaiting", "TimedOut"} : LeaveWait(t, r, active, {})
    BY <1>4
  <2>2. r \in ObjectResults
    BY DEF ObjectResults
  <2>3. /\ pc' \in [Threads -> PCs] /\ call' \in [Threads -> Calls]
        /\ result' \in [Threads -> Results]
        /\ asleep' \in SUBSET Threads /\ expired' \in SUBSET Threads /\ told' \in Nat
        /\ PcMatchesCall'
        /\ activeWaitCalls' = active - 1
        /\ Counted' = Counted \ {t} /\ Inside' = Inside \ {t}
    BY <2>1, <2>2, LeaveEffect
  <2>4. CountsAreExact'
    BY <2>3, <1>1, <1>2, <1>3, <1>4 DEF CountsAreExact, CountInv
  <2>5. QED
    BY <2>3, <2>4, <1>4 DEF CountInv, TypeOK
<1>5. CASE SleepInWait(t, "settle", active) /\ UNCHANGED <<bits, waitingThreads>>
  <2>1. /\ pc' \in [Threads -> PCs] /\ call' \in [Threads -> Calls]
        /\ result' \in [Threads -> Results]
        /\ asleep' \in SUBSET Threads /\ expired' \in SUBSET Threads /\ told' \in Nat
        /\ PcMatchesCall'
        /\ activeWaitCalls' = active
        /\ Counted' = Counted \ {t} /\ Inside' = Inside \cup {t}
    BY <1>5, SleepEffect
  <2>2. CountsAreExact'
    BY <2>1, <1>1, <1>5 DEF CountsAreExact, CountInv
  <2>3. QED
    BY <2>1, <2>2, <1>5 DEF CountInv, TypeOK
<1>6. CASE CountedLoop(t, active, waitingThreads)
  <2>1. waitingThreads \in Nat /\ waitingThreads = Cardinality(Counted \ {t})
    BY <1>1 DEF CountInv, TypeOK, CountsAreExact
  <2>2. QED
    BY <1>6, <2>1, CountedLoopCounts
<1>7. QED
  BY <1>4, <1>5, <1>6 DEF SettleLoop

----------------------------------------------------------------------------
(* Every step keeps the types and the counts. *)
LEMMA CountInvStep == CountInv /\ [Next]_vars => CountInv'
<1> SUFFICES ASSUME CountInv, [Next]_vars PROVE CountInv'
  OBVIOUS
<1>0. /\ Inside \in SUBSET Threads /\ Counted \in SUBSET Threads
      /\ waitingThreads \in Nat /\ activeWaitCalls \in Nat
      /\ waitingThreads = Cardinality(Counted) /\ activeWaitCalls = Cardinality(Inside)
  BY DEF Inside, Counted, CountInv, TypeOK, CountsAreExact
<1>a. ASSUME NEW t \in Inside
      PROVE  Cardinality(Inside) > 0 /\ Cardinality(Inside \cup {t}) = Cardinality(Inside)
             /\ Cardinality(Inside \ {t}) = Cardinality(Inside) - 1
  BY <1>0, CountOfThreads
<1>b. ASSUME NEW t \in Counted
      PROVE  Cardinality(Counted) > 0
             /\ Cardinality(Counted \ {t}) = Cardinality(Counted) - 1
  BY <1>0, CountOfThreads
<1>1. CASE UNCHANGED vars
  BY <1>1 DEF vars, CountInv, TypeOK, PcMatchesCall, CountsAreExact, Counted, Inside, IsWait
<1>2. ASSUME NEW t \in Threads, NEW c \in Offered, Acquire(t, c) PROVE CountInv'
  <2>1. c \in Calls /\ "entry" \in PCs
    BY OfferedAssumption DEF PCs
  <2>2. CASE registered /\ ~(c.op = "Wait" /\ c.pattern = {})
    <3>1. pc' = [pc EXCEPT ![t] = "entry"] /\ call' = [call EXCEPT ![t] = c]
      BY <1>2, <2>2 DEF Acquire
    <3>2. Counted' = Counted /\ Inside' = Inside
      BY <1>2, <2>1, <3>1, OneThreadMoves DEF Acquire, Counted, Inside
    <3>3. QED
      BY <1>2, <2>1, <2>2, <3>1, <3>2
      DEF Acquire, flag, CountInv, TypeOK, PcMatchesCall, CountsAreExact, IsWait, Results, Calls
  <2>3. CASE ~(registered /\ ~(c.op = "Wait" /\ c.pattern = {}))
    BY <1>2, <2>1, <2>3
    DEF Acquire, flag, CountInv, TypeOK, PcMatchesCall, CountsAreExact, Counted, Inside, IsWait,
        Results
  <2>4. QED
    BY <2>2, <2>3
<1>3. ASSUME NEW t \in Threads, WaitEnter(t) PROVE CountInv'
  <2>1. /\ t \notin Inside /\ t \notin Counted /\ IsWait(t) /\ pc[t] # "counted"
        /\ UNCHANGED <<status, single, registered, reported>>
    BY <1>3 DEF WaitEnter, Inside, Counted
  <2>2. activeWaitCalls + 1 \in Nat \ {0} /\ activeWaitCalls + 1 = Cardinality(Inside \cup {t})
    BY <1>0, <2>1, CountOfThreads
  <2>3. CASE LeaveWait(t, "Deleted", activeWaitCalls + 1, {}) /\ UNCHANGED <<bits, waitingThreads>>
    <3>1. "Deleted" \in ObjectResults
      BY DEF ObjectResults
    <3> DEFINE active == activeWaitCalls + 1
    <3> active \in Nat \ {0} /\ LeaveWait(t, "Deleted", active, {})
      BY <2>2, <2>3
    <3> HIDE DEF active
    <3>2. /\ pc' \in [Threads -> PCs] /\ call' \in [Threads -> Calls]
          /\ result' \in [Threads -> Results]
          /\ asleep' \in SUBSET Threads /\ expired' \in SUBSET Threads /\ told' \in Nat
          /\ PcMatchesCall'
          /\ activeWaitCalls' = active - 1
          /\ Counted' = Counted \ {t} /\ Inside' = Inside \ {t}
      BY <3>1, LeaveEffect
    <3>3. Counted' = Counted /\ Inside' = Inside /\ activeWaitCalls' = activeWaitCalls
      BY <1>0, <2>1, <3>2 DEF active
    <3>4. CountsAreExact'
      BY <1>0, <2>3, <3>3 DEF CountsAreExact
    <3>5. QED
      BY <2>1, <2>3, <3>2, <3>4 DEF CountInv, TypeOK
  <2>4. CASE SettleLoop(t, activeWaitCalls + 1)
    BY <2>1, <2>2, <2>4, SettleLoopCounts
  <2>5. QED
    BY <1>3, <2>3, <2>4 DEF WaitEnter
<1>4. ASSUME NEW t \in Threads, WaitSettled(t) PROVE CountInv'
  <2>1. /\ t \in Inside /\ t \notin Counted /\ IsWait(t) /\ pc[t] # "counted"
        /\ UNCHANGED <<status, single, registered, reported>>
    BY <1>4 DEF WaitSettled, Inside, Counted
  <2>2. activeWaitCalls \in Nat \ {0} /\ activeWaitCalls = Cardinality(Inside \cup {t})
    <3>1. Cardinality(Inside) > 0 /\ Cardinality(Inside \cup {t}) = Cardinality(Inside)
      BY <1>a, <2>1
    <3>2. activeWaitCalls = Cardinality(Inside \cup {t})
      BY <1>0, <3>1
    <3>3. activeWaitCalls \in Nat \ {0}
      BY <1>0, <3>1
    <3>4. QED
      BY <3>2, <3>3
  <2>3. CASE LeaveWait(t, "Deleted", activeWaitCalls, {}) /\ UNCHANGED <<bits, waitingThreads>>
    <3>1. "Deleted" \in ObjectResults
      BY DEF ObjectResults
    <3>2. /\ pc' \in [Threads -> PCs] /\ call' \in [Threads -> Calls]
          /\ result' \in [Threads -> Results]
          /\ asleep' \in SUBSET Threads /\ expired' \in SUBSET Threads /\ told' \in Nat
          /\ PcMatchesCall'
          /\ activeWaitCalls' = activeWaitCalls - 1
          /\ Counted' = Counted \ {t} /\ Inside' = Inside \ {t}
      BY <2>2, <2>3, <3>1, LeaveEffect
    <3>3. CountsAreExact'
      BY <1>0, <1>a, <2>1, <2>3, <3>2 DEF CountsAreExact
    <3>4. QED
      BY <2>1, <2>2, <2>3, <3>2, <3>3 DEF CountInv, TypeOK
  <2>4. CASE SettleLoop(t, activeWaitCalls)
    BY <2>1, <2>2, <2>4, SettleLoopCounts
  <2>5. QED
    BY <1>4, <2>3, <2>4 DEF WaitSettled
<1>5. ASSUME NEW t \in Threads, WaitCounted(t) PROVE CountInv'
  <2>1. /\ t \in Inside /\ t \in Counted /\ IsWait(t)
        /\ UNCHANGED <<status, single, registered, reported>>
    BY <1>5 DEF WaitCounted, Inside, Counted, CountInv, PcMatchesCall
  <2>2. /\ activeWaitCalls \in Nat \ {0} /\ activeWaitCalls = Cardinality(Inside \cup {t})
        /\ waitingThreads - 1 \in Nat /\ waitingThreads - 1 = Cardinality(Counted \ {t})
    <3>1. /\ Cardinality(Inside) > 0 /\ Cardinality(Inside \cup {t}) = Cardinality(Inside)
          /\ Cardinality(Counted) > 0 /\ Cardinality(Counted \ {t}) = Cardinality(Counted) - 1
      BY <1>a, <1>b, <2>1
    <3>2. /\ activeWaitCalls = Cardinality(Inside \cup {t})
          /\ waitingThreads - 1 = Cardinality(Counted \ {t})
      BY <1>0, <3>1
    <3>3. activeWaitCalls \in Nat \ {0} /\ waitingThreads - 1 \in Nat
      BY <1>0, <3>1
    <3>4. QED
      BY <3>2, <3>3
  <2>3. CASE /\ LeaveWait(t, status, activeWaitCalls, LastOut) /\ status \in {"Canceled", "Deleted"}
             /\ waitingThreads' = waitingThreads - 1 /\ UNCHANGED bits
    <3>1. status \in ObjectResults
      BY <2>3 DEF ObjectResults
    <3>2. /\ pc' \in [Threads -> PCs] /\ call' \in [Threads -> Calls]
          /\ result' \in [Threads -> Results]
          /\ asleep' \in SUBSET Threads /\ expired' \in SUBSET Threads /\ told' \in Nat
          /\ PcMatchesCall'
          /\ activeWaitCalls' = activeWaitCalls - 1
          /\ Counted' = Counted \ {t} /\ Inside' = Inside \ {t}
      BY <2>2, <2>3, <3>1, LeaveEffect
    <3>3. CountsAreExact'
      BY <1>0, <1>a, <1>b, <2>1, <2>2, <2>3, <3>2 DEF CountsAreExact
    <3>4. QED
      BY <2>1, <2>2, <2>3, <3>2, <3>3 DEF CountInv, TypeOK
  <2>4. CASE CountedLoop(t, activeWaitCalls, waitingThreads - 1)
    BY <2>1, <2>2, <2>4, CountedLoopCounts
  <2>5. QED
    BY <1>5, <2>3, <2>4 DEF WaitCounted
<1>6. ASSUME NEW t \in Threads, NEW p \in {"settle", "cancel", "delete"},
             p = "cancel" => call[t].op = "Cancel", p = "delete" => call[t].op = "Delete",
             ~IsWait(t), pc' = [pc EXCEPT ![t] = p], UNCHANGED call
      PROVE  /\ pc' \in [Threads -> PCs] /\ PcMatchesCall'
             /\ Counted' = Counted /\ Inside' = Inside
  <2>1. p \in PCs /\ call[t] \in Calls /\ call' = [call EXCEPT ![t] = call[t]]
    BY <1>6 DEF PCs, CountInv, TypeOK
  <2>2. t \notin Counted /\ t \notin Inside
    BY <1>6 DEF Counted, Inside, CountInv, PcMatchesCall
  <2>3. /\ pc' \in [Threads -> PCs]
        /\ Counted' = IF p = "counted" THEN Counted \cup {t} ELSE Counted \ {t}
        /\ Inside' = IF call[t].op = "Wait" /\ p \in {"settle", "counted"}
                       THEN Inside \cup {t} ELSE Inside \ {t}
    BY <1>6, <2>1, OneThreadMoves
  <2>4. Counted' = Counted /\ Inside' = Inside
    BY <1>6, <2>2, <2>3 DEF IsWait
  <2>5. QED
    BY <1>6, <2>3, <2>4 DEF CountInv, TypeOK, PcMatchesCall, IsWait
<1>7. ASSUME NEW t \in Threads, ~IsWait(t), NEW code \in Results, Return(t, code)
      PROVE  /\ pc' \in [Threads -> PCs] /\ call' \in [Threads -> Calls]
             /\ result' \in [Threads -> Results] /\ PcMatchesCall'
             /\ Counted' = Counted /\ Inside' = Inside
  <2>1. t \notin Counted /\ t \notin Inside
    BY <1>7 DEF Counted, Inside, CountInv, PcMatchesCall
  <2>2. QED
    BY <1>7, <2>1, ReturnEffect
<1>8. "OK" \in Results /\ "EACCES" \in Results
  BY DEF Results
<1>9. ASSUME NEW t \in Threads, Settle(t) PROVE CountInv'
  <2>1. ~IsWait(t)
    BY <1>9 DEF Settle, AtSettle, IsWait, Ops
  <2>2. CASE status = "Canceled" /\ pc' = [pc EXCEPT ![t] = "settle"] /\ UNCHANGED <<call, result>>
    BY <1>6, <1>9, <2>1, <2>2 DEF Settle, flag, CountInv, TypeOK, CountsAreExact
  <2>3. CASE Return(t, "EACCES")
    BY <1>7, <1>8, <1>9, <2>1, <2>3 DEF Settle, flag, CountInv, TypeOK, CountsAreExact
  <2>4. QED
    BY <1>9, <2>2, <2>3 DEF Settle
<1>10. ASSUME NEW t \in Threads, Set(t) \/ Clear(t) PROVE CountInv'
  <2>1. ~IsWait(t) /\ Return(t, "OK") /\ call[t].pattern \in SUBSET Bits
    BY <1>10 DEF Set, Clear, AtSettle, IsWait, CountInv, TypeOK, Calls
  <2>2. QED
    BY <1>7, <1>8, <1>10, <2>1 DEF Set, Clear, MaskKept, CountInv, TypeOK, CountsAreExact
<1>11. ASSUME NEW t \in Threads, Cancel(t) PROVE CountInv'
  <2>1. ~IsWait(t) /\ call[t].op = "Cancel" /\ call[t].pattern \in SUBSET Bits
    BY <1>11 DEF Cancel, AtSettle, IsWait, CountInv, TypeOK, Calls
  <2>2. CASE waitingThreads > 0
    BY <1>6, <1>11, <2>1, <2>2
    DEF Cancel, NumWaiting, CountInv, TypeOK, CountsAreExact, Statuses
  <2>3. CASE ~(waitingThreads > 0)
    BY <1>7, <1>8, <1>11, <2>1, <2>3 DEF Cancel, NumWaiting, CountInv, TypeOK, CountsAreExact
  <2>4. QED
    BY <2>2, <2>3
<1>12. ASSUME NEW t \in Threads, CancelDrain(t) PROVE CountInv'
  <2>1. ~IsWait(t)
    BY <1>12 DEF CancelDrain, IsWait, CountInv, PcMatchesCall
  <2>2. CASE UNCHANGED <<status, pc, call, result>> /\ asleep' = asleep \cup {t}
    BY <1>12, <2>2
    DEF CancelDrain, CountInv, TypeOK, PcMatchesCall, CountsAreExact, Counted, Inside, IsWait
  <2>3. CASE Return(t, "OK") \/ Return(t, "EACCES")
    BY <1>7, <1>8, <1>12, <2>1, <2>3
    DEF CancelDrain, CountInv, TypeOK, CountsAreExact, Statuses
  <2>4. QED
    BY <1>12, <2>2, <2>3 DEF CancelDrain
<1>13. ASSUME NEW t \in Threads, Delete(t) PROVE CountInv'
  <2>1. ~IsWait(t) /\ call[t].op = "Delete"
    BY <1>13 DEF Delete, AtSettle, IsWait
  <2>2. CASE CallsRemain
    BY <1>6, <1>13, <2>1, <2>2 DEF Delete, CountInv, TypeOK, CountsAreExact, Statuses
  <2>3. CASE ~CallsRemain
    BY <1>7, <1>8, <1>13, <2>1, <2>3 DEF Delete, CountInv, TypeOK, CountsAreExact, Statuses
  <2>4. QED
    BY <2>2, <2>3
<1>14. ASSUME NEW t \in Threads, DeleteDrain(t) PROVE CountInv'
  <2>1. ~IsWait(t)
    BY <1>14 DEF DeleteDrain, IsWait, CountInv, PcMatchesCall
  <2>2. CASE CallsRemain
    BY <1>14, <2>2
    DEF DeleteDrain, flag, CountInv, TypeOK, PcMatchesCall, CountsAreExact, Counted, Inside, IsWait
  <2>3. CASE ~CallsRemain
    BY <1>7, <1>8, <1>14, <2>1, <2>3 DEF DeleteDrain, flag, CountInv, TypeOK, CountsAreExact
  <2>4. QED
    BY <2>2, <2>3
<1>15. ASSUME NEW t \in Threads, SpuriousWake(t) \/ Expire(t) PROVE CountInv'
  BY <1>15
  DEF SpuriousWake, Expire, flag, CountInv, TypeOK, PcMatchesCall, CountsAreExact, Counted, Inside,
      IsWait
<1>16. QED
  BY <1>1, <1>2, <1>3, <1>4, <1>5, <1>9, <1>10, <1>11, <1>12, <1>13, <1>14, <1>15 DEF Next, Run

LEMMA CountInvInit == Init => CountInv
<1>1. ASSUME Init PROVE Counted = {} /\ Inside = {}
  BY <1>1 DEF Init, Counted, Inside
<1>2. QED
  BY <1>1, NoCallIsCall, FS_EmptySet
  DEF Init, CountInv, TypeOK, PcMatchesCall, CountsAreExact, Statuses, PCs, Results

(* The variables keep their types: in particular neither count is ever     *)
(* decremented below zero by one return path too many.                     *)
THEOREM TypeCorrect == Spec => []TypeOK
<1>1. CountInv => TypeOK
  BY DEF CountInv
<1>2. QED
  BY <1>1, CountInvInit, CountInvStep, PTL DEF Spec

(* m_waiting_threads and m_active_wait_calls count exactly the threads     *)
(* they stand for.                                                         *)
THEOREM CountsCorrect == Spec => []CountsAreExact
<1>1. CountInv => CountsAreExact
  BY DEF CountInv
<1>2. QED
  BY <1>1, CountInvInit, CountInvStep, PTL DEF Spec

----------------------------------------------------------------------------
(* The cancellation protocol, on top of the counts. *)
DeletingIsDeleted == \A t \in Threads : pc[t] = "delete" => status = "Deleted"

ProtocolInv == OneCancel /\ CancelReportsExactly /\ SingleWaiter /\ DeletingIsDeleted

(* What a step inside Wait does to the cancellation: it moves a thread     *)
(* that is not the canceling one, leaves the count while none is canceled  *)
(* as it pleases, and takes itself off the count for an ECANCELED.         *)
LEMMA WaitStepProtocol ==
  ASSUME CountInv, ProtocolInv, NEW t \in Threads,
         WaitEnter(t) \/ WaitSettled(t) \/ WaitCounted(t)
  PROVE  /\ pc[t] \notin {"cancel", "delete"}
         /\ \E p \in {"idle", "settle", "counted"} : pc' = [pc EXCEPT ![t] = p]
         /\ UNCHANGED <<status, single, registered, reported>>
         /\ status = "Canceled" => told' + waitingThreads' = told + waitingThreads
         /\ status # "Canceled" => told' = told
         /\ single => waitingThreads' <= 1
<1>0. waitingThreads \in Nat /\ told \in Nat /\ single \in BOOLEAN
  BY DEF CountInv, TypeOK
<1>1. CASE WaitEnter(t)
  BY <1>0, <1>1
  DEF ProtocolInv, SingleWaiter, WaitEnter, SettleLoop, CountedLoop, LeaveWait, SleepInWait, Return,
      AlreadyWaiting
<1>2. CASE WaitSettled(t)
  BY <1>0, <1>2
  DEF ProtocolInv, SingleWaiter, WaitSettled, SettleLoop, CountedLoop, LeaveWait, SleepInWait,
      Return, AlreadyWaiting
<1>3. CASE WaitCounted(t)
  BY <1>0, <1>3
  DEF ProtocolInv, SingleWaiter, WaitCounted, CountedLoop, LeaveWait, SleepInWait, Return
<1>4. QED
  BY <1>1, <1>2, <1>3

LEMMA ProtocolStep == CountInv /\ ProtocolInv /\ [Next]_vars => ProtocolInv'
<1> SUFFICES ASSUME CountInv, ProtocolInv, [Next]_vars PROVE ProtocolInv'
  OBVIOUS
<1> USE DEF ProtocolInv, OneCancel, CancelReportsExactly, SingleWaiter, DeletingIsDeleted
<1>0. /\ pc \in [Threads -> PCs] /\ waitingThreads \in Nat /\ told \in Nat /\ reported \in Nat
      /\ PcMatchesCall
  BY DEF CountInv, TypeOK
<1>1. CASE UNCHANGED vars
  BY <1>1 DEF vars
<1>2. ASSUME NEW t \in Threads, NEW c \in Offered, Acquire(t, c) PROVE ProtocolInv'
  BY <1>0, <1>2 DEF Acquire, flag
<1>3. ASSUME NEW t \in Threads, WaitEnter(t) \/ WaitSettled(t) \/ WaitCounted(t)
      PROVE  ProtocolInv'
  <2>1. /\ pc[t] \notin {"cancel", "delete"}
        /\ \E p \in {"idle", "settle", "counted"} : pc' = [pc EXCEPT ![t] = p]
        /\ UNCHANGED <<status, single, registered, reported>>
        /\ status = "Canceled" => told' + waitingThreads' = told + waitingThreads
        /\ status # "Canceled" => told' = told
        /\ single => waitingThreads' <= 1
    BY <1>3, WaitStepProtocol
  <2>2. OneCancel' /\ DeletingIsDeleted'
    BY <1>0, <2>1
  <2>3. waitingThreads' \in Nat /\ told' \in Nat
    BY <1>3, CountInvStep DEF CountInv, TypeOK, Next, Run
  <2>4. CancelReportsExactly'
    BY <1>0, <2>1, <2>3
  <2>5. QED
    BY <2>1, <2>2, <2>4
<1>4. ASSUME NEW t \in Threads, Settle(t) PROVE ProtocolInv'
  BY <1>0, <1>4 DEF Settle, AtSettle, Return, flag
<1>5. ASSUME NEW t \in Threads, Set(t) \/ Clear(t) PROVE ProtocolInv'
  BY <1>0, <1>5 DEF Set, Clear, AtSettle, Return
<1>6. ASSUME NEW t \in Threads, Cancel(t) PROVE ProtocolInv'
  BY <1>0, <1>6 DEF Cancel, AtSettle, Operable, NumWaiting, Return
<1>7. ASSUME NEW t \in Threads, CancelDrain(t) PROVE ProtocolInv'
  BY <1>0, <1>7 DEF CancelDrain, Return
<1>8. ASSUME NEW t \in Threads, Delete(t) PROVE ProtocolInv'
  BY <1>0, <1>8 DEF Delete, AtSettle, Operable, Return
<1>9. ASSUME NEW t \in Threads, DeleteDrain(t) PROVE ProtocolInv'
  BY <1>0, <1>9 DEF DeleteDrain, Return, flag
<1>10. ASSUME NEW t \in Threads, SpuriousWake(t) \/ Expire(t) PROVE ProtocolInv'
  BY <1>10 DEF SpuriousWake, Expire, flag
<1>11. QED
  BY <1>1, <1>2, <1>3, <1>4, <1>5, <1>6, <1>7, <1>8, <1>9, <1>10 DEF Next, Run

LEMMA ProtocolInit == Init => ProtocolInv
BY DEF Init, ProtocolInv, OneCancel, CancelReportsExactly, SingleWaiter, DeletingIsDeleted

(* A draining Cancel has the flag to itself, and the number it reports is  *)
(* the number of waits that return ECANCELED because of it.                *)
THEOREM CancelCorrect == Spec => [](OneCancel /\ CancelReportsExactly)
<1>1. ProtocolInv => OneCancel /\ CancelReportsExactly
  BY DEF ProtocolInv
<1>2. QED
  BY <1>1, CountInvInit, CountInvStep, ProtocolInit, ProtocolStep, PTL DEF Spec

(* A single-waiter flag never has two counted waiters. *)
THEOREM SingleCorrect == Spec => []SingleWaiter
<1>1. ProtocolInv => SingleWaiter
  BY DEF ProtocolInv
<1>2. QED
  BY <1>1, CountInvInit, CountInvStep, ProtocolInit, ProtocolStep, PTL DEF Spec

----------------------------------------------------------------------------
(* The reasons to sleep, on top of the counts and the protocol. *)
SleepInv == CountInv /\ ProtocolInv /\ SleepersHaveReason

(* Fewer bits satisfy no wait that more bits do not. *)
LEMMA SatisfiedIsMonotone ==
  ASSUME NEW u \in Threads, call'[u] = call[u], bits' \subseteq bits, ~Satisfied(u)
  PROVE  ~Satisfied(u)'
BY DEF Satisfied

LEMMA TakenIsLess ==
  ASSUME CountInv, NEW t \in Threads
  PROVE  Taken(t) \subseteq bits
<1>1. call[t].clear \in {"None", "All", "Bits"}
  BY DEF CountInv, TypeOK, Calls
<1>2. CASE call[t].clear = "None"
  BY <1>2 DEF Taken
<1>3. CASE call[t].clear = "All"
  BY <1>3 DEF Taken
<1>4. CASE call[t].clear = "Bits"
  BY <1>4 DEF Taken
<1>5. QED
  BY <1>1, <1>2, <1>3, <1>4

(* What a step of t inside Wait does to the other threads: their reasons   *)
(* to sleep stay, or all are woken; and t sleeps only for a reason.        *)
LEMMA WaitStepSleepers ==
  ASSUME SleepInv, NEW t \in Threads, WaitEnter(t) \/ WaitSettled(t) \/ WaitCounted(t)
  PROVE  /\ bits' \subseteq bits
         /\ \A u \in asleep' \ {t} : u \in asleep /\ (u \in expired' <=> u \in expired)
         /\ \A u \in Threads \ {t} : pc'[u] = pc[u] /\ call'[u] = call[u]
         /\ status = "Canceled" /\ waitingThreads > 0 => waitingThreads' > 0 \/ asleep' = {}
         /\ status = "Deleted" /\ activeWaitCalls > 0 => activeWaitCalls' > 0 \/ asleep' = {}
         /\ t \in asleep' => /\ ~Satisfied(t)' /\ t \notin expired'
                             /\ \/ pc'[t] = "settle" /\ status = "Canceled"
                                \/ pc'[t] = "counted" /\ status = "Set"
<1>0. /\ pc \in [Threads -> PCs] /\ call \in [Threads -> Calls]
      /\ waitingThreads \in Nat /\ activeWaitCalls \in Nat /\ status \in Statuses
      /\ t \notin asleep /\ Taken(t) \subseteq bits
  BY TakenIsLess
  DEF SleepInv, CountInv, TypeOK, SleepersHaveReason, WaitEnter, WaitSettled, WaitCounted
<1> USE DEF CountedLoop, LeaveWait, SleepInWait, Return, AlreadyWaiting, GuardWakes, OneLess,
            TimedOut, Satisfied, Statuses
<1>1. CASE WaitEnter(t)
  BY <1>0, <1>1 DEF WaitEnter, SettleLoop
<1>2. CASE WaitSettled(t)
  BY <1>0, <1>2 DEF WaitSettled, SettleLoop
<1>3. CASE WaitCounted(t)
  BY <1>0, <1>3 DEF WaitCounted, LastOut
<1>4. QED
  BY <1>1, <1>2, <1>3

LEMMA SleepersStep == SleepInv /\ [Next]_vars => SleepersHaveReason'
<1> SUFFICES ASSUME SleepInv, [Next]_vars PROVE SleepersHaveReason'
  OBVIOUS
<1>0. /\ pc \in [Threads -> PCs] /\ call \in [Threads -> Calls]
      /\ waitingThreads \in Nat /\ activeWaitCalls \in Nat /\ status \in Statuses
      /\ asleep \in SUBSET Threads
      /\ SleepersHaveReason
  BY DEF SleepInv, CountInv, TypeOK
<1>1. CASE UNCHANGED vars
  BY <1>0, <1>1 DEF vars, SleepersHaveReason, IsWait, Satisfied
<1>2. ASSUME NEW t \in Threads, NEW c \in Offered, Acquire(t, c) PROVE SleepersHaveReason'
  BY <1>0, <1>2 DEF Acquire, flag, SleepersHaveReason, IsWait, Satisfied
<1>3. ASSUME NEW t \in Threads, WaitEnter(t) \/ WaitSettled(t) \/ WaitCounted(t)
      PROVE  SleepersHaveReason'
  <2>1. /\ bits' \subseteq bits
        /\ \A u \in asleep' \ {t} : u \in asleep /\ (u \in expired' <=> u \in expired)
        /\ \A u \in Threads \ {t} : pc'[u] = pc[u] /\ call'[u] = call[u]
        /\ status = "Canceled" /\ waitingThreads > 0 => waitingThreads' > 0 \/ asleep' = {}
        /\ status = "Deleted" /\ activeWaitCalls > 0 => activeWaitCalls' > 0 \/ asleep' = {}
        /\ t \in asleep' => /\ ~Satisfied(t)' /\ t \notin expired'
                            /\ \/ pc'[t] = "settle" /\ status = "Canceled"
                               \/ pc'[t] = "counted" /\ status = "Set"
    BY <1>3, WaitStepSleepers
  <2>2. status' = status
    BY <1>3 DEF WaitEnter, WaitSettled, WaitCounted
  <2>3. \A u \in asleep' \ {t} : ~Satisfied(u) => ~Satisfied(u)'
    BY <1>0, <2>1, SatisfiedIsMonotone
  <2>4. ASSUME NEW u \in asleep', u # t
        PROVE  /\ pc'[u] \in {"settle", "counted", "cancel", "delete"}
               /\ pc'[u] = "settle"  => status' = "Canceled" /\ (IsWait(u)' => ~Satisfied(u)')
               /\ pc'[u] = "counted" => status' = "Set" /\ ~Satisfied(u)' /\ u \notin expired'
               /\ pc'[u] = "cancel"  => status' = "Canceled" /\ waitingThreads' > 0
               /\ pc'[u] = "delete"  => status' = "Deleted" /\ activeWaitCalls' > 0
    BY <1>0, <2>1, <2>2, <2>3, <2>4 DEF SleepersHaveReason, IsWait
  <2>5. QED
    BY <2>1, <2>2, <2>4 DEF SleepersHaveReason
<1>4. ASSUME NEW t \in Threads, Settle(t) PROVE SleepersHaveReason'
  BY <1>0, <1>4 DEF Settle, AtSettle, Return, flag, SleepersHaveReason, IsWait, Satisfied, Ops
<1>5. ASSUME NEW t \in Threads, Set(t) PROVE SleepersHaveReason'
  BY <1>5 DEF Set, SleepersHaveReason
<1>6. ASSUME NEW t \in Threads, Clear(t) PROVE SleepersHaveReason'
  <2>1. /\ bits' \subseteq bits /\ t \notin asleep /\ asleep' = asleep
        /\ \A u \in Threads \ {t} : pc'[u] = pc[u] /\ call'[u] = call[u]
        /\ UNCHANGED <<status, waitingThreads, activeWaitCalls, expired>>
    BY <1>0, <1>6 DEF Clear, AtSettle, MaskKept, Return, SleepersHaveReason
  <2>2. \A u \in asleep : ~Satisfied(u) => ~Satisfied(u)'
    BY <1>0, <2>1, SatisfiedIsMonotone
  <2>3. QED
    BY <1>0, <2>1, <2>2 DEF SleepersHaveReason, IsWait
<1>7. ASSUME NEW t \in Threads, Cancel(t) PROVE SleepersHaveReason'
  BY <1>0, <1>7 DEF Cancel, SleepersHaveReason
<1>8. ASSUME NEW t \in Threads, CancelDrain(t) PROVE SleepersHaveReason'
  <2>1. status = "Canceled"
    BY <1>8 DEF SleepInv, ProtocolInv, OneCancel, CancelDrain
  <2>2. QED
    BY <1>0, <1>8, <2>1
    DEF CancelDrain, Return, SleepersHaveReason, IsWait, Satisfied
<1>9. ASSUME NEW t \in Threads, Delete(t) PROVE SleepersHaveReason'
  BY <1>0, <1>9 DEF Delete, CallsRemain, SleepersHaveReason
<1>10. ASSUME NEW t \in Threads, DeleteDrain(t) PROVE SleepersHaveReason'
  <2>1. status = "Deleted"
    BY <1>10 DEF SleepInv, ProtocolInv, DeletingIsDeleted, DeleteDrain
  <2>2. QED
    BY <1>0, <1>10, <2>1
    DEF DeleteDrain, CallsRemain, flag, Return, SleepersHaveReason, IsWait, Satisfied
<1>11. ASSUME NEW t \in Threads, SpuriousWake(t) \/ Expire(t) PROVE SleepersHaveReason'
  BY <1>0, <1>11 DEF SpuriousWake, Expire, flag, SleepersHaveReason, IsWait, Satisfied
<1>12. QED
  BY <1>1, <1>2, <1>3, <1>4, <1>5, <1>6, <1>7, <1>8, <1>9, <1>10, <1>11 DEF Next, Run

LEMMA SleepInvInit == Init => SleepInv
BY CountInvInit, ProtocolInit DEF SleepInv, SleepersHaveReason, Init

LEMMA SleepInvStep == SleepInv /\ [Next]_vars => SleepInv'
BY CountInvStep, ProtocolStep, SleepersStep DEF SleepInv

(* No wake-up is missed: whoever sleeps on the condition variable still    *)
(* has its reason to.                                                      *)
THEOREM NoMissedWakeup == Spec => []SleepersHaveReason
<1>1. SleepInv => SleepersHaveReason
  BY DEF SleepInv
<1>2. QED
  BY <1>1, SleepInvInit, SleepInvStep, PTL DEF Spec

(* A wait counted when a cancellation runs leaves the count only with the  *)
(* error code of a canceled wait, and takes no bits.                       *)
THEOREM CanceledCorrect == Spec => CanceledWaitsFail
<1>1. ASSUME CountInv, [Next]_vars, NEW t \in Threads,
             status = "Canceled", pc[t] = "counted", pc'[t] # "counted"
      PROVE  result'[t] = ErrorCode(t, "Canceled") /\ bits' = bits
  <2>0. pc \in [Threads -> PCs] /\ result \in [Threads -> Results]
    BY <1>1 DEF CountInv, TypeOK
  <2>1. pc' # pc
    BY <1>1
  <2>2. ASSUME NEW u \in Threads, WaitCounted(u), u = t
        PROVE  result'[t] = ErrorCode(t, "Canceled") /\ bits' = bits
    BY <1>1, <2>0, <2>2 DEF WaitCounted, LeaveWait, Return
  <2>3. ASSUME NEW u \in Threads, ~(WaitCounted(u) /\ u = t),
               (\E c \in Offered : Acquire(u, c)) \/ Run(u) \/ SpuriousWake(u) \/ Expire(u)
        PROVE  pc'[t] = pc[t]
    <3>1. CASE \E c \in Offered : Acquire(u, c)
      BY <1>1, <2>0, <3>1 DEF Acquire
    <3>2. CASE WaitEnter(u) \/ WaitSettled(u)
      BY <1>1, <2>0, <3>2
      DEF WaitEnter, WaitSettled, SettleLoop, CountedLoop, LeaveWait, SleepInWait, Return
    <3>3. CASE WaitCounted(u)
      BY <1>1, <2>0, <2>3, <3>3 DEF WaitCounted, CountedLoop, LeaveWait, SleepInWait, Return
    <3>4. CASE Settle(u) \/ Set(u) \/ Clear(u) \/ Cancel(u) \/ Delete(u)
      BY <1>1, <2>0, <3>4 DEF Settle, Set, Clear, Cancel, Delete, AtSettle, Return
    <3>5. CASE CancelDrain(u) \/ DeleteDrain(u)
      BY <1>1, <2>0, <3>5 DEF CancelDrain, DeleteDrain, Return
    <3>6. CASE SpuriousWake(u) \/ Expire(u)
      BY <3>6 DEF SpuriousWake, Expire
    <3>7. QED
      BY <2>3, <3>1, <3>2, <3>3, <3>4, <3>5, <3>6 DEF Run
  <2>4. QED
    BY <1>1, <2>1, <2>2, <2>3 DEF Next, vars
<1>2. CountInv /\ [Next]_vars =>
        [\A t \in Threads :
           status = "Canceled" /\ pc[t] = "counted" /\ pc'[t] # "counted"
             => result'[t] = ErrorCode(t, "Canceled") /\ bits' = bits]_vars
  BY <1>1
<1>3. QED
  BY <1>2, CountInvInit, CountInvStep, PTL DEF Spec, CanceledWaitsFail

----------------------------------------------------------------------------
(* Implementation of the atomic event flag. *)

(* The clock and the arguments: a thread outside the flag has none; the    *)
(* time of a poll is used up from the start, that of an infinite wait      *)
(* never.                                                                  *)
TimeInv ==
  \A t \in Threads : /\ pc[t] = "idle" => call[t] = NoCall
                     /\ t \in expired => IsWait(t) /\ call[t].timeout # "Infinite"
                     /\ IsWait(t) /\ call[t].timeout = "Zero" => t \in expired
                     /\ pc[t] = "counted" => call[t].timeout # "Zero"

LEMMA TimeInvStep == CountInv /\ TimeInv /\ [Next]_vars => TimeInv'
<1> SUFFICES ASSUME CountInv, TimeInv, [Next]_vars PROVE TimeInv'
  OBVIOUS
<1> USE DEF TimeInv, IsWait, Return
<1>0. /\ pc \in [Threads -> PCs] /\ call \in [Threads -> Calls] /\ PcMatchesCall
      /\ NoCall.op = "Set"
  BY DEF CountInv, TypeOK, NoCall
<1>1. CASE UNCHANGED vars
  BY <1>1 DEF vars
<1>2. ASSUME NEW t \in Threads, NEW c \in Offered, Acquire(t, c) PROVE TimeInv'
  BY <1>0, <1>2 DEF Acquire, flag
<1>3. ASSUME NEW t \in Threads, WaitEnter(t) \/ WaitSettled(t) PROVE TimeInv'
  BY <1>0, <1>3
  DEF WaitEnter, WaitSettled, SettleLoop, CountedLoop, LeaveWait, SleepInWait, TimedOut
<1>4. ASSUME NEW t \in Threads, WaitCounted(t) PROVE TimeInv'
  BY <1>0, <1>4 DEF WaitCounted, CountedLoop, LeaveWait, SleepInWait, TimedOut, PcMatchesCall
<1>5. ASSUME NEW t \in Threads, Settle(t) PROVE TimeInv'
  BY <1>0, <1>5 DEF Settle, AtSettle, flag, Ops
<1>6. ASSUME NEW t \in Threads, Set(t) \/ Clear(t) PROVE TimeInv'
  BY <1>0, <1>6 DEF Set, Clear, AtSettle
<1>7. ASSUME NEW t \in Threads, Cancel(t) PROVE TimeInv'
  BY <1>0, <1>7 DEF Cancel, AtSettle
<1>8. ASSUME NEW t \in Threads, Delete(t) PROVE TimeInv'
  BY <1>0, <1>8 DEF Delete, AtSettle
<1>9. ASSUME NEW t \in Threads, CancelDrain(t) PROVE TimeInv'
  BY <1>0, <1>9 DEF CancelDrain, PcMatchesCall
<1>10. ASSUME NEW t \in Threads, DeleteDrain(t) PROVE TimeInv'
  BY <1>0, <1>10 DEF DeleteDrain, PcMatchesCall, flag
<1>11. ASSUME NEW t \in Threads, SpuriousWake(t) \/ Expire(t) PROVE TimeInv'
  BY <1>0, <1>11 DEF SpuriousWake, Expire, flag
<1>12. QED
  BY <1>1, <1>2, <1>3, <1>4, <1>5, <1>6, <1>7, <1>8, <1>9, <1>10, <1>11 DEF Next, Run

LEMMA TimeInvInit == Init => TimeInv
BY DEF Init, TimeInv, IsWait, NoCall

AllInv == CountInv /\ ProtocolInv /\ TimeInv

(* The abstract sets of threads. *)
Busy    == {t \in Threads : pc[t] # "idle"}
Waiting == IF status = "Canceled" THEN {} ELSE Counted
Doomed  == IF status = "Canceled" THEN Counted ELSE {}

(* The sets of threads after a step that moves one thread. *)
LEMMA OneThreadMovesSets ==
  ASSUME CountInv, NEW t \in Threads, NEW p \in PCs, pc' = [pc EXCEPT ![t] = p]
  PROVE  /\ Counted' = IF p = "counted" THEN Counted \cup {t} ELSE Counted \ {t}
         /\ Busy' = IF p = "idle" THEN Busy \ {t} ELSE Busy \cup {t}
BY DEF CountInv, TypeOK, Counted, Busy

LEMMA CountedAndInside ==
  ASSUME CountInv
  PROVE  /\ waitingThreads = 0 <=> Counted = {}
         /\ activeWaitCalls = 0 => Counted = {}
         /\ waitingThreads \in Nat /\ activeWaitCalls \in Nat
<1>1. Counted \in SUBSET Threads /\ Inside \in SUBSET Threads /\ Counted \subseteq Inside
  BY DEF Counted, Inside, CountInv, PcMatchesCall
<1>2. (Cardinality(Counted) = 0 <=> Counted = {}) /\ (Cardinality(Inside) = 0 <=> Inside = {})
  BY <1>1, CountOfThreads
<1>3. QED
  BY <1>1, <1>2 DEF CountInv, TypeOK, CountsAreExact

LEMMA SameRequests ==
  ASSUME NEW t \in Threads
  PROVE  (Atomic!Holds(call[t]) <=> Satisfied(t)) /\ Atomic!Left(call[t]) = Taken(t)
<1>1. Atomic!Holds(call[t]) <=> Satisfied(t)
  BY DEF Atomic!Holds, Satisfied
<1>2. Atomic!Left(call[t]) = Taken(t)
  BY Zenon DEF Atomic!Left, Taken
<1>3. QED
  BY <1>1, <1>2

LEMMA ErrorCodeValues ==
  ASSUME NEW t
  PROVE  /\ ErrorCode(t, "Ok") = "OK" /\ ErrorCode(t, "AlreadyWaiting") = "EPERM"
         /\ call[t].timeout # "Zero" => /\ ErrorCode(t, "TimedOut") = "ETIMEDOUT"
                                        /\ ErrorCode(t, "Canceled") = "ECANCELED"
                                        /\ ErrorCode(t, "Deleted") = "EACCES"
         /\ call[t].timeout = "Zero" => /\ ErrorCode(t, "TimedOut") = "EBUSY"
                                        /\ ErrorCode(t, "Deleted") = "EBUSY"
BY Zenon DEF ErrorCode

(* A wait that leaves: what the caller sees. *)
Replies(t, r) == Atomic!Reply(t, ErrorCode(t, r))
GivesUp(t, r) == /\ Replies(t, r)
                 /\ Waiting' = Waiting \ {t} /\ Doomed' = Doomed

LEMMA LeaveMapsToReply ==
  ASSUME AllInv, NEW t \in Threads, NEW r, NEW active, NEW woken, LeaveWait(t, r, active, woken)
  PROVE  /\ Replies(t, r)
         /\ Counted' = Counted \ {t}
         /\ status' = status /\ t \notin Doomed => GivesUp(t, r)
<1>1. "idle" \in PCs /\ CountInv
  BY DEF PCs, AllInv
<1>2. Busy' = Busy \ {t} /\ Counted' = Counted \ {t}
  BY <1>1, OneThreadMovesSets DEF LeaveWait, Return
<1>3. Replies(t, r)
  BY <1>2 DEF Replies, Atomic!Reply, LeaveWait, Return, Busy
<1>4. status' = status /\ t \notin Doomed => GivesUp(t, r)
  BY <1>2, <1>3 DEF Waiting, Doomed, GivesUp
<1>5. QED
  BY <1>2, <1>3, <1>4

LEMMA GiveUpImplements ==
  ASSUME AllInv, NEW t \in Threads, Atomic!IsWaiter(t), t \notin Doomed, status # "Deleted",
         UNCHANGED <<bits, status, single>>,
         \/ ~Satisfied(t) /\ TimedOut(t) /\ GivesUp(t, "TimedOut")
         \/ AlreadyWaiting /\ t \notin Waiting /\ GivesUp(t, "AlreadyWaiting")
  PROVE  Atomic!GiveUp(t)
<1>0. ~Atomic!Holds(call[t]) <=> ~Satisfied(t)
  BY SameRequests
<1>1. CASE ~Satisfied(t) /\ TimedOut(t) /\ GivesUp(t, "TimedOut")
  <2>1. call[t].timeout \in {"Zero", "Finite"}
    BY <1>1 DEF AllInv, TimeInv, TimedOut, CountInv, TypeOK, Calls, Timeouts
  <2>2. CASE call[t].timeout = "Zero"
    <3>1. Atomic!Reply(t, "EBUSY")
      BY <1>1, <2>2, ErrorCodeValues DEF GivesUp, Replies, Atomic!Reply
    <3>2. QED
      BY <1>0, <1>1, <2>2, <3>1 DEF Atomic!GiveUp, GivesUp, Waiting, Doomed
  <2>3. CASE call[t].timeout = "Finite"
    <3>1. Atomic!Reply(t, "ETIMEDOUT")
      BY <1>1, <2>3, ErrorCodeValues DEF GivesUp, Replies, Atomic!Reply
    <3>2. QED
      BY <1>0, <1>1, <2>3, <3>1 DEF Atomic!GiveUp, GivesUp, Waiting, Doomed
  <2>4. QED
    BY <2>1, <2>2, <2>3
<1>2. CASE AlreadyWaiting /\ t \notin Waiting /\ GivesUp(t, "AlreadyWaiting")
  <2>1. Atomic!Reply(t, "EPERM")
    BY <1>2, ErrorCodeValues DEF GivesUp, Replies, Atomic!Reply
  <2>2. Waiting \cup Doomed # {} /\ single
    BY <1>2, CountedAndInside DEF AlreadyWaiting, AllInv, Waiting, Doomed
  <2>3. QED
    BY <1>2, <2>1, <2>2 DEF Atomic!GiveUp, GivesUp, Waiting, Doomed
<1>3. QED
  BY <1>1, <1>2

(* A turn of the second loop succeeds, gives up, blocks or is not seen. *)
LEMMA CountedLoopImplements ==
  ASSUME AllInv, NEW t \in Threads, IsWait(t), pc[t] \in {"entry", "settle", "counted"},
         status # "Deleted", status = "Canceled" => pc[t] # "counted" /\ Satisfied(t),
         UNCHANGED <<status, single>>, pc[t] # "counted" => ~AlreadyWaiting,
         NEW active, NEW waiting, CountedLoop(t, active, waiting)
  PROVE  Atomic!Succeed(t) \/ Atomic!GiveUp(t) \/ Atomic!Block(t) \/ UNCHANGED Atomic!avars
<1>0. /\ pc \in [Threads -> PCs] /\ CountInv /\ t \in Busy /\ single \in BOOLEAN
      /\ t \in Counted <=> pc[t] = "counted"
      /\ call[t].timeout \in Timeouts
      /\ t \notin Doomed
      /\ Atomic!IsWaiter(t)
      /\ (Atomic!Holds(call[t]) <=> Satisfied(t)) /\ Atomic!Left(call[t]) = Taken(t)
  BY SameRequests
  DEF AllInv, CountInv, TypeOK, Busy, Counted, Calls, Doomed, Atomic!IsWaiter, IsWait
<1>1. CASE Satisfied(t) /\ LeaveWait(t, "Ok", active, {}) /\ bits' = Taken(t)
  <2>1. Atomic!Reply(t, "OK") /\ Waiting' = Waiting \ {t} /\ Doomed' = Doomed
    <3>1. GivesUp(t, "Ok")
      BY <1>0, <1>1, LeaveMapsToReply
    <3>2. QED
      BY <3>1, ErrorCodeValues DEF GivesUp, Replies, Atomic!Reply
  <2>2. Atomic!Succeed(t)
    BY <1>0, <1>1, <2>1 DEF Atomic!Succeed, Waiting, Doomed
  <2>3. QED
    BY <2>2
<1>2. CASE ~Satisfied(t) /\ TimedOut(t) /\ LeaveWait(t, "TimedOut", active, {}) /\ UNCHANGED bits
  <2>1. GivesUp(t, "TimedOut")
    BY <1>0, <1>2, LeaveMapsToReply
  <2>2. QED
    BY <1>0, <1>2, <2>1, GiveUpImplements
<1>3. CASE ~Satisfied(t) /\ ~TimedOut(t) /\ SleepInWait(t, "counted", active) /\ UNCHANGED bits
  <2>1. Counted' = Counted \cup {t} /\ Busy' = Busy \cup {t} /\ UNCHANGED <<call, result>>
    BY <1>0, <1>3, OneThreadMovesSets DEF SleepInWait, PCs
  <2>2. call[t].timeout # "Zero" /\ status # "Canceled"
    BY <1>3 DEF AllInv, TimeInv, TimedOut
  <2>3. CASE pc[t] = "counted"
    <3>1. Counted' = Counted /\ Busy' = Busy
      BY <1>0, <2>1, <2>3
    <3>2. QED
      BY <1>3, <2>1, <3>1 DEF Atomic!avars, Busy
  <2>4. CASE pc[t] # "counted"
    <3>1. single => Counted = {}
      BY <1>0, <2>4, CountedAndInside DEF AlreadyWaiting
    <3>2. Busy' = Busy
      BY <1>0, <2>1
    <3>3. Atomic!Block(t)
      BY <1>0, <1>3, <2>1, <2>2, <2>4, <3>1, <3>2
      DEF Atomic!Block, Atomic!IsWaiter, Atomic!Holds, Satisfied, IsWait, Busy
    <3>4. QED
      BY <3>3
  <2>5. QED
    BY <2>3, <2>4
<1>4. QED
  BY <1>1, <1>2, <1>3 DEF CountedLoop

(* A turn of the first loop: the thread that goes to sleep in it has been  *)
(* in the call before and after, and is not a waiter.                      *)
LEMMA SettleLoopImplements ==
  ASSUME AllInv, NEW t \in Threads, IsWait(t), pc[t] \in {"entry", "settle"},
         status # "Deleted", UNCHANGED <<status, single>>,
         NEW active, SettleLoop(t, active)
  PROVE  Atomic!Succeed(t) \/ Atomic!GiveUp(t) \/ Atomic!Block(t) \/ UNCHANGED Atomic!avars
<1>0. t \notin Counted /\ t \notin Doomed /\ t \notin Waiting /\ t \in Busy /\ CountInv
      /\ Atomic!IsWaiter(t) /\ "settle" \in PCs
  BY DEF Counted, Doomed, Waiting, Busy, AllInv, Atomic!IsWaiter, IsWait, PCs
<1>1. CASE ~Satisfied(t) /\ TimedOut(t) /\ LeaveWait(t, "TimedOut", active, {}) /\ UNCHANGED bits
  <2>1. GivesUp(t, "TimedOut")
    BY <1>0, <1>1, LeaveMapsToReply
  <2>2. QED
    BY <1>0, <1>1, <2>1, GiveUpImplements
<1>2. CASE SleepInWait(t, "settle", active) /\ UNCHANGED bits
  <2>1. Counted' = Counted \ {t} /\ Busy' = Busy \cup {t} /\ UNCHANGED <<call, result>>
    BY <1>0, <1>2, OneThreadMovesSets DEF SleepInWait
  <2>2. Counted' = Counted /\ Busy' = Busy
    BY <1>0, <2>1
  <2>3. QED
    BY <1>2, <2>1, <2>2 DEF Atomic!avars, Busy
<1>3. CASE AlreadyWaiting /\ LeaveWait(t, "AlreadyWaiting", active, {}) /\ UNCHANGED bits
  <2>1. GivesUp(t, "AlreadyWaiting")
    BY <1>0, <1>3, LeaveMapsToReply
  <2>2. QED
    BY <1>0, <1>3, <2>1, GiveUpImplements
<1>4. CASE /\ ~(status = "Canceled" /\ ~Satisfied(t)) /\ ~AlreadyWaiting
           /\ CountedLoop(t, active, waitingThreads)
  BY <1>4, CountedLoopImplements
<1>5. QED
  BY <1>1, <1>2, <1>3, <1>4 DEF SettleLoop

(* Every step inside Wait. *)
LEMMA WaitImplements ==
  ASSUME AllInv, NEW t \in Threads, WaitEnter(t) \/ WaitSettled(t) \/ WaitCounted(t)
  PROVE  Atomic!Next \/ UNCHANGED Atomic!avars
<1>0. /\ t \in Busy /\ IsWait(t) /\ UNCHANGED <<status, single>>
      /\ pc[t] \in {"entry", "settle", "counted"}
  BY DEF AllInv, CountInv, PcMatchesCall, Busy, WaitEnter, WaitSettled, WaitCounted
<1>1. ASSUME NEW active, NEW woken, status = "Deleted",
             LeaveWait(t, "Deleted", active, woken), UNCHANGED bits
      PROVE  Atomic!FindDeleted(t)
  <2>1. GivesUp(t, "Deleted")
    BY <1>0, <1>1, LeaveMapsToReply DEF Doomed
  <2>2. Atomic!Reply(t, IF call[t].op = "Wait" /\ call[t].timeout = "Zero"
                          THEN "EBUSY" ELSE "EACCES")
    BY <1>0, <2>1, ErrorCodeValues DEF GivesUp, Replies, Atomic!Reply, IsWait
  <2>3. QED
    BY <1>0, <1>1, <2>1, <2>2 DEF Atomic!FindDeleted, GivesUp, Waiting, Doomed, Busy
<1>2. ASSUME NEW active, NEW woken, status = "Canceled", pc[t] = "counted",
             LeaveWait(t, "Canceled", active, woken), UNCHANGED bits
      PROVE  Atomic!Canceled(t)
  <2>1. Replies(t, "Canceled") /\ Counted' = Counted \ {t}
    BY <1>2, LeaveMapsToReply
  <2>2. call[t].timeout # "Zero" /\ t \in Counted
    BY <1>2 DEF AllInv, TimeInv, Counted
  <2>3. Atomic!Reply(t, "ECANCELED")
    BY <2>1, <2>2, ErrorCodeValues DEF Replies, Atomic!Reply
  <2>4. QED
    BY <1>0, <1>2, <2>1, <2>2, <2>3 DEF Atomic!Canceled
<1>3. CASE WaitEnter(t)
  BY <1>0, <1>1, <1>3, SettleLoopImplements DEF WaitEnter, Atomic!Next
<1>4. CASE WaitSettled(t)
  BY <1>0, <1>1, <1>4, SettleLoopImplements DEF WaitSettled, Atomic!Next
<1>5. CASE WaitCounted(t)
  BY <1>0, <1>1, <1>2, <1>5, CountedLoopImplements DEF WaitCounted, Atomic!Next
<1>6. QED
  BY <1>3, <1>4, <1>5

(* Set, Clear, Cancel and Delete. *)
LEMMA OtherOpsImplement ==
  ASSUME AllInv, NEW t \in Threads,
         \/ Settle(t) \/ Set(t) \/ Clear(t) \/ Cancel(t) \/ CancelDrain(t)
         \/ Delete(t) \/ DeleteDrain(t)
  PROVE  Atomic!Next \/ UNCHANGED Atomic!avars
<1>0. /\ t \in Busy /\ ~IsWait(t) /\ CountInv /\ t \notin Counted
      /\ pc[t] = "cancel" => status = "Canceled" /\ call[t].op = "Cancel"
      /\ pc[t] = "delete" => status = "Deleted" /\ call[t].op = "Delete"
      /\ "idle" \in PCs /\ "settle" \in PCs /\ "cancel" \in PCs /\ "delete" \in PCs
  BY DEF AllInv, CountInv, PcMatchesCall, ProtocolInv, OneCancel, DeletingIsDeleted, Busy, Settle,
         Set, Clear, Cancel, CancelDrain, Delete, DeleteDrain, AtSettle, IsWait, Counted, PCs, Ops
<1>1. ASSUME NEW code, Return(t, code)
      PROVE  Atomic!Reply(t, code) /\ Counted' = Counted
  <2>1. Busy' = Busy \ {t} /\ Counted' = Counted \ {t}
    BY <1>0, <1>1, OneThreadMovesSets DEF Return
  <2>2. Counted' = Counted
    BY <1>0, <2>1
  <2>3. QED
    BY <1>1, <2>1, <2>2 DEF Return, Atomic!Reply, Busy
<1>2. ASSUME NEW p \in PCs \ {"idle", "counted"}, pc' = [pc EXCEPT ![t] = p]
      PROVE  Busy' = Busy /\ Counted' = Counted
  <2>1. Busy' = Busy \cup {t} /\ Counted' = Counted \ {t}
    BY <1>0, <1>2, OneThreadMovesSets
  <2>2. QED
    BY <1>0, <2>1
<1>3. CASE Settle(t)
  <2>1. CASE status = "Canceled" /\ pc' = [pc EXCEPT ![t] = "settle"] /\ UNCHANGED <<call, result>>
    <3>1. Busy' = Busy /\ Counted' = Counted
      BY <1>0, <1>2, <2>1
    <3>2. QED
      BY <1>3, <2>1, <3>1 DEF Settle, flag, Atomic!avars, Busy
  <2>2. CASE status = "Deleted" /\ Return(t, "EACCES")
    <3>1. Atomic!Reply(t, "EACCES") /\ Counted' = Counted
      BY <1>1, <2>2
    <3>2. Atomic!Reply(t, IF call[t].op = "Wait" /\ call[t].timeout = "Zero"
                            THEN "EBUSY" ELSE "EACCES")
      BY <1>0, <3>1 DEF Atomic!Reply, IsWait
    <3>3. Atomic!FindDeleted(t)
      BY <1>0, <1>3, <2>2, <3>1, <3>2 DEF Settle, flag, Atomic!FindDeleted, Busy
    <3>4. QED
      BY <3>3 DEF Atomic!Next
  <2>3. QED
    BY <1>3, <2>1, <2>2 DEF Settle
<1>4. CASE Set(t)
  <2>1. Atomic!Reply(t, "OK") /\ Counted' = Counted
    BY <1>1, <1>4 DEF Set
  <2>2. Atomic!Set(t)
    BY <1>0, <1>4, <2>1 DEF Set, AtSettle, Operable, Atomic!Set, Atomic!Operable, Busy
  <2>3. QED
    BY <2>2 DEF Atomic!Next
<1>5. CASE Clear(t)
  <2>1. Atomic!Reply(t, "OK") /\ Counted' = Counted
    BY <1>1, <1>5 DEF Clear
  <2>2. Atomic!Clear(t)
    BY <1>0, <1>5, <2>1
    DEF Clear, AtSettle, Operable, MaskKept, Atomic!Clear, Atomic!Operable, Busy
  <2>3. QED
    BY <2>2 DEF Atomic!Next
<1>6. CASE Cancel(t)
  <2>1. CASE waitingThreads > 0
    <3>1. Busy' = Busy /\ Counted' = Counted
      BY <1>0, <1>2, <1>6, <2>1 DEF Cancel
    <3>2. Counted # {}
      BY <1>0, <2>1, CountedAndInside
    <3>3. Atomic!Cancel(t)
      BY <1>0, <1>6, <2>1, <3>1, <3>2
      DEF Cancel, AtSettle, Operable, Atomic!Cancel, Atomic!Operable, Busy
    <3>4. QED
      BY <3>3 DEF Atomic!Next
  <2>2. CASE ~(waitingThreads > 0)
    <3>1. Atomic!Reply(t, "OK") /\ Counted' = Counted
      BY <1>1, <1>6, <2>2 DEF Cancel
    <3>2. Counted = {}
      BY <1>0, <2>2, CountedAndInside
    <3>3. Atomic!Cancel(t)
      BY <1>0, <1>6, <2>2, <3>1, <3>2
      DEF Cancel, AtSettle, Operable, Atomic!Cancel, Atomic!Operable, Busy
    <3>4. QED
      BY <3>3 DEF Atomic!Next
  <2>3. QED
    BY <2>1, <2>2
<1>7. CASE CancelDrain(t)
  <2>1. status = "Canceled" /\ call[t].op = "Cancel"
    BY <1>0, <1>7 DEF CancelDrain
  <2>2. CASE waitingThreads > 0
    BY <1>7, <2>1, <2>2 DEF CancelDrain, Atomic!avars, Counted
  <2>3. CASE ~(waitingThreads > 0)
    <3>1. Atomic!Reply(t, "OK") /\ Counted' = Counted
      BY <1>1, <1>7, <2>1, <2>3 DEF CancelDrain
    <3>2. Counted = {} /\ status' = "Set"
      BY <1>0, <1>7, <2>1, <2>3, CountedAndInside DEF CancelDrain
    <3>3. Atomic!CancelReturns(t)
      BY <1>0, <1>7, <2>1, <3>1, <3>2 DEF CancelDrain, Atomic!CancelReturns, Busy
    <3>4. QED
      BY <3>3 DEF Atomic!Next
  <2>4. QED
    BY <2>2, <2>3
<1>8. CASE Delete(t)
  <2>1. CASE CallsRemain
    <3>1. Busy' = Busy /\ Counted' = Counted
      BY <1>0, <1>2, <1>8, <2>1 DEF Delete
    <3>2. Atomic!Delete(t)
      BY <1>0, <1>8, <2>1, <3>1
      DEF Delete, AtSettle, Operable, Atomic!Delete, Atomic!Operable, Busy
    <3>3. QED
      BY <3>2 DEF Atomic!Next
  <2>2. CASE ~CallsRemain
    <3>1. Atomic!Reply(t, "OK") /\ Counted' = Counted
      BY <1>1, <1>8, <2>2 DEF Delete
    <3>2. Counted = {}
      BY <1>0, <2>2, CountedAndInside DEF CallsRemain
    <3>3. Atomic!Delete(t)
      BY <1>0, <1>8, <2>2, <3>1, <3>2
      DEF Delete, AtSettle, Operable, Atomic!Delete, Atomic!Operable, Busy
    <3>4. QED
      BY <3>3 DEF Atomic!Next
  <2>3. QED
    BY <2>1, <2>2
<1>9. CASE DeleteDrain(t)
  <2>1. status = "Deleted" /\ call[t].op = "Delete"
    BY <1>0, <1>9 DEF DeleteDrain
  <2>2. CASE CallsRemain
    BY <1>9, <2>2 DEF DeleteDrain, flag, Atomic!avars, Counted
  <2>3. CASE ~CallsRemain
    <3>1. Atomic!Reply(t, "OK") /\ Counted' = Counted
      BY <1>1, <1>9, <2>3 DEF DeleteDrain
    <3>2. Counted = {}
      BY <1>0, <2>3, CountedAndInside DEF CallsRemain
    <3>3. Atomic!DeleteReturns(t)
      BY <1>0, <1>9, <2>1, <2>3, <3>1, <3>2 DEF DeleteDrain, flag, Atomic!DeleteReturns, Busy
    <3>4. QED
      BY <3>3 DEF Atomic!Next
  <2>4. QED
    BY <2>2, <2>3
<1>10. QED
  BY <1>3, <1>4, <1>5, <1>6, <1>7, <1>8, <1>9

LEMMA StepImplements ==
  ASSUME AllInv, [Next]_vars
  PROVE  [Atomic!Next]_Atomic!avars
<1>1. CASE UNCHANGED vars
  BY <1>1 DEF vars, Atomic!avars, Counted
<1>2. ASSUME NEW t \in Threads, NEW c \in Offered, Acquire(t, c)
      PROVE  Atomic!Request(t) \/ Atomic!Reject(t)
  <2>0. CountInv /\ call[t] = NoCall /\ t \notin Busy /\ t \notin Counted /\ "entry" \in PCs
    BY <1>2 DEF AllInv, TimeInv, Acquire, Busy, Counted, PCs
  <2>1. CASE registered /\ ~(c.op = "Wait" /\ c.pattern = {})
    <3>1. Busy' = Busy \cup {t} /\ Counted' = Counted \ {t}
      BY <1>2, <2>0, <2>1, OneThreadMovesSets DEF Acquire
    <3>2. Counted' = Counted
      BY <2>0, <3>1
    <3>3. QED
      BY <1>2, <2>0, <2>1, <3>1, <3>2 DEF Acquire, flag, Atomic!Request, Busy
  <2>2. CASE ~(registered /\ ~(c.op = "Wait" /\ c.pattern = {}))
    <3>1. UNCHANGED <<pc, call>> /\ \E code \in {"ESRCH", "EINVAL"} : result' = [result EXCEPT ![t] = code]
      BY <1>2, <2>2 DEF Acquire
    <3>2. Busy' = Busy \ {t} /\ Counted' = Counted /\ call' = [call EXCEPT ![t] = NoCall]
      BY <2>0, <3>1 DEF Busy, Counted, CountInv, TypeOK
    <3>3. QED
      BY <1>2, <2>0, <3>1, <3>2 DEF Acquire, flag, Atomic!Reject, Atomic!Reply, Busy
  <2>3. QED
    BY <2>1, <2>2
<1>3. ASSUME NEW t \in Threads, SpuriousWake(t) \/ Expire(t) PROVE UNCHANGED Atomic!avars
  BY <1>3 DEF SpuriousWake, Expire, flag, Atomic!avars, Counted
<1>4. QED
  BY <1>1, <1>2, <1>3, WaitImplements, OtherOpsImplement DEF Next, Run, Atomic!Next

(* The event flag of the code, with its mutex, its condition variable and  *)
(* its hand-kept counts, implements the atomic event flag.                 *)
THEOREM Implementation == Spec => ImplementsAtomic
<1>1. Init => Atomic!Init
  BY DEF Init, Atomic!Init, Counted
<1>2. Init => AllInv
  BY CountInvInit, ProtocolInit, TimeInvInit DEF AllInv
<1>3. AllInv /\ [Next]_vars => AllInv'
  BY CountInvStep, ProtocolStep, TimeInvStep DEF AllInv
<1>4. AllInv /\ [Next]_vars => [Atomic!Next]_Atomic!avars
  BY StepImplements
<1>5. QED
  BY <1>1, <1>2, <1>3, <1>4, PTL DEF Spec, ImplementsAtomic, Atomic!Spec
=============================================================================
