---------------------------- MODULE FiberProofs ----------------------------
(***************************************************************************)
(* Proofs about Fiber, for any sets of threads, fibers and arguments.      *)
(***************************************************************************)
EXTENDS Fiber, TLAPS

OnOwnStack == {"thread", "enter", "back", "committed"}
Targeting == {"finalizing", "enter", "leave", "jump"}
Releasing == {"jump", "landing", "jumpBack", "back"}

(* What the place of a thread says about the fibers its call is about.     *)
PlaceInv(t) ==
  /\ pc[t] \in OnOwnStack => stack[t] = NoFiber
  /\ stack[t] = NoFiber => pc[t] \in OnOwnStack \cup {"finalizing"}
  /\ target[t] = NoFiber <=> pc[t] \notin Targeting
  /\ pc[t] \in {"thread", "finalizing", "body", "leave", "jump", "committed"} => current[t] = stack[t]
  /\ pc[t] \notin Releasing => pendingIdle[t] = NoFiber
  /\ pc[t] = "jump" => pendingIdle[t] = stack[t]
  /\ pc[t] = "landing" => pendingIdle[t] # stack[t]
  /\ pc[t] = "jumpBack" => pendingIdle[t] \in {stack[t], NoFiber}
  /\ pc[t] \in {"leave", "jump"} => target[t] # stack[t]

(* A thread may be on the stack of a fiber whose entry has ended.          *)
OnEndedStack(t) ==
  \/ pc[t] = "ended"
  \/ pc[t] = "jumpBack" /\ pendingIdle[t] = NoFiber

HeldInv ==
  /\ \A t \in Threads : \A f \in Held(t) :
       f \in leased /\ state[f] = IF OnEndedStack(t) THEN "Terminated" ELSE "Running"
  /\ \A t, u \in Threads : t # u => Held(t) \cap Held(u) = {}
  /\ \A f \in Fibers : state[f] = "Running" => \E t \in Threads : f \in Held(t)
  /\ \A f \in Fibers : state[f] = "Idle" => f \in leased
  /\ \A t \in Threads : pc[t] = "finalizing" =>
       state[target[t]] = "Terminated" /\ \A u \in Threads : target[t] \notin Held(u)

(* The fiber that came back is still the thread's to release, or it has    *)
(* ended and nobody is about to initialise or to run it.                   *)
CameBack(t, f) ==
  /\ f \in Fibers /\ argOnReturn[f] = given[t]
  /\ pc[t] = "jumpBack" => f = stack[t]
  /\ IF pendingIdle[t] = NoFiber
     THEN state[f] = "Terminated" /\ \A u \in Threads \ {t} : f \notin Held(u)
     ELSE pendingIdle[t] = f

(* An argument stays in the fiber until it is read or the fiber is free.   *)
ArgumentInv ==
  \A t \in Threads :
    /\ pc[t] = "jump" => argOnRun[target[t]] = sent[t]
    /\ pc[t] \in {"landing", "landed"} => argOnRun[stack[t]] = sent[t]
    /\ pc[t] \in {"jumpBack", "back"} => CameBack(t, returnFiber[t])

FiberInv == TypeOK /\ (\A t \in Threads : PlaceInv(t)) /\ HeldInv

----------------------------------------------------------------------------
(* Initially                                                               *)

LEMMA InitInv == Init => FiberInv
BY FiberAssumption
DEF Init, FiberInv, TypeOK, Pcs, PlaceInv, OnOwnStack, Targeting, Releasing, HeldInv, Held, OnEndedStack

----------------------------------------------------------------------------
(* One step.  The invariant is preserved part by part.                     *)

LEMMA TypeStep ==
  ASSUME FiberInv, [Next]_vars
  PROVE  TypeOK'
<1> USE FiberAssumption
    DEF FiberInv, TypeOK, Pcs, PlaceInv, OnOwnStack, Targeting, Releasing,
        GoTo, threadLocals, fiberVars, history
<1>1. ASSUME NEW t \in Threads, NEW f \in Fibers, RunClaim(t, f) PROVE TypeOK'
  BY <1>1 DEF RunClaim, Claimable
<1>2. ASSUME NEW t \in Threads, NEW f \in Fibers, SwitchClaim(t, f) PROVE TypeOK'
  BY <1>2 DEF SwitchClaim, Claimable
<1>3. ASSUME NEW t \in Threads, NEW f \in Fibers, FinalizeClaim(t, f) PROVE TypeOK'
  BY <1>3 DEF FinalizeClaim, Claimable
<1>4. ASSUME NEW t \in Threads, NEW arg \in RunArgs, RunEnter(t, arg) PROVE TypeOK'
  BY <1>4 DEF RunEnter, PassArguments, Enter
<1>5. ASSUME NEW t \in Threads, NEW arg \in RunArgs, SwitchSave(t, arg) PROVE TypeOK'
  BY <1>5 DEF SwitchSave, PassArguments, DeferIdle
<1>6. ASSUME NEW t \in Threads, Landing(t) PROVE TypeOK'
  BY <1>6 DEF Landing, CommitOnStart, CommitOnResume, CommitDeferredIdle
<1>7. ASSUME NEW t \in Threads, Landed(t) PROVE TypeOK'
  BY <1>7 DEF Landed
<1>8. ASSUME NEW t \in Threads, Jump(t) PROVE TypeOK'
  BY <1>8 DEF Jump, Enter
<1>9. ASSUME NEW t \in Threads, JumpBack(t) PROVE TypeOK'
  BY <1>9 DEF JumpBack
<1>10. ASSUME NEW t \in Threads, EndedLeaves(t) PROVE TypeOK'
  BY <1>10 DEF EndedLeaves
<1>11. ASSUME NEW t \in Threads, RunCommit(t) PROVE TypeOK'
  BY <1>11 DEF RunCommit, CommitOnReturn, CommitDeferredIdle
<1>12. ASSUME NEW t \in Threads, RunReads(t) PROVE TypeOK'
  BY <1>12 DEF RunReads
<1>13. ASSUME NEW t \in Threads, FinalizeReleases(t) PROVE TypeOK'
  BY <1>13 DEF FinalizeReleases
<1>14. ASSUME NEW t \in Threads, NEW arg \in ReturnArgs, ReturnSave(t, arg) PROVE TypeOK'
  BY <1>14 DEF ReturnSave, DeferIdle
<1>15. ASSUME NEW t \in Threads, EntryEnds(t) PROVE TypeOK'
  BY <1>15 DEF EntryEnds
<1>16. ASSUME NEW f \in Fibers, Initialize(f) PROVE TypeOK'
  BY <1>16 DEF Initialize, NoCallAbout
<1>17. CASE UNCHANGED vars
  BY <1>17 DEF vars
<1>18. QED
  BY <1>1, <1>2, <1>3, <1>4, <1>5, <1>6, <1>7, <1>8, <1>9, <1>10, <1>11, <1>12, <1>13, <1>14, <1>15, <1>16, <1>17 DEF Next, InCall, GuestCalls

LEMMA PlaceStep ==
  ASSUME FiberInv, [Next]_vars, NEW u \in Threads
  PROVE  PlaceInv(u)'
<1> USE FiberAssumption
    DEF FiberInv, TypeOK, PlaceInv, OnOwnStack, Targeting, Releasing, HeldInv, Held,
        OnEndedStack, GoTo, threadLocals, fiberVars, history
<1>1. ASSUME NEW t \in Threads, NEW f \in Fibers, RunClaim(t, f) PROVE PlaceInv(u)'
  BY <1>1 DEF RunClaim, Claimable
<1>2. ASSUME NEW t \in Threads, NEW f \in Fibers, SwitchClaim(t, f) PROVE PlaceInv(u)'
  BY <1>2 DEF SwitchClaim, Claimable
<1>3. ASSUME NEW t \in Threads, NEW f \in Fibers, FinalizeClaim(t, f) PROVE PlaceInv(u)'
  BY <1>3 DEF FinalizeClaim, Claimable
<1>4. ASSUME NEW t \in Threads, NEW arg \in RunArgs, RunEnter(t, arg) PROVE PlaceInv(u)'
  BY <1>4 DEF RunEnter, PassArguments, Enter
<1>5. ASSUME NEW t \in Threads, NEW arg \in RunArgs, SwitchSave(t, arg) PROVE PlaceInv(u)'
  BY <1>5 DEF SwitchSave, PassArguments, DeferIdle
<1>6. ASSUME NEW t \in Threads, Landing(t) PROVE PlaceInv(u)'
  BY <1>6 DEF Landing, CommitOnStart, CommitOnResume, CommitDeferredIdle
<1>7. ASSUME NEW t \in Threads, Landed(t) PROVE PlaceInv(u)'
  BY <1>7 DEF Landed
<1>8. ASSUME NEW t \in Threads, Jump(t) PROVE PlaceInv(u)'
  BY <1>8 DEF Jump, Enter
<1>9. ASSUME NEW t \in Threads, JumpBack(t) PROVE PlaceInv(u)'
  BY <1>9 DEF JumpBack
<1>10. ASSUME NEW t \in Threads, EndedLeaves(t) PROVE PlaceInv(u)'
  BY <1>10 DEF EndedLeaves
<1>11. ASSUME NEW t \in Threads, RunCommit(t) PROVE PlaceInv(u)'
  BY <1>11 DEF RunCommit, CommitOnReturn, CommitDeferredIdle
<1>12. ASSUME NEW t \in Threads, RunReads(t) PROVE PlaceInv(u)'
  BY <1>12 DEF RunReads
<1>13. ASSUME NEW t \in Threads, FinalizeReleases(t) PROVE PlaceInv(u)'
  BY <1>13 DEF FinalizeReleases
<1>14. ASSUME NEW t \in Threads, NEW arg \in ReturnArgs, ReturnSave(t, arg) PROVE PlaceInv(u)'
  BY <1>14 DEF ReturnSave, DeferIdle
<1>15. ASSUME NEW t \in Threads, EntryEnds(t) PROVE PlaceInv(u)'
  BY <1>15 DEF EntryEnds
<1>16. ASSUME NEW f \in Fibers, Initialize(f) PROVE PlaceInv(u)'
  BY <1>16 DEF Initialize, NoCallAbout
<1>17. CASE UNCHANGED vars
  BY <1>17 DEF vars
<1>18. QED
  BY <1>1, <1>2, <1>3, <1>4, <1>5, <1>6, <1>7, <1>8, <1>9, <1>10, <1>11, <1>12, <1>13, <1>14, <1>15, <1>16, <1>17 DEF Next, InCall, GuestCalls

LEMMA HeldStep ==
  ASSUME FiberInv, [Next]_vars
  PROVE  HeldInv'
<1> USE FiberAssumption
    DEF FiberInv, TypeOK, PlaceInv, OnOwnStack, Targeting, Releasing, HeldInv, Held,
        OnEndedStack, GoTo, threadLocals, fiberVars, history
<1>1. ASSUME NEW t \in Threads, NEW f \in Fibers, RunClaim(t, f) PROVE HeldInv'
  BY <1>1 DEF RunClaim, Claimable
<1>2. ASSUME NEW t \in Threads, NEW f \in Fibers, SwitchClaim(t, f) PROVE HeldInv'
  <2>1. state[f] = "Idle" /\ pc[t] = "body"
    BY <1>2 DEF SwitchClaim, Claimable
  <2>2. \A v \in Threads : f \notin Held(v)
    BY <2>1
  <2>3. \A v \in Threads : Held(v)' = IF v = t THEN Held(t) \cup {f} ELSE Held(v)
    BY <1>2, <2>1 DEF SwitchClaim
  <2>4. \A v \in Threads : OnEndedStack(v)' = OnEndedStack(v) /\ ~ OnEndedStack(t)
    BY <1>2 DEF SwitchClaim
  <2>5. state' = [state EXCEPT ![f] = "Running"] /\ UNCHANGED leased
    BY <1>2 DEF SwitchClaim, fiberVars
  <2>6. \A v \in Threads : pc'[v] = "finalizing" => pc[v] = "finalizing" /\ target'[v] = target[v] /\ target[v] # f
    BY <1>2, <2>1 DEF SwitchClaim
  <2>7. QED
    BY <2>1, <2>2, <2>3, <2>4, <2>5, <2>6 DEF HeldInv
<1>3. ASSUME NEW t \in Threads, NEW f \in Fibers, FinalizeClaim(t, f) PROVE HeldInv'
  BY <1>3 DEF FinalizeClaim, Claimable
<1>4. ASSUME NEW t \in Threads, NEW arg \in RunArgs, RunEnter(t, arg) PROVE HeldInv'
  <2>1. \A v \in Threads : Held(v)' = Held(v)
    BY <1>4 DEF RunEnter, PassArguments, Enter
  <2>2. \A v \in Threads : OnEndedStack(v)' = OnEndedStack(v)
    BY <1>4 DEF RunEnter, Enter
  <2>3. UNCHANGED <<state, leased>>
    BY <1>4 DEF RunEnter
  <2>4. \A v \in Threads : pc'[v] = "finalizing" => pc[v] = "finalizing" /\ target'[v] = target[v]
    BY <1>4 DEF RunEnter, Enter
  <2>5. QED
    BY <2>1, <2>2, <2>3, <2>4 DEF HeldInv
<1>5. ASSUME NEW t \in Threads, NEW arg \in RunArgs, SwitchSave(t, arg) PROVE HeldInv'
  BY <1>5 DEF SwitchSave, PassArguments, DeferIdle
<1>6. ASSUME NEW t \in Threads, Landing(t) PROVE HeldInv'
  BY <1>6 DEF Landing, CommitOnStart, CommitOnResume, CommitDeferredIdle
<1>7. ASSUME NEW t \in Threads, Landed(t) PROVE HeldInv'
  BY <1>7 DEF Landed
<1>8. ASSUME NEW t \in Threads, Jump(t) PROVE HeldInv'
  BY <1>8 DEF Jump, Enter
<1>9. ASSUME NEW t \in Threads, JumpBack(t) PROVE HeldInv'
  BY <1>9 DEF JumpBack
<1>10. ASSUME NEW t \in Threads, EndedLeaves(t) PROVE HeldInv'
  BY <1>10 DEF EndedLeaves
<1>11. ASSUME NEW t \in Threads, RunCommit(t) PROVE HeldInv'
  BY <1>11 DEF RunCommit, CommitOnReturn, CommitDeferredIdle
<1>12. ASSUME NEW t \in Threads, RunReads(t) PROVE HeldInv'
  BY <1>12 DEF RunReads
<1>13. ASSUME NEW t \in Threads, FinalizeReleases(t) PROVE HeldInv'
  BY <1>13 DEF FinalizeReleases
<1>14. ASSUME NEW t \in Threads, NEW arg \in ReturnArgs, ReturnSave(t, arg) PROVE HeldInv'
  BY <1>14 DEF ReturnSave, DeferIdle
<1>15. ASSUME NEW t \in Threads, EntryEnds(t) PROVE HeldInv'
  BY <1>15 DEF EntryEnds
<1>16. ASSUME NEW f \in Fibers, Initialize(f) PROVE HeldInv'
  BY <1>16 DEF Initialize, NoCallAbout
<1>17. CASE UNCHANGED vars
  BY <1>17 DEF vars
<1>18. QED
  BY <1>1, <1>2, <1>3, <1>4, <1>5, <1>6, <1>7, <1>8, <1>9, <1>10, <1>11, <1>12, <1>13, <1>14, <1>15, <1>16, <1>17 DEF Next, InCall, GuestCalls

LEMMA ArgumentStep ==
  ASSUME FiberInv, ArgumentInv, [Next]_vars
  PROVE  ArgumentInv'
<1> USE FiberAssumption
    DEF FiberInv, ArgumentInv, CameBack, TypeOK, PlaceInv, OnOwnStack, Targeting, Releasing, HeldInv, Held,
        OnEndedStack, GoTo, threadLocals, fiberVars, history
<1>1. ASSUME NEW t \in Threads, NEW f \in Fibers, RunClaim(t, f) PROVE ArgumentInv'
  BY <1>1 DEF RunClaim, Claimable
<1>2. ASSUME NEW t \in Threads, NEW f \in Fibers, SwitchClaim(t, f) PROVE ArgumentInv'
  BY <1>2 DEF SwitchClaim, Claimable
<1>3. ASSUME NEW t \in Threads, NEW f \in Fibers, FinalizeClaim(t, f) PROVE ArgumentInv'
  BY <1>3 DEF FinalizeClaim, Claimable
<1>4. ASSUME NEW t \in Threads, NEW arg \in RunArgs, RunEnter(t, arg) PROVE ArgumentInv'
  BY <1>4 DEF RunEnter, PassArguments, Enter
<1>5. ASSUME NEW t \in Threads, NEW arg \in RunArgs, SwitchSave(t, arg) PROVE ArgumentInv'
  BY <1>5 DEF SwitchSave, PassArguments, DeferIdle
<1>6. ASSUME NEW t \in Threads, Landing(t) PROVE ArgumentInv'
  BY <1>6 DEF Landing, CommitOnStart, CommitOnResume, CommitDeferredIdle
<1>7. ASSUME NEW t \in Threads, Landed(t) PROVE ArgumentInv'
  BY <1>7 DEF Landed
<1>8. ASSUME NEW t \in Threads, Jump(t) PROVE ArgumentInv'
  BY <1>8 DEF Jump, Enter
<1>9. ASSUME NEW t \in Threads, JumpBack(t) PROVE ArgumentInv'
  BY <1>9 DEF JumpBack
<1>10. ASSUME NEW t \in Threads, EndedLeaves(t) PROVE ArgumentInv'
  BY <1>10 DEF EndedLeaves
<1>11. ASSUME NEW t \in Threads, RunCommit(t) PROVE ArgumentInv'
  BY <1>11 DEF RunCommit, CommitOnReturn, CommitDeferredIdle
<1>12. ASSUME NEW t \in Threads, RunReads(t) PROVE ArgumentInv'
  BY <1>12 DEF RunReads
<1>13. ASSUME NEW t \in Threads, FinalizeReleases(t) PROVE ArgumentInv'
  BY <1>13 DEF FinalizeReleases
<1>14. ASSUME NEW t \in Threads, NEW arg \in ReturnArgs, ReturnSave(t, arg) PROVE ArgumentInv'
  BY <1>14 DEF ReturnSave, DeferIdle
<1>15. ASSUME NEW t \in Threads, EntryEnds(t) PROVE ArgumentInv'
  BY <1>15 DEF EntryEnds
<1>16. ASSUME NEW f \in Fibers, Initialize(f) PROVE ArgumentInv'
  BY <1>16 DEF Initialize, NoCallAbout
<1>17. CASE UNCHANGED vars
  BY <1>17 DEF vars
<1>18. QED
  BY <1>1, <1>2, <1>3, <1>4, <1>5, <1>6, <1>7, <1>8, <1>9, <1>10, <1>11, <1>12, <1>13, <1>14, <1>15, <1>16, <1>17 DEF Next, InCall, GuestCalls

----------------------------------------------------------------------------
(* The theorems                                                            *)

LEMMA Invariance == Spec => [](FiberInv /\ ArgumentInv)
<1>1. Init => FiberInv /\ ArgumentInv
  BY InitInv DEF Init, ArgumentInv
<1>2. (FiberInv /\ ArgumentInv) /\ [Next]_vars => (FiberInv /\ ArgumentInv)'
  <2> SUFFICES ASSUME FiberInv, ArgumentInv, [Next]_vars
               PROVE  FiberInv' /\ ArgumentInv'
    OBVIOUS
  <2>1. FiberInv'
    BY TypeStep, PlaceStep, HeldStep DEF FiberInv
  <2>2. ArgumentInv'
    BY ArgumentStep
  <2>3. QED
    BY <2>1, <2>2
<1>3. QED
  BY <1>1, <1>2, PTL DEF Spec

(* The state word is the lease of the fiber's stack (FiberOwnership.h): a  *)
(* running fiber has one holder and a fiber for the taking has none,       *)
(* however many threads and fibers there are.                              *)
THEOREM LeaseCorrect == Spec => []LeaseIsExact
<1>1. FiberInv => LeaseIsExact
  BY FiberAssumption
  DEF FiberInv, TypeOK, PlaceInv, HeldInv, OnEndedStack, LeaseIsExact
<1>2. QED
  BY <1>1, Invariance, PTL

(* Two threads never execute on one stack, and the host holds the write    *)
(* lease of a stack that a thread is on (g_context_leases).                *)
THEOREM StacksCorrect == Spec => []OneThreadPerStack
<1>1. FiberInv => OneThreadPerStack
  BY FiberAssumption DEF FiberInv, TypeOK, HeldInv, Held, OneThreadPerStack
<1>2. QED
  BY <1>1, Invariance, PTL

(* A fiber that is run or switched to finds the argument of that call, and *)
(* the argument passed back is in place until the fiber is released.       *)
THEOREM ArgumentsCorrect == Spec => []ArgumentArrives
<1>1. ArgumentInv => ArgumentArrives
  BY DEF ArgumentInv, CameBack, ArgumentArrives
<1>2. QED
  BY <1>1, Invariance, PTL
=============================================================================
