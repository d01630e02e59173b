------------------------------- MODULE Fiber -------------------------------
(***************************************************************************)
(* Fibers (Kernel/Fiber.cpp, Kernel/FiberOwnership.h): execution contexts  *)
(* with a stack of their own that guest threads run, switch between and    *)
(* return from.  A fiber may be resumed by another thread than the one     *)
(* that left it.  Its state word is the lease of its stack: it is taken by *)
(* a compare-and-exchange, and given back by the code that runs next on    *)
(* the thread, which finds the fiber to release in a thread-local.         *)
(*                                                                         *)
(* A step is one access to memory that another thread may touch, together  *)
(* with the thread's own work around it.                                   *)
(***************************************************************************)

CONSTANTS Threads, Fibers,
          NoFiber,      \* a null pointer; as a stack, the thread's own
          RunArgs,      \* arguments passed to a fiber that is run or resumed
          ReturnArgs,   \* arguments a fiber passes back to the thread
          Zero          \* the value of an argument nobody has passed

ASSUME FiberAssumption == NoFiber \notin Fibers /\ RunArgs # {} /\ ReturnArgs # {}

VARIABLES
  state, contextValid, argOnRun, argOnReturn,  \* fields of FiberObject
  leased,        \* fibers with a HostWriteLease in g_context_leases
  stack,         \* per thread: the fiber on whose stack it executes
  current, returnFiber, pendingIdle,           \* the thread-locals
  pc, target,    \* per thread: where it is; the fiber its call is about
  sent,          \* history, per thread: argument of the run or switch under way
  given          \* history, per thread: argument being passed back to it

fiberVars == <<state, contextValid, argOnRun, argOnReturn, leased>>
threadLocals == <<current, returnFiber, pendingIdle>>
history == <<sent, given>>
vars == <<fiberVars, stack, threadLocals, pc, target, history>>

Pcs == {"thread", "finalizing", "enter", "body", "leave", "jump", "landing", "landed",
        "jumpBack", "ended", "back", "committed"}

TypeOK ==
  /\ state \in [Fibers -> {"Idle", "Running", "Terminated"}]
  /\ contextValid \in [Fibers -> BOOLEAN] /\ leased \subseteq Fibers
  /\ argOnRun \in [Fibers -> RunArgs \cup {Zero}]
  /\ argOnReturn \in [Fibers -> ReturnArgs \cup {Zero}]
  /\ {stack, current, returnFiber, pendingIdle, target} \subseteq [Threads -> Fibers \cup {NoFiber}]
  /\ pc \in [Threads -> Pcs]
  /\ sent \in [Threads -> RunArgs \cup {Zero}]
  /\ given \in [Threads -> ReturnArgs \cup {Zero}]

(* Every fiber has been initialised.                                       *)
Init ==
  /\ state = [f \in Fibers |-> "Idle"] /\ contextValid = [f \in Fibers |-> FALSE]
  /\ argOnRun = [f \in Fibers |-> Zero] /\ argOnReturn = [f \in Fibers |-> Zero]
  /\ leased = Fibers
  /\ stack = [t \in Threads |-> NoFiber] /\ current = [t \in Threads |-> NoFiber]
  /\ returnFiber = [t \in Threads |-> NoFiber] /\ pendingIdle = [t \in Threads |-> NoFiber]
  /\ pc = [t \in Threads |-> "thread"] /\ target = [t \in Threads |-> NoFiber]
  /\ sent = [t \in Threads |-> Zero] /\ given = [t \in Threads |-> Zero]

GoTo(t, place) == pc' = [pc EXCEPT ![t] = place]

----------------------------------------------------------------------------
(* The lease                                                               *)

(* FiberCompareExchangeState.  Mutant: a running fiber is taken as well.   *)
ClaimableUnlessEnded(f) == state[f] # "Terminated"
Claimable(f) == state[f] = "Idle"

(* FiberDeferIdle: the fiber is released after the thread left its stack.  *)
(* Mutant: it is released here.                                            *)
PublishIdleAtOnce(t, f) ==
  /\ state' = [state EXCEPT ![f] = "Idle"]
  /\ UNCHANGED pendingIdle
DeferIdle(t, f) ==
  /\ pendingIdle' = [pendingIdle EXCEPT ![t] = f]
  /\ UNCHANGED state

(* FiberCommitDeferredIdle                                                 *)
CommitDeferredIdle(t) ==
  /\ pendingIdle' = [pendingIdle EXCEPT ![t] = NoFiber]
  /\ state' = IF pendingIdle[t] = NoFiber THEN state
              ELSE [state EXCEPT ![pendingIdle[t]] = "Idle"]

(* Each place a thread lands has its own call.  Mutant: one is forgotten.  *)
CommitNothing(t) == UNCHANGED <<state, pendingIdle>>
CommitOnStart(t) == CommitDeferredIdle(t)
CommitOnResume(t) == CommitDeferredIdle(t)
CommitOnReturn(t) == CommitDeferredIdle(t)

----------------------------------------------------------------------------
(* FiberRun, from the thread's own stack                                   *)

RunClaim(t, f) ==
  /\ pc[t] = "thread" /\ current[t] = NoFiber
  /\ Claimable(f)
  /\ state' = [state EXCEPT ![f] = "Running"]
  /\ target' = [target EXCEPT ![t] = f]
  /\ GoTo(t, "enter")
  /\ UNCHANGED <<contextValid, argOnRun, argOnReturn, leased, stack, threadLocals, history>>

(* The arguments of the fiber that is about to be entered.                 *)
PassArguments(t, arg) ==
  /\ argOnRun' = [argOnRun EXCEPT ![target[t]] = arg]
  /\ argOnReturn' = [argOnReturn EXCEPT ![target[t]] = Zero]
  /\ sent' = [sent EXCEPT ![t] = arg]

(* FiberRestoreContext or FiberStartOnGuestStack of the claimed fiber.      *)
Enter(t) ==
  /\ stack' = [stack EXCEPT ![t] = target[t]]
  /\ target' = [target EXCEPT ![t] = NoFiber]
  /\ GoTo(t, "landing")

RunEnter(t, arg) ==
  /\ pc[t] = "enter"
  /\ PassArguments(t, arg)
  /\ returnFiber' = [returnFiber EXCEPT ![t] = NoFiber]
  /\ Enter(t)
  /\ UNCHANGED <<state, contextValid, leased, current, pendingIdle, given>>

----------------------------------------------------------------------------
(* A thread lands on a fiber's stack: in FiberStartTrampoline for a fiber  *)
(* without a context, after the save of FiberSwitch or FiberReturnToThread *)
(* for one that was left.                                                  *)

Landing(t) ==
  /\ pc[t] = "landing"
  /\ IF contextValid[stack[t]] THEN CommitOnResume(t) ELSE CommitOnStart(t)
  /\ GoTo(t, "landed")
  /\ UNCHANGED <<contextValid, argOnRun, argOnReturn, leased, stack, current, returnFiber, target, history>>

(* The argument is read here, as the entry's or as the call's result.      *)
Landed(t) ==
  /\ pc[t] = "landed"
  /\ current' = [current EXCEPT ![t] = stack[t]]
  /\ state' = IF contextValid[stack[t]] THEN [state EXCEPT ![stack[t]] = "Running"] ELSE state
  /\ sent' = [sent EXCEPT ![t] = Zero]
  /\ GoTo(t, "body")
  /\ UNCHANGED <<contextValid, argOnRun, argOnReturn, leased, stack, returnFiber, pendingIdle, target, given>>

----------------------------------------------------------------------------
(* FiberSwitch.  A switch that finds its target running waits 5 ms, one    *)
(* that finds it terminated fails: both return without a change.           *)

SwitchClaim(t, f) ==
  /\ pc[t] = "body"
  /\ Claimable(f)
  /\ state' = [state EXCEPT ![f] = "Running"]
  /\ target' = [target EXCEPT ![t] = f]
  /\ GoTo(t, "leave")
  /\ UNCHANGED <<contextValid, argOnRun, argOnReturn, leased, stack, threadLocals, history>>

SwitchSave(t, arg) ==
  /\ pc[t] = "leave"
  /\ PassArguments(t, arg)
  /\ contextValid' = [contextValid EXCEPT ![current[t]] = TRUE]
  /\ DeferIdle(t, current[t])
  /\ GoTo(t, "jump")
  /\ UNCHANGED <<leased, stack, current, returnFiber, target, given>>

Jump(t) ==
  /\ pc[t] = "jump"
  /\ Enter(t)
  /\ UNCHANGED <<fiberVars, threadLocals, history>>

----------------------------------------------------------------------------
(* FiberReturnToThread, and the end of a fiber's entry function            *)

ReturnSave(t, arg) ==
  /\ pc[t] = "body"
  /\ LET f == current[t] IN
     /\ argOnReturn' = [argOnReturn EXCEPT ![f] = arg]
     /\ contextValid' = [contextValid EXCEPT ![f] = TRUE]
     /\ returnFiber' = [returnFiber EXCEPT ![t] = f]
     /\ DeferIdle(t, f)
  /\ given' = [given EXCEPT ![t] = arg]
  /\ GoTo(t, "jumpBack")
  /\ UNCHANGED <<argOnRun, leased, stack, current, target, sent>>

JumpBack(t) ==
  /\ pc[t] = "jumpBack"
  /\ stack' = [stack EXCEPT ![t] = NoFiber]
  /\ GoTo(t, "back")
  /\ UNCHANGED <<fiberVars, threadLocals, target, history>>

EntryEnds(t) ==
  /\ pc[t] = "body"
  /\ state' = [state EXCEPT ![stack[t]] = "Terminated"]
  /\ GoTo(t, "ended")
  /\ UNCHANGED <<contextValid, argOnRun, argOnReturn, leased, stack, threadLocals, target, history>>

EndedLeaves(t) ==
  /\ pc[t] = "ended"
  /\ contextValid' = [contextValid EXCEPT ![stack[t]] = FALSE]
  /\ argOnReturn' = [argOnReturn EXCEPT ![stack[t]] = Zero]
  /\ returnFiber' = [returnFiber EXCEPT ![t] = stack[t]]
  /\ current' = [current EXCEPT ![t] = NoFiber]
  /\ given' = [given EXCEPT ![t] = Zero]
  /\ GoTo(t, "jumpBack")
  /\ UNCHANGED <<state, argOnRun, leased, stack, pendingIdle, target, sent>>

(* The rest of FiberRun.  Every way back has set returnFiber.  Last, the   *)
(* state word is read for the result code, which changes nothing.          *)

RunCommit(t) ==
  /\ pc[t] = "back"
  /\ CommitOnReturn(t)
  /\ current' = [current EXCEPT ![t] = NoFiber]
  /\ GoTo(t, "committed")
  /\ UNCHANGED <<contextValid, argOnRun, argOnReturn, leased, stack, returnFiber, target, history>>

(* *arg_on_return = returned_fiber->arg_on_return                          *)
RunReads(t) ==
  /\ pc[t] = "committed"
  /\ given' = [given EXCEPT ![t] = Zero]
  /\ returnFiber' = [returnFiber EXCEPT ![t] = NoFiber]
  /\ GoTo(t, "thread")
  /\ UNCHANGED <<fiberVars, stack, current, pendingIdle, target, sent>>

----------------------------------------------------------------------------
(* FiberFinalize, and FiberInitialize on the same object                   *)

FinalizeClaim(t, f) ==
  /\ pc[t] \in {"thread", "body"}
  /\ Claimable(f)
  /\ state' = [state EXCEPT ![f] = "Terminated"]
  /\ target' = [target EXCEPT ![t] = f]
  /\ GoTo(t, "finalizing")
  /\ UNCHANGED <<contextValid, argOnRun, argOnReturn, leased, stack, threadLocals, history>>

FinalizeReleases(t) ==
  /\ pc[t] = "finalizing"
  /\ leased' = leased \ {target[t]}
  /\ target' = [target EXCEPT ![t] = NoFiber]
  /\ GoTo(t, IF stack[t] = NoFiber THEN "thread" ELSE "body")
  /\ UNCHANGED <<state, contextValid, argOnRun, argOnReturn, stack, threadLocals, history>>

(* FiberInitialize does not look at the state: a guest calls it on an      *)
(* object that no call of another thread is about any more.                *)
NoCallAbout(f) ==
  \A t \in Threads : f \notin {stack[t], target[t], returnFiber[t], pendingIdle[t]}

Initialize(f) ==
  /\ state[f] = "Terminated" /\ NoCallAbout(f)
  /\ state' = [state EXCEPT ![f] = "Idle"]
  /\ contextValid' = [contextValid EXCEPT ![f] = FALSE]
  /\ argOnRun' = [argOnRun EXCEPT ![f] = Zero]
  /\ argOnReturn' = [argOnReturn EXCEPT ![f] = Zero]
  /\ leased' = leased \cup {f}
  /\ UNCHANGED <<stack, threadLocals, pc, target, history>>

----------------------------------------------------------------------------
(* What a thread does once it is inside one of the calls.                  *)
InCall(t) ==
  \/ \E arg \in RunArgs : RunEnter(t, arg) \/ SwitchSave(t, arg)
  \/ Landing(t) \/ Landed(t) \/ Jump(t) \/ JumpBack(t)
  \/ EndedLeaves(t) \/ RunCommit(t) \/ RunReads(t) \/ FinalizeReleases(t)

GuestCalls(t) ==
  \/ \E f \in Fibers : RunClaim(t, f) \/ SwitchClaim(t, f) \/ FinalizeClaim(t, f)
  \/ \E arg \in ReturnArgs : ReturnSave(t, arg)
  \/ EntryEnds(t)

Next == (\E t \in Threads : InCall(t) \/ GuestCalls(t)) \/ (\E f \in Fibers : Initialize(f))

Spec == Init /\ [][Next]_vars

(* The host schedules every thread; what a guest calls and when is its own.*)
FairSpec == Spec /\ \A t \in Threads : WF_vars(InCall(t))

----------------------------------------------------------------------------
(* Properties *)

\* The fibers whose lease thread t holds: the one on whose stack it is, the
\* one it is about to enter, the one it has left and is about to release.
Held(t) ==
  {f \in Fibers :
     \/ stack[t] = f
     \/ target[t] = f /\ pc[t] \in {"enter", "leave", "jump"}
     \/ pendingIdle[t] = f}

(***************************************************************************)
(* FiberOwnership.h: whoever took a fiber from Idle to Running owns its    *)
(* stack until it has left it, and the state word says so: a running fiber *)
(* has one holder, a fiber that is free for the taking has none.  A lease  *)
(* is never lost, so no fiber stays Running with nobody on it; and a       *)
(* thread that runs guest code knows the fiber it is on.                   *)
(***************************************************************************)
LeaseIsExact ==
  /\ TypeOK
  /\ \A f \in Fibers :
       /\ state[f] = "Running" => \E t \in Threads : f \in Held(t)
       /\ state[f] = "Idle" => \A t \in Threads : f \notin Held(t)
  /\ \A t, u \in Threads : t # u => Held(t) \cap Held(u) = {}
  /\ \A t \in Threads : pc[t] \in {"body", "leave"} => current[t] = stack[t]

(***************************************************************************)
(* No two threads execute on one stack, whatever the state word says, and  *)
(* a thread is on a stack only while the host writes through the lease of  *)
(* that stack (g_context_leases).                                          *)
(***************************************************************************)
OneThreadPerStack ==
  /\ TypeOK
  /\ \A t, u \in Threads :
       stack[t] # NoFiber => /\ stack[t] \in leased
                             /\ stack[u] = stack[t] => u = t

(***************************************************************************)
(* Arguments lie in the object that all threads share.  A fiber that       *)
(* starts or goes on finds the one of the call that made it do so; and     *)
(* until FiberRun releases the fiber that came back, the fiber holds the   *)
(* argument of the FiberReturnToThread that left it (zero if it ended).    *)
(***************************************************************************)
ArgumentArrives ==
  \A t \in Threads :
    /\ pc[t] = "landed" => argOnRun[stack[t]] = sent[t]
    /\ pc[t] \in {"jumpBack", "back"} => argOnReturn[returnFiber[t]] = given[t]

(***************************************************************************)
(* A fiber that a thread has left can soon be run again: the thread does   *)
(* commit the deferred release, wherever it lands.                         *)
(***************************************************************************)
LeftFiberIsFreed ==
  \A f \in Fibers :
    (state[f] = "Running" /\ \A t \in Threads : stack[t] # f)
      ~> (state[f] = "Idle" \/ \E t \in Threads : stack[t] = f)
=============================================================================
