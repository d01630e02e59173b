----------------------------- MODULE EventFlag -----------------------------
(***************************************************************************)
(* One kernel event flag (KernelEventFlagPrivate in EventFlag.cpp) and the *)
(* guest threads that call it.  All the code of the class runs under       *)
(* m_mutex and gives it up only inside a condition-variable wait, so an    *)
(* action is the code between two waits: entry to first wait, wake-up to   *)
(* next wait, wake-up to return.                                           *)
(*                                                                         *)
(* m_cond_var is the set `asleep` of the threads that wait on it.  A       *)
(* thread whose pc is at a wait and that is not asleep has been woken and  *)
(* contends for the mutex.                                                 *)
(***************************************************************************)
EXTENDS Integers, FiniteSets

CONSTANTS Threads,   \* guest threads
          Bits,      \* bit positions of the 64-bit pattern that are used
          Offered    \* the calls the threads make

Ops       == {"Wait", "Set", "Clear", "Cancel", "Delete"}
Timeouts  == {"Infinite", "Finite", "Zero"}   \* "Zero" is KernelPollEventFlag
Calls     == [op : Ops, pattern : SUBSET Bits, mode : {"And", "Or"},
              clear : {"None", "All", "Bits"}, timeout : Timeouts]
NoCall    == [op |-> "Set", pattern |-> {}, mode |-> "And", clear |-> "None",
              timeout |-> "Infinite"]

ASSUME ThreadsAssumption == IsFiniteSet(Threads)
ASSUME OfferedAssumption == Offered \subseteq Calls

VARIABLES status,          \* m_status
          waitingThreads,  \* m_waiting_threads
          activeWaitCalls, \* m_active_wait_calls
          bits,            \* m_bits
          single,          \* m_single_thread
          registered,      \* the handle is in g_live_event_flags
          pc, call, result,\* per thread: where it is, its call, its last result
          asleep,          \* threads asleep on m_cond_var
          expired,         \* threads whose timed wait has used up its time
          reported, told   \* history: number the last Cancel reported, and
                           \* waits that returned ECANCELED since then

vars == <<status, waitingThreads, activeWaitCalls, bits, single, registered,
          pc, call, result, asleep, expired, reported, told>>
flag == <<status, waitingThreads, activeWaitCalls, bits>>

Statuses == {"Set", "Canceled", "Deleted"}
(* "entry": holds a shared_ptr and has not locked m_mutex yet.  "settle": in *)
(* a wait for the end of a cancellation.  "counted": in the second loop of   *)
(* Wait.  "cancel", "delete": in the draining loop of Cancel, Delete.        *)
PCs      == {"idle", "entry", "settle", "counted", "cancel", "delete"}
Results  == {"None", "OK", "ESRCH", "EINVAL", "EPERM", "ETIMEDOUT",
             "ECANCELED", "EACCES", "EBUSY"}

TypeOK ==
  /\ status \in Statuses
  /\ waitingThreads \in Nat
  /\ activeWaitCalls \in Nat
  /\ bits \in SUBSET Bits
  /\ single \in BOOLEAN
  /\ registered \in BOOLEAN
  /\ pc \in [Threads -> PCs]
  /\ call \in [Threads -> Calls]
  /\ result \in [Threads -> Results]
  /\ asleep \in SUBSET Threads
  /\ expired \in SUBSET Threads
  /\ reported \in Nat
  /\ told \in Nat

IsWait(t) == call[t].op = "Wait"

(* condition_satisfied of Wait *)
Satisfied(t) == IF call[t].mode = "And" THEN call[t].pattern \subseteq bits
                                        ELSE call[t].pattern \cap bits # {}

(* The error code of the API for a result of the object. *)
ErrorCode(t, r) ==
  CASE r = "Ok"             -> "OK"
    [] r = "AlreadyWaiting" -> "EPERM"
    [] r = "TimedOut"       -> IF call[t].timeout = "Zero" THEN "EBUSY" ELSE "ETIMEDOUT"
    [] r = "Canceled"       -> IF call[t].timeout = "Zero" THEN "EBUSY" ELSE "ECANCELED"
    [] r = "Deleted"        -> IF call[t].timeout = "Zero" THEN "EBUSY" ELSE "EACCES"

Init ==
  /\ status = "Set"
  /\ waitingThreads = 0
  /\ activeWaitCalls = 0
  /\ bits \in SUBSET Bits
  /\ single \in BOOLEAN
  /\ registered = TRUE
  /\ pc = [t \in Threads |-> "idle"]
  /\ call = [t \in Threads |-> NoCall]
  /\ result = [t \in Threads |-> "None"]
  /\ asleep = {}
  /\ expired = {}
  /\ reported = 0
  /\ told = 0

----------------------------------------------------------------------------
(* The API functions up to the call of the object. *)

(* EventFlagAcquire or, for a delete, EventFlagUnregister: the handle is   *)
(* looked up and the object pinned, before its mutex is taken.             *)
Acquire(t, c) ==
  /\ pc[t] = "idle"
  /\ IF registered /\ ~(c.op = "Wait" /\ c.pattern = {})
       THEN /\ pc' = [pc EXCEPT ![t] = "entry"]
            /\ call' = [call EXCEPT ![t] = c]
            /\ result' = [result EXCEPT ![t] = "None"]
            /\ expired' = IF c.op = "Wait" /\ c.timeout = "Zero" THEN expired \cup {t} ELSE expired
       ELSE /\ result' = [result EXCEPT ![t] = IF registered THEN "EINVAL" ELSE "ESRCH"]
            /\ UNCHANGED <<pc, call, expired>>
  /\ registered' = (registered /\ c.op # "Delete")
  /\ UNCHANGED <<flag, single, asleep, reported, told>>

(* The call is over: its arguments die with it. *)
Return(t, code) ==
  /\ pc' = [pc EXCEPT ![t] = "idle"]
  /\ result' = [result EXCEPT ![t] = code]
  /\ call' = [call EXCEPT ![t] = NoCall]

----------------------------------------------------------------------------
(* Wait *)

(* The WaitCallGuard destructor, run with `active` calls inside, wakes the *)
(* draining Delete.  Mutant: it only decrements.                           *)
GuardNeverWakes(active) == FALSE
GuardWakes(active) == status = "Deleted" /\ active = 1

(* The calls inside after the guard's destructor. *)
OneLess(active) == active - 1

(* Wait returns: the WaitCallGuard destructor runs last, under the mutex.  *)
(* `active` is the number of calls inside, `woken` the sleepers already    *)
(* woken by this step.                                                     *)
LeaveWait(t, r, active, woken) ==
  /\ Return(t, ErrorCode(t, r))
  /\ expired' = expired \ {t}
  /\ activeWaitCalls' = OneLess(active)
  /\ asleep' = IF GuardWakes(active) THEN {} ELSE asleep \ woken
  /\ told' = IF r = "Canceled" THEN told + 1 ELSE told

SleepInWait(t, where, active) ==
  /\ pc' = [pc EXCEPT ![t] = where]
  /\ activeWaitCalls' = active
  /\ asleep' = asleep \cup {t}
  /\ UNCHANGED <<call, result, expired, told>>

(* The bits after a satisfied wait, by its ClearMode. *)
Taken(t) == CASE call[t].clear = "None" -> bits
              [] call[t].clear = "All"  -> {}
              [] call[t].clear = "Bits" -> bits \ call[t].pattern

(* The timer, read after every wake-up, against the time given. *)
TimedOut(t) == t \in expired

(* One turn of the second loop, entered with `waiting` other threads       *)
(* counted: succeed, time out, or be counted and sleep.                    *)
CountedLoop(t, active, waiting) ==
  \/ /\ Satisfied(t)
     /\ LeaveWait(t, "Ok", active, {})
     /\ bits' = Taken(t)
     /\ waitingThreads' = waiting
  \/ /\ ~Satisfied(t) /\ TimedOut(t)
     /\ LeaveWait(t, "TimedOut", active, {})
     /\ waitingThreads' = waiting
     /\ UNCHANGED bits
  \/ /\ ~Satisfied(t) /\ ~TimedOut(t)
     /\ SleepInWait(t, "counted", active)
     /\ waitingThreads' = waiting + 1
     /\ UNCHANGED bits

AlreadyWaiting == single /\ waitingThreads > 0

(* One turn of the first loop and, past it, the single-waiter check. *)
SettleLoop(t, active) ==
  \/ /\ status = "Canceled" /\ ~Satisfied(t)
     /\ IF TimedOut(t) THEN LeaveWait(t, "TimedOut", active, {})
                       ELSE SleepInWait(t, "settle", active)
     /\ UNCHANGED <<bits, waitingThreads>>
  \/ /\ ~(status = "Canceled" /\ ~Satisfied(t))
     /\ AlreadyWaiting
     /\ LeaveWait(t, "AlreadyWaiting", active, {})
     /\ UNCHANGED <<bits, waitingThreads>>
  \/ /\ ~(status = "Canceled" /\ ~Satisfied(t))
     /\ ~AlreadyWaiting
     /\ CountedLoop(t, active, waitingThreads)

WaitEnter(t) ==
  /\ pc[t] = "entry" /\ IsWait(t)
  /\ \/ /\ status = "Deleted"
        /\ LeaveWait(t, "Deleted", activeWaitCalls + 1, {})
        /\ UNCHANGED <<bits, waitingThreads>>
     \/ status # "Deleted" /\ SettleLoop(t, activeWaitCalls + 1)
  /\ UNCHANGED <<status, single, registered, reported>>

WaitSettled(t) ==
  /\ pc[t] = "settle" /\ IsWait(t) /\ t \notin asleep
  /\ \/ /\ status = "Deleted"
        /\ LeaveWait(t, "Deleted", activeWaitCalls, {})
        /\ UNCHANGED <<bits, waitingThreads>>
     \/ status # "Deleted" /\ SettleLoop(t, activeWaitCalls)
  /\ UNCHANGED <<status, single, registered, reported>>

(* The last counted wait to leave lets the draining Cancel go.  Mutant: it *)
(* leaves that to the SignalAll of Cancel itself.                          *)
NobodyOut == {}
LastOut == IF status = "Canceled" /\ waitingThreads = 1 THEN asleep ELSE {}

(* Mutant: the condition is looked at before the status. *)
ConditionFirst(t) ==
  /\ pc[t] = "counted" /\ t \notin asleep
  /\ \/ /\ ~Satisfied(t) /\ status \in {"Canceled", "Deleted"}
        /\ LeaveWait(t, status, activeWaitCalls, LastOut)
        /\ waitingThreads' = waitingThreads - 1
        /\ UNCHANGED bits
     \/ /\ status = "Set" \/ Satisfied(t)
        /\ CountedLoop(t, activeWaitCalls, waitingThreads - 1)
  /\ UNCHANGED <<status, single, registered, reported>>

(* Awake from the second loop: leave the count, then look at the status    *)
(* before the condition.                                                   *)
WaitCounted(t) ==
  /\ pc[t] = "counted" /\ t \notin asleep
  /\ \/ /\ status \in {"Canceled", "Deleted"}
        /\ LeaveWait(t, status, activeWaitCalls, LastOut)
        /\ waitingThreads' = waitingThreads - 1
        /\ UNCHANGED bits
     \/ status = "Set" /\ CountedLoop(t, activeWaitCalls, waitingThreads - 1)
  /\ UNCHANGED <<status, single, registered, reported>>

----------------------------------------------------------------------------
(* Set, Clear, Cancel and Delete begin with the same loop: while the       *)
(* status is Canceled, wait; then a deleted flag is an error.              *)

Operable == status = "Set"

AtSettle(t, op) ==
  /\ call[t].op = op
  /\ pc[t] = "entry" \/ (pc[t] = "settle" /\ t \notin asleep)

Settle(t) ==
  /\ \E op \in Ops \ {"Wait"} : AtSettle(t, op)
  /\ \/ /\ status = "Canceled"
        /\ pc' = [pc EXCEPT ![t] = "settle"]
        /\ asleep' = asleep \cup {t}
        /\ UNCHANGED <<call, result>>
     \/ /\ status = "Deleted"
        /\ Return(t, "EACCES")
        /\ UNCHANGED asleep
  /\ UNCHANGED <<flag, single, registered, expired, reported, told>>

Set(t) ==
  /\ AtSettle(t, "Set") /\ Operable
  /\ bits' = bits \cup call[t].pattern
  /\ asleep' = {}
  /\ Return(t, "OK")
  /\ UNCHANGED <<status, waitingThreads, activeWaitCalls, single, registered,
                 expired, reported, told>>

(* The argument of Clear is the mask of the bits kept, not of the bits     *)
(* cleared.  Mutant: it is taken for the latter.                           *)
MaskCleared(t) == bits \ call[t].pattern
MaskKept(t) == bits \cap call[t].pattern

Clear(t) ==
  /\ AtSettle(t, "Clear") /\ Operable
  /\ bits' = MaskKept(t)
  /\ Return(t, "OK")
  /\ UNCHANGED <<status, waitingThreads, activeWaitCalls, single, registered,
                 asleep, expired, reported, told>>

(* *num_waiting_threads.  Mutant: the calls inside are reported, those     *)
(* that wait for an earlier Cancel to end included.                        *)
NumInside == activeWaitCalls
NumWaiting == waitingThreads

(* Cancel without waiters runs through both SignalAll calls to its return. *)
Cancel(t) ==
  /\ AtSettle(t, "Cancel") /\ Operable
  /\ bits' = call[t].pattern
  /\ reported' = NumWaiting
  /\ told' = 0
  /\ IF waitingThreads > 0
       THEN /\ status' = "Canceled"
            /\ pc' = [pc EXCEPT ![t] = "cancel"]
            /\ asleep' = {t}
            /\ UNCHANGED <<call, result>>
       ELSE /\ asleep' = {}
            /\ Return(t, "OK")
            /\ UNCHANGED status
  /\ UNCHANGED <<waitingThreads, activeWaitCalls, single, registered, expired>>

CancelDrain(t) ==
  /\ pc[t] = "cancel" /\ t \notin asleep
  /\ IF status = "Deleted"
       THEN Return(t, "EACCES") /\ UNCHANGED <<status, asleep>>
       ELSE IF waitingThreads > 0
              THEN asleep' = asleep \cup {t} /\ UNCHANGED <<status, pc, call, result>>
              ELSE status' = "Set" /\ asleep' = {} /\ Return(t, "OK")
  /\ UNCHANGED <<waitingThreads, activeWaitCalls, bits, single, registered,
                 expired, reported, told>>

(* What Delete waits out: the counted waits and those that settle. *)
CallsRemain == activeWaitCalls > 0

Delete(t) ==
  /\ AtSettle(t, "Delete") /\ Operable
  /\ status' = "Deleted"
  /\ IF CallsRemain
       THEN /\ pc' = [pc EXCEPT ![t] = "delete"]
            /\ asleep' = {t}
            /\ UNCHANGED <<call, result>>
       ELSE asleep' = {} /\ Return(t, "OK")
  /\ UNCHANGED <<waitingThreads, activeWaitCalls, bits, single, registered,
                 expired, reported, told>>

DeleteDrain(t) ==
  /\ pc[t] = "delete" /\ t \notin asleep
  /\ IF CallsRemain
       THEN asleep' = asleep \cup {t} /\ UNCHANGED <<pc, call, result>>
       ELSE Return(t, "OK") /\ UNCHANGED asleep
  /\ UNCHANGED <<flag, single, registered, expired, reported, told>>

----------------------------------------------------------------------------
(* The condition variable and the clock. *)

(* A wait may return without a signal (std::condition_variable may, and a  *)
(* futex wait ends when a host signal interrupts it).                      *)
SpuriousWake(t) ==
  /\ t \in asleep
  /\ asleep' = asleep \ {t}
  /\ UNCHANGED <<flag, single, registered, pc, call, result, expired, reported, told>>

(* The time of a timed wait runs out: PthreadInterruptibleWaitFor returns. *)
Expire(t) ==
  /\ IsWait(t) /\ call[t].timeout = "Finite"
  /\ pc[t] \in {"settle", "counted"} /\ t \notin expired
  /\ expired' = expired \cup {t}
  /\ asleep' = asleep \ {t}
  /\ UNCHANGED <<flag, single, registered, pc, call, result, reported, told>>

----------------------------------------------------------------------------
(* A step of the emulator's code on behalf of t, once t has made a call. *)
Run(t) == \/ WaitEnter(t) \/ WaitSettled(t) \/ WaitCounted(t)
          \/ Settle(t) \/ Set(t) \/ Clear(t)
          \/ Cancel(t) \/ CancelDrain(t) \/ Delete(t) \/ DeleteDrain(t)

Next == \E t \in Threads :
          \/ \E c \in Offered : Acquire(t, c)
          \/ Run(t)
          \/ SpuriousWake(t)
          \/ Expire(t)

Spec == Init /\ [][Next]_vars

(* A thread that can run does run, and time passes.  Nothing obliges a     *)
(* guest to make a call, and a wake-up without a signal may never come.    *)
FairSpec == Spec /\ \A t \in Threads : WF_vars(Run(t)) /\ WF_vars(Expire(t))
----------------------------------------------------------------------------
(* Properties *)

Counted == {t \in Threads : pc[t] = "counted"}
Inside  == {t \in Threads : IsWait(t) /\ pc[t] \in {"settle", "counted"}}

(* m_waiting_threads and m_active_wait_calls are kept by hand over six     *)
(* return paths; they always equal the number of threads they stand for.   *)
CountsAreExact ==
  /\ waitingThreads = Cardinality(Counted)
  /\ activeWaitCalls = Cardinality(Inside)

(* No thread sleeps past the change it waits for: every sleeper of the one *)
(* condition variable has a reason to sleep that still holds.  A SignalAll *)
(* missing on any path would leave a sleeper without one.                  *)
SleepersHaveReason ==
  \A t \in asleep :
    /\ pc[t] \in {"settle", "counted", "cancel", "delete"}
    /\ pc[t] = "settle"  => status = "Canceled" /\ (IsWait(t) => ~Satisfied(t))
    /\ pc[t] = "counted" => status = "Set" /\ ~Satisfied(t) /\ t \notin expired
    /\ pc[t] = "cancel"  => status = "Canceled" /\ waitingThreads > 0
    /\ pc[t] = "delete"  => status = "Deleted" /\ activeWaitCalls > 0

(* While a cancellation drains, the flag belongs to the one Cancel that    *)
(* drains it: no second Cancel, and no Delete (so Cancel's test for a flag *)
(* deleted under it never succeeds).                                       *)
OneCancel ==
  /\ \A t, u \in Threads : pc[t] = "cancel" /\ pc[u] = "cancel" => t = u
  /\ status = "Canceled" <=> \E t \in Threads : pc[t] = "cancel"

(* Cancel reports through num_waiting_threads exactly the waits that then  *)
(* return ECANCELED: all of them have when the cancellation is over.       *)
CancelReportsExactly ==
  reported = told + (IF status = "Canceled" THEN waitingThreads ELSE 0)

(* A single-waiter flag (SCE_KERNEL_EVF_ATTR_TH_SINGLE) never has two      *)
(* counted waiters, cancellations included.                                *)
SingleWaiter == single => waitingThreads <= 1

(* A wait counted as a waiter when a Cancel begins cannot be satisfied by  *)
(* the pattern the Cancel stores or by anything after it: its next return  *)
(* is ECANCELED (EBUSY for a poll).                                        *)
CanceledWaitsFail ==
  [][\A t \in Threads :
       status = "Canceled" /\ pc[t] = "counted" /\ pc'[t] # "counted"
         => result'[t] = ErrorCode(t, "Canceled") /\ bits' = bits]_vars

(* The flag implements the atomic event flag: in between the critical      *)
(* sections its callers see the operations happen one by one, a Cancel and *)
(* the ECANCELED of its waiters included.                                  *)
Atomic == INSTANCE AtomicEventFlag WITH
  Requests  <- Offered,
  NoRequest <- NoCall,
  pattern   <- bits,
  deleted   <- status = "Deleted",
  busy      <- {t \in Threads : pc[t] # "idle"},
  want      <- call,
  waiting   <- IF status = "Canceled" THEN {} ELSE Counted,
  doomed    <- IF status = "Canceled" THEN Counted ELSE {}

ImplementsAtomic == Atomic!Spec

(* Every Cancel that drains and every Delete that drains returns.          *)
DrainsEnd ==
  \A t \in Threads : pc[t] \in {"cancel", "delete"} ~> pc[t] = "idle"
=============================================================================
