----------------------------- MODULE Semaphore -----------------------------
(***************************************************************************)
(* One kernel semaphore (KernelSemaPrivate in Semaphore.cpp) and the guest *)
(* threads that call it.  As in EventFlag an action is the code between    *)
(* two waits on the condition variable, all of it under m_mutex; `asleep`  *)
(* is the set of threads in such a wait.                                   *)
(*                                                                         *)
(* Unlike an event flag, a semaphore can be deleted while a Cancel drains  *)
(* its waiters: the Cancel then fails.                                     *)
(***************************************************************************)
EXTENDS Integers, FiniteSets

CONSTANTS Threads,     \* guest threads
          InitCount, MaxCount,
          IntMax,      \* the largest int
          Offered      \* the calls the threads make

(* A call: its operation, its count and, for a wait, its time-out ("Zero"  *)
(* is KernelPollSema).                                                     *)
Ops      == {"Wait", "Signal", "Cancel", "Delete"}
Timeouts == {"Infinite", "Finite", "Zero"}
CInt     == -IntMax - 1 .. IntMax
Calls    == [op : Ops, n : CInt, timeout : Timeouts]
NoCall   == [op |-> "Signal", n |-> 0, timeout |-> "Infinite"]

ASSUME SemaThreadsAssumption == IsFiniteSet(Threads)
ASSUME SemaCountsAssumption ==
  /\ InitCount \in Nat /\ MaxCount \in Nat /\ IntMax \in Nat
  /\ InitCount <= MaxCount /\ MaxCount <= IntMax
ASSUME SemaOfferedAssumption == Offered \subseteq Calls

VARIABLES status,           \* m_status
          waiting,          \* m_waiting_threads
          activeWaitCalls,  \* m_active_wait_calls
          count,            \* m_count
          registered,       \* the handle is in g_live_semas
          pc, call, result, \* per thread: where it is, its call, its last result
          asleep,           \* threads asleep on m_cond_var
          expired,          \* threads whose timed wait has used up its time
          reported, told,   \* history: number the last Cancel reported, and
                            \* waits that returned ECANCELED since then
          overdrawn         \* history: since the last Cancel a signal was taken
                            \* whose count is negative or may not be added

vars == <<status, waiting, activeWaitCalls, count, registered, pc, call, result,
          asleep, expired, reported, told, overdrawn>>
sema == <<status, waiting, activeWaitCalls, count>>

Results == {"None", "OK", "ESRCH", "EINVAL", "ETIMEDOUT", "ECANCELED", "EACCES", "EBUSY"}

TypeOK ==
  /\ status \in {"Set", "Canceled", "Deleted"}
  /\ waiting \in SUBSET Threads
  /\ activeWaitCalls \in Nat
  /\ count \in CInt
  /\ registered \in BOOLEAN
  /\ pc \in [Threads -> {"idle", "entry", "settle", "counted", "cancel", "delete"}]
  /\ call \in [Threads -> Calls]
  /\ result \in [Threads -> Results]
  /\ asleep \in SUBSET Threads
  /\ expired \in SUBSET Threads
  /\ reported \in Nat
  /\ told \in Nat
  /\ overdrawn \in BOOLEAN

IsWait(t)    == call[t].op = "Wait"
Available(t) == count >= call[t].n

(* The sum or difference of two ints, in an int. *)
Wrap(x) ==
  IF x > IntMax THEN x - 2 * (IntMax + 1)
  ELSE IF x < -IntMax - 1 THEN x + 2 * (IntMax + 1)
  ELSE x

(* The error code of the API for a result of the object. *)
ErrorCode(t, r) ==
  CASE r = "Ok"         -> "OK"
    [] r = "InvalCount" -> "EINVAL"
    [] ~IsWait(t)       -> "EINVAL"
    [] IsWait(t) /\ r \notin {"Ok", "InvalCount"} /\ call[t].timeout = "Zero" -> "EBUSY"
    [] IsWait(t) /\ r = "TimedOut" /\ call[t].timeout # "Zero" -> "ETIMEDOUT"
    [] IsWait(t) /\ r = "Canceled" /\ call[t].timeout # "Zero" -> "ECANCELED"
    [] IsWait(t) /\ r = "Deleted"  /\ call[t].timeout # "Zero" -> "EACCES"

Init ==
  /\ status = "Set"
  /\ waiting = {}
  /\ activeWaitCalls = 0
  /\ count = InitCount
  /\ registered = TRUE
  /\ pc = [t \in Threads |-> "idle"]
  /\ call = [t \in Threads |-> NoCall]
  /\ result = [t \in Threads |-> "None"]
  /\ asleep = {}
  /\ expired = {}
  /\ reported = 0
  /\ told = 0
  /\ overdrawn = FALSE

----------------------------------------------------------------------------
(* AcquireSema or, in KernelDeleteSema, the removal of the handle: the     *)
(* object is pinned before its mutex is taken.                             *)
Acquire(t, c) ==
  /\ pc[t] = "idle"
  /\ IF registered
       THEN /\ pc' = [pc EXCEPT ![t] = "entry"]
            /\ call' = [call EXCEPT ![t] = c]
            /\ result' = [result EXCEPT ![t] = "None"]
            /\ expired' = IF c.op = "Wait" /\ c.timeout = "Zero" THEN expired \cup {t} ELSE expired
       ELSE /\ result' = [result EXCEPT ![t] = "ESRCH"]
            /\ UNCHANGED <<pc, call, expired>>
  /\ registered' = (registered /\ c.op # "Delete")
  /\ UNCHANGED <<sema, asleep, reported, told, overdrawn>>

(* The call is over: its arguments die with it. *)
Return(t, r) ==
  /\ pc' = [pc EXCEPT ![t] = "idle"]
  /\ result' = [result EXCEPT ![t] = ErrorCode(t, r)]
  /\ call' = [call EXCEPT ![t] = NoCall]

----------------------------------------------------------------------------
(* Wait *)

(* The WaitCallGuard destructor, run with `active` calls inside, wakes the *)
(* draining Delete.                                                        *)
GuardWakes(active) == status = "Deleted" /\ active = 1

(* The count the guard leaves. *)
OneLess(active) == active - 1

LeaveWait(t, r, active, woken) ==
  /\ Return(t, r)
  /\ expired' = expired \ {t}
  /\ activeWaitCalls' = OneLess(active)
  /\ asleep' = IF GuardWakes(active) THEN {} ELSE asleep \ woken
  /\ told' = IF r = "Canceled" THEN told + 1 ELSE told

(* A thread that sleeps has woken `woken` before. *)
SleepInWait(t, where, active, woken) ==
  /\ pc' = [pc EXCEPT ![t] = where]
  /\ activeWaitCalls' = active
  /\ asleep' = (asleep \ woken) \cup {t}
  /\ UNCHANGED <<call, result, expired, told>>

(* One turn of the second loop.  Where `m_count - need_count >= 0` over-   *)
(* flows, a build looks at the difference it computed or compares the two  *)
(* ints.                                                                   *)
CountedLoop(t, active, woken) ==
  \/ /\ Available(t) \/ Wrap(count - call[t].n) >= 0
     /\ LeaveWait(t, "Ok", active, woken)
     /\ count' = Wrap(count - call[t].n)
     /\ waiting' = waiting \ {t}
  \/ /\ ~Available(t) /\ t \in expired
     /\ LeaveWait(t, "TimedOut", active, woken)
     /\ waiting' = waiting \ {t}
     /\ UNCHANGED count
  \/ /\ ~Available(t) /\ t \notin expired
     /\ SleepInWait(t, "counted", active, woken)
     /\ waiting' = waiting \cup {t}
     /\ UNCHANGED count

(* One turn of the first loop. *)
SettleLoop(t, active) ==
  \/ /\ status = "Canceled" /\ ~Available(t)
     /\ IF t \in expired THEN LeaveWait(t, "TimedOut", active, {})
                         ELSE SleepInWait(t, "settle", active, {})
     /\ UNCHANGED <<count, waiting>>
  \/ /\ ~(status = "Canceled" /\ ~Available(t))
     /\ CountedLoop(t, active, {})

WaitEnter(t) ==
  /\ pc[t] = "entry" /\ IsWait(t)
  /\ \/ /\ call[t].n < 1 \/ call[t].n > MaxCount
        /\ LeaveWait(t, "InvalCount", activeWaitCalls + 1, {})
        /\ UNCHANGED <<count, waiting>>
     \/ /\ call[t].n \in 1..MaxCount /\ status = "Deleted"
        /\ LeaveWait(t, "Deleted", activeWaitCalls + 1, {})
        /\ UNCHANGED <<count, waiting>>
     \/ /\ call[t].n \in 1..MaxCount /\ status # "Deleted"
        /\ SettleLoop(t, activeWaitCalls + 1)
  /\ UNCHANGED <<status, registered, reported, overdrawn>>

WaitSettled(t) ==
  /\ pc[t] = "settle" /\ IsWait(t) /\ t \notin asleep
  /\ \/ /\ status = "Deleted"
        /\ LeaveWait(t, "Deleted", activeWaitCalls, {})
        /\ UNCHANGED <<count, waiting>>
     \/ status # "Deleted" /\ SettleLoop(t, activeWaitCalls)
  /\ UNCHANGED <<status, registered, reported, overdrawn>>

(* The sleepers woken when a thread takes itself off m_waiting_threads.    *)
(* Mutants: nobody; every sleeper at every turn, as the code once did.     *)
WakesNobody(t) == {}
WakesAlways(t) == asleep
LastOut(t) == IF status = "Canceled" /\ waiting = {t} THEN asleep ELSE {}

WaitCounted(t) ==
  /\ pc[t] = "counted" /\ t \notin asleep
  /\ \/ /\ status \in {"Canceled", "Deleted"}
        /\ LeaveWait(t, status, activeWaitCalls, LastOut(t))
        /\ waiting' = waiting \ {t}
        /\ UNCHANGED count
     \/ status = "Set" /\ CountedLoop(t, activeWaitCalls, LastOut(t))
  /\ UNCHANGED <<status, registered, reported, overdrawn>>

----------------------------------------------------------------------------
(* Signal and Cancel: a deleted semaphore is an error, also after a wait   *)
(* for the cancellation in progress to end.                                *)

AtSettle(t, op) ==
  /\ call[t].op = op
  /\ pc[t] = "entry" \/ (pc[t] = "settle" /\ t \notin asleep)

TooMany(t) == call[t].op = "Cancel" /\ pc[t] = "entry" /\ call[t].n > MaxCount

Settle(t) ==
  /\ AtSettle(t, "Signal") \/ AtSettle(t, "Cancel")
  /\ ~TooMany(t)
  /\ \/ /\ status = "Canceled"
        /\ pc' = [pc EXCEPT ![t] = "settle"]
        /\ asleep' = asleep \cup {t}
        /\ UNCHANGED <<call, result>>
     \/ /\ status = "Deleted"
        /\ Return(t, "Deleted")
        /\ UNCHANGED asleep
  /\ UNCHANGED <<sema, registered, expired, reported, told, overdrawn>>

(* The test has the sum of two ints, which may have wrapped. *)
Fits(t) == Wrap(count + call[t].n) <= MaxCount

(* Counts the caller may signal whatever the count is. *)
Signable == 0 .. IntMax - MaxCount

Signal(t) ==
  /\ AtSettle(t, "Signal") /\ status = "Set"
  /\ IF Fits(t)
       THEN /\ count' = Wrap(count + call[t].n)
            /\ overdrawn' = (overdrawn \/ call[t].n \notin Signable)
            /\ asleep' = {}
            /\ Return(t, "Ok")
       ELSE Return(t, "InvalCount") /\ UNCHANGED <<count, asleep, overdrawn>>
  /\ UNCHANGED <<status, waiting, activeWaitCalls, registered, expired, reported, told>>

(* What Cancel reports. *)
NumWaiting == Cardinality(waiting)

(* Cancel without waiters runs through both SignalAll calls to its return. *)
Cancel(t) ==
  /\ \/ /\ TooMany(t)
        /\ Return(t, "InvalCount")
        /\ UNCHANGED <<status, count, asleep, reported, told, overdrawn>>
     \/ /\ AtSettle(t, "Cancel") /\ ~TooMany(t) /\ status = "Set"
        /\ count' = IF call[t].n < 0 THEN InitCount ELSE call[t].n
        /\ overdrawn' = FALSE
        /\ reported' = NumWaiting
        /\ told' = 0
        /\ IF waiting # {}
             THEN /\ status' = "Canceled"
                  /\ pc' = [pc EXCEPT ![t] = "cancel"]
                  /\ asleep' = {t}
                  /\ UNCHANGED <<call, result>>
             ELSE asleep' = {} /\ Return(t, "Ok") /\ UNCHANGED status
  /\ UNCHANGED <<waiting, activeWaitCalls, registered, expired>>

(* The draining loop of Cancel.  Mutant: a deletion is not looked for, and *)
(* the end of the drain makes a deleted semaphore usable again.            *)
CancelRevives(t) ==
  /\ pc[t] = "cancel" /\ t \notin asleep
  /\ IF waiting # {}
       THEN asleep' = asleep \cup {t} /\ UNCHANGED <<status, pc, call, result>>
       ELSE status' = "Set" /\ asleep' = {} /\ Return(t, "Ok")
  /\ UNCHANGED <<waiting, activeWaitCalls, count, registered, expired, reported, told, overdrawn>>

CancelDrain(t) ==
  /\ pc[t] = "cancel" /\ t \notin asleep
  /\ IF status = "Deleted"
       THEN Return(t, "Deleted") /\ UNCHANGED <<status, asleep>>
       ELSE IF waiting # {}
              THEN asleep' = asleep \cup {t} /\ UNCHANGED <<status, pc, call, result>>
              ELSE status' = "Set" /\ asleep' = {} /\ Return(t, "Ok")
  /\ UNCHANGED <<waiting, activeWaitCalls, count, registered, expired, reported, told, overdrawn>>

----------------------------------------------------------------------------
(* Delete takes effect at once, whatever the status. *)

(* What Delete waits out: the counted waits and those that settle. *)
CallsRemain == activeWaitCalls > 0

Delete(t) ==
  /\ pc[t] = "entry" /\ call[t].op = "Delete"
  /\ status' = "Deleted"
  /\ IF CallsRemain
       THEN /\ pc' = [pc EXCEPT ![t] = "delete"]
            /\ asleep' = {t}
            /\ UNCHANGED <<call, result>>
       ELSE asleep' = {} /\ Return(t, "Ok")
  /\ UNCHANGED <<waiting, activeWaitCalls, count, registered, expired, reported, told, overdrawn>>

DeleteDrain(t) ==
  /\ pc[t] = "delete" /\ t \notin asleep
  /\ IF CallsRemain
       THEN asleep' = asleep \cup {t} /\ UNCHANGED <<pc, call, result>>
       ELSE Return(t, "Ok") /\ UNCHANGED asleep
  /\ UNCHANGED <<sema, registered, expired, reported, told, overdrawn>>

----------------------------------------------------------------------------
(* The condition variable and the clock, as in EventFlag. *)

SpuriousWake(t) ==
  /\ t \in asleep
  /\ asleep' = asleep \ {t}
  /\ UNCHANGED <<sema, registered, pc, call, result, expired, reported, told, overdrawn>>

Expire(t) ==
  /\ IsWait(t) /\ call[t].timeout = "Finite"
  /\ pc[t] \in {"settle", "counted"} /\ t \notin expired
  /\ expired' = expired \cup {t}
  /\ asleep' = asleep \ {t}
  /\ UNCHANGED <<sema, registered, pc, call, result, reported, told, overdrawn>>

----------------------------------------------------------------------------
Run(t) == \/ WaitEnter(t) \/ WaitSettled(t) \/ WaitCounted(t)
          \/ Settle(t) \/ Signal(t) \/ Cancel(t) \/ CancelDrain(t)
          \/ Delete(t) \/ DeleteDrain(t)

(* What comes from outside the semaphore's code. *)
Stir(t) == \/ \E c \in Offered : Acquire(t, c)
           \/ SpuriousWake(t)
           \/ Expire(t)

Next == \E t \in Threads : Stir(t) \/ Run(t)

Spec == Init /\ [][Next]_vars

(* A thread that can run does run, and time passes. *)
FairSpec == Spec /\ \A t \in Threads : WF_vars(Run(t)) /\ WF_vars(Expire(t))

----------------------------------------------------------------------------
(* Properties *)

Inside == {t \in Threads : IsWait(t) /\ pc[t] \in {"settle", "counted"}}

(* m_waiting_threads holds the counted waiters and m_active_wait_calls     *)
(* their number and that of the waits held up by a cancellation.           *)
CountsAreExact ==
  /\ waiting = {t \in Threads : pc[t] = "counted"}
  /\ activeWaitCalls = Cardinality(Inside)

(* Whatever waits, polls, cancellations and deletions do, the count stays  *)
(* between zero and max_count, as long as no signal was taken since the    *)
(* last Cancel whose count is negative or over INT_MAX - max_count: the    *)
(* test of Signal lets both through, and a Cancel sets the count right.    *)
CountInRange == ~overdrawn => count \in 0 .. MaxCount

(* No thread sleeps past the change it waits for. *)
SleepersHaveReason ==
  \A t \in asleep :
    /\ pc[t] \in {"settle", "counted", "cancel", "delete"}
    /\ pc[t] = "settle"  => status = "Canceled" /\ (IsWait(t) => overdrawn \/ ~Available(t))
    /\ pc[t] = "counted" => status = "Set" /\ (overdrawn \/ ~Available(t)) /\ t \notin expired
    /\ pc[t] = "cancel"  => status = "Canceled" /\ waiting # {}
    /\ pc[t] = "delete"  => status = "Deleted" /\ activeWaitCalls > 0

(* A Cancel that succeeds has reported exactly the waits that returned     *)
(* ECANCELED for it; one overtaken by a Delete fails, and at most as many  *)
(* waits as it reported have returned ECANCELED.                           *)
CancelReportsExactly ==
  /\ status = "Canceled" => reported = told + Cardinality(waiting)
  /\ status = "Set" => reported = told
  /\ told <= reported

(* When the Delete of the semaphore has returned, no wait call is inside   *)
(* the object, and none gets in afterwards.                                *)
DeletedIsEmpty ==
  status = "Deleted" /\ (\A t \in Threads : pc[t] # "delete") => Inside = {}

(* What holds of the object whenever nobody is inside its mutex. *)
SafetyInv == TypeOK /\ CountsAreExact /\ CountInRange /\ SleepersHaveReason /\ DeletedIsEmpty

(* The waiters of an empty semaphore do not wake each other without end    *)
(* (the comment in Wait): if threads keep running inside the semaphore,    *)
(* something outside it keeps happening.                                   *)
WaitersSettle ==
  []<><<\E t \in Threads : Run(t)>>_vars => []<><<\E t \in Threads : Stir(t)>>_vars
=============================================================================
