----------------------------- MODULE PosixGuest -----------------------------
(***************************************************************************)
(* Guest threads that make their POSIX semaphore in the routine of a       *)
(* PthreadOnce and use it afterwards: PosixSemaphore and PthreadOnce       *)
(* composed.  A thread is in one call of the two at a time, except that    *)
(* the once routine calls sem_init.                                        *)
(***************************************************************************)
EXTENDS PosixSemaphore

VARIABLES control, oncePc, ran  \* the once control and its callers

Once == INSTANCE PthreadOnce WITH pc <- oncePc

onceVars == <<control, oncePc, ran>>
guestVars == <<semVars, onceVars>>

GuestInit == SemaphoreInit /\ Once!Init

CallOnce(t) == oncePc[t] = "idle" /\ Once!Call(t) /\ UNCHANGED semVars

InOnce(t) ==
  \/ (Once!FirstLook(t) \/ Once!Poll(t) \/ Once!Wake(t) \/ Once!Finish(t)) /\ UNCHANGED semVars
  \/ Once!InitRoutine(t) /\ \E initial \in 0 .. MaxValue : SemInit(t, initial)

InSem(t) == InCall(t) /\ UNCHANGED onceVars

Slice(t) == SliceEnds(t) /\ UNCHANGED onceVars

UseSemaphore(t) == oncePc[t] = "returned" /\ GuestCalls(t) /\ UNCHANGED onceVars

GuestNext ==
  \/ \E t \in Threads : CallOnce(t) \/ InOnce(t) \/ InSem(t) \/ Slice(t) \/ UseSemaphore(t)
  \/ \E o \in Objects : Collect(o) /\ UNCHANGED onceVars

GuestSpec == GuestInit /\ [][GuestNext]_guestVars

(* The host schedules a thread inside a call; slices end by the clock.     *)
GuestFairSpec ==
  /\ GuestSpec
  /\ \A t \in Threads : WF_guestVars(InOnce(t)) /\ WF_guestVars(InSem(t)) /\ WF_guestVars(Slice(t))

----------------------------------------------------------------------------
(* Properties *)

(***************************************************************************)
(* The routine runs once and no caller returns before it has returned, so  *)
(* that whoever uses the semaphore finds it made (PthreadOnce).            *)
(***************************************************************************)
RunsOnceFirst == Once!RunsOnceFirst
=============================================================================
