---------------------------- MODULE PthreadMutex ----------------------------
(***************************************************************************)
(* A guest mutex (PthreadMutex.cpp): a host mutex with the owner and the   *)
(* depth kept beside it, because the guest's rules for a lock by the owner *)
(* are not the host's.  The owner and the depth are written by the thread  *)
(* that holds the host mutex, in steps apart from taking and releasing it. *)
(*                                                                         *)
(* The host mutex is pthread_mutex_t, modelled by its holder.              *)
(***************************************************************************)
EXTENDS Naturals, FiniteSets

CONSTANTS Threads,
          Nobody,
          Types,      \* the types a mutex may be created with
          Calls,      \* the calls the threads make
          MaxDepth    \* bound: no relock at this depth

ASSUME MutexAssumption ==
  /\ IsFiniteSet(Threads) /\ Nobody \notin Threads
  /\ Types \subseteq {"ErrorCheck", "Recursive", "Normal", "Adaptive"} /\ Types # {}
  /\ Calls \subseteq {"Lock", "Trylock", "Timedlock", "Unlock"}
  /\ MaxDepth \in Nat

VARIABLES type,    \* type, fixed when the mutex is created
          host,    \* the holder of the host mutex p
          owner, recursionCount,
          pc,      \* per thread: the place in its call
          result,  \* per thread: what its last call returned
          locked   \* history, per thread: the locks it has taken and not given back

mutexVars == <<type, host, owner, recursionCount, locked>>
vars == <<mutexVars, pc, result>>

MutexPcs == {"idle", "lock", "trylock", "timedlock", "take", "unlock"}
MutexResults == {"None", "OK", "EDEADLK", "EBUSY", "ETIMEDOUT", "EPERM"}

(* The places are the calls' own; PthreadCond adds those of a wait.        *)
TypeOK ==
  /\ type \in Types
  /\ host \in Threads \cup {Nobody}
  /\ owner \in Threads \cup {Nobody}
  /\ recursionCount \in Nat
  /\ result \in [Threads -> MutexResults]
  /\ locked \in [Threads -> Nat]

Init ==
  /\ type \in Types
  /\ host = Nobody
  /\ owner = Nobody
  /\ recursionCount = 0
  /\ pc = [t \in Threads |-> "idle"]
  /\ result = [t \in Threads |-> "None"]
  /\ locked = [t \in Threads |-> 0]

HeldByCaller(t) == owner = t /\ recursionCount # 0

GoTo(t, place) == pc' = [pc EXCEPT ![t] = place] /\ UNCHANGED result
Return(t, r) == pc' = [pc EXCEPT ![t] = "idle"] /\ result' = [result EXCEPT ![t] = r]

----------------------------------------------------------------------------
(* Calls by a thread that holds the mutex stay clear of the host mutex,    *)
(* but for a Timedlock of a mutex that is not recursive.                   *)

(* Does this call of the owner add to the depth?  Mutant: an adaptive      *)
(* mutex counts its relocks too.                                           *)
AdaptiveDeepens(op) ==
  \/ op = "Lock" /\ type # "ErrorCheck"
  \/ op \in {"Trylock", "Timedlock"} /\ type = "Recursive"
Deepens(op) ==
  \/ op = "Lock" /\ type \notin {"ErrorCheck", "Adaptive"}
  \/ op \in {"Trylock", "Timedlock"} /\ type = "Recursive"

Relock(t, op) ==
  /\ pc[t] = "idle" /\ HeldByCaller(t) /\ op \in Calls \ {"Unlock"}
  /\ \/ /\ Deepens(op) /\ recursionCount < MaxDepth
        /\ recursionCount' = recursionCount + 1
        /\ locked' = [locked EXCEPT ![t] = @ + 1]
        /\ Return(t, "OK")
     \/ /\ ~Deepens(op) /\ op = "Lock"
        /\ Return(t, "EDEADLK") /\ UNCHANGED <<recursionCount, locked>>
     \/ /\ ~Deepens(op) /\ op = "Trylock"
        /\ Return(t, "EBUSY") /\ UNCHANGED <<recursionCount, locked>>
     \/ /\ ~Deepens(op) /\ op = "Timedlock"
        /\ GoTo(t, "timedlock") /\ UNCHANGED <<recursionCount, locked>>
  /\ UNCHANGED <<type, host, owner>>

LockCall(t, op) ==
  /\ pc[t] = "idle" /\ ~HeldByCaller(t) /\ op \in Calls \ {"Unlock"}
  /\ GoTo(t, CASE op = "Lock" -> "lock" [] op = "Trylock" -> "trylock" [] op = "Timedlock" -> "timedlock")
  /\ UNCHANGED mutexVars

(* The host mutex is free: taken by the trylock or after a wait. *)
HostLock(t) ==
  /\ pc[t] \in {"lock", "trylock", "timedlock"} /\ host = Nobody
  /\ host' = t
  /\ GoTo(t, "take")
  /\ UNCHANGED <<type, owner, recursionCount, locked>>

(* The calls that do not wait for ever. *)
GivesUp == {"trylock", "timedlock"}

(* The host's error-checking mutex sees that the caller has it.            *)
TimedError(t) == IF host = t /\ type = "ErrorCheck" THEN "EDEADLK" ELSE "ETIMEDOUT"

HostBusy(t) ==
  /\ pc[t] \in GivesUp /\ host # Nobody
  /\ Return(t, IF pc[t] = "trylock" THEN "EBUSY" ELSE TimedError(t))
  /\ UNCHANGED mutexVars

TakeOwnership(t) ==
  /\ pc[t] = "take"
  /\ recursionCount' = 1
  /\ owner' = t
  /\ locked' = [locked EXCEPT ![t] = 1]
  /\ Return(t, "OK")
  /\ UNCHANGED <<type, host>>

----------------------------------------------------------------------------
(* Unlock *)

(* Dropped before the host mutex is released.  Mutant: dropped after it.   *)
DropLater == UNCHANGED <<owner, recursionCount>>
DropOwnership == owner' = Nobody /\ recursionCount' = 0

Unlock(t) ==
  /\ pc[t] = "idle" /\ "Unlock" \in Calls
  /\ \/ /\ ~HeldByCaller(t)
        /\ Return(t, "EPERM") /\ UNCHANGED <<owner, recursionCount, locked>>
     \/ /\ HeldByCaller(t) /\ recursionCount > 1
        /\ recursionCount' = recursionCount - 1
        /\ locked' = [locked EXCEPT ![t] = @ - 1]
        /\ Return(t, "OK") /\ UNCHANGED owner
     \/ /\ HeldByCaller(t) /\ recursionCount <= 1
        /\ DropOwnership
        /\ GoTo(t, "unlock") /\ UNCHANGED locked
  /\ UNCHANGED <<type, host>>

HostUnlock(t) ==
  /\ pc[t] = "unlock"
  /\ host' = Nobody
  /\ locked' = [locked EXCEPT ![t] = 0]
  /\ Return(t, "OK")
  /\ UNCHANGED <<type, owner, recursionCount>>

----------------------------------------------------------------------------
Run(t) == HostLock(t) \/ HostBusy(t) \/ TakeOwnership(t) \/ HostUnlock(t)

Step(t) == \/ \E op \in Calls : Relock(t, op) \/ LockCall(t, op)
           \/ Unlock(t) \/ Run(t)

Next == \E t \in Threads : Step(t)

Spec == Init /\ [][Next]_vars

----------------------------------------------------------------------------
(* Properties *)

(* "A title that relocks an adaptive mutex and then unlocks it once        *)
(* expects it released" (PthreadMutexLock), as with an error-checking one: *)
(* no thread ever has more than one unlock to make.                        *)
OneUnlockReleases ==
  type \in {"ErrorCheck", "Adaptive"} => \A t \in Threads : locked[t] <= 1

(* Between its calls a thread owns the mutex, at the right depth, exactly  *)
(* if it has locked it more often than unlocked it: no other thread's lock *)
(* or unlock in progress touches its ownership.  PthreadCond adds the wait *)
(* to the calls: it returns with the mutex at the depth it had.            *)
OwnershipIsExact ==
  /\ \A t \in Threads : pc[t] = "idle" =>
       /\ HeldByCaller(t) <=> locked[t] > 0
       /\ locked[t] > 0 => recursionCount = locked[t] /\ host = t
  /\ OneUnlockReleases
=============================================================================
