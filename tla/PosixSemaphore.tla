--------------------------- MODULE PosixSemaphore ---------------------------
(***************************************************************************)
(* POSIX semaphores (Libs/PosixSemaphore.cpp) on one guest block.  A table *)
(* leads from the block to the host object; calls keep the object that     *)
(* they have looked up.  The object mirrors its count into the block.  A   *)
(* step is a critical section of the table's or of an object's mutex.      *)
(***************************************************************************)
EXTENDS Naturals, FiniteSets

CONSTANTS Threads, Objects, NoObject,
          MaxValue             \* kPosixSemValueMax

ASSUME PosixAssumption == NoObject \notin Objects /\ MaxValue \in Nat /\ IsFiniteSet(Threads)

VARIABLES
  table,                      \* g_posix_sems of the block
  count, waiters, destroyed,  \* PosixSemPrivate
  block,                      \* PosixSemGuest
  asleep,                     \* threads asleep on their object's condition
  semPc, op, obj              \* per thread: place, call and object looked up

objectVars == <<count, waiters, destroyed>>
semVars == <<table, objectVars, block, asleep, semPc, op, obj>>

Ops == {"wait", "timedwait", "trywait", "post"}
NoBlock == [magic |-> FALSE, hasWaiters |-> FALSE, count |-> 0]

SemaphoreTypeOK ==
  /\ table \in Objects \cup {NoObject}
  /\ count \in [Objects -> 0 .. MaxValue] /\ waiters \in [Objects -> 0 .. Cardinality(Threads)]
  /\ destroyed \in [Objects -> BOOLEAN]
  /\ block \in [magic : BOOLEAN, hasWaiters : BOOLEAN, count : 0 .. MaxValue]
  /\ asleep \subseteq {t \in Threads : semPc[t] = "waiting"}
  /\ semPc \in [Threads -> {"idle", "found", "waiting", "erased", "ended"}]
  /\ op \in [Threads -> Ops \cup {"none"}] /\ obj \in [Threads -> Objects \cup {NoObject}]

SemaphoreInit ==
  /\ table = NoObject /\ block = NoBlock /\ asleep = {}
  /\ count = [o \in Objects |-> 0] /\ waiters = [o \in Objects |-> 0]
  /\ destroyed = [o \in Objects |-> FALSE]
  /\ semPc = [t \in Threads |-> "idle"] /\ op = [t \in Threads |-> "none"]
  /\ obj = [t \in Threads |-> NoObject]

(* SyncGuest: every object writes the one block.                           *)
SyncGuest(n, waiting) == block' = [magic |-> TRUE, hasWaiters |-> waiting > 0, count |-> n]

Sleepers(o) == {t \in asleep : obj[t] = o}

(* An object lives while the table or a call refers to it.                 *)
Unused == {o \in Objects : table # o /\ \A t \in Threads : obj[t] # o}

ReturnFrom(t) ==
  /\ semPc' = [semPc EXCEPT ![t] = "idle"]
  /\ op' = [op EXCEPT ![t] = "none"]
  /\ obj' = [obj EXCEPT ![t] = NoObject]

----------------------------------------------------------------------------
(* sem_init and sem_destroy                                                *)

(* A guest does not initialise a block that it is destroying, but it may    *)
(* initialise one that it has not destroyed.                               *)
NobodyDestroys == \A t \in Threads : semPc[t] \notin {"erased", "ended"}

(* Mutant: the old object is only taken from the table.                    *)
KeepOld == UNCHANGED <<asleep, destroyed>>
DestroyOld ==
  IF table = NoObject THEN UNCHANGED <<asleep, destroyed>>
  ELSE /\ destroyed' = [destroyed EXCEPT ![table] = TRUE]
       /\ asleep' = asleep \ Sleepers(table)

SemInit(t, initial) ==
  /\ semPc[t] = "idle"
  /\ NobodyDestroys
  /\ DestroyOld
  /\ \E o \in {p \in Unused : ~destroyed[p]} :
       /\ table' = o
       /\ count' = [count EXCEPT ![o] = initial]
       /\ SyncGuest(initial, 0)
  /\ UNCHANGED <<waiters, semPc, op, obj>>

(* The end of an object, which may then be made again.                     *)
Collect(o) ==
  /\ o \in Unused /\ destroyed[o]
  /\ destroyed' = [destroyed EXCEPT ![o] = FALSE]
  /\ count' = [count EXCEPT ![o] = 0]
  /\ UNCHANGED <<table, waiters, block, asleep, semPc, op, obj>>

SemDestroy(t) ==
  /\ semPc[t] = "idle" /\ table # NoObject
  /\ table' = NoObject
  /\ obj' = [obj EXCEPT ![t] = table]
  /\ semPc' = [semPc EXCEPT ![t] = "erased"]
  /\ UNCHANGED <<objectVars, block, asleep, op>>

DestroyEnds(t) ==
  /\ semPc[t] = "erased"
  /\ destroyed' = [destroyed EXCEPT ![obj[t]] = TRUE]
  /\ asleep' = asleep \ Sleepers(obj[t])
  /\ semPc' = [semPc EXCEPT ![t] = "ended"]
  /\ UNCHANGED <<table, count, waiters, block, op, obj>>

DestroyClears(t) ==
  /\ semPc[t] = "ended"
  /\ block' = NoBlock
  /\ ReturnFrom(t)
  /\ UNCHANGED <<table, objectVars, asleep>>

----------------------------------------------------------------------------
(* Waits and posts                                                         *)

LookupSem(t, what) ==
  /\ semPc[t] = "idle" /\ table # NoObject
  /\ op' = [op EXCEPT ![t] = what]
  /\ obj' = [obj EXCEPT ![t] = table]
  /\ semPc' = [semPc EXCEPT ![t] = "found"]
  /\ UNCHANGED <<table, objectVars, block, asleep>>

(* m_waiters without this thread.                                          *)
Others(t) == waiters[obj[t]] - (IF semPc[t] = "waiting" THEN 1 ELSE 0)
AtTurn(t) == semPc[t] \in {"found", "waiting"} /\ t \notin asleep

(* Mutant: a destruction is not looked for.                                *)
NeverGone(t) == FALSE
Gone(t) == destroyed[obj[t]]

Empty(t) == count[obj[t]] = 0

(* A call on an object that is destroyed returns EINVAL and leaves the     *)
(* block alone.                                                            *)
Fails(t) ==
  /\ AtTurn(t) /\ Gone(t)
  /\ waiters' = [waiters EXCEPT ![obj[t]] = Others(t)]
  /\ ReturnFrom(t)
  /\ UNCHANGED <<table, count, destroyed, block, asleep>>

Takes(t) ==
  /\ AtTurn(t) /\ op[t] # "post" /\ ~Gone(t) /\ ~Empty(t)
  /\ count' = [count EXCEPT ![obj[t]] = @ - 1]
  /\ waiters' = [waiters EXCEPT ![obj[t]] = Others(t)]
  /\ SyncGuest(count[obj[t]] - 1, Others(t))
  /\ ReturnFrom(t)
  /\ UNCHANGED <<table, destroyed, asleep>>

(* EAGAIN, or ETIMEDOUT at the deadline.                                   *)
GivesUp(t) ==
  /\ AtTurn(t) /\ op[t] \in {"trywait", "timedwait"} /\ ~Gone(t) /\ Empty(t)
  /\ waiters' = [waiters EXCEPT ![obj[t]] = Others(t)]
  /\ SyncGuest(count[obj[t]], Others(t))
  /\ ReturnFrom(t)
  /\ UNCHANGED <<table, count, destroyed, asleep>>

Sleeps(t) ==
  /\ AtTurn(t) /\ op[t] \in {"wait", "timedwait"} /\ ~Gone(t) /\ Empty(t)
  /\ waiters' = [waiters EXCEPT ![obj[t]] = Others(t) + 1]
  /\ SyncGuest(count[obj[t]], Others(t) + 1)
  /\ asleep' = asleep \cup {t}
  /\ semPc' = [semPc EXCEPT ![t] = "waiting"]
  /\ UNCHANGED <<table, count, destroyed, op, obj>>

(* A slice of kPosixSemPollMicro ends.                                     *)
SliceEnds(t) ==
  /\ t \in asleep
  /\ asleep' = asleep \ {t}
  /\ UNCHANGED <<table, objectVars, block, semPc, op, obj>>

Posts(t) ==
  /\ AtTurn(t) /\ op[t] = "post" /\ ~Gone(t)
  /\ IF count[obj[t]] = MaxValue THEN UNCHANGED <<count, block, asleep>>
     ELSE /\ count' = [count EXCEPT ![obj[t]] = @ + 1]
          /\ SyncGuest(count[obj[t]] + 1, waiters[obj[t]])
          /\ IF Sleepers(obj[t]) = {} THEN UNCHANGED asleep
             ELSE \E u \in Sleepers(obj[t]) : asleep' = asleep \ {u}
  /\ ReturnFrom(t)
  /\ UNCHANGED <<table, waiters, destroyed>>

----------------------------------------------------------------------------
InCall(t) ==
  \/ DestroyEnds(t) \/ DestroyClears(t)
  \/ Fails(t) \/ Takes(t) \/ GivesUp(t) \/ Sleeps(t) \/ Posts(t)

GuestCalls(t) ==
  \/ SemDestroy(t)
  \/ \E initial \in 0 .. MaxValue : SemInit(t, initial)
  \/ \E what \in Ops : LookupSem(t, what)

SemaphoreNext ==
  \/ \E t \in Threads : InCall(t) \/ SliceEnds(t) \/ GuestCalls(t)
  \/ \E o \in Objects : Collect(o)

SemaphoreSpec == SemaphoreInit /\ [][SemaphoreNext]_semVars

----------------------------------------------------------------------------
(* Properties *)

Waiters(o) == {t \in Threads : semPc[t] = "waiting" /\ obj[t] = o}

(***************************************************************************)
(* The comment in sem_init: "The old object must stop touching the guest   *)
(* block before the new one initialises it."  The block shows the count of *)
(* the semaphore that the table leads to, and has_waiters unless nobody is *)
(* asleep; without a semaphore it is clear.  The waiters of an old object, *)
(* still on their way out, do not write it.                                *)
(***************************************************************************)
BlockIsOfTheTable ==
  /\ SemaphoreTypeOK
  /\ table # NoObject =>
       /\ block.magic /\ block.count = count[table]
       /\ Sleepers(table) # {} => block.hasWaiters
  /\ table = NoObject /\ NobodyDestroys => block = NoBlock
  /\ \A o \in Objects : waiters[o] = Cardinality(Waiters(o))

(***************************************************************************)
(* A wait whose semaphore is destroyed or initialised again under it ends. *)
(***************************************************************************)
OldWaitsEnd ==
  \A t \in Threads : (semPc[t] = "waiting" /\ table # obj[t]) ~> (semPc[t] = "idle")
=============================================================================
