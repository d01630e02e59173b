----------------------------- MODULE PthreadLife -----------------------------
(***************************************************************************)
(* The life of a guest thread: the pool that creates, joins and reaps it   *)
(* (PthreadPool), its values for keys and their destructors (PthreadKeys), *)
(* and the requests for its registers (PthreadContext).  run_thread and    *)
(* cleanup_thread in Pthread.cpp order the steps of the three.             *)
(*                                                                         *)
(* The thread of one slot is followed from its creation to its end, again  *)
(* and again; of those in the other slots only what the pool sees.         *)
(***************************************************************************)
EXTENDS PthreadContext

CONSTANTS Slots, Users, Reaper, Keys, Passes,
          Tracked     \* the slot whose thread is followed

ASSUME LifeAssumption ==
  /\ Tracked \in Slots
  /\ Reaper \notin Users
  /\ Passes \in Nat \ {0}

VARIABLES
  free, detached, almostDone, stack, host, handle, pc, slot, todo,  \* PthreadPool
  used, hasDestructor, value, exit, pass, pending                   \* PthreadKeys

Pool == INSTANCE PthreadPool
Key == INSTANCE PthreadKeys

poolVars == <<free, detached, almostDone, stack, host, handle, pc, slot, todo>>
keyVars == <<used, hasDestructor, value, exit, pass, pending>>
lifeVars == <<vars, poolVars, keyVars>>

LifeInit == Init /\ Pool!Init /\ Key!Init

-----------------------------------------------------------------------------
(* Creation *)

Fills(u) ==
  /\ Pool!Fill(u)
  /\ IF slot[u] = Tracked THEN OpenContext /\ Key!NewThread
                          ELSE UNCHANGED <<vars, keyVars>>

SpawnFails(u) ==
  /\ Pool!SpawnFails(u)
  /\ IF slot[u] = Tracked THEN CreationFails ELSE UNCHANGED vars
  /\ UNCHANGED keyVars

\* The calls of the users that end, whatever the others do.
Creates(u) ==
  \/ Fills(u) \/ SpawnFails(u)
  \/ (Pool!FillFails(u) \/ Pool!Spawn(u) \/ Pool!Undo(u)) /\ UNCHANGED <<vars, keyVars>>

Starts == host[Tracked] = "running" /\ StartContext /\ UNCHANGED <<poolVars, keyVars>>

-----------------------------------------------------------------------------
(* The thread's end: key destructors, then the context, then the pool.     *)

InHost == at = "host" /\ phase = "none"

DestructBegins == InHost /\ Key!DestructBegins /\ UNCHANGED <<vars, poolVars>>
Destruct == InHost /\ Key!Destruct /\ UNCHANGED <<vars, poolVars>>

DestructorBegins(k) ==
  Key!DestructorBegins(k) /\ Moves({"host"}, {"guest"}) /\ UNCHANGED poolVars

DestructorEnds ==
  Key!DestructorEnds /\ Moves({"guest"}, {"host"}) /\ UNCHANGED poolVars

NestedExit ==
  Key!NestedExit /\ Moves({"guest"}, {"host"}) /\ UNCHANGED poolVars

Closes == exit = "done" /\ CloseContext /\ UNCHANGED <<poolVars, keyVars>>

Ends(s) ==
  /\ s = Tracked => at = "closed"
  /\ Pool!AlmostDone(s) \/ Pool!HostEnds(s)
  /\ UNCHANGED <<vars, keyVars>>

-----------------------------------------------------------------------------
(* Between.  Host code that a thread has entered, and the work of a        *)
(* collector, may need the pool's mutex.                                   *)

RunsGuestCode == exit \in {"no", "callback"}

Leaves == /\ RunsGuestCode /\ Pool!MutexFree
          /\ LeaveHost /\ UNCHANGED <<poolVars, keyVars>>

Restarts(r) == Pool!MutexFree /\ Restart(r) /\ UNCHANGED <<poolVars, keyVars>>

SetsSpecific(k, v) ==
  /\ at = "guest" /\ phase = "none" /\ RunsGuestCode
  /\ Key!SetSpecific(k, v) /\ UNCHANGED <<vars, poolVars>>

KeyCall(k) ==
  (Key!KeyCreate(k) \/ Key!KeyDelete(k)) /\ UNCHANGED <<vars, poolVars>>

Requests ==
  /\ \/ InstallHandler \/ Deliver \/ Return \/ EnterHost \/ Close
     \/ \E r \in Raisers : RaiseRefused(r) \/ Raise(r) \/ Send(r)
  /\ UNCHANGED <<poolVars, keyVars>>

PoolCall ==
  /\ \/ \E u \in Users, s \in Slots : Pool!TakeSlot(u, s) \/ Pool!Join(u, s)
     \/ \E s \in Slots : Pool!Detach(s)
  /\ UNCHANGED <<vars, keyVars>>

Joins(u) == Pool!InCall(u) /\ UNCHANGED <<vars, keyVars>>
Reap == Pool!Reap /\ UNCHANGED <<vars, keyVars>>

LifeNext ==
  \/ Requests \/ PoolCall \/ Reap \/ Starts \/ Leaves
  \/ \E r \in Raisers : Restarts(r)
  \/ \E u \in Users : Creates(u) \/ Joins(u)
  \/ \E s \in Slots : Ends(s)
  \/ DestructBegins \/ Destruct \/ DestructorEnds \/ NestedExit \/ Closes
  \/ \E k \in Keys : \/ DestructorBegins(k) \/ KeyCall(k)
                     \/ \E v \in {"null", "data"} : SetsSpecific(k, v)

LifeSpec == LifeInit /\ [][LifeNext]_lifeVars

\* The thread's own next step, outside guest code and locks.
ThreadStep ==
  \/ (TakeRequest \/ Return \/ Close) /\ UNCHANGED <<poolVars, keyVars>>
  \/ Starts \/ Destruct \/ (\E k \in Keys : DestructorBegins(k)) \/ Ends(Tracked)

\* A destructor comes back from the emulator's code that it calls, waits in
\* it included.
DestructorWakes ==
  exit = "callback" /\ at = "wait" /\ EnterHost /\ UNCHANGED <<poolVars, keyVars>>
DestructorGoesOn == exit = "callback" /\ Leaves /\ at' = "guest"

(***************************************************************************)
(* The reaper sleeps between its sweeps, long enough for whoever waits for *)
(* the mutex (FreeDetachedThreads, Pthread.cpp:95); a destructor returns,  *)
(* although requests interrupt it; strong fairness of an interrupt at a    *)
(* safe point stands for the spread of the retry periods (ArmRetry): a     *)
(* thread that comes to safe points again and again is not forever         *)
(* interrupted between them.                                               *)
(***************************************************************************)
LifeFairness ==
  /\ WF_lifeVars(ThreadStep)
  /\ SF_lifeVars(Closes \/ DestructorEnds)
  /\ SF_lifeVars(DestructorWakes) /\ SF_lifeVars(DestructorGoesOn) /\ SF_lifeVars(Leaves)
  /\ SF_lifeVars(AtSafePoint /\ Interrupt /\ UNCHANGED <<poolVars, keyVars>>)
  /\ WF_lifeVars((\E r \in Raisers : Send(r)) /\ UNCHANGED <<poolVars, keyVars>>)
  /\ SF_lifeVars(\E r \in Raisers : Restarts(r))
  /\ \A u \in Users : WF_lifeVars(Creates(u) \/ Joins(u))
  /\ WF_lifeVars(Reap)
  /\ \A s \in Slots \ {Tracked} : WF_lifeVars(Ends(s))

FairLifeSpec == LifeSpec /\ LifeFairness

-----------------------------------------------------------------------------
(* Properties *)

\* PthreadPool!SlotsAreSound, whatever the threads in the slots do.
SlotsAreSound == Pool!SlotsAreSound

(***************************************************************************)
(* What ends leaves nothing to the next thread in its slot: no request, no *)
(* handler, no timer (PthreadCloseContext) and no value of a key           *)
(* (PthreadKeys::Destruct), even if a destructor ended the thread anew;    *)
(* and the slot is not filled again before that (PthreadPool::Create).     *)
(***************************************************************************)
EndsClean ==
  /\ ClosedIsQuiet
  /\ Key!NoStaleEntry
  /\ \A u \in Users : pc[u] = "fill" /\ slot[u] = Tracked => at = "closed"

(***************************************************************************)
(* A thread that has begun to end, and that is detached or that somebody   *)
(* joins, gives its slot back: its destructors do not call each other      *)
(* without end, its close is not kept waiting, and the reaper, which holds *)
(* the pool's mutex while it joins, waits for no thread that may still     *)
(* need it (PthreadPool::FreeDetachedThreads, PthreadKeys::Destruct).  A   *)
(* thread whose request was lost with a failed resend never closes.        *)
(***************************************************************************)
ThreadsAreReclaimed ==
  (exit # "no" /\ handle[Tracked] \in {"joining", "detached"}) ~> (free[Tracked] \/ lost)

=============================================================================
