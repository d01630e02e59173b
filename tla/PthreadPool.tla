----------------------------- MODULE PthreadPool -----------------------------
(***************************************************************************)
(* The slots of guest threads (PthreadPool in PthreadObjects.cpp) and the  *)
(* calls that create, detach and join the threads in them (Pthread.cpp).   *)
(*                                                                         *)
(* A slot is taken under the pool's mutex and given back without it.  Who  *)
(* joins the host thread of a slot gives it back: a guest thread in        *)
(* PthreadJoin, or the reaper, which holds the mutex over its whole sweep. *)
(*                                                                         *)
(* The guest keeps the rule of pthreads: the handle of a thread is used up *)
(* by one join or one detach.                                              *)
(***************************************************************************)
CONSTANTS Slots,   \* the PthreadPrivate objects of the pool
          Users,   \* guest threads that create, detach and join
          Reaper   \* the thread of FreeDetachedThreads

VARIABLES
  free, detached, almostDone,  \* members of a slot
  stack,     \* the slot has a guest stack
  host,      \* the host thread behind the slot
  handle,    \* what the guest may still do with its handle
  pc, slot,  \* where a user or the reaper is, and with which slot
  todo       \* the slots the sweep has not looked at

poolVars == <<free, detached, almostDone, stack, host, handle, pc, slot, todo>>
calls == <<pc, slot, todo>>

Actors == Users \cup {Reaper}
Places == {"idle", "fill", "spawn", "undo", "join", "release", "give",   \* in a call
           "sweep", "done", "used", "recheck"}                          \* in a sweep

Init ==
  /\ free = [s \in Slots |-> TRUE]
  /\ detached = [s \in Slots |-> FALSE]
  /\ almostDone = [s \in Slots |-> FALSE]
  /\ stack = [s \in Slots |-> FALSE]
  /\ host = [s \in Slots |-> "none"]
  /\ handle = [s \in Slots |-> "none"]
  /\ pc = [a \in Actors |-> "idle"]
  /\ slot \in [Actors -> Slots]
  /\ todo = {}

Goes(a, place) == pc' = [pc EXCEPT ![a] = place] /\ UNCHANGED <<slot, todo>>
With(a, place, s) == /\ pc' = [pc EXCEPT ![a] = place]
                     /\ slot' = [slot EXCEPT ![a] = s]

\* The pool's m_mutex is kept over more than one step by the reaper only.
MutexFree == pc[Reaper] = "idle"

-----------------------------------------------------------------------------
(* PthreadCreate *)

\* PthreadPool::Create: any free slot stands for the first.
TakeSlot(u, s) ==
  /\ pc[u] = "idle" /\ u # Reaper /\ MutexFree /\ free[s]
  /\ free' = [free EXCEPT ![s] = FALSE]
  /\ With(u, "fill", s) /\ UNCHANGED todo
  /\ UNCHANGED <<detached, almostDone, stack, host, handle>>

Fill(u) ==
  /\ pc[u] = "fill"
  /\ almostDone' = [almostDone EXCEPT ![slot[u]] = FALSE]
  /\ \E d \in BOOLEAN : detached' = [detached EXCEPT ![slot[u]] = d]
  /\ stack' = [stack EXCEPT ![slot[u]] = TRUE]
  /\ Goes(u, "spawn")
  /\ UNCHANGED <<free, host, handle>>

\* The attributes cannot be copied, or later the stack cannot be mapped.
FillFails(u) ==
  /\ pc[u] = "fill"
  /\ \E d \in BOOLEAN : detached' = [detached EXCEPT ![slot[u]] = d]
  /\ Goes(u, "undo")
  /\ UNCHANGED <<free, almostDone, stack, host, handle>>

Spawn(u) ==
  /\ pc[u] = "spawn"
  /\ host' = [host EXCEPT ![slot[u]] = "running"]
  /\ handle' = [handle EXCEPT ![slot[u]] = IF detached[slot[u]] THEN "detached" ELSE "open"]
  /\ Goes(u, "idle")
  /\ UNCHANGED <<free, detached, almostDone, stack>>

SpawnFails(u) == pc[u] = "spawn" /\ Goes(u, "undo")
                 /\ UNCHANGED <<free, detached, almostDone, stack, host, handle>>

Undo(u) ==
  /\ pc[u] = "undo"
  /\ stack' = [stack EXCEPT ![slot[u]] = FALSE]
  /\ almostDone' = [almostDone EXCEPT ![slot[u]] = FALSE]
  /\ detached' = [detached EXCEPT ![slot[u]] = FALSE]
  /\ Goes(u, "give")
  /\ UNCHANGED <<free, host, handle>>

-----------------------------------------------------------------------------
(* The end of a thread: the last statement of cleanup_thread, and the end  *)
(* of the host thread.                                                     *)

AlmostDone(s) ==
  /\ host[s] = "running"
  /\ almostDone' = [almostDone EXCEPT ![s] = TRUE]
  /\ host' = [host EXCEPT ![s] = "leaving"]
  /\ UNCHANGED <<free, detached, stack, handle, calls>>

HostEnds(s) ==
  /\ host[s] = "leaving"
  /\ host' = [host EXCEPT ![s] = "ended"]
  /\ UNCHANGED <<free, detached, almostDone, stack, handle, calls>>

-----------------------------------------------------------------------------
(* PthreadDetach and PthreadJoin.  A detached thread may be asked for, in  *)
(* vain.                                                                   *)

Detach(s) ==
  /\ handle[s] = "open"
  /\ handle' = [handle EXCEPT ![s] = "detached"]
  /\ detached' = [detached EXCEPT ![s] = TRUE]
  /\ UNCHANGED <<free, almostDone, stack, host, calls>>

\* Mutant: the join does not ask.
NeverRefused(s) == FALSE
Refused(s) == detached[s]

Join(u, s) ==
  /\ pc[u] = "idle" /\ u # Reaper /\ handle[s] \in {"open", "detached"}
  /\ IF Refused(s)
       THEN UNCHANGED <<handle, calls>>
       ELSE /\ handle' = [handle EXCEPT ![s] = "joining"]
            /\ With(u, "join", s) /\ UNCHANGED todo
  /\ UNCHANGED <<free, detached, almostDone, stack, host>>

\* pthread_join_internal, for a user or the reaper.
HostJoined(a) ==
  /\ pc[a] = "join" /\ host[slot[a]] = "ended"
  /\ host' = [host EXCEPT ![slot[a]] = "none"]
  /\ Goes(a, "release")
  /\ UNCHANGED <<free, detached, almostDone, stack, handle>>

Release(a) ==
  /\ pc[a] = "release"
  /\ stack' = [stack EXCEPT ![slot[a]] = FALSE]
  /\ almostDone' = [almostDone EXCEPT ![slot[a]] = FALSE]
  /\ Goes(a, "give")
  /\ UNCHANGED <<free, detached, host, handle>>

GiveSlot(a) ==
  /\ pc[a] = "give"
  /\ free' = [free EXCEPT ![slot[a]] = TRUE]
  /\ handle' = [handle EXCEPT ![slot[a]] = "none"]
  /\ Goes(a, IF a = Reaper THEN "sweep" ELSE "idle")
  /\ UNCHANGED <<detached, almostDone, stack, host>>

-----------------------------------------------------------------------------
(* The reaper: one read of a member at a time.                             *)

Reads(from, value, next) ==
  /\ pc[Reaper] = from
  /\ Goes(Reaper, IF value THEN next ELSE "sweep")
  /\ UNCHANGED <<free, detached, almostDone, stack, host, handle>>

SweepBegins ==
  /\ pc[Reaper] = "idle"
  /\ pc' = [pc EXCEPT ![Reaper] = "sweep"] /\ todo' = Slots
  /\ UNCHANGED <<free, detached, almostDone, stack, host, handle, slot>>

SweepEnds == todo = {} /\ Reads("sweep", TRUE, "idle")

SeesDetached(s) ==
  /\ pc[Reaper] = "sweep" /\ s \in todo
  /\ With(Reaper, IF detached[s] THEN "done" ELSE "sweep", s)
  /\ todo' = todo \ {s}
  /\ UNCHANGED <<free, detached, almostDone, stack, host, handle>>

\* Mutant: any detached thread is waited for.
Anyway(s) == TRUE
SeemsDone(s) == almostDone[s]

SeesDone    == Reads("done", SeemsDone(slot[Reaper]), "used")
SeesUsed    == Reads("used", ~free[slot[Reaper]], "recheck")
ReapChecks  == Reads("recheck", detached[slot[Reaper]], "join")

-----------------------------------------------------------------------------
InCall(a) == HostJoined(a) \/ Release(a) \/ GiveSlot(a)
Reap == \/ SweepBegins \/ SweepEnds \/ (\E s \in Slots : SeesDetached(s))
        \/ SeesDone \/ SeesUsed \/ ReapChecks \/ InCall(Reaper)

-----------------------------------------------------------------------------
(* Properties *)

PoolTypeOK ==
  /\ {free, detached, almostDone, stack} \subseteq [Slots -> BOOLEAN]
  /\ host \in [Slots -> {"none", "running", "leaving", "ended"}]
  /\ handle \in [Slots -> {"none", "open", "joining", "detached"}]
  /\ pc \in [Actors -> Places] /\ slot \in [Actors -> Slots] /\ todo \subseteq Slots

\* The actors that work on slot s.
Works(s) == {a \in Actors : slot[a] = s /\ pc[a] \in {"fill", "spawn", "undo", "join", "release", "give"}}

(***************************************************************************)
(* One thread at a time owns a slot that is not free; a host thread is     *)
(* joined once, by whom it is due to; it has its stack until it has been   *)
(* joined, and a free slot has nothing left of it, so that the next thread *)
(* in the slot is not taken for the last one.                              *)
(***************************************************************************)
SlotsAreSound ==
  /\ PoolTypeOK
  /\ \A s \in Slots :
       /\ \A a, b \in Works(s) : a = b
       /\ \A a \in Works(s) : pc[a] = "join" => host[s] # "none"
       /\ host[s] # "none" => stack[s] /\ ~free[s]
       /\ free[s] => ~stack[s] /\ ~almostDone[s] /\ Works(s) = {}

=============================================================================
