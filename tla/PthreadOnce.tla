---------------------------- MODULE PthreadOnce ----------------------------
(***************************************************************************)
(* PthreadOnce (PthreadCond.cpp): the once control is first read without   *)
(* g_pthread_once_mutex, the routine runs without it, and the callers that *)
(* find it running poll.  A step is a read or a critical section.          *)
(***************************************************************************)
CONSTANT Threads

VARIABLES control,  \* *once_control
          pc,       \* per thread: the place in its call
          ran       \* history: the threads that have called the routine

vars == <<control, pc, ran>>

Controls == {"Uninitialized", "InProgress", "Done"}
Places == {"idle", "enter", "poll", "sleep", "init", "finish", "returned"}

Init ==
  /\ control = "Uninitialized"
  /\ pc = [t \in Threads |-> "idle"]
  /\ ran = {}

GoTo(t, place) == pc' = [pc EXCEPT ![t] = place]

(* The read without the mutex.  Mutant: a routine in progress is enough. *)
Begun == control # "Uninitialized"
Finished == control = "Done"

Call(t) ==
  /\ pc[t] \in {"idle", "returned"}
  /\ GoTo(t, "enter")
  /\ UNCHANGED <<control, ran>>

FirstLook(t) ==
  /\ pc[t] = "enter"
  /\ GoTo(t, IF Finished THEN "returned" ELSE "poll")
  /\ UNCHANGED <<control, ran>>

(* The value the caller that runs the routine leaves. *)
Marked == "InProgress"

(* The critical section of the loop. *)
Poll(t) ==
  /\ pc[t] = "poll"
  /\ \/ control = "InProgress" /\ GoTo(t, "sleep") /\ UNCHANGED control
     \/ control = "Done" /\ GoTo(t, "returned") /\ UNCHANGED control
     \/ control = "Uninitialized" /\ GoTo(t, "init") /\ control' = Marked
  /\ UNCHANGED ran

Wake(t) ==
  /\ pc[t] = "sleep"
  /\ GoTo(t, "poll")
  /\ UNCHANGED <<control, ran>>

(* The guest's routine, which returns. *)
InitRoutine(t) ==
  /\ pc[t] = "init"
  /\ ran' = ran \cup {t}
  /\ GoTo(t, "finish")
  /\ UNCHANGED control

(* What is stored after the routine. *)
MarkedDone == "Done"

Finish(t) ==
  /\ pc[t] = "finish"
  /\ control' = MarkedDone
  /\ GoTo(t, "returned")
  /\ UNCHANGED ran

Run(t) == FirstLook(t) \/ Poll(t) \/ Wake(t) \/ InitRoutine(t) \/ Finish(t)

Next == \E t \in Threads : Call(t) \/ Run(t)

Spec == Init /\ [][Next]_vars

----------------------------------------------------------------------------
(* Properties *)

(* The type invariant, and: the control tells whether the routine is       *)
(* still to run, is running or has run, whoever looks at it and when.      *)
TypeOK ==
  /\ control \in Controls /\ pc \in [Threads -> Places] /\ ran \in SUBSET Threads
  /\ control = "InProgress" <=> \E t \in Threads : pc[t] \in {"init", "finish"}
  /\ control = "Done" => ran # {}

(* The routine runs in one thread and no caller returns before it has      *)
(* returned, neither on the way without the mutex nor after a poll.        *)
RunsOnceFirst ==
  /\ TypeOK
  /\ \A t, u \in ran \cup {v \in Threads : pc[v] \in {"init", "finish"}} : t = u
  /\ \A t \in Threads : pc[t] = "returned" => ran # {} /\ \A u \in ran : pc[u] # "finish"
============================================================================
