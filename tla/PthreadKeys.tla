----------------------------- MODULE PthreadKeys -----------------------------
(***************************************************************************)
(* Keys for values per thread (PthreadKeys.cpp): any thread creates and    *)
(* deletes keys; the module follows the values of one thread, through the  *)
(* destructor passes at its end.  Every action is one critical section of  *)
(* m_mutex; destructors are guest code and run without it.                 *)
(***************************************************************************)
EXTENDS Naturals

CONSTANTS Keys,
          Passes     \* DESTRUCTOR_ITERATIONS

VARIABLES
  used, hasDestructor,  \* members of a key
  value,     \* the thread's entry in specific_values: absent, null or not
  exit,      \* how far the thread is in Destruct
  pass,      \* iter
  pending    \* delete_list

keyVars == <<used, hasDestructor, value, exit, pass, pending>>
exitVars == <<exit, pass, pending>>

Init ==
  /\ used = [k \in Keys |-> FALSE]
  /\ hasDestructor = [k \in Keys |-> FALSE]
  /\ value = [k \in Keys |-> "absent"]
  /\ exit = "no" /\ pass = 0 /\ pending = {}

KeyCreate(k) ==
  /\ ~used[k]
  /\ used' = [used EXCEPT ![k] = TRUE]
  /\ \E d \in BOOLEAN : hasDestructor' = [hasDestructor EXCEPT ![k] = d]
  /\ value' = [value EXCEPT ![k] = "absent"]
  /\ UNCHANGED exitVars

KeyDelete(k) ==
  /\ used[k]
  /\ used' = [used EXCEPT ![k] = FALSE]
  /\ hasDestructor' = [hasDestructor EXCEPT ![k] = FALSE]
  /\ value' = [value EXCEPT ![k] = "absent"]
  /\ UNCHANGED exitVars

SetSpecific(k, v) ==
  /\ used[k]
  /\ value' = [value EXCEPT ![k] = v]
  /\ UNCHANGED <<used, hasDestructor, exitVars>>

-----------------------------------------------------------------------------
(* Destruct *)

DestructBegins ==
  /\ exit = "no"
  /\ exit' = "pass" /\ pass' = 0
  /\ UNCHANGED <<used, hasDestructor, value, pending>>

Due == {k \in Keys : used[k] /\ hasDestructor[k] /\ value[k] = "data"}

PassLeft == pass < Passes

Collect ==
  /\ exit = "pass" /\ PassLeft
  /\ pending' = Due
  /\ value' = [k \in Keys |-> IF k \in Due THEN "null" ELSE value[k]]
  /\ exit' = IF Due = {} THEN "erase" ELSE "calls"
  /\ UNCHANGED <<used, hasDestructor, pass>>

DestructorBegins(k) ==
  /\ exit = "calls" /\ k \in pending
  /\ pending' = pending \ {k} /\ exit' = "callback"
  /\ UNCHANGED <<used, hasDestructor, value, pass>>

DestructorEnds ==
  /\ exit = "callback"
  /\ IF pending = {} THEN exit' = "pass" /\ pass' = pass + 1
                     ELSE exit' = "calls" /\ UNCHANGED pass
  /\ UNCHANGED <<used, hasDestructor, value, pending>>

\* EraseSpecificValuesForThreadLocked.  Mutant: the entries with a null
\* value are left.
Forgotten == [k \in Keys |-> IF value[k] = "null" THEN "null" ELSE "absent"]
Erased == [k \in Keys |-> "absent"]

Erase ==
  /\ exit = "erase" \/ (exit = "pass" /\ ~PassLeft)
  /\ value' = Erased /\ exit' = "done"
  /\ UNCHANGED <<used, hasDestructor, pass, pending>>

\* A destructor that calls PthreadExit: the cleanup runs again, inside it.
NestedExit ==
  /\ exit = "callback"
  /\ value' = Erased /\ exit' = "done" /\ pending' = {}
  /\ UNCHANGED <<used, hasDestructor, pass>>

\* The next thread starts without values.
NewThread == exit' = "no" /\ pass' = 0 /\ pending' = {} /\ UNCHANGED <<used, hasDestructor, value>>

Destruct == Collect \/ Erase

-----------------------------------------------------------------------------
KeysTypeOK ==
  /\ used \in [Keys -> BOOLEAN] /\ hasDestructor \in [Keys -> BOOLEAN]
  /\ value \in [Keys -> {"absent", "null", "data"}]
  /\ exit \in {"no", "pass", "calls", "callback", "erase", "done"}
  /\ pass \in 0 .. Passes /\ pending \subseteq Keys

(* No entry outlives its key or its thread ("repeated workers cannot       *)
(* accumulate stale key records").                                         *)
NoStaleEntry ==
  /\ KeysTypeOK
  /\ \A k \in Keys : value[k] # "absent" => used[k] /\ exit # "done"

=============================================================================
