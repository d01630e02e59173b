-------------------------- MODULE AtomicEventFlag --------------------------
(***************************************************************************)
(* What an event flag promises its callers, with no mutex, condition       *)
(* variable or counter: every operation takes effect at one instant.  A    *)
(* Cancel dooms, at that instant, exactly the waits that are waiting; each *)
(* of them returns ECANCELED, nobody sets, clears, cancels or deletes the  *)
(* flag until they have, and only then does Cancel return.  A Delete       *)
(* returns when nothing waits any more.                                    *)
(***************************************************************************)
CONSTANTS Threads, Bits, Requests, NoRequest

VARIABLES pattern,   \* the bits that are set
          deleted,   \* Delete has taken effect
          single,    \* at most one waiter
          busy,      \* threads inside a call
          want,      \* the call of a busy thread
          waiting,   \* threads blocked in a wait
          doomed,    \* waits canceled by the Cancel in progress
          result     \* what the last call of a thread returned

avars == <<pattern, deleted, single, busy, want, waiting, doomed, result>>

Init == /\ pattern \in SUBSET Bits
        /\ single \in BOOLEAN
        /\ deleted = FALSE
        /\ busy = {} /\ waiting = {} /\ doomed = {}
        /\ want = [t \in Threads |-> NoRequest]
        /\ result = [t \in Threads |-> "None"]

Holds(c) == IF c.mode = "And" THEN c.pattern \subseteq pattern
                              ELSE c.pattern \cap pattern # {}

Left(c) == CASE c.clear = "None" -> pattern
             [] c.clear = "All"  -> {}
             [] c.clear = "Bits" -> pattern \ c.pattern

Reply(t, code) ==
  /\ busy' = busy \ {t}
  /\ want' = [want EXCEPT ![t] = NoRequest]
  /\ result' = [result EXCEPT ![t] = code]

Request(t) ==
  /\ t \notin busy
  /\ \E c \in Requests : want' = [want EXCEPT ![t] = c]
  /\ busy' = busy \cup {t}
  /\ result' = [result EXCEPT ![t] = "None"]
  /\ UNCHANGED <<pattern, deleted, single, waiting, doomed>>

(* A call turned away at the API: bad handle or argument. *)
Reject(t) ==
  /\ t \notin busy
  /\ \E code \in {"ESRCH", "EINVAL"} : Reply(t, code)
  /\ UNCHANGED <<pattern, deleted, single, waiting, doomed>>

IsWaiter(t) == t \in busy /\ want[t].op = "Wait"

(* A wait succeeds only on a pattern that satisfies it, and never once it  *)
(* is doomed or the flag deleted.                                          *)
Succeed(t) ==
  /\ IsWaiter(t) /\ t \notin doomed /\ ~deleted /\ Holds(want[t])
  /\ pattern' = Left(want[t])
  /\ waiting' = waiting \ {t}
  /\ Reply(t, "OK")
  /\ UNCHANGED <<deleted, single, doomed>>

Block(t) ==
  /\ IsWaiter(t) /\ t \notin waiting /\ doomed = {} /\ ~deleted
  /\ ~Holds(want[t])
  /\ single => waiting = {}
  /\ want[t].timeout # "Zero"
  /\ waiting' = waiting \cup {t}
  /\ UNCHANGED <<pattern, deleted, single, busy, want, doomed, result>>

(* A timed wait gives up unsatisfied; a second waiter is turned away. *)
GiveUp(t) ==
  /\ IsWaiter(t) /\ t \notin doomed /\ ~deleted
  /\ \/ ~Holds(want[t]) /\ want[t].timeout = "Finite" /\ Reply(t, "ETIMEDOUT")
     \/ ~Holds(want[t]) /\ want[t].timeout = "Zero" /\ Reply(t, "EBUSY")
     \/ single /\ waiting \cup doomed # {} /\ t \notin waiting /\ Reply(t, "EPERM")
  /\ waiting' = waiting \ {t}
  /\ UNCHANGED <<pattern, deleted, single, doomed>>

Canceled(t) ==
  /\ t \in doomed
  /\ doomed' = doomed \ {t}
  /\ Reply(t, "ECANCELED")
  /\ UNCHANGED <<pattern, deleted, single, waiting>>

FindDeleted(t) ==
  /\ t \in busy /\ deleted
  /\ waiting' = waiting \ {t}
  /\ Reply(t, IF want[t].op = "Wait" /\ want[t].timeout = "Zero" THEN "EBUSY" ELSE "EACCES")
  /\ UNCHANGED <<pattern, deleted, single, doomed>>

Operable(t, op) == t \in busy /\ want[t].op = op /\ doomed = {} /\ ~deleted

Set(t) ==
  /\ Operable(t, "Set")
  /\ pattern' = pattern \cup want[t].pattern
  /\ Reply(t, "OK")
  /\ UNCHANGED <<deleted, single, waiting, doomed>>

Clear(t) ==
  /\ Operable(t, "Clear")
  /\ pattern' = pattern \cap want[t].pattern
  /\ Reply(t, "OK")
  /\ UNCHANGED <<deleted, single, waiting, doomed>>

Cancel(t) ==
  /\ Operable(t, "Cancel")
  /\ pattern' = want[t].pattern
  /\ doomed' = waiting /\ waiting' = {}
  /\ \/ waiting = {} /\ Reply(t, "OK")
     \/ waiting # {} /\ UNCHANGED <<busy, want, result>>
  /\ UNCHANGED <<deleted, single>>

CancelReturns(t) ==
  /\ t \in busy /\ want[t].op = "Cancel" /\ doomed = {}
  /\ Reply(t, "OK")
  /\ UNCHANGED <<pattern, deleted, single, waiting, doomed>>

Delete(t) ==
  /\ Operable(t, "Delete")
  /\ deleted' = TRUE
  /\ \/ waiting = {} /\ Reply(t, "OK")
     \/ UNCHANGED <<busy, want, result>>
  /\ UNCHANGED <<pattern, single, waiting, doomed>>

DeleteReturns(t) ==
  /\ t \in busy /\ want[t].op = "Delete" /\ deleted /\ waiting = {}
  /\ Reply(t, "OK")
  /\ UNCHANGED <<pattern, deleted, single, waiting, doomed>>

Next == \E t \in Threads :
  \/ Request(t) \/ Reject(t)
  \/ Succeed(t) \/ Block(t) \/ GiveUp(t) \/ Canceled(t) \/ FindDeleted(t)
  \/ Set(t) \/ Clear(t) \/ Cancel(t) \/ CancelReturns(t)
  \/ Delete(t) \/ DeleteReturns(t)

Spec == Init /\ [][Next]_avars
=============================================================================
