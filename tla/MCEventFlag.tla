---------------------------- MODULE MCEventFlag ----------------------------
(* Instances of EventFlag for TLC. *)
EXTENDS EventFlag

CONSTANTS t1, t2, t3, a, b

WaitCall(p, m, c, w) == [op |-> "Wait", pattern |-> p, mode |-> m, clear |-> c, timeout |-> w]
OpCall(o, p) == [NoCall EXCEPT !.op = o, !.pattern = p]

(* Three threads on two bits: waits of every mode, clear mode and timeout, *)
(* a Set that satisfies one of them and a Cancel that satisfies them all.  *)
ThreeThreads == {t1, t2, t3}
TwoBits == {a, b}
Kinds ==
  {WaitCall({a}, "And", "All", "Infinite"), WaitCall({a, b}, "Or", "Bits", "Finite"),
   WaitCall({a, b}, "And", "None", "Zero"), WaitCall({}, "Or", "None", "Finite"),
   OpCall("Set", {b}), OpCall("Clear", {b}), OpCall("Cancel", {a, b}), OpCall("Delete", {})}
=============================================================================
