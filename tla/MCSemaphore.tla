---------------------------- MODULE MCSemaphore ----------------------------
(* Instances of Semaphore for TLC. *)
EXTENDS Semaphore

CONSTANTS t1, t2, t3

WaitCall(n, w) == [op |-> "Wait", n |-> n, timeout |-> w]
OpCall(o, n) == [NoCall EXCEPT !.op = o, !.n = n]

ThreeThreads == {t1, t2, t3}

(* A wait for more than Cancel hands out or than one signal gives, a poll, and a Cancel beyond the
   maximum.  Ints have three bits (IntMax = 3): a signal of 3 is refused by an empty semaphore and wraps
   the count of another below zero, down to the smallest int. *)
Kinds ==
  {WaitCall(1, "Infinite"), WaitCall(2, "Finite"), WaitCall(1, "Zero"), OpCall("Signal", 1),
   OpCall("Signal", 3), OpCall("Cancel", 1), OpCall("Cancel", 3), OpCall("Delete", 0)}
=============================================================================
