-------------------------- MODULE MCSyncOnAddress --------------------------
(* An instance of SyncOnAddress for TLC. *)
EXTENDS SyncOnAddress

CONSTANTS w1, w2, k1, s1, s2

TwoWaiters == {w1, w2}
OneWaker == {k1}
TwoStates == {s1, s2}
=============================================================================
