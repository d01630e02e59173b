--------------------------- MODULE MCPthreadCond ---------------------------
(* Instances of PthreadCond for TLC. *)
EXTENDS PthreadCond

CONSTANTS t1, t2, t3, s1, s2

TwoThreads == {t1, t2}
Others == {t2, t3}
ThreeThreads == {t1, t2, t3}
TwoStates == {s1, s2}
TwoTypes == {"Recursive", "Adaptive"}
AllCalls == {"Lock", "Trylock", "Timedlock", "Unlock"}
=============================================================================
