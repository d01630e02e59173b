------------------------------- MODULE MCWaits -------------------------------
(***************************************************************************)
(* An instance for TLC of the host's condition variable and of the event   *)
(* queues, in one run.  They share no state, and one moves only while the  *)
(* other is in its initial state: the states are those of the one and      *)
(* those of the other, not their pairs.  No step that is fair can be taken *)
(* in the initial state of its component, so that the fairness of the one  *)
(* asks nothing while the other moves.                                     *)
(***************************************************************************)
EXTENDS CondVar, EventQueue

WaitsInit == CondVarInit /\ EqueueInit

WaitsNext ==
  \/ EqueueInit /\ CondVarNext /\ UNCHANGED equeueVars
  \/ CondVarInit /\ EqueueNext /\ UNCHANGED monitorVars

WaitsSpec ==
  /\ WaitsInit /\ [][WaitsNext]_<<monitorVars, equeueVars>>
  /\ CondVarFairness /\ Fairness
=============================================================================
