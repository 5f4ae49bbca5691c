------------------------------- MODULE MCFlowWait -------------------------------
(***************************************************************************)
(* Instance of FlowWait for TLC: a flow whose token two threads cancel.    *)
(* There is no symmetry, because the run checks liveness.                  *)
(***************************************************************************)
EXTENDS FlowWait
=============================================================================
