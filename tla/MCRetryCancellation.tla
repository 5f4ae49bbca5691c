-------------------------- MODULE MCRetryCancellation --------------------------
(***************************************************************************)
(* Instance of RetryCancellation for TLC.  No symmetry: the latch promises *)
(* something of each future.                                               *)
(***************************************************************************)
EXTENDS RetryCancellation
=============================================================================
