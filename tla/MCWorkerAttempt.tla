---------------------------- MODULE MCWorkerAttempt ----------------------------
(***************************************************************************)
(* Instances of WorkerAttempt for TLC.  Two attempts show what one leaves  *)
(* behind for the next; every value of grace is a case of its own.         *)
(***************************************************************************)
EXTENDS WorkerAttempt
=============================================================================
