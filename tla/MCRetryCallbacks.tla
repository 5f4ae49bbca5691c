---------------------------- MODULE MCRetryCallbacks ----------------------------
(***************************************************************************)
(* Instance of RetryCallbacks for TLC.                                     *)
(***************************************************************************)
EXTENDS RetryCallbacks
=============================================================================
