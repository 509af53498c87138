----------------------------- MODULE MCUvExecutor -----------------------------
(* Instances of UvExecutor for TLC. *)
EXTENDS UvExecutor, TLC

CONSTANTS j1, far, near
==============================================================================
