-------------------------- MODULE MCManualResetEvent --------------------------
(* Instances of ManualResetEvent for TLC. *)
EXTENDS ManualResetEvent, TLC

CONSTANTS t1, t2, t3

MCTasks == {t1, t2, t3}
==============================================================================
