----------------------------- MODULE MCTaskGroup -----------------------------
(* Instances of TaskGroup for TLC. *)
EXTENDS TaskGroup, TLC

CONSTANTS c1, c2, c3, w1, w2

MCChildren == {c1, c2, c3}
MCWaiters == {w1, w2}
==============================================================================
