----------------------------- MODULE MCAsyncMutex -----------------------------
(* Instances of AsyncMutex for TLC. *)
EXTENDS AsyncMutex, TLC

CONSTANTS t1, t2, t3

MCTasks == {t1, t2, t3}
==============================================================================
