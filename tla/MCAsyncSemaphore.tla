--------------------------- MODULE MCAsyncSemaphore ---------------------------
(* Instances of AsyncSemaphore for TLC. *)
EXTENDS AsyncSemaphore, TLC

CONSTANTS t1, t2, t3

MCTasks == {t1, t2, t3}
==============================================================================
