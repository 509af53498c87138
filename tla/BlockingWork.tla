---------------------------- MODULE BlockingWork ----------------------------
(***************************************************************************)
(* blocking::run (include/corouv/blocking.h): a function runs on libuv's   *)
(* thread pool while its coroutine sleeps, and the coroutine goes on on    *)
(* the loop's thread.  await_suspend is on the loop's thread, which        *)
(* uv_queue_work requires; Terminate comes from any thread; the pool       *)
(* works beside them.  The pool, uv_cancel and the executor are external.  *)
(***************************************************************************)
EXTENDS Naturals, FiniteSets

CONSTANTS
    Blockers,   \* coroutines
    PoolSize    \* threads of the pool

ASSUME BlockingAssumption == PoolSize \in Nat \ {0}

VARIABLES
    work,         \* the awaiter and its Op, of each coroutine
    workSignal,   \* coroutines on whose slot Terminate was emitted
    workPosts     \* coroutines for whose Op try_cancel_on_loop is posted

workVars == <<work, workSignal, workPosts>>

\* awaits: where the coroutine is.  req: where the request is, "none" when
\* libuv does not hold it.  h: op->h is not null.  dead: history, a frame that
\* was gone was resumed.
NewWork ==
    [awaits |-> "no", req |-> "none", armed |-> FALSE, queued |-> FALSE,
     cancel_requested |-> FALSE, abandoned |-> FALSE, h |-> TRUE,
     result |-> "none", after_status |-> "ok", outcome |-> "none", dead |-> FALSE]

BlockingInit ==
    /\ work = [t \in Blockers |-> NewWork]
    /\ workSignal = {}
    /\ workPosts = {}

\* The loop's thread is not in await_suspend.
LoopIdle == \A t \in Blockers : work[t].awaits \notin {"queue", "mark"}

\* uv_cancel takes back what no thread of the pool has begun.
UvCancel(o) ==
    IF o.req = "pool" THEN [o EXCEPT !.req = "after", !.after_status = "ECANCELED"] ELSE o

try_cancel_on_loop(o) == IF o.queued THEN UvCancel(o) ELSE o

\* run, await_ready and await_suspend up to tryEmplace.  The Op of an earlier
\* run has no closure left, so that one Op per coroutine is enough; a cancelled
\* task makes none.
run(t) ==
    /\ LoopIdle
    /\ work[t].awaits = "no" /\ work[t].req = "none" /\ t \notin workPosts
    /\ work' = [work EXCEPT ![t] =
         IF t \in workSignal THEN [@ EXCEPT !.outcome = "canceled"]
         ELSE [NewWork EXCEPT !.awaits = "queue", !.armed = TRUE]]
    /\ UNCHANGED <<workSignal, workPosts>>

\* await_resume; the slot is cleared, and its signal comes before the result.
Resumed(t, o) ==
    [o EXCEPT !.awaits = "no", !.armed = FALSE,
              !.outcome = IF t \in workSignal \/ o.after_status = "ECANCELED" THEN "canceled"
                          ELSE IF o.after_status = "refused" THEN "refused"
                          ELSE o.result]

QueueWork(t) ==
    /\ work[t].awaits = "queue"
    /\ work' = [work EXCEPT ![t] = [@ EXCEPT !.awaits = "mark", !.req = "pool"]]
    /\ UNCHANGED <<workSignal, workPosts>>

\* uv_queue_work fails: await_suspend returns false.
QueueRefused(t) ==
    /\ work[t].awaits = "queue"
    /\ work' = [work EXCEPT ![t] = Resumed(t, [@ EXCEPT !.after_status = "refused"])]
    /\ UNCHANGED <<workSignal, workPosts>>

\* The end of await_suspend: _op->queued, then cancel_requested once more.
MarkQueued(t) ==
    /\ work[t].awaits = "mark"
    /\ work' = [work EXCEPT ![t] =
         LET o == [@ EXCEPT !.awaits = "asleep", !.queued = TRUE]
         IN IF o.cancel_requested THEN try_cancel_on_loop(o) ELSE o]
    /\ UNCHANGED <<workSignal, workPosts>>

\* A thread of the pool takes the request, and ends on_work.
TakeWork(t) ==
    /\ work[t].req = "pool"
    /\ Cardinality({u \in Blockers : work[u].req = "running"}) < PoolSize
    /\ work' = [work EXCEPT ![t].req = "running"]
    /\ UNCHANGED <<workSignal, workPosts>>

on_work(t) ==
    /\ work[t].req = "running"
    /\ \E r \in {"value", "exception"} :
         work' = [work EXCEPT ![t].req = "after", ![t].result = r]
    /\ UNCHANGED <<workSignal, workPosts>>

on_after_work(t) ==
    /\ LoopIdle /\ work[t].req = "after"
    /\ work' = [work EXCEPT ![t] =
         LET o == [@ EXCEPT !.req = "none"]
         IN IF o.abandoned \/ ~o.h THEN o
            ELSE Resumed(t, [o EXCEPT !.dead = o.awaits # "asleep"])]
    /\ UNCHANGED <<workSignal, workPosts>>

EmitWork(t) ==
    /\ t \notin workSignal
    /\ workSignal' = workSignal \cup {t}
    /\ UNCHANGED <<work, workPosts>>

\* The handler that await_suspend emplaced, on the emitting thread.
CancelWork(t) ==
    /\ t \in workSignal /\ work[t].armed
    /\ work' = [work EXCEPT ![t].cancel_requested = TRUE, ![t].armed = FALSE]
    /\ workPosts' = workPosts \cup {t}
    /\ UNCHANGED workSignal

RunTryCancel(t) ==
    /\ LoopIdle /\ t \in workPosts
    /\ work' = [work EXCEPT ![t] = try_cancel_on_loop(@)]
    /\ workPosts' = workPosts \ {t}
    /\ UNCHANGED workSignal

\* ~WorkAwaiter, of a frame that is destroyed while it sleeps.
Abandon_Nothing(o) == o
Abandon(o) == [o EXCEPT !.abandoned = TRUE, !.h = FALSE]

DestroyFrame(t) ==
    /\ LoopIdle /\ work[t].awaits = "asleep"
    /\ work' = [work EXCEPT ![t] = Abandon([@ EXCEPT !.awaits = "gone"])]
    /\ workPosts' = workPosts \cup {t}
    /\ UNCHANGED workSignal

BlockingNext ==
    \E t \in Blockers :
        \/ run(t) \/ QueueWork(t) \/ QueueRefused(t) \/ MarkQueued(t)
        \/ TakeWork(t) \/ on_work(t) \/ on_after_work(t)
        \/ EmitWork(t) \/ CancelWork(t) \/ RunTryCancel(t) \/ DestroyFrame(t)

-----------------------------------------------------------------------------
\* blocking::run ends once, and only when the pool is through with the
\* function: a coroutine that sleeps has its request in libuv's hands, one that
\* is back has none there (so that what the function refers to in the
\* coroutine's frame outlives it), it returns the function's value or
\* exception only if the function ran, and on_after_work never resumes a frame
\* that ~WorkAwaiter has announced to be gone.  A cancellation that could still
\* take the request back is on its way to the loop.
WorkEndsOnce ==
    \A t \in Blockers :
        LET o == work[t] IN
        /\ ~o.dead
        /\ o.awaits = "asleep" => o.req # "none"
        /\ o.awaits = "no" => o.req = "none"
        /\ o.awaits = "no" /\ o.outcome \in {"value", "exception"} => o.result = o.outcome
        /\ o.awaits = "asleep" /\ t \in workSignal /\ o.req = "pool" => o.armed \/ t \in workPosts
=============================================================================
