------------------------------ MODULE PollWait ------------------------------
(***************************************************************************)
(* poll::wait (include/corouv/poll.h): a coroutine sleeps until libuv      *)
(* reports its descriptor ready, or until it is cancelled.  start_on_loop, *)
(* cancel_on_loop and the callbacks run on the loop's thread, one at a     *)
(* time; a coroutine of OffLoopPollers awaits on another thread and posts  *)
(* the start.  The executor is its queue, as in UvExecutor, with enqueue   *)
(* as one step; the signal is external.                                    *)
(***************************************************************************)
EXTENDS Naturals, Sequences

CONSTANTS
    Pollers,         \* coroutines
    OffLoopPollers   \* those that do not run on the loop's thread

ASSUME PollAssumption == OffLoopPollers \subseteq Pollers

VARIABLES
    polling,      \* the awaiter and its Op, of each coroutine
    pollSignal,   \* coroutines on whose slot Terminate was emitted
    pollPosts,    \* the executor's queue: <<"start" or "cancel", coroutine>>
    accepting,    \* the executor accepts closures
    stranded      \* history: closures it accepted and will not call

pollVars == <<polling, pollSignal, pollPosts, accepting, stranded>>

PollQueued(posts, post) == \E k \in 1 .. Len(posts) : posts[k] = post

\* inSuspend: the thread is between tryEmplace and the end of await_suspend.
\* raced: history, the loop resumed the coroutine while inSuspend.
\* resumes: how often the wait went on, by h.resume() or because await_suspend
\* returned false.
NewOp ==
    [asleep |-> FALSE, inSuspend |-> FALSE, raced |-> FALSE, armed |-> FALSE,
     started |-> FALSE, done |-> FALSE, cancel_requested |-> FALSE,
     start_rc |-> "ok", status |-> "ok", handle |-> "none", holder |-> FALSE,
     resumes |-> 0, outcome |-> "none"]

PollInit ==
    /\ polling = [t \in Pollers |-> NewOp]
    /\ pollSignal = {}
    /\ pollPosts = <<>>
    /\ accepting = TRUE
    /\ stranded = {}

(* A coroutine that awaits on the loop's thread does so in one step, so that
   the loop is always free between two steps. *)

Outcome(t, o) ==
    IF t \in pollSignal THEN "canceled"
    ELSE IF o.start_rc # "ok" \/ o.status # "ok" THEN "error" ELSE "ready"

\* await_resume, on whatever thread goes on with the coroutine.
AwaitPoll(t, o) ==
    [o EXCEPT !.asleep = FALSE, !.armed = FALSE, !.outcome = Outcome(t, o),
              !.resumes = @ + 1]

\* Op::resume
ResumePoll(t, o) == AwaitPoll(t, [o EXCEPT !.raced = @ \/ o.inSuspend])

\* schedule refused the start: await_suspend returns false.
Refused(t, o) == AwaitPoll(t, [o EXCEPT !.start_rc = "ECANCELED"])

complete_without_handle(t, o) ==
    IF o.done THEN o ELSE ResumePoll(t, [o EXCEPT !.done = TRUE])

complete_without_resume(o) == [o EXCEPT !.done = TRUE]

complete_on_loop(t, o) ==
    IF o.done THEN o
    ELSE ResumePoll(t, [o EXCEPT !.done = TRUE,
                                 !.handle = IF o.started THEN "closing" ELSE @])

\* The op that start_on_loop leaves, for each answer of uv_poll_init_socket and
\* uv_poll_start.
start_on_loop_NoCheck(t, o) ==
    LET held == [o EXCEPT !.holder = TRUE]
        begun == [held EXCEPT !.handle = "active", !.started = TRUE]
    IN {complete_without_handle(t, [held EXCEPT !.start_rc = "init"]),
        ResumePoll(t, complete_without_resume(
            [held EXCEPT !.start_rc = "start", !.handle = "closing"])),
        IF begun.cancel_requested THEN complete_on_loop(t, begun) ELSE begun}

start_on_loop(t, o) ==
    IF o.done THEN {o} ELSE start_on_loop_NoCheck(t, o)

\* wait: await_ready, then await_suspend up to tryEmplace; a task that runs on
\* the loop starts the poll at once.  After shutdown the executor has no thread
\* (currentThreadInExecutor) and refuses the start.  The Op of an earlier wait is
\* through with its handle, so that one Op per coroutine is enough; a cancelled
\* task makes none.
wait(t) ==
    /\ ~polling[t].asleep /\ ~polling[t].inSuspend
    /\ polling[t].handle \in {"none", "closed"}
    /\ LET new == [NewOp EXCEPT !.asleep = TRUE, !.armed = TRUE]
       IN IF t \in pollSignal
          THEN polling' = [polling EXCEPT ![t].outcome = "canceled"]
          ELSE IF t \in OffLoopPollers
          THEN polling' = [polling EXCEPT ![t] = [new EXCEPT !.inSuspend = TRUE]]
          ELSE \E o \in (IF accepting THEN start_on_loop(t, new) ELSE {Refused(t, new)}) :
                 polling' = [polling EXCEPT ![t] = o]
    /\ UNCHANGED <<pollSignal, pollPosts, accepting, stranded>>

\* The rest of await_suspend on another thread.  It neither looks at done nor
\* sets it, so that a refused start and a cancellation that is posted or has run
\* both go on with the coroutine.  When the loop has resumed it meanwhile, the
\* awaiter this reads may be gone, and it may also do nothing.
PostStart(t) ==
    /\ polling[t].inSuspend
    /\ LET back == [polling[t] EXCEPT !.inSuspend = FALSE]
       IN \/ accepting
             /\ pollPosts' = Append(pollPosts, <<"start", t>>)
             /\ polling' = [polling EXCEPT ![t] = back]
          \/ ~accepting
             /\ polling' = [polling EXCEPT ![t] = Refused(t, back)]
             /\ UNCHANGED pollPosts
          \/ back.raced
             /\ polling' = [polling EXCEPT ![t] = back]
             /\ UNCHANGED pollPosts
    /\ UNCHANGED <<pollSignal, accepting, stranded>>

RunStart ==
    /\ pollPosts # <<>> /\ Head(pollPosts)[1] = "start"
    /\ LET t == Head(pollPosts)[2]
       IN \E o \in start_on_loop(t, polling[t]) : polling' = [polling EXCEPT ![t] = o]
    /\ pollPosts' = Tail(pollPosts)
    /\ UNCHANGED <<pollSignal, accepting, stranded>>

\* cancel_on_loop
RunCancelPoll ==
    /\ pollPosts # <<>> /\ Head(pollPosts)[1] = "cancel"
    /\ LET t == Head(pollPosts)[2]
       IN polling' = [polling EXCEPT ![t] = complete_on_loop(t, @)]
    /\ pollPosts' = Tail(pollPosts)
    /\ UNCHANGED <<pollSignal, accepting, stranded>>

\* Op::on_poll, with the status libuv gives it.
on_poll_ready(t) ==
    /\ polling[t].handle = "active"
    /\ \E s \in {"ok", "error"} :
         polling' = [polling EXCEPT ![t] = complete_on_loop(t, [@ EXCEPT !.status = s])]
    /\ UNCHANGED <<pollSignal, pollPosts, accepting, stranded>>

\* Op::on_close
on_poll_close(t) ==
    /\ polling[t].handle = "closing"
    /\ polling' = [polling EXCEPT ![t].handle = "closed", ![t].holder = FALSE]
    /\ UNCHANGED <<pollSignal, pollPosts, accepting, stranded>>

\* Signal::emits, on any thread, then the handler that await_suspend emplaced.
EmitPoll(t) ==
    /\ t \notin pollSignal
    /\ pollSignal' = pollSignal \cup {t}
    /\ UNCHANGED <<polling, pollPosts, accepting, stranded>>

CancelHandler(t) ==
    /\ t \in pollSignal /\ polling[t].armed
    /\ polling' = [polling EXCEPT ![t].cancel_requested = TRUE, ![t].armed = FALSE]
    /\ pollPosts' = IF accepting THEN Append(pollPosts, <<"cancel", t>>) ELSE pollPosts
    /\ UNCHANGED <<pollSignal, accepting, stranded>>

\* UvExecutor::shutdown, between two callbacks or inside a closure: the rest of
\* the batch that on_async has swapped out, k closures, is still called.  What is
\* behind it in the queue was accepted and is never called.
StopAccepting ==
    /\ accepting
    /\ accepting' = FALSE
    /\ \E k \in 0 .. Len(pollPosts) :
         /\ pollPosts' = SubSeq(pollPosts, 1, k)
         /\ stranded' = {pollPosts[i] : i \in (k + 1) .. Len(pollPosts)}
    /\ UNCHANGED <<polling, pollSignal>>

PollNext ==
    \/ \E t \in Pollers :
         \/ wait(t) \/ PostStart(t) \/ on_poll_ready(t) \/ on_poll_close(t)
         \/ EmitPoll(t) \/ CancelHandler(t)
    \/ RunStart \/ RunCancelPoll \/ StopAccepting

-----------------------------------------------------------------------------
\* A coroutine that sleeps in poll::wait has something that will wake it: the
\* start is still to be posted or run, or libuv watches the descriptor; and
\* when it was cancelled, the closure that resumes it is on its way unless the
\* executor refuses closures.  The exception is a start that the executor had
\* accepted when it was shut down.  When a coroutine is back, libuv no longer
\* watches on its behalf: a start that comes after the cancellation
\* (start_on_loop) begins nothing.  The loop resumes a coroutine inside its own
\* await_suspend only when it was cancelled and awaits on another thread.  Every
\* wait goes on once: await_suspend returns false, or the loop resumes it.  It
\* does both only when the cancellation was posted before the executor was shut
\* down and the start was refused after that.
NoForgottenPoll ==
    \A t \in Pollers :
        LET o == polling[t] IN
        /\ o.asleep =>
             /\ \/ o.inSuspend \/ o.handle = "active"
                \/ PollQueued(pollPosts, <<"start", t>>)
                \/ <<"start", t>> \in stranded
             /\ t \in pollSignal /\ accepting => o.armed \/ PollQueued(pollPosts, <<"cancel", t>>)
        /\ ~o.asleep => o.handle # "active"
        /\ o.raced => t \in pollSignal /\ t \in OffLoopPollers
        /\ o.resumes <= IF o.cancel_requested /\ o.start_rc = "ECANCELED" THEN 2 ELSE 1
=============================================================================
