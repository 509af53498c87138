------------------------------ MODULE UvExecutor ------------------------------
(***************************************************************************)
(* UvExecutor (src/uv_executor.cpp): a queue of closures that any thread   *)
(* may extend and the loop thread drains, woken by a uv_async_t; timed     *)
(* closures (TimerOp) with a uv_timer_t and cancellation; shutdown.        *)
(* libuv is modelled by what the code uses of it: a sent uv_async_t calls  *)
(* on_async once, however many sends there were, unless it is closing.     *)
(***************************************************************************)
EXTENDS Naturals, Sequences, FiniteSets

CONSTANTS
  Jobs,    \* closures passed to schedule(func)
  Timed,   \* closures passed to schedule(func, dur, slot)
  OnLoop   \* the timed ones that are scheduled by the loop thread

ASSUME ExecutorAssumption == OnLoop \subseteq Timed

\* What enqueue() is called with.
Items == ({"job"} \X Jobs) \union ({"start", "cancel", "func"} \X Timed)

VARIABLES
  q,         \* State::q
  pending,   \* State::pending
  closing,   \* State::closing
  dropped,   \* shutdown() has reset _state
  handle,    \* the uv_async_t: open, closing or closed
  sent,      \* uv_async_send was called since the last on_async
  loop,      \* where the loop thread is in on_async
  local,     \* on_async's local deque
  want,      \* items some thread has called or will call enqueue() with
  enq,       \* where the enqueue() of an item is
  op,        \* how far schedule(func, dur, slot) has come
  signal,    \* Terminate was emitted on the slot
  handler,   \* the slot holds the TimerOp's handler
  done,      \* TimerOp::done
  timer,     \* TimerOp::timer
  runs,      \* how often the TimerOp's func was called
  pushed,    \* history: items in the order of push_back
  ran        \* history: items in the order the loop called them

queueVars == <<q, pending, sent, pushed>>
loopVars == <<loop, local, ran>>
lifeVars == <<closing, dropped, handle>>
opVars == <<op, signal, handler, done, timer, runs>>
vars == <<queueVars, loopVars, lifeVars, opVars, want, enq>>

TypeOK ==
  /\ q \in Seq(Items)
  /\ pending \in Nat
  /\ closing \in BOOLEAN
  /\ dropped \in BOOLEAN
  /\ handle \in {"open", "closing", "closed"}
  /\ sent \in BOOLEAN
  /\ loop \in {"idle", "swapped", "draining"}
  /\ local \in Seq(Items)
  /\ want \in SUBSET Items
  /\ enq \in [Items -> {"idle", "checked", "pushed", "accepted", "refused"}]
  /\ op \in [Timed -> {"new", "armed", "registered", "gone"}]
  /\ signal \in [Timed -> BOOLEAN]
  /\ handler \in [Timed -> BOOLEAN]
  /\ done \in [Timed -> BOOLEAN]
  /\ timer \in [Timed -> {"none", "active", "closed"}]
  /\ runs \in [Timed -> Nat]
  /\ pushed \in Seq(Items)
  /\ ran \in Seq(Items)

Init ==
  /\ q = <<>>
  /\ pending = 0
  /\ closing = FALSE
  /\ dropped = FALSE
  /\ handle = "open"
  /\ sent = FALSE
  /\ loop = "idle"
  /\ local = <<>>
  /\ want = {"job"} \X Jobs
  /\ enq = [i \in Items |-> "idle"]
  /\ op = [o \in Timed |-> "new"]
  /\ signal = [o \in Timed |-> FALSE]
  /\ handler = [o \in Timed |-> FALSE]
  /\ done = [o \in Timed |-> FALSE]
  /\ timer = [o \in Timed |-> "none"]
  /\ runs = [o \in Timed |-> 0]
  /\ pushed = <<>>
  /\ ran = <<>>

\* The loop thread is not in the middle of a schedule(func, dur, slot).
LoopFree == \A o \in OnLoop : op[o] # "armed"

------------------------------------------------------------------------------
(***************************************************************************)
(* enqueue(), by any thread                                                *)
(***************************************************************************)

\* The test of closing, without the lock.
EnqueueCheck(i) ==
  /\ i \in want
  /\ enq[i] = "idle"
  /\ enq' = [enq EXCEPT ![i] = IF closing THEN "refused" ELSE "checked"]
  /\ UNCHANGED <<queueVars, loopVars, lifeVars, opVars, want>>

\* The send comes before the item is in the queue (mutant).
EnqueuePush_SendFirst(i) ==
  /\ \/ /\ enq[i] = "checked"
        /\ sent' = TRUE
        /\ enq' = [enq EXCEPT ![i] = "pushed"]
        /\ UNCHANGED <<q, pending, pushed>>
     \/ /\ enq[i] = "pushed"
        /\ q' = Append(q, i)
        /\ pushed' = Append(pushed, i)
        /\ pending' = pending + 1
        /\ enq' = [enq EXCEPT ![i] = "accepted"]
        /\ UNCHANGED sent
  /\ UNCHANGED <<loopVars, lifeVars, opVars, want>>

\* Under the lock: push_back and the count.
EnqueuePush(i) ==
  /\ enq[i] = "checked"
  /\ q' = Append(q, i)
  /\ pushed' = Append(pushed, i)
  /\ pending' = pending + 1
  /\ enq' = [enq EXCEPT ![i] = "pushed"]
  /\ UNCHANGED <<sent, loopVars, lifeVars, opVars, want>>

\* uv_async_send; enqueue returns true.
EnqueueSend(i) ==
  /\ enq[i] = "pushed"
  /\ sent' = TRUE
  /\ enq' = [enq EXCEPT ![i] = "accepted"]
  /\ UNCHANGED <<q, pending, pushed, loopVars, lifeVars, opVars, want>>

------------------------------------------------------------------------------
(***************************************************************************)
(* TimerOp                                                                 *)
(***************************************************************************)

\* complete_on_loop without the exchange of done (mutant).
Complete_NoExchange(o) ==
  /\ done' = [done EXCEPT ![o] = TRUE]
  /\ timer' = [timer EXCEPT ![o] = IF @ = "active" THEN "closed" ELSE @]
  /\ runs' = [runs EXCEPT ![o] = @ + 1]

\* complete_on_loop: the first to exchange done stops the timer and calls func.
Complete(o) ==
  IF done[o]
  THEN UNCHANGED <<done, timer, runs>>
  ELSE /\ done' = [done EXCEPT ![o] = TRUE]
       /\ timer' = [timer EXCEPT ![o] = IF @ = "active" THEN "closed" ELSE @]
       /\ runs' = [runs EXCEPT ![o] = @ + 1]

\* start_timer_on_loop: nothing is started for an op that was cancelled before.
StartTimer(o) ==
  /\ timer' = [timer EXCEPT ![o] = IF done[o] THEN @ ELSE "active"]
  /\ UNCHANGED <<done, runs>>

\* schedule(func, dur, slot) up to tryEmplace.  Once _state is reset func is
\* dropped; a slot that was signalled before has func queued at once.
Register(o) ==
  /\ op[o] = "new"
  /\ o \in OnLoop => loop # "swapped"
  /\ op' = [op EXCEPT ![o] = IF dropped THEN "gone"
                             ELSE IF signal[o] THEN "registered" ELSE "armed"]
  /\ want' = IF ~dropped /\ signal[o] THEN want \union {<<"func", o>>} ELSE want
  /\ handler' = [handler EXCEPT ![o] = ~dropped /\ ~signal[o]]
  /\ UNCHANGED <<queueVars, loopVars, lifeVars, signal, done, timer, runs, enq>>

\* The rest of it: the timer is started on the loop thread, directly or by way
\* of the queue.
Launch(o) ==
  /\ op[o] = "armed"
  /\ op' = [op EXCEPT ![o] = "registered"]
  /\ IF o \in OnLoop
     THEN StartTimer(o) /\ UNCHANGED want
     ELSE /\ want' = want \union {<<"start", o>>}
          /\ UNCHANGED <<done, timer, runs>>
  /\ UNCHANGED <<queueVars, loopVars, lifeVars, signal, handler, enq>>

\* The queue refused the start: func is called at once, by the calling thread.
LaunchRefused(o) ==
  /\ <<"start", o>> \in want
  /\ enq[<<"start", o>>] = "refused"
  /\ Complete(o)
  /\ want' = want \ {<<"start", o>>}
  /\ UNCHANGED <<queueVars, loopVars, lifeVars, op, signal, handler, enq>>

\* Terminate is emitted, by any thread: request_cancel_from_any_thread calls
\* enqueue, whose refusal is ignored.
Emit(o) ==
  /\ ~signal[o]
  /\ signal' = [signal EXCEPT ![o] = TRUE]
  /\ want' = IF handler[o] THEN want \union {<<"cancel", o>>} ELSE want
  /\ UNCHANGED <<queueVars, loopVars, lifeVars, op, handler, done, timer, runs, enq>>

\* on_timeout.
TimerFires(o) ==
  /\ loop = "idle" /\ LoopFree
  /\ timer[o] = "active"
  /\ Complete(o)
  /\ UNCHANGED <<queueVars, loopVars, lifeVars, op, signal, handler, want, enq>>

------------------------------------------------------------------------------
(***************************************************************************)
(* The loop thread                                                         *)
(***************************************************************************)

\* on_async: the queue is swapped out under the lock.
OnAsync ==
  /\ loop = "idle" /\ LoopFree
  /\ handle = "open"
  /\ sent
  /\ sent' = FALSE
  /\ local' = q
  /\ q' = <<>>
  /\ loop' = "swapped"
  /\ UNCHANGED <<pending, pushed, ran, lifeVars, opVars, want, enq>>

\* pending.fetch_sub, after the lock.
CountOff ==
  /\ loop = "swapped"
  /\ pending' = pending - Len(local)
  /\ loop' = "draining"
  /\ UNCHANGED <<q, sent, pushed, local, ran, lifeVars, opVars, want, enq>>

\* The next closure of the local deque is called.
RunNext ==
  /\ loop = "draining" /\ LoopFree
  /\ local # <<>>
  /\ local' = Tail(local)
  /\ ran' = Append(ran, Head(local))
  /\ LET kind == Head(local)[1]
         o == Head(local)[2]
     IN CASE kind = "start" -> StartTimer(o)
          [] kind = "cancel" -> Complete(o)
          [] kind = "func" -> /\ runs' = [runs EXCEPT ![o] = @ + 1]
                              /\ UNCHANGED <<done, timer>>
          [] kind = "job" -> UNCHANGED <<done, timer, runs>>
  /\ UNCHANGED <<queueVars, loop, lifeVars, op, signal, handler, want, enq>>

DrainEnd ==
  /\ loop = "draining" /\ LoopFree
  /\ local = <<>>
  /\ loop' = "idle"
  /\ UNCHANGED <<queueVars, local, ran, lifeVars, opVars, want, enq>>

\* shutdown(), on the loop thread: between callbacks or inside a closure.
Shutdown ==
  /\ loop # "swapped" /\ LoopFree
  /\ ~dropped
  /\ handle' = IF closing THEN handle ELSE "closing"
  /\ closing' = TRUE
  /\ dropped' = TRUE
  /\ UNCHANGED <<queueVars, loopVars, opVars, want, enq>>

\* ~UvExecutor on another thread: only the flag is set.
DestroyOffLoop ==
  /\ ~dropped /\ ~closing
  /\ closing' = TRUE
  /\ dropped' = TRUE
  /\ UNCHANGED <<handle, queueVars, loopVars, opVars, want, enq>>

\* on_async_close.
OnAsyncClose ==
  /\ loop = "idle" /\ LoopFree
  /\ handle = "closing"
  /\ handle' = "closed"
  /\ UNCHANGED <<closing, dropped, queueVars, loopVars, opVars, want, enq>>

EnqueueStep(i) == EnqueueCheck(i) \/ EnqueuePush(i) \/ EnqueueSend(i)
LoopStep == OnAsync \/ CountOff \/ RunNext \/ DrainEnd \/ OnAsyncClose

Next ==
  \/ \E i \in Items : EnqueueStep(i)
  \/ \E o \in Timed : Register(o) \/ Launch(o) \/ LaunchRefused(o) \/ Emit(o) \/ TimerFires(o)
  \/ LoopStep
  \/ Shutdown
  \/ DestroyOffLoop

\* Threads inside enqueue() or schedule() go on, the loop keeps running and
\* libuv calls the callbacks that are due.
Fairness ==
  /\ \A i \in Items : WF_vars(EnqueueStep(i))
  /\ \A o \in Timed : WF_vars(Launch(o)) /\ WF_vars(LaunchRefused(o)) /\ WF_vars(TimerFires(o))
  /\ WF_vars(LoopStep)

Spec == Init /\ [][Next]_vars
FairSpec == Spec /\ Fairness

------------------------------------------------------------------------------
(***************************************************************************)
(* Properties                                                              *)
(***************************************************************************)

\* Closures are called in the order they were queued, each once, none skipped:
\* the swap in on_async, concurrent push_backs and a shutdown in between lose
\* or reorder nothing that was taken out of the queue.  The count that stat()
\* reports is what is in the queue; while on_async has swapped the queue out and
\* not counted it off, it is the batch too, and never less, so that the
\* subtraction does not wrap around.  The closure of a timed
\* schedule is called at most once, by the timer, by the cancellation, or by a
\* refused start; and a TimerOp that has completed has no running timer: a
\* start that is queued behind the cancellation does not touch libuv.
CalledOnce ==
  /\ pushed = ran \o local \o q
  /\ pending = Len(q) + IF loop = "swapped" THEN Len(local) ELSE 0
  /\ \A o \in Timed : runs[o] <= 1 /\ (done[o] => timer[o] # "active")

\* Whatever enqueue() accepted is called, unless the executor is shut down: the
\* loop always comes back to a point where nothing accepted is outstanding.  A
\* timed closure is called eventually, whether its timer, its cancellation or
\* neither comes first, unless the executor is closing.
CalledEventually ==
  /\ []<>(\/ handle # "open"
          \/ \A i \in Items : enq[i] = "accepted" => \E k \in 1..Len(ran) : ran[k] = i)
  /\ []<>(closing \/ \A o \in Timed : op[o] = "registered" => runs[o] > 0)
==============================================================================
