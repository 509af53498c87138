---------------------------- MODULE AwaitProtocol ----------------------------
(***************************************************************************)
(* The cancellable wait shared by AsyncSemaphore (async_semaphore.h) and   *)
(* AsyncMutex (async_mutex.h): the Waiter object, the Awaiter's            *)
(* await_ready / await_suspend / await_resume, the Terminate handler and   *)
(* the closures it and the releaser post on the waiter's executor.  Both   *)
(* headers contain the same text; the line references of the map are those *)
(* of async_semaphore.h, and AsyncMutex refers to async_mutex.h.           *)
(*                                                                         *)
(* Every task is a coroutine on an executor of its own.  Two tasks that    *)
(* share an executor interleave less, so nothing is lost; a closure posted *)
(* on a task's executor runs only while that task is suspended.            *)
(***************************************************************************)
EXTENDS Naturals, FiniteSets

CONSTANTS
  Tasks,          \* the coroutines that use the primitive
  RemoteCancel,   \* tasks whose Terminate may be emitted by a foreign thread
  Destroyable     \* tasks whose frame may be destroyed while suspended

ASSUME TasksAssumption ==
  /\ IsFiniteSet(Tasks)
  /\ RemoteCancel \subseteq Tasks
  /\ Destroyable \subseteq Tasks

VARIABLES
  pc,         \* where each coroutine is
  signal,     \* Terminate was emitted on the task's slot
  handler,    \* the slot holds a handler for the task's current Waiter
  done,       \* Waiter::done
  granted,    \* Waiter::granted
  abandoned,  \* Waiter::abandoned
  cont,       \* Waiter::continuation is not null
  resumes,    \* number of h.resume() closures posted for the task
  cancelQ,    \* a cancel_on_executor closure is posted for the task
  queued,     \* the tasks whose Waiter is in _waiters
  ahead,      \* for a queued task, the waiters in front of its own in _waiters
  wake        \* Waiters a releasing task has granted and not yet resumed

waiterVars == <<done, granted, abandoned, cont>>
queueVars == <<queued, ahead>>
execVars == <<resumes, cancelQ>>
protocolVars == <<pc, signal, handler, waiterVars, execVars, queueVars, wake>>

PC == {"run",        \* user code, between two operations
       "try",        \* await_ready, before try_acquire / try_lock
       "took",       \* await_ready took the resource; await_resume is next
       "stopped",    \* await_ready saw the signal; await_resume is next
       "suspend",    \* await_suspend, before the handler is installed
       "enqueue",    \* await_suspend, before enqueue_waiter
       "suspended",  \* waiting
       "canceling",  \* the task's executor is inside cancel_on_executor
       "resume",     \* await_resume, with a Waiter
       "waking",     \* in the loop that resumes the waiters it has granted
       "failed",     \* await_resume threw "acquire failed" / "lock failed"
       "dead"}       \* unwound by SignalException, or frame destroyed

ProtocolTypeOK ==
  /\ pc \in [Tasks -> PC]
  /\ signal \in [Tasks -> BOOLEAN]
  /\ handler \in [Tasks -> BOOLEAN]
  /\ done \in [Tasks -> BOOLEAN]
  /\ granted \in [Tasks -> BOOLEAN]
  /\ abandoned \in [Tasks -> BOOLEAN]
  /\ cont \in [Tasks -> BOOLEAN]
  /\ resumes \in [Tasks -> Nat]
  /\ cancelQ \in [Tasks -> BOOLEAN]
  /\ queued \in SUBSET Tasks
  /\ ahead \in [Tasks -> SUBSET Tasks]
  /\ wake \in [Tasks -> SUBSET Tasks]

ProtocolInit ==
  /\ pc = [t \in Tasks |-> "run"]
  /\ signal = [t \in Tasks |-> FALSE]
  /\ handler = [t \in Tasks |-> FALSE]
  /\ done = [t \in Tasks |-> FALSE]
  /\ granted = [t \in Tasks |-> FALSE]
  /\ abandoned = [t \in Tasks |-> FALSE]
  /\ cont = [t \in Tasks |-> FALSE]
  /\ resumes = [t \in Tasks |-> 0]
  /\ cancelQ = [t \in Tasks |-> FALSE]
  /\ queued = {}
  /\ ahead = [t \in Tasks |-> {}]
  /\ wake = [t \in Tasks |-> {}]

Goto(t, label) == pc' = [pc EXCEPT ![t] = label]

(***************************************************************************)
(* _waiters is a deque of distinct Waiters.  It is kept as the set of its  *)
(* members and, for each, the set of members in front of it.               *)
(***************************************************************************)

\* Waiters that compact_waiters_locked keeps.
Live == {t \in queued : ~done[t]}

\* Their order: the deque without the waiters that are done and not yet erased.
LiveAhead == [t \in Tasks |-> IF t \in Live THEN ahead[t] \intersect Live ELSE {}]

\* erase_if over _waiters: the elements of gone leave the deque.
Erase(gone) ==
  /\ queued' = queued \ gone
  /\ ahead' = [t \in Tasks |-> IF t \in queued \ gone THEN ahead[t] \ gone ELSE {}]

\* compact_waiters_locked, then push_back of t's Waiter.
CompactAndPush(t) ==
  /\ queued' = Live \union {t}
  /\ ahead' = [u \in Tasks |-> IF u = t THEN Live
                               ELSE IF u \in Live THEN ahead[u] \intersect Live
                               ELSE {}]

\* compact_waiters_locked, then the Waiters of G are popped and keep, among
\* themselves, the order in which the wake-up loop resumes them.
CompactAndPop(G) ==
  /\ queued' = Live \ G
  /\ ahead' = [u \in Tasks |-> IF u \in G THEN ahead[u] \intersect G
                               ELSE IF u \in Live THEN (ahead[u] \intersect Live) \ G
                               ELSE {}]

\* The sets of n live waiters that a pop_front loop can take: the n in front.
Fronts(n) ==
  {G \in SUBSET Live : /\ Cardinality(G) = n
                       /\ \A g \in G : ahead[g] \intersect Live \subseteq G}

------------------------------------------------------------------------------
(***************************************************************************)
(* Awaiter                                                                 *)
(***************************************************************************)

\* await_ready, first half: hasCanceled(_slot) short-circuits the try.
CheckSignal(t) ==
  /\ pc[t] = "run"
  /\ Goto(t, IF signal[t] THEN "stopped" ELSE "try")
  /\ UNCHANGED <<signal, handler, waiterVars, execVars, queueVars, wake>>

\* await_ready, second half: the try compacts the deque and takes the resource
\* or does not.
TryInAwaitReady(t, taken) ==
  /\ pc[t] = "try"
  /\ Erase(queued \ Live)
  /\ Goto(t, IF taken THEN "took" ELSE "suspend")
  /\ UNCHANGED <<signal, handler, waiterVars, execVars, wake>>

\* A try called by the program itself.
TryDirect(t) ==
  /\ pc[t] = "run"
  /\ Erase(queued \ Live)
  /\ UNCHANGED <<pc, signal, handler, waiterVars, execVars, wake>>

\* await_suspend, first half: a fresh Waiter, and tryEmplace of the handler,
\* which fails when Terminate was already emitted.
InstallHandler(t) ==
  /\ pc[t] = "suspend"
  /\ done' = [done EXCEPT ![t] = FALSE]
  /\ granted' = [granted EXCEPT ![t] = FALSE]
  /\ abandoned' = [abandoned EXCEPT ![t] = FALSE]
  /\ cont' = [cont EXCEPT ![t] = TRUE]
  /\ handler' = [handler EXCEPT ![t] = ~signal[t]]
  /\ Goto(t, IF signal[t] THEN "resume" ELSE "enqueue")
  /\ UNCHANGED <<signal, execVars, queueVars, wake>>

\* enqueue_waiter of a Waiter that is already done, or when the resource is
\* taken.  (The third outcome takes the resource: see GrantInPlace.)
EnqueueOrReturn(t) ==
  /\ pc[t] = "enqueue"
  /\ IF done[t]
     THEN /\ Goto(t, "resume")
          /\ Erase(queued \ Live)
     ELSE /\ Goto(t, "suspended")
          /\ CompactAndPush(t)
  /\ UNCHANGED <<signal, handler, waiterVars, execVars, wake>>

\* enqueue_waiter when the resource became free since await_ready.
GrantInPlace(t) ==
  /\ pc[t] = "enqueue"
  /\ ~done[t]
  /\ Goto(t, "resume")
  /\ Erase(queued \ Live)
  /\ granted' = [granted EXCEPT ![t] = TRUE]
  /\ done' = [done EXCEPT ![t] = TRUE]
  /\ UNCHANGED <<signal, handler, abandoned, cont, execVars, wake>>

\* The executor runs the posted h.resume().  When the frame was destroyed since,
\* what h.resume() does to its memory is undefined; the model ends there, and
\* the Waiter, which the frame no longer owns, is left as it is.
RunResume(t) ==
  /\ pc[t] \in {"suspended", "dead"}
  /\ resumes[t] > 0
  /\ resumes' = [resumes EXCEPT ![t] = @ - 1]
  /\ Goto(t, IF pc[t] = "dead" THEN "dead" ELSE "resume")
  /\ UNCHANGED <<signal, handler, waiterVars, cancelQ, queueVars, wake>>

\* The Waiter ends with await_resume (_waiter is moved out and released).
DropWaiter(t) ==
  /\ done' = [done EXCEPT ![t] = FALSE]
  /\ granted' = [granted EXCEPT ![t] = FALSE]
  /\ abandoned' = [abandoned EXCEPT ![t] = FALSE]
  /\ cont' = [cont EXCEPT ![t] = FALSE]

\* await_resume of a granted Waiter: the handler is cleared, the wait succeeds
\* whatever the signal says.
ResumeGranted(t) ==
  /\ pc[t] = "resume"
  /\ granted[t]
  /\ handler' = [handler EXCEPT ![t] = FALSE]
  /\ Goto(t, "run")
  /\ DropWaiter(t)
  /\ UNCHANGED <<signal, execVars, queueVars, wake>>

\* await_resume of a Waiter that was not granted: checkHasCanceled throws
\* SignalException, or the wait fails with runtime_error.
ResumeDenied(t) ==
  /\ pc[t] = "resume"
  /\ ~granted[t]
  /\ Goto(t, IF signal[t] THEN "dead" ELSE "failed")
  /\ DropWaiter(t)
  /\ UNCHANGED <<signal, handler, execVars, queueVars, wake>>

\* await_resume when await_ready returned true: no Waiter, so only
\* checkHasCanceled decides.
ResumeWithoutWaiter(t) ==
  /\ pc[t] \in {"took", "stopped"}
  /\ Goto(t, IF signal[t] THEN "dead" ELSE "run")
  /\ UNCHANGED <<signal, handler, waiterVars, execVars, queueVars, wake>>

\* ~Awaiter of a suspended coroutine: the Waiter is abandoned, marked done and
\* erased.  A resumption that is already posted stays in the executor's queue.
Destroy(t) ==
  /\ t \in Destroyable
  /\ pc[t] = "suspended"
  /\ abandoned' = [abandoned EXCEPT ![t] = TRUE]
  /\ cont' = [cont EXCEPT ![t] = FALSE]
  /\ done' = [done EXCEPT ![t] = TRUE]
  /\ Erase((queued \ Live) \union {t})
  /\ Goto(t, "dead")
  /\ UNCHANGED <<signal, handler, granted, execVars, wake>>

------------------------------------------------------------------------------
(***************************************************************************)
(* Cancellation                                                            *)
(***************************************************************************)

\* Terminate is emitted on t's slot.  The installed handler runs on the
\* emitting thread: request_cancel_from_any_thread posts cancel_on_executor.
\* A thread other than t's own can do so at any point of t's execution.
Emit(t) ==
  /\ ~signal[t]
  /\ t \in RemoteCancel \/ pc[t] \in {"run", "suspended"}
  /\ signal' = [signal EXCEPT ![t] = TRUE]
  /\ cancelQ' = [cancelQ EXCEPT ![t] = @ \/ handler[t]]
  /\ handler' = [handler EXCEPT ![t] = FALSE]
  /\ UNCHANGED <<pc, waiterVars, resumes, queueVars, wake>>

\* cancel_on_executor up to try_mark_canceled.  A Waiter that is done already
\* is left alone.
RunCancel(t) ==
  /\ pc[t] \in {"suspended", "dead"}
  /\ cancelQ[t]
  /\ cancelQ' = [cancelQ EXCEPT ![t] = FALSE]
  /\ IF pc[t] = "dead" \/ done[t]
     THEN UNCHANGED <<pc, done>>
     ELSE /\ done' = [done EXCEPT ![t] = TRUE]
          /\ Goto(t, "canceling")
  /\ UNCHANGED <<signal, handler, granted, abandoned, cont, resumes, queueVars, wake>>

\* cancel_on_executor that leaves the coroutine asleep (mutant).
FinishCancel_NoResume(t) ==
  /\ pc[t] = "canceling"
  /\ Erase((queued \ Live) \union {t})
  /\ Goto(t, "suspended")
  /\ UNCHANGED <<signal, handler, waiterVars, execVars, wake>>

\* The rest of cancel_on_executor: remove_waiter and resume_after_marked_done.
FinishCancel(t) ==
  /\ pc[t] = "canceling"
  /\ Erase((queued \ Live) \union {t})
  /\ IF abandoned[t] \/ ~cont[t]
     THEN UNCHANGED <<cont, resumes>>
     ELSE /\ cont' = [cont EXCEPT ![t] = FALSE]
          /\ resumes' = [resumes EXCEPT ![t] = @ + 1]
  /\ Goto(t, "suspended")
  /\ UNCHANGED <<signal, handler, done, granted, abandoned, cancelQ, wake>>

------------------------------------------------------------------------------
(***************************************************************************)
(* The releasing side                                                      *)
(***************************************************************************)

\* Under _mu the waiters of G are popped and win try_mark_granted; task r
\* resumes them after it has unlocked _mu.
GrantWaiters(r, G) ==
  /\ pc[r] = "run"
  /\ CompactAndPop(G)
  /\ done' = [t \in Tasks |-> done[t] \/ t \in G]
  /\ granted' = [t \in Tasks |-> granted[t] \/ t \in G]
  /\ wake' = [wake EXCEPT ![r] = G]
  /\ Goto(r, IF G = {} THEN "run" ELSE "waking")
  /\ UNCHANGED <<signal, handler, abandoned, cont, execVars>>

\* One turn of the loop that calls resume_after_marked_done, front first.
Wake(r) ==
  /\ pc[r] = "waking"
  /\ \E w \in wake[r] :
       /\ ahead[w] \intersect wake[r] = {}
       /\ IF abandoned[w] \/ ~cont[w]
          THEN UNCHANGED <<cont, resumes>>
          ELSE /\ cont' = [cont EXCEPT ![w] = FALSE]
               /\ resumes' = [resumes EXCEPT ![w] = @ + 1]
       /\ wake' = [wake EXCEPT ![r] = @ \ {w}]
       /\ Goto(r, IF wake[r] = {w} THEN "run" ELSE "waking")
  /\ UNCHANGED <<signal, handler, done, granted, abandoned, cancelQ, queueVars>>

------------------------------------------------------------------------------
(***************************************************************************)
(* The state of a Waiter at each point of its life.  This is the inductive *)
(* invariant from which the properties of AsyncSemaphore and AsyncMutex    *)
(* are proved.                                                             *)
(***************************************************************************)

\* No Waiter of t is known to anybody but, possibly, t itself.
Private(t) == t \notin queued /\ resumes[t] = 0 /\ \A r \in Tasks : t \notin wake[r]

\* t waits and nobody has decided its fate.
Waiting(t) ==
  /\ t \in queued
  /\ ~done[t] /\ ~granted[t] /\ ~abandoned[t] /\ cont[t]
  /\ resumes[t] = 0
  /\ \A r \in Tasks : t \notin wake[r]

\* t was granted and its releaser is about to resume it.
Granted(t) ==
  /\ t \notin queued
  /\ done[t] /\ granted[t] /\ ~abandoned[t] /\ cont[t]
  /\ resumes[t] = 0
  /\ \E r \in Tasks : t \in wake[r]

\* t's resumption is posted, because of the grant or of the cancellation.
Resuming(t) ==
  /\ t \notin queued
  /\ done[t] /\ ~abandoned[t] /\ ~cont[t]
  /\ granted[t] \/ signal[t]
  /\ resumes[t] = 1
  /\ \A r \in Tasks : t \notin wake[r]

\* Every suspended task waits, or was granted and is in the hands of exactly one
\* releaser, or has exactly one resumption posted; no other task is known to a
\* releaser or has a resumption posted, except that the Waiter of a destroyed
\* frame may still be in a releaser's list, marked as abandoned, and that a
\* frame may be destroyed when its one resumption is posted already.
WaiterState(t) ==
  /\ pc[t] \in {"run", "try", "took", "stopped", "suspend", "waking"} =>
       Private(t) /\ ~done[t] /\ ~granted[t]
  /\ pc[t] = "enqueue" => Private(t) /\ ~done[t] /\ ~granted[t] /\ ~abandoned[t] /\ cont[t]
  /\ pc[t] = "suspended" => Waiting(t) \/ Granted(t) \/ Resuming(t)
  /\ pc[t] = "canceling" => /\ done[t] /\ ~granted[t] /\ ~abandoned[t] /\ cont[t] /\ signal[t]
                            /\ resumes[t] = 0
                            /\ \A r \in Tasks : t \notin wake[r]
  /\ pc[t] = "resume" => Private(t) /\ (granted[t] \/ signal[t])
  /\ pc[t] = "stopped" => signal[t]
  /\ pc[t] = "dead" => /\ t \notin queued
                       /\ resumes[t] <= 1
                       /\ resumes[t] = 1 => abandoned[t] /\ done[t] /\ t \in Destroyable
                       /\ (\E r \in Tasks : t \in wake[r]) => abandoned[t]
  /\ pc[t] # "failed"
  /\ cancelQ[t] => signal[t]
  /\ wake[t] # {} => pc[t] = "waking"
  /\ \A r, s \in Tasks : t \in wake[r] /\ t \in wake[s] => r = s

WaiterStates == \A t \in Tasks : WaiterState(t)

\* Before its wait is enqueued or after it ended, a task can have been signalled
\* behind its back only by a foreign thread.
ForeignSignals ==
  \A t \in Tasks : pc[t] \in {"try", "took"} /\ signal[t] => t \in RemoteCancel

\* A step of the protocol, as a component may take it.
ProtocolNext ==
  \E t \in Tasks :
    \/ CheckSignal(t)
    \/ TryInAwaitReady(t, TRUE)
    \/ TryInAwaitReady(t, FALSE)
    \/ TryDirect(t)
    \/ InstallHandler(t)
    \/ EnqueueOrReturn(t)
    \/ GrantInPlace(t)
    \/ RunResume(t)
    \/ ResumeGranted(t)
    \/ ResumeDenied(t)
    \/ ResumeWithoutWaiter(t)
    \/ Destroy(t)
    \/ Emit(t)
    \/ RunCancel(t)
    \/ FinishCancel(t)
    \/ \E G \in SUBSET Live : GrantWaiters(t, G)
    \/ Wake(t)

==============================================================================
