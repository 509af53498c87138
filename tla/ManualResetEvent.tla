--------------------------- MODULE ManualResetEvent ---------------------------
(***************************************************************************)
(* ManualResetEvent (include/corouv/event.h): set() wakes every coroutine  *)
(* that waits, reset() makes later ones wait again.  Unlike the semaphore, *)
(* the Terminate handler runs request_resume on the emitting thread itself.*)
(* Tasks run on executors of their own, as in AwaitProtocol.               *)
(***************************************************************************)
EXTENDS Naturals, FiniteSets

CONSTANTS
  Tasks,          \* coroutines that wait, and callers of set() and reset()
  RemoteCancel,   \* tasks whose Terminate may be emitted by a foreign thread
  Destroyable,    \* tasks whose frame may be destroyed while suspended
  InitiallySet    \* the constructor's argument

ASSUME EventAssumption ==
  /\ IsFiniteSet(Tasks)
  /\ RemoteCancel \subseteq Tasks
  /\ Destroyable \subseteq Tasks
  /\ InitiallySet \in BOOLEAN

VARIABLES
  signaled,   \* _signaled
  waiters,    \* tasks whose op is in _waiters
  pc,         \* where each coroutine is
  signal,     \* Terminate was emitted on the task's slot
  handler,    \* the slot holds a handler for the task's current op
  done,       \* op->done
  abandoned,  \* op->abandoned
  cont,       \* op->continuation is not null
  posting,    \* <<w, by>>: a thread is between done.exchange and schedule in
              \* request_resume of w's op; by is the caller of set(), or w itself
              \* for the thread that emits Terminate
  resumes,    \* number of h.resume() closures posted for the task
  list,       \* ops that a caller of set() has swapped out and not yet resumed
  seen        \* history: the event was set at some point of the task's wait

opVars == <<done, abandoned, cont>>
vars == <<signaled, waiters, pc, signal, handler, opVars, posting, resumes, list, seen>>

PC == {"run", "ready", "suspend", "register", "suspended", "resume", "setting", "dead"}

TypeOK ==
  /\ signaled \in BOOLEAN
  /\ waiters \in SUBSET Tasks
  /\ pc \in [Tasks -> PC]
  /\ signal \in [Tasks -> BOOLEAN]
  /\ handler \in [Tasks -> BOOLEAN]
  /\ done \in [Tasks -> BOOLEAN]
  /\ abandoned \in [Tasks -> BOOLEAN]
  /\ cont \in [Tasks -> BOOLEAN]
  /\ posting \in SUBSET (Tasks \X Tasks)
  /\ resumes \in [Tasks -> Nat]
  /\ list \in [Tasks -> SUBSET Tasks]
  /\ seen \in [Tasks -> BOOLEAN]

Init ==
  /\ signaled = InitiallySet
  /\ waiters = {}
  /\ pc = [t \in Tasks |-> "run"]
  /\ signal = [t \in Tasks |-> FALSE]
  /\ handler = [t \in Tasks |-> FALSE]
  /\ done = [t \in Tasks |-> FALSE]
  /\ abandoned = [t \in Tasks |-> FALSE]
  /\ cont = [t \in Tasks |-> FALSE]
  /\ posting = {}
  /\ resumes = [t \in Tasks |-> 0]
  /\ list = [t \in Tasks |-> {}]
  /\ seen = [t \in Tasks |-> FALSE]

Goto(t, label) == pc' = [pc EXCEPT ![t] = label]

\* compact_waiters_locked.
Live == {t \in waiters : ~done[t]}

------------------------------------------------------------------------------
\* wait(): await_ready reads _signaled, without the lock.
WaitStart(t) ==
  /\ pc[t] = "run"
  /\ Goto(t, IF signaled THEN "resume" ELSE "ready")
  /\ seen' = [seen EXCEPT ![t] = signaled]
  /\ UNCHANGED <<signaled, waiters, signal, handler, opVars, posting, resumes, list>>

\* await_ready, second operand: hasCanceled.
CheckSignal(t) ==
  /\ pc[t] = "ready"
  /\ Goto(t, IF signal[t] THEN "resume" ELSE "suspend")
  /\ UNCHANGED <<signaled, waiters, signal, handler, opVars, posting, resumes, list, seen>>

\* await_suspend: a fresh op, and tryEmplace of its handler.
InstallHandler(t) ==
  /\ pc[t] = "suspend"
  /\ done' = [done EXCEPT ![t] = FALSE]
  /\ abandoned' = [abandoned EXCEPT ![t] = FALSE]
  /\ cont' = [cont EXCEPT ![t] = TRUE]
  /\ handler' = [handler EXCEPT ![t] = ~signal[t]]
  /\ Goto(t, IF signal[t] THEN "resume" ELSE "register")
  /\ UNCHANGED <<signaled, waiters, signal, posting, resumes, list, seen>>

\* register_waiter that trusts the look await_ready had at _signaled (mutant).
RegisterWaiter_NoRecheck(t) ==
  /\ pc[t] = "register"
  /\ waiters' = Live \union {t}
  /\ Goto(t, "suspended")
  /\ UNCHANGED <<signaled, signal, handler, opVars, posting, resumes, list, seen>>

\* register_waiter: looks at _signaled again, under the lock, and not at done.
RegisterWaiter(t) ==
  /\ pc[t] = "register"
  /\ waiters' = IF signaled THEN Live ELSE Live \union {t}
  /\ Goto(t, IF signaled THEN "resume" ELSE "suspended")
  /\ UNCHANGED <<signaled, signal, handler, opVars, posting, resumes, list, seen>>

\* The executor runs the posted h.resume().  Of a frame that was destroyed, or
\* has unwound, since then nothing is left that the model could move.
RunResume(t) ==
  /\ pc[t] \in {"suspended", "dead"}
  /\ resumes[t] > 0
  /\ resumes' = [resumes EXCEPT ![t] = @ - 1]
  /\ Goto(t, IF pc[t] = "dead" THEN "dead" ELSE "resume")
  /\ UNCHANGED <<signaled, waiters, signal, handler, opVars, posting, list, seen>>

\* ~Awaiter: the op is abandoned, marked done and erased.
DropOp(t) ==
  /\ abandoned' = [abandoned EXCEPT ![t] = TRUE]
  /\ cont' = [cont EXCEPT ![t] = FALSE]
  /\ done' = [done EXCEPT ![t] = TRUE]
  /\ waiters' = Live \ {t}
  /\ handler' = [handler EXCEPT ![t] = FALSE]

\* await_resume, then ~Awaiter (which runs after every wait).
AwaitResume(t) ==
  /\ pc[t] = "resume"
  /\ Goto(t, IF signal[t] THEN "dead" ELSE "run")
  /\ DropOp(t)
  /\ UNCHANGED <<signaled, signal, posting, resumes, list, seen>>

\* ~Awaiter of a frame destroyed while suspended.  A resumption that is already
\* posted stays in the executor's queue.
Destroy(t) ==
  /\ t \in Destroyable
  /\ pc[t] = "suspended"
  /\ DropOp(t)
  /\ Goto(t, "dead")
  /\ UNCHANGED <<signaled, signal, posting, resumes, list, seen>>

------------------------------------------------------------------------------
\* set() that wakes one waiter, as an auto-reset event would (mutant).
Set_WakeOne(s) ==
  /\ pc[s] = "run"
  /\ signaled' = TRUE
  /\ waiters' = {}
  /\ \E W \in SUBSET Live : /\ Cardinality(W) = (IF Live = {} THEN 0 ELSE 1)
                            /\ list' = [list EXCEPT ![s] = W]
  /\ Goto(s, "setting")
  /\ seen' = [t \in Tasks |-> TRUE]
  /\ UNCHANGED <<signal, handler, opVars, posting, resumes>>

\* set(): under the lock the event becomes signaled and the list is swapped out.
Set(s) ==
  /\ pc[s] = "run"
  /\ signaled' = TRUE
  /\ waiters' = {}
  /\ list' = [list EXCEPT ![s] = Live]
  /\ Goto(s, "setting")
  /\ seen' = [t \in Tasks |-> TRUE]
  /\ UNCHANGED <<signal, handler, opVars, posting, resumes>>

\* request_resume, first line: whoever wins done.exchange goes on.
MarkDone(w, by) ==
  /\ done' = [done EXCEPT ![w] = TRUE]
  /\ posting' = IF done[w] THEN posting ELSE posting \union {<<w, by>>}

\* set()'s loop after the lock: request_resume of the next op of the list.
SetNext(s) ==
  /\ pc[s] = "setting"
  /\ \A w \in Tasks : <<w, s>> \notin posting
  /\ \E w \in list[s] :
       /\ MarkDone(w, s)
       /\ list' = [list EXCEPT ![s] = @ \ {w}]
  /\ UNCHANGED <<signaled, waiters, pc, signal, handler, abandoned, cont, resumes, seen>>

\* The rest of request_resume on the thread that won: remove_waiter, then the
\* continuation is taken and posted unless the op is abandoned.
Post(w, by) ==
  /\ <<w, by>> \in posting
  /\ posting' = posting \ {<<w, by>>}
  /\ waiters' = Live \ {w}
  /\ IF abandoned[w] \/ ~cont[w]
     THEN UNCHANGED <<cont, resumes>>
     ELSE /\ cont' = [cont EXCEPT ![w] = FALSE]
          /\ resumes' = [resumes EXCEPT ![w] = @ + 1]
  /\ UNCHANGED <<signaled, pc, signal, handler, done, abandoned, list, seen>>

SetReturn(s) ==
  /\ pc[s] = "setting"
  /\ list[s] = {}
  /\ \A w \in Tasks : <<w, s>> \notin posting
  /\ Goto(s, "run")
  /\ UNCHANGED <<signaled, waiters, signal, handler, opVars, posting, resumes, list, seen>>

\* reset().
Reset(s) ==
  /\ pc[s] = "run"
  /\ signaled' = FALSE
  /\ waiters' = Live
  /\ UNCHANGED <<pc, signal, handler, opVars, posting, resumes, list, seen>>

\* Terminate is emitted: the installed handler calls request_resume.
Emit(t) ==
  /\ ~signal[t]
  /\ t \in RemoteCancel \/ pc[t] \in {"run", "suspended"}
  /\ signal' = [signal EXCEPT ![t] = TRUE]
  /\ handler' = [handler EXCEPT ![t] = FALSE]
  /\ IF handler[t] THEN MarkDone(t, t) ELSE UNCHANGED <<done, posting>>
  /\ UNCHANGED <<signaled, waiters, pc, abandoned, cont, resumes, list, seen>>

Step(t) ==
  \/ CheckSignal(t)
  \/ InstallHandler(t)
  \/ RegisterWaiter(t)
  \/ RunResume(t)
  \/ AwaitResume(t)
  \/ SetNext(t)
  \/ \E w \in Tasks : Post(w, t)
  \/ SetReturn(t)

Next ==
  \E t \in Tasks :
    \/ WaitStart(t)
    \/ Set(t)
    \/ Reset(t)
    \/ Emit(t)
    \/ Destroy(t)
    \/ Step(t)

\* A thread inside wait(), set() or request_resume goes on, and an executor
\* runs the closures it has accepted.
Fairness == \A t \in Tasks : WF_vars(Step(t)) /\ WF_vars(\E w \in Tasks : Post(w, t))

Spec == Init /\ [][Next]_vars
FairSpec == Spec /\ Fairness

------------------------------------------------------------------------------
(***************************************************************************)
(* Properties                                                              *)
(***************************************************************************)

\* While the event is set nobody sleeps in _waiters: register_waiter's second
\* look closes the gap between await_ready and the registration.
\* A coroutine is resumed only while it is suspended in this wait, and once;
\* and unless it was cancelled the event was set during the wait, even when
\* set() and reset() race with it.
\* There are two exceptions.  A task that a foreign thread cancelled between the
\* installation of its handler and register_waiter: register_waiter does not
\* look at done, so it may return "do not suspend" for an op whose resumption
\* is posted.  And a frame that is destroyed when its resumption is posted,
\* which ~Awaiter cannot take back.
WokenOnceBySet ==
  /\ signaled => Live = {}
  /\ \A t \in Tasks :
       /\ pc[t] = "resume" /\ ~signal[t] => seen[t]
       /\ resumes[t] <= 1
       /\ resumes[t] = 1 /\ pc[t] # "suspended" =>
            \/ t \in RemoteCancel /\ signal[t]
            \/ t \in Destroyable /\ pc[t] = "dead"

\* Whoever sleeps when the event is set wakes up, even if reset() follows at
\* once: set() hands its wake-ups a list that reset() does not touch.
SetWakesWaiters ==
  \A t \in Tasks : pc[t] = "suspended" /\ signaled ~> pc[t] # "suspended"

==============================================================================
