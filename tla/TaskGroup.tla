------------------------------ MODULE TaskGroup ------------------------------
(***************************************************************************)
(* TaskGroup (include/corouv/task_group.h): spawn() starts children on one *)
(* executor, finish() runs on that executor when a child ends, wait()      *)
(* sleeps on the drained event.  finish() releases its mutex before it     *)
(* cancels the siblings and sets the event.                                *)
(*                                                                         *)
(* The loop thread runs one coroutine at a time: while a child is inside   *)
(* finish() no other child, waiter or spawner of that thread moves.        *)
(* spawn() and cancel() may be called by any thread.                       *)
(***************************************************************************)
EXTENDS Naturals, Sequences, FiniteSets

CONSTANTS
  Children,  \* the tasks that may be spawned
  Waiters,   \* the coroutines that call wait()
  NoChild

ASSUME GroupAssumption ==
  /\ IsFiniteSet(Children)
  /\ IsFiniteSet(Waiters)
  /\ NoChild \notin Children

VARIABLES
  pending,     \* State::pending
  canceled,    \* cancel_source.canceled()
  firstError,  \* State::first_error, as the child that failed
  drained,     \* the drained event is set
  child,       \* where each child is
  busy,        \* the child that is inside finish() on the loop, if any
  todo,        \* what that finish() decided under the lock and has yet to do
  waiter,      \* where each waiter is
  must,        \* history: children that were pending when the waiter's wait() began
  overtaken,   \* history: a child was spawned while a finish() had found the
               \* group drained and had not set the event yet
  owed         \* history: the children that failed since a wait() last threw, in
               \* the order of their finish()

groupVars == <<pending, canceled, firstError, drained, child, busy, todo,
               waiter, must, overtaken, owed>>

GroupTypeOK ==
  /\ pending \in Nat
  /\ canceled \in BOOLEAN
  /\ firstError \in Children \union {NoChild}
  /\ drained \in BOOLEAN
  /\ child \in [Children -> {"new", "refused", "running", "ended"}]
  /\ busy \in Children \union {NoChild}
  /\ todo \in SUBSET {"cancel", "set"}
  /\ waiter \in [Waiters -> {"idle", "waiting", "woken", "returned", "threw", "canceled"}]
  /\ must \in [Waiters -> SUBSET Children]
  /\ overtaken \in BOOLEAN
  /\ owed \in Seq(Children)

GroupInit ==
  /\ pending = 0
  /\ canceled = FALSE
  /\ firstError = NoChild
  /\ drained = TRUE
  /\ child = [c \in Children |-> "new"]
  /\ busy = NoChild
  /\ todo = {}
  /\ waiter = [w \in Waiters |-> "idle"]
  /\ must = [w \in Waiters |-> {}]
  /\ overtaken = FALSE
  /\ owed = <<>>

Running == {c \in Children : child[c] = "running"}

------------------------------------------------------------------------------
\* spawn(): refused once the group is cancelled; the first pending child resets
\* the event.  The child is started on the executor, which accepts it.
Spawn(c) ==
  /\ child[c] = "new"
  /\ IF canceled
     THEN /\ child' = [child EXCEPT ![c] = "refused"]
          /\ UNCHANGED <<pending, drained>>
     ELSE /\ child' = [child EXCEPT ![c] = "running"]
          /\ pending' = pending + 1
          /\ drained' = IF pending = 0 THEN FALSE ELSE drained
  /\ overtaken' = (overtaken \/ ("set" \in todo /\ ~canceled))
  /\ UNCHANGED <<canceled, firstError, busy, todo, waiter, must, owed>>

\* Under the lock: the outcome becomes the group's error, unless there is one
\* or it is no failure: the SignalException of a cancelled group.
Fails(o) == o = "error" \/ (o = "signal" /\ ~canceled)

Records(o) == firstError = NoChild /\ Fails(o)

\* A child less is pending.
CountDown(o) == IF pending > 0 THEN pending - 1 ELSE 0

\* The event is set when one child is left (mutant).
Decide_EarlySet(o) ==
  (IF Records(o) THEN {"cancel"} ELSE {}) \union (IF pending <= 2 THEN {"set"} ELSE {})

\* should_cancel and signal_drained.
Decide(o) ==
  (IF Records(o) THEN {"cancel"} ELSE {}) \union (IF CountDown(o) = 0 THEN {"set"} ELSE {})

\* finish(), the part under the lock.
Finish(c, o) ==
  /\ child[c] = "running"
  /\ busy = NoChild
  /\ child' = [child EXCEPT ![c] = "ended"]
  /\ firstError' = IF Records(o) THEN c ELSE firstError
  /\ pending' = CountDown(o)
  /\ todo' = Decide(o)
  /\ busy' = c
  /\ owed' = IF Fails(o) THEN Append(owed, c) ELSE owed
  /\ UNCHANGED <<canceled, drained, waiter, must, overtaken>>

\* finish(), after the lock: the siblings are cancelled first.
FinishCancel ==
  /\ busy # NoChild
  /\ "cancel" \in todo
  /\ canceled' = TRUE
  /\ todo' = todo \ {"cancel"}
  /\ UNCHANGED <<pending, firstError, drained, child, busy, waiter, must, owed, overtaken>>

\* drained.set() that wakes nobody (mutant).
FinishReturn_NoWake ==
  /\ busy # NoChild
  /\ "cancel" \notin todo
  /\ drained' = ("set" \in todo \/ drained)
  /\ busy' = NoChild
  /\ todo' = {}
  /\ UNCHANGED <<pending, canceled, firstError, child, waiter, must, owed, overtaken>>

\* finish(), last: drained.set() wakes every waiter.
FinishReturn ==
  /\ busy # NoChild
  /\ "cancel" \notin todo
  /\ drained' = ("set" \in todo \/ drained)
  /\ waiter' = [w \in Waiters |-> IF "set" \in todo /\ waiter[w] = "waiting"
                                  THEN "woken" ELSE waiter[w]]
  /\ busy' = NoChild
  /\ todo' = {}
  /\ UNCHANGED <<pending, canceled, firstError, child, must, owed, overtaken>>

\* wait(): drained.wait().
Wait(w) ==
  /\ waiter[w] \in {"idle", "returned", "threw"}
  /\ busy = NoChild
  /\ waiter' = [waiter EXCEPT ![w] = IF drained THEN "woken" ELSE "waiting"]
  /\ must' = [must EXCEPT ![w] = Running]
  /\ UNCHANGED <<pending, canceled, firstError, drained, child, busy, todo, owed, overtaken>>

\* wait() that returns normally although it has taken the error (mutant).
WaitReturn_Swallow(w) ==
  /\ waiter[w] = "woken"
  /\ busy = NoChild
  /\ waiter' = [waiter EXCEPT ![w] = "returned"]
  /\ firstError' = NoChild
  /\ UNCHANGED <<pending, canceled, drained, child, busy, todo, must, owed, overtaken>>

\* wait() continues: the error, if any, is taken and rethrown.
WaitReturn(w) ==
  /\ waiter[w] = "woken"
  /\ busy = NoChild
  /\ waiter' = [waiter EXCEPT ![w] = IF firstError = NoChild THEN "returned" ELSE "threw"]
  /\ owed' = IF firstError = NoChild THEN owed ELSE <<>>
  /\ firstError' = NoChild
  /\ UNCHANGED <<pending, canceled, drained, child, busy, todo, must, overtaken>>

\* The waiter itself is cancelled: drained.wait() throws SignalException and
\* wait() does not reach first_error.
WaitCanceled(w) ==
  /\ waiter[w] \in {"waiting", "woken"}
  /\ busy = NoChild
  /\ waiter' = [waiter EXCEPT ![w] = "canceled"]
  /\ UNCHANGED <<pending, canceled, firstError, drained, child, busy, todo, must, owed, overtaken>>

\* cancel(), or ~TaskGroup of any copy of the group.
Cancel ==
  /\ ~canceled
  /\ canceled' = TRUE
  /\ UNCHANGED <<pending, firstError, drained, child, busy, todo, waiter, must, owed, overtaken>>

GroupNext ==
  \/ \E c \in Children : \/ Spawn(c)
                         \/ \E o \in {"ok", "error", "signal"} : Finish(c, o)
  \/ FinishCancel
  \/ FinishReturn
  \/ \E w \in Waiters : Wait(w) \/ WaitReturn(w) \/ WaitCanceled(w)
  \/ Cancel

\* Children end, finish() runs to its end, a woken waiter is resumed.
GroupFairness ==
  /\ \A c \in Children : WF_groupVars(\E o \in {"ok", "error", "signal"} : Finish(c, o))
  /\ WF_groupVars(FinishCancel)
  /\ WF_groupVars(FinishReturn)
  /\ \A w \in Waiters : WF_groupVars(WaitReturn(w))

GroupSpec == GroupInit /\ [][GroupNext]_groupVars
GroupFairSpec == GroupSpec /\ GroupFairness

------------------------------------------------------------------------------
(***************************************************************************)
(* Properties                                                              *)
(***************************************************************************)

\* wait() does not return, normally or with the group's error, before every
\* child that was pending when it was called has ended.  The exception is a
\* group in which another thread spawned a child between the unlock and the
\* drained.set() of a finish(): that set() reports the new child as ended.
WaitReturnsDrained ==
  overtaken \/ \A w \in Waiters : waiter[w] \in {"returned", "threw"} => must[w] \intersect Running = {}

\* The first failure of a child since a wait() last threw is kept for the next
\* wait(), which throws it; it gives way neither to later failures nor to a wait()
\* that was cancelled, and after it was thrown a new one is kept again.  Nothing
\* else is thrown: a SignalException is a failure only when its child ended before
\* the group was cancelled.
ErrorNotSwallowed == firstError = IF owed = <<>> THEN NoChild ELSE Head(owed)

\* Every wait() ends, also when it was called while a child was inside finish().
WaitEnds == \A w \in Waiters : waiter[w] = "waiting" ~> waiter[w] # "waiting"
==============================================================================
