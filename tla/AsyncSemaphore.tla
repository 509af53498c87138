---------------------------- MODULE AsyncSemaphore ----------------------------
(***************************************************************************)
(* AsyncSemaphore (include/corouv/async_semaphore.h): a counting semaphore *)
(* whose acquire() suspends a coroutine, with cancellation.  _permits and  *)
(* _waiters change only under _mu, so each critical section is one action. *)
(***************************************************************************)
EXTENDS AwaitProtocol

CONSTANTS
  InitialPermits,  \* the constructor's argument
  SizeMax,         \* numeric_limits<size_t>::max()
  MaxRelease       \* bound on the count of one release()

ASSUME SemaphoreAssumption ==
  /\ InitialPermits \in Nat
  /\ SizeMax \in Nat
  /\ InitialPermits <= SizeMax
  /\ MaxRelease \in Nat

VARIABLES
  permits,  \* _permits
  owed,     \* history: permits put in and not yet taken out by an acquire
            \* that succeeded
  lostBy    \* history: tasks that took a permit in an acquire that did not
            \* succeed

semVars == <<permits, owed, lostBy>>
vars == <<protocolVars, semVars>>

TypeOK ==
  /\ ProtocolTypeOK
  /\ permits \in 0..SizeMax
  /\ owed \in Nat
  /\ lostBy \in SUBSET Tasks

Init ==
  /\ ProtocolInit
  /\ permits = InitialPermits
  /\ owed = InitialPermits
  /\ lostBy = {}

\* A permit has been set aside for these tasks and their acquire() has not
\* returned yet.
InFlight == {t \in Tasks : pc[t] = "took" \/ (granted[t] /\ pc[t] # "dead")}

------------------------------------------------------------------------------
\* acquire(): await_ready looks at the signal.
AcquireStart(t) == CheckSignal(t) /\ UNCHANGED semVars

\* try_acquire, called by await_ready.
AwaitReady(t) ==
  /\ TryInAwaitReady(t, permits > 0)
  /\ permits' = IF permits > 0 THEN permits - 1 ELSE permits
  /\ UNCHANGED <<owed, lostBy>>

\* try_acquire, called by the program.
TryAcquire(t) ==
  /\ TryDirect(t)
  /\ permits' = IF permits > 0 THEN permits - 1 ELSE permits
  /\ owed' = IF permits > 0 THEN owed - 1 ELSE owed
  /\ UNCHANGED lostBy

\* enqueue_waiter as one that forgets to look at _permits again (mutant).
EnqueueWaiter_NoRecheck(t) ==
  /\ EnqueueOrReturn(t)
  /\ UNCHANGED semVars

\* enqueue_waiter that takes a permit and does not mark the Waiter (mutant).
EnqueueWaiter_NoMark(t) ==
  /\ pc[t] = "enqueue"
  /\ IF permits > 0
     THEN /\ permits' = permits - 1
          /\ Goto(t, "resume")
          /\ Erase(queued \ Live)
          /\ UNCHANGED <<signal, handler, waiterVars, execVars, wake>>
     ELSE EnqueueOrReturn(t) /\ UNCHANGED permits
  /\ UNCHANGED <<owed, lostBy>>

\* await_suspend, second half: enqueue_waiter.
EnqueueWaiter(t) ==
  /\ IF ~done[t] /\ permits > 0
     THEN /\ permits' = permits - 1
          /\ GrantInPlace(t)
     ELSE /\ EnqueueOrReturn(t)
          /\ UNCHANGED permits
  /\ UNCHANGED <<owed, lostBy>>

\* release(n): overflow is refused (the throw leaves the state alone); else
\* the permits go to the waiters in front, one each, as far as they reach.
Release(t, n) ==
  /\ n > 0
  /\ n <= SizeMax - permits
  /\ \E G \in Fronts(IF Cardinality(Live) <= permits + n
                     THEN Cardinality(Live) ELSE permits + n) :
       /\ permits' = permits + n - Cardinality(G)
       /\ GrantWaiters(t, G)
  /\ owed' = owed + n
  /\ UNCHANGED lostBy

\* resume_after_marked_done in the loop after _mu is released.
WakeOne(t) == Wake(t) /\ UNCHANGED semVars

\* await_resume that lets the signal win over the grant (mutant).
AwaitResume_SignalFirst(t) ==
  /\ \/ /\ pc[t] = "resume"
        /\ Goto(t, IF signal[t] THEN "dead" ELSE IF granted[t] THEN "run" ELSE "failed")
        /\ owed' = IF granted[t] /\ ~signal[t] THEN owed - 1 ELSE owed
        /\ lostBy' = IF granted[t] /\ signal[t] THEN lostBy \union {t} ELSE lostBy
        /\ DropWaiter(t)
        /\ UNCHANGED <<signal, handler, execVars, queueVars, wake>>
     \/ /\ ResumeWithoutWaiter(t)
        /\ owed' = IF pc[t] = "took" /\ ~signal[t] THEN owed - 1 ELSE owed
        /\ lostBy' = IF pc[t] = "took" /\ signal[t] THEN lostBy \union {t} ELSE lostBy
  /\ UNCHANGED permits

\* await_resume.  A permit that await_ready took is dropped when the signal
\* was emitted since.
AwaitResume(t) ==
  /\ \/ /\ ResumeGranted(t)
        /\ owed' = owed - 1
        /\ UNCHANGED lostBy
     \/ /\ ResumeDenied(t)
        /\ UNCHANGED <<owed, lostBy>>
     \/ /\ ResumeWithoutWaiter(t)
        /\ owed' = IF ~signal[t] THEN owed - 1 ELSE owed
        /\ lostBy' = IF pc[t] = "took" /\ signal[t] THEN lostBy \union {t} ELSE lostBy
  /\ UNCHANGED permits

\* ~Awaiter of a suspended acquire(); a grant that was not consumed is gone.
Abandon(t) ==
  /\ Destroy(t)
  /\ lostBy' = IF granted[t] THEN lostBy \union {t} ELSE lostBy
  /\ UNCHANGED <<permits, owed>>

AwaitSuspend(t) == InstallHandler(t) /\ UNCHANGED semVars
Resume(t) == RunResume(t) /\ UNCHANGED semVars
EmitTerminate(t) == Emit(t) /\ UNCHANGED semVars

\* The closure that request_cancel_from_any_thread posted.
CancelOnExecutor(t) ==
  /\ RunCancel(t) \/ FinishCancel(t)
  /\ UNCHANGED semVars

\* Steps that follow by themselves once an operation has begun.
Step(t) ==
  \/ AwaitReady(t)
  \/ AwaitSuspend(t)
  \/ EnqueueWaiter(t)
  \/ WakeOne(t)
  \/ Resume(t)
  \/ AwaitResume(t)
  \/ CancelOnExecutor(t)

Next ==
  \E t \in Tasks :
    \/ AcquireStart(t)
    \/ TryAcquire(t)
    \/ \E n \in 1..MaxRelease : Release(t, n)
    \/ EmitTerminate(t)
    \/ Abandon(t)
    \/ Step(t)

\* A thread that is inside an operation goes on, and an executor runs the
\* closures it has accepted.  Nothing makes a task call acquire or release.
Fairness == \A t \in Tasks : WF_vars(Step(t))

Spec == Init /\ [][Next]_vars
FairSpec == Spec /\ Fairness

------------------------------------------------------------------------------
(***************************************************************************)
(* Properties                                                              *)
(***************************************************************************)

\* Every permit that was put in and not consumed is in _permits, on its way to
\* a task whose acquire() is about to return, or was dropped by a task of
\* lostBy: grants, cancellations and hand-overs neither create nor duplicate a
\* permit, and lose none elsewhere.
PermitConservation ==
  owed = permits + Cardinality(InFlight) + Cardinality(lostBy)

\* While a permit is available no live waiter sleeps in _waiters: the second
\* look at _permits in enqueue_waiter and the grant loop of release() leave no
\* gap in which a wake-up is lost.
NoLostWakeup == permits > 0 => Live = {}

\* A suspended coroutine is resumed at most once, by the releaser or by the
\* cancellation, and only while it is suspended in this wait: the
\* compare-exchange on done decides the race between the two.  ~Awaiter cannot
\* take back a resumption that is posted, so that one may find its frame gone.
ResumedOnce ==
  \A t \in Tasks :
    /\ resumes[t] <= 1
    /\ resumes[t] = 1 => /\ done[t] /\ t \notin queued
                         /\ pc[t] = "suspended" \/ (pc[t] = "dead" /\ t \in Destroyable)

\* A permit is lost only by a task that a foreign thread cancelled (between
\* await_ready and await_resume) or whose frame was destroyed after it was
\* granted; cancellation on the task's own executor never loses one.
LossNeedsForeignThread == lostBy \subseteq RemoteCancel \union Destroyable

\* acquire() never ends with "acquire failed": a wait that ends without a
\* grant was cancelled.
NoSpuriousFailure == \A t \in Tasks : pc[t] # "failed"

\* A waiting task that is cancelled leaves its wait, whatever releases race
\* with the cancellation.
CanceledWaiterLeaves ==
  \A t \in Tasks : pc[t] = "suspended" /\ signal[t] ~> pc[t] # "suspended"

(***************************************************************************)
(* Refinement                                                              *)
(***************************************************************************)

Pool == INSTANCE PermitPool
  WITH Clients <- Tasks, Lossy <- RemoteCancel \union Destroyable,
       Capacity <- SizeMax, Initial <- InitialPermits,
       avail <- permits, line <- Live, before <- LiveAhead,
       reserved <- InFlight, owed <- owed

\* The semaphore is a PermitPool: an acquire() that does not succeed has no
\* effect on the permits, whatever it races with, unless the task was cancelled
\* by a foreign thread or its frame was destroyed: then a permit that was set
\* aside for it may be lost.
ImplementsPermitPool == Pool!PoolSpec

==============================================================================
