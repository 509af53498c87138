------------------------------ MODULE AsyncMutex ------------------------------
(***************************************************************************)
(* AsyncMutex (include/corouv/async_mutex.h): a mutex whose lock() suspends*)
(* a coroutine, with cancellation, and whose unlock() hands the lock over  *)
(* to the waiter in front without ever making it free.                     *)
(***************************************************************************)
EXTENDS AwaitProtocol

VARIABLES
  locked,  \* _locked
  held,    \* history: tasks whose lock() / try_lock() succeeded and that have
           \* not unlocked (the owners of a ScopedLock)
  lostBy   \* history: tasks that took the lock in a lock() that did not succeed

mutexVars == <<locked, held, lostBy>>
vars == <<protocolVars, mutexVars>>

TypeOK ==
  /\ ProtocolTypeOK
  /\ locked \in BOOLEAN
  /\ held \in SUBSET Tasks
  /\ lostBy \in SUBSET Tasks

Init ==
  /\ ProtocolInit
  /\ locked = FALSE
  /\ held = {}
  /\ lostBy = {}

\* The lock has been set aside for these tasks and their lock() has not
\* returned yet.
InFlight == {t \in Tasks : pc[t] = "took" \/ (granted[t] /\ pc[t] # "dead")}

------------------------------------------------------------------------------
\* lock(): await_ready looks at the signal.  The mutex is not recursive: a
\* task that holds it does not lock it again.
LockStart(t) ==
  /\ t \notin held
  /\ CheckSignal(t)
  /\ UNCHANGED mutexVars

\* try_lock, called by await_ready.
AwaitReady(t) ==
  /\ TryInAwaitReady(t, ~locked)
  /\ locked' = TRUE
  /\ UNCHANGED <<held, lostBy>>

\* try_lock, called by the program.
TryLock(t) ==
  /\ t \notin held
  /\ TryDirect(t)
  /\ locked' = TRUE
  /\ held' = IF locked THEN held ELSE held \union {t}
  /\ UNCHANGED lostBy

AwaitSuspend(t) == InstallHandler(t) /\ UNCHANGED mutexVars

\* enqueue_waiter that does not look at _locked again (mutant).
EnqueueWaiter_NoRecheck(t) ==
  /\ EnqueueOrReturn(t)
  /\ UNCHANGED mutexVars

\* await_suspend, second half: enqueue_waiter.
EnqueueWaiter(t) ==
  /\ IF ~done[t] /\ ~locked
     THEN /\ locked' = TRUE
          /\ GrantInPlace(t)
     ELSE /\ EnqueueOrReturn(t)
          /\ UNCHANGED locked
  /\ UNCHANGED <<held, lostBy>>

\* unlock that frees the mutex and also wakes a waiter (mutant).
Unlock_Frees(t) ==
  /\ t \in held
  /\ \E G \in Fronts(IF Live = {} THEN 0 ELSE 1) :
       /\ GrantWaiters(t, G)
       /\ locked' = FALSE
  /\ held' = held \ {t}
  /\ UNCHANGED lostBy

\* unlock, by a holder: directly, by ScopedLock::release or ~ScopedLock (also
\* when with_lock's function throws).  The waiter in front gets the lock, which
\* stays taken; with nobody waiting it becomes free.
Unlock(t) ==
  /\ t \in held
  /\ locked
  /\ \E G \in Fronts(IF Live = {} THEN 0 ELSE 1) :
       /\ GrantWaiters(t, G)
       /\ locked' = (G # {})
  /\ held' = held \ {t}
  /\ UNCHANGED lostBy

\* next->resume_after_marked_done() after _mu is released.
WakeNext(t) == Wake(t) /\ UNCHANGED mutexVars

Resume(t) == RunResume(t) /\ UNCHANGED mutexVars

\* await_resume.  A lock that await_ready took stays taken when the signal was
\* emitted since.
AwaitResume(t) ==
  /\ \/ /\ ResumeGranted(t)
        /\ held' = held \union {t}
        /\ UNCHANGED lostBy
     \/ /\ ResumeDenied(t)
        /\ UNCHANGED <<held, lostBy>>
     \/ /\ ResumeWithoutWaiter(t)
        /\ held' = IF ~signal[t] THEN held \union {t} ELSE held
        /\ lostBy' = IF pc[t] = "took" /\ signal[t] THEN lostBy \union {t} ELSE lostBy
  /\ UNCHANGED locked

\* ~Awaiter of a suspended lock().
Abandon(t) ==
  /\ Destroy(t)
  /\ lostBy' = IF granted[t] THEN lostBy \union {t} ELSE lostBy
  /\ UNCHANGED <<locked, held>>

EmitTerminate(t) == Emit(t) /\ UNCHANGED mutexVars

CancelOnExecutor(t) ==
  /\ RunCancel(t) \/ FinishCancel(t)
  /\ UNCHANGED mutexVars

\* Steps that follow by themselves once an operation has begun.
Step(t) ==
  \/ AwaitReady(t)
  \/ AwaitSuspend(t)
  \/ EnqueueWaiter(t)
  \/ WakeNext(t)
  \/ Resume(t)
  \/ AwaitResume(t)
  \/ CancelOnExecutor(t)

Next ==
  \E t \in Tasks :
    \/ LockStart(t)
    \/ TryLock(t)
    \/ Unlock(t)
    \/ EmitTerminate(t)
    \/ Abandon(t)
    \/ Step(t)

\* As for the semaphore; besides, a task that holds the lock releases it
\* (~ScopedLock runs when the scope is left).
Fairness == \A t \in Tasks : WF_vars(Step(t)) /\ WF_vars(Unlock(t))

Spec == Init /\ [][Next]_vars
FairSpec == Spec /\ Fairness

------------------------------------------------------------------------------
(***************************************************************************)
(* Properties                                                              *)
(***************************************************************************)

\* At most one task holds the lock or is about to return from lock() with it:
\* a hand-over in unlock(), a lock taken by await_ready and one taken by
\* enqueue_waiter never coexist.
MutualExclusion == \A t, u \in held \union InFlight : t = u

\* _locked is set exactly when somebody holds the lock, is about to, or took it
\* in a lock() that did not return: so a holder's unlock() never throws
\* "unlock on unlocked mutex" (inside ~ScopedLock that would terminate).
LockedIffOwned == locked <=> held \union InFlight \union lostBy # {}

\* Nobody sleeps in _waiters while the mutex is free.
NoLostHandoff == ~locked => Live = {}

\* A mutex nobody uses is free: when no task is inside an operation and nobody
\* holds the lock, lock() succeeds at once.  A lock() that was cancelled leaves
\* no trace.
FreeWhenUnused ==
  (held = {} /\ \A t \in Tasks : pc[t] \in {"run", "dead"}) => ~locked

\* Every lock() ends, by taking the lock or by its cancellation, as long as
\* holders unlock and nobody has lost the lock: the hand-over lets nobody
\* overtake the waiters for ever, and no cancellation breaks the chain.
LockIsServed ==
  \A t \in Tasks : pc[t] = "try" ~> t \in held \/ pc[t] = "dead" \/ lostBy # {}

(***************************************************************************)
(* Refinement                                                              *)
(***************************************************************************)
Pool == INSTANCE PermitPool
  WITH Clients <- Tasks, Lossy <- RemoteCancel \union Destroyable,
       Capacity <- 1, Initial <- 1,
       avail <- IF locked THEN 0 ELSE 1, line <- Live, before <- LiveAhead,
       reserved <- InFlight, owed <- IF held = {} THEN 1 ELSE 0

\* The mutex is a PermitPool with one permit, which only a task that a foreign
\* thread cancels, or whose frame is destroyed in its wait, may lose.
ImplementsPermitPool == Pool!PoolSpec
==============================================================================
