--------------------------- MODULE AsyncMutexProofs ---------------------------
(***************************************************************************)
(* Safety of AsyncMutex for every set of tasks.                            *)
(***************************************************************************)
EXTENDS AsyncMutex, AwaitProtocolProofs, FiniteSetTheorems

\* Who has the lock, or lost it.
Owners == held \union InFlight \union lostBy

\* There is at most one owner; a lost lock is never owned again.
OneOwner == \A t, u \in Owners : t = u

\* A holder is in its own code (the mutex is not recursive), and a task that
\* lost the lock has ended, destroyed or cancelled by a foreign thread.
OwnersAre ==
  /\ \A t \in held : pc[t] = "run"
  /\ \A t \in lostBy : pc[t] = "dead" /\ t \in RemoteCancel \union Destroyable

\* The inductive invariant.
IndInv ==
  /\ TypeOK
  /\ WaiterStates
  /\ ForeignSignals
  /\ OneOwner
  /\ LockedIffOwned
  /\ NoLostHandoff
  /\ OwnersAre

------------------------------------------------------------------------------
(***************************************************************************)
(* The mutex takes steps of the protocol                                   *)
(***************************************************************************)

\* Every action of the mutex contains one step of the protocol.
LEMMA NextIsProtocol ==
  ASSUME TypeOK, Next
  PROVE  ProtocolNext
<1>1. PICK t \in Tasks :
        LockStart(t) \/ TryLock(t) \/ Unlock(t) \/ EmitTerminate(t) \/ Abandon(t) \/ Step(t)
  BY Zenon DEF Next
<1>2. CASE LockStart(t) \/ TryLock(t) \/ EmitTerminate(t) \/ Abandon(t)
  BY <1>2, Zenon DEF LockStart, TryLock, EmitTerminate, Abandon, ProtocolNext
<1>3. CASE Unlock(t)
  BY <1>3, Zenon DEF Unlock, Fronts, ProtocolNext
<1>4. CASE AwaitReady(t)
  <2>1. ~locked = TRUE \/ ~locked = FALSE
    BY Zenon DEF TypeOK
  <2>2. TryInAwaitReady(t, TRUE) \/ TryInAwaitReady(t, FALSE)
    BY <1>4, <2>1, Zenon DEF AwaitReady, TryInAwaitReady
  <2> QED
    BY <2>2, Zenon DEF ProtocolNext
<1>5. CASE AwaitSuspend(t) \/ EnqueueWaiter(t) \/ WakeNext(t)
  BY <1>5, Zenon DEF AwaitSuspend, EnqueueWaiter, WakeNext, ProtocolNext
<1>6. CASE Resume(t) \/ AwaitResume(t) \/ CancelOnExecutor(t)
  BY <1>6, Zenon DEF Resume, AwaitResume, CancelOnExecutor, ProtocolNext
<1> QED
  BY <1>1, <1>2, <1>3, <1>4, <1>5, <1>6, Zenon DEF Step

\* The invariant holds initially.
LEMMA InitInv ==
  ASSUME Init
  PROVE  IndInv
<1>1. ProtocolTypeOK /\ WaiterStates /\ ForeignSignals
  BY ProtocolInitInv, Zenon DEF Init
<1>2. Owners = {} /\ Live = {}
  BY Zenon DEF Init, ProtocolInit, InFlight, Live, Owners
<1> QED
  BY <1>1, <1>2, Zenon DEF Init, IndInv, TypeOK, OneOwner, Owners, LockedIffOwned, NoLostHandoff, OwnersAre

------------------------------------------------------------------------------
(***************************************************************************)
(* Ownership                                                               *)
(***************************************************************************)

\* The part of the invariant that is about the lock.
LockInv ==
  /\ locked \in BOOLEAN
  /\ held \in SUBSET Tasks
  /\ lostBy \in SUBSET Tasks
  /\ OneOwner
  /\ LockedIffOwned
  /\ NoLostHandoff
  /\ OwnersAre

\* Steps that change nothing but where the task is, and not into or out of
\* ownership.
LEMMA SameInFlight ==
  ASSUME IndInv, NEW t \in Tasks,
         \/ LockStart(t) \/ EmitTerminate(t) \/ AwaitSuspend(t)
         \/ WakeNext(t) \/ Resume(t) \/ CancelOnExecutor(t)
  PROVE  InFlight' = InFlight /\ OwnersAre'
<1> USE DEF IndInv, TypeOK, ProtocolTypeOK, OwnersAre, InFlight, Goto, mutexVars
<1>1. WaiterState(t)
  BY Zenon DEF WaiterStates
<1>2. UNCHANGED mutexVars
  BY Zenon DEF LockStart, EmitTerminate, AwaitSuspend, WakeNext, Resume, CancelOnExecutor
<1>3. CASE LockStart(t)
  BY <1>1, <1>2, <1>3, Zenon DEF LockStart, CheckSignal, waiterVars, WaiterState
<1>4. CASE EmitTerminate(t)
  BY <1>1, <1>2, <1>4, Zenon DEF EmitTerminate, Emit, waiterVars
<1>5. CASE AwaitSuspend(t)
  BY <1>1, <1>2, <1>5, Zenon DEF AwaitSuspend, InstallHandler, WaiterState
<1>6. CASE WakeNext(t)
  BY <1>1, <1>2, <1>6 DEF WakeNext, Wake, WaiterState
<1>7. CASE Resume(t)
  BY <1>1, <1>2, <1>7, SMTT(30) DEF Resume, RunResume, waiterVars, WaiterState
<1>8. CASE CancelOnExecutor(t)
  BY <1>1, <1>2, <1>8 DEF CancelOnExecutor, RunCancel, FinishCancel, WaiterState
<1> QED
  BY <1>3, <1>4, <1>5, <1>6, <1>7, <1>8, Zenon

\* Those steps keep what is known of the lock.
LEMMA QuietSteps ==
  ASSUME IndInv, NEW t \in Tasks,
         \/ LockStart(t) \/ EmitTerminate(t) \/ AwaitSuspend(t)
         \/ WakeNext(t) \/ Resume(t) \/ CancelOnExecutor(t)
  PROVE  LockInv'
<1>1. UNCHANGED mutexVars
  BY Zenon DEF LockStart, EmitTerminate, AwaitSuspend, WakeNext, Resume, CancelOnExecutor
<1>2. InFlight' = InFlight /\ OwnersAre'
  BY SameInFlight, Zenon
<1>3. Live' \subseteq Live
  BY LiveShrinks, Zenon DEF IndInv, TypeOK, LockStart, EmitTerminate, AwaitSuspend, WakeNext,
     Resume, CancelOnExecutor
<1> QED
  BY <1>1, <1>2, <1>3, Zenon DEF IndInv, TypeOK, LockInv, mutexVars, OneOwner, Owners, LockedIffOwned,
     NoLostHandoff

\* Taking a free lock: nobody owned it, t does now.
LEMMA TakeSteps ==
  ASSUME IndInv, NEW t \in Tasks, AwaitReady(t) \/ TryLock(t) \/ EnqueueWaiter(t)
  PROVE  LockInv'
<1> USE DEF IndInv, TypeOK, ProtocolTypeOK
<1>1. WaiterState(t)
  BY Zenon DEF WaiterStates
<1>2. locked \in BOOLEAN /\ UNCHANGED lostBy
  BY Zenon DEF AwaitReady, TryLock, EnqueueWaiter
<1>3. CASE AwaitReady(t)
  <2>1. TryInAwaitReady(t, TRUE) \/ TryInAwaitReady(t, FALSE)
    BY <1>2, <1>3, Zenon DEF AwaitReady, TryInAwaitReady
  <2>2. Live' \subseteq Live
    BY <2>1, LiveShrinks, Zenon
  <2>3. InFlight' = IF locked THEN InFlight ELSE InFlight \union {t}
    BY <1>1, <1>3 DEF AwaitReady, TryInAwaitReady, InFlight, Goto, waiterVars, WaiterState
  <2>4. OwnersAre'
    BY <1>3, Zenon DEF AwaitReady, TryInAwaitReady, OwnersAre, Goto
  <2> QED
    BY <1>3, <2>2, <2>3, <2>4, SMTT(30)
       DEF AwaitReady, LockInv, OneOwner, Owners, LockedIffOwned, NoLostHandoff
<1>4. CASE TryLock(t)
  <2>1. Live' \subseteq Live
    BY <1>4, LiveShrinks, Zenon DEF TryLock
  <2>2. InFlight' = InFlight
    BY <1>4, Zenon DEF TryLock, TryDirect, InFlight, waiterVars
  <2>3. OwnersAre'
    BY <1>4, Zenon DEF TryLock, TryDirect, OwnersAre
  <2> QED
    BY <1>4, <2>1, <2>2, <2>3, Zenon DEF TryLock, LockInv, OneOwner, Owners, LockedIffOwned, NoLostHandoff
<1>5. CASE EnqueueWaiter(t)
  <2>1. pc[t] = "enqueue" /\ ~done[t] /\ ~granted[t]
    BY <1>1, <1>5, Zenon DEF EnqueueWaiter, EnqueueOrReturn, GrantInPlace, WaiterState
  <2>2. OwnersAre' /\ UNCHANGED held
    BY <1>5, <2>1, Zenon DEF EnqueueWaiter, EnqueueOrReturn, GrantInPlace, OwnersAre, Goto
  <2>3. CASE ~locked
    <3>1. GrantInPlace(t) /\ locked' = TRUE
      BY <1>5, <2>1, <2>3, Zenon DEF EnqueueWaiter
    <3>2. Live' \subseteq Live
      BY <3>1, LiveShrinks, Zenon
    <3>3. InFlight' = InFlight \union {t}
      BY <2>1, <3>1, Zenon DEF GrantInPlace, InFlight, Goto
    <3> QED
      BY <1>2, <2>2, <2>3, <3>1, <3>2, <3>3, Zenon
         DEF LockInv, OneOwner, Owners, LockedIffOwned, NoLostHandoff
  <2>4. CASE locked
    <3>1. EnqueueOrReturn(t) /\ UNCHANGED locked
      BY <1>5, <2>4, Zenon DEF EnqueueWaiter
    <3>2. InFlight' = InFlight
      BY <2>1, <3>1, Zenon DEF EnqueueOrReturn, InFlight, Goto, waiterVars
    <3> QED
      BY <1>2, <2>2, <2>4, <3>1, <3>2, Zenon
         DEF LockInv, OneOwner, Owners, LockedIffOwned, NoLostHandoff
  <2> QED
    BY <2>3, <2>4, Zenon
<1> QED
  BY <1>3, <1>4, <1>5, Zenon

\* unlock: the only owner gives the lock to the waiter in front.
LEMMA UnlockHandsOver ==
  ASSUME IndInv, NEW t \in Tasks, Unlock(t)
  PROVE  \E G \in Fronts(IF Live = {} THEN 0 ELSE 1) :
           /\ GrantWaiters(t, G) /\ locked' = (G # {})
           /\ G \in SUBSET Live /\ IsFiniteSet(G)
           /\ t \in held /\ held' = held \ {t} /\ UNCHANGED lostBy /\ pc[t] = "run"
           /\ Owners = {t} /\ t \notin InFlight /\ t \notin lostBy
           /\ InFlight' = G
<1> USE DEF IndInv, TypeOK, ProtocolTypeOK
<1>1. PICK G \in Fronts(IF Live = {} THEN 0 ELSE 1) :
         GrantWaiters(t, G) /\ locked' = (G # {})
  BY Zenon DEF Unlock
<1>2. t \in held /\ held' = held \ {t} /\ UNCHANGED lostBy /\ pc[t] = "run"
  BY <1>1, Zenon DEF Unlock, GrantWaiters
<1>3. Owners = {t} /\ t \notin InFlight /\ t \notin lostBy
  BY <1>2 DEF OneOwner, Owners, OwnersAre, InFlight, WaiterStates, WaiterState
<1>4. G \in SUBSET Live /\ IsFiniteSet(G)
  BY <1>1, TasksAssumption, FS_Subset, Zenon DEF Fronts, Live
<1>5. InFlight' = G
  <2>1. \A u \in G : pc'[u] # "dead" /\ granted'[u]
    BY <1>1, <1>2, <1>4, Zenon DEF GrantWaiters, Goto, Live, WaiterStates, WaiterState
  <2>2. InFlight = {}
    BY <1>3, Zenon DEF Owners
  <2>3. \A u \in Tasks : u \notin G => ~(pc'[u] = "took" \/ (granted'[u] /\ pc'[u] # "dead"))
    <3> SUFFICES ASSUME NEW u \in Tasks, u \notin G
                 PROVE  ~(pc'[u] = "took" \/ (granted'[u] /\ pc'[u] # "dead"))
      BY Zenon
    <3>1. WaiterState(u) /\ u \notin InFlight
      BY <2>2, Zenon DEF WaiterStates
    <3>2. granted'[u] = granted[u]
      BY <1>1, Zenon DEF GrantWaiters
    <3> QED
      BY <1>1, <1>2, <3>1, <3>2, Zenon DEF GrantWaiters, Goto, InFlight, WaiterState
  <2>4. G \subseteq Tasks
    BY <1>4, Zenon DEF Live
  <2> QED
    BY <2>1, <2>3, <2>4, SMTT(30) DEF InFlight
<1> QED
  BY <1>1, <1>2, <1>3, <1>4, <1>5, Zenon

\* The waiter that is granted owns the lock; without one the mutex is free.
LEMMA UnlockStep ==
  ASSUME IndInv, NEW t \in Tasks, Unlock(t)
  PROVE  LockInv'
<1> USE DEF IndInv, TypeOK, ProtocolTypeOK
<1>1. PICK G \in Fronts(IF Live = {} THEN 0 ELSE 1) :
           /\ GrantWaiters(t, G) /\ locked' = (G # {})
           /\ G \in SUBSET Live /\ IsFiniteSet(G)
           /\ t \in held /\ held' = held \ {t} /\ UNCHANGED lostBy /\ pc[t] = "run"
           /\ Owners = {t} /\ t \notin InFlight /\ t \notin lostBy
           /\ InFlight' = G
  BY UnlockHandsOver, Zenon
<1>2. CASE Live = {}
  <2>1. G = {}
    BY <1>1, <1>2, Zenon
  <2>2. Live' = {}
    BY <1>1, <1>2, Zenon DEF GrantWaiters, CompactAndPop, Live
  <2> QED
    BY <1>1, <2>1, <2>2, Zenon
       DEF LockInv, OneOwner, Owners, LockedIffOwned, NoLostHandoff, OwnersAre
<1>3. CASE Live # {}
  <2>1. Cardinality(G) = 1
    BY <1>1, <1>3, Zenon DEF Fronts
  <2>2. PICK g : G = {g}
    BY <1>1, <2>1, FS_Singleton, Zenon
  <2> QED
    BY <1>1, <2>2
       DEF LockInv, OneOwner, Owners, LockedIffOwned, NoLostHandoff, OwnersAre
<1> QED
  BY <1>2, <1>3, Zenon

\* lock() returns, or ~Awaiter runs: the owner stays the same task.
LEMMA EndSteps ==
  ASSUME IndInv, NEW t \in Tasks, AwaitResume(t) \/ Abandon(t)
  PROVE  LockInv'
<1> USE DEF IndInv, TypeOK, ProtocolTypeOK
<1>1. WaiterState(t)
  BY Zenon DEF WaiterStates
<1>2. Live' \subseteq Live
  BY LiveShrinks, Zenon DEF AwaitResume, Abandon
<1>3. UNCHANGED locked /\ held' \in SUBSET Tasks /\ lostBy' \in SUBSET Tasks
  BY Zenon DEF AwaitResume, Abandon
<1>4. Owners' = Owners /\ OwnersAre'
  <2>1. CASE ResumeGranted(t) /\ held' = held \union {t} /\ UNCHANGED lostBy
    BY <1>1, <2>1 DEF ResumeGranted, DropWaiter, Owners, OwnersAre, InFlight, Goto
  <2>2. CASE ResumeDenied(t) /\ UNCHANGED <<held, lostBy>>
    BY <1>1, <2>2, SMTT(30) DEF ResumeDenied, DropWaiter, Owners, OwnersAre, InFlight, Goto
  <2>3. CASE /\ ResumeWithoutWaiter(t)
             /\ held' = (IF ~signal[t] THEN held \union {t} ELSE held)
             /\ lostBy' = (IF pc[t] = "took" /\ signal[t] THEN lostBy \union {t} ELSE lostBy)
    BY <1>1, <2>3 DEF ResumeWithoutWaiter, Owners, OwnersAre, InFlight, Goto, waiterVars, WaiterState,
       ForeignSignals
  <2>4. CASE Abandon(t)
    BY <1>1, <2>4 DEF Abandon, Destroy, Owners, OwnersAre, InFlight, Goto
  <2> QED
    BY <2>1, <2>2, <2>3, <2>4, Zenon DEF AwaitResume
<1> QED
  BY <1>2, <1>3, <1>4, Zenon DEF LockInv, OneOwner, Owners, LockedIffOwned, NoLostHandoff

------------------------------------------------------------------------------
(***************************************************************************)
(* The theorems                                                            *)
(***************************************************************************)

\* Every step preserves the invariant.
LEMMA NextInv ==
  ASSUME IndInv, [Next]_vars
  PROVE  IndInv'
<1>1. CASE Next
  <2>1. LockInv'
    BY <1>1, QuietSteps, TakeSteps, UnlockStep, EndSteps, Zenon DEF Next, Step
  <2>2. ProtocolTypeOK' /\ WaiterStates' /\ ForeignSignals'
    BY <1>1, NextIsProtocol, ProtocolType, ProtocolStates, ProtocolSignals, SMTT(30) DEF IndInv, TypeOK
  <2> QED
    BY <2>1, <2>2, Zenon DEF IndInv, TypeOK, LockInv
<1>2. CASE UNCHANGED vars
  BY <1>2 DEF vars, protocolVars, waiterVars, execVars, queueVars, mutexVars, IndInv, TypeOK,
     ProtocolTypeOK, WaiterStates, WaiterState, Private, Waiting, Granted, Resuming,
     ForeignSignals, OneOwner, Owners, InFlight, LockedIffOwned, NoLostHandoff, Live, OwnersAre
<1> QED
  BY <1>1, <1>2, Zenon

\* The invariant holds in every reachable state of the mutex.
THEOREM Invariance == Spec => []IndInv
BY InitInv, NextInv, PTL DEF Spec

\* Two tasks never have the lock: hand-over, await_ready and enqueue_waiter
\* never give it out twice, whatever cancellations race with them.
THEOREM MutexIsExclusive == Spec => []MutualExclusion
<1>1. IndInv => MutualExclusion
  BY Zenon DEF IndInv, OneOwner, Owners, MutualExclusion
<1> QED
  BY <1>1, Invariance, PTL

\* _locked says exactly that the lock has an owner, so the unlock() of a holder
\* never throws.
THEOREM LockedMeansOwned == Spec => []LockedIffOwned
<1>1. IndInv => LockedIffOwned
  BY Zenon DEF IndInv
<1> QED
  BY <1>1, Invariance, PTL

\* No live waiter sleeps while the mutex is free.
THEOREM NoHandoffIsLost == Spec => []NoLostHandoff
<1>1. IndInv => NoLostHandoff
  BY Zenon DEF IndInv
<1> QED
  BY <1>1, Invariance, PTL

\* When tasks are cancelled on their own executor only and no frame is destroyed
\* in a wait, a mutex nobody uses is free: a cancelled lock() leaves no trace.
THEOREM CancelLeavesNoTrace ==
  ASSUME RemoteCancel = {}, Destroyable = {}
  PROVE  Spec => []FreeWhenUnused
<1>1. IndInv => FreeWhenUnused
  <2> SUFFICES ASSUME IndInv, held = {}, \A t \in Tasks : pc[t] \in {"run", "dead"}
               PROVE  ~locked
    BY SMTT(30) DEF FreeWhenUnused
  <2>1. InFlight = {}
    BY Zenon DEF InFlight, IndInv, WaiterStates, WaiterState
  <2>2. lostBy = {}
    BY Zenon DEF IndInv, OwnersAre
  <2> QED
    BY <2>1, <2>2, Zenon DEF IndInv, LockedIffOwned
<1> QED
  BY <1>1, Invariance, PTL

------------------------------------------------------------------------------
(***************************************************************************)
(* Refinement: every step of the mutex is a step of a PermitPool with one  *)
(* permit, or leaves the pool alone.                                       *)
(***************************************************************************)

\* PermitPool counts with the same operator.
LEMMA SameCardinality == \A S : Pool!Cardinality(S) = Cardinality(S)
BY Zenon DEF Cardinality, Pool!Cardinality

\* A free mutex nobody waits for is an initial pool.
LEMMA InitIsPool ==
  ASSUME Init
  PROVE  Pool!PoolInit
BY Zenon DEF Init, ProtocolInit, Pool!PoolInit, InFlight, Live, LiveAhead

\* A task in the middle of lock() is not waiting and does not have the lock.
LEMMA Outside ==
  ASSUME IndInv, NEW t \in Tasks, pc[t] \in {"try", "enqueue"}
  PROVE  t \notin Live \union InFlight
BY Zenon DEF IndInv, WaiterStates, WaiterState, Private, Live, InFlight

\* Who is about to return with the lock holds no other one, and nobody else does.
LEMMA AloneInFlight ==
  ASSUME IndInv, NEW t \in InFlight
  PROVE  held = {}
<1>1. t \notin held
  BY Zenon DEF InFlight, IndInv, OwnersAre, WaiterStates, WaiterState
<1> QED
  BY <1>1 DEF IndInv, OneOwner, Owners

\* Steps that the pool does not see; a cancellation that wins the race takes the
\* task out of the line.
LEMMA QuietIsPool ==
  ASSUME IndInv, NEW t \in Tasks,
         \/ LockStart(t) \/ EmitTerminate(t) \/ AwaitSuspend(t)
         \/ WakeNext(t) \/ Resume(t) \/ CancelOnExecutor(t)
  PROVE  [Pool!PoolNext]_(Pool!poolVars)
<1>1. InFlight' = InFlight
  BY SameInFlight, Zenon
<1>2. locked' = locked /\ held' = held
  BY Zenon DEF LockStart, EmitTerminate, AwaitSuspend, WakeNext, Resume, CancelOnExecutor, mutexVars
<1>3. CASE Live' = Live /\ LiveAhead' = LiveAhead
  BY <1>1, <1>2, <1>3, Zenon DEF Pool!poolVars
<1>4. CASE t \in Live /\ LineWithout({t})
  <2>1. Pool!Leave(t)
    BY <1>1, <1>2, <1>4, Zenon DEF Pool!Leave, Pool!StepOut, LineWithout
  <2> QED
    BY <2>1, Zenon DEF Pool!PoolNext
<1>5. CASE RunCancel(t)
  BY <1>3, <1>4, <1>5, LineLeft, Zenon DEF IndInv, TypeOK
<1>6. CASE ~RunCancel(t)
  <2>1. Live' = Live /\ LiveAhead' = LiveAhead
    BY <1>6, LineKept, Zenon DEF IndInv, TypeOK, LockStart, EmitTerminate, AwaitSuspend,
       WakeNext, Resume, CancelOnExecutor
  <2> QED
    BY <1>3, <2>1, Zenon
<1> QED
  BY <1>5, <1>6, Zenon

\* Taking a free lock sets the permit aside or, for try_lock, takes it out;
\* enqueue_waiter on a taken lock joins the line.
LEMMA TakeIsPool ==
  ASSUME IndInv, NEW t \in Tasks, AwaitReady(t) \/ TryLock(t) \/ EnqueueWaiter(t)
  PROVE  [Pool!PoolNext]_(Pool!poolVars)
<1> USE DEF IndInv, TypeOK, ProtocolTypeOK
<1>1. WaiterState(t)
  BY Zenon DEF WaiterStates
<1>2. CASE /\ ~locked /\ locked' /\ held' = held
           /\ t \notin Live \union InFlight
           /\ InFlight' = InFlight \union {t}
           /\ Live' = Live /\ LiveAhead' = LiveAhead
  <2>1. Pool!Reserve(t)
    BY <1>2 DEF Pool!Reserve
  <2> QED
    BY <2>1, Zenon DEF Pool!PoolNext
<1>3. CASE AwaitReady(t)
  <2>1. TryInAwaitReady(t, TRUE) \/ TryInAwaitReady(t, FALSE)
    BY <1>3, Zenon DEF AwaitReady, TryInAwaitReady
  <2>2. Live' = Live /\ LiveAhead' = LiveAhead
    BY <2>1, LineKept, Zenon
  <2>3. InFlight' = IF locked THEN InFlight ELSE InFlight \union {t}
    BY <1>1, <1>3 DEF AwaitReady, TryInAwaitReady, InFlight, Goto, waiterVars, WaiterState
  <2>4. t \notin Live \union InFlight
    BY <1>3, Outside, Zenon DEF AwaitReady, TryInAwaitReady
  <2>5. locked' = TRUE /\ held' = held
    BY <1>3, Zenon DEF AwaitReady
  <2>6. CASE locked
    BY <2>2, <2>3, <2>5, <2>6, Zenon DEF Pool!poolVars
  <2> QED
    BY <1>2, <2>2, <2>3, <2>4, <2>5, <2>6, Zenon
<1>4. CASE TryLock(t)
  <2>1. Live' = Live /\ LiveAhead' = LiveAhead
    BY <1>4, LineKept, Zenon DEF TryLock
  <2>2. InFlight' = InFlight
    BY <1>4, Zenon DEF TryLock, TryDirect, InFlight, waiterVars
  <2>3. CASE locked
    BY <1>4, <2>1, <2>2, <2>3, Zenon DEF TryLock, Pool!poolVars
  <2>4. CASE ~locked
    <3>1. held = {}
      BY <2>4, Zenon DEF LockedIffOwned
    <3>2. locked' /\ held' = {t}
      BY <1>4, <2>4, <3>1, Zenon DEF TryLock
    <3>3. Pool!TakeNow
      BY <2>1, <2>2, <2>4, <3>1, <3>2 DEF Pool!TakeNow
    <3> QED
      BY <3>3, Zenon DEF Pool!PoolNext
  <2> QED
    BY <2>3, <2>4, Zenon
<1>5. CASE EnqueueWaiter(t)
  <2>1. pc[t] = "enqueue" /\ ~done[t] /\ ~granted[t]
    BY <1>1, <1>5, Zenon DEF EnqueueWaiter, EnqueueOrReturn, GrantInPlace, WaiterState
  <2>2. t \notin Live \union InFlight /\ held' = held
    BY <1>5, <2>1, Outside, Zenon DEF EnqueueWaiter
  <2>3. CASE ~locked
    <3>1. GrantInPlace(t) /\ locked'
      BY <1>5, <2>1, <2>3, Zenon DEF EnqueueWaiter
    <3>2. Live' = Live /\ LiveAhead' = LiveAhead
      BY <3>1, LineKept, Zenon
    <3>3. InFlight' = InFlight \union {t}
      BY <2>1, <3>1, Zenon DEF GrantInPlace, InFlight, Goto
    <3> QED
      BY <1>2, <2>2, <2>3, <3>1, <3>2, <3>3, Zenon
  <2>4. CASE locked
    <3>1. EnqueueOrReturn(t) /\ locked' = locked
      BY <1>5, <2>4, Zenon DEF EnqueueWaiter
    <3>2. InFlight' = InFlight
      BY <2>1, <3>1, Zenon DEF EnqueueOrReturn, InFlight, Goto, waiterVars
    <3>3. Live' = Live \union {t} /\ LiveAhead' = [LiveAhead EXCEPT ![t] = Live]
      BY <3>1, LineJoined, Zenon
    <3>4. Pool!Join(t)
      BY <2>2, <2>4, <3>1, <3>2, <3>3, Zenon DEF Pool!Join
    <3> QED
      BY <3>4, Zenon DEF Pool!PoolNext
  <2> QED
    BY <2>3, <2>4, Zenon
<1> QED
  BY <1>3, <1>4, <1>5, Zenon

\* unlock puts the permit in: it goes to the waiter in front, if there is one.
LEMMA UnlockIsPool ==
  ASSUME IndInv, NEW t \in Tasks, Unlock(t)
  PROVE  Pool!PoolNext
<1>1. PICK G \in Fronts(IF Live = {} THEN 0 ELSE 1) :
           /\ GrantWaiters(t, G) /\ locked' = (G # {})
           /\ G \in SUBSET Live /\ IsFiniteSet(G)
           /\ t \in held /\ held' = held \ {t} /\ UNCHANGED lostBy /\ pc[t] = "run"
           /\ Owners = {t} /\ t \notin InFlight /\ t \notin lostBy
           /\ InFlight' = G
  BY UnlockHandsOver, Zenon
<1>2. locked /\ held = {t} /\ held' = {} /\ InFlight' = InFlight \union G
  BY <1>1, Zenon DEF Unlock, Owners
<1>3. LineWithout(G)
  BY <1>1, LinePopped, Zenon DEF IndInv, TypeOK
<1>4. \A g \in G : LiveAhead[g] \subseteq G
  <2>1. \A g \in G : ahead[g] \intersect Live \subseteq G
    BY <1>1, Zenon DEF Fronts
  <2> QED
    BY <1>1, <2>1, Zenon DEF LiveAhead, Live, IndInv, TypeOK, ProtocolTypeOK
<1>5. /\ G = Live \/ Cardinality(G) = 1
      /\ Cardinality(G) = IF G = {} THEN 0 ELSE 1
  <2>1. Cardinality(G) = IF Live = {} THEN 0 ELSE 1
    BY <1>1, Zenon DEF Fronts
  <2> QED
    BY <1>1, <2>1, FS_EmptySet, Zenon
<1>6. Pool!Put(1)
  <2>1. (IF locked THEN 0 ELSE 1) = 0 /\ (IF held = {} THEN 1 ELSE 0) = 0
    BY <1>2, Zenon
  <2>2. (IF held' = {} THEN 1 ELSE 0) = 1
    BY <1>2, Zenon
  <2>3. (IF locked' THEN 0 ELSE 1) = 0 + 1 - Cardinality(G) /\ Cardinality(G) <= 0 + 1
    <3>1. CASE G = {}
      <4>1. ~locked'
        BY <1>1, <3>1, Zenon
      <4> QED
        BY <1>5, <3>1, <4>1
    <3>2. CASE G # {}
      <4>1. locked' = TRUE
        BY <1>1, <3>2, Zenon
      <4> QED
        BY <1>5, <3>2, <4>1
    <3> QED
      BY <3>1, <3>2, Zenon
  <2>4. G \in SUBSET Live /\ InFlight' = InFlight \union G
    BY <1>1, <1>2, Zenon
  <2>5. G = Live \/ Cardinality(G) = 0 + 1
    BY <1>5
  <2>6. (IF held' = {} THEN 1 ELSE 0) = (IF held = {} THEN 1 ELSE 0) + 1
    BY <2>1, <2>2
  <2>7. /\ G = Live \/ Pool!Cardinality(G) = (IF locked THEN 0 ELSE 1) + 1
        /\ Pool!Cardinality(G) <= (IF locked THEN 0 ELSE 1) + 1
        /\ (IF locked' THEN 0 ELSE 1) = (IF locked THEN 0 ELSE 1) + 1 - Pool!Cardinality(G)
    BY <2>1, <2>3, <2>5, SameCardinality, Zenon
  <2>8. Pool!StepOut(G)
    BY <1>3, Zenon DEF Pool!StepOut, LineWithout
  <2>9. 1 > 0 /\ (IF locked THEN 0 ELSE 1) + 1 <= 1
    BY <2>1
  <2> QED
    BY <1>4, <2>4, <2>6, <2>7, <2>8, <2>9, Zenon DEF Pool!Put
<1> QED
  BY <1>6 DEF Pool!PoolNext

\* lock() returns with the permit, or loses it when a foreign thread cancelled
\* the task since await_ready.
LEMMA ResumeIsPool ==
  ASSUME IndInv, NEW t \in Tasks, AwaitResume(t)
  PROVE  [Pool!PoolNext]_(Pool!poolVars)
<1> USE DEF IndInv, TypeOK, ProtocolTypeOK
<1>1. Live' = Live /\ LiveAhead' = LiveAhead
  BY LineKept, Zenon DEF AwaitResume
<1>2. locked' = locked
  BY Zenon DEF AwaitResume
<1>3. WaiterState(t)
  BY Zenon DEF WaiterStates
<1>4. CASE t \in InFlight /\ InFlight' = InFlight \ {t} /\ held' = held \union {t}
  <2>1. held = {} /\ held' # {}
    BY <1>4, AloneInFlight, Zenon
  <2>2. Pool!Take(t)
    BY <1>1, <1>2, <1>4, <2>1 DEF Pool!Take
  <2> QED
    BY <2>2, Zenon DEF Pool!PoolNext
<1>5. CASE InFlight' = InFlight /\ held' = held
  BY <1>1, <1>2, <1>5, Zenon DEF Pool!poolVars
<1>6. CASE t \in InFlight /\ InFlight' = InFlight \ {t} /\ held' = held /\ t \in RemoteCancel
  <2>1. Pool!Lose(t)
    BY <1>1, <1>2, <1>6, Zenon DEF Pool!Lose
  <2> QED
    BY <2>1, Zenon DEF Pool!PoolNext
<1>7. CASE ResumeGranted(t) /\ held' = held \union {t}
  BY <1>4, <1>7, Zenon DEF ResumeGranted, DropWaiter, InFlight, Goto
<1>8. CASE ResumeDenied(t) /\ held' = held
  <2>1. InFlight' = InFlight
    BY <1>8, SMTT(30) DEF ResumeDenied, DropWaiter, InFlight, Goto
  <2> QED
    BY <1>5, <1>8, <2>1, Zenon
<1>9. CASE ResumeWithoutWaiter(t) /\ held' = (IF ~signal[t] THEN held \union {t} ELSE held)
  <2>1. CASE pc[t] = "took"
    <3>1. t \in InFlight /\ InFlight' = InFlight \ {t}
      BY <1>3, <1>9, <2>1, SMTT(30) DEF ResumeWithoutWaiter, InFlight, Goto, waiterVars, WaiterState
    <3>2. signal[t] => t \in RemoteCancel
      BY <2>1, Zenon DEF ForeignSignals
    <3> QED
      BY <1>4, <1>6, <1>9, <3>1, <3>2, Zenon
  <2>2. CASE pc[t] = "stopped"
    <3>1. signal[t] /\ ~granted[t]
      BY <1>3, <2>2, Zenon DEF WaiterState
    <3>2. InFlight' = InFlight
      BY <1>9, <2>2, <3>1, Zenon DEF ResumeWithoutWaiter, InFlight, Goto, waiterVars
    <3> QED
      BY <1>5, <1>9, <3>1, <3>2, Zenon
  <2> QED
    BY <1>9, <2>1, <2>2, Zenon DEF ResumeWithoutWaiter
<1> QED
  BY <1>7, <1>8, <1>9, Zenon DEF AwaitResume

\* ~Awaiter leaves the line, or loses a lock that was handed over.
LEMMA AbandonIsPool ==
  ASSUME IndInv, NEW t \in Tasks, Abandon(t)
  PROVE  [Pool!PoolNext]_(Pool!poolVars)
<1> USE DEF IndInv, TypeOK, ProtocolTypeOK
<1>1. locked' = locked /\ held' = held /\ Destroy(t) /\ t \in Destroyable /\ pc[t] = "suspended"
  BY Zenon DEF Abandon, Destroy
<1>2. IF t \in Live THEN LineWithout({t}) ELSE Live' = Live /\ LiveAhead' = LiveAhead
  BY <1>1, LineLeft, Zenon
<1>3. CASE t \in Live
  <2>1. ~granted[t]
    BY <1>1, <1>3, Zenon DEF WaiterStates, WaiterState, Waiting, Granted, Resuming, Live
  <2>2. InFlight' = InFlight
    BY <1>1, <2>1, Zenon DEF Destroy, InFlight, Goto
  <2>3. Pool!Leave(t)
    BY <1>1, <1>2, <1>3, <2>2, Zenon DEF Pool!Leave, Pool!StepOut, LineWithout
  <2> QED
    BY <2>3, Zenon DEF Pool!PoolNext
<1>4. CASE t \notin Live /\ granted[t]
  <2>1. t \in InFlight /\ InFlight' = InFlight \ {t}
    BY <1>1, <1>4, Zenon DEF Destroy, InFlight, Goto
  <2>2. Pool!Lose(t)
    BY <1>1, <1>2, <1>4, <2>1, Zenon DEF Pool!Lose
  <2> QED
    BY <2>2, Zenon DEF Pool!PoolNext
<1>5. CASE t \notin Live /\ ~granted[t]
  <2>1. InFlight' = InFlight
    BY <1>1, <1>5, Zenon DEF Destroy, InFlight, Goto
  <2> QED
    BY <1>1, <1>2, <1>5, <2>1, Zenon DEF Pool!poolVars
<1> QED
  BY <1>3, <1>4, <1>5, Zenon

\* The mutex implements a PermitPool with one permit, for every set of tasks:
\* lock() takes the permit or leaves the pool as it was, unlock() serves the
\* line in order, and the lock is lost only by a task that a foreign thread
\* cancels or whose frame is destroyed.
THEOREM MutexIsPool == Spec => ImplementsPermitPool
<1>1. Init => Pool!PoolInit
  BY InitIsPool, Zenon
<1>2. ASSUME IndInv, [Next]_vars
      PROVE  [Pool!PoolNext]_(Pool!poolVars)
  <2>1. CASE Next
    BY <1>2, <2>1, QuietIsPool, TakeIsPool, UnlockIsPool, ResumeIsPool, AbandonIsPool, Zenon
       DEF Next, Step
  <2>2. CASE UNCHANGED vars
    BY <2>2, Zenon DEF vars, protocolVars, waiterVars, execVars, queueVars, mutexVars, Pool!poolVars,
       Live, LiveAhead, InFlight
  <2> QED
    BY <1>2, <2>1, <2>2, Zenon
<1> QED
  BY <1>1, <1>2, Invariance, PTL DEF Spec, ImplementsPermitPool, Pool!PoolSpec

==============================================================================
