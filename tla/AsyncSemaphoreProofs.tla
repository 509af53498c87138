------------------------- MODULE AsyncSemaphoreProofs -------------------------
(***************************************************************************)
(* Safety of AsyncSemaphore for every set of tasks, every initial count    *)
(* and every size limit.                                                   *)
(***************************************************************************)
EXTENDS AsyncSemaphore, AwaitProtocolProofs, FiniteSetTheorems

\* A task that lost a permit has ended, so it loses at most one.
LostAreDead == \A t \in lostBy : pc[t] = "dead"

\* The inductive invariant.
IndInv ==
  /\ TypeOK
  /\ WaiterStates
  /\ ForeignSignals
  /\ PermitConservation
  /\ NoLostWakeup
  /\ LossNeedsForeignThread
  /\ LostAreDead

------------------------------------------------------------------------------
(***************************************************************************)
(* Cardinalities of sets of tasks                                          *)
(***************************************************************************)

\* Sets of tasks are finite.
LEMMA CardTasks ==
  ASSUME NEW S \in SUBSET Tasks
  PROVE  IsFiniteSet(S) /\ Cardinality(S) \in Nat
BY TasksAssumption, FS_Subset, FS_CardinalityType, Zenon

\* One more task.
LEMMA CardAdd ==
  ASSUME NEW S \in SUBSET Tasks, NEW t \in Tasks, t \notin S
  PROVE  Cardinality(S \union {t}) = Cardinality(S) + 1
BY CardTasks, FS_AddElement, Zenon

\* One task less.
LEMMA CardRemove ==
  ASSUME NEW S \in SUBSET Tasks, NEW t \in S
  PROVE  Cardinality(S \ {t}) = Cardinality(S) - 1
BY CardTasks, FS_RemoveElement, Zenon

\* Two sets without a common task.
LEMMA CardUnion ==
  ASSUME NEW S \in SUBSET Tasks, NEW T \in SUBSET Tasks, S \intersect T = {}
  PROVE  Cardinality(S \union T) = Cardinality(S) + Cardinality(T)
<1>1. IsFiniteSet(S) /\ Cardinality(S) \in Nat /\ IsFiniteSet(T) /\ Cardinality(T) \in Nat
  BY CardTasks, Zenon
<1>2. Cardinality(S \union T) = Cardinality(S) + Cardinality(T) - Cardinality({})
  BY <1>1, FS_Union, Zenon
<1> QED
  BY <1>1, <1>2, FS_EmptySet

------------------------------------------------------------------------------
(***************************************************************************)
(* The semaphore takes steps of the protocol                               *)
(***************************************************************************)

\* Every action of the semaphore contains one step of the protocol.
LEMMA NextIsProtocol ==
  ASSUME TypeOK, Next
  PROVE  ProtocolNext
<1>1. PICK t \in Tasks :
        \/ AcquireStart(t)
        \/ TryAcquire(t)
        \/ \E n \in 1..MaxRelease : Release(t, n)
        \/ EmitTerminate(t)
        \/ Abandon(t)
        \/ Step(t)
  BY Zenon DEF Next
<1>2. CASE AcquireStart(t)
  BY <1>2, Zenon DEF AcquireStart, ProtocolNext
<1>3. CASE TryAcquire(t)
  BY <1>3, Zenon DEF TryAcquire, ProtocolNext
<1>4. CASE \E n \in 1..MaxRelease : Release(t, n)
  BY <1>4, Zenon DEF Release, Fronts, ProtocolNext
<1>5. CASE EmitTerminate(t)
  BY <1>5, Zenon DEF EmitTerminate, ProtocolNext
<1>6. CASE Abandon(t)
  BY <1>6, Zenon DEF Abandon, ProtocolNext
<1>7. CASE Step(t)
  <2>1. CASE AwaitReady(t)
    <3>1. (permits > 0) \in BOOLEAN
      BY DEF TypeOK
    <3>2. TryInAwaitReady(t, TRUE) \/ TryInAwaitReady(t, FALSE)
      BY <2>1, <3>1, Zenon DEF AwaitReady, TryInAwaitReady
    <3> QED
      BY <3>2, Zenon DEF ProtocolNext
  <2>2. CASE AwaitSuspend(t)
    BY <2>2, Zenon DEF AwaitSuspend, ProtocolNext
  <2>3. CASE EnqueueWaiter(t)
    BY <2>3, Zenon DEF EnqueueWaiter, ProtocolNext
  <2>4. CASE WakeOne(t)
    BY <2>4, Zenon DEF WakeOne, ProtocolNext
  <2>5. CASE Resume(t)
    BY <2>5, Zenon DEF Resume, ProtocolNext
  <2>6. CASE AwaitResume(t)
    BY <2>6, Zenon DEF AwaitResume, ProtocolNext
  <2>7. CASE CancelOnExecutor(t)
    BY <2>7, Zenon DEF CancelOnExecutor, ProtocolNext
  <2> QED
    BY <1>7, <2>1, <2>2, <2>3, <2>4, <2>5, <2>6, <2>7, Zenon DEF Step
<1> QED
  BY <1>1, <1>2, <1>3, <1>4, <1>5, <1>6, <1>7, Zenon

\* The invariant holds initially.
LEMMA InitInv ==
  ASSUME Init
  PROVE  IndInv
<1>1. ProtocolTypeOK /\ WaiterStates /\ ForeignSignals
  BY ProtocolInitInv, Zenon DEF Init
<1>2. InFlight = {} /\ Live = {}
  BY Zenon DEF Init, ProtocolInit, InFlight, Live
<1>3. Cardinality({}) = 0
  BY FS_EmptySet, Zenon
<1> QED
  BY <1>1, <1>2, <1>3, SemaphoreAssumption
     DEF Init, IndInv, TypeOK, PermitConservation, NoLostWakeup,
         LossNeedsForeignThread, LostAreDead
------------------------------------------------------------------------------
(***************************************************************************)
(* Permits                                                                 *)
(***************************************************************************)

\* What the actions do to the tasks that have a permit set aside.
LEMMA SameInFlight ==
  ASSUME IndInv, NEW t \in Tasks,
         \/ AcquireStart(t) \/ TryAcquire(t) \/ EmitTerminate(t) \/ AwaitSuspend(t)
         \/ WakeOne(t) \/ Resume(t) \/ CancelOnExecutor(t)
  PROVE  InFlight' = InFlight
<1> USE DEF IndInv, TypeOK, ProtocolTypeOK, WaiterStates, InFlight, Goto
<1>1. WaiterState(t)
  BY Zenon
<1>2. CASE AcquireStart(t)
  BY <1>1, <1>2, Zenon DEF AcquireStart, CheckSignal, waiterVars, WaiterState
<1>3. CASE TryAcquire(t)
  BY <1>1, <1>3, Zenon DEF TryAcquire, TryDirect, waiterVars
<1>4. CASE EmitTerminate(t)
  BY <1>1, <1>4, SMTT(30) DEF EmitTerminate, Emit, waiterVars
<1>5. CASE AwaitSuspend(t)
  BY <1>1, <1>5, SMTT(30) DEF AwaitSuspend, InstallHandler, WaiterState
<1>6. CASE WakeOne(t)
  BY <1>1, <1>6, SMTT(30) DEF WakeOne, Wake, WaiterState
<1>7. CASE Resume(t)
  BY <1>1, <1>7, SMTT(30) DEF Resume, RunResume, waiterVars, WaiterState
<1>8. CASE CancelOnExecutor(t)
  <2>1. CASE RunCancel(t)
    BY <1>1, <2>1 DEF RunCancel, WaiterState
  <2>2. CASE FinishCancel(t)
    BY <2>2, Zenon DEF FinishCancel, waiterVars
  <2> QED
    BY <1>8, <2>1, <2>2, Zenon DEF CancelOnExecutor
<1> QED
  BY <1>2, <1>3, <1>4, <1>5, <1>6, <1>7, <1>8, SMTT(30)

\* Sets of waiters and their sizes, in the current state.
LEMMA Sizes ==
  ASSUME IndInv
  PROVE  /\ InFlight \in SUBSET Tasks /\ Cardinality(InFlight) \in Nat
         /\ Live \in SUBSET Tasks /\ Cardinality(Live) \in Nat
         /\ lostBy \in SUBSET Tasks /\ Cardinality(lostBy) \in Nat
         /\ permits \in Nat /\ owed \in Nat
         /\ InFlight \intersect Live = {}
         /\ owed = permits + Cardinality(InFlight) + Cardinality(lostBy)
<1>1. InFlight \in SUBSET Tasks /\ Live \in SUBSET Tasks /\ lostBy \in SUBSET Tasks
  BY Zenon DEF IndInv, TypeOK, ProtocolTypeOK, InFlight, Live
<1>2. InFlight \intersect Live = {}
  <2> SUFFICES ASSUME NEW t \in Live, t \in InFlight
               PROVE  FALSE
    BY Zenon
  <2>1. WaiterState(t) /\ pc[t] \in PC
    BY <1>1, Zenon DEF IndInv, WaiterStates, TypeOK, ProtocolTypeOK
  <2> QED
    BY <2>1, <1>1, Zenon DEF Live, InFlight, WaiterState, Private, Waiting, Granted, Resuming, PC
<1> QED
  BY <1>1, <1>2, CardTasks, SemaphoreAssumption DEF IndInv, TypeOK, PermitConservation

\* The part of the invariant that is about permits.
PermitInv ==
  /\ permits \in 0..SizeMax
  /\ owed \in Nat
  /\ lostBy \in SUBSET Tasks
  /\ PermitConservation
  /\ NoLostWakeup
  /\ LossNeedsForeignThread

\* Steps that leave the permits alone.
LEMMA QuietSteps ==
  ASSUME IndInv, NEW t \in Tasks,
         \/ AcquireStart(t) \/ EmitTerminate(t) \/ AwaitSuspend(t)
         \/ WakeOne(t) \/ Resume(t) \/ CancelOnExecutor(t)
  PROVE  PermitInv'
<1>1. InFlight' = InFlight
  BY SameInFlight, Zenon
<1>2. Live' \subseteq Live
  BY LiveShrinks, Zenon DEF IndInv, TypeOK, AcquireStart, EmitTerminate, AwaitSuspend, WakeOne,
     Resume, CancelOnExecutor
<1>3. UNCHANGED semVars
  BY Zenon DEF AcquireStart, EmitTerminate, AwaitSuspend, WakeOne, Resume, CancelOnExecutor
<1> QED
  BY <1>1, <1>2, <1>3, Zenon
     DEF IndInv, TypeOK, PermitInv, semVars, PermitConservation, NoLostWakeup,
         LossNeedsForeignThread

\* try_acquire, inside await_ready or called directly.
LEMMA TrySteps ==
  ASSUME IndInv, NEW t \in Tasks, AwaitReady(t) \/ TryAcquire(t)
  PROVE  PermitInv'
<1> USE Sizes, SemaphoreAssumption
<1>1. Live' \subseteq Live
  <2>1. (permits > 0) \in BOOLEAN
    OBVIOUS
  <2>2. TryInAwaitReady(t, TRUE) \/ TryInAwaitReady(t, FALSE) \/ TryDirect(t)
    BY <2>1, Zenon DEF AwaitReady, TryAcquire, TryInAwaitReady
  <2> QED
    BY <2>2, LiveShrinks, Zenon DEF IndInv, TypeOK
<1>2. CASE TryAcquire(t)
  <2>1. InFlight' = InFlight
    BY <1>2, SameInFlight, Zenon
  <2> QED
    BY <1>1, <1>2, <2>1
       DEF TryAcquire, IndInv, TypeOK, PermitInv, PermitConservation, NoLostWakeup,
           LossNeedsForeignThread
<1>3. CASE AwaitReady(t) /\ permits > 0
  <2>1. InFlight' = InFlight \union {t} /\ t \notin InFlight
    BY <1>3 DEF IndInv, TypeOK, ProtocolTypeOK, WaiterStates, WaiterState, InFlight,
       AwaitReady, TryInAwaitReady, Goto, waiterVars
  <2>2. Cardinality(InFlight') = Cardinality(InFlight) + 1
    BY <2>1, CardAdd, Zenon
  <2> QED
    BY <1>1, <1>3, <2>2, SMTT(30)
       DEF AwaitReady, IndInv, TypeOK, PermitInv, PermitConservation, NoLostWakeup,
           LossNeedsForeignThread
<1>4. CASE AwaitReady(t) /\ ~(permits > 0)
  <2>1. InFlight' = InFlight
    BY <1>4, Zenon DEF IndInv, TypeOK, ProtocolTypeOK, InFlight,
       AwaitReady, TryInAwaitReady, Goto, waiterVars
  <2> QED
    BY <1>1, <1>4, <2>1, Zenon
       DEF AwaitReady, IndInv, TypeOK, PermitInv, PermitConservation, NoLostWakeup,
           LossNeedsForeignThread
<1> QED
  BY <1>2, <1>3, <1>4, Zenon

\* enqueue_waiter: the second look at _permits.
LEMMA EnqueueStep ==
  ASSUME IndInv, NEW t \in Tasks, EnqueueWaiter(t)
  PROVE  PermitInv'
<1> USE Sizes, SemaphoreAssumption
<1>1. pc[t] = "enqueue" /\ ~done[t] /\ ~granted[t]
  BY Zenon DEF IndInv, WaiterStates, WaiterState, EnqueueWaiter, EnqueueOrReturn, GrantInPlace
<1>2. CASE permits > 0
  <2>1. GrantInPlace(t) /\ permits' = permits - 1 /\ UNCHANGED <<owed, lostBy>>
    BY <1>1, <1>2, SMTT(30) DEF EnqueueWaiter
  <2>2. InFlight' = InFlight \union {t} /\ t \notin InFlight
    BY <1>1, <2>1, Zenon DEF IndInv, TypeOK, ProtocolTypeOK, InFlight, GrantInPlace, Goto
  <2>3. Cardinality(InFlight') = Cardinality(InFlight) + 1
    BY <2>2, CardAdd, Zenon
  <2>4. Live' \subseteq Live
    BY <2>1, LiveShrinks, Zenon DEF IndInv, TypeOK
  <2> QED
    BY <1>2, <2>1, <2>3, <2>4, SMTT(30)
       DEF IndInv, TypeOK, PermitInv, PermitConservation, NoLostWakeup, LossNeedsForeignThread
<1>3. CASE ~(permits > 0)
  <2>1. EnqueueOrReturn(t) /\ UNCHANGED semVars
    BY <1>1, <1>3, Zenon DEF EnqueueWaiter, semVars
  <2>2. InFlight' = InFlight
    BY <1>1, <2>1, Zenon DEF IndInv, TypeOK, ProtocolTypeOK, InFlight, EnqueueOrReturn, Goto, waiterVars
  <2> QED
    BY <1>3, <2>1, <2>2, Zenon
       DEF semVars, IndInv, TypeOK, PermitInv, PermitConservation, NoLostWakeup,
           LossNeedsForeignThread
<1> QED
  BY <1>2, <1>3, SMTT(30)

\* release: the waiters in front get one permit each, the rest stays.
LEMMA ReleaseStep ==
  ASSUME IndInv, NEW t \in Tasks, NEW n \in 1..MaxRelease, Release(t, n)
  PROVE  PermitInv'
<1> USE Sizes, SemaphoreAssumption
<1> DEFINE k == IF Cardinality(Live) <= permits + n THEN Cardinality(Live) ELSE permits + n
<1>0. n \in Nat
  BY SemaphoreAssumption
<1>1. PICK G \in Fronts(k) :
        permits' = permits + n - Cardinality(G) /\ GrantWaiters(t, G)
  BY Zenon DEF Release
<1>2. G \in SUBSET Live /\ Cardinality(G) = k
  BY <1>1, SMTT(30) DEF Fronts
<1>3. InFlight' = InFlight \union G
  BY <1>1, <1>2, Zenon DEF IndInv, TypeOK, ProtocolTypeOK, WaiterStates, WaiterState, Private,
     InFlight, Live, GrantWaiters, Goto
<1>4. Cardinality(InFlight') = Cardinality(InFlight) + Cardinality(G)
  BY <1>2, <1>3, CardUnion, Zenon
<1>5. Live' = Live \ G
  BY <1>1, <1>2, Zenon DEF GrantWaiters, CompactAndPop, Live, IndInv, TypeOK, ProtocolTypeOK
<1>6. permits' \in 0..SizeMax
  BY <1>0, <1>1, <1>2, SemaphoreAssumption DEF Release
<1>7. permits' > 0 => Live' = {}
  <2> SUFFICES ASSUME permits' > 0
               PROVE  Live' = {}
    BY Zenon
  <2>1. Cardinality(G) = Cardinality(Live)
    BY <1>0, <1>1, <1>2
  <2>2. G = Live
    BY <1>2, <2>1, CardTasks, FS_Subset, Zenon
  <2> QED
    BY <1>5, <2>2, Zenon
<1>8. owed' = owed + n /\ lostBy' = lostBy
  BY Zenon DEF Release
<1> HIDE DEF k
<1> QED
  BY <1>0, <1>1, <1>4, <1>6, <1>7, <1>8, CardTasks, <1>2, SMTT(30)
     DEF IndInv, TypeOK, PermitInv, PermitConservation, NoLostWakeup, LossNeedsForeignThread

\* await_resume: a permit set aside is consumed, or dropped by a cancelled task.
LEMMA ResumeStep ==
  ASSUME IndInv, NEW t \in Tasks, AwaitResume(t)
  PROVE  PermitInv'
<1> USE Sizes, SemaphoreAssumption
<1>1. Live' \subseteq Live
  BY LiveShrinks, Zenon DEF AwaitResume, IndInv, TypeOK
<1>2. permits' = permits
  BY Zenon DEF AwaitResume
<1>3. WaiterState(t)
  BY Zenon DEF IndInv, WaiterStates
<1>4. CASE ResumeGranted(t) /\ owed' = owed - 1 /\ UNCHANGED lostBy
  <2>1. t \in InFlight /\ InFlight' = InFlight \ {t}
    BY <1>4, Zenon DEF ResumeGranted, DropWaiter, InFlight, Goto, IndInv, TypeOK, ProtocolTypeOK
  <2>2. Cardinality(InFlight') = Cardinality(InFlight) - 1
    BY <2>1, CardRemove, Zenon
  <2>3. Cardinality(InFlight') \in Nat
    BY <2>1, CardTasks, Zenon
  <2> QED
    BY <1>1, <1>2, <1>4, <2>2, <2>3
       DEF IndInv, TypeOK, PermitInv, PermitConservation, NoLostWakeup, LossNeedsForeignThread
<1>5. CASE ResumeDenied(t) /\ UNCHANGED <<owed, lostBy>>
  <2>1. InFlight' = InFlight
    BY <1>5, SMTT(30) DEF ResumeDenied, DropWaiter, InFlight, Goto, IndInv, TypeOK, ProtocolTypeOK
  <2> QED
    BY <1>1, <1>2, <1>5, <2>1, Zenon
       DEF IndInv, TypeOK, PermitInv, PermitConservation, NoLostWakeup, LossNeedsForeignThread
<1>6. CASE /\ ResumeWithoutWaiter(t)
           /\ owed' = (IF ~signal[t] THEN owed - 1 ELSE owed)
           /\ lostBy' = (IF pc[t] = "took" /\ signal[t] THEN lostBy \union {t} ELSE lostBy)
  <2>1. CASE pc[t] = "took"
    <3>1. t \in InFlight /\ InFlight' = InFlight \ {t}
      BY <1>3, <1>6, <2>1, SMTT(30) DEF ResumeWithoutWaiter, InFlight, Goto, IndInv, TypeOK,
         ProtocolTypeOK, waiterVars, WaiterState
    <3>2. Cardinality(InFlight') = Cardinality(InFlight) - 1
      BY <3>1, CardRemove, Zenon
    <3>3. Cardinality(InFlight') \in Nat
      BY <3>1, CardTasks, Zenon
    <3>4. CASE signal[t]
      <4>1. t \in RemoteCancel
        BY <2>1, <3>4, Zenon DEF IndInv, ForeignSignals
      <4>2. t \notin lostBy
        BY <2>1, Zenon DEF IndInv, LostAreDead
      <4>3. Cardinality(lostBy') = Cardinality(lostBy) + 1
        BY <1>6, <2>1, <3>4, <4>2, CardAdd, Zenon
      <4> QED
        BY <1>1, <1>2, <1>6, <2>1, <3>2, <3>3, <3>4, <4>1, <4>3, SMTT(30)
           DEF IndInv, TypeOK, PermitInv, PermitConservation, NoLostWakeup, LossNeedsForeignThread
    <3>5. CASE ~signal[t]
      BY <1>1, <1>2, <1>6, <2>1, <3>2, <3>3, <3>5, SMTT(30)
         DEF IndInv, TypeOK, PermitInv, PermitConservation, NoLostWakeup, LossNeedsForeignThread
    <3> QED
      BY <3>4, <3>5, SMTT(30)
  <2>2. CASE pc[t] = "stopped"
    <3>1. signal[t] /\ ~granted[t]
      BY <1>3, <2>2, Zenon DEF WaiterState
    <3>2. InFlight' = InFlight
      BY <1>6, <2>2, <3>1, Zenon DEF ResumeWithoutWaiter, InFlight, Goto, IndInv, TypeOK,
         ProtocolTypeOK, waiterVars
    <3> QED
      BY <1>1, <1>2, <1>6, <2>2, <3>1, <3>2, SMTT(30)
         DEF IndInv, TypeOK, PermitInv, PermitConservation, NoLostWakeup, LossNeedsForeignThread
  <2> QED
    BY <1>6, <2>1, <2>2, Zenon DEF ResumeWithoutWaiter
<1> QED
  BY <1>4, <1>5, <1>6, SMTT(30) DEF AwaitResume

\* ~Awaiter of a suspended wait: a grant that was not consumed is lost.
LEMMA AbandonStep ==
  ASSUME IndInv, NEW t \in Tasks, Abandon(t)
  PROVE  PermitInv'
<1> USE Sizes, SemaphoreAssumption
<1>1. Live' \subseteq Live
  BY LiveShrinks, Zenon DEF Abandon, IndInv, TypeOK
<1>2. permits' = permits /\ owed' = owed /\ t \in Destroyable /\ pc[t] = "suspended"
  BY Zenon DEF Abandon, Destroy
<1>3. CASE granted[t]
  <2>1. t \in InFlight /\ InFlight' = InFlight \ {t}
    BY <1>2, <1>3, Zenon DEF Abandon, Destroy, InFlight, Goto, IndInv, TypeOK, ProtocolTypeOK
  <2>2. Cardinality(InFlight') = Cardinality(InFlight) - 1
    BY <2>1, CardRemove, Zenon
  <2>3. t \notin lostBy
    BY <1>2, Zenon DEF IndInv, LostAreDead
  <2>4. lostBy' = lostBy \union {t} /\ Cardinality(lostBy') = Cardinality(lostBy) + 1
    BY <1>3, <2>3, CardAdd, Zenon DEF Abandon
  <2> QED
    BY <1>1, <1>2, <2>2, <2>4
       DEF IndInv, TypeOK, PermitInv, PermitConservation, NoLostWakeup, LossNeedsForeignThread
<1>4. CASE ~granted[t]
  <2>1. InFlight' = InFlight
    BY <1>2, <1>4, Zenon DEF Abandon, Destroy, InFlight, Goto, IndInv, TypeOK, ProtocolTypeOK
  <2> QED
    BY <1>1, <1>2, <1>4, <2>1, SMTT(30)
       DEF Abandon, IndInv, TypeOK, PermitInv, PermitConservation, NoLostWakeup,
           LossNeedsForeignThread
<1> QED
  BY <1>3, <1>4, Zenon

\* Whoever loses a permit ends with that step.
LEMMA LosersEnd ==
  ASSUME IndInv, Next
  PROVE  LostAreDead'
<1> SUFFICES ASSUME NEW u \in Tasks, u \in lostBy'
             PROVE  pc'[u] = "dead"
  <2>1. lostBy' \subseteq Tasks
    BY Zenon DEF IndInv, TypeOK, Next, Step, AcquireStart, TryAcquire, Release, EmitTerminate,
       Abandon, AwaitReady, AwaitSuspend, EnqueueWaiter, WakeOne, Resume, AwaitResume,
       CancelOnExecutor, semVars
  <2> QED
    BY <2>1, SMTT(30) DEF LostAreDead
<1>1. CASE u \in lostBy
  BY <1>1, NextIsProtocol, DeadStays, Zenon DEF IndInv, TypeOK, LostAreDead
<1>2. CASE u \notin lostBy
  <2>1. (AwaitResume(u) /\ pc[u] = "took" /\ signal[u]) \/ Abandon(u)
    BY <1>2, Zenon DEF IndInv, TypeOK, Next, Step, AcquireStart, TryAcquire, Release, EmitTerminate,
       Abandon, AwaitReady, AwaitSuspend, EnqueueWaiter, WakeOne, Resume, AwaitResume,
       CancelOnExecutor, semVars
  <2> QED
    BY <2>1, SMTT(30) DEF AwaitResume, ResumeGranted, ResumeDenied, ResumeWithoutWaiter, Abandon,
       Destroy, Goto, IndInv, TypeOK, ProtocolTypeOK
<1> QED
  BY <1>1, <1>2, Zenon

------------------------------------------------------------------------------
(***************************************************************************)
(* The theorems                                                            *)
(***************************************************************************)

\* Every step preserves the invariant.
LEMMA NextInv ==
  ASSUME IndInv, [Next]_vars
  PROVE  IndInv'
<1>1. CASE Next
  <2>1. PermitInv'
    BY <1>1, QuietSteps, TrySteps, EnqueueStep, ReleaseStep, ResumeStep, AbandonStep, Zenon
       DEF Next, Step
  <2>2. ProtocolTypeOK' /\ WaiterStates' /\ ForeignSignals'
    BY <1>1, NextIsProtocol, ProtocolType, ProtocolStates, ProtocolSignals, Zenon DEF IndInv, TypeOK
  <2>3. LostAreDead'
    BY <1>1, LosersEnd, SMTT(30)
  <2> QED
    BY <2>1, <2>2, <2>3, Zenon DEF IndInv, TypeOK, PermitInv
<1>2. CASE UNCHANGED vars
  <2> USE <1>2 DEF vars, protocolVars, waiterVars, execVars, queueVars, semVars
  <2>1. TypeOK'
    BY Zenon DEF IndInv, TypeOK, ProtocolTypeOK
  <2>2. WaiterStates' /\ ForeignSignals'
    <3>1. \A t \in Tasks : WaiterState(t)' <=> WaiterState(t)
      BY SMTT(30) DEF WaiterState, Private, Waiting, Granted, Resuming
    <3>2. ForeignSignals'
      BY Zenon DEF IndInv, ForeignSignals
    <3> QED
      BY <3>1, <3>2, Zenon DEF IndInv, WaiterStates
  <2>3. InFlight' = InFlight /\ Live' = Live
    BY Zenon DEF InFlight, Live
  <2>4. PermitConservation' /\ NoLostWakeup' /\ LossNeedsForeignThread' /\ LostAreDead'
    BY <2>3, Zenon DEF IndInv, PermitConservation, NoLostWakeup, LossNeedsForeignThread, LostAreDead
  <2> QED
    BY <2>1, <2>2, <2>4, Zenon DEF IndInv
<1> QED
  BY <1>1, <1>2, Zenon

\* The invariant holds in every reachable state of the semaphore, however many
\* tasks acquire, release, are cancelled and are destroyed.
THEOREM Invariance == Spec => []IndInv
BY InitInv, NextInv, PTL DEF Spec

\* _permits stays within size_t: neither try_acquire nor enqueue_waiter takes
\* it below zero, and release() never takes it above the maximum.
THEOREM TypeCorrect == Spec => []TypeOK
<1>1. IndInv => TypeOK
  BY Zenon DEF IndInv
<1> QED
  BY <1>1, Invariance, PTL

\* Every permit that was put in and not consumed is available, on its way to a
\* returning acquire(), or was dropped by a task of lostBy.
THEOREM Conservation == Spec => []PermitConservation
<1>1. IndInv => PermitConservation
  BY Zenon DEF IndInv
<1> QED
  BY <1>1, Invariance, PTL

\* No live waiter sleeps while a permit is available.
THEOREM NoWakeupIsLost == Spec => []NoLostWakeup
<1>1. IndInv => NoLostWakeup
  BY SMTT(30) DEF IndInv
<1> QED
  BY <1>1, Invariance, PTL

\* release() and the cancellation together resume a coroutine at most once, and
\* only while it is suspended in the wait they decided, unless its frame was
\* destroyed after that.
THEOREM AtMostOneResume == Spec => []ResumedOnce
<1>1. IndInv => ResumedOnce
  <2> SUFFICES ASSUME IndInv, NEW t \in Tasks
               PROVE  /\ resumes[t] <= 1
                      /\ resumes[t] = 1 =>
                           /\ done[t] /\ t \notin queued
                           /\ pc[t] = "suspended" \/ (pc[t] = "dead" /\ t \in Destroyable)
    BY Zenon DEF ResumedOnce
  <2>1. WaiterState(t) /\ pc[t] \in PC
    BY Zenon DEF IndInv, WaiterStates, TypeOK, ProtocolTypeOK
  <2>2. CASE pc[t] = "suspended"
    <3>1. Waiting(t) \/ Granted(t) \/ Resuming(t)
      BY <2>1, <2>2, Zenon DEF WaiterState
    <3> QED
      BY <2>2, <3>1 DEF Waiting, Granted, Resuming
  <2>3. CASE pc[t] = "dead"
    BY <2>1, <2>3, Zenon DEF WaiterState
  <2>4. CASE pc[t] \notin {"suspended", "dead"}
    <3>1. resumes[t] = 0
      BY <2>1, <2>4, Zenon DEF WaiterState, Private, PC
    <3> QED
      BY <3>1, SMTT(30)
  <2> QED
    BY <2>2, <2>3, <2>4, Zenon
<1> QED
  BY <1>1, Invariance, PTL

\* Without a foreign cancelling thread and without destroyed frames no acquire()
\* that fails keeps a permit.
THEOREM LossIsForeign == Spec => []LossNeedsForeignThread
<1>1. IndInv => LossNeedsForeignThread
  BY SMTT(30) DEF IndInv
<1> QED
  BY <1>1, Invariance, PTL

\* acquire() ends with a permit or with SignalException, never with
\* "acquire failed".
THEOREM FailureIsCancellation == Spec => []NoSpuriousFailure
<1>1. IndInv => NoSpuriousFailure
  BY Zenon DEF IndInv, WaiterStates, WaiterState, NoSpuriousFailure
<1> QED
  BY <1>1, Invariance, PTL

------------------------------------------------------------------------------
(***************************************************************************)
(* Refinement: every step of the semaphore is a step of PermitPool, or     *)
(* leaves the pool alone.                                                  *)
(***************************************************************************)

\* PermitPool counts with the same operator.
LEMMA SameCardinality == \A S : Pool!Cardinality(S) = Cardinality(S)
BY Zenon DEF Cardinality, Pool!Cardinality

\* An empty semaphore with its initial permits is an initial pool.
LEMMA InitIsPool ==
  ASSUME Init
  PROVE  Pool!PoolInit
BY Zenon DEF Init, ProtocolInit, Pool!PoolInit, InFlight, Live, LiveAhead

\* A task that is not waiting and has no permit set aside.
LEMMA Outside ==
  ASSUME IndInv, NEW t \in Tasks, pc[t] \in {"try", "enqueue"}
  PROVE  t \notin Live \union InFlight
BY Zenon DEF IndInv, WaiterStates, WaiterState, Private, Live, InFlight

\* Steps that the pool does not see; a cancellation that wins the race takes the
\* task out of the line.
LEMMA QuietIsPool ==
  ASSUME IndInv, NEW t \in Tasks,
         \/ AcquireStart(t) \/ EmitTerminate(t) \/ AwaitSuspend(t)
         \/ WakeOne(t) \/ Resume(t) \/ CancelOnExecutor(t)
  PROVE  [Pool!PoolNext]_(Pool!poolVars)
<1>1. InFlight' = InFlight
  BY SameInFlight, Zenon
<1>2. permits' = permits /\ owed' = owed
  BY Zenon DEF AcquireStart, EmitTerminate, AwaitSuspend, WakeOne, Resume, CancelOnExecutor, semVars
<1>3. CASE Live' = Live /\ LiveAhead' = LiveAhead
  BY <1>1, <1>2, <1>3, Zenon DEF Pool!poolVars
<1>4. CASE t \in Live /\ LineWithout({t})
  <2>1. Pool!Leave(t)
    BY <1>1, <1>2, <1>4, Zenon DEF Pool!Leave, Pool!StepOut, LineWithout
  <2> QED
    BY <2>1, Zenon DEF Pool!PoolNext
<1>5. CASE RunCancel(t)
  BY <1>3, <1>4, <1>5, LineLeft, Zenon DEF IndInv, TypeOK
<1>6. CASE ~RunCancel(t)
  <2>1. Live' = Live /\ LiveAhead' = LiveAhead
    BY <1>6, LineKept, Zenon DEF IndInv, TypeOK, AcquireStart, EmitTerminate, AwaitSuspend,
       WakeOne, Resume, CancelOnExecutor
  <2> QED
    BY <1>3, <2>1, Zenon
<1> QED
  BY <1>5, <1>6, Zenon

\* try_acquire sets a permit aside or takes it out at once; without a permit it
\* does nothing.
LEMMA TryIsPool ==
  ASSUME IndInv, NEW t \in Tasks, AwaitReady(t) \/ TryAcquire(t)
  PROVE  [Pool!PoolNext]_(Pool!poolVars)
<1> USE Sizes
<1>1. Live' = Live /\ LiveAhead' = LiveAhead
  <2>1. (permits > 0) \in BOOLEAN
    OBVIOUS
  <2>2. TryInAwaitReady(t, TRUE) \/ TryInAwaitReady(t, FALSE) \/ TryDirect(t)
    BY <2>1, Zenon DEF AwaitReady, TryAcquire, TryInAwaitReady
  <2> QED
    BY <2>2, LineKept, Zenon DEF IndInv, TypeOK
<1>2. CASE TryAcquire(t)
  <2>1. InFlight' = InFlight
    BY <1>2, SameInFlight, Zenon
  <2>2. CASE permits > 0
    <3>1. Pool!TakeNow
      BY <1>1, <1>2, <2>1, <2>2, Zenon DEF TryAcquire, Pool!TakeNow
    <3> QED
      BY <3>1, Zenon DEF Pool!PoolNext
  <2>3. CASE ~(permits > 0)
    BY <1>1, <1>2, <2>1, <2>3, Zenon DEF TryAcquire, Pool!poolVars
  <2> QED
    BY <2>2, <2>3, Zenon
<1>3. CASE AwaitReady(t) /\ permits > 0
  <2>1. pc[t] = "try"
    BY <1>3, Zenon DEF AwaitReady, TryInAwaitReady
  <2>2. InFlight' = InFlight \union {t}
    BY <1>3, Zenon DEF IndInv, TypeOK, ProtocolTypeOK, InFlight, AwaitReady, TryInAwaitReady, Goto,
       waiterVars
  <2>3. permits' = permits - 1 /\ owed' = owed
    BY <1>3, Zenon DEF AwaitReady
  <2>4. Pool!Reserve(t)
    BY <1>1, <1>3, <2>1, <2>2, <2>3, Outside, Zenon DEF Pool!Reserve
  <2> QED
    BY <2>4, Zenon DEF Pool!PoolNext
<1>4. CASE AwaitReady(t) /\ ~(permits > 0)
  <2>1. InFlight' = InFlight
    BY <1>4, Zenon DEF IndInv, TypeOK, ProtocolTypeOK, InFlight, AwaitReady, TryInAwaitReady, Goto,
       waiterVars
  <2> QED
    BY <1>1, <1>4, <2>1, Zenon DEF AwaitReady, Pool!poolVars
<1> QED
  BY <1>2, <1>3, <1>4, Zenon

\* enqueue_waiter sets a permit aside if there is one, else the task joins the
\* line.
LEMMA EnqueueIsPool ==
  ASSUME IndInv, NEW t \in Tasks, EnqueueWaiter(t)
  PROVE  Pool!PoolNext
<1> USE Sizes
<1>1. pc[t] = "enqueue" /\ ~done[t] /\ ~granted[t]
  BY Zenon DEF IndInv, WaiterStates, WaiterState, EnqueueWaiter, EnqueueOrReturn, GrantInPlace
<1>2. t \notin Live \union InFlight
  BY <1>1, Outside, Zenon
<1>3. CASE permits > 0
  <2>1. GrantInPlace(t) /\ permits' = permits - 1 /\ owed' = owed
    BY <1>1, <1>3, SMTT(30) DEF EnqueueWaiter
  <2>2. InFlight' = InFlight \union {t}
    BY <1>1, <2>1, Zenon DEF IndInv, TypeOK, ProtocolTypeOK, InFlight, GrantInPlace, Goto
  <2>3. Live' = Live /\ LiveAhead' = LiveAhead
    BY <2>1, LineKept, Zenon DEF IndInv, TypeOK
  <2>4. Pool!Reserve(t)
    BY <1>2, <1>3, <2>1, <2>2, <2>3, Zenon DEF Pool!Reserve
  <2> QED
    BY <2>4, Zenon DEF Pool!PoolNext
<1>4. CASE ~(permits > 0)
  <2>1. EnqueueOrReturn(t) /\ permits' = permits /\ owed' = owed
    BY <1>1, <1>4, Zenon DEF EnqueueWaiter
  <2>2. InFlight' = InFlight
    BY <1>1, <2>1, Zenon DEF IndInv, TypeOK, ProtocolTypeOK, InFlight, EnqueueOrReturn, Goto, waiterVars
  <2>3. Live' = Live \union {t} /\ LiveAhead' = [LiveAhead EXCEPT ![t] = Live]
    BY <2>1, LineJoined, Zenon DEF IndInv, TypeOK
  <2>4. Pool!Join(t)
    BY <1>2, <1>4, <2>1, <2>2, <2>3 DEF Pool!Join
  <2> QED
    BY <2>4, Zenon DEF Pool!PoolNext
<1> QED
  BY <1>3, <1>4, Zenon

\* release(n) puts n permits in: the front of the line is served.
LEMMA ReleaseIsPool ==
  ASSUME IndInv, NEW t \in Tasks, NEW n \in 1..MaxRelease, Release(t, n)
  PROVE  Pool!PoolNext
<1> USE Sizes, SemaphoreAssumption
<1> DEFINE k == IF Cardinality(Live) <= permits + n THEN Cardinality(Live) ELSE permits + n
<1>0. n \in Nat /\ n > 0 /\ permits + n <= SizeMax
  BY DEF Release
<1>1. PICK G \in Fronts(k) :
        permits' = permits + n - Cardinality(G) /\ GrantWaiters(t, G)
  BY Zenon DEF Release
<1>2. /\ G \in SUBSET Live
      /\ Cardinality(G) = k
      /\ \A g \in G : ahead[g] \intersect Live \subseteq G
  BY <1>1, SMTT(30) DEF Fronts
<1>3. InFlight' = InFlight \union G
  BY <1>1, <1>2, Zenon DEF IndInv, TypeOK, ProtocolTypeOK, WaiterStates, WaiterState, Private,
     InFlight, Live, GrantWaiters, Goto
<1>4. LineWithout(G)
  BY <1>1, <1>2, LinePopped, Zenon DEF IndInv, TypeOK
<1>5. \A g \in G : LiveAhead[g] \subseteq G
  BY <1>2, Zenon DEF LiveAhead
<1>6. (G = Live \/ Cardinality(G) = permits + n) /\ Cardinality(G) <= permits + n
  <2>1. CASE Cardinality(Live) <= permits + n
    <3>1. Cardinality(G) = Cardinality(Live)
      BY <1>2, <2>1, Zenon
    <3>2. G = Live
      BY <1>2, <3>1, CardTasks, FS_Subset, Zenon
    <3> QED
      BY <2>1, <3>2, Zenon
  <2>2. CASE ~(Cardinality(Live) <= permits + n)
    BY <1>0, <1>2, <2>2
  <2> QED
    BY <2>1, <2>2, Zenon
<1>7. owed' = owed + n
  BY Zenon DEF Release
<1> HIDE DEF k
<1>8. Pool!Put(n)
  BY <1>0, <1>1, <1>2, <1>3, <1>4, <1>5, <1>6, <1>7, SameCardinality, Zenon
     DEF Pool!Put, Pool!StepOut, LineWithout
<1>9. n \in 1..SizeMax
  BY <1>0
<1> QED
  BY <1>8, <1>9, Zenon DEF Pool!PoolNext

\* await_resume takes out the permit that was set aside, or loses it when a
\* foreign thread cancelled the task since await_ready.
LEMMA ResumeIsPool ==
  ASSUME IndInv, NEW t \in Tasks, AwaitResume(t)
  PROVE  [Pool!PoolNext]_(Pool!poolVars)
<1>1. Live' = Live /\ LiveAhead' = LiveAhead
  BY LineKept, Zenon DEF AwaitResume, IndInv, TypeOK
<1>2. permits' = permits
  BY Zenon DEF AwaitResume
<1>3. WaiterState(t)
  BY Zenon DEF IndInv, WaiterStates
<1>4. CASE t \in InFlight /\ InFlight' = InFlight \ {t} /\ owed' = owed - 1
  <2>1. Pool!Take(t)
    BY <1>1, <1>2, <1>4, Zenon DEF Pool!Take
  <2> QED
    BY <2>1, Zenon DEF Pool!PoolNext
<1>5. CASE InFlight' = InFlight /\ owed' = owed
  BY <1>1, <1>2, <1>5, Zenon DEF Pool!poolVars
<1>6. CASE t \in InFlight /\ InFlight' = InFlight \ {t} /\ owed' = owed /\ t \in RemoteCancel
  <2>1. Pool!Lose(t)
    BY <1>1, <1>2, <1>6, Zenon DEF Pool!Lose
  <2> QED
    BY <2>1, Zenon DEF Pool!PoolNext
<1>7. CASE ResumeGranted(t) /\ owed' = owed - 1
  BY <1>4, <1>7, Zenon DEF ResumeGranted, DropWaiter, InFlight, Goto, IndInv, TypeOK, ProtocolTypeOK
<1>8. CASE ResumeDenied(t) /\ owed' = owed
  <2>1. InFlight' = InFlight
    BY <1>8, SMTT(30) DEF ResumeDenied, DropWaiter, InFlight, Goto, IndInv, TypeOK, ProtocolTypeOK
  <2> QED
    BY <1>5, <1>8, <2>1, Zenon
<1>9. CASE ResumeWithoutWaiter(t) /\ owed' = (IF ~signal[t] THEN owed - 1 ELSE owed)
  <2>1. CASE pc[t] = "took"
    <3>1. t \in InFlight /\ InFlight' = InFlight \ {t}
      BY <1>3, <1>9, <2>1, SMTT(30) DEF ResumeWithoutWaiter, InFlight, Goto, IndInv, TypeOK,
         ProtocolTypeOK, waiterVars, WaiterState
    <3>2. signal[t] => t \in RemoteCancel
      BY <2>1, Zenon DEF IndInv, ForeignSignals
    <3> QED
      BY <1>4, <1>6, <1>9, <3>1, <3>2, Zenon
  <2>2. CASE pc[t] = "stopped"
    <3>1. signal[t] /\ ~granted[t]
      BY <1>3, <2>2, Zenon DEF WaiterState
    <3>2. InFlight' = InFlight
      BY <1>9, <2>2, <3>1, Zenon DEF ResumeWithoutWaiter, InFlight, Goto, IndInv, TypeOK,
         ProtocolTypeOK, waiterVars
    <3> QED
      BY <1>5, <1>9, <3>1, <3>2, Zenon
  <2> QED
    BY <1>9, <2>1, <2>2, Zenon DEF ResumeWithoutWaiter
<1> QED
  BY <1>7, <1>8, <1>9, Zenon DEF AwaitResume

\* ~Awaiter leaves the line, or loses a permit that was granted; a task whose
\* resumption is posted is not destroyed.
LEMMA AbandonIsPool ==
  ASSUME IndInv, NEW t \in Tasks, Abandon(t)
  PROVE  [Pool!PoolNext]_(Pool!poolVars)
<1>1. permits' = permits /\ owed' = owed /\ Destroy(t) /\ t \in Destroyable /\ pc[t] = "suspended"
  BY Zenon DEF Abandon, Destroy
<1>2. IF t \in Live THEN LineWithout({t}) ELSE Live' = Live /\ LiveAhead' = LiveAhead
  BY <1>1, LineLeft, Zenon DEF IndInv, TypeOK
<1>3. CASE t \in Live
  <2>1. ~granted[t]
    BY <1>1, <1>3, Sizes, Zenon DEF InFlight, IndInv, TypeOK, ProtocolTypeOK, Live
  <2>2. InFlight' = InFlight
    BY <1>1, <2>1, Zenon DEF Destroy, InFlight, Goto, IndInv, TypeOK, ProtocolTypeOK
  <2>3. Pool!Leave(t)
    BY <1>1, <1>2, <1>3, <2>2, Zenon DEF Pool!Leave, Pool!StepOut, LineWithout
  <2> QED
    BY <2>3, Zenon DEF Pool!PoolNext
<1>4. CASE t \notin Live /\ granted[t]
  <2>1. t \in InFlight /\ InFlight' = InFlight \ {t}
    BY <1>1, <1>4, Zenon DEF Destroy, InFlight, Goto, IndInv, TypeOK, ProtocolTypeOK
  <2>2. Pool!Lose(t)
    BY <1>1, <1>2, <1>4, <2>1, Zenon DEF Pool!Lose
  <2> QED
    BY <2>2, Zenon DEF Pool!PoolNext
<1>5. CASE t \notin Live /\ ~granted[t]
  <2>1. InFlight' = InFlight
    BY <1>1, <1>5, Zenon DEF Destroy, InFlight, Goto, IndInv, TypeOK, ProtocolTypeOK
  <2> QED
    BY <1>1, <1>2, <1>5, <2>1, Zenon DEF Pool!poolVars
<1> QED
  BY <1>3, <1>4, <1>5, Zenon

\* The semaphore implements PermitPool, for every set of tasks and every count:
\* a wait takes exactly one permit or leaves the pool as it was, waiters are
\* served in order, and a permit is lost only by a task that a foreign thread
\* cancels or whose frame is destroyed.
THEOREM SemaphoreIsPool == Spec => ImplementsPermitPool
<1>1. Init => Pool!PoolInit
  BY InitIsPool, Zenon
<1>2. ASSUME IndInv, [Next]_vars
      PROVE  [Pool!PoolNext]_(Pool!poolVars)
  <2>1. CASE Next
    BY <1>2, <2>1, QuietIsPool, TryIsPool, EnqueueIsPool, ReleaseIsPool, ResumeIsPool,
       AbandonIsPool, Zenon DEF Next, Step
  <2>2. CASE UNCHANGED vars
    BY <2>2, Zenon DEF vars, protocolVars, waiterVars, execVars, queueVars, semVars, Pool!poolVars,
       Live, LiveAhead, InFlight
  <2> QED
    BY <1>2, <2>1, <2>2, Zenon
<1> QED
  BY <1>1, <1>2, Invariance, PTL DEF Spec, ImplementsPermitPool, Pool!PoolSpec

==============================================================================
