------------------------- MODULE AwaitProtocolProofs -------------------------
(***************************************************************************)
(* WaiterStates and ForeignSignals are preserved by every step of the      *)
(* protocol, for any set of tasks.  AsyncSemaphoreProofs and               *)
(* AsyncMutexProofs rest on these lemmas.                                  *)
(***************************************************************************)
EXTENDS AwaitProtocol, TLAPS

\* The protocol starts in a state that has the types and the invariants.
LEMMA ProtocolInitInv ==
  ASSUME ProtocolInit
  PROVE  ProtocolTypeOK /\ WaiterStates /\ ForeignSignals
BY Zenon DEF ProtocolInit, ProtocolTypeOK, WaiterStates, WaiterState, ForeignSignals, PC,
       Private, Waiting, Granted, Resuming

\* Every step of the protocol preserves the types.
LEMMA ProtocolType ==
  ASSUME ProtocolTypeOK, ProtocolNext
  PROVE  ProtocolTypeOK'
<1> USE DEF ProtocolTypeOK, Goto, PC, waiterVars, queueVars, execVars
<1>1. PICK t \in Tasks :
        \/ CheckSignal(t)
        \/ TryInAwaitReady(t, TRUE)
        \/ TryInAwaitReady(t, FALSE)
        \/ TryDirect(t)
        \/ InstallHandler(t)
        \/ EnqueueOrReturn(t)
        \/ GrantInPlace(t)
        \/ RunResume(t)
        \/ ResumeGranted(t)
        \/ ResumeDenied(t)
        \/ ResumeWithoutWaiter(t)
        \/ Destroy(t)
        \/ Emit(t)
        \/ RunCancel(t)
        \/ FinishCancel(t)
        \/ \E G \in SUBSET Live : GrantWaiters(t, G)
        \/ Wake(t)
  BY Zenon DEF ProtocolNext
<1>2. CASE CheckSignal(t)
  BY <1>2, Zenon DEF CheckSignal
<1>3. CASE TryInAwaitReady(t, TRUE) \/ TryInAwaitReady(t, FALSE)
  BY <1>3 DEF Erase, TryInAwaitReady
<1>4. CASE TryDirect(t)
  BY <1>4, Zenon DEF Erase, TryDirect
<1>5. CASE InstallHandler(t)
  BY <1>5, Zenon DEF InstallHandler
<1>6. CASE EnqueueOrReturn(t)
  BY <1>6 DEF EnqueueOrReturn, Erase, CompactAndPush, Live
<1>7. CASE GrantInPlace(t)
  BY <1>7, Zenon DEF Erase, GrantInPlace
<1>8. CASE RunResume(t)
  BY <1>8 DEF RunResume
<1>9. CASE ResumeGranted(t)
  BY <1>9, Zenon DEF ResumeGranted, DropWaiter
<1>10. CASE ResumeDenied(t)
  BY <1>10, Zenon DEF ResumeDenied, DropWaiter
<1>11. CASE ResumeWithoutWaiter(t)
  BY <1>11, Zenon DEF ResumeWithoutWaiter
<1>12. CASE Destroy(t)
  BY <1>12, Zenon DEF Erase, Destroy
<1>13. CASE Emit(t)
  <2>1. cancelQ' \in [Tasks -> BOOLEAN]
    BY <1>13, Zenon DEF Emit
  <2> QED
    BY <1>13, <2>1, Zenon DEF Emit
<1>14. CASE RunCancel(t)
  BY <1>14, Zenon DEF RunCancel
<1>15. CASE FinishCancel(t)
  <2>1. cont' \in [Tasks -> BOOLEAN] /\ resumes' \in [Tasks -> Nat]
    <3>1. CASE abandoned[t] \/ ~cont[t]
      BY <1>15, <3>1, Zenon DEF FinishCancel
    <3>2. CASE ~(abandoned[t] \/ ~cont[t])
      <4>1. /\ cont' = [cont EXCEPT ![t] = FALSE]
            /\ resumes' = [resumes EXCEPT ![t] = resumes[t] + 1]
        BY <1>15, <3>2, Zenon DEF FinishCancel
      <4> QED
        BY <4>1
    <3> QED
      BY <3>1, <3>2, Zenon
  <2> QED
    BY <1>15, <2>1, Zenon DEF Erase, FinishCancel
<1>16. CASE \E G \in SUBSET Live : GrantWaiters(t, G)
  <2> PICK G \in SUBSET Live : GrantWaiters(t, G)
    BY <1>16, Zenon
  <2>1. done' \in [Tasks -> BOOLEAN] /\ granted' \in [Tasks -> BOOLEAN]
    BY Zenon DEF GrantWaiters
  <2> QED
    BY <2>1, Zenon DEF GrantWaiters, CompactAndPop, Live
<1>17. CASE Wake(t)
  <2> PICK w \in wake[t] :
         /\ IF abandoned[w] \/ ~cont[w]
            THEN UNCHANGED <<cont, resumes>>
            ELSE /\ cont' = [cont EXCEPT ![w] = FALSE]
                 /\ resumes' = [resumes EXCEPT ![w] = @ + 1]
         /\ wake' = [wake EXCEPT ![t] = @ \ {w}]
         /\ Goto(t, IF wake[t] = {w} THEN "run" ELSE "waking")
    BY <1>17, Zenon DEF Wake
  <2>1. cont' \in [Tasks -> BOOLEAN] /\ resumes' \in [Tasks -> Nat]
    <3>1. CASE abandoned[w] \/ ~cont[w]
      BY <3>1, Zenon
    <3>2. CASE ~(abandoned[w] \/ ~cont[w])
      <4>1. /\ cont' = [cont EXCEPT ![w] = FALSE]
            /\ resumes' = [resumes EXCEPT ![w] = resumes[w] + 1]
        BY <3>2, ZenonT(30)
      <4> QED
        BY <4>1
    <3> QED
      BY <3>1, <3>2, Zenon
  <2> QED
    BY <1>17, <2>1, Zenon DEF Wake
<1> QED
  BY Zenon, <1>1, <1>2, <1>3, <1>4, <1>5, <1>6, <1>7, <1>8, <1>9, <1>10, <1>11, <1>12,
     <1>13, <1>14, <1>15, <1>16, <1>17
\* Every step of the protocol preserves the states of all Waiters.
LEMMA ProtocolStates ==
  ASSUME ProtocolTypeOK, WaiterStates, ProtocolNext
  PROVE  WaiterStates'
<1> SUFFICES ASSUME NEW u \in Tasks
             PROVE  WaiterState(u)'
  BY Zenon DEF WaiterStates
<1> USE DEF ProtocolTypeOK, Goto, PC, waiterVars, queueVars, execVars,
            WaiterState, Private, Waiting, Granted, Resuming
<1>1. PICK t \in Tasks :
        \/ CheckSignal(t)
        \/ TryInAwaitReady(t, TRUE)
        \/ TryInAwaitReady(t, FALSE)
        \/ TryDirect(t)
        \/ InstallHandler(t)
        \/ EnqueueOrReturn(t)
        \/ GrantInPlace(t)
        \/ RunResume(t)
        \/ ResumeGranted(t)
        \/ ResumeDenied(t)
        \/ ResumeWithoutWaiter(t)
        \/ Destroy(t)
        \/ Emit(t)
        \/ RunCancel(t)
        \/ FinishCancel(t)
        \/ \E G \in SUBSET Live : GrantWaiters(t, G)
        \/ Wake(t)
  BY Zenon DEF ProtocolNext
<1>a. WaiterState(t) /\ WaiterState(u)
  BY Zenon DEF WaiterStates
<1>2. CASE CheckSignal(t)
  BY <1>2, <1>a, Zenon DEF CheckSignal
<1>3. CASE TryInAwaitReady(t, TRUE) \/ TryInAwaitReady(t, FALSE)
  BY <1>3, <1>a DEF TryInAwaitReady, Erase, Live
<1>4. CASE TryDirect(t)
  BY <1>4, <1>a, Zenon DEF TryDirect, Erase, Live
<1>5. CASE InstallHandler(t)
  BY <1>5, <1>a, Zenon DEF InstallHandler
<1>6. CASE EnqueueOrReturn(t)
  BY <1>6, <1>a DEF EnqueueOrReturn, Erase, CompactAndPush, Live
<1>7. CASE GrantInPlace(t)
  BY <1>7, <1>a, Zenon DEF GrantInPlace, Erase, Live
<1>8. CASE RunResume(t)
  BY <1>8, <1>a DEF RunResume
<1>9. CASE ResumeGranted(t)
  BY <1>9, <1>a, Zenon DEF ResumeGranted, DropWaiter
<1>10. CASE ResumeDenied(t)
  BY <1>10, <1>a DEF ResumeDenied, DropWaiter
<1>11. CASE ResumeWithoutWaiter(t)
  BY <1>11, <1>a DEF ResumeWithoutWaiter
<1>12. CASE Destroy(t)
  BY <1>12, <1>a, SMTT(30) DEF Destroy, Erase, Live
<1>13. CASE Emit(t)
  BY <1>13, <1>a, Zenon DEF Emit
<1>14. CASE RunCancel(t)
  BY <1>14, <1>a DEF RunCancel
<1>15. CASE FinishCancel(t)
  BY <1>15, <1>a, SMTT(30) DEF FinishCancel, Erase, Live
<1>16. CASE \E G \in SUBSET Live : GrantWaiters(t, G)
  BY <1>16, <1>a, SMTT(30) DEF GrantWaiters, CompactAndPop, Live
<1>17. CASE Wake(t)
  BY <1>17, <1>a, SMTT(30) DEF Wake
<1> QED
  BY <1>1, <1>2, <1>3, <1>4, <1>5, <1>6, <1>7, <1>8, <1>9, <1>10, <1>11, <1>12, <1>13, <1>14, <1>15, <1>16, <1>17, Zenon

\* Every step of the protocol preserves ForeignSignals: a task is between
\* await_ready's look at the signal and await_resume only while its own
\* executor is busy with it.
LEMMA ProtocolSignals ==
  ASSUME ProtocolTypeOK, WaiterStates, ForeignSignals, ProtocolNext
  PROVE  ForeignSignals'
<1> SUFFICES ASSUME NEW u \in Tasks
             PROVE  (pc[u] \in {"try", "took"} /\ signal[u] => u \in RemoteCancel)'
  BY Zenon DEF ForeignSignals
<1> USE DEF ProtocolTypeOK, Goto, PC
<1>1. pc[u] \in {"try", "took"} /\ signal[u] => u \in RemoteCancel
  BY Zenon DEF ForeignSignals
<1>2. CASE \E t \in Tasks : Emit(t)
  BY <1>1, <1>2, Zenon DEF Emit
<1>3. CASE \E t \in Tasks : CheckSignal(t)
  BY <1>1, <1>3, Zenon DEF CheckSignal
<1>4. CASE \E t \in Tasks : TryInAwaitReady(t, TRUE)
  BY <1>1, <1>4, Zenon DEF TryInAwaitReady
<1>5. CASE \E t \in Tasks :
             \/ TryInAwaitReady(t, FALSE) \/ TryDirect(t) \/ InstallHandler(t)
             \/ EnqueueOrReturn(t) \/ GrantInPlace(t) \/ RunResume(t)
             \/ ResumeGranted(t) \/ ResumeDenied(t) \/ ResumeWithoutWaiter(t)
             \/ Destroy(t) \/ RunCancel(t) \/ FinishCancel(t) \/ Wake(t)
             \/ \E G \in SUBSET Live : GrantWaiters(t, G)
  BY <1>1, <1>5
     DEF TryInAwaitReady, TryDirect, InstallHandler, EnqueueOrReturn, GrantInPlace,
         RunResume, ResumeGranted, ResumeDenied, ResumeWithoutWaiter, Destroy,
         RunCancel, FinishCancel, Wake, GrantWaiters
<1> QED
  BY <1>2, <1>3, <1>4, <1>5, Zenon DEF ProtocolNext

\* A task that has ended stays so.
LEMMA DeadStays ==
  ASSUME ProtocolTypeOK, ProtocolNext, NEW u \in Tasks, pc[u] = "dead"
  PROVE  pc'[u] = "dead"
BY DEF ProtocolTypeOK, PC, ProtocolNext, Goto, CheckSignal, TryInAwaitReady, TryDirect,
       InstallHandler, EnqueueOrReturn, GrantInPlace, RunResume, ResumeGranted,
       ResumeDenied, ResumeWithoutWaiter, Destroy, Emit, RunCancel, FinishCancel,
       GrantWaiters, Wake

\* Only enqueue_waiter makes a task wait.
LEMMA LiveShrinks ==
  ASSUME ProtocolTypeOK, WaiterStates, NEW t \in Tasks,
         \/ CheckSignal(t) \/ TryInAwaitReady(t, TRUE) \/ TryInAwaitReady(t, FALSE)
         \/ TryDirect(t) \/ InstallHandler(t) \/ GrantInPlace(t) \/ RunResume(t)
         \/ ResumeGranted(t) \/ ResumeDenied(t) \/ ResumeWithoutWaiter(t) \/ Destroy(t)
         \/ Emit(t) \/ RunCancel(t) \/ FinishCancel(t) \/ Wake(t)
  PROVE  Live' \subseteq Live
<1> USE DEF ProtocolTypeOK, Goto, Live, waiterVars, queueVars
<1>1. WaiterState(t)
  BY Zenon DEF WaiterStates
<1>2. CASE InstallHandler(t) \/ ResumeGranted(t) \/ ResumeDenied(t)
  BY <1>1, <1>2 DEF InstallHandler, ResumeGranted, ResumeDenied, DropWaiter, WaiterState, Private
<1>3. CASE CheckSignal(t) \/ TryInAwaitReady(t, TRUE) \/ TryInAwaitReady(t, FALSE) \/ TryDirect(t)
  BY <1>3, Zenon DEF CheckSignal, TryInAwaitReady, TryDirect, Erase
<1>4. CASE GrantInPlace(t) \/ RunResume(t) \/ ResumeWithoutWaiter(t) \/ Emit(t) \/ Wake(t)
  BY <1>4, Zenon DEF GrantInPlace, RunResume, ResumeWithoutWaiter, Emit, Wake, Erase
<1>5. CASE Destroy(t) \/ RunCancel(t) \/ FinishCancel(t)
  BY <1>5, Zenon DEF Destroy, RunCancel, FinishCancel, Erase
<1> QED
  BY <1>2, <1>3, <1>4, <1>5, Zenon

------------------------------------------------------------------------------
(***************************************************************************)
(* The line of live waiters, as the refinements of PermitPool see it       *)
(***************************************************************************)

\* The line without the waiters of gone.
LineWithout(gone) ==
  /\ Live' = Live \ gone
  /\ LiveAhead' = [c \in Tasks |-> IF c \in Live \ gone THEN LiveAhead[c] \ gone ELSE {}]

\* Most steps leave the line alone: what they erase from _waiters was done.
LEMMA LineKept ==
  ASSUME ProtocolTypeOK, WaiterStates, NEW t \in Tasks,
         \/ CheckSignal(t) \/ TryInAwaitReady(t, TRUE) \/ TryInAwaitReady(t, FALSE)
         \/ TryDirect(t) \/ InstallHandler(t) \/ GrantInPlace(t) \/ RunResume(t)
         \/ ResumeGranted(t) \/ ResumeDenied(t) \/ ResumeWithoutWaiter(t)
         \/ Emit(t) \/ FinishCancel(t) \/ Wake(t)
  PROVE  Live' = Live /\ LiveAhead' = LiveAhead
<1> USE DEF ProtocolTypeOK, Goto, waiterVars, queueVars
<1>1. WaiterState(t)
  BY Zenon DEF WaiterStates
<1>2. CASE CheckSignal(t) \/ RunResume(t) \/ ResumeWithoutWaiter(t) \/ Emit(t) \/ Wake(t)
  <2>1. queued' = queued /\ ahead' = ahead /\ done' = done
    BY <1>2, Zenon DEF CheckSignal, RunResume, ResumeWithoutWaiter, Emit, Wake
  <2> QED
    BY <2>1, Zenon DEF Live, LiveAhead
<1>3. CASE InstallHandler(t) \/ ResumeGranted(t) \/ ResumeDenied(t)
  <2>1. t \notin queued /\ queued' = queued /\ ahead' = ahead
    BY <1>1, <1>3, Zenon DEF InstallHandler, ResumeGranted, ResumeDenied, WaiterState, Private
  <2>2. \A u \in Tasks : u # t => done'[u] = done[u]
    BY <1>3, Zenon DEF InstallHandler, ResumeGranted, ResumeDenied, DropWaiter
  <2>3. Live' = Live
    BY <2>1, <2>2, Zenon DEF Live
  <2> QED
    BY <2>1, <2>3, Zenon DEF LiveAhead
<1>4. ASSUME NEW gone \in SUBSET Tasks, gone \intersect Live = {}, Erase(gone),
             queued \ Live \subseteq gone, \A u \in Live : ~done'[u]
      PROVE  Live' = Live /\ LiveAhead' = LiveAhead
  <2>1. queued' = Live
    BY <1>4, Zenon DEF Erase, Live
  <2>2. Live' = Live
    BY <1>4, <2>1, Zenon DEF Live
  <2>3. \A u \in Live : ahead'[u] \intersect Live = ahead[u] \intersect Live
    BY <1>4, Zenon DEF Erase, Live
  <2> QED
    BY <2>2, <2>3, Zenon DEF LiveAhead
<1>5. CASE TryInAwaitReady(t, TRUE) \/ TryInAwaitReady(t, FALSE) \/ TryDirect(t)
  <2>1. Erase(queued \ Live) /\ done' = done
    BY <1>5, Zenon DEF TryInAwaitReady, TryDirect
  <2> QED
    BY <1>4, <2>1, Zenon DEF Live
<1>6. CASE GrantInPlace(t)
  <2>1. Erase(queued \ Live) /\ t \notin queued
    BY <1>1, <1>6, Zenon DEF GrantInPlace, WaiterState, Private
  <2>2. \A u \in Live : ~done'[u]
    BY <1>6, <2>1, Zenon DEF GrantInPlace, Live
  <2> QED
    BY <1>4, <2>1, <2>2, Zenon DEF Live
<1>7. CASE FinishCancel(t)
  <2>1. Erase((queued \ Live) \union {t}) /\ done' = done /\ t \notin Live
    BY <1>1, <1>7, Zenon DEF FinishCancel, WaiterState, Live
  <2> QED
    BY <1>4, <2>1 DEF Live
<1> QED
  BY <1>2, <1>3, <1>5, <1>6, <1>7, Zenon

\* A cancelled or a destroyed task leaves the line if it is still in it.
LEMMA LineLeft ==
  ASSUME ProtocolTypeOK, WaiterStates, NEW t \in Tasks, RunCancel(t) \/ Destroy(t)
  PROVE  IF t \in Live THEN LineWithout({t}) ELSE Live' = Live /\ LiveAhead' = LiveAhead
<1> USE DEF ProtocolTypeOK, Goto, waiterVars, queueVars
<1>1. WaiterState(t)
  BY Zenon DEF WaiterStates
<1>2. CASE RunCancel(t)
  <2>1. queued' = queued /\ ahead' = ahead
    BY <1>2, Zenon DEF RunCancel
  <2>2. Live' = Live \ {t}
    BY <1>1, <1>2, <2>1 DEF RunCancel, Live, WaiterState
  <2>3. CASE t \in Live
    <3>1. \A u \in Live \ {t} : ahead[u] \intersect (Live \ {t}) = LiveAhead[u] \ {t}
      BY Zenon DEF LiveAhead, Live
    <3> QED
      BY <2>1, <2>2, <2>3, <3>1, Zenon DEF LineWithout, LiveAhead
  <2>4. CASE t \notin Live
    BY <2>1, <2>2, <2>4, Live' = Live, Zenon DEF LiveAhead
  <2> QED
    BY <2>3, <2>4, Zenon
<1>3. CASE Destroy(t)
  <2>1. /\ queued' = Live \ {t}
        /\ \A u \in Tasks : u # t => done'[u] = done[u]
    BY <1>3, Zenon DEF Destroy, Erase, Live
  <2>2. Live' = Live \ {t}
    BY <2>1, Zenon DEF Live
  <2>3. \A u \in Live \ {t} : ahead'[u] \intersect (Live \ {t}) = (ahead[u] \intersect Live) \ {t}
    BY <1>3, Zenon DEF Destroy, Erase, Live
  <2>4. LiveAhead' = [u \in Tasks |-> IF u \in Live \ {t} THEN (ahead[u] \intersect Live) \ {t} ELSE {}]
    BY <2>2, <2>3, Zenon DEF LiveAhead
  <2>5. t \in Live => LineWithout({t})
    BY <2>2, <2>4, Zenon DEF LineWithout, LiveAhead, Live
  <2>6. t \notin Live => Live' = Live /\ LiveAhead' = LiveAhead
    BY <2>2, <2>4 DEF LiveAhead, Live
  <2> QED
    BY <2>5, <2>6, Zenon
<1> QED
  BY <1>2, <1>3, Zenon

\* enqueue_waiter puts the task at the end of the line.
LEMMA LineJoined ==
  ASSUME ProtocolTypeOK, WaiterStates, NEW t \in Tasks, EnqueueOrReturn(t)
  PROVE  /\ t \notin Live
         /\ Live' = Live \union {t}
         /\ LiveAhead' = [LiveAhead EXCEPT ![t] = Live]
<1> USE DEF ProtocolTypeOK
<1>1. WaiterState(t)
  BY Zenon DEF WaiterStates
<1>2. CompactAndPush(t) /\ done' = done /\ ~done[t] /\ t \notin queued
  BY <1>1, Zenon DEF EnqueueOrReturn, WaiterState, Private, waiterVars
<1>3. t \notin Live /\ Live' = Live \union {t}
  BY <1>2, Zenon DEF CompactAndPush, Live
<1>4. \A u \in Tasks : (IF u \in Live' THEN ahead'[u] \intersect Live' ELSE {})
                         = IF u = t THEN Live ELSE LiveAhead[u]
  BY <1>2, <1>3, Zenon DEF CompactAndPush, LiveAhead, Live
<1>5. LiveAhead' = [u \in Tasks |-> IF u = t THEN Live ELSE LiveAhead[u]]
  BY <1>4, Zenon DEF LiveAhead
<1> QED
  BY <1>3, <1>5, Zenon DEF LiveAhead

\* release and unlock take the waiters they grant out of the line.
LEMMA LinePopped ==
  ASSUME ProtocolTypeOK, NEW t \in Tasks, NEW G \in SUBSET Live, GrantWaiters(t, G)
  PROVE  LineWithout(G)
<1> USE DEF ProtocolTypeOK
<1>1. CompactAndPop(G) /\ \A u \in Tasks : u \notin G => done'[u] = done[u]
  BY Zenon DEF GrantWaiters
<1>2. Live' = Live \ G
  BY <1>1, Zenon DEF CompactAndPop, Live
<1>3. \A u \in Live \ G : ahead'[u] \intersect (Live \ G) = (ahead[u] \intersect Live) \ G
  BY <1>1, Zenon DEF CompactAndPop, Live
<1> QED
  BY <1>2, <1>3, Zenon DEF LineWithout, LiveAhead, Live

==============================================================================
