-------------------------- MODULE EventQueueProofs ---------------------------
(***************************************************************************)
(* Proofs about what coroutines and threads meet at: ManualResetEvent and  *)
(* AsyncQueue, for any sets of them and any capacity.                      *)
(***************************************************************************)
EXTENDS ManualResetEvent, AsyncQueue, FiniteSetTheorems, TLAPS

------------------------------------------------------------------------------
(***************************************************************************)
(* ManualResetEvent: whoever is resumed is resumed once, and by a set() of *)
(* its own wait unless it was cancelled.                                   *)
(***************************************************************************)

\* A coroutine in _waiters sleeps or was just resumed, and no set() has swapped
\* it out.
Registered ==
  \A t \in waiters :
    /\ pc[t] = "suspended" \/ (pc[t] = "resume" /\ done[t])
    /\ \A s \in Tasks : t \notin list[s]

\* What a set() has swapped out and not resumed yet: it sleeps, unless it was
\* cancelled or destroyed, and is in the list of one set() only.
Listed ==
  \A s \in Tasks : \A t \in list[s] :
    /\ seen[t]
    /\ \/ pc[t] = "suspended" /\ (done[t] => signal[t])
       \/ pc[t] = "resume" /\ signal[t] /\ done[t]
       \/ pc[t] = "dead"
    /\ \A r \in Tasks : t \in list[r] => r = s

\* Where a coroutine may be that is about to be resumed, and why it is.
Resumable(t) ==
  /\ done[t]
  /\ signal[t] \/ seen[t]
  /\ \/ pc[t] \in {"suspended", "dead"}
     \/ signal[t] /\ t \in RemoteCancel /\ pc[t] \in {"register", "resume"}

\* One thread at most is inside request_resume, and its closure is the only one.
Posted ==
  \A w \in Tasks : \A by \in Tasks : <<w, by>> \in posting =>
    /\ Resumable(w)
    /\ resumes[w] = 0
    /\ \A other \in Tasks : <<w, other>> \in posting => other = by

Resumptions ==
  \A t \in Tasks :
    /\ resumes[t] \in {0, 1}
    /\ resumes[t] = 1 =>
         /\ Resumable(t)
         /\ pc[t] = "dead" => (signal[t] /\ t \in RemoteCancel) \/ t \in Destroyable

\* Where the handler is installed, and what a wait knows of the event.
Waiting ==
  \A t \in Tasks :
    /\ handler[t] => pc[t] \in {"register", "suspended", "resume"}
    /\ signaled /\ pc[t] \in {"ready", "suspend", "register"} => seen[t]
    /\ pc[t] = "resume" /\ ~signal[t] => seen[t]
    /\ pc[t] = "dead" => abandoned[t]

Quiet == signaled => Live = {}

\* The inductive invariant.
EventInv == TypeOK /\ Quiet /\ Registered /\ Listed /\ Posted /\ Resumptions /\ Waiting

------------------------------------------------------------------------------
LEMMA InitInv == Init => EventInv
BY EventAssumption DEF Init, EventInv, TypeOK, PC, Quiet, Live, Registered, Listed, Posted, Resumptions, Waiting

LEMMA WaitStartInv ==
  ASSUME EventInv, NEW t \in Tasks, WaitStart(t)
  PROVE  EventInv'
<1> USE DEF EventInv, WaitStart, Goto, Live, opVars
<1>1. TypeOK'
  BY Zenon DEF TypeOK, PC
<1>2. Quiet'
  BY Zenon DEF TypeOK, Quiet, Registered
<1>3. Registered'
  BY Zenon DEF TypeOK, Registered, Listed
<1>4. Listed'
  BY Zenon DEF TypeOK, Listed, Registered
<1>5. Posted'
  BY DEF TypeOK, Posted, Resumable, Resumptions, Listed
<1>6. Resumptions'
  BY DEF TypeOK, Resumptions, Resumable, Posted
<1>7. Waiting'
  BY Zenon DEF TypeOK, Waiting, Resumptions, Resumable
<1> QED BY <1>1, <1>2, <1>3, <1>4, <1>5, <1>6, <1>7, Zenon

LEMMA CheckSignalInv ==
  ASSUME EventInv, NEW t \in Tasks, CheckSignal(t)
  PROVE  EventInv'
<1> USE DEF EventInv, CheckSignal, Goto, Live, opVars
<1>1. TypeOK'
  BY Zenon DEF TypeOK, PC
<1>2. Quiet'
  BY Zenon DEF TypeOK, Quiet, Registered
<1>3. Registered'
  BY Zenon DEF TypeOK, Registered, Listed
<1>4. Listed'
  BY Zenon DEF TypeOK, Listed, Registered
<1>5. Posted'
  BY DEF TypeOK, Posted, Resumable, Resumptions, Listed
<1>6. Resumptions'
  BY DEF TypeOK, Resumptions, Resumable, Posted
<1>7. Waiting'
  BY DEF TypeOK, Waiting, Resumptions, Resumable
<1> QED BY <1>1, <1>2, <1>3, <1>4, <1>5, <1>6, <1>7, Zenon

LEMMA InstallHandlerInv ==
  ASSUME EventInv, NEW t \in Tasks, InstallHandler(t)
  PROVE  EventInv'
<1> USE DEF EventInv, InstallHandler, Goto, Live, opVars
<1>1. TypeOK'
  BY Zenon DEF TypeOK, PC
<1>2. Quiet'
  BY Zenon DEF TypeOK, Quiet, Registered
<1>3. Registered'
  BY Zenon DEF TypeOK, Registered, Listed
<1>4. Listed'
  BY Zenon DEF TypeOK, Listed, Registered
<1>5. Posted'
  BY DEF TypeOK, Posted, Resumable, Resumptions, Listed
<1>6. Resumptions'
  BY DEF TypeOK, Resumptions, Resumable, Posted
<1>7. Waiting'
  BY DEF TypeOK, Waiting, Resumptions, Resumable
<1> QED BY <1>1, <1>2, <1>3, <1>4, <1>5, <1>6, <1>7, Zenon

LEMMA RegisterWaiterInv ==
  ASSUME EventInv, NEW t \in Tasks, RegisterWaiter(t)
  PROVE  EventInv'
<1> USE DEF EventInv, RegisterWaiter, Goto, Live, opVars
<1>1. TypeOK'
  BY Zenon DEF TypeOK, PC
<1>2. Quiet'
  BY Zenon DEF TypeOK, Quiet, Registered
<1>3. Registered'
  BY DEF TypeOK, Registered, Listed
<1>4. Listed'
  BY DEF TypeOK, Listed, Registered
<1>5. Posted'
  BY DEF TypeOK, Posted, Resumable, Resumptions, Listed
<1>6. Resumptions'
  BY DEF TypeOK, Resumptions, Resumable, Posted
<1>7. Waiting'
  BY Zenon DEF TypeOK, Waiting, Resumptions, Resumable
<1> QED BY <1>1, <1>2, <1>3, <1>4, <1>5, <1>6, <1>7, Zenon

LEMMA RunResumeInv ==
  ASSUME EventInv, NEW t \in Tasks, RunResume(t)
  PROVE  EventInv'
<1> USE DEF EventInv, RunResume, Goto, Live, opVars
<1>1. TypeOK'
  BY DEF TypeOK, PC
<1>2. Quiet'
  BY Zenon DEF TypeOK, Quiet, Registered
<1>3. Registered'
  BY DEF TypeOK, Registered, Listed, Resumptions, Resumable
<1>4. Listed'
  BY DEF TypeOK, Listed, Registered, Resumptions, Resumable
<1>5. Posted'
  BY DEF TypeOK, Posted, Resumable, Resumptions, Listed
<1>6. Resumptions'
  BY DEF TypeOK, Resumptions, Resumable, Posted
<1>7. Waiting'
  BY DEF TypeOK, Waiting, Resumptions, Resumable
<1> QED BY <1>1, <1>2, <1>3, <1>4, <1>5, <1>6, <1>7, Zenon

LEMMA AwaitResumeInv ==
  ASSUME EventInv, NEW t \in Tasks, AwaitResume(t)
  PROVE  EventInv'
<1> USE DEF EventInv, AwaitResume, DropOp, Goto, Live, opVars
<1>1. TypeOK'
  BY Zenon DEF TypeOK, PC
<1>2. Quiet'
  BY Zenon DEF TypeOK, Quiet, Registered
<1>3. Registered'
  BY Zenon DEF TypeOK, Registered, Listed
<1>4. Listed'
  BY DEF TypeOK, Listed, Registered
<1>5. Posted'
  BY DEF TypeOK, Posted, Resumable, Resumptions, Listed
<1>6. Resumptions'
  BY DEF TypeOK, Resumptions, Resumable, Posted
<1>7. Waiting'
  BY Zenon DEF TypeOK, Waiting, Resumptions, Resumable
<1> QED BY <1>1, <1>2, <1>3, <1>4, <1>5, <1>6, <1>7, Zenon

LEMMA DestroyInv ==
  ASSUME EventInv, NEW t \in Tasks, Destroy(t)
  PROVE  EventInv'
<1> USE DEF EventInv, Destroy, DropOp, Goto, Live, opVars
<1>1. TypeOK'
  BY Zenon DEF TypeOK, PC
<1>2. Quiet'
  BY Zenon DEF TypeOK, Quiet, Registered
<1>3. Registered'
  BY DEF TypeOK, Registered, Listed
<1>4. Listed'
  BY Zenon DEF TypeOK, Listed, Registered
<1>5. Posted'
  BY DEF TypeOK, Posted, Resumable, Resumptions, Listed
<1>6. Resumptions'
  BY DEF TypeOK, Resumptions, Resumable, Posted
<1>7. Waiting'
  BY Zenon DEF TypeOK, Waiting, Resumptions, Resumable
<1> QED BY <1>1, <1>2, <1>3, <1>4, <1>5, <1>6, <1>7, Zenon

LEMMA SetInv ==
  ASSUME EventInv, NEW t \in Tasks, Set(t)
  PROVE  EventInv'
<1> USE DEF EventInv, Set, Goto, Live, opVars
<1>1. TypeOK'
  BY Zenon DEF TypeOK, PC
<1>2. Quiet'
  BY Zenon DEF TypeOK, Quiet, Registered
<1>3. Registered'
  BY Zenon DEF TypeOK, Registered, Listed
<1>4. Listed'
  BY DEF TypeOK, Listed, Registered
<1>5. Posted'
  BY DEF TypeOK, Posted, Resumable, Resumptions, Listed
<1>6. Resumptions'
  BY DEF TypeOK, Resumptions, Resumable, Posted
<1>7. Waiting'
  BY Zenon DEF TypeOK, Waiting, Resumptions, Resumable
<1> QED BY <1>1, <1>2, <1>3, <1>4, <1>5, <1>6, <1>7, Zenon

LEMMA SetNextInv ==
  ASSUME EventInv, NEW t \in Tasks, SetNext(t)
  PROVE  EventInv'
<1> USE DEF EventInv, SetNext, MarkDone, Live, opVars
<1>1. TypeOK'
  BY DEF TypeOK, PC
<1>2. Quiet'
  BY Zenon DEF TypeOK, Quiet, Registered
<1>3. Registered'
  BY DEF TypeOK, Registered, Listed
<1>4. Listed'
  BY DEF TypeOK, Listed, Registered
<1>5. Posted'
  BY DEF TypeOK, Posted, Resumable, Resumptions, Listed
<1>6. Resumptions'
  BY DEF TypeOK, Resumptions, Resumable, Posted
<1>7. Waiting'
  BY Zenon DEF TypeOK, Waiting, Resumptions, Resumable
<1> QED BY <1>1, <1>2, <1>3, <1>4, <1>5, <1>6, <1>7, Zenon

LEMMA PostInv ==
  ASSUME EventInv, NEW t \in Tasks, NEW w \in Tasks, Post(w, t)
  PROVE  EventInv'
<1> USE DEF EventInv, Post, Live, opVars
<1>1. TypeOK'
  <2>1. cont' \in [Tasks -> BOOLEAN] /\ resumes' \in [Tasks -> Nat]
    <3>1. \/ cont' = cont /\ resumes' = resumes
          \/ cont' = [cont EXCEPT ![w] = FALSE] /\ resumes' = [resumes EXCEPT ![w] = @ + 1]
      BY Zenon
    <3>2. cont \in [Tasks -> BOOLEAN] /\ resumes \in [Tasks -> Nat]
      BY Zenon DEF TypeOK
    <3>3. [cont EXCEPT ![w] = FALSE] \in [Tasks -> BOOLEAN]
      BY <3>2, Zenon
    <3>4. [resumes EXCEPT ![w] = @ + 1] \in [Tasks -> Nat]
      BY <3>2
    <3> QED BY <3>1, <3>2, <3>3, <3>4, Zenon
  <2> QED BY <2>1, Zenon DEF TypeOK
<1>2. Quiet'
  BY Zenon DEF TypeOK, Quiet, Registered
<1>3. Registered'
  BY Zenon DEF TypeOK, Registered, Listed
<1>4. Listed'
  BY Zenon DEF TypeOK, Listed, Registered
<1>5. Posted'
  BY DEF TypeOK, Posted, Resumable, Resumptions, Listed
<1>6. Resumptions'
  <2>1. \/ resumes' = resumes
        \/ ~abandoned[w] /\ resumes' = [resumes EXCEPT ![w] = @ + 1]
    BY Zenon
  <2>2. CASE resumes' = resumes
    BY <2>2, Zenon DEF Resumptions, Resumable
  <2>3. CASE ~abandoned[w] /\ resumes' = [resumes EXCEPT ![w] = @ + 1]
    BY <2>3 DEF TypeOK, Resumptions, Resumable, Posted, Waiting
  <2> QED BY <2>1, <2>2, <2>3, Zenon
<1>7. Waiting'
  BY Zenon DEF TypeOK, Waiting, Resumptions, Resumable
<1> QED BY <1>1, <1>2, <1>3, <1>4, <1>5, <1>6, <1>7, Zenon

LEMMA SetReturnInv ==
  ASSUME EventInv, NEW t \in Tasks, SetReturn(t)
  PROVE  EventInv'
<1> USE DEF EventInv, SetReturn, Goto, Live, opVars
<1>1. TypeOK'
  BY Zenon DEF TypeOK, PC
<1>2. Quiet'
  BY Zenon DEF TypeOK, Quiet, Registered
<1>3. Registered'
  BY Zenon DEF TypeOK, Registered, Listed
<1>4. Listed'
  BY DEF TypeOK, Listed, Registered
<1>5. Posted'
  BY DEF TypeOK, Posted, Resumable, Resumptions, Listed
<1>6. Resumptions'
  BY DEF TypeOK, Resumptions, Resumable, Posted
<1>7. Waiting'
  BY Zenon DEF TypeOK, Waiting, Resumptions, Resumable
<1> QED BY <1>1, <1>2, <1>3, <1>4, <1>5, <1>6, <1>7, Zenon

LEMMA ResetInv ==
  ASSUME EventInv, NEW t \in Tasks, Reset(t)
  PROVE  EventInv'
<1> USE DEF EventInv, Reset, Live, opVars
<1>1. TypeOK'
  BY Zenon DEF TypeOK, PC
<1>2. Quiet'
  BY Zenon DEF TypeOK, Quiet, Registered
<1>3. Registered'
  BY Zenon DEF TypeOK, Registered, Listed
<1>4. Listed'
  BY Zenon DEF TypeOK, Listed, Registered
<1>5. Posted'
  BY Zenon DEF TypeOK, Posted, Resumable, Resumptions, Listed
<1>6. Resumptions'
  BY Zenon DEF TypeOK, Resumptions, Resumable, Posted
<1>7. Waiting'
  BY Zenon DEF TypeOK, Waiting, Resumptions, Resumable
<1> QED BY <1>1, <1>2, <1>3, <1>4, <1>5, <1>6, <1>7, Zenon

LEMMA EmitInv ==
  ASSUME EventInv, NEW t \in Tasks, Emit(t)
  PROVE  EventInv'
<1> USE DEF EventInv, Emit, MarkDone, Live, opVars
<1>1. TypeOK'
  <2>1. done' \in [Tasks -> BOOLEAN] /\ posting' \in SUBSET (Tasks \X Tasks)
    <3>1. /\ done' = done \/ done' = [done EXCEPT ![t] = TRUE]
          /\ posting' = posting \/ posting' = posting \union {<<t, t>>}
      BY Zenon
    <3>2. done \in [Tasks -> BOOLEAN] /\ posting \in SUBSET (Tasks \X Tasks)
      BY Zenon DEF TypeOK
    <3>3. [done EXCEPT ![t] = TRUE] \in [Tasks -> BOOLEAN]
      BY <3>2, Zenon
    <3>4. posting \union {<<t, t>>} \in SUBSET (Tasks \X Tasks)
      BY <3>2
    <3> QED BY <3>1, <3>2, <3>3, <3>4, Zenon
  <2> QED BY <2>1, Zenon DEF TypeOK
<1>2. Quiet'
  BY Zenon DEF TypeOK, Quiet, Registered
<1>3. Registered'
  BY DEF TypeOK, Registered, Listed
<1>4. Listed'
  BY DEF TypeOK, Listed, Registered
<1>5. Posted'
  <2>1. \/ done' = done /\ posting' = posting
        \/ /\ handler[t] /\ done' = [done EXCEPT ![t] = TRUE]
           /\ \/ done[t] /\ posting' = posting
              \/ ~done[t] /\ posting' = posting \union {<<t, t>>}
    BY Zenon
  <2>2. CASE posting' = posting
    BY <2>1, <2>2 DEF TypeOK, Posted, Resumable
  <2>3. CASE ~done[t] /\ handler[t] /\ posting' = posting \union {<<t, t>>}
    <3>1. resumes[t] = 0 /\ \A by \in Tasks : <<t, by>> \notin posting
      BY <2>3, Zenon DEF Resumptions, Posted, Resumable
    <3>2. done' = [done EXCEPT ![t] = TRUE]
      BY <2>1, <2>3, Zenon DEF TypeOK
    <3>3. Resumable(t)'
      BY <2>3, <3>2, Zenon DEF TypeOK, Resumable, Waiting
    <3> QED BY <2>3, <3>1, <3>2, <3>3 DEF TypeOK, Posted, Resumable
  <2> QED BY <2>1, <2>2, <2>3, Zenon
<1>6. Resumptions'
  BY DEF TypeOK, Resumptions, Resumable, Posted
<1>7. Waiting'
  BY DEF TypeOK, Waiting, Resumptions, Resumable
<1> QED BY <1>1, <1>2, <1>3, <1>4, <1>5, <1>6, <1>7, Zenon

LEMMA StepInv == EventInv /\ [Next]_vars => EventInv'
<1> SUFFICES ASSUME EventInv, [Next]_vars PROVE EventInv'
  BY Zenon
<1>1. ASSUME NEW t \in Tasks, Step(t) PROVE EventInv'
  BY <1>1, CheckSignalInv, InstallHandlerInv, RegisterWaiterInv, RunResumeInv, AwaitResumeInv,
     SetNextInv, PostInv, SetReturnInv, Zenon DEF Step
<1>2. CASE Next
  BY <1>1, <1>2, WaitStartInv, SetInv, ResetInv, EmitInv, DestroyInv, Zenon DEF Next
<1>3. CASE UNCHANGED vars
  BY <1>3, Zenon DEF vars, opVars, EventInv, TypeOK, Quiet, Live, Registered, Listed, Posted, Resumable,
              Resumptions, Waiting
<1> QED BY <1>2, <1>3, Zenon

(* For any number of tasks: nobody sleeps in _waiters beside a set event, a
   coroutine is resumed once, and only by a set() during its wait unless it
   was cancelled. *)
THEOREM WokenOnce == Spec => []WokenOnceBySet
<1>1. EventInv => WokenOnceBySet
  BY DEF EventInv, TypeOK, Quiet, Resumptions, Resumable, Waiting, WokenOnceBySet
<1> QED BY <1>1, InitInv, StepInv, PTL DEF Spec

------------------------------------------------------------------------------
(***************************************************************************)
(* AsyncQueue: the deque and its two semaphores agree, for any number of   *)
(* tasks and any capacity, as long as the semaphores keep what PermitPool  *)
(* promises.                                                               *)
(***************************************************************************)

Count(label) == Cardinality(Standing(label))

\* What a PermitPool keeps: who is in line and for whom a permit is set aside,
\* that nobody is in line beside a permit, and how many permits there are.
PoolKeeps(avail, line, reserved, due) ==
  /\ avail \in Nat /\ due \in Nat
  /\ line \in SUBSET QueueUsers /\ reserved \in SUBSET QueueUsers
  /\ line \intersect reserved = {}
  /\ avail > 0 => line = {}
  /\ due = avail + Cardinality(reserved)
SlotsKept == PoolKeeps(sAvail, sLine, sReserved, sOwed)
ItemsKept == PoolKeeps(iAvail, iLine, iReserved, iOwed)

\* Who waits for a semaphore stands where it is awaited.
AtTheirPlace ==
  /\ \A t \in sLine \union sReserved : place[t] = "pushWait"
  /\ \A t \in iLine \union iReserved : place[t] = "popWait"
  /\ \A t \in QueueUsers : place[t] = "pushWait" => t \in sLine \union sReserved
  /\ \A t \in QueueUsers : place[t] = "popWait" => t \in iLine \union iReserved
  /\ \A t \in QueueUsers : place[t] \in {"pushWait", "free", "giveBack"} => hasSlots

Typed ==
  /\ length \in Nat /\ orphans \in Nat
  /\ hasSlots \in BOOLEAN
  /\ place \in [QueueUsers -> Places]

\* The inductive invariant.
QueueInv == Typed /\ SlotsKept /\ ItemsKept /\ AtTheirPlace /\ Accounted

------------------------------------------------------------------------------
LEMMA SubsetFinite ==
  ASSUME NEW S \in SUBSET QueueUsers
  PROVE  IsFiniteSet(S) /\ Cardinality(S) \in Nat
BY FS_Subset, FS_CardinalityType, QueueAssumption, Zenon

(* A task goes from one place to another: the counts of the two change by one. *)
LEMMA CountMoves ==
  ASSUME Typed, NEW t \in QueueUsers, NEW a \in Places, NEW b \in Places, a # b,
         place[t] = a, Enters(t, b)
  PROVE  /\ \A l \in Places : Count(l) \in Nat
         /\ Count(a) > 0 /\ Count(a)' = Count(a) - 1
         /\ Count(b)' = Count(b) + 1
         /\ \A l \in Places \ {a, b} : Standing(l)' = Standing(l) /\ Count(l)' = Count(l)
         /\ place' \in [QueueUsers -> Places] /\ place'[t] = b
         /\ \A u \in QueueUsers \ {t} : place'[u] = place[u]
<1>1. /\ place' \in [QueueUsers -> Places] /\ place'[t] = b
      /\ \A u \in QueueUsers \ {t} : place'[u] = place[u]
  BY Zenon DEF Typed, Enters
<1>2. \A l \in Places : IsFiniteSet(Standing(l)) /\ Count(l) \in Nat
  <2>1. \A l \in Places : Standing(l) \in SUBSET QueueUsers
    BY Zenon DEF Standing
  <2> QED BY <2>1, SubsetFinite, Zenon DEF Count
<1>3. Standing(a)' = Standing(a) \ {t} /\ t \in Standing(a)
  BY <1>1 DEF Standing
<1>4. Standing(b)' = Standing(b) \union {t} /\ t \notin Standing(b)
  BY <1>1, Zenon DEF Standing
<1>5. \A l \in Places \ {a, b} : Standing(l)' = Standing(l)
  BY <1>1, Zenon DEF Standing
<1>6. Count(a) > 0 /\ Count(a)' = Count(a) - 1
  <2>1. Cardinality(Standing(a) \ {t}) = Cardinality(Standing(a)) - 1
    BY <1>2, <1>3, FS_RemoveElement, Zenon
  <2>2. Count(a) # 0
    BY <1>2, <1>3, FS_EmptySet, Zenon DEF Count
  <2> QED BY <1>2, <1>3, <2>1, <2>2 DEF Count
<1>7. Count(b)' = Count(b) + 1
  <2>1. Cardinality(Standing(b) \union {t}) = Cardinality(Standing(b)) + 1
    BY <1>2, <1>4, FS_AddElement, Zenon
  <2> QED BY <1>4, <2>1, Zenon DEF Count
<1> QED BY <1>1, <1>2, <1>5, <1>6, <1>7, Zenon DEF Count

(* PermitPool counts with the Cardinality of its own instance of FiniteSets. *)
LEMMA SameCardinality ==
  \A S : Slots!Cardinality(S) = Cardinality(S) /\ ItemPool!Cardinality(S) = Cardinality(S)
BY Zenon DEF Cardinality, Slots!Cardinality, ItemPool!Cardinality

(* PermitPool: what its steps keep.  The steps of _slots and of _items are the
   same, on their own variables. *)
LEMMA ReserveKeeps ==
  ASSUME NEW avail, NEW line, NEW reserved, NEW due, PoolKeeps(avail, line, reserved, due),
         NEW t \in QueueUsers, t \notin line \union reserved, avail > 0
  PROVE  PoolKeeps(avail - 1, line, reserved \union {t}, due)
<1>1. Cardinality(reserved \union {t}) = Cardinality(reserved) + 1
  BY SubsetFinite, FS_AddElement, Zenon DEF PoolKeeps
<1>2. Cardinality(reserved) \in Nat
  BY SubsetFinite, Zenon DEF PoolKeeps
<1> QED BY <1>1, <1>2 DEF PoolKeeps

LEMMA TakeKeeps ==
  ASSUME NEW avail, NEW line, NEW reserved, NEW due, PoolKeeps(avail, line, reserved, due),
         NEW t \in reserved
  PROVE  PoolKeeps(avail, line, reserved \ {t}, due - 1) /\ due > 0
<1>1. Cardinality(reserved \ {t}) = Cardinality(reserved) - 1 /\ Cardinality(reserved) # 0
  BY SubsetFinite, FS_RemoveElement, FS_EmptySet, Zenon DEF PoolKeeps
<1>2. Cardinality(reserved) \in Nat
  BY SubsetFinite, Zenon DEF PoolKeeps
<1> QED BY <1>1, <1>2 DEF PoolKeeps

LEMMA PutKeeps ==
  ASSUME NEW avail, NEW line, NEW reserved, NEW due, PoolKeeps(avail, line, reserved, due),
         NEW G \in SUBSET line,
         G = line \/ Cardinality(G) = avail + 1, Cardinality(G) <= avail + 1
  PROVE  PoolKeeps(avail + 1 - Cardinality(G), line \ G, reserved \union G, due + 1)
<1>1. G \in SUBSET QueueUsers /\ reserved \in SUBSET QueueUsers /\ G \intersect reserved = {}
  BY Zenon DEF PoolKeeps
<1>2. IsFiniteSet(G) /\ IsFiniteSet(reserved) /\ Cardinality(G) \in Nat /\ Cardinality(reserved) \in Nat
  BY <1>1, SubsetFinite, Zenon
<1>3. Cardinality(reserved \union G) = Cardinality(reserved) + Cardinality(G)
  <2>1. reserved \intersect G = {}
    BY <1>1, Zenon
  <2>2. Cardinality(reserved \union G)
          = Cardinality(reserved) + Cardinality(G) - Cardinality(reserved \intersect G)
    BY <1>2, FS_Union, Zenon
  <2>3. Cardinality(reserved \intersect G) = 0
    BY <2>1, FS_EmptySet, Zenon
  <2> QED BY <1>2, <2>2, <2>3
<1>4. avail \in Nat /\ due = avail + Cardinality(reserved)
  BY Zenon DEF PoolKeeps
<1> QED BY <1>1, <1>2, <1>3, <1>4 DEF PoolKeeps

------------------------------------------------------------------------------
(* Accounted, in terms of Count. *)
Books ==
  /\ length = iOwed + orphans + Count("take") + Count("announce")
  /\ Standing("underflow") = {}
  /\ hasSlots => Capacity = sOwed + length + Count("store") + Count("free") + Count("giveBack")

LEMMA AccountedIsBooks == (Accounted <=> Books) /\ (Accounted' <=> Books')
BY Zenon DEF Accounted, Books, Count

(* The two places on the way of an item, and the three on the way of a slot. *)
ItemPlaces == {"take", "announce"}
SlotPlaces == {"store", "free", "giveBack"}
In(S, label) == IF label \in S THEN 1 ELSE 0

(* The books balance after a task went from a to b, if what it holds there differs
   by what the deque and the two semaphores gained or lost. *)
LEMMA BooksMove ==
  ASSUME Typed, Books, NEW t \in QueueUsers, NEW a \in Places, NEW b \in Places \ {"underflow"},
         a # b, place[t] = a, Enters(t, b), hasSlots' = hasSlots,
         iOwed \in Int, sOwed \in Int, length' \in Int, iOwed' \in Int, sOwed' \in Int,
         orphans' \in Int,
         length' - length = iOwed' - iOwed + orphans' - orphans + In(ItemPlaces, b) - In(ItemPlaces, a),
         hasSlots => sOwed - sOwed' + length - length' = In(SlotPlaces, b) - In(SlotPlaces, a)
  PROVE  Books'
<1> DEFINE Gain(l) == (IF l = b THEN 1 ELSE 0) - (IF l = a THEN 1 ELSE 0)
<1>1. \A l \in Places : Count(l) \in Nat /\ Count(l)' = Count(l) + Gain(l)
  BY CountMoves
<1> HIDE DEF Gain
<1>2. /\ Gain("take") + Gain("announce") = In(ItemPlaces, b) - In(ItemPlaces, a)
      /\ Gain("store") + Gain("free") + Gain("giveBack") = In(SlotPlaces, b) - In(SlotPlaces, a)
      /\ Gain("take") \in Int /\ Gain("announce") \in Int /\ Gain("store") \in Int
      /\ Gain("free") \in Int /\ Gain("giveBack") \in Int
  BY DEF Gain, In, ItemPlaces, SlotPlaces
<1>3. In(ItemPlaces, a) \in Int /\ In(ItemPlaces, b) \in Int
      /\ In(SlotPlaces, a) \in Int /\ In(SlotPlaces, b) \in Int
      /\ length \in Int /\ orphans \in Int
  BY DEF In, Typed
<1> DEFINE itemsHeld == Count("take") + Count("announce")
           slotsHeld == Count("store") + Count("free") + Count("giveBack")
<1>4. /\ itemsHeld' = itemsHeld + (In(ItemPlaces, b) - In(ItemPlaces, a))
      /\ slotsHeld' = slotsHeld + (In(SlotPlaces, b) - In(SlotPlaces, a))
      /\ itemsHeld \in Int /\ slotsHeld \in Int
  BY <1>1, <1>2, <1>3 DEF Places
<1>5. \A l \in Places : Count(l) \in Int /\ Count(l)' \in Int
  BY <1>1, CountMoves
<1>6. Books <=> /\ length = iOwed + orphans + itemsHeld
                /\ Standing("underflow") = {}
                /\ hasSlots => Capacity = sOwed + length + slotsHeld
  BY <1>3, <1>5 DEF Books, Places
<1>7. Books' <=> /\ length' = iOwed' + orphans' + itemsHeld'
                 /\ Standing("underflow")' = {}
                 /\ hasSlots' => Capacity = sOwed' + length' + slotsHeld'
  BY <1>5 DEF Books, Places
<1>8. Standing("underflow")' = {}
  <2>1. place[t] # "underflow"
    BY Zenon DEF Books, Standing
  <2>2. "underflow" \in Places \ {a, b}
    BY <2>1 DEF Places
  <2>3. Standing("underflow")' = Standing("underflow")
    BY <2>2, CountMoves, Zenon
  <2> QED BY <2>3, Zenon DEF Books
<1> HIDE DEF itemsHeld, slotsHeld
<1> QED BY <1>3, <1>4, <1>6, <1>7, <1>8

LEMMA Numbers ==
  /\ Typed /\ SlotsKept /\ ItemsKept => length \in Nat /\ orphans \in Nat /\ sOwed \in Nat /\ iOwed \in Nat
  /\ SlotsKept' => sOwed' \in Nat
  /\ ItemsKept' => iOwed' \in Nat
BY Zenon DEF Typed, SlotsKept, ItemsKept, PoolKeeps

LEMMA QueueInitInv == QueueInit => QueueInv
<1> SUFFICES ASSUME QueueInit PROVE QueueInv
  BY Zenon
<1> USE QueueAssumption
<1>1. Typed
  BY Zenon DEF QueueInit, Typed, Places
<1>2. SlotsKept /\ ItemsKept
  BY FS_EmptySet DEF QueueInit, SlotsKept, ItemsKept, PoolKeeps, Slots!PoolInit, ItemPool!PoolInit
<1>3. AtTheirPlace
  BY Zenon DEF QueueInit, AtTheirPlace, Slots!PoolInit, ItemPool!PoolInit
<1>4. \A l \in Places \ {"idle"} : Standing(l) = {}
  BY Zenon DEF QueueInit, Standing
<1>5. \A l \in Places \ {"idle"} : Count(l) = 0
  BY <1>4, FS_EmptySet, Zenon DEF Count
<1>6. Books
  BY <1>4, <1>5 DEF Books, Places, QueueInit, Slots!PoolInit, ItemPool!PoolInit
<1> QED BY <1>1, <1>2, <1>3, <1>6, AccountedIsBooks, Zenon DEF QueueInv

(* Who waits stays at its place while t goes to b, when t waits for a semaphore
   exactly if b is where it is awaited. *)
LEMMA PlacesKept ==
  ASSUME Typed, AtTheirPlace, SlotsKept, ItemsKept, SlotsKept', ItemsKept',
         NEW t \in QueueUsers, NEW b \in Places, Enters(t, b), UNCHANGED hasSlots,
         (sLine \union sReserved)' \ {t} = (sLine \union sReserved) \ {t},
         t \in (sLine \union sReserved)' <=> b = "pushWait",
         (iLine \union iReserved)' \ {t} = (iLine \union iReserved) \ {t},
         t \in (iLine \union iReserved)' <=> b = "popWait",
         b \in {"pushWait", "free", "giveBack"} => hasSlots
  PROVE  AtTheirPlace'
<1>1. /\ (sLine \union sReserved)' \subseteq QueueUsers
      /\ (iLine \union iReserved)' \subseteq QueueUsers
  BY Zenon DEF SlotsKept, ItemsKept, PoolKeeps
<1>2. place'[t] = b /\ \A u \in QueueUsers \ {t} : place'[u] = place[u]
  BY Zenon DEF Enters, Typed
<1> QED BY <1>1, <1>2 DEF AtTheirPlace

(* The steps at the semaphore of the slots. *)
LEMMA SlotSteps ==
  ASSUME QueueInv, NEW t \in QueueUsers, hasSlots,
         QueuePush(t) \/ PushGranted(t) \/ PushCanceled(t) \/ QueueTryPush(t)
  PROVE  QueueInv'
<1> USE DEF Places
<1>1. /\ Typed /\ SlotsKept /\ ItemsKept /\ AtTheirPlace /\ Books
      /\ UNCHANGED <<hasSlots, orphans, length, iAvail, iLine, iReserved, iOwed>>
  BY AccountedIsBooks, Zenon DEF QueueInv, QueuePush, PushGranted, PushCanceled, QueueTryPush, itemVars
<1>2. ItemsKept'
  BY <1>1, Zenon DEF ItemsKept
<1>3. CASE QueuePush(t)
  <2>1. place[t] = "idle" /\ Enters(t, "pushWait")
    BY <1>3, Zenon DEF QueuePush
  <2>2. t \notin sLine \union sReserved
    BY <1>1, <2>1, Zenon DEF AtTheirPlace
  <2>3. SlotsKept' /\ sOwed' = sOwed /\ sLine' \union sReserved' = sLine \union sReserved \union {t}
    <3>1. CASE Slots!Reserve(t)
      BY <1>1, <2>2, <3>1, ReserveKeeps, Zenon DEF SlotsKept, Slots!Reserve
    <3>2. CASE Slots!Join(t)
      BY <1>1, <2>2, <3>2 DEF SlotsKept, PoolKeeps, Slots!Join
    <3> QED BY <1>3, <3>1, <3>2, Zenon DEF QueuePush
  <2>4. AtTheirPlace' /\ Typed'
    <3>1. Typed'
      BY <1>1, <2>1, Zenon DEF Typed, Enters
    <3> QED BY <1>1, <1>2, <2>1, <2>3, <3>1, PlacesKept, Zenon DEF AtTheirPlace
  <2>5. Books'
    BY <1>1, <2>1, <2>3, BooksMove, Numbers DEF In, ItemPlaces, SlotPlaces
  <2> QED BY <1>2, <2>3, <2>4, <2>5, AccountedIsBooks, Zenon DEF QueueInv
<1>4. CASE PushGranted(t)
  <2>1. place[t] = "pushWait" /\ Enters(t, "store") /\ t \in sReserved
    BY <1>4, Zenon DEF PushGranted, Slots!Take
  <2>2. /\ SlotsKept' /\ sOwed' = sOwed - 1 /\ sOwed \in Nat /\ sOwed > 0
        /\ sLine' \union sReserved' = (sLine \union sReserved) \ {t}
    <3>1. PoolKeeps(sAvail, sLine, sReserved \ {t}, sOwed - 1) /\ sOwed > 0
      BY <1>1, <2>1, TakeKeeps, Zenon DEF SlotsKept
    <3>2. sAvail' = sAvail /\ sLine' = sLine /\ sReserved' = sReserved \ {t} /\ sOwed' = sOwed - 1
      BY <1>4, Zenon DEF PushGranted, Slots!Take
    <3>3. t \notin sLine /\ sOwed \in Nat
      BY <1>1, <2>1, Zenon DEF SlotsKept, PoolKeeps
    <3> QED BY <3>1, <3>2, <3>3, Zenon DEF SlotsKept
  <2>3. AtTheirPlace' /\ Typed'
    <3>1. Typed'
      BY <1>1, <2>1, Zenon DEF Typed, Enters
    <3> QED BY <1>1, <1>2, <2>1, <2>2, <3>1, PlacesKept, Zenon DEF AtTheirPlace
  <2>4. Books'
    BY <1>1, <2>1, <2>2, BooksMove, Numbers DEF In, ItemPlaces, SlotPlaces
  <2> QED BY <1>2, <2>2, <2>3, <2>4, AccountedIsBooks, Zenon DEF QueueInv
<1>5. CASE PushCanceled(t)
  <2>1. place[t] = "pushWait" /\ Enters(t, "idle") /\ t \in sLine
    BY <1>5, Zenon DEF PushCanceled, Slots!Leave
  <2>2. /\ SlotsKept' /\ sOwed' = sOwed
        /\ sLine' \union sReserved' = (sLine \union sReserved) \ {t}
    BY <1>1, <1>5, <2>1, Zenon DEF SlotsKept, PushCanceled, Slots!Leave, Slots!StepOut, PoolKeeps
  <2>3. AtTheirPlace' /\ Typed'
    <3>1. Typed'
      BY <1>1, <2>1, Zenon DEF Typed, Enters
    <3> QED BY <1>1, <1>2, <2>1, <2>2, <3>1, PlacesKept, Zenon DEF AtTheirPlace
  <2>4. Books'
    BY <1>1, <2>1, <2>2, BooksMove, Numbers DEF In, ItemPlaces, SlotPlaces
  <2> QED BY <1>2, <2>2, <2>3, <2>4, AccountedIsBooks, Zenon DEF QueueInv
<1>6. CASE QueueTryPush(t)
  <2>1. place[t] = "idle" /\ Enters(t, "store") /\ Slots!TakeNow
    BY <1>6, Zenon DEF QueueTryPush
  <2>2. /\ SlotsKept' /\ sOwed' = sOwed - 1 /\ sOwed \in Nat
        /\ sLine' \union sReserved' = sLine \union sReserved
    <3>1. Cardinality(sReserved) \in Nat
      BY <1>1, SubsetFinite, Zenon DEF SlotsKept, PoolKeeps
    <3> QED BY <1>1, <2>1, <3>1 DEF SlotsKept, Slots!TakeNow, PoolKeeps
  <2>3. AtTheirPlace' /\ Typed'
    <3>1. Typed'
      BY <1>1, <2>1, Zenon DEF Typed, Enters
    <3> QED BY <1>1, <1>2, <2>1, <2>2, <3>1, PlacesKept, Zenon DEF AtTheirPlace
  <2>4. Books'
    BY <1>1, <2>1, <2>2, BooksMove, Numbers DEF In, ItemPlaces, SlotPlaces
  <2> QED BY <1>2, <2>2, <2>3, <2>4, AccountedIsBooks, Zenon DEF QueueInv
<1> QED BY <1>3, <1>4, <1>5, <1>6, Zenon
(* The same steps at the semaphore of the items. *)
LEMMA ItemSteps ==
  ASSUME QueueInv, NEW t \in QueueUsers,
         QueuePop(t) \/ PopGranted(t) \/ PopCanceled(t) \/ QueueTryPop(t)
  PROVE  QueueInv'
<1> USE DEF Places
<1>1. /\ Typed /\ ItemsKept /\ SlotsKept /\ AtTheirPlace /\ Books
      /\ UNCHANGED <<hasSlots, orphans, length, sAvail, sLine, sReserved, sOwed>>
  BY AccountedIsBooks, Zenon DEF QueueInv, QueuePop, PopGranted, PopCanceled, QueueTryPop, slotVars
<1>2. SlotsKept'
  BY <1>1, Zenon DEF SlotsKept
<1>3. CASE QueuePop(t)
  <2>1. place[t] = "idle" /\ Enters(t, "popWait")
    BY <1>3, Zenon DEF QueuePop
  <2>2. t \notin iLine \union iReserved
    BY <1>1, <2>1, Zenon DEF AtTheirPlace
  <2>3. ItemsKept' /\ iOwed' = iOwed /\ iLine' \union iReserved' = iLine \union iReserved \union {t}
    <3>1. CASE ItemPool!Reserve(t)
      BY <1>1, <2>2, <3>1, ReserveKeeps, Zenon DEF ItemsKept, ItemPool!Reserve
    <3>2. CASE ItemPool!Join(t)
      BY <1>1, <2>2, <3>2 DEF ItemsKept, PoolKeeps, ItemPool!Join
    <3> QED BY <1>3, <3>1, <3>2, Zenon DEF QueuePop
  <2>4. AtTheirPlace' /\ Typed'
    <3>1. Typed'
      BY <1>1, <2>1, Zenon DEF Typed, Enters
    <3> QED BY <1>1, <1>2, <2>1, <2>3, <3>1, PlacesKept, Zenon DEF AtTheirPlace
  <2>5. Books'
    BY <1>1, <2>1, <2>3, BooksMove, Numbers DEF In, ItemPlaces, SlotPlaces
  <2> QED BY <1>2, <2>3, <2>4, <2>5, AccountedIsBooks, Zenon DEF QueueInv
<1>4. CASE PopGranted(t)
  <2>1. place[t] = "popWait" /\ Enters(t, "take") /\ t \in iReserved
    BY <1>4, Zenon DEF PopGranted, ItemPool!Take
  <2>2. /\ ItemsKept' /\ iOwed' = iOwed - 1 /\ iOwed \in Nat /\ iOwed > 0
        /\ iLine' \union iReserved' = (iLine \union iReserved) \ {t}
    <3>1. PoolKeeps(iAvail, iLine, iReserved \ {t}, iOwed - 1) /\ iOwed > 0
      BY <1>1, <2>1, TakeKeeps, Zenon DEF ItemsKept
    <3>2. iAvail' = iAvail /\ iLine' = iLine /\ iReserved' = iReserved \ {t} /\ iOwed' = iOwed - 1
      BY <1>4, Zenon DEF PopGranted, ItemPool!Take
    <3>3. t \notin iLine /\ iOwed \in Nat
      BY <1>1, <2>1, Zenon DEF ItemsKept, PoolKeeps
    <3> QED BY <3>1, <3>2, <3>3, Zenon DEF ItemsKept
  <2>3. AtTheirPlace' /\ Typed'
    <3>1. Typed'
      BY <1>1, <2>1, Zenon DEF Typed, Enters
    <3> QED BY <1>1, <1>2, <2>1, <2>2, <3>1, PlacesKept, Zenon DEF AtTheirPlace
  <2>4. Books'
    BY <1>1, <2>1, <2>2, BooksMove, Numbers DEF In, ItemPlaces, SlotPlaces
  <2> QED BY <1>2, <2>2, <2>3, <2>4, AccountedIsBooks, Zenon DEF QueueInv
<1>5. CASE PopCanceled(t)
  <2>1. place[t] = "popWait" /\ Enters(t, "idle") /\ t \in iLine
    BY <1>5, Zenon DEF PopCanceled, ItemPool!Leave
  <2>2. /\ ItemsKept' /\ iOwed' = iOwed
        /\ iLine' \union iReserved' = (iLine \union iReserved) \ {t}
    BY <1>1, <1>5, <2>1, Zenon DEF ItemsKept, PopCanceled, ItemPool!Leave, ItemPool!StepOut, PoolKeeps
  <2>3. AtTheirPlace' /\ Typed'
    <3>1. Typed'
      BY <1>1, <2>1, Zenon DEF Typed, Enters
    <3> QED BY <1>1, <1>2, <2>1, <2>2, <3>1, PlacesKept, Zenon DEF AtTheirPlace
  <2>4. Books'
    BY <1>1, <2>1, <2>2, BooksMove, Numbers DEF In, ItemPlaces, SlotPlaces
  <2> QED BY <1>2, <2>2, <2>3, <2>4, AccountedIsBooks, Zenon DEF QueueInv
<1>6. CASE QueueTryPop(t)
  <2>1. place[t] = "idle" /\ Enters(t, "take") /\ ItemPool!TakeNow
    BY <1>6, Zenon DEF QueueTryPop
  <2>2. /\ ItemsKept' /\ iOwed' = iOwed - 1 /\ iOwed \in Nat
        /\ iLine' \union iReserved' = iLine \union iReserved
    <3>1. Cardinality(iReserved) \in Nat
      BY <1>1, SubsetFinite, Zenon DEF ItemsKept, PoolKeeps
    <3> QED BY <1>1, <2>1, <3>1 DEF ItemsKept, ItemPool!TakeNow, PoolKeeps
  <2>3. AtTheirPlace' /\ Typed'
    <3>1. Typed'
      BY <1>1, <2>1, Zenon DEF Typed, Enters
    <3> QED BY <1>1, <1>2, <2>1, <2>2, <3>1, PlacesKept, Zenon DEF AtTheirPlace
  <2>4. Books'
    BY <1>1, <2>1, <2>2, BooksMove, Numbers DEF In, ItemPlaces, SlotPlaces
  <2> QED BY <1>2, <2>2, <2>3, <2>4, AccountedIsBooks, Zenon DEF QueueInv
<1> QED BY <1>3, <1>4, <1>5, <1>6, Zenon

(* Permits are put in: push_back has stored an item, or a slot is free again. *)
LEMMA AnnounceStep ==
  ASSUME QueueInv, NEW t \in QueueUsers, Announce(t)
  PROVE  QueueInv'
<1> USE DEF Places
<1>1. /\ Typed /\ SlotsKept /\ ItemsKept /\ AtTheirPlace /\ Books
      /\ UNCHANGED <<hasSlots, orphans, length, sAvail, sLine, sReserved, sOwed>>
      /\ place[t] = "announce" /\ Enters(t, "idle") /\ ItemPool!Put(1)
  BY AccountedIsBooks, Zenon DEF QueueInv, Announce, slotVars
<1>2. SlotsKept'
  BY <1>1, Zenon DEF SlotsKept
<1>3. PICK G \in SUBSET iLine :
         /\ G = iLine \/ Cardinality(G) = iAvail + 1
         /\ Cardinality(G) <= iAvail + 1
         /\ iLine' = iLine \ G /\ iReserved' = iReserved \union G
         /\ iAvail' = iAvail + 1 - Cardinality(G)
  BY <1>1, SameCardinality, Zenon DEF ItemPool!Put, ItemPool!StepOut
<1>4. iOwed' = iOwed + 1 /\ iOwed \in Nat
  BY <1>1, Zenon DEF ItemPool!Put, ItemsKept, PoolKeeps
<1>5. ItemsKept' /\ (iLine \union iReserved)' = iLine \union iReserved
  BY <1>1, <1>3, <1>4, PutKeeps, Zenon DEF ItemsKept
<1>6. Typed'
  BY <1>1, Zenon DEF Typed, Enters
<1>7. AtTheirPlace'
  <2>1. t \notin sLine \union sReserved /\ t \notin iLine \union iReserved
    BY <1>1, Zenon DEF AtTheirPlace
  <2> QED BY <1>1, <1>2, <1>5, <2>1, PlacesKept, Zenon
<1>8. Books'
  BY <1>1, <1>4, BooksMove, Numbers DEF In, ItemPlaces, SlotPlaces
<1> QED BY <1>2, <1>5, <1>6, <1>7, <1>8, AccountedIsBooks, Zenon DEF QueueInv

LEMMA FreeSlotStep ==
  ASSUME QueueInv, NEW t \in QueueUsers, FreeSlot(t)
  PROVE  QueueInv'
<1> USE DEF Places
<1>1. /\ Typed /\ SlotsKept /\ ItemsKept /\ AtTheirPlace /\ Books
      /\ UNCHANGED <<hasSlots, orphans, length, iAvail, iLine, iReserved, iOwed>>
      /\ place[t] \in {"free", "giveBack"} /\ Enters(t, "idle") /\ Slots!Put(1)
  BY AccountedIsBooks, Zenon DEF QueueInv, FreeSlot, itemVars
<1>2. ItemsKept'
  BY <1>1, Zenon DEF ItemsKept
<1>3. PICK G \in SUBSET sLine :
         /\ G = sLine \/ Cardinality(G) = sAvail + 1
         /\ Cardinality(G) <= sAvail + 1
         /\ sLine' = sLine \ G /\ sReserved' = sReserved \union G
         /\ sAvail' = sAvail + 1 - Cardinality(G)
  BY <1>1, SameCardinality, Zenon DEF Slots!Put, Slots!StepOut
<1>4. sOwed' = sOwed + 1 /\ sOwed \in Nat
  BY <1>1, Zenon DEF Slots!Put, SlotsKept, PoolKeeps
<1>5. SlotsKept' /\ (sLine \union sReserved)' = sLine \union sReserved
  BY <1>1, <1>3, <1>4, PutKeeps, Zenon DEF SlotsKept
<1>6. Typed'
  BY <1>1, Zenon DEF Typed, Enters
<1>7. AtTheirPlace'
  <2>1. t \notin sLine \union sReserved /\ t \notin iLine \union iReserved
    BY <1>1, Zenon DEF AtTheirPlace
  <2> QED BY <1>1, <1>2, <1>5, <2>1, PlacesKept, Zenon
<1>8. Books'
  <2>1. CASE place[t] = "free"
    BY <1>1, <1>4, <2>1, BooksMove, Numbers DEF In, ItemPlaces, SlotPlaces
  <2>2. CASE place[t] = "giveBack"
    BY <1>1, <1>4, <2>2, BooksMove, Numbers DEF In, ItemPlaces, SlotPlaces
  <2> QED BY <1>1, <2>1, <2>2, Zenon
<1> QED BY <1>2, <1>5, <1>6, <1>7, <1>8, AccountedIsBooks, Zenon DEF QueueInv

(* The steps at the deque, which leave the semaphores alone: the deque is not
   empty when a popper comes to it. *)
LEMMA DequeSteps ==
  ASSUME QueueInv, NEW t \in QueueUsers,
         \/ Store(t) \/ StoreThrows(t) \/ TakeItem(t) \/ TakeThrows(t)
         \/ ~hasSlots /\ (QueuePush(t) \/ QueueTryPush(t))
  PROVE  QueueInv'
<1> USE DEF Places
<1>1. Typed /\ SlotsKept /\ ItemsKept /\ AtTheirPlace /\ Books
  BY AccountedIsBooks, Zenon DEF QueueInv
<1>2. place[t] = "take" => length > 0
  <2>1. ASSUME place[t] = "take" PROVE Count("take") > 0
    <3>1. t \in Standing("take") /\ Standing("take") \in SUBSET QueueUsers
      BY <2>1, Zenon DEF Standing
    <3> QED BY <3>1, SubsetFinite, FS_EmptySet DEF Count
  <2>2. Count("take") \in Nat /\ Count("announce") \in Nat
    <3>1. \A l \in Places : Standing(l) \in SUBSET QueueUsers
      BY Zenon DEF Standing
    <3> QED BY <3>1, SubsetFinite, Zenon DEF Count
  <2> QED BY <1>1, <2>1, <2>2 DEF Books, ItemsKept, PoolKeeps, Typed
<1> DEFINE Keeps == orphans' = orphans
<1>3. /\ UNCHANGED <<hasSlots, sAvail, sLine, sReserved, sOwed, iAvail, iLine, iReserved, iOwed>>
      /\ \/ Keeps /\ place[t] = "store" /\ Enters(t, "announce") /\ length' = length + 1
         \/ /\ Keeps /\ place[t] = "store" /\ length' = length
            /\ Enters(t, IF hasSlots THEN "giveBack" ELSE "idle")
         \/ /\ Keeps /\ place[t] = "take" /\ length' = length - 1
            /\ Enters(t, IF hasSlots THEN "free" ELSE "idle")
         \/ /\ Keeps /\ ~hasSlots /\ place[t] = "idle" /\ length' = length
            /\ Enters(t, "store")
         \/ orphans' = orphans + 1 /\ place[t] = "take" /\ length' = length /\ Enters(t, "idle")
  <2>1. CASE Store(t)
    BY <2>1, Zenon DEF Store, slotVars, itemVars
  <2>2. CASE StoreThrows(t)
    BY <2>2, Zenon DEF StoreThrows, slotVars, itemVars
  <2>3. CASE TakeItem(t)
    <3>1. length # 0
      BY <1>2, <2>3 DEF TakeItem
    <3> QED BY <2>3, <3>1, Zenon DEF TakeItem, slotVars, itemVars
  <2>4. CASE TakeThrows(t)
    BY <2>4, Zenon DEF TakeThrows, slotVars, itemVars
  <2>5. CASE ~hasSlots /\ (QueuePush(t) \/ QueueTryPush(t))
    BY <2>5, Zenon DEF QueuePush, QueueTryPush, slotVars, itemVars
  <2> QED BY <2>1, <2>2, <2>3, <2>4, <2>5, Zenon
<1>4. SlotsKept' /\ ItemsKept'
  BY <1>1, <1>3, Zenon DEF SlotsKept, ItemsKept
<1>5. t \notin sLine \union sReserved /\ t \notin iLine \union iReserved
  BY <1>1, <1>3, Zenon DEF AtTheirPlace
<1>6. Typed'
  <2>1. length' \in Nat /\ orphans' \in Nat
    BY <1>1, <1>2, <1>3 DEF Typed
  <2> QED BY <1>1, <1>3, <2>1, Zenon DEF Typed, Enters
<1>7. PICK b \in {"announce", "giveBack", "free", "idle", "store"} :
         Enters(t, b) /\ (b \in {"giveBack", "free"} => hasSlots)
  BY <1>3, Zenon
<1>8. AtTheirPlace'
  BY <1>1, <1>3, <1>4, <1>5, <1>7, PlacesKept, Zenon
<1>9. Books'
  <2>1. CASE Keeps /\ place[t] = "store" /\ Enters(t, "announce") /\ length' = length + 1
    BY <1>1, <1>3, <2>1, BooksMove, Numbers DEF In, ItemPlaces, SlotPlaces
  <2>2. CASE /\ Keeps /\ place[t] = "store" /\ length' = length
             /\ Enters(t, IF hasSlots THEN "giveBack" ELSE "idle")
    BY <1>1, <1>3, <2>2, BooksMove, Numbers DEF In, ItemPlaces, SlotPlaces
  <2>3. CASE /\ Keeps /\ place[t] = "take" /\ length' = length - 1
             /\ Enters(t, IF hasSlots THEN "free" ELSE "idle")
    BY <1>1, <1>3, <2>3, BooksMove, Numbers DEF In, ItemPlaces, SlotPlaces
  <2>4. CASE /\ Keeps /\ ~hasSlots /\ place[t] = "idle" /\ length' = length
             /\ Enters(t, "store")
    BY <1>1, <1>3, <2>4, BooksMove, Numbers DEF In, ItemPlaces, SlotPlaces
  <2>5. CASE orphans' = orphans + 1 /\ place[t] = "take" /\ length' = length /\ Enters(t, "idle")
    BY <1>1, <1>3, <2>5, BooksMove, Numbers DEF In, ItemPlaces, SlotPlaces
  <2> QED BY <1>3, <2>1, <2>2, <2>3, <2>4, <2>5, Zenon
<1> QED BY <1>4, <1>6, <1>8, <1>9, AccountedIsBooks, Zenon DEF QueueInv

LEMMA QueueStepInv == QueueInv /\ [QueueNext]_asyncQueueVars => QueueInv'
<1> SUFFICES ASSUME QueueInv, [QueueNext]_asyncQueueVars PROVE QueueInv'
  BY Zenon
<1>1. ASSUME NEW t \in QueueUsers, PushGranted(t) \/ PushCanceled(t)
      PROVE  hasSlots
  <2>1. place[t] = "pushWait"
    BY <1>1, Zenon DEF PushGranted, PushCanceled
  <2> QED BY <2>1, Zenon DEF QueueInv, AtTheirPlace
<1>2. ASSUME NEW t \in QueueUsers,
             \/ QueuePush(t) \/ PushGranted(t) \/ PushCanceled(t) \/ QueueTryPush(t)
             \/ Store(t) \/ StoreThrows(t) \/ TakeItem(t) \/ TakeThrows(t)
      PROVE  QueueInv'
  BY <1>1, <1>2, SlotSteps, DequeSteps, Zenon
<1>3. ASSUME NEW t \in QueueUsers,
             \/ Announce(t) \/ FreeSlot(t)
             \/ QueuePop(t) \/ PopGranted(t) \/ PopCanceled(t) \/ QueueTryPop(t)
      PROVE  QueueInv'
  BY <1>3, AnnounceStep, FreeSlotStep, ItemSteps, Zenon
<1>4. CASE UNCHANGED asyncQueueVars
  BY <1>4, Zenon DEF asyncQueueVars, slotVars, itemVars, QueueInv, Typed, SlotsKept, ItemsKept,
              AtTheirPlace, Accounted, Standing
<1> QED BY <1>2, <1>3, <1>4, Zenon DEF QueueNext

(* The items of the deque and the slots of a bounded queue are accounted for at
   every step, and a popper never finds the deque empty. *)
THEOREM BooksBalance == QueueSpec => []Accounted
<1>1. QueueInv => Accounted
  BY Zenon DEF QueueInv
<1> QED BY <1>1, QueueInitInv, QueueStepInv, PTL DEF QueueSpec

(* When nobody is in the middle of an operation, nobody waits for an item that is
   there, but for the items whose pop threw, or for a slot that is free. *)
THEOREM NobodyIsStuck == QueueSpec => []NoStuckWaiter
<1>1. QueueInv => NoStuckWaiter
  <2> SUFFICES ASSUME QueueInv,
                      \A t \in QueueUsers : place[t] = "idle" \/ t \in sLine \/ t \in iLine
               PROVE  /\ length > orphans => iLine = {}
                      /\ hasSlots /\ length < Capacity => sLine = {}
    BY Zenon DEF NoStuckWaiter
  <2>1. Typed /\ SlotsKept /\ ItemsKept /\ AtTheirPlace /\ Books
    BY AccountedIsBooks, Zenon DEF QueueInv
  <2>2. sReserved = {} /\ iReserved = {}
    BY <2>1, Zenon DEF AtTheirPlace, SlotsKept, ItemsKept, PoolKeeps
  <2>3. \A l \in {"take", "announce", "store", "free", "giveBack"} : Standing(l) = {}
    BY <2>1, Zenon DEF AtTheirPlace, Standing
  <2>4. \A l \in {"take", "announce", "store", "free", "giveBack"} : Count(l) = 0
    BY <2>3, FS_EmptySet, Zenon DEF Count
  <2>5. sOwed = sAvail /\ iOwed = iAvail /\ sAvail \in Nat /\ iAvail \in Nat
    BY <2>1, <2>2, FS_EmptySet DEF SlotsKept, ItemsKept, PoolKeeps
  <2>6. length = iAvail + orphans /\ (hasSlots => Capacity = sAvail + length)
    BY <2>1, <2>4, <2>5 DEF Books, Typed
  <2> QED BY <2>1, <2>5, <2>6 DEF SlotsKept, ItemsKept, PoolKeeps, Typed
<1> QED BY <1>1, QueueInitInv, QueueStepInv, PTL DEF QueueSpec
==============================================================================
