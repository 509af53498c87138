----------------------------- MODULE LoopProofs ------------------------------
(***************************************************************************)
(* Proofs about what coroutines hand to the loop and how it comes back:    *)
(* UvExecutor, PollWait, Directory and BlockingWork, for any sets of       *)
(* closures and coroutines.                                                *)
(***************************************************************************)
EXTENDS UvExecutor, PollWait, Directory, BlockingWork, TLAPS

------------------------------------------------------------------------------
(***************************************************************************)
(* UvExecutor: every closure is called in the order of the queue, and a    *)
(* timed closure once at most, for any set of closures.                    *)
(***************************************************************************)

\* The item occurs in the sequence; it occurs in one place at most.
Occurs(s, i) == \E k \in 1 .. Len(s) : s[k] = i
Single(s) == \A k, m \in 1 .. Len(s) : s[k] = s[m] => k = m

ExecutorTypes ==
    /\ q \in Seq(Items) /\ local \in Seq(Items) /\ ran \in Seq(Items) /\ pushed \in Seq(Items)
    /\ want \in SUBSET Items
    /\ enq \in [Items -> {"idle", "checked", "pushed", "accepted", "refused"}]
    /\ op \in [Timed -> {"new", "armed", "registered", "gone"}]
    /\ signal \in [Timed -> BOOLEAN]
    /\ handler \in [Timed -> BOOLEAN]
    /\ done \in [Timed -> BOOLEAN]
    /\ timer \in [Timed -> {"none", "active", "closed"}]
    /\ runs \in [Timed -> Nat]

\* The queue, on_async's local deque and the items called so far, put together,
\* are the items in the order of push_back; each was pushed once, by an enqueue()
\* that got beyond the test of closing.
ClosuresInv ==
    /\ pushed = ran \o local \o q
    /\ loop = "idle" => local = <<>>
    /\ Single(pushed)
    /\ \A i \in Items : Occurs(pushed, i) => enq[i] \in {"pushed", "accepted"}
    /\ \A i \in Items : enq[i] \in {"checked", "pushed", "accepted"} => i \in want

\* A TimerOp is completed through done, except that the func of a slot that was
\* signalled before is queued itself: then there is no TimerOp to complete.
Untimed(o) ==
    /\ op[o] = "new" =>
          ~handler[o] /\ <<"start", o>> \notin want /\ <<"cancel", o>> \notin want
          /\ <<"func", o>> \notin want /\ timer[o] = "none" /\ ~done[o]
    /\ <<"func", o>> \in want =>
          /\ op[o] = "registered" /\ signal[o] /\ ~handler[o] /\ ~done[o] /\ timer[o] = "none"
          /\ <<"start", o>> \notin want /\ <<"cancel", o>> \notin want
Called(o) ==
    /\ <<"func", o>> \notin want => runs[o] = IF done[o] THEN 1 ELSE 0
    /\ <<"func", o>> \in want => runs[o] = IF Occurs(ran, <<"func", o>>) THEN 1 ELSE 0
    /\ done[o] => timer[o] # "active"

ExecutorInv == ExecutorTypes /\ ClosuresInv /\ \A o \in Timed : Untimed(o) /\ Called(o)

LEMMA ItemKinds ==
    /\ \A o \in Timed : <<"start", o>> \in Items /\ <<"cancel", o>> \in Items /\ <<"func", o>> \in Items
    /\ \A i \in Items : \/ i[1] = "job"
                        \/ i[1] \in {"start", "cancel", "func"} /\ i[2] \in Timed /\ i = <<i[1], i[2]>>
  BY DEF Items

LEMMA ExecutorInitInv == Init => ExecutorInv
<1> SUFFICES ASSUME Init PROVE ExecutorInv
  BY Zenon
<1>1. ExecutorTypes
  BY DEF Init, ExecutorTypes, Items
<1>2. pushed = <<>> /\ ran = <<>> /\ local = <<>> /\ q = <<>> /\ Len(<<>>) = 0
  BY Zenon DEF Init
<1>3. \A i : ~Occurs(pushed, i) /\ ~Occurs(ran, i)
  BY <1>2 DEF Occurs
<1>4. ClosuresInv
  BY <1>2, <1>3 DEF Init, ClosuresInv, Single
<1>5. \A o \in Timed : Untimed(o) /\ Called(o)
  BY <1>3, Zenon DEF Init, Untimed, Called
<1> QED BY <1>1, <1>4, <1>5, Zenon DEF ExecutorInv

----------------------------------------------------------------------------
(* Sequences. *)
LEMMA AppendOccurs ==
    ASSUME NEW S, NEW s \in Seq(S), NEW x \in S, NEW i
    PROVE  /\ Append(s, x) \in Seq(S)
           /\ Occurs(Append(s, x), i) <=> Occurs(s, i) \/ i = x
           /\ Single(s) /\ ~Occurs(s, x) => Single(Append(s, x))
<1>1. /\ Append(s, x) \in Seq(S) /\ Len(s) \in Nat /\ Len(Append(s, x)) = Len(s) + 1
      /\ Append(s, x)[Len(s) + 1] = x
      /\ \A k \in 1 .. Len(s) : Append(s, x)[k] = s[k]
  OBVIOUS
<1>2. Occurs(Append(s, x), i) <=> Occurs(s, i) \/ i = x
  BY <1>1 DEF Occurs
<1>3. ASSUME Single(s), ~Occurs(s, x) PROVE Single(Append(s, x))
  BY <1>1, <1>3 DEF Single, Occurs
<1> QED BY <1>1, <1>2, <1>3, Zenon

LEMMA ConcatFacts ==
    ASSUME NEW S, NEW r \in Seq(S), NEW l \in Seq(S), NEW s \in Seq(S)
    PROVE  /\ \A x \in S : r \o l \o Append(s, x) = Append(r \o l \o s, x)
           /\ l # <<>> => /\ Append(r, Head(l)) \o Tail(l) \o s = r \o l \o s
                         /\ Tail(l) \in Seq(S) /\ Head(l) \in S
           /\ r \o <<>> \o s = r \o s \o <<>>
           /\ l # <<>> /\ Single(r \o l \o s) => ~Occurs(r, Head(l))
           /\ l # <<>> => Occurs(r \o l \o s, Head(l))
<1>1. \A x \in S : r \o l \o Append(s, x) = Append(r \o l \o s, x)
  OBVIOUS
<1>2. ASSUME l # <<>>
      PROVE  /\ Append(r, Head(l)) \o Tail(l) \o s = r \o l \o s
             /\ Tail(l) \in Seq(S) /\ Head(l) \in S
  <2>1. Tail(l) \in Seq(S) /\ Head(l) \in S /\ l = <<Head(l)>> \o Tail(l)
    BY <1>2
  <2>2. Append(r, Head(l)) \o Tail(l) = r \o l
    BY <1>2, <2>1
  <2> QED BY <2>1, <2>2, Zenon
<1>3. r \o <<>> \o s = r \o s \o <<>>
  OBVIOUS
<1>4. ASSUME l # <<>>
      PROVE  /\ Len(r) \in Nat /\ Len(r) + 1 \in 1 .. Len(r \o l \o s)
             /\ (r \o l \o s)[Len(r) + 1] = Head(l)
             /\ \A k \in 1 .. Len(r) : k \in 1 .. Len(r \o l \o s) /\ (r \o l \o s)[k] = r[k]
  <2>1. Len(l) > 0 /\ Len(l) \in Nat /\ Len(r) \in Nat /\ Len(s) \in Nat /\ Head(l) = l[1]
    BY <1>4
  <2>2. /\ r \o l \in Seq(S) /\ Len(r \o l) = Len(r) + Len(l)
        /\ r \o l \o s \in Seq(S) /\ Len(r \o l \o s) = Len(r) + Len(l) + Len(s)
    OBVIOUS
  <2>3. \A k \in 1 .. Len(r) + Len(l) : (r \o l \o s)[k] = (r \o l)[k]
    BY <2>1, <2>2
  <2>4. (r \o l)[Len(r) + 1] = l[1] /\ \A k \in 1 .. Len(r) : (r \o l)[k] = r[k]
    BY <2>1, <2>2
  <2> QED BY <2>1, <2>2, <2>3, <2>4
<1>5. ASSUME l # <<>>, Single(r \o l \o s) PROVE ~Occurs(r, Head(l))
  <2> SUFFICES ASSUME NEW k \in 1 .. Len(r), r[k] = Head(l) PROVE FALSE
    BY Zenon DEF Occurs
  <2>1. k = Len(r) + 1
    BY <1>4, <1>5, Zenon DEF Single
  <2> QED BY <1>4, <1>5, <2>1
<1>6. l # <<>> => Occurs(r \o l \o s, Head(l))
  BY <1>4, Zenon DEF Occurs
<1> QED BY <1>1, <1>2, <1>3, <1>5, <1>6, Zenon

LEMMA RanIsPushed ==
    ASSUME ExecutorTypes, ClosuresInv, NEW i
    PROVE  Occurs(ran, i) => Occurs(pushed, i)
<1> SUFFICES ASSUME NEW k \in 1 .. Len(ran), ran[k] = i PROVE Occurs(pushed, i)
  BY Zenon DEF Occurs
<1>1. ran \o local \in Seq(Items) /\ Len(ran \o local) = Len(ran) + Len(local)
  BY DEF ExecutorTypes
<1>2. k \in 1 .. Len(ran \o local) /\ (ran \o local)[k] = i
  BY <1>1 DEF ExecutorTypes
<1>3. k \in 1 .. Len(pushed) /\ pushed[k] = i
  BY <1>1, <1>2 DEF ExecutorTypes, ClosuresInv
<1> QED BY <1>3, Zenon DEF Occurs

----------------------------------------------------------------------------
(* The first to exchange done calls func. *)
LEMMA CompleteStep ==
    ASSUME ExecutorTypes, NEW o \in Timed, Untimed(o), Called(o), <<"func", o>> \notin want,
           Complete(o)
    PROVE  /\ done' \in [Timed -> BOOLEAN] /\ runs' \in [Timed -> Nat]
           /\ timer' \in [Timed -> {"none", "active", "closed"}]
           /\ \A p \in Timed \ {o} : done'[p] = done[p] /\ runs'[p] = runs[p] /\ timer'[p] = timer[p]
           /\ done'[o] /\ runs'[o] = 1 /\ timer'[o] # "active"
<1>1. CASE done[o]
  BY <1>1, Zenon DEF Complete, Called, ExecutorTypes
<1>2. CASE ~done[o]
  <2>1. /\ done' = [done EXCEPT ![o] = TRUE]
        /\ timer' = [timer EXCEPT ![o] = IF timer[o] = "active" THEN "closed" ELSE timer[o]]
        /\ runs' = [runs EXCEPT ![o] = runs[o] + 1]
    BY <1>2, Zenon DEF Complete
  <2>2. runs[o] = 0
    BY <1>2, Zenon DEF Called
  <2>3. /\ done' \in [Timed -> BOOLEAN] /\ done'[o]
        /\ \A p \in Timed \ {o} : done'[p] = done[p]
    BY <2>1, Zenon DEF ExecutorTypes
  <2>4. /\ timer' \in [Timed -> {"none", "active", "closed"}] /\ timer'[o] # "active"
        /\ \A p \in Timed \ {o} : timer'[p] = timer[p]
    BY <2>1, Zenon DEF ExecutorTypes
  <2>5. /\ runs' \in [Timed -> Nat] /\ runs'[o] = 1
        /\ \A p \in Timed \ {o} : runs'[p] = runs[p]
    BY <2>1, <2>2 DEF ExecutorTypes
  <2> QED BY <2>3, <2>4, <2>5, Zenon
<1> QED BY <1>1, <1>2, Zenon

LEMMA StartStep ==
    ASSUME ExecutorTypes, NEW o \in Timed, Called(o), StartTimer(o)
    PROVE  /\ done' = done /\ runs' = runs
           /\ timer' \in [Timed -> {"none", "active", "closed"}]
           /\ \A p \in Timed \ {o} : timer'[p] = timer[p]
           /\ done[o] => timer'[o] # "active"
  BY Zenon DEF StartTimer, Called, ExecutorTypes

LEMMA ExecutorStepInv == ExecutorInv /\ [Next]_vars => ExecutorInv'
<1> SUFFICES ASSUME ExecutorInv, [Next]_vars PROVE ExecutorInv'
  BY Zenon
<1>t. ExecutorTypes /\ ClosuresInv /\ \A o \in Timed : Untimed(o) /\ Called(o)
  BY Zenon DEF ExecutorInv
<1>s. /\ q \in Seq(Items) /\ local \in Seq(Items) /\ ran \in Seq(Items) /\ pushed \in Seq(Items)
  BY <1>t, Zenon DEF ExecutorTypes
<1>c. pushed = ran \o local \o q /\ Single(pushed)
  BY <1>t, Zenon DEF ClosuresInv
<1> USE DEF queueVars, loopVars, lifeVars, opVars
<1>1. ASSUME NEW i \in Items, EnqueueCheck(i) PROVE ExecutorInv'
  <2>1. ExecutorTypes'
    BY <1>t, <1>1, Zenon DEF EnqueueCheck, ExecutorTypes
  <2>2. ~Occurs(pushed, i) /\ \A j \in Items \ {i} : enq'[j] = enq[j]
    BY <1>t, <1>1, Zenon DEF EnqueueCheck, ExecutorTypes, ClosuresInv
  <2>3. ClosuresInv'
    BY <1>t, <1>1, <2>2, Zenon DEF EnqueueCheck, ClosuresInv
  <2>4. \A o \in Timed : Untimed(o)' /\ Called(o)'
    BY <1>t, <1>1, Zenon DEF EnqueueCheck, Untimed, Called
  <2> QED BY <2>1, <2>3, <2>4, Zenon DEF ExecutorInv
<1>2. ASSUME NEW i \in Items, EnqueuePush(i) PROVE ExecutorInv'
  <2>1. /\ enq[i] = "checked" /\ q' = Append(q, i) /\ pushed' = Append(pushed, i)
        /\ enq' = [enq EXCEPT ![i] = "pushed"]
        /\ ran' = ran /\ local' = local /\ loop' = loop /\ want' = want
        /\ op' = op /\ signal' = signal /\ handler' = handler /\ done' = done
        /\ timer' = timer /\ runs' = runs
    BY <1>2, Zenon DEF EnqueuePush
  <2>2. ExecutorTypes'
    BY <1>t, <2>1 DEF ExecutorTypes
  <2>3. i \in want
    BY <1>t, <2>1, Zenon DEF ClosuresInv
  <2>4. ~Occurs(pushed, i)
    BY <1>t, <2>1, Zenon DEF ClosuresInv
  <2>5. pushed' = ran' \o local' \o q'
    <3>1. ran \o local \o Append(q, i) = Append(ran \o local \o q, i)
      <4>1. ran \in Seq(Items) /\ local \in Seq(Items) /\ q \in Seq(Items)
        BY <1>s, Zenon
      <4>2. \A x \in Items : ran \o local \o Append(q, x) = Append(ran \o local \o q, x)
        BY ONLY <4>1
      <4> QED BY <4>2, Zenon
    <3> QED BY <1>c, <2>1, <3>1, Zenon
  <2>6. Single(pushed') /\ \A j \in Items : Occurs(pushed', j) <=> Occurs(pushed, j) \/ j = i
    <3>1. \A j : Occurs(Append(pushed, i), j) <=> Occurs(pushed, j) \/ j = i
      BY <1>s, AppendOccurs, Zenon
    <3>2. Single(Append(pushed, i))
      BY <1>c, <1>s, <2>4, AppendOccurs, Zenon
    <3> QED BY <2>1, <3>1, <3>2, Zenon
  <2>7. /\ enq'[i] = "pushed" /\ \A j \in Items \ {i} : enq'[j] = enq[j]
    BY <1>t, <2>1, Zenon DEF ExecutorTypes
  <2>8. ClosuresInv'
    BY <1>t, <2>1, <2>3, <2>5, <2>6, <2>7, Zenon DEF ClosuresInv
  <2>9. \A o \in Timed : Untimed(o)' /\ Called(o)'
    BY <1>t, <2>1, Zenon DEF Untimed, Called
  <2> QED BY <2>2, <2>8, <2>9, Zenon DEF ExecutorInv
<1>3. ASSUME NEW i \in Items, EnqueueSend(i) PROVE ExecutorInv'
  <2>1. ExecutorTypes'
    BY <1>t, <1>3, Zenon DEF EnqueueSend, ExecutorTypes
  <2>2. enq'[i] = "accepted" /\ \A j \in Items \ {i} : enq'[j] = enq[j]
    BY <1>t, <1>3, Zenon DEF EnqueueSend, ExecutorTypes
  <2>3. ClosuresInv'
    BY <1>t, <1>3, <2>2, Zenon DEF EnqueueSend, ClosuresInv
  <2>4. \A o \in Timed : Untimed(o)' /\ Called(o)'
    BY <1>t, <1>3, Zenon DEF EnqueueSend, Untimed, Called
  <2> QED BY <2>1, <2>3, <2>4, Zenon DEF ExecutorInv
<1>4. ASSUME NEW o \in Timed, Register(o) PROVE ExecutorInv'
  <2>1. /\ op[o] = "new"
        /\ op' = [op EXCEPT ![o] = IF dropped THEN "gone"
                                   ELSE IF signal[o] THEN "registered" ELSE "armed"]
        /\ want' = IF ~dropped /\ signal[o] THEN want \union {<<"func", o>>} ELSE want
        /\ handler' = [handler EXCEPT ![o] = ~dropped /\ ~signal[o]]
        /\ q' = q /\ pushed' = pushed /\ ran' = ran /\ local' = local /\ loop' = loop
        /\ enq' = enq /\ signal' = signal /\ done' = done /\ timer' = timer /\ runs' = runs
    BY <1>4, Zenon DEF Register
  <2>2. ExecutorTypes'
    BY <1>t, <2>1, ItemKinds DEF ExecutorTypes
  <2>3. ClosuresInv'
    BY <1>t, <2>1, Zenon DEF ClosuresInv
  <2>4. ASSUME NEW p \in Timed, p # o PROVE Untimed(p)' /\ Called(p)'
    <3>1. /\ op'[p] = op[p] /\ handler'[p] = handler[p]
          /\ <<"start", p>> \in want' <=> <<"start", p>> \in want
          /\ <<"cancel", p>> \in want' <=> <<"cancel", p>> \in want
          /\ <<"func", p>> \in want' <=> <<"func", p>> \in want
      BY <1>t, <2>1, <2>4, Zenon DEF ExecutorTypes
    <3> QED BY <1>t, <2>1, <3>1, Zenon DEF Untimed, Called
  <2>5. /\ Untimed(o) /\ Called(o) /\ ~Occurs(pushed, <<"func", o>>)
        /\ <<"start", o>> \notin want' /\ <<"cancel", o>> \notin want'
        /\ <<"func", o>> \in want' <=> ~dropped /\ signal[o]
    BY <1>t, <2>1, ItemKinds DEF Untimed, ClosuresInv
  <2>6. ~Occurs(ran, <<"func", o>>)
    BY <1>t, <2>5, RanIsPushed, Zenon
  <2>7. Untimed(o)'
    BY <1>t, <2>1, <2>5 DEF Untimed, ExecutorTypes
  <2>8. Called(o)'
    BY <1>t, <2>1, <2>5, <2>6, Zenon DEF Untimed, Called, ExecutorTypes
  <2> QED BY <2>2, <2>3, <2>4, <2>7, <2>8, Zenon DEF ExecutorInv
<1>5. ASSUME NEW o \in Timed, Launch(o) PROVE ExecutorInv'
  <2>1. /\ op[o] = "armed" /\ op' = [op EXCEPT ![o] = "registered"]
        /\ \/ StartTimer(o) /\ want' = want
           \/ /\ want' = want \union {<<"start", o>>}
              /\ done' = done /\ timer' = timer /\ runs' = runs
        /\ q' = q /\ pushed' = pushed /\ ran' = ran /\ local' = local /\ loop' = loop
        /\ enq' = enq /\ signal' = signal /\ handler' = handler
    BY <1>5, Zenon DEF Launch
  <2>2. <<"func", o>> \notin want /\ <<"func", o>> \notin want'
    BY <1>t, <2>1, Zenon DEF Untimed
  <2>3. /\ done' = done /\ runs' = runs
        /\ timer' \in [Timed -> {"none", "active", "closed"}]
        /\ \A p \in Timed \ {o} : timer'[p] = timer[p]
        /\ done[o] => timer'[o] # "active"
    <3>1. CASE StartTimer(o)
      BY <1>t, <3>1, StartStep, Zenon
    <3>2. CASE timer' = timer /\ done' = done /\ runs' = runs
      BY <1>t, <3>2, Zenon DEF ExecutorTypes, Called
    <3> QED BY <2>1, <3>1, <3>2, Zenon
  <2>4. ExecutorTypes'
    BY <1>t, <2>1, <2>3, ItemKinds, Zenon DEF ExecutorTypes
  <2>5. ClosuresInv'
    BY <1>t, <2>1, Zenon DEF ClosuresInv
  <2>6. ASSUME NEW p \in Timed, p # o PROVE Untimed(p)' /\ Called(p)'
    <3>1. /\ op'[p] = op[p]
          /\ <<"start", p>> \in want' <=> <<"start", p>> \in want
          /\ <<"cancel", p>> \in want' <=> <<"cancel", p>> \in want
          /\ <<"func", p>> \in want' <=> <<"func", p>> \in want
      BY <1>t, <2>1, <2>6, Zenon DEF ExecutorTypes
    <3> QED BY <1>t, <2>1, <2>3, <2>6, <3>1, Zenon DEF Untimed, Called
  <2>7. op'[o] = "registered"
    BY <1>t, <2>1, Zenon DEF ExecutorTypes
  <2>8. Untimed(o)' /\ Called(o)'
    BY <1>t, <2>2, <2>3, <2>7, Zenon DEF Untimed, Called
  <2> QED BY <2>4, <2>5, <2>6, <2>8, Zenon DEF ExecutorInv
<1>6. ASSUME NEW o \in Timed, LaunchRefused(o) PROVE ExecutorInv'
  <2>1. /\ <<"start", o>> \in want /\ enq[<<"start", o>>] = "refused" /\ Complete(o)
        /\ want' = want \ {<<"start", o>>}
        /\ q' = q /\ pushed' = pushed /\ ran' = ran /\ local' = local /\ loop' = loop
        /\ enq' = enq /\ signal' = signal /\ handler' = handler /\ op' = op
    BY <1>6, Zenon DEF LaunchRefused
  <2>2. <<"func", o>> \notin want
    BY <1>t, <2>1, Zenon DEF Untimed
  <2>3. /\ done' \in [Timed -> BOOLEAN] /\ runs' \in [Timed -> Nat]
        /\ timer' \in [Timed -> {"none", "active", "closed"}]
        /\ \A p \in Timed \ {o} : done'[p] = done[p] /\ runs'[p] = runs[p] /\ timer'[p] = timer[p]
        /\ done'[o] /\ runs'[o] = 1 /\ timer'[o] # "active"
    BY <1>t, <2>1, <2>2, CompleteStep, Zenon
  <2>4. ExecutorTypes'
    BY <1>t, <2>1, <2>3, Zenon DEF ExecutorTypes
  <2>5. ClosuresInv'
    BY <1>t, <2>1, Zenon DEF ClosuresInv
  <2>6. ASSUME NEW p \in Timed, p # o PROVE Untimed(p)' /\ Called(p)'
    <3>1. <<"func", p>> \in want' <=> <<"func", p>> \in want
      BY <2>1, Zenon
    <3>2. Untimed(p)'
      BY <1>t, <2>1, <2>3, <2>6, Zenon DEF Untimed
    <3>3. Called(p)'
      BY <1>t, <2>1, <2>3, <2>6, <3>1, Zenon DEF Called
    <3> QED BY <3>2, <3>3, Zenon
  <2>7. Untimed(o)' /\ Called(o)'
    BY <1>t, <2>1, <2>2, <2>3, Zenon DEF Untimed, Called
  <2> QED BY <2>4, <2>5, <2>6, <2>7, Zenon DEF ExecutorInv
<1>7. ASSUME NEW o \in Timed, Emit(o) PROVE ExecutorInv'
  <2>1. /\ ~signal[o] /\ signal' = [signal EXCEPT ![o] = TRUE]
        /\ want' = IF handler[o] THEN want \union {<<"cancel", o>>} ELSE want
        /\ q' = q /\ pushed' = pushed /\ ran' = ran /\ local' = local /\ loop' = loop
        /\ enq' = enq /\ op' = op /\ handler' = handler /\ done' = done /\ timer' = timer
        /\ runs' = runs
    BY <1>7, Zenon DEF Emit
  <2>2. ExecutorTypes'
    BY <1>t, <2>1, ItemKinds DEF ExecutorTypes
  <2>3. ClosuresInv'
    BY <1>t, <2>1, Zenon DEF ClosuresInv
  <2>4. ASSUME NEW p \in Timed, p # o PROVE Untimed(p)' /\ Called(p)'
    <3>1. /\ signal'[p] = signal[p]
          /\ <<"start", p>> \in want' <=> <<"start", p>> \in want
          /\ <<"cancel", p>> \in want' <=> <<"cancel", p>> \in want
          /\ <<"func", p>> \in want' <=> <<"func", p>> \in want
      BY <1>t, <2>1, <2>4, Zenon DEF ExecutorTypes
    <3> QED BY <1>t, <2>1, <3>1, Zenon DEF Untimed, Called
  <2>5. <<"func", o>> \notin want /\ <<"func", o>> \notin want'
    BY <1>t, <2>1, Zenon DEF Untimed
  <2>6. Untimed(o)' /\ Called(o)'
    BY <1>t, <2>1, <2>5, Zenon DEF Untimed, Called
  <2> QED BY <2>2, <2>3, <2>4, <2>6, Zenon DEF ExecutorInv
<1>8. ASSUME NEW o \in Timed, TimerFires(o) PROVE ExecutorInv'
  <2>1. /\ timer[o] = "active" /\ Complete(o)
        /\ q' = q /\ pushed' = pushed /\ ran' = ran /\ local' = local /\ loop' = loop
        /\ enq' = enq /\ signal' = signal /\ handler' = handler /\ op' = op /\ want' = want
    BY <1>8, Zenon DEF TimerFires
  <2>2. <<"func", o>> \notin want /\ op[o] # "new"
    BY <1>t, <2>1, Zenon DEF Untimed
  <2>3. /\ done' \in [Timed -> BOOLEAN] /\ runs' \in [Timed -> Nat]
        /\ timer' \in [Timed -> {"none", "active", "closed"}]
        /\ \A p \in Timed \ {o} : done'[p] = done[p] /\ runs'[p] = runs[p] /\ timer'[p] = timer[p]
        /\ done'[o] /\ runs'[o] = 1 /\ timer'[o] # "active"
    BY <1>t, <2>1, <2>2, CompleteStep, Zenon
  <2>4. ExecutorTypes'
    BY <1>t, <2>1, <2>3, Zenon DEF ExecutorTypes
  <2>5. ClosuresInv'
    BY <1>t, <2>1, Zenon DEF ClosuresInv
  <2>6. \A p \in Timed \ {o} : Untimed(p)' /\ Called(p)'
    BY <1>t, <2>1, <2>3 DEF Untimed, Called
  <2>7. Untimed(o)' /\ Called(o)'
    BY <1>t, <2>1, <2>2, <2>3, Zenon DEF Untimed, Called
  <2> QED BY <2>4, <2>5, <2>6, <2>7, Zenon DEF ExecutorInv
<1>9. ASSUME OnAsync PROVE ExecutorInv'
  <2>1. /\ local = <<>> /\ local' = q /\ q' = <<>> /\ loop' = "swapped"
        /\ pushed' = pushed /\ ran' = ran /\ want' = want /\ enq' = enq
        /\ op' = op /\ signal' = signal /\ handler' = handler /\ done' = done
        /\ timer' = timer /\ runs' = runs
    BY <1>t, <1>9, Zenon DEF OnAsync, ClosuresInv
  <2>2. ExecutorTypes'
    BY <1>t, <2>1, Zenon DEF ExecutorTypes
  <2>3. pushed' = ran' \o local' \o q'
    BY <1>t, <2>1, ConcatFacts DEF ClosuresInv, ExecutorTypes
  <2>4. ClosuresInv'
    BY <1>t, <2>1, <2>3, Zenon DEF ClosuresInv
  <2>5. \A o \in Timed : Untimed(o)' /\ Called(o)'
    BY <1>t, <2>1, Zenon DEF Untimed, Called
  <2> QED BY <2>2, <2>4, <2>5, Zenon DEF ExecutorInv
<1>10. ASSUME CountOff \/ DrainEnd \/ OnAsyncClose \/ Shutdown \/ DestroyOffLoop \/ UNCHANGED vars
       PROVE  ExecutorInv'
  <2>1. /\ local' = local /\ q' = q /\ (loop' = "idle" => local = <<>>)
        /\ pushed' = pushed /\ ran' = ran /\ want' = want /\ enq' = enq
        /\ op' = op /\ signal' = signal /\ handler' = handler /\ done' = done
        /\ timer' = timer /\ runs' = runs
    BY <1>t, <1>10, Zenon DEF CountOff, DrainEnd, OnAsyncClose, Shutdown, DestroyOffLoop, vars, ClosuresInv
  <2>2. ExecutorTypes' /\ ClosuresInv'
    BY <1>t, <2>1, Zenon DEF ExecutorTypes, ClosuresInv
  <2>3. \A o \in Timed : Untimed(o)' /\ Called(o)'
    BY <1>t, <2>1, Zenon DEF Untimed, Called
  <2> QED BY <2>2, <2>3, Zenon DEF ExecutorInv
<1>11. ASSUME RunNext PROVE ExecutorInv'
  <2>1. /\ loop = "draining" /\ local # <<>> /\ local' = Tail(local) /\ ran' = Append(ran, Head(local))
        /\ q' = q /\ pushed' = pushed /\ loop' = loop
        /\ enq' = enq /\ signal' = signal /\ handler' = handler /\ op' = op /\ want' = want
    BY <1>11, Zenon DEF RunNext
  <2> DEFINE i == Head(local)
  <2>2. /\ i \in Items /\ local' \in Seq(Items) /\ ran' \in Seq(Items)
        /\ pushed' = ran' \o local' \o q'
        /\ ~Occurs(ran, i) /\ Occurs(pushed, i)
    <3>1. /\ Append(ran, Head(local)) \o Tail(local) \o q = ran \o local \o q
          /\ Tail(local) \in Seq(Items) /\ Head(local) \in Items
      BY <1>s, <2>1, ConcatFacts
    <3>2. ~Occurs(ran, Head(local)) /\ Occurs(ran \o local \o q, Head(local))
      BY <1>c, <1>s, <2>1, ConcatFacts, Zenon
    <3>3. Append(ran, Head(local)) \in Seq(Items)
      BY <1>s, <3>1
    <3> QED BY <1>c, <2>1, <3>1, <3>2, <3>3, Zenon
  <2>3. ClosuresInv'
    BY <1>t, <2>1, <2>2, Zenon DEF ClosuresInv
  <2>4. i \in want
    BY <1>t, <2>2, Zenon DEF ClosuresInv
  <2>5. \A j : Occurs(ran', j) <=> Occurs(ran, j) \/ j = i
    BY <1>t, <2>1, <2>2, AppendOccurs DEF ExecutorTypes
  <2>6. CASE i[1] = "job"
    <3>1. done' = done /\ timer' = timer /\ runs' = runs
      BY <1>11, <2>6, Zenon DEF RunNext
    <3>2. \A o \in Timed : Occurs(ran', <<"func", o>>) <=> Occurs(ran, <<"func", o>>)
      <4> TAKE o \in Timed
      <4>1. <<"func", o>> # i
        BY <2>6
      <4> QED BY <2>5, <4>1, Zenon
    <3>3. ExecutorTypes'
      BY <1>t, <2>1, <2>2, <3>1, Zenon DEF ExecutorTypes
    <3>4. \A o \in Timed : Untimed(o)' /\ Called(o)'
      BY <1>t, <2>1, <3>1, <3>2, Zenon DEF Untimed, Called
    <3> QED BY <2>3, <3>3, <3>4, Zenon DEF ExecutorInv
  <2>7. CASE i[1] # "job"
    <3>1. PICK k \in {"start", "cancel", "func"}, o \in Timed : i = <<k, o>>
      BY <2>2, <2>7, ItemKinds
    <3>2. i[1] = k /\ i[2] = o
      BY <3>1
    <3> HIDE DEF i
    <3>3. CASE k \in {"start", "cancel"}
      <4>1. <<"func", o>> \notin want /\ op[o] # "new"
        BY <1>t, <2>4, <3>1, <3>3, Zenon DEF Untimed
      <4>2. \A p \in Timed : Occurs(ran', <<"func", p>>) <=> Occurs(ran, <<"func", p>>)
        <5> TAKE p \in Timed
        <5>1. <<"func", p>> # i
          BY <3>1, <3>3, Zenon
        <5> QED BY <2>5, <5>1, Zenon
      <4>3. /\ done' \in [Timed -> BOOLEAN] /\ runs' \in [Timed -> Nat]
            /\ timer' \in [Timed -> {"none", "active", "closed"}]
            /\ \A p \in Timed \ {o} : done'[p] = done[p] /\ runs'[p] = runs[p] /\ timer'[p] = timer[p]
            /\ runs'[o] = (IF done'[o] THEN 1 ELSE 0) /\ (done'[o] => timer'[o] # "active")
        <5>1. CASE k = "start"
          <6>1. StartTimer(o)
            BY <1>11, <3>2, <5>1, Zenon DEF RunNext, i
          <6> QED BY <1>t, <4>1, <6>1, StartStep, Zenon DEF ExecutorTypes, Called
        <5>2. CASE k = "cancel"
          <6>1. Complete(o)
            BY <1>11, <3>2, <5>2, Zenon DEF RunNext, i
          <6> QED BY <1>t, <4>1, <6>1, CompleteStep, Zenon
        <5> QED BY <3>3, <5>1, <5>2, Zenon
      <4>4. ExecutorTypes'
        BY <1>t, <2>1, <2>2, <4>3, Zenon DEF ExecutorTypes
      <4>5. \A p \in Timed \ {o} : Untimed(p)' /\ Called(p)'
        BY <1>t, <2>1, <4>2, <4>3 DEF Untimed, Called
      <4>6. Untimed(o)' /\ Called(o)'
        BY <1>t, <2>1, <4>1, <4>3, Zenon DEF Untimed, Called
      <4> QED BY <2>3, <4>4, <4>5, <4>6, Zenon DEF ExecutorInv
    <3>4. CASE k = "func"
      <4>1. /\ runs' = [runs EXCEPT ![o] = runs[o] + 1] /\ done' = done /\ timer' = timer
        BY <1>11, <3>2, <3>4, Zenon DEF RunNext, i
      <4>2. <<"func", o>> \in want /\ ~Occurs(ran, <<"func", o>>) /\ Occurs(ran', <<"func", o>>)
        BY <2>2, <2>4, <2>5, <3>1, <3>4, Zenon
      <4>3. runs[o] = 0
        BY <1>t, <4>2, Zenon DEF Called
      <4>4. /\ runs' \in [Timed -> Nat] /\ runs'[o] = 1
            /\ \A p \in Timed \ {o} : runs'[p] = runs[p]
        BY <1>t, <4>1, <4>3 DEF ExecutorTypes
      <4>5. \A p \in Timed \ {o} : Occurs(ran', <<"func", p>>) <=> Occurs(ran, <<"func", p>>)
        <5> TAKE p \in Timed \ {o}
        <5>1. <<"func", p>> # i
          BY <3>1, Zenon
        <5> QED BY <2>5, <5>1, Zenon
      <4>6. ExecutorTypes'
        BY <1>t, <2>1, <2>2, <4>1, <4>4, Zenon DEF ExecutorTypes
      <4>7. \A p \in Timed \ {o} : Untimed(p)' /\ Called(p)'
        BY <1>t, <2>1, <4>1, <4>4, <4>5, Zenon DEF Untimed, Called
      <4>8. Untimed(o)' /\ Called(o)'
        BY <1>t, <2>1, <4>1, <4>2, <4>4, Zenon DEF Untimed, Called
      <4> QED BY <2>3, <4>6, <4>7, <4>8, Zenon DEF ExecutorInv
    <3> QED BY <3>3, <3>4, Zenon
  <2> QED BY <2>6, <2>7, Zenon
<1> QED
  BY <1>1, <1>2, <1>3, <1>4, <1>5, <1>6, <1>7, <1>8, <1>9, <1>10, <1>11, Zenon
  DEF Next, EnqueueStep, LoopStep

(* The count of stat() is what is queued, and the batch that on_async has swapped
   out and not counted off. *)
Counted == pending = Len(q) + IF loop = "swapped" THEN Len(local) ELSE 0

LEMMA CountedStep == ExecutorInv /\ Counted /\ [Next]_vars => Counted'
<1> SUFFICES ASSUME ExecutorInv, Counted, [Next]_vars PROVE Counted'
  BY Zenon
<1>1. /\ q \in Seq(Items) /\ local \in Seq(Items)
      /\ Len(q) \in Nat /\ Len(local) \in Nat /\ Len(<<>>) = 0
      /\ loop = "idle" => local = <<>>
  BY DEF ExecutorInv, ExecutorTypes, ClosuresInv
<1> USE DEF queueVars, loopVars, lifeVars, opVars
<1>2. CASE pending' = pending /\ q' = q /\ loop' = loop
           /\ (local' = local \/ loop # "swapped")
  BY <1>2, Zenon DEF Counted
<1>3. ASSUME NEW i \in Items, EnqueuePush(i) PROVE Counted'
  <2>1. q' = Append(q, i) /\ pending' = pending + 1 /\ loop' = loop /\ local' = local
    BY <1>3, Zenon DEF EnqueuePush
  <2>2. Len(q') = Len(q) + 1
    BY <1>1, <2>1
  <2>3. CASE loop = "swapped"
    <3>1. pending = Len(q) + Len(local) /\ (Counted' <=> pending' = Len(q') + Len(local))
      BY <2>1, <2>3, Zenon DEF Counted
    <3> QED BY <1>1, <2>1, <2>2, <3>1
  <2>4. CASE loop # "swapped"
    <3>1. pending = Len(q) + 0 /\ (Counted' <=> pending' = Len(q') + 0)
      BY <2>1, <2>4, Zenon DEF Counted
    <3> QED BY <1>1, <2>1, <2>2, <3>1
  <2> QED BY <2>3, <2>4, Zenon
<1>4. CASE OnAsync
  <2>1. loop = "idle" /\ loop' = "swapped" /\ q' = <<>> /\ local' = q /\ pending' = pending
    BY <1>4, Zenon DEF OnAsync
  <2> QED BY <1>1, <2>1 DEF Counted
<1>5. CASE CountOff
  <2>1. loop = "swapped" /\ loop' = "draining" /\ q' = q /\ pending' = pending - Len(local)
    BY <1>5, Zenon DEF CountOff
  <2> QED BY <1>1, <2>1 DEF Counted
<1>6. CASE DrainEnd
  <2>1. loop = "draining" /\ loop' = "idle" /\ q' = q /\ pending' = pending
    BY <1>6, Zenon DEF DrainEnd
  <2> QED BY <2>1, Zenon DEF Counted
<1>7. CASE RunNext
  <2>1. loop = "draining" /\ loop' = loop /\ q' = q /\ pending' = pending
    BY <1>7, Zenon DEF RunNext
  <2> QED BY <1>2, <2>1, Zenon
<1>8. ASSUME NEW i \in Items, EnqueueCheck(i) \/ EnqueueSend(i) PROVE Counted'
  BY <1>2, <1>8, Zenon DEF EnqueueCheck, EnqueueSend
<1>9. ASSUME NEW o \in Timed, Register(o) \/ Launch(o) \/ LaunchRefused(o) \/ Emit(o) \/ TimerFires(o)
      PROVE  Counted'
  BY <1>2, <1>9, Zenon DEF Register, Launch, LaunchRefused, Emit, TimerFires
<1>10. CASE OnAsyncClose \/ Shutdown \/ DestroyOffLoop \/ UNCHANGED vars
  BY <1>2, <1>10, Zenon DEF OnAsyncClose, Shutdown, DestroyOffLoop, vars
<1> QED
  BY <1>3, <1>4, <1>5, <1>6, <1>7, <1>8, <1>9, <1>10, Zenon DEF Next, EnqueueStep, LoopStep

(* UvExecutor calls what was queued in the order of push_back, each item once, and
   the func of a timed schedule once at most, whoever completes the TimerOp first;
   a completed TimerOp has no running timer, and pending is exact at every step
   (uv_executor.cpp enqueue, on_async, complete_on_loop, start_timer_on_loop). *)
THEOREM ClosuresCalledOnce == Spec => []CalledOnce
<1>1. ExecutorInv /\ Counted => CalledOnce
  <2> SUFFICES ASSUME ExecutorInv, Counted, NEW o \in Timed
               PROVE  /\ pushed = ran \o local \o q
                      /\ runs[o] <= 1 /\ (done[o] => timer[o] # "active")
    BY Zenon DEF CalledOnce, Counted, ExecutorInv, ClosuresInv
  <2>1. Called(o) /\ ClosuresInv
    BY Zenon DEF ExecutorInv
  <2> QED BY <2>1 DEF Called, ClosuresInv
<1>2. Init => Counted
  BY DEF Init, Counted
<1> QED BY <1>1, <1>2, ExecutorInitInv, ExecutorStepInv, CountedStep, PTL DEF Spec

------------------------------------------------------------------------------
(***************************************************************************)
(* PollWait: a wait for readiness is resumed once, for any number of       *)
(* coroutines.                                                             *)
(***************************************************************************)

PollRecord ==
    [asleep : BOOLEAN, inSuspend : BOOLEAN, raced : BOOLEAN, armed : BOOLEAN,
     started : BOOLEAN, done : BOOLEAN, cancel_requested : BOOLEAN,
     start_rc : {"ok", "init", "start", "ECANCELED"}, status : {"ok", "error"},
     handle : {"none", "active", "closing", "closed"}, holder : BOOLEAN,
     resumes : Nat, outcome : {"none", "canceled", "error", "ready"}]
PollPosts == {"start", "cancel"} \X Pollers

\* At most one place of s holds e.
Once(s, e) == \A i, j \in 1 .. Len(s) : s[i] = e /\ s[j] = e => i = j

\* Between tryEmplace and the end of await_suspend the start is not posted yet, and
\* only a cancellation can have resumed the coroutine.  A start that is posted
\* finds its Op asleep and idle, or done.
Suspending(t) ==
    polling[t].inSuspend =>
        /\ polling[t].handle = "none" /\ ~polling[t].started
        /\ ~PollQueued(pollPosts, <<"start", t>>)
        /\ \/ polling[t].asleep /\ ~polling[t].raced
           \/ /\ ~polling[t].asleep /\ polling[t].raced /\ polling[t].done /\ t \in pollSignal
              /\ polling[t].resumes = 1 /\ polling[t].cancel_requested
        /\ t \in OffLoopPollers
Posted(t) ==
    /\ PollQueued(pollPosts, <<"start", t>>) =>
          \/ polling[t].asleep /\ polling[t].handle = "none" /\ ~polling[t].started
          \/ polling[t].done /\ t \in pollSignal
    /\ PollQueued(pollPosts, <<"cancel", t>>) => t \in pollSignal /\ polling[t].cancel_requested

\* A sleeping coroutine was not resumed and will be, unless its start is stranded;
\* one that is back is not watched for.
Sleeping(t) ==
    /\ polling[t].asleep =>
          /\ ~polling[t].done /\ polling[t].resumes = 0
          /\ polling[t].inSuspend \/ polling[t].handle = "active"
             \/ PollQueued(pollPosts, <<"start", t>>) \/ <<"start", t>> \in stranded
          /\ t \in pollSignal /\ accepting =>
                polling[t].armed \/ PollQueued(pollPosts, <<"cancel", t>>)
          /\ t \notin pollSignal => polling[t].armed
    /\ polling[t].handle = "active" =>
          polling[t].asleep /\ polling[t].started /\ ~polling[t].inSuspend
    /\ polling[t].armed => polling[t].asleep
    /\ polling[t].raced => t \in pollSignal /\ t \in OffLoopPollers

\* A wait went on once at most, or was refused and cancelled; a refusal leaves done
\* as it was, so that the cancellation may come after it.
WentOn(t) ==
    \/ polling[t].resumes = 0
    \/ /\ polling[t].resumes = 1
       /\ \/ polling[t].done
          \/ /\ polling[t].start_rc = "ECANCELED" /\ ~polling[t].asleep
             /\ ~polling[t].inSuspend /\ polling[t].handle = "none" /\ ~polling[t].started
    \/ /\ polling[t].resumes = 2 /\ polling[t].done
       /\ polling[t].cancel_requested /\ polling[t].start_rc = "ECANCELED"

PollInv ==
    /\ polling \in [Pollers -> PollRecord]
    /\ pollSignal \subseteq Pollers /\ accepting \in BOOLEAN /\ (accepting => stranded = {})
    /\ pollPosts \in Seq(PollPosts)
    /\ \A t \in Pollers : Once(pollPosts, <<"start", t>>)
    /\ \A t \in Pollers : Suspending(t) /\ Posted(t) /\ Sleeping(t) /\ WentOn(t)

LEMMA PollInitInv == PollInit => PollInv
<1> SUFFICES ASSUME PollInit PROVE PollInv
  BY Zenon
<1>1. NewOp \in PollRecord
  BY Zenon DEF NewOp, PollRecord
<1>2. pollPosts \in Seq(PollPosts) /\ Len(pollPosts) = 0
  BY DEF PollInit
<1>3. \A e : ~PollQueued(pollPosts, e) /\ Once(pollPosts, e)
  BY <1>2 DEF PollQueued, Once
<1>4. \A t \in Pollers : polling[t] = NewOp
  BY Zenon DEF PollInit
<1>5. /\ ~NewOp.asleep /\ ~NewOp.inSuspend /\ ~NewOp.armed /\ ~NewOp.raced /\ NewOp.resumes = 0
      /\ NewOp.handle = "none"
  BY Zenon DEF NewOp
<1>6. \A t \in Pollers : Suspending(t) /\ Posted(t) /\ Sleeping(t) /\ WentOn(t)
  BY <1>3, <1>4, <1>5, Zenon DEF Suspending, Posted, Sleeping, WentOn
<1> QED BY <1>1, <1>2, <1>3, <1>6, Zenon DEF PollInit, PollInv

----------------------------------------------------------------------------
(* The executor's queue. *)
LEMMA PostsAppend ==
    ASSUME NEW s \in Seq(PollPosts), NEW x \in PollPosts, NEW e
    PROVE  /\ Append(s, x) \in Seq(PollPosts)
           /\ PollQueued(Append(s, x), e) <=> PollQueued(s, e) \/ x = e
           /\ Once(s, e) /\ (x = e => ~PollQueued(s, e)) => Once(Append(s, x), e)
<1>1. /\ Append(s, x) \in Seq(PollPosts) /\ Len(Append(s, x)) = Len(s) + 1 /\ Len(s) \in Nat
      /\ \A i \in 1 .. Len(s) : Append(s, x)[i] = s[i]
      /\ Append(s, x)[Len(s) + 1] = x
  OBVIOUS
<1>2. PollQueued(Append(s, x), e) <=> PollQueued(s, e) \/ x = e
  BY <1>1 DEF PollQueued
<1>3. ASSUME Once(s, e), x = e => ~PollQueued(s, e) PROVE Once(Append(s, x), e)
  <2> SUFFICES ASSUME NEW i \in 1 .. Len(s) + 1, NEW j \in 1 .. Len(s) + 1,
                      Append(s, x)[i] = e, Append(s, x)[j] = e
               PROVE  i = j
    BY <1>1, Zenon DEF Once
  <2>1. CASE x = e
    BY <1>1, <1>3, <2>1 DEF PollQueued
  <2>2. CASE x # e
    BY <1>1, <1>3, <2>2 DEF Once
  <2> QED BY <2>1, <2>2, Zenon
<1> QED BY <1>1, <1>2, <1>3, Zenon

LEMMA PostsTail ==
    ASSUME NEW s \in Seq(PollPosts), s # <<>>, NEW e
    PROVE  /\ Tail(s) \in Seq(PollPosts) /\ Head(s) \in PollPosts
           /\ PollQueued(s, e) <=> Head(s) = e \/ PollQueued(Tail(s), e)
           /\ Once(s, e) => Once(Tail(s), e)
           /\ Once(s, e) /\ Head(s) = e => ~PollQueued(Tail(s), e)
<1>1. /\ Tail(s) \in Seq(PollPosts) /\ Head(s) \in PollPosts /\ Head(s) = s[1]
      /\ Len(Tail(s)) = Len(s) - 1 /\ Len(s) \in Nat /\ Len(s) > 0
      /\ \A i \in 1 .. Len(s) - 1 : Tail(s)[i] = s[i + 1]
  OBVIOUS
<1>2. ASSUME PollQueued(s, e) PROVE Head(s) = e \/ PollQueued(Tail(s), e)
  <2>1. PICK i \in 1 .. Len(s) : s[i] = e
    BY <1>2, Zenon DEF PollQueued
  <2>2. CASE i # 1
    <3>1. i - 1 \in 1 .. Len(Tail(s)) /\ Tail(s)[i - 1] = e
      BY <1>1, <2>1, <2>2
    <3> QED BY <3>1, Zenon DEF PollQueued
  <2> QED BY <1>1, <2>1, <2>2, Zenon
<1>3. ASSUME PollQueued(Tail(s), e) PROVE \E i \in 2 .. Len(s) : s[i] = e
  <2>1. PICK i \in 1 .. Len(Tail(s)) : Tail(s)[i] = e
    BY <1>3, Zenon DEF PollQueued
  <2>2. i + 1 \in 2 .. Len(s) /\ s[i + 1] = e
    BY <1>1, <2>1
  <2> QED BY <2>2, Zenon
<1>4. Head(s) = e => PollQueued(s, e)
  BY <1>1 DEF PollQueued
<1>5. Once(s, e) => Once(Tail(s), e)
  <2> SUFFICES ASSUME Once(s, e), NEW i \in 1 .. Len(Tail(s)), NEW j \in 1 .. Len(Tail(s)),
                      Tail(s)[i] = e, Tail(s)[j] = e
               PROVE  i = j
    BY Zenon DEF Once
  <2>1. i + 1 \in 1 .. Len(s) /\ j + 1 \in 1 .. Len(s) /\ s[i + 1] = e /\ s[j + 1] = e
    BY <1>1
  <2> QED BY <2>1 DEF Once
<1>6. PollQueued(Tail(s), e) => PollQueued(s, e)
  BY <1>1, <1>3 DEF PollQueued
<1>7. Once(s, e) /\ Head(s) = e => ~PollQueued(Tail(s), e)
  BY <1>1, <1>3 DEF Once
<1> QED BY <1>1, <1>2, <1>4, <1>5, <1>6, <1>7, Zenon

----------------------------------------------------------------------------
(* What a resumption leaves of the Op. *)
Back(r, o) ==
    /\ r \in PollRecord
    /\ ~r.asleep /\ ~r.armed /\ r.inSuspend = o.inSuspend
    /\ r.started = o.started /\ r.handle = o.handle /\ r.done = o.done
    /\ r.cancel_requested = o.cancel_requested /\ r.start_rc = o.start_rc

LEMMA AwaitPollIsBack ==
    ASSUME NEW t, NEW o \in PollRecord
    PROVE  Back(AwaitPoll(t, o), o) /\ AwaitPoll(t, o).resumes = o.resumes + 1
           /\ AwaitPoll(t, o).raced = o.raced
<1>1. Outcome(t, o) \in {"none", "canceled", "error", "ready"} /\ o.resumes + 1 \in Nat
  BY DEF Outcome, PollRecord
<1>2. AwaitPoll(t, o) \in PollRecord
  BY <1>1, Zenon DEF AwaitPoll, PollRecord
<1> QED BY <1>2, Zenon DEF AwaitPoll, Back, PollRecord

LEMMA RefusedIsBack ==
    ASSUME NEW t, NEW o \in PollRecord, NEW r, r = Refused(t, o)
    PROVE  /\ r \in PollRecord /\ ~r.asleep /\ ~r.armed /\ r.inSuspend = o.inSuspend
           /\ r.started = o.started /\ r.handle = o.handle /\ r.done = o.done
           /\ r.cancel_requested = o.cancel_requested /\ r.start_rc = "ECANCELED"
           /\ r.resumes = o.resumes + 1 /\ r.raced = o.raced
<1> DEFINE p == [o EXCEPT !.start_rc = "ECANCELED"]
<1>1. p \in PollRecord
  BY Zenon DEF PollRecord
<1>2. /\ p.inSuspend = o.inSuspend /\ p.started = o.started /\ p.handle = o.handle
      /\ p.done = o.done /\ p.cancel_requested = o.cancel_requested
      /\ p.start_rc = "ECANCELED" /\ p.resumes = o.resumes /\ p.raced = o.raced
  BY Zenon DEF PollRecord
<1>3. r = AwaitPoll(t, p)
  BY Zenon DEF Refused
<1> HIDE DEF p
<1>4. Back(AwaitPoll(t, p), p) /\ AwaitPoll(t, p).resumes = p.resumes + 1
      /\ AwaitPoll(t, p).raced = p.raced
  BY <1>1, AwaitPollIsBack, Zenon
<1> QED BY <1>2, <1>3, <1>4, Zenon DEF Back

LEMMA ResumePollIsBack ==
    ASSUME NEW t, NEW o \in PollRecord
    PROVE  Back(ResumePoll(t, o), o) /\ ResumePoll(t, o).resumes = o.resumes + 1
           /\ ResumePoll(t, o).raced = (o.raced \/ o.inSuspend)
<1> DEFINE p == [o EXCEPT !.raced = @ \/ o.inSuspend]
<1>1. (o.raced \/ o.inSuspend) \in BOOLEAN
  BY Zenon DEF PollRecord
<1>2. p \in PollRecord
  BY <1>1, Zenon DEF PollRecord
<1>3. /\ p.resumes = o.resumes /\ p.raced = (o.raced \/ o.inSuspend)
      /\ p.inSuspend = o.inSuspend /\ p.started = o.started /\ p.handle = o.handle
      /\ p.done = o.done /\ p.cancel_requested = o.cancel_requested /\ p.start_rc = o.start_rc
  BY Zenon DEF PollRecord
<1>4. ResumePoll(t, o) = AwaitPoll(t, p)
  BY Zenon DEF ResumePoll
<1> HIDE DEF p
<1> QED BY <1>2, <1>3, <1>4, AwaitPollIsBack DEF Back

LEMMA CompleteIsBack ==
    ASSUME NEW t, NEW o \in PollRecord, ~o.done, o.handle = "active" => o.started
    PROVE  LET r == complete_on_loop(t, o) IN
           /\ r \in PollRecord /\ ~r.asleep /\ ~r.armed /\ r.done
           /\ r.inSuspend = o.inSuspend /\ r.started = o.started
           /\ r.resumes = o.resumes + 1 /\ r.raced = (o.raced \/ o.inSuspend)
           /\ r.handle # "active" /\ (~o.started => r.handle = o.handle)
           /\ r.cancel_requested = o.cancel_requested /\ r.start_rc = o.start_rc
<1> DEFINE h == IF o.started THEN "closing" ELSE o.handle
           p == [o EXCEPT !.done = TRUE, !.handle = h]
<1>1. h \in {"none", "active", "closing", "closed"}
  BY Zenon DEF PollRecord
<1>2. p \in PollRecord
  BY <1>1, Zenon DEF PollRecord
<1>3. /\ p.done /\ p.handle = h /\ p.inSuspend = o.inSuspend /\ p.started = o.started
      /\ p.resumes = o.resumes /\ p.raced = o.raced
      /\ p.cancel_requested = o.cancel_requested /\ p.start_rc = o.start_rc
  BY Zenon DEF PollRecord
<1>4. complete_on_loop(t, o) = ResumePoll(t, p)
  BY Zenon DEF complete_on_loop
<1>5. h # "active" /\ (~o.started => h = o.handle)
  BY Zenon DEF PollRecord
<1> HIDE DEF p, h
<1> QED BY <1>2, <1>3, <1>4, <1>5, ResumePollIsBack DEF Back

(* start_on_loop begins to watch, or the coroutine is back. *)
LEMMA StartIsBack ==
    ASSUME NEW t, NEW o \in PollRecord, ~o.done, o.asleep, ~o.inSuspend, ~o.started,
           o.handle = "none", o.resumes = 0, NEW r \in start_on_loop(t, o)
    PROVE  /\ r \in PollRecord /\ ~r.inSuspend /\ r.raced = o.raced
           /\ r.cancel_requested = o.cancel_requested
           /\ \/ /\ r.asleep /\ r.handle = "active" /\ r.started /\ ~r.done
                 /\ r.resumes = 0 /\ r.armed = o.armed
              \/ /\ ~r.asleep /\ ~r.armed /\ r.done /\ r.resumes = 1 /\ r.handle # "active"
<1> DEFINE held == [o EXCEPT !.holder = TRUE]
           begun == [held EXCEPT !.handle = "active", !.started = TRUE]
           failed == [held EXCEPT !.start_rc = "init"]
           refused == [held EXCEPT !.start_rc = "start", !.handle = "closing"]
           p == [failed EXCEPT !.done = TRUE]
           qu == [refused EXCEPT !.done = TRUE]
<1>1. held \in PollRecord
  BY Zenon DEF PollRecord
<1>2. begun \in PollRecord /\ failed \in PollRecord /\ refused \in PollRecord
  <2> HIDE DEF held
  <2> QED BY <1>1, Zenon DEF PollRecord
<1>3. p \in PollRecord /\ qu \in PollRecord
  <2> HIDE DEF failed, refused
  <2> QED BY <1>2, Zenon DEF PollRecord
<1>4. /\ ~failed.done /\ begun.asleep /\ ~begun.inSuspend /\ begun.started /\ ~begun.done
      /\ begun.handle = "active" /\ begun.resumes = 0 /\ begun.armed = o.armed
      /\ begun.raced = o.raced /\ begun.cancel_requested = o.cancel_requested
  BY Zenon DEF PollRecord
<1>5. p.done /\ ~p.inSuspend /\ p.handle = "none" /\ p.resumes = 0
      /\ p.raced = o.raced /\ p.cancel_requested = o.cancel_requested
  BY Zenon DEF PollRecord
<1>6. qu.done /\ ~qu.inSuspend /\ qu.handle = "closing" /\ qu.resumes = 0
      /\ qu.raced = o.raced /\ qu.cancel_requested = o.cancel_requested
  BY Zenon DEF PollRecord
<1>7. \/ r = ResumePoll(t, p)
      \/ r = ResumePoll(t, qu)
      \/ r = complete_on_loop(t, begun)
      \/ r = begun
  BY <1>4, Zenon DEF start_on_loop, start_on_loop_NoCheck, complete_without_handle, complete_without_resume
<1> HIDE DEF held, begun, failed, refused, p, qu
<1>r. o.raced \in BOOLEAN
  BY Zenon DEF PollRecord
<1>8. CASE r = ResumePoll(t, p)
  <2>1. Back(r, p) /\ r.resumes = p.resumes + 1 /\ r.raced = (p.raced \/ p.inSuspend)
    BY <1>3, <1>8, ResumePollIsBack, Zenon
  <2>2. r.resumes = 1
    BY <1>5, <2>1
  <2>3. r.raced = o.raced
    BY <1>5, <1>r, <2>1, Zenon
  <2> QED BY <1>5, <2>1, <2>2, <2>3, Zenon DEF Back
<1>9. CASE r = ResumePoll(t, qu)
  <2>1. Back(r, qu) /\ r.resumes = qu.resumes + 1 /\ r.raced = (qu.raced \/ qu.inSuspend)
    BY <1>3, <1>9, ResumePollIsBack, Zenon
  <2>2. r.resumes = 1
    BY <1>6, <2>1
  <2>3. r.raced = o.raced
    BY <1>6, <1>r, <2>1, Zenon
  <2> QED BY <1>6, <2>1, <2>2, <2>3, Zenon DEF Back
<1>10. CASE r = complete_on_loop(t, begun)
  <2> DEFINE d == complete_on_loop(t, begun)
  <2>d. /\ d \in PollRecord /\ ~d.asleep /\ ~d.armed /\ d.done
        /\ d.inSuspend = begun.inSuspend /\ d.started = begun.started
        /\ d.resumes = begun.resumes + 1 /\ d.raced = (begun.raced \/ begun.inSuspend)
        /\ d.handle # "active" /\ d.cancel_requested = begun.cancel_requested
    <3>1. begun \in PollRecord /\ ~begun.done /\ (begun.handle = "active" => begun.started)
      BY <1>2, <1>4, Zenon
    <3> QED BY ONLY <3>1, CompleteIsBack
  <2>1. /\ r \in PollRecord /\ ~r.asleep /\ ~r.armed /\ r.done
        /\ r.inSuspend = begun.inSuspend /\ r.started = begun.started
        /\ r.resumes = begun.resumes + 1 /\ r.raced = (begun.raced \/ begun.inSuspend)
        /\ r.handle # "active" /\ r.cancel_requested = begun.cancel_requested
    BY <1>10, <2>d, Zenon
  <2>2. r.resumes = 1
    BY <1>4, <2>1
  <2>3. r.raced = o.raced
    BY <1>4, <1>r, <2>1, Zenon
  <2> QED BY <1>4, <2>1, <2>2, <2>3, Zenon
<1>11. CASE r = begun
  BY <1>2, <1>4, <1>11, Zenon
<1> QED BY <1>7, <1>8, <1>9, <1>10, <1>11, Zenon

(* What shutdown leaves of the queue: a beginning, and the rest stranded. *)
LEMMA PostsStop ==
    ASSUME NEW s \in Seq(PollPosts), NEW k \in 0 .. Len(s), NEW p, p = SubSeq(s, 1, k)
    PROVE  /\ p \in Seq(PollPosts)
           /\ \A e : Once(s, e) => Once(p, e)
           /\ \A e : PollQueued(p, e) => PollQueued(s, e)
           /\ \A e : PollQueued(s, e) => \/ PollQueued(p, e)
                                       \/ e \in {s[i] : i \in (k + 1) .. Len(s)}
<1>1. p \in Seq(PollPosts) /\ Len(p) = k /\ \A i \in 1 .. k : p[i] = s[i]
  OBVIOUS
<1>2. Len(s) \in Nat /\ \A i \in 1 .. k : i \in 1 .. Len(s)
  OBVIOUS
<1>3. \A i \in 1 .. Len(s) : i \in 1 .. k \/ i \in (k + 1) .. Len(s)
  OBVIOUS
<1>4. ASSUME NEW e, Once(s, e), NEW i \in 1 .. Len(p), NEW j \in 1 .. Len(p), p[i] = e, p[j] = e
      PROVE  i = j
  <2>1. i \in 1 .. Len(s) /\ j \in 1 .. Len(s) /\ s[i] = e /\ s[j] = e
    BY <1>1, <1>2, <1>4, Zenon
  <2> QED BY <1>4, <2>1, Zenon DEF Once
<1>5. \A e : PollQueued(p, e) => PollQueued(s, e)
  BY <1>1, <1>2, Zenon DEF PollQueued
<1>6. \A e : PollQueued(s, e) => \/ PollQueued(p, e)
                              \/ e \in {s[i] : i \in (k + 1) .. Len(s)}
  BY <1>1, <1>3, Zenon DEF PollQueued
<1>7. ASSUME NEW e, Once(s, e) PROVE Once(p, e)
  <2>1. \A i, j \in 1 .. Len(p) : p[i] = e /\ p[j] = e => i = j
    BY <1>4, <1>7, Zenon
  <2> QED BY <2>1, Zenon DEF Once
<1> QED BY <1>1, <1>5, <1>6, <1>7, Zenon

(* A step of one coroutine leaves the others as they are. *)
LEMMA OnePollMoves ==
    ASSUME PollInv, NEW t \in Pollers, NEW o \in PollRecord, polling' = [polling EXCEPT ![t] = o],
           pollSignal' \subseteq Pollers, pollSignal' \ {t} = pollSignal \ {t},
           accepting' \in BOOLEAN, accepting' => accepting, stranded' = stranded,
           pollPosts' \in Seq(PollPosts),
           \A u \in Pollers : Once(pollPosts', <<"start", u>>),
           \A u \in Pollers \ {t}, k \in {"start", "cancel"} :
              PollQueued(pollPosts', <<k, u>>) <=> PollQueued(pollPosts, <<k, u>>),
           Suspending(t)', Posted(t)', Sleeping(t)', WentOn(t)'
    PROVE  PollInv'
<1>1. polling' \in [Pollers -> PollRecord]
  BY Zenon DEF PollInv
<1>2. ASSUME NEW u \in Pollers, u # t PROVE Suspending(u)' /\ Posted(u)' /\ Sleeping(u)' /\ WentOn(u)'
  <2>1. polling'[u] = polling[u] /\ (u \in pollSignal' <=> u \in pollSignal)
    BY <1>2, Zenon DEF PollInv
  <2>2. /\ PollQueued(pollPosts', <<"start", u>>) <=> PollQueued(pollPosts, <<"start", u>>)
        /\ PollQueued(pollPosts', <<"cancel", u>>) <=> PollQueued(pollPosts, <<"cancel", u>>)
    BY <1>2, Zenon
  <2>3. Suspending(u) /\ Posted(u) /\ Sleeping(u) /\ WentOn(u)
    BY Zenon DEF PollInv
  <2>4. Suspending(u)' /\ Posted(u)'
    BY <2>1, <2>2, <2>3, Zenon DEF Suspending, Posted
  <2>5. Sleeping(u)' /\ WentOn(u)'
    BY <2>1, <2>2, <2>3, Zenon DEF Sleeping, WentOn
  <2> QED BY <2>4, <2>5, Zenon
<1> QED BY <1>1, <1>2, Zenon DEF PollInv

LEMMA PollStepInv == PollInv /\ [PollNext]_pollVars => PollInv'
<1> SUFFICES ASSUME PollInv, [PollNext]_pollVars PROVE PollInv'
  BY Zenon
<1>0. ASSUME NEW t \in Pollers
      PROVE  /\ polling[t] \in PollRecord
             /\ Suspending(t) /\ Posted(t) /\ Sleeping(t) /\ WentOn(t) /\ Once(pollPosts, <<"start", t>>)
             /\ <<"start", t>> \in PollPosts /\ <<"cancel", t>> \in PollPosts
  BY Zenon DEF PollInv, PollPosts
<1>qu. /\ pollPosts \in Seq(PollPosts) /\ pollSignal \subseteq Pollers /\ accepting \in BOOLEAN /\ (accepting => stranded = {})
      /\ polling \in [Pollers -> PollRecord]
      /\ \A u \in Pollers : Once(pollPosts, <<"start", u>>)
  BY Zenon DEF PollInv
<1>k. ASSUME NEW t \in Pollers, NEW o \in PollRecord, polling' = [polling EXCEPT ![t] = o],
             pollSignal' = pollSignal, accepting' = accepting, stranded' = stranded, pollPosts' = pollPosts,
             Suspending(t)', Posted(t)', Sleeping(t)', WentOn(t)'
      PROVE  PollInv'
  BY <1>qu, <1>k, OnePollMoves, Zenon
<1>1. ASSUME NEW t \in Pollers, wait(t) PROVE PollInv'
  <2> DEFINE new == [NewOp EXCEPT !.asleep = TRUE, !.armed = TRUE]
  <2>1. NewOp \in PollRecord
    BY Zenon DEF NewOp, PollRecord
  <2>n. new \in PollRecord
    BY <2>1, Zenon DEF PollRecord
  <2>2. /\ new \in PollRecord /\ new.asleep /\ new.armed /\ ~new.done /\ ~new.inSuspend
        /\ ~new.started /\ ~new.raced /\ new.handle = "none" /\ new.resumes = 0
    BY <2>n, Zenon DEF NewOp
  <2>3. /\ ~polling[t].asleep /\ ~polling[t].inSuspend /\ polling[t].handle \in {"none", "closed"}
        /\ pollSignal' = pollSignal /\ accepting' = accepting /\ stranded' = stranded /\ pollPosts' = pollPosts
    BY <1>1, Zenon DEF wait
  <2>4. CASE t \in pollSignal
    <3> DEFINE o == [polling[t] EXCEPT !.outcome = "canceled"]
    <3>0. polling[t] \in PollRecord
      BY <1>0, Zenon
    <3>1. o \in PollRecord /\ polling' = [polling EXCEPT ![t] = o]
      <4>1. o \in PollRecord
        BY <3>0, Zenon DEF PollRecord
      <4>2. polling' = [polling EXCEPT ![t] = o]
        BY <1>1, <2>4, Zenon DEF wait
      <4> QED BY <4>1, <4>2, Zenon
    <3>2. /\ o.asleep = polling[t].asleep /\ o.inSuspend = polling[t].inSuspend
          /\ o.started = polling[t].started /\ o.done = polling[t].done
          /\ o.armed = polling[t].armed /\ o.handle = polling[t].handle
          /\ o.resumes = polling[t].resumes
          /\ o.cancel_requested = polling[t].cancel_requested
          /\ o.start_rc = polling[t].start_rc /\ o.raced = polling[t].raced
      BY <1>0, Zenon DEF PollRecord
    <3>3. polling'[t] = o
      BY <1>qu, <3>1, Zenon
    <3> HIDE DEF o
    <3>4. Suspending(t)' /\ Posted(t)' /\ Sleeping(t)' /\ WentOn(t)'
      BY <1>0, <2>3, <3>2, <3>3, Zenon DEF Suspending, Posted, Sleeping, WentOn
    <3> QED BY <1>k, <2>3, <3>1, <3>4, Zenon
  <2>5. CASE t \notin pollSignal /\ t \in OffLoopPollers
    <3> DEFINE o == [new EXCEPT !.inSuspend = TRUE]
    <3>1. o \in PollRecord /\ polling' = [polling EXCEPT ![t] = o]
      <4>1. polling' = [polling EXCEPT ![t] = o]
        BY <1>1, <2>5, Zenon DEF wait
      <4> HIDE DEF new
      <4>2. o \in PollRecord
        BY <2>n, Zenon DEF PollRecord
      <4> QED BY <4>1, <4>2, Zenon
    <3>2. /\ o.asleep /\ o.armed /\ ~o.done /\ o.inSuspend /\ ~o.started /\ ~o.raced
          /\ o.handle = "none" /\ o.resumes = 0
      BY <2>2, Zenon DEF PollRecord
    <3>3. polling'[t] = o
      BY <1>qu, <3>1, Zenon
    <3>4. ~PollQueued(pollPosts, <<"start", t>>) /\ ~PollQueued(pollPosts, <<"cancel", t>>)
      BY <1>0, <2>3, <2>5, Zenon DEF Posted
    <3> HIDE DEF o, new
    <3>5. Suspending(t)' /\ Posted(t)' /\ Sleeping(t)' /\ WentOn(t)'
      BY <2>3, <2>5, <3>2, <3>3, <3>4, Zenon DEF Suspending, Posted, Sleeping, WentOn
    <3> QED BY <1>k, <2>3, <3>1, <3>5, Zenon
  <2>q. t \notin pollSignal =>
           ~PollQueued(pollPosts, <<"start", t>>) /\ ~PollQueued(pollPosts, <<"cancel", t>>)
    BY <1>0, <2>3, Zenon DEF Posted
  <2>6. CASE t \notin pollSignal /\ t \notin OffLoopPollers /\ accepting
    <3>1. PICK o \in start_on_loop(t, new) : polling' = [polling EXCEPT ![t] = o]
      BY <1>1, <2>6, Zenon DEF wait
    <3> HIDE DEF new
    <3>2. /\ o \in PollRecord /\ ~o.inSuspend /\ ~o.raced
          /\ \/ /\ o.asleep /\ o.handle = "active" /\ o.started /\ ~o.done
                /\ o.resumes = 0 /\ o.armed
             \/ /\ ~o.asleep /\ ~o.armed /\ o.done /\ o.resumes = 1 /\ o.handle # "active"
      BY <2>2, StartIsBack, Zenon
    <3>3. polling'[t] = o
      BY <1>qu, <3>1, <3>2, Zenon
    <3>5. Suspending(t)' /\ Posted(t)'
      BY <2>3, <2>6, <2>q, <3>2, <3>3, Zenon DEF Suspending, Posted
    <3>6. Sleeping(t)' /\ WentOn(t)'
      BY <2>3, <2>6, <2>q, <3>2, <3>3, Zenon DEF Sleeping, WentOn
    <3> QED BY <1>k, <2>3, <3>1, <3>2, <3>5, <3>6, Zenon
  <2>7. CASE t \notin pollSignal /\ t \notin OffLoopPollers /\ ~accepting
    <3>1. polling' = [polling EXCEPT ![t] = Refused(t, new)]
      BY <1>1, <2>7, Zenon DEF wait
    <3> HIDE DEF new
    <3>2. /\ Refused(t, new) \in PollRecord /\ ~Refused(t, new).asleep /\ ~Refused(t, new).armed
          /\ ~Refused(t, new).inSuspend /\ ~Refused(t, new).raced
          /\ ~Refused(t, new).started /\ Refused(t, new).handle = "none"
          /\ Refused(t, new).resumes = 1 /\ Refused(t, new).start_rc = "ECANCELED"
      BY <2>2, RefusedIsBack DEF Back
    <3>3. polling'[t] = Refused(t, new)
      BY <1>qu, <3>1, Zenon
    <3>5. Suspending(t)' /\ Posted(t)'
      BY <2>3, <2>7, <2>q, <3>2, <3>3, Zenon DEF Suspending, Posted
    <3>6. Sleeping(t)' /\ WentOn(t)'
      BY <2>3, <2>7, <2>q, <3>2, <3>3, Zenon DEF Sleeping, WentOn
    <3> QED BY <1>k, <2>3, <3>1, <3>2, <3>5, <3>6, Zenon
  <2> QED BY <2>4, <2>5, <2>6, <2>7, Zenon
<1>2. ASSUME NEW t \in Pollers, PostStart(t) PROVE PollInv'
  <2> DEFINE back == [polling[t] EXCEPT !.inSuspend = FALSE]
  <2>0. polling[t] \in PollRecord
    BY <1>0, Zenon
  <2>1. back \in PollRecord
    BY <2>0, Zenon DEF PollRecord
  <2>2. /\ ~back.inSuspend /\ back.asleep = polling[t].asleep /\ back.raced = polling[t].raced
        /\ back.started = polling[t].started /\ back.done = polling[t].done
        /\ back.armed = polling[t].armed /\ back.handle = polling[t].handle
        /\ back.resumes = polling[t].resumes /\ back.start_rc = polling[t].start_rc
        /\ back.cancel_requested = polling[t].cancel_requested
    BY <1>0, Zenon DEF PollRecord
  <2>3. polling[t].inSuspend /\ pollSignal' = pollSignal /\ accepting' = accepting /\ stranded' = stranded
    BY <1>2, Zenon DEF PostStart
  <2>4. \/ /\ pollPosts' = Append(pollPosts, <<"start", t>>)
           /\ polling' = [polling EXCEPT ![t] = back]
        \/ /\ ~accepting /\ pollPosts' = pollPosts
           /\ polling' = [polling EXCEPT ![t] = Refused(t, back)]
        \/ back.raced /\ polling' = [polling EXCEPT ![t] = back] /\ pollPosts' = pollPosts
    BY <1>2, Zenon DEF PostStart
  <2> HIDE DEF back
  <2>6. CASE /\ pollPosts' = Append(pollPosts, <<"start", t>>)
             /\ polling' = [polling EXCEPT ![t] = back]
    <3>1. /\ pollPosts' \in Seq(PollPosts)
          /\ \A u \in Pollers, k \in {"start", "cancel"} :
                PollQueued(pollPosts', <<k, u>>) <=>
                   PollQueued(pollPosts, <<k, u>>) \/ (k = "start" /\ u = t)
      <4>1. \A u \in Pollers, k \in {"start", "cancel"} :
               <<"start", t>> = <<k, u>> <=> k = "start" /\ u = t
        BY Zenon
      <4>2. \A e : PollQueued(pollPosts', e) <=> PollQueued(pollPosts, e) \/ <<"start", t>> = e
        BY <1>0, <1>qu, <2>6, PostsAppend, Zenon
      <4>3. pollPosts' \in Seq(PollPosts)
        BY <1>0, <1>qu, <2>6, PostsAppend, Zenon
      <4> QED BY <4>1, <4>2, <4>3, Zenon
    <3>2. \A u \in Pollers : Once(pollPosts', <<"start", u>>)
      <4> TAKE u \in Pollers
      <4>1. <<"start", u>> = <<"start", t>> => ~PollQueued(pollPosts, <<"start", u>>)
        BY <1>0, <2>3, Zenon DEF Suspending
      <4> QED BY <1>0, <1>qu, <2>6, <4>1, PostsAppend, Zenon
    <3>3. polling'[t] = back
      BY <1>qu, <2>1, <2>6, Zenon
    <3>4. Suspending(t)' /\ Posted(t)'
      BY <1>0, <2>2, <2>3, <3>1, <3>3, Zenon DEF Suspending, Posted
    <3>5. Sleeping(t)' /\ WentOn(t)'
      BY <1>0, <2>2, <2>3, <3>1, <3>3, Zenon DEF Suspending, Sleeping, WentOn
    <3> QED BY <1>qu, <2>1, <2>3, <2>6, <3>1, <3>2, <3>4, <3>5, OnePollMoves, Zenon
  <2>7. CASE /\ ~accepting /\ pollPosts' = pollPosts
             /\ polling' = [polling EXCEPT ![t] = Refused(t, back)]
    <3> DEFINE o == Refused(t, back)
    <3>1. /\ o \in PollRecord /\ ~o.asleep /\ ~o.armed /\ ~o.inSuspend
          /\ o.started = polling[t].started /\ o.handle = polling[t].handle
          /\ o.done = polling[t].done /\ o.raced = polling[t].raced
          /\ o.cancel_requested = polling[t].cancel_requested
          /\ o.start_rc = "ECANCELED" /\ o.resumes = polling[t].resumes + 1
      BY <2>1, <2>2, RefusedIsBack
    <3>2. polling'[t] = o
      BY <1>qu, <2>7, Zenon
    <3> HIDE DEF o
    <3>3. Suspending(t)' /\ Posted(t)' /\ Sleeping(t)'
      BY <1>0, <2>3, <2>7, <3>1, <3>2, Zenon DEF Suspending, Posted, Sleeping
    <3>4. /\ polling[t].handle = "none" /\ ~polling[t].started
          /\ \/ polling[t].resumes = 0
             \/ polling[t].resumes = 1 /\ polling[t].done /\ polling[t].cancel_requested
      BY <1>0, <2>3, Zenon DEF Suspending, Sleeping
    <3>5. o.resumes = 1 \/ (o.resumes = 2 /\ o.done /\ o.cancel_requested)
      BY <3>1, <3>4
    <3>6. WentOn(t)'
      BY <3>1, <3>2, <3>4, <3>5, Zenon DEF WentOn
    <3> QED BY <1>k, <2>3, <2>7, <3>1, <3>3, <3>6, Zenon DEF o
  <2>8. CASE back.raced /\ polling' = [polling EXCEPT ![t] = back] /\ pollPosts' = pollPosts
    <3>1. polling'[t] = back
      BY <1>qu, <2>1, <2>8, Zenon
    <3>2. Suspending(t)' /\ Posted(t)'
      BY <1>0, <2>2, <2>3, <2>8, <3>1, Zenon DEF Suspending, Posted
    <3>3. Sleeping(t)' /\ WentOn(t)'
      BY <1>0, <2>2, <2>3, <2>8, <3>1, Zenon DEF Suspending, Sleeping, WentOn
    <3> QED BY <1>k, <2>1, <2>3, <2>8, <3>2, <3>3, Zenon
  <2> QED BY <2>4, <2>6, <2>7, <2>8, Zenon
<1>3. ASSUME NEW t \in Pollers, on_poll_ready(t) PROVE PollInv'
  <2>1. /\ polling[t].handle = "active"
        /\ pollSignal' = pollSignal /\ accepting' = accepting /\ stranded' = stranded /\ pollPosts' = pollPosts
    BY <1>3, Zenon DEF on_poll_ready
  <2>2. PICK s \in {"ok", "error"} :
           polling' = [polling EXCEPT ![t] = complete_on_loop(t, [@ EXCEPT !.status = s])]
    BY <1>3, Zenon DEF on_poll_ready
  <2> DEFINE o == [polling[t] EXCEPT !.status = s]
             r == complete_on_loop(t, o)
  <2>0. polling[t] \in PollRecord
    BY <1>0, Zenon
  <2>o. o \in PollRecord
    BY <2>0, Zenon DEF PollRecord
  <2>3. /\ o \in PollRecord /\ o.handle = "active" /\ o.started = polling[t].started
        /\ o.done = polling[t].done /\ o.inSuspend = polling[t].inSuspend
        /\ o.resumes = polling[t].resumes /\ o.raced = polling[t].raced
        /\ o.cancel_requested = polling[t].cancel_requested
    BY <1>0, <2>1, <2>o, Zenon DEF PollRecord
  <2>4. polling' = [polling EXCEPT ![t] = r]
    BY <2>2, Zenon
  <2> HIDE DEF o
  <2>5. ~o.done /\ o.started /\ ~o.inSuspend /\ o.resumes = 0
    BY <1>0, <2>1, <2>3, Zenon DEF Sleeping
  <2>6. /\ r \in PollRecord /\ ~r.asleep /\ ~r.armed /\ r.done /\ ~r.inSuspend
        /\ r.resumes = 1 /\ r.handle # "active" /\ r.raced = (o.raced \/ o.inSuspend)
        /\ r.cancel_requested = polling[t].cancel_requested
    BY <2>3, <2>5, CompleteIsBack
  <2>7. polling'[t] = r
    BY <1>qu, <2>4, Zenon
  <2>8. ~PollQueued(pollPosts, <<"start", t>>)
    BY <1>0, <2>1, <2>3, <2>5, Zenon DEF Posted
  <2> HIDE DEF r
  <2>9. Suspending(t)' /\ Posted(t)' /\ Sleeping(t)' /\ WentOn(t)'
    BY <1>0, <2>1, <2>3, <2>5, <2>6, <2>7, <2>8, Zenon DEF Suspending, Posted, Sleeping, WentOn
  <2> QED BY <1>k, <2>1, <2>4, <2>6, <2>9, Zenon
<1>4. ASSUME NEW t \in Pollers, on_poll_close(t) PROVE PollInv'
  <2>1. /\ polling[t].handle = "closing"
        /\ pollSignal' = pollSignal /\ accepting' = accepting /\ stranded' = stranded /\ pollPosts' = pollPosts
    BY <1>4, Zenon DEF on_poll_close
  <2> DEFINE o == [polling[t] EXCEPT !.handle = "closed", !.holder = FALSE]
  <2>0. polling[t] \in PollRecord
    BY <1>0, Zenon
  <2>o. o \in PollRecord
    BY <2>0, Zenon DEF PollRecord
  <2>2. /\ o \in PollRecord /\ o.handle = "closed" /\ o.started = polling[t].started
        /\ o.done = polling[t].done /\ o.inSuspend = polling[t].inSuspend
        /\ o.asleep = polling[t].asleep /\ o.armed = polling[t].armed
        /\ o.resumes = polling[t].resumes /\ o.raced = polling[t].raced
        /\ o.cancel_requested = polling[t].cancel_requested /\ o.start_rc = polling[t].start_rc
    BY <1>0, <2>o, Zenon DEF PollRecord
  <2>3. polling' = [polling EXCEPT ![t] = o]
    BY <1>0, <1>qu, <1>4, Zenon DEF on_poll_close, PollRecord
  <2> HIDE DEF o
  <2>4. polling'[t] = o
    BY <1>qu, <2>3, Zenon
  <2>5. Suspending(t)' /\ Posted(t)' /\ Sleeping(t)' /\ WentOn(t)'
    BY <1>0, <2>1, <2>2, <2>4, Zenon DEF Suspending, Posted, Sleeping, WentOn
  <2> QED BY <1>k, <2>1, <2>2, <2>3, <2>5, Zenon
<1>5. ASSUME NEW t \in Pollers, EmitPoll(t) PROVE PollInv'
  <2>1. /\ pollSignal' = pollSignal \cup {t} /\ polling' = polling
        /\ accepting' = accepting /\ stranded' = stranded /\ pollPosts' = pollPosts
    BY <1>5, Zenon DEF EmitPoll
  <2>2. polling' = [polling EXCEPT ![t] = polling[t]]
    BY <1>qu, <2>1, Zenon
  <2>3. Suspending(t)' /\ Posted(t)' /\ Sleeping(t)' /\ WentOn(t)'
    BY <1>0, <1>5, <2>1, Zenon DEF Suspending, Posted, Sleeping, WentOn, EmitPoll
  <2> QED BY <1>0, <1>qu, <2>1, <2>2, <2>3, OnePollMoves, Zenon
<1>6. ASSUME NEW t \in Pollers, CancelHandler(t) PROVE PollInv'
  <2>1. /\ t \in pollSignal /\ polling[t].armed
        /\ pollSignal' = pollSignal /\ accepting' = accepting /\ stranded' = stranded
        /\ pollPosts' = IF accepting THEN Append(pollPosts, <<"cancel", t>>) ELSE pollPosts
    BY <1>6, Zenon DEF CancelHandler
  <2> DEFINE o == [polling[t] EXCEPT !.cancel_requested = TRUE, !.armed = FALSE]
  <2>0. polling[t] \in PollRecord
    BY <1>0, Zenon
  <2>o. o \in PollRecord
    BY <2>0, Zenon DEF PollRecord
  <2>2. /\ o \in PollRecord /\ o.handle = polling[t].handle /\ o.started = polling[t].started
        /\ o.done = polling[t].done /\ o.inSuspend = polling[t].inSuspend
        /\ o.asleep = polling[t].asleep /\ ~o.armed
        /\ o.resumes = polling[t].resumes /\ o.raced = polling[t].raced
        /\ o.cancel_requested /\ o.start_rc = polling[t].start_rc
    BY <1>0, <2>o, Zenon DEF PollRecord
  <2>3. polling' = [polling EXCEPT ![t] = o]
    BY <1>0, <1>qu, <1>6, Zenon DEF CancelHandler, PollRecord
  <2> HIDE DEF o
  <2>4. polling'[t] = o
    BY <1>qu, <2>3, Zenon
  <2>5. /\ pollPosts' \in Seq(PollPosts)
        /\ \A u \in Pollers, k \in {"start", "cancel"} :
              PollQueued(pollPosts', <<k, u>>) <=>
                 PollQueued(pollPosts, <<k, u>>) \/ (accepting /\ k = "cancel" /\ u = t)
    <3>1. CASE accepting
      <4>1. \A u \in Pollers, k \in {"start", "cancel"} :
               <<"cancel", t>> = <<k, u>> <=> k = "cancel" /\ u = t
        BY Zenon
      <4>p. /\ pollPosts' = Append(pollPosts, <<"cancel", t>>) /\ <<"cancel", t>> \in PollPosts
            /\ pollPosts \in Seq(PollPosts)
        BY <1>0, <1>qu, <2>1, <3>1, Zenon
      <4>2. \A e : PollQueued(pollPosts', e) <=> PollQueued(pollPosts, e) \/ <<"cancel", t>> = e
        BY <4>p, PostsAppend, Zenon
      <4>3. pollPosts' \in Seq(PollPosts)
        BY <4>p, PostsAppend, Zenon
      <4> QED BY <3>1, <4>1, <4>2, <4>3, Zenon
    <3>2. CASE ~accepting
      BY <1>qu, <2>1, <3>2, Zenon
    <3> QED BY <3>1, <3>2, Zenon
  <2>6. \A u \in Pollers : Once(pollPosts', <<"start", u>>)
    <3> TAKE u \in Pollers
    <3>1. <<"cancel", t>> # <<"start", u>>
      BY Zenon
    <3> QED BY <1>0, <1>qu, <2>1, <3>1, PostsAppend, Zenon
  <2>7. Suspending(t)' /\ Posted(t)'
    BY <1>0, <2>1, <2>2, <2>4, <2>5, Zenon DEF Suspending, Posted
  <2>8. Sleeping(t)' /\ WentOn(t)'
    BY <1>0, <2>1, <2>2, <2>4, <2>5, Zenon DEF Sleeping, WentOn
  <2> QED BY <1>qu, <2>1, <2>2, <2>3, <2>5, <2>6, <2>7, <2>8, OnePollMoves, Zenon
<1>7. ASSUME RunStart PROVE PollInv'
  <2>1. /\ pollPosts # <<>> /\ Head(pollPosts)[1] = "start" /\ pollPosts' = Tail(pollPosts)
        /\ pollSignal' = pollSignal /\ accepting' = accepting /\ stranded' = stranded
    BY <1>7, Zenon DEF RunStart
  <2>3. PICK t \in Pollers : Head(pollPosts) = <<"start", t>>
    <3>1. Head(pollPosts) \in {"start", "cancel"} \X Pollers
      BY <1>qu, <2>1, PostsTail, Zenon DEF PollPosts
    <3> QED BY <2>1, <3>1
  <2>2. PICK o \in start_on_loop(t, polling[t]) : polling' = [polling EXCEPT ![t] = o]
    <3>1. Head(pollPosts)[2] = t
      BY <2>3
    <3> QED BY <1>7, <3>1, Zenon DEF RunStart
  <2>4. /\ pollPosts' \in Seq(PollPosts)
        /\ \A u \in Pollers : Once(pollPosts', <<"start", u>>)
        /\ PollQueued(pollPosts, <<"start", t>>) /\ ~PollQueued(pollPosts', <<"start", t>>)
        /\ PollQueued(pollPosts', <<"cancel", t>>) <=> PollQueued(pollPosts, <<"cancel", t>>)
        /\ \A u \in Pollers \ {t}, k \in {"start", "cancel"} :
              PollQueued(pollPosts', <<k, u>>) <=> PollQueued(pollPosts, <<k, u>>)
    <3>1. \A u \in Pollers, k \in {"start", "cancel"} :
             <<k, u>> = <<"start", t>> <=> k = "start" /\ u = t
      BY Zenon
    <3> QED BY <1>qu, <2>1, <2>3, <3>1, PostsTail, Zenon
  <2>5. CASE polling[t].done
    <3>1. o = polling[t] /\ polling'[t] = o /\ o \in PollRecord
      BY <1>0, <1>qu, <2>2, <2>3, <2>5, Zenon DEF start_on_loop
    <3>2. Suspending(t)' /\ Posted(t)' /\ Sleeping(t)' /\ WentOn(t)'
      BY <1>0, <2>1, <2>3, <2>4, <2>5, <3>1, Zenon DEF Suspending, Posted, Sleeping, WentOn
    <3> QED BY <1>qu, <2>1, <2>2, <2>3, <2>4, <3>1, <3>2, OnePollMoves, Zenon
  <2>6. CASE ~polling[t].done
    <3>1. /\ polling[t].asleep /\ polling[t].handle = "none" /\ ~polling[t].started
          /\ ~polling[t].inSuspend /\ polling[t].resumes = 0
      BY <1>0, <2>3, <2>4, <2>6, Zenon DEF Suspending, Posted, Sleeping, WentOn
    <3>2. /\ o \in PollRecord /\ ~o.inSuspend /\ o.raced = polling[t].raced
          /\ o.cancel_requested = polling[t].cancel_requested
          /\ \/ /\ o.asleep /\ o.handle = "active" /\ o.started /\ ~o.done
                /\ o.resumes = 0 /\ o.armed = polling[t].armed
             \/ /\ ~o.asleep /\ ~o.armed /\ o.done /\ o.resumes = 1 /\ o.handle # "active"
      BY <1>0, <2>3, <2>6, <3>1, StartIsBack, Zenon
    <3>3. polling'[t] = o
      BY <1>qu, <2>2, <2>3, Zenon
    <3>4. Suspending(t)' /\ Posted(t)' /\ Sleeping(t)' /\ WentOn(t)'
      BY <1>0, <2>1, <2>3, <2>4, <3>1, <3>2, <3>3, Zenon DEF Suspending, Posted, Sleeping, WentOn
    <3> QED BY <1>qu, <2>1, <2>2, <2>3, <2>4, <3>2, <3>4, OnePollMoves, Zenon
  <2> QED BY <2>5, <2>6, Zenon
<1>8. ASSUME RunCancelPoll PROVE PollInv'
  <2>1. /\ pollPosts # <<>> /\ Head(pollPosts)[1] = "cancel" /\ pollPosts' = Tail(pollPosts)
        /\ pollSignal' = pollSignal /\ accepting' = accepting /\ stranded' = stranded
    BY <1>8, Zenon DEF RunCancelPoll
  <2>3. PICK t \in Pollers : Head(pollPosts) = <<"cancel", t>>
    <3>1. Head(pollPosts) \in {"start", "cancel"} \X Pollers
      BY <1>qu, <2>1, PostsTail, Zenon DEF PollPosts
    <3> QED BY <2>1, <3>1
  <2> DEFINE o == complete_on_loop(t, polling[t])
  <2>2. polling' = [polling EXCEPT ![t] = o]
    <3>1. Head(pollPosts)[2] = t
      BY <2>3
    <3> QED BY <1>8, <3>1, Zenon DEF RunCancelPoll
  <2>4. /\ pollPosts' \in Seq(PollPosts)
        /\ \A u \in Pollers : Once(pollPosts', <<"start", u>>)
        /\ PollQueued(pollPosts', <<"start", t>>) <=> PollQueued(pollPosts, <<"start", t>>)
        /\ PollQueued(pollPosts, <<"cancel", t>>)
        /\ \A u \in Pollers \ {t}, k \in {"start", "cancel"} :
              PollQueued(pollPosts', <<k, u>>) <=> PollQueued(pollPosts, <<k, u>>)
    <3>1. \A u \in Pollers, k \in {"start", "cancel"} :
             <<k, u>> = <<"cancel", t>> <=> k = "cancel" /\ u = t
      BY Zenon
    <3> QED BY <1>qu, <2>1, <2>3, <3>1, PostsTail, Zenon
  <2>5. t \in pollSignal /\ polling[t].cancel_requested
    BY <1>0, <2>3, <2>4, Zenon DEF Posted
  <2>6. CASE polling[t].done
    <3>1. o = polling[t] /\ polling'[t] = o /\ o \in PollRecord
      BY <1>0, <1>qu, <2>2, <2>3, <2>6, Zenon DEF complete_on_loop
    <3> HIDE DEF o
    <3>2. Suspending(t)' /\ Posted(t)' /\ Sleeping(t)' /\ WentOn(t)'
      BY <1>0, <2>1, <2>3, <2>4, <2>5, <2>6, <3>1, Zenon DEF Suspending, Posted, Sleeping, WentOn
    <3> QED BY <1>qu, <2>1, <2>2, <2>3, <2>4, <3>1, <3>2, OnePollMoves, Zenon
  <2>7. CASE ~polling[t].done
    <3>1. polling[t].handle = "active" => polling[t].started
      BY <1>0, <2>3, Zenon DEF Sleeping
    <3>2. /\ o \in PollRecord /\ ~o.asleep /\ ~o.armed /\ o.done
          /\ o.inSuspend = polling[t].inSuspend /\ o.started = polling[t].started
          /\ o.resumes = polling[t].resumes + 1
          /\ o.raced = (polling[t].raced \/ polling[t].inSuspend)
          /\ o.handle # "active" /\ (~polling[t].started => o.handle = polling[t].handle)
          /\ o.cancel_requested = polling[t].cancel_requested
          /\ o.start_rc = polling[t].start_rc
      <4>1. polling[t] \in PollRecord
        BY <1>0, Zenon
      <4> QED BY <2>7, <3>1, <4>1, CompleteIsBack
    <3>3. polling'[t] = o
      BY <1>qu, <2>2, <2>3, Zenon
    <3> HIDE DEF o
    <3>4. \/ polling[t].resumes = 0
          \/ polling[t].resumes = 1 /\ polling[t].start_rc = "ECANCELED" /\ ~polling[t].inSuspend
      BY <1>0, <2>3, <2>7, Zenon DEF WentOn
    <3>5. \/ o.resumes = 1
          \/ o.resumes = 2 /\ o.start_rc = "ECANCELED" /\ ~o.inSuspend
      BY <3>2, <3>4
    <3>6. Suspending(t)' /\ Posted(t)'
      BY <1>0, <2>1, <2>3, <2>4, <2>5, <2>7, <3>2, <3>3, <3>5, Zenon DEF Suspending, Posted
    <3>7. Sleeping(t)' /\ WentOn(t)'
      <4>1. polling[t].raced \/ polling[t].inSuspend => t \in OffLoopPollers
        BY <1>0, <2>3, Zenon DEF Suspending, Sleeping
      <4> QED BY <2>1, <2>4, <2>5, <3>2, <3>3, <3>5, <4>1, Zenon DEF Sleeping, WentOn
    <3> QED BY <1>qu, <2>1, <2>2, <2>3, <2>4, <3>2, <3>6, <3>7, OnePollMoves, Zenon
  <2> QED BY <2>6, <2>7, Zenon
<1>9. ASSUME StopAccepting PROVE PollInv'
  <2>1. polling' = polling /\ pollSignal' = pollSignal /\ accepting' = FALSE /\ stranded = {}
    BY <1>qu, <1>9, Zenon DEF StopAccepting
  <2>2. PICK k \in 0 .. Len(pollPosts) :
          /\ pollPosts' = SubSeq(pollPosts, 1, k)
          /\ stranded' = {pollPosts[i] : i \in (k + 1) .. Len(pollPosts)}
    BY <1>9, Zenon DEF StopAccepting
  <2>3. /\ pollPosts' \in Seq(PollPosts)
        /\ \A e : Once(pollPosts, e) => Once(pollPosts', e)
        /\ \A e : PollQueued(pollPosts', e) => PollQueued(pollPosts, e)
        /\ \A e : PollQueued(pollPosts, e) => PollQueued(pollPosts', e) \/ e \in stranded'
    BY <1>qu, <2>2, PostsStop, Zenon
  <2>4. ASSUME NEW t \in Pollers PROVE Suspending(t)' /\ Posted(t)'
    BY <1>0, <2>1, <2>3, <2>4, Zenon DEF Suspending, Posted
  <2>5. ASSUME NEW t \in Pollers PROVE Sleeping(t)' /\ WentOn(t)'
    <3>1. Sleeping(t) /\ WentOn(t) /\ <<"start", t>> \notin stranded /\ ~accepting'
      BY <1>0, <2>1, <2>5, Zenon
    <3>2. PollQueued(pollPosts, <<"start", t>>) =>
             PollQueued(pollPosts', <<"start", t>>) \/ <<"start", t>> \in stranded'
      BY <2>3, Zenon
    <3> QED BY <2>1, <3>1, <3>2, Zenon DEF Sleeping, WentOn
  <2> QED BY <1>qu, <2>1, <2>3, <2>4, <2>5, Zenon DEF PollInv
<1>10. ASSUME UNCHANGED pollVars PROVE PollInv'
  <2>1. /\ polling' = polling /\ pollSignal' = pollSignal /\ pollPosts' = pollPosts
        /\ accepting' = accepting /\ stranded' = stranded
    BY <1>10, Zenon DEF pollVars
  <2>2. ASSUME NEW t \in Pollers PROVE Suspending(t)' /\ Posted(t)' /\ Sleeping(t)' /\ WentOn(t)'
    BY <1>0, <2>1, <2>2, Zenon DEF Suspending, Posted, Sleeping, WentOn
  <2> QED BY <1>qu, <2>1, <2>2, Zenon DEF PollInv
<1> QED
  BY <1>1, <1>2, <1>3, <1>4, <1>5, <1>6, <1>7, <1>8, <1>9, <1>10, Zenon DEF PollNext

\* A coroutine asleep in poll::wait always has something that will wake it, unless
\* the executor was shut down with its start in the queue; a cancelled one has its
\* cancellation on the way while the executor accepts; one that is back is not
\* watched for, and went on once, or twice when the start was refused and a
\* cancellation was posted before (poll.h await_suspend, start_on_loop,
\* complete_on_loop, cancel_on_loop).
THEOREM PollsRemembered == PollInit /\ [][PollNext]_pollVars => []NoForgottenPoll
<1>1. PollInv => NoForgottenPoll
  <2> SUFFICES ASSUME PollInv PROVE NoForgottenPoll
    BY Zenon
  <2>1. ASSUME NEW t \in Pollers
        PROVE  Sleeping(t) /\ WentOn(t) /\ polling[t] \in PollRecord
    BY <2>1, Zenon DEF PollInv
  <2>2. ASSUME NEW t \in Pollers
        PROVE  polling[t].resumes <= IF polling[t].cancel_requested /\ polling[t].start_rc = "ECANCELED"
                                     THEN 2 ELSE 1
    <3> DEFINE n == polling[t].resumes
    <3>1. n = 0 \/ n = 1 \/ (n = 2 /\ polling[t].cancel_requested /\ polling[t].start_rc = "ECANCELED")
      BY <2>1, <2>2, Zenon DEF WentOn
    <3> QED BY <3>1
  <2> QED BY <2>1, <2>2, Zenon DEF NoForgottenPoll, Sleeping
<1> QED BY <1>1, PollInitInv, PollStepInv, PTL

------------------------------------------------------------------------------
(***************************************************************************)
(* Directory: one uv_fs request at a time, for any number of coroutines.   *)
(***************************************************************************)

\* A request of a coroutine is what State's flags say; the State has the handle
\* until it is closed, and lets go of it when nobody has the State any more.
Requests ==
    /\ \A t \in Readers : reading[t] = "Readdir" => dir /\ read_inflight /\ ~dirClosing
    /\ \A t \in Readers : reading[t] = "Closedir" => dir /\ dirClosing /\ ~read_inflight
    /\ \A t, u \in Readers : reading[t] # "idle" /\ reading[u] # "idle" => t = u
Handle ==
    /\ ~dirCloseFailed => uv_dir # "again" /\ (dir => uv_dir = "open")
    /\ uv_dir = "open" => dir
    /\ uv_dir = "none" => ~dir /\ ~dirHeld
    /\ ~dirHeld /\ (\A t \in Readers : reading[t] = "idle") => ~dir

DirectoryInv == DirectoryTypeOK /\ Requests /\ Handle

LEMMA DirectoryInitInv == DirectoryInit => DirectoryInv
BY Zenon DEF DirectoryInit, DirectoryInv, DirectoryTypeOK, Requests, Handle

(* A request that ends leaves the State to the others, or closes the handle. *)
LEMMA LeaveDirStep ==
    ASSUME DirectoryInv, NEW t \in Readers, reading[t] # "idle",
           NEW valid \in BOOLEAN, NEW inflight \in BOOLEAN, NEW closingAfter \in BOOLEAN,
           NEW d \in {"none", "open", "closed", "again"},
           Leave(t, valid, inflight, closingAfter, d),
           dirCloseFailed' \in BOOLEAN, dirCloseFailed => dirCloseFailed',
           unread' \subseteq Entries, out' \in [Readers -> SUBSET Entries],
           ~dirCloseFailed' => d # "again" /\ (valid => d = "open"),
           d = "open" => valid, d = "none" => ~valid /\ ~dirHeld
    PROVE  DirectoryInv'
<1>1. \A u \in Readers \ {t} : reading[u] = "idle"
  BY Zenon DEF DirectoryInv, Requests
<1>2. reading' = [u \in Readers |-> "idle"]
  BY <1>1, Zenon DEF DirectoryInv, DirectoryTypeOK, Leave
<1>3. Requests'
  BY <1>2, Zenon DEF Requests
<1>4. /\ uv_dir' \in {"none", "open", "closed", "again"}
      /\ dir' \in BOOLEAN /\ read_inflight' \in BOOLEAN /\ dirClosing' \in BOOLEAN
      /\ dirHeld' = dirHeld /\ wants' = wants
  BY Zenon DEF Leave, Closedir
<1>5. DirectoryTypeOK'
  BY <1>2, <1>4, Zenon DEF DirectoryInv, DirectoryTypeOK
<1>6. Handle'
  <2>1. CASE ~dirHeld /\ valid
    BY <1>1, <1>2, <2>1, Zenon DEF Leave, LastReader, Handle, Closedir
  <2>2. CASE ~(~dirHeld /\ valid)
    BY <1>1, <1>2, <2>2, Zenon DEF Leave, LastReader, Handle
  <2> QED BY <2>1, <2>2, Zenon
<1> QED BY <1>3, <1>5, <1>6, Zenon DEF DirectoryInv

LEMMA DirectoryStepInv == DirectoryInv /\ [DirectoryNext]_dirVars => DirectoryInv'
<1> SUFFICES ASSUME DirectoryInv, [DirectoryNext]_dirVars PROVE DirectoryInv'
  BY Zenon
<1> USE DEF DirectoryInv
<1>1. CASE open_directory
  BY <1>1, Zenon DEF open_directory, DirectoryTypeOK, Requests, Handle
<1>2. CASE DropDirectory
  BY <1>2, Zenon DEF DropDirectory, Closedir, DirectoryTypeOK, Requests, Handle
<1>3. ASSUME NEW t \in Readers, NEW how \in {"read_some", "read_all"}, StartRead(t, how)
      PROVE  DirectoryInv'
  BY <1>3, Zenon DEF StartRead, Acquire, MayRead, dir_is_open, DirectoryTypeOK, Requests, Handle
<1>4. ASSUME NEW t \in Readers, Readdir(t)
      PROVE  DirectoryInv'
  <2>1. PICK batch \in SUBSET unread :
           /\ unread' = unread \ batch
           /\ out' = [out EXCEPT ![t] = @ \cup batch]
           /\ IF wants[t] = "read_all" /\ batch # {} /\ dirHeld
              THEN UNCHANGED <<uv_dir, dirHeld, dir, read_inflight, dirClosing, reading, wants>>
              ELSE Leave(t, dir, FALSE, dirClosing, uv_dir)
    BY <1>4, Zenon DEF Readdir
  <2>2. /\ unread' \subseteq Entries /\ out' \in [Readers -> SUBSET Entries]
        /\ dirCloseFailed' = dirCloseFailed /\ dirCloseFailed \in BOOLEAN
    BY <1>4, <2>1, Zenon DEF Readdir, DirectoryTypeOK
  <2>3. CASE Leave(t, dir, FALSE, dirClosing, uv_dir)
    <3>1. /\ reading[t] # "idle" /\ dir \in BOOLEAN /\ dirClosing \in BOOLEAN
          /\ uv_dir \in {"none", "open", "closed", "again"}
          /\ ~dirCloseFailed => uv_dir # "again" /\ (dir => uv_dir = "open")
          /\ uv_dir = "open" => dir
          /\ uv_dir = "none" => ~dir /\ ~dirHeld
      BY <1>4, Zenon DEF Readdir, DirectoryTypeOK, Handle
    <3> QED BY <2>2, <2>3, <3>1, LeaveDirStep, Zenon
  <2>4. CASE UNCHANGED <<uv_dir, dirHeld, dir, read_inflight, dirClosing, reading, wants>>
    BY <2>2, <2>4, Zenon DEF DirectoryTypeOK, Requests, Handle
  <2> QED BY <2>1, <2>3, <2>4, Zenon
<1>5. ASSUME NEW t \in Readers, ReaddirFails(t)
      PROVE  DirectoryInv'
  BY <1>5, LeaveDirStep DEF ReaddirFails, DirectoryTypeOK, Handle
<1>6. ASSUME NEW t \in Readers, CloseDirectory(t)
      PROVE  DirectoryInv'
  BY <1>6, Zenon DEF CloseDirectory, MayCloseDir, dir_is_open, DirectoryTypeOK, Requests, Handle
<1>7. ASSUME NEW t \in Readers, CloseDone(t)
      PROVE  DirectoryInv'
  <2>1. Closedir(uv_dir) \in {"closed", "again"} /\ (~dirCloseFailed => Closedir(uv_dir) = "closed")
    BY <1>7, Zenon DEF CloseDone, Closedir, Requests, Handle
  <2> QED BY <1>7, <2>1, LeaveDirStep, Zenon DEF CloseDone, DirectoryTypeOK
<1>8. ASSUME NEW t \in Readers, CloseDirFails(t)
      PROVE  DirectoryInv'
  <2>1. PICK d \in {uv_dir, Closedir(uv_dir)} : Leave(t, dir, read_inflight, FALSE, d)
    BY <1>8, Zenon DEF CloseDirFails
  <2>2. d \in {"open", "closed", "again"} /\ dir
    BY <1>8, <2>1, Zenon DEF CloseDirFails, Closedir, DirectoryTypeOK, Requests, Handle
  <2> QED BY <1>8, <2>1, <2>2, LeaveDirStep DEF CloseDirFails, DirectoryTypeOK
<1>9. CASE UNCHANGED dirVars
  BY <1>9, Zenon DEF dirVars, DirectoryTypeOK, Requests, Handle
<1> QED BY <1>1, <1>2, <1>3, <1>4, <1>5, <1>6, <1>7, <1>8, <1>9, Zenon DEF DirectoryNext

(* OneRequestPerDirectory holds for any number of coroutines. *)
THEOREM DirectoryRequestsAlone ==
    DirectoryInit /\ [][DirectoryNext]_dirVars => []OneRequestPerDirectory
<1>1. DirectoryInv => OneRequestPerDirectory
  BY Zenon DEF DirectoryInv, DirectoryTypeOK, Requests, Handle, OneRequestPerDirectory
<1> QED BY <1>1, DirectoryInitInv, DirectoryStepInv, PTL

------------------------------------------------------------------------------
(***************************************************************************)
(* BlockingWork: the request of run_blocking and its coroutine, for any    *)
(* number of them.                                                         *)
(***************************************************************************)

WorkRecord ==
    [awaits : {"no", "queue", "mark", "asleep", "gone"},
     req : {"none", "pool", "running", "after"},
     armed : BOOLEAN, queued : BOOLEAN, cancel_requested : BOOLEAN,
     abandoned : BOOLEAN, h : BOOLEAN,
     result : {"none", "value", "exception"},
     after_status : {"ok", "ECANCELED", "refused"},
     outcome : {"none", "canceled", "refused", "value", "exception"},
     dead : BOOLEAN]

\* What the Op of coroutine t says: libuv holds its request from uv_queue_work to
\* on_after_work, its frame is gone exactly if ~WorkAwaiter said so, and a
\* cancellation has been recorded, or is still to be.
Consistent(t) ==
    LET o == work[t] IN
    /\ ~o.dead
    /\ o.awaits \in {"no", "queue"} => o.req = "none"
    /\ o.awaits \in {"mark", "asleep"} => o.req # "none"
    /\ o.awaits \in {"queue", "mark", "asleep"} => ~o.abandoned /\ o.h
    /\ o.awaits = "gone" => o.abandoned
    /\ o.awaits = "asleep" => o.queued
    /\ o.awaits = "no" /\ o.outcome \in {"value", "exception"} => o.result = o.outcome
    /\ o.awaits \in {"queue", "mark", "asleep"} /\ t \notin workSignal => o.armed
    /\ o.awaits \in {"queue", "mark"} => o.armed \/ o.cancel_requested
    /\ o.awaits = "asleep" /\ t \in workSignal /\ o.req = "pool" => o.armed \/ t \in workPosts

WorkInv ==
    /\ work \in [Blockers -> WorkRecord]
    /\ workSignal \subseteq Blockers /\ workPosts \subseteq Blockers
    /\ \A t \in Blockers : Consistent(t)

LEMMA WorkInitInv == BlockingInit => WorkInv
BY DEF BlockingInit, WorkInv, WorkRecord, Consistent, NewWork

(* The Op keeps its type. *)
LEMMA WorkUpdates ==
    ASSUME NEW o \in WorkRecord
    PROVE  /\ [o EXCEPT !.outcome = "canceled"] \in WorkRecord
           /\ [o EXCEPT !.awaits = "queue", !.armed = TRUE] \in WorkRecord
           /\ [o EXCEPT !.awaits = "mark", !.req = "pool"] \in WorkRecord
           /\ [o EXCEPT !.after_status = "refused"] \in WorkRecord
           /\ [o EXCEPT !.awaits = "asleep", !.queued = TRUE] \in WorkRecord
           /\ \A r \in {"value", "exception"} :
                 [o EXCEPT !.req = "after", !.result = r] \in WorkRecord
           /\ [o EXCEPT !.req = "none"] \in WorkRecord
           /\ \A b \in BOOLEAN : [o EXCEPT !.dead = b] \in WorkRecord
           /\ [o EXCEPT !.awaits = "gone"] \in WorkRecord
<1>1. [o EXCEPT !.outcome = "canceled"] \in WorkRecord
  BY Zenon DEF WorkRecord
<1>2. [o EXCEPT !.awaits = "queue", !.armed = TRUE] \in WorkRecord
  BY Zenon DEF WorkRecord
<1>3. [o EXCEPT !.awaits = "mark", !.req = "pool"] \in WorkRecord
  BY Zenon DEF WorkRecord
<1>4. [o EXCEPT !.after_status = "refused"] \in WorkRecord
  BY Zenon DEF WorkRecord
<1>5. [o EXCEPT !.awaits = "asleep", !.queued = TRUE] \in WorkRecord
  BY Zenon DEF WorkRecord
<1>6. ASSUME NEW r \in {"value", "exception"}
      PROVE  [o EXCEPT !.req = "after", !.result = r] \in WorkRecord
  BY Zenon DEF WorkRecord
<1>7. [o EXCEPT !.req = "none"] \in WorkRecord
  BY Zenon DEF WorkRecord
<1>8. ASSUME NEW b \in BOOLEAN PROVE [o EXCEPT !.dead = b] \in WorkRecord
  BY Zenon DEF WorkRecord
<1>9. [o EXCEPT !.awaits = "gone"] \in WorkRecord
  BY Zenon DEF WorkRecord
<1> QED BY <1>1, <1>2, <1>3, <1>4, <1>5, <1>6, <1>7, <1>8, <1>9, Zenon

LEMMA WorkTypes ==
    ASSUME NEW t, NEW o \in WorkRecord
    PROVE  /\ Resumed(t, o) \in WorkRecord
           /\ try_cancel_on_loop(o) \in WorkRecord
           /\ Abandon(o) \in WorkRecord
<1>1. ASSUME NEW x \in {"none", "canceled", "refused", "value", "exception"}
      PROVE  [o EXCEPT !.awaits = "no", !.armed = FALSE, !.outcome = x] \in WorkRecord
  BY Zenon DEF WorkRecord
<1>2. (IF t \in workSignal \/ o.after_status = "ECANCELED" THEN "canceled"
       ELSE IF o.after_status = "refused" THEN "refused" ELSE o.result)
        \in {"none", "canceled", "refused", "value", "exception"}
  BY Zenon DEF WorkRecord
<1>3. Resumed(t, o) \in WorkRecord
  BY <1>1, <1>2, Zenon DEF Resumed
<1>4. [o EXCEPT !.req = "after", !.after_status = "ECANCELED"] \in WorkRecord
  BY Zenon DEF WorkRecord
<1>5. [o EXCEPT !.abandoned = TRUE, !.h = FALSE] \in WorkRecord
  BY Zenon DEF WorkRecord
<1> QED BY <1>3, <1>4, <1>5, Zenon DEF try_cancel_on_loop, UvCancel, Abandon

(* A step of one coroutine leaves the others as they are. *)
LEMMA OneWorkMoves ==
    ASSUME WorkInv, NEW t \in Blockers, NEW o \in WorkRecord, work' = [work EXCEPT ![t] = o],
           workSignal' \subseteq Blockers, workPosts' \subseteq Blockers,
           workSignal' \ {t} = workSignal \ {t}, workPosts' \ {t} = workPosts \ {t},
           Consistent(t)'
    PROVE  WorkInv'
<1>1. work' \in [Blockers -> WorkRecord]
  BY Zenon DEF WorkInv
<1>2. ASSUME NEW u \in Blockers, u # t PROVE Consistent(u)'
  <2>1. work'[u] = work[u] /\ (u \in workSignal' <=> u \in workSignal)
        /\ (u \in workPosts' <=> u \in workPosts)
    BY <1>2, Zenon DEF WorkInv
  <2>2. Consistent(u)
    BY Zenon DEF WorkInv
  <2> QED BY <2>1, <2>2, Zenon DEF Consistent
<1> QED BY <1>1, <1>2, Zenon DEF WorkInv

LEMMA WorkStepInv == WorkInv /\ [BlockingNext]_workVars => WorkInv'
<1> SUFFICES ASSUME WorkInv, [BlockingNext]_workVars PROVE WorkInv'
  BY Zenon
<1>1. ASSUME NEW t \in Blockers PROVE work[t] \in WorkRecord /\ Consistent(t)
  BY Zenon DEF WorkInv
<1>2. workSignal \subseteq Blockers /\ workPosts \subseteq Blockers /\ work \in [Blockers -> WorkRecord]
  BY Zenon DEF WorkInv
<1>3. ASSUME NEW t \in Blockers, run(t)
      PROVE  WorkInv'
  <2> DEFINE o == IF t \in workSignal THEN [work[t] EXCEPT !.outcome = "canceled"]
                  ELSE [NewWork EXCEPT !.awaits = "queue", !.armed = TRUE]
  <2>1. o \in WorkRecord /\ work' = [work EXCEPT ![t] = o]
    <3>1. [work[t] EXCEPT !.outcome = "canceled"] \in WorkRecord
      BY <1>1, WorkUpdates, Zenon
    <3>2. NewWork \in WorkRecord
      BY Zenon DEF NewWork, WorkRecord
    <3>3. [NewWork EXCEPT !.awaits = "queue", !.armed = TRUE] \in WorkRecord
      BY <3>2, WorkUpdates, Zenon
    <3> QED BY <1>2, <1>3, <3>1, <3>3, Zenon DEF run
  <2>2. Consistent(t)'
    BY <1>1, <1>2, <1>3, <2>1 DEF run, Consistent, WorkRecord, NewWork
  <2> QED BY <1>2, <1>3, <2>1, <2>2, OneWorkMoves, Zenon DEF run
<1>4. ASSUME NEW t \in Blockers, QueueWork(t)
      PROVE  WorkInv'
  <2>1. work' = [work EXCEPT ![t] = [work[t] EXCEPT !.awaits = "mark", !.req = "pool"]]
    BY <1>2, <1>4, Zenon DEF QueueWork
  <2>2. [work[t] EXCEPT !.awaits = "mark", !.req = "pool"] \in WorkRecord
    BY <1>1, WorkUpdates, Zenon
  <2>3. Consistent(t)'
    BY <1>1, <1>2, <1>4, <2>1 DEF QueueWork, Consistent, WorkRecord
  <2> QED BY <1>2, <1>4, <2>1, <2>2, <2>3, OneWorkMoves, Zenon DEF QueueWork
<1>5. ASSUME NEW t \in Blockers, QueueRefused(t)
      PROVE  WorkInv'
  <2> DEFINE o == Resumed(t, [work[t] EXCEPT !.after_status = "refused"])
  <2>1. o \in WorkRecord /\ work' = [work EXCEPT ![t] = o]
    <3>1. [work[t] EXCEPT !.after_status = "refused"] \in WorkRecord
      BY <1>1, WorkUpdates, Zenon
    <3> QED BY <1>2, <1>5, <3>1, WorkTypes, Zenon DEF QueueRefused
  <2>2. Consistent(t)'
    BY <1>1, <1>2, <1>5, <2>1 DEF QueueRefused, Consistent, WorkRecord, Resumed
  <2> QED BY <1>2, <1>5, <2>1, <2>2, OneWorkMoves, Zenon DEF QueueRefused
<1>6. ASSUME NEW t \in Blockers, MarkQueued(t)
      PROVE  WorkInv'
  <2> DEFINE r == [work[t] EXCEPT !.awaits = "asleep", !.queued = TRUE]
             o == IF r.cancel_requested THEN try_cancel_on_loop(r) ELSE r
  <2>1. o \in WorkRecord /\ work' = [work EXCEPT ![t] = o]
    <3>1. r \in WorkRecord
      BY <1>1, WorkUpdates, Zenon
    <3> QED BY <1>2, <1>6, <3>1, WorkTypes, Zenon DEF MarkQueued
  <2>2. Consistent(t)'
    BY <1>1, <1>2, <1>6, <2>1 DEF MarkQueued, Consistent, WorkRecord, try_cancel_on_loop, UvCancel
  <2> QED BY <1>2, <1>6, <2>1, <2>2, OneWorkMoves, Zenon DEF MarkQueued
<1>7. ASSUME NEW t \in Blockers, TakeWork(t)
      PROVE  WorkInv'
  <2>1. /\ work' = [work EXCEPT ![t] = [work[t] EXCEPT !.req = "running"]]
        /\ [work[t] EXCEPT !.req = "running"] \in WorkRecord
    BY <1>1, <1>2, <1>7 DEF TakeWork, WorkRecord
  <2>2. Consistent(t)'
    BY <1>1, <1>2, <1>7, <2>1 DEF TakeWork, Consistent, WorkRecord
  <2> QED BY <1>2, <1>7, <2>1, <2>2, OneWorkMoves, Zenon DEF TakeWork
<1>8. ASSUME NEW t \in Blockers, on_work(t)
      PROVE  WorkInv'
  <2>1. PICK r \in {"value", "exception"} :
           work' = [work EXCEPT ![t] = [work[t] EXCEPT !.req = "after", !.result = r]]
    BY <1>1, <1>2, <1>8, Zenon DEF on_work
  <2>2. [work[t] EXCEPT !.req = "after", !.result = r] \in WorkRecord
    BY <1>1, WorkUpdates, Zenon
  <2>3. Consistent(t)'
    BY <1>1, <1>2, <1>8, <2>1 DEF on_work, Consistent, WorkRecord
  <2> QED BY <1>2, <1>8, <2>1, <2>2, <2>3, OneWorkMoves, Zenon DEF on_work
<1>9. ASSUME NEW t \in Blockers, on_after_work(t)
      PROVE  WorkInv'
  <2>1. work[t].awaits \in {"asleep", "gone"} /\ work[t].req = "after"
    BY <1>1, <1>9, Zenon DEF on_after_work, LoopIdle, Consistent, WorkRecord
  <2>2. CASE work[t].awaits = "gone"
    <3> DEFINE o == [work[t] EXCEPT !.req = "none"]
    <3>1. o \in WorkRecord /\ work' = [work EXCEPT ![t] = o]
      <4>1. o \in WorkRecord
        BY <1>1, WorkUpdates, Zenon
      <4>2. o.abandoned
        BY <1>1, <2>2, Zenon DEF Consistent, WorkRecord
      <4> QED BY <1>2, <1>9, <4>1, <4>2, Zenon DEF on_after_work
    <3>2. Consistent(t)'
      BY <1>1, <1>2, <1>9, <2>2, <3>1 DEF on_after_work, Consistent, WorkRecord
    <3> QED BY <1>2, <1>9, <3>1, <3>2, OneWorkMoves, Zenon DEF on_after_work
  <2>3. CASE work[t].awaits = "asleep"
    <3> DEFINE p == [work[t] EXCEPT !.req = "none"]
               o == Resumed(t, [p EXCEPT !.dead = p.awaits # "asleep"])
    <3>1. o \in WorkRecord /\ work' = [work EXCEPT ![t] = o]
      <4>1. p \in WorkRecord
        BY <1>1, WorkUpdates, Zenon
      <4>2. [p EXCEPT !.dead = p.awaits # "asleep"] \in WorkRecord
        BY <4>1, WorkUpdates, Zenon
      <4>3. ~p.abandoned /\ p.h
        BY <1>1, <2>3, Zenon DEF Consistent, WorkRecord
      <4> QED BY <1>2, <1>9, <4>2, <4>3, WorkTypes, Zenon DEF on_after_work
    <3>2. Consistent(t)'
      BY <1>1, <1>2, <1>9, <2>3, <3>1 DEF on_after_work, Consistent, WorkRecord, Resumed
    <3> QED BY <1>2, <1>9, <3>1, <3>2, OneWorkMoves, Zenon DEF on_after_work
  <2> QED BY <2>1, <2>2, <2>3, Zenon
<1>10. ASSUME NEW t \in Blockers, EmitWork(t)
       PROVE  WorkInv'
  <2>1. work' = [work EXCEPT ![t] = work[t]]
    BY <1>2, <1>10, Zenon DEF EmitWork
  <2>2. Consistent(t)'
    BY <1>1, <1>2, <1>10, Zenon DEF EmitWork, Consistent, WorkRecord
  <2> QED BY <1>1, <1>2, <1>10, <2>1, <2>2, OneWorkMoves, Zenon DEF EmitWork
<1>11. ASSUME NEW t \in Blockers, CancelWork(t)
       PROVE  WorkInv'
  <2> DEFINE o == [work[t] EXCEPT !.cancel_requested = TRUE, !.armed = FALSE]
  <2>1. o \in WorkRecord /\ work' = [work EXCEPT ![t] = o]
    BY <1>1, <1>2, <1>11 DEF CancelWork, WorkRecord
  <2>2. Consistent(t)'
    BY <1>1, <1>2, <1>11, <2>1 DEF CancelWork, Consistent, WorkRecord
  <2> QED BY <1>2, <1>11, <2>1, <2>2, OneWorkMoves, Zenon DEF CancelWork
<1>12. ASSUME NEW t \in Blockers, RunTryCancel(t)
       PROVE  WorkInv'
  <2> DEFINE o == try_cancel_on_loop(work[t])
  <2>1. o \in WorkRecord /\ work' = [work EXCEPT ![t] = o]
    BY <1>1, <1>2, <1>12, WorkTypes, Zenon DEF RunTryCancel
  <2>2. Consistent(t)'
    BY <1>1, <1>2, <1>12, <2>1
       DEF RunTryCancel, LoopIdle, Consistent, WorkRecord, try_cancel_on_loop, UvCancel
  <2> QED BY <1>2, <1>12, <2>1, <2>2, OneWorkMoves, Zenon DEF RunTryCancel
<1>13. ASSUME NEW t \in Blockers, DestroyFrame(t)
       PROVE  WorkInv'
  <2> DEFINE o == Abandon([work[t] EXCEPT !.awaits = "gone"])
  <2>1. o \in WorkRecord /\ work' = [work EXCEPT ![t] = o]
    <3>1. [work[t] EXCEPT !.awaits = "gone"] \in WorkRecord
      BY <1>1, WorkUpdates, Zenon
    <3> QED BY <1>2, <1>13, <3>1, WorkTypes, Zenon DEF DestroyFrame
  <2>2. Consistent(t)'
    BY <1>1, <1>2, <1>13, <2>1 DEF DestroyFrame, Consistent, WorkRecord, Abandon
  <2> QED BY <1>2, <1>13, <2>1, <2>2, OneWorkMoves, Zenon DEF DestroyFrame
<1>14. CASE UNCHANGED workVars
  BY <1>14, Zenon DEF workVars, WorkInv, Consistent
<1> QED BY <1>3, <1>4, <1>5, <1>6, <1>7, <1>8, <1>9, <1>10, <1>11, <1>12, <1>13, <1>14, Zenon
        DEF BlockingNext

(* WorkEndsOnce holds for any number of coroutines and of threads in the pool. *)
THEOREM WorkEnds == BlockingInit /\ [][BlockingNext]_workVars => []WorkEndsOnce
<1>1. WorkInv => WorkEndsOnce
  BY Zenon DEF WorkInv, Consistent, WorkEndsOnce
<1> QED BY <1>1, WorkInitInv, WorkStepInv, PTL

==============================================================================
