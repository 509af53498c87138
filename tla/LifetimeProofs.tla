--------------------------- MODULE LifetimeProofs ----------------------------
(***************************************************************************)
(* Proofs about what must not end before what it serves: the descriptor of *)
(* File before its leases, the wait of TaskGroup before its children, and  *)
(* the scopes of CancelScope, for any sets of coroutines and any bounds.   *)
(***************************************************************************)
EXTENDS File, TaskGroup, CancelScope, FiniteSetTheorems, TLAPS

------------------------------------------------------------------------------
(***************************************************************************)
(* File: its leases, its descriptor and its offset, for any number of      *)
(* coroutines, any size and any number of leaked leases.                   *)
(***************************************************************************)

Calls == Sequential \cup Positional

\* Who is in a call, and who may close.
Callers ==
    /\ \A t \in Users : call[t] = "close" => state.closing /\ Leased = {}
    /\ \A t, u \in Users : call[t] = "close" /\ call[u] = "close" => t = u
    /\ state.closing => state.file
    /\ ~state.file => \A t \in Users : call[t] = "idle"
    /\ ~held /\ (\A t \in Users : call[t] = "idle") => ~state.file

\* inflight counts the calls in progress and the leaked leases.
Leases == state.file => state.inflight = Cardinality(Leased) + leaked

\* The State and the kernel agree about the descriptor, until a close fails.
Descriptor ==
    /\ ~closeFailed => fd # "again" /\ (state.file => fd = "open")
    /\ ~state.file => fd # "open" \/ orphan
    /\ fd = "none" => ~state.file /\ ~orphan /\ ~held /\ leaked = 0
    /\ orphan => ~state.file /\ ~held

\* One sequential call at a time, whose position is the offset plus what it has
\* transferred.
Offsets ==
    /\ SequentialOffset
    /\ \A t \in Users : call[t] \in Sequential =>
         state.sequential_busy /\ at[t] = state.offset + moved[t]
    /\ \A t, u \in Users : call[t] \in Sequential /\ call[u] \in Sequential => t = u
    /\ \A t \in Users : call[t] \notin {"write_all", "read_until_eof"} => moved[t] = 0

\* The inductive invariant.
FileInv == FileTypeOK /\ Callers /\ Leases /\ Descriptor /\ Offsets
----------------------------------------------------------------------------
(* What the calls have in common: one starts, one goes on with its next
   request, one ends and gives its lease back. *)
Starts(t) ==
    \E op \in Calls, pos \in Nat :
        Begin(t, op, pos) /\ (op \in Sequential => pos = state.offset)
GoesOn(t) ==
    \E n \in Nat : /\ call[t] \in {"write_all", "read_until_eof"}
                   /\ Continue(t, n) /\ size' \in Nat
Ends(t) ==
    \E update \in BOOLEAN, total, pos \in Nat :
        /\ call[t] \in Calls
        /\ update => call[t] \in Sequential /\ pos = state.offset + total
        /\ Return(t, release(state, call[t] \in Sequential, update, pos), fd)
        /\ sought' = sought + (IF update THEN total ELSE 0)
        /\ size' \in Nat
        /\ UNCHANGED <<held, leaked, orphan, closeFailed>>

(* The calls of one coroutine are of these three kinds, or a close. *)
LEMMA CallKinds ==
    ASSUME FileInv, NEW t \in Users,
           \/ stat(t) \/ sync(t) \/ datasync(t) \/ read_at(t) \/ write_at(t)
           \/ read_some(t) \/ write_some(t) \/ write_all(t) \/ read_until_eof(t)
           \/ FinishPositional(t) \/ FinishReadSome(t) \/ FinishWriteSome(t)
           \/ StepWriteAll(t) \/ StepReadUntilEof(t) \/ Throw(t)
    PROVE  Starts(t) \/ GoesOn(t) \/ Ends(t)
<1> USE FileAssumption DEF Calls, Sequential, Positional
<1>1. /\ state.offset \in Nat /\ size \in Nat /\ sought \in Nat
      /\ at[t] \in Nat /\ moved[t] \in Nat
  BY Zenon DEF FileInv, FileTypeOK, State
<1>2. /\ call[t] \in Sequential => at[t] = state.offset + moved[t]
      /\ call[t] \notin {"write_all", "read_until_eof"} => moved[t] = 0
  BY Zenon DEF FileInv, Offsets
<1>3. ASSUME NEW n \in 0..Buffer, Read(t, n) \/ Write(t, n)
      PROVE  n \in Nat /\ size' \in Nat
  BY <1>1, <1>3 DEF Read, Write
<1>4. CASE stat(t) \/ sync(t) \/ datasync(t)
  BY <1>4 DEF stat, sync, datasync, Starts
<1>5. CASE read_at(t) \/ write_at(t)
  BY <1>5 DEF read_at, write_at, Starts, Positions
<1>6. CASE read_some(t) \/ write_some(t) \/ write_all(t) \/ read_until_eof(t)
  BY <1>1, <1>6, Zenon DEF read_some, write_some, write_all, read_until_eof, Starts
<1>7. CASE FinishPositional(t)
  <2>1. /\ call[t] \in Positional /\ call[t] \notin Sequential /\ size' \in Nat
    BY <1>1, <1>3, <1>7, Zenon DEF FinishPositional, Fstat, Fsync, Fdatasync
  <2>2. Return(t, release(state, call[t] \in Sequential, FALSE, 0), fd)
    <3>1. (call[t] \in Sequential) = FALSE
      BY <2>1
    <3> QED BY <1>7, <3>1, Zenon DEF FinishPositional
  <2>3. sought' = sought + 0 /\ UNCHANGED <<held, leaked, orphan, closeFailed>>
    BY <1>1, <1>7 DEF FinishPositional
  <2> QED BY <2>1, <2>2, <2>3, Zenon DEF Ends
<1>8. ASSUME NEW total \in Nat, call[t] \in Sequential, size' \in Nat,
             FinishSequential(t, total, state.offset + total)
      PROVE  Ends(t)
  <2>1. (call[t] \in Sequential) = TRUE
    BY <1>8, Zenon
  <2>2. /\ Return(t, release(state, call[t] \in Sequential, TRUE, state.offset + total), fd)
        /\ sought' = sought + total
        /\ UNCHANGED <<held, leaked, orphan, closeFailed>>
    BY <1>8, <2>1, Zenon DEF FinishSequential
  <2>3. state.offset + total \in Nat
    BY <1>1
  <2> HIDE DEF Sequential, Positional
  <2> QED BY <1>8, <2>2, <2>3, Zenon DEF Ends
<1>9. CASE FinishReadSome(t) \/ FinishWriteSome(t)
  <2>1. PICK n \in 0..Buffer : /\ Read(t, n) \/ Write(t, n)
                               /\ FinishSequential(t, n, at[t] + n)
    BY <1>9, Zenon DEF FinishReadSome, FinishWriteSome
  <2>2. call[t] \in {"read_some", "write_some"}
    BY <1>9, Zenon DEF FinishReadSome, FinishWriteSome
  <2>3. at[t] + n = state.offset + n
    BY <1>1, <1>2, <2>2
  <2> QED BY <1>3, <1>8, <2>1, <2>2, <2>3, Zenon
<1>10. CASE StepWriteAll(t) \/ StepReadUntilEof(t)
  <2>1. PICK n \in 0..Buffer :
           /\ Read(t, n) \/ Write(t, n)
           /\ \/ Continue(t, n)
              \/ FinishSequential(t, moved[t] + n, at[t] + n)
              \/ n = 0 /\ FinishSequential(t, moved[t], at[t])
    BY <1>10 DEF StepWriteAll, StepReadUntilEof
  <2>2. call[t] \in {"write_all", "read_until_eof"}
    BY <1>10, Zenon DEF StepWriteAll, StepReadUntilEof
  <2>3. n \in Nat /\ size' \in Nat
    BY <1>3, <2>1, Zenon
  <2>4. /\ at[t] + n = state.offset + (moved[t] + n) /\ at[t] = state.offset + moved[t]
        /\ moved[t] + n \in Nat
    BY <1>1, <1>2, <2>2, <2>3
  <2>5. CASE Continue(t, n)
    BY <2>2, <2>3, <2>5, Zenon DEF GoesOn
  <2>6. CASE FinishSequential(t, moved[t] + n, at[t] + n)
    BY <1>8, <2>2, <2>3, <2>4, <2>6, Zenon
  <2>7. CASE FinishSequential(t, moved[t], at[t])
    BY <1>1, <1>8, <2>2, <2>3, <2>4, <2>7, Zenon
  <2> QED BY <2>1, <2>5, <2>6, <2>7, Zenon
<1>11. CASE Throw(t)
  <2>1. /\ call[t] \in Calls /\ size' = size /\ sought' = sought
        /\ UNCHANGED <<held, leaked, orphan, closeFailed>>
    BY <1>11, Zenon DEF Throw
  <2> HIDE DEF Sequential, Positional
  <2>2. Return(t, release(state, call[t] \in Sequential, FALSE, 0), fd)
    BY <1>11, Zenon DEF Throw
  <2>3. sought' = sought + 0 /\ size' \in Nat
    BY <1>1, <2>1
  <2> QED BY <2>1, <2>2, <2>3, Zenon DEF Ends
<1> QED BY <1>4, <1>5, <1>6, <1>7, <1>9, <1>10, <1>11, Zenon
----------------------------------------------------------------------------
(* The calls in progress are finitely many. *)
LEMMA LeasedFinite ==
    ASSUME FileTypeOK
    PROVE  /\ IsFiniteSet(Leased) /\ Cardinality(Leased) \in Nat
           /\ Cardinality(Leased) = 0 <=> Leased = {}
<1>1. IsFiniteSet(Leased)
  BY FileAssumption, FS_Subset, Zenon DEF Leased
<1> QED BY <1>1, FS_CardinalityType, FS_EmptySet, Zenon

(* What acquire and release do to the State. *)
LEMMA AcquireState ==
    ASSUME NEW s \in State, NEW sequential \in BOOLEAN
    PROVE  LET r == acquire(s, sequential)
           IN  /\ r \in State
               /\ r.file = s.file /\ r.closing = s.closing /\ r.offset = s.offset
               /\ r.inflight = s.inflight + 1
               /\ r.sequential_busy <=> s.sequential_busy \/ sequential
<1> DEFINE b == s.sequential_busy \/ sequential
           n == s.inflight + 1
<1>1. b \in BOOLEAN /\ n \in Nat
  BY DEF State
<1>2. acquire(s, sequential) = [s EXCEPT !.sequential_busy = b, !.inflight = n]
  BY Zenon DEF acquire
<1> HIDE DEF b, n
<1>3. LET r == acquire(s, sequential)
      IN  /\ r \in State
          /\ r.file = s.file /\ r.closing = s.closing /\ r.offset = s.offset
          /\ r.inflight = n /\ r.sequential_busy = b
  BY <1>1, <1>2, Zenon DEF State
<1> QED BY <1>3, Zenon DEF b, n

LEMMA ReleaseState ==
    ASSUME NEW s \in State, NEW sequential \in BOOLEAN, NEW update \in BOOLEAN,
           NEW pos \in Nat
    PROVE  LET r == release(s, sequential, update, pos)
           IN  /\ r \in State
               /\ r.file = s.file /\ r.closing = s.closing
               /\ r.offset = IF update THEN pos ELSE s.offset
               /\ s.inflight > 0 => r.inflight = s.inflight - 1
               /\ r.sequential_busy <=> s.sequential_busy /\ ~sequential
<1> DEFINE b == s.sequential_busy /\ ~sequential
           o == IF update THEN pos ELSE s.offset
           n == IF s.inflight > 0 THEN s.inflight - 1 ELSE 0
<1>1. b \in BOOLEAN /\ o \in Nat /\ n \in Nat
  BY DEF State
<1>2. release(s, sequential, update, pos) =
        [s EXCEPT !.offset = o, !.sequential_busy = b, !.inflight = n]
  BY Zenon DEF release
<1>3. s.inflight > 0 => n = s.inflight - 1
  BY Zenon
<1> HIDE DEF b, o, n
<1>4. LET r == release(s, sequential, update, pos)
      IN  /\ r \in State
          /\ r.file = s.file /\ r.closing = s.closing /\ r.offset = o
          /\ r.inflight = n /\ r.sequential_busy = b
  BY <1>1, <1>2, Zenon DEF State
<1> QED BY <1>3, <1>4, Zenon DEF b, o

(* A call that starts keeps the invariant. *)
LEMMA StartsStep ==
    ASSUME FileInv, NEW t \in Users, Starts(t)
    PROVE  FileInv'
<1>1. PICK op \in Calls, pos \in Nat :
         Begin(t, op, pos) /\ (op \in Sequential => pos = state.offset)
  BY Zenon DEF Starts
<1>2. FileTypeOK
  BY Zenon DEF FileInv
<1>3. /\ held /\ call[t] = "idle" /\ state.file /\ ~state.closing
      /\ op \in Sequential => ~state.sequential_busy
  BY <1>1, Zenon DEF Begin, is_open_unlocked, MayStart
<1>4. /\ call' = [call EXCEPT ![t] = op] /\ at' = [at EXCEPT ![t] = pos]
      /\ UNCHANGED <<fd, size, held, moved, sought, leaked, orphan, closeFailed>>
  BY <1>1, Zenon DEF Begin
<1>5. /\ state' \in State
      /\ state'.file /\ ~state'.closing /\ state'.offset = state.offset
      /\ state'.inflight = state.inflight + 1
      /\ state'.sequential_busy <=> state.sequential_busy \/ op \in Sequential
  <2>1. state' = acquire(state, op \in Sequential)
    BY <1>1, Zenon DEF Begin
  <2>2. state \in State /\ (op \in Sequential) \in BOOLEAN
    BY <1>2 DEF FileTypeOK
  <2> QED BY <1>3, <2>1, <2>2, AcquireState, Zenon
<1>6. op # "close" /\ op # "idle"
  BY Zenon DEF Calls, Sequential, Positional
<1>7. FileTypeOK'
  BY <1>2, <1>4, <1>5, Zenon DEF FileTypeOK, Calls
<1>8. Callers'
  <2>1. \A u \in Users : call[u] # "close"
    BY <1>3, Zenon DEF FileInv, Callers
  <2> QED BY <1>2, <1>3, <1>4, <1>5, <1>6, <2>1, Zenon DEF FileTypeOK, Callers
<1>9. Leases'
  <2>1. Leased' = Leased \cup {t} /\ t \notin Leased
    BY <1>2, <1>3, <1>4, Zenon DEF Leased, FileTypeOK, Calls, Sequential, Positional
  <2>2. Cardinality(Leased') = Cardinality(Leased) + 1
    BY <1>2, <2>1, LeasedFinite, FS_AddElement, Zenon
  <2>3. state.inflight = Cardinality(Leased) + leaked
    BY <1>3, Zenon DEF FileInv, Leases
  <2> QED BY <1>2, <1>4, <1>5, <2>2, <2>3, LeasedFinite DEF Leases, FileTypeOK
<1>10. Descriptor'
  BY <1>3, <1>4, <1>5, Zenon DEF FileInv, Descriptor
<1>11. Offsets'
  <2>1. SequentialOffset'
    BY <1>3, <1>4, <1>5, Zenon DEF FileInv, Offsets, SequentialOffset
  <2>2. moved[t] = 0
    BY <1>3, Zenon DEF FileInv, Offsets
  <2>3. op \in Sequential => \A u \in Users : call[u] \notin Sequential
    BY <1>3, Zenon DEF FileInv, Offsets
  <2>4. ASSUME NEW u \in Users, call'[u] \in Sequential
        PROVE  state'.sequential_busy /\ at'[u] = state'.offset + moved'[u]
    BY <1>1, <1>2, <1>4, <1>5, <2>2, <2>4 DEF FileInv, Offsets, FileTypeOK, State
  <2>5. ASSUME NEW u \in Users, call'[u] \notin {"write_all", "read_until_eof"}
        PROVE  moved'[u] = 0
    BY <1>2, <1>4, <2>2, <2>5, Zenon DEF FileInv, Offsets, FileTypeOK
  <2>6. ASSUME NEW u \in Users, NEW v \in Users,
               call'[u] \in Sequential, call'[v] \in Sequential
        PROVE  u = v
    BY <1>2, <1>4, <2>3, <2>6, Zenon DEF FileInv, Offsets, FileTypeOK
  <2> QED BY <2>1, <2>4, <2>5, <2>6, Zenon DEF Offsets
<1> QED BY <1>7, <1>8, <1>9, <1>10, <1>11, Zenon DEF FileInv

(* A call that submits its next request keeps the invariant. *)
LEMMA GoesOnStep ==
    ASSUME FileInv, NEW t \in Users, GoesOn(t)
    PROVE  FileInv'
<1>1. PICK n \in Nat : /\ call[t] \in {"write_all", "read_until_eof"}
                       /\ Continue(t, n) /\ size' \in Nat
  BY Zenon DEF GoesOn
<1>2. /\ at' = [at EXCEPT ![t] = @ + n] /\ moved' = [moved EXCEPT ![t] = @ + n]
      /\ UNCHANGED <<fd, held, state, call, sought, leaked, orphan, closeFailed>>
  BY <1>1, Zenon DEF Continue
<1>3. FileTypeOK' /\ Callers' /\ Leases' /\ Descriptor'
  BY <1>1, <1>2 DEF FileInv, FileTypeOK, Callers, Leases, Descriptor, Leased
<1>4. ASSUME NEW u \in Users, call[u] \in Sequential
      PROVE  at'[u] = state.offset + moved'[u]
  <2>1. at[u] = state.offset + moved[u] /\ state.offset \in Nat
    BY <1>4, Zenon DEF FileInv, Offsets, FileTypeOK, State
  <2> QED BY <1>2, <2>1 DEF FileInv, FileTypeOK
<1>5. ASSUME NEW u \in Users, call[u] \notin {"write_all", "read_until_eof"}
      PROVE  moved'[u] = 0
  BY <1>1, <1>2, <1>5, Zenon DEF FileInv, Offsets, FileTypeOK
<1>6. Offsets'
  BY <1>2, <1>4, <1>5, Zenon DEF FileInv, Offsets, SequentialOffset
<1> QED BY <1>3, <1>6, Zenon DEF FileInv

(* What ~State leaves behind. *)
LEMMA CloseSyncState ==
    ASSUME NEW s \in State
    PROVE  LET r == close_sync(s)
           IN  /\ r \in State /\ r.file = FALSE /\ r.closing = FALSE
               /\ r.sequential_busy = FALSE /\ r.offset = s.offset
BY Zenon DEF close_sync, State

(* A coroutine that returns, and closes the descriptor if it was the last one
   to hold the State, keeps the invariant whenever what it leaves behind fits
   the other calls. *)
LEMMA ReturnStep ==
    ASSUME FileInv, NEW t \in Users, call[t] # "idle",
           NEW s \in State, NEW d \in {"open", "closed", "again"}, Return(t, s, d),
           s.closing => s.file,
           ~s.file => d # "open" /\ \A u \in Users \ {t} : call[u] = "idle",
           s.file => /\ s.inflight = Cardinality(Leased \ {t}) + leaked
                     /\ s.offset = sought',
           ~closeFailed' => d # "again" /\ (s.file => d = "open"),
           \A u \in Users \ {t} : call[u] = "close" => s.closing /\ Leased \ {t} = {},
           \A u \in Users \ {t} : call[u] \in Sequential =>
              s.sequential_busy /\ at[u] = s.offset + moved[u],
           size' \in Nat, sought' \in Nat, closeFailed' \in BOOLEAN,
           UNCHANGED <<held, leaked, orphan>>
    PROVE  FileInv'
<1>1. FileTypeOK /\ state.file /\ ~orphan
  BY Zenon DEF FileInv, Callers, Descriptor
<1>2. /\ call' = [call EXCEPT ![t] = "idle"]
      /\ at' = [at EXCEPT ![t] = 0] /\ moved' = [moved EXCEPT ![t] = 0]
  BY Zenon DEF Return
<1>3. Leased' = Leased \ {t}
  BY <1>1, <1>2, Zenon DEF Leased, FileTypeOK, Sequential, Positional
<1>4. \/ /\ LastOwner(t) /\ s.file
         /\ state' = close_sync(s) /\ fd' = Closed(d)
      \/ /\ ~(LastOwner(t) /\ s.file)
         /\ state' = s /\ fd' = d
  BY Zenon DEF Return
<1>5. state' \in State /\ fd' \in {"open", "closed", "again"}
  BY <1>4, CloseSyncState, Zenon DEF Closed
<1>6. FileTypeOK'
  BY <1>1, <1>2, <1>5, Zenon DEF FileTypeOK
<1>7. ASSUME NEW u \in Users, moved'[u] # 0
      PROVE  call'[u] \in {"write_all", "read_until_eof"}
  BY <1>1, <1>2, <1>7, Zenon DEF FileInv, Offsets, FileTypeOK
<1>8. CASE LastOwner(t) /\ s.file
  <2>1. /\ state' = close_sync(s) /\ fd' = Closed(d)
        /\ ~held /\ \A u \in Users : call'[u] = "idle"
    BY <1>1, <1>2, <1>4, <1>8, Zenon DEF LastOwner, FileTypeOK
  <2>2. /\ ~state'.file /\ ~state'.closing
        /\ fd' \in {"closed", "again"} /\ (~closeFailed' => fd' = "closed")
    BY <1>8, <2>1, CloseSyncState, Zenon DEF Closed
  <2>3. Callers' /\ Leases'
    BY <2>1, <2>2, Zenon DEF Callers, Leases
  <2>4. Descriptor'
    BY <1>1, <2>2, Zenon DEF Descriptor
  <2>5. Offsets'
    BY <1>7, <2>1, <2>2, Zenon DEF Offsets, SequentialOffset, Sequential
  <2> QED BY <1>6, <2>3, <2>4, <2>5, Zenon DEF FileInv
<1>9. CASE ~(LastOwner(t) /\ s.file)
  <2>1. state' = s /\ fd' = d
    BY <1>4, <1>9, Zenon
  <2>2. Callers'
    <3>1. ASSUME NEW u \in Users, call'[u] = "close"
          PROVE  u # t /\ call[u] = "close"
      BY <1>1, <1>2, <3>1, Zenon DEF FileTypeOK
    <3>2. ASSUME ~held, \A u \in Users : call'[u] = "idle"
          PROVE  ~s.file
      BY <1>1, <1>2, <1>9, <3>2, Zenon DEF LastOwner, FileTypeOK
    <3>3. ~s.file => \A u \in Users : call'[u] = "idle"
      BY <1>1, <1>2, Zenon DEF FileTypeOK
    <3> QED BY <1>3, <2>1, <3>1, <3>2, <3>3, Zenon DEF FileInv, Callers
  <2>3. Leases' /\ Descriptor'
    BY <1>1, <1>3, <2>1, Zenon DEF Leases, Descriptor
  <2>4. ASSUME NEW u \in Users, call'[u] \in Sequential
        PROVE  /\ u # t /\ call[u] \in Sequential
               /\ state'.sequential_busy /\ at'[u] = state'.offset + moved'[u]
    BY <1>1, <1>2, <2>1, <2>4, Zenon DEF FileTypeOK, Sequential
  <2>5. Offsets'
    BY <1>7, <2>1, <2>4, Zenon DEF FileInv, Offsets, SequentialOffset
  <2> QED BY <1>6, <2>2, <2>3, <2>5, Zenon DEF FileInv
<1> QED BY <1>8, <1>9, Zenon

(* A call that returns or throws keeps the invariant. *)
LEMMA EndsStep ==
    ASSUME FileInv, NEW t \in Users, Ends(t)
    PROVE  FileInv'
<1>1. PICK update \in BOOLEAN, total \in Nat, pos \in Nat :
        /\ call[t] \in Calls
        /\ update => call[t] \in Sequential /\ pos = state.offset + total
        /\ Return(t, release(state, call[t] \in Sequential, update, pos), fd)
        /\ sought' = sought + (IF update THEN total ELSE 0)
        /\ size' \in Nat
        /\ UNCHANGED <<held, leaked, orphan, closeFailed>>
  BY Zenon DEF Ends
<1> DEFINE s == release(state, call[t] \in Sequential, update, pos)
<1>2. FileTypeOK /\ call[t] # "idle" /\ call[t] # "close" /\ t \in Leased
  BY <1>1, Zenon DEF FileInv, Calls, Sequential, Positional, Leased
<1>3. state.file /\ \A u \in Users : call[u] # "close"
  BY <1>2, Zenon DEF FileInv, Callers
<1>4. state \in State /\ (call[t] \in Sequential) \in BOOLEAN
  BY <1>2 DEF FileTypeOK
<1>5. /\ s \in State
      /\ s.file = state.file /\ s.closing = state.closing
      /\ s.offset = IF update THEN pos ELSE state.offset
      /\ state.inflight > 0 => s.inflight = state.inflight - 1
      /\ s.sequential_busy <=> state.sequential_busy /\ ~(call[t] \in Sequential)
  <2> DEFINE q == call[t] \in Sequential
  <2>1. q \in BOOLEAN
    OBVIOUS
  <2> HIDE DEF q
  <2>2. LET r == release(state, q, update, pos)
        IN  /\ r \in State
            /\ r.file = state.file /\ r.closing = state.closing
            /\ r.offset = IF update THEN pos ELSE state.offset
            /\ state.inflight > 0 => r.inflight = state.inflight - 1
            /\ r.sequential_busy <=> state.sequential_busy /\ ~q
    BY <1>4, <2>1, ReleaseState
  <2> QED BY <2>2, Zenon DEF q
<1>6. Return(t, s, fd)
  BY <1>1, Zenon
<1> HIDE DEF s
<1>7. s.inflight = Cardinality(Leased \ {t}) + leaked
  <2>1. Cardinality(Leased \ {t}) = Cardinality(Leased) - 1
    BY <1>2, LeasedFinite, FS_RemoveElement, Zenon
  <2>2. state.inflight = Cardinality(Leased) + leaked /\ leaked \in Nat
    BY <1>2, <1>3, Zenon DEF FileInv, Leases, FileTypeOK
  <2>3. Cardinality(Leased) \in Nat \ {0}
    BY <1>2, LeasedFinite, Zenon
  <2> QED BY <1>5, <2>1, <2>2, <2>3
<1>8. s.offset = sought' /\ sought' \in Nat
  <2>1. state.offset = sought /\ sought \in Nat
    BY <1>2, <1>3, Zenon DEF FileInv, Offsets, SequentialOffset, FileTypeOK
  <2> QED BY <1>1, <1>5, <2>1
<1>9. fd \in {"open", "closed", "again"}
  BY <1>2, <1>3, Zenon DEF FileInv, FileTypeOK, Descriptor
<1>10. ASSUME NEW u \in Users \ {t}, call[u] \in Sequential
       PROVE  s.sequential_busy /\ at[u] = s.offset + moved[u]
  <2>1. call[t] \notin Sequential /\ state.sequential_busy
    BY <1>10, Zenon DEF FileInv, Offsets
  <2> QED BY <1>1, <1>5, <1>10, <2>1, Zenon DEF FileInv, Offsets
<1>11. ~closeFailed => fd # "again" /\ fd = "open"
  BY <1>3, Zenon DEF FileInv, Descriptor
<1>12. closeFailed' = closeFailed /\ closeFailed \in BOOLEAN
  BY <1>1, <1>2, Zenon DEF FileTypeOK
<1>13. /\ s.closing => s.file
       /\ ~s.file => fd # "open" /\ \A u \in Users \ {t} : call[u] = "idle"
       /\ s.file => s.inflight = Cardinality(Leased \ {t}) + leaked /\ s.offset = sought'
       /\ ~closeFailed' => fd # "again" /\ (s.file => fd = "open")
       /\ \A u \in Users \ {t} : call[u] = "close" => s.closing /\ Leased \ {t} = {}
       /\ \A u \in Users \ {t} : call[u] \in Sequential =>
            s.sequential_busy /\ at[u] = s.offset + moved[u]
  BY <1>3, <1>5, <1>7, <1>8, <1>10, <1>11, <1>12, Zenon
<1>14. /\ s \in State /\ size' \in Nat /\ closeFailed' \in BOOLEAN
       /\ UNCHANGED <<held, leaked, orphan>>
  BY <1>1, <1>5, <1>12, Zenon
<1> QED BY <1>2, <1>6, <1>8, <1>9, <1>13, <1>14, ReturnStep, Zenon

(* close(), let in only when no lease is out, keeps the invariant. *)
LEMMA CloseStartsStep ==
    ASSUME FileInv, NEW t \in Users, close(t)
    PROVE  FileInv'
<1>1. /\ held /\ call[t] = "idle" /\ state.file /\ ~state.closing
      /\ state.inflight = 0 /\ ~state.sequential_busy
      /\ state' = [state EXCEPT !.closing = TRUE]
      /\ call' = [call EXCEPT ![t] = "close"]
      /\ UNCHANGED <<fd, size, held, at, moved, sought, leaked, orphan, closeFailed>>
  BY Zenon DEF close, is_open_unlocked, MayClose
<1>2. FileTypeOK /\ \A u \in Users : call[u] # "close"
  BY <1>1, Zenon DEF FileInv, Callers
<1>3. /\ state' \in State /\ state'.file /\ state'.closing
      /\ state'.offset = state.offset /\ state'.inflight = state.inflight
  BY <1>1, <1>2, Zenon DEF FileTypeOK, State
<1>4. Leased = {}
  <2>1. 0 = Cardinality(Leased) + leaked /\ leaked \in Nat
    BY <1>1, <1>2, Zenon DEF FileInv, Leases, FileTypeOK
  <2> QED BY <1>2, <2>1, LeasedFinite
<1>5. Leased' = Leased
  BY <1>1, <1>2, Zenon DEF Leased, FileTypeOK, Sequential, Positional
<1>6. FileTypeOK'
  BY <1>1, <1>2, <1>3, Zenon DEF FileTypeOK
<1>7. Callers' /\ Leases' /\ Descriptor'
  BY <1>1, <1>2, <1>3, <1>4, <1>5, Zenon DEF FileInv, FileTypeOK, Callers, Leases, Descriptor
<1>8. Offsets'
  <2>1. \A u \in Users : call'[u] \notin Sequential
    BY <1>1, <1>2, <1>4, Zenon DEF Leased, FileTypeOK, Sequential
  <2>2. ASSUME NEW u \in Users, moved[u] # 0
        PROVE  FALSE
    BY <1>4, <2>2, Zenon DEF FileInv, Offsets, Leased, Sequential
  <2> QED BY <1>1, <1>3, <2>1, <2>2, Zenon DEF FileInv, Offsets, SequentialOffset
<1> QED BY <1>6, <1>7, <1>8, Zenon DEF FileInv

(* A close request that completes, or fails, keeps the invariant. *)
LEMMA CloseEndsStep ==
    ASSUME FileInv, NEW t \in Users, Close(t) \/ CloseFails(t)
    PROVE  FileInv'
<1>1. call[t] = "close" /\ FileTypeOK
  BY Zenon DEF Close, CloseFails, FileInv
<1>2. /\ state \in State /\ state.file /\ Leased = {} /\ fd # "none"
      /\ state.inflight = Cardinality(Leased \ {t}) + leaked
      /\ state.offset = sought
      /\ ~closeFailed => fd = "open"
  <2>1. state.file /\ Leased = {}
    BY <1>1, Zenon DEF FileInv, Callers
  <2>2. Leased \ {t} = Leased
    BY <2>1, Zenon
  <2> QED
    BY <1>1, <2>1, <2>2, Zenon
    DEF FileInv, FileTypeOK, Leases, Descriptor, Offsets, SequentialOffset
<1>3. \A u \in Users \ {t} : call[u] = "idle"
  BY <1>1, <1>2, Zenon DEF FileInv, FileTypeOK, Callers, Leased
<1>4. Closed(fd) \in {"closed", "again"} /\ (~closeFailed => Closed(fd) = "closed")
  BY <1>2, Zenon DEF Closed
<1>5. /\ size' \in Nat /\ sought' = sought /\ sought' \in Nat
      /\ closeFailed' \in BOOLEAN /\ UNCHANGED <<held, leaked, orphan>>
  BY <1>1, Zenon DEF Close, CloseFails, FileTypeOK
<1>6. CASE Close(t)
  <2> DEFINE s == [state EXCEPT !.file = FALSE, !.offset = 0, !.closing = FALSE]
  <2>1. s \in State /\ ~s.file /\ ~s.closing
    BY <1>2, Zenon DEF State
  <2>2. Return(t, s, Closed(fd)) /\ closeFailed' = closeFailed
    BY <1>6, Zenon DEF Close
  <2> HIDE DEF s
  <2>3. /\ s.closing => s.file
        /\ ~s.file => Closed(fd) # "open" /\ \A u \in Users \ {t} : call[u] = "idle"
        /\ s.file => s.inflight = Cardinality(Leased \ {t}) + leaked /\ s.offset = sought'
        /\ ~closeFailed' => Closed(fd) # "again" /\ (s.file => Closed(fd) = "open")
        /\ \A u \in Users \ {t} : call[u] = "close" => s.closing /\ Leased \ {t} = {}
        /\ \A u \in Users \ {t} : call[u] \in Sequential =>
             s.sequential_busy /\ at[u] = s.offset + moved[u]
    BY <1>3, <1>4, <2>1, <2>2, Zenon DEF Sequential
  <2>4. Closed(fd) \in {"open", "closed", "again"} /\ call[t] # "idle"
    BY <1>1, <1>4, Zenon
  <2> QED BY <1>5, <2>1, <2>2, <2>3, <2>4, ReturnStep, Zenon
<1>7. CASE CloseFails(t)
  <2> DEFINE s == [state EXCEPT !.closing = FALSE]
  <2>1. /\ s \in State /\ s.file /\ ~s.closing
        /\ s.inflight = state.inflight /\ s.offset = state.offset
    BY <1>2, Zenon DEF State
  <2>2. PICK d \in {fd, Closed(fd)} : Return(t, s, d)
    BY <1>7, Zenon DEF CloseFails
  <2>3. closeFailed'
    BY <1>7, Zenon DEF CloseFails
  <2> HIDE DEF s
  <2>4. /\ s.closing => s.file
        /\ ~s.file => d # "open" /\ \A u \in Users \ {t} : call[u] = "idle"
        /\ s.file => s.inflight = Cardinality(Leased \ {t}) + leaked /\ s.offset = sought'
        /\ ~closeFailed' => d # "again" /\ (s.file => d = "open")
        /\ \A u \in Users \ {t} : call[u] = "close" => s.closing /\ Leased \ {t} = {}
        /\ \A u \in Users \ {t} : call[u] \in Sequential =>
             s.sequential_busy /\ at[u] = s.offset + moved[u]
    BY <1>2, <1>3, <1>5, <2>1, <2>3, Zenon DEF Sequential
  <2>5. d \in {"open", "closed", "again"} /\ call[t] # "idle"
    BY <1>1, <1>2, <1>4, Zenon DEF FileTypeOK
  <2> QED BY <1>5, <2>1, <2>2, <2>4, <2>5, ReturnStep, Zenon
<1> QED BY <1>6, <1>7, Zenon

(* The steps that are no coroutine's own keep the invariant: the file is opened,
   a lease leaks, the offset moves, the application lets go of the File. *)
LEMMA OwnerStep ==
    ASSUME FileInv, Open \/ to_offset_throws \/ seek \/ Drop
    PROVE  FileInv'
<1>1. FileTypeOK /\ UNCHANGED <<size, call, at, moved, closeFailed>>
  BY Zenon DEF FileInv, Open, to_offset_throws, seek, Drop
<1>2. Leased' = Leased
  BY <1>1, Zenon DEF Leased
<1>3. CASE Open
  <2>1. /\ fd = "none" /\ fd' = "open" /\ leaked' = 0
        /\ ~state.file /\ ~orphan /\ ~held /\ \A t \in Users : call[t] = "idle"
    BY <1>3, Zenon DEF Open, FileInv, Descriptor, Callers
  <2>2. Leased = {}
    BY <2>1, Zenon DEF Leased, Sequential, Positional
  <2>3. CASE /\ held' = TRUE /\ UNCHANGED orphan
             /\ \E o \in Positions :
                  state' = [NoState EXCEPT !.file = TRUE, !.offset = o] /\ sought' = o
    <3>1. /\ state' \in State /\ state'.file /\ ~state'.closing
          /\ state'.inflight = 0 /\ state'.offset = sought' /\ sought' \in Nat
      <4>1. PICK o \in Positions :
               state' = [NoState EXCEPT !.file = TRUE, !.offset = o] /\ sought' = o
        BY <2>3, Zenon
      <4>2. o \in Nat
        BY FileAssumption DEF Positions
      <4>3. NoState \in State /\ NoState.inflight = 0 /\ NoState.closing = FALSE
        BY Zenon DEF NoState, State
      <4> QED BY <4>1, <4>2, <4>3, Zenon DEF State
    <3>2. FileTypeOK' /\ Callers' /\ Descriptor'
      BY <1>1, <2>1, <2>3, <3>1, Zenon DEF FileTypeOK, Callers, Descriptor
    <3>3. Offsets'
      BY <1>1, <2>1, <3>1, Zenon DEF FileInv, Offsets, SequentialOffset, Sequential
    <3>4. Leases'
      BY <1>1, <1>2, <2>1, <2>2, <3>1, LeasedFinite DEF Leases
    <3> QED BY <3>2, <3>3, <3>4, Zenon DEF FileInv
  <2>4. CASE orphan' = TRUE /\ UNCHANGED <<held, state, sought>>
    <3>1. FileTypeOK' /\ Callers' /\ Descriptor' /\ Leases'
      BY <1>1, <1>2, <2>1, <2>4, Zenon DEF FileInv, FileTypeOK, Callers, Descriptor, Leases
    <3>2. Offsets'
      BY <1>1, <2>4, Zenon DEF FileInv, Offsets, SequentialOffset
    <3> QED BY <3>1, <3>2, Zenon DEF FileInv
  <2> QED BY <1>3, <2>3, <2>4, Zenon DEF Open
<1>4. CASE to_offset_throws
  <2>1. /\ held /\ state.file /\ ~state.closing /\ leaked' = leaked + 1
        /\ UNCHANGED <<fd, held, sought, orphan>>
    BY <1>4, Zenon DEF to_offset_throws, is_open_unlocked
  <2>2. /\ state' \in State /\ state'.file /\ ~state'.closing
        /\ state'.offset = state.offset /\ state'.inflight = state.inflight + 1
        /\ state'.sequential_busy <=> state.sequential_busy
    <3>1. state' = acquire(state, FALSE)
      BY <1>4, Zenon DEF to_offset_throws
    <3> QED BY <1>1, <2>1, <3>1, AcquireState, Zenon DEF FileTypeOK
  <2>3. FileTypeOK'
    <3>1. leaked' \in Nat /\ state' \in State
      BY <1>1, <2>1, <2>2 DEF FileTypeOK
    <3> QED BY <1>1, <2>1, <3>1, Zenon DEF FileTypeOK
  <2>4. Callers' /\ Descriptor'
    BY <1>1, <1>2, <2>1, <2>2, Zenon DEF FileInv, Callers, Descriptor
  <2>5. Leases'
    <3>1. state.inflight = Cardinality(Leased) + leaked /\ leaked \in Nat
      BY <1>1, <2>1, Zenon DEF FileInv, Leases, FileTypeOK
    <3>2. state'.inflight = Cardinality(Leased) + leaked'
      BY <1>1, <2>1, <2>2, <3>1, LeasedFinite
    <3> QED BY <1>2, <3>2, Zenon DEF Leases
  <2>6. Offsets'
    BY <1>1, <2>1, <2>2, Zenon DEF FileInv, Offsets, SequentialOffset
  <2> QED BY <2>3, <2>4, <2>5, <2>6, Zenon DEF FileInv
<1>5. CASE seek
  <2>1. PICK o \in Positions : state' = [state EXCEPT !.offset = o] /\ sought' = o
    BY <1>5, Zenon DEF seek
  <2>2. /\ ~state.closing /\ ~state.sequential_busy /\ UNCHANGED <<fd, held, leaked, orphan>>
    BY <1>5, Zenon DEF seek, is_open_unlocked
  <2>3. /\ state' \in State /\ sought' \in Nat /\ state'.offset = sought'
        /\ state'.file = state.file /\ state'.closing = state.closing
        /\ state'.inflight = state.inflight
    BY <1>1, <2>1, FileAssumption DEF FileTypeOK, State, Positions
  <2>4. FileTypeOK' /\ Callers' /\ Leases' /\ Descriptor'
    BY <1>1, <1>2, <2>2, <2>3, Zenon
    DEF FileInv, FileTypeOK, Callers, Leases, Descriptor
  <2>5. \A t \in Users : call[t] \notin Sequential
    BY <2>2, Zenon DEF FileInv, Offsets
  <2>6. Offsets'
    BY <1>1, <2>3, <2>5, Zenon DEF FileInv, Offsets, SequentialOffset
  <2> QED BY <2>4, <2>6, Zenon DEF FileInv
<1>6. CASE Drop
  <2>1. held /\ held' = FALSE /\ UNCHANGED <<sought, leaked, orphan>>
    BY <1>6, Zenon DEF Drop
  <2>2. ~orphan /\ fd # "none"
    BY <2>1, Zenon DEF FileInv, Descriptor
  <2>3. CASE (\A t \in Users : call[t] = "idle") /\ state.file
    <3>1. state' = close_sync(state) /\ fd' = Closed(fd)
      BY <1>6, <2>3, Zenon DEF Drop
    <3>2. /\ state' \in State /\ ~state'.file /\ ~state'.closing
          /\ fd' \in {"closed", "again"} /\ (~closeFailed => fd' = "closed")
      BY <1>1, <2>2, <2>3, <3>1, CloseSyncState, Zenon
      DEF FileInv, FileTypeOK, Descriptor, Closed
    <3>3. FileTypeOK' /\ Callers' /\ Leases' /\ Descriptor'
      BY <1>1, <2>1, <2>2, <2>3, <3>2, Zenon DEF FileTypeOK, Callers, Leases, Descriptor
    <3>4. Offsets'
      BY <1>1, <2>3, <3>2, Zenon DEF FileInv, Offsets, SequentialOffset, Sequential
    <3> QED BY <3>3, <3>4, Zenon DEF FileInv
  <2>4. CASE ~((\A t \in Users : call[t] = "idle") /\ state.file)
    <3>1. UNCHANGED <<state, fd>>
      BY <1>6, <2>4, Zenon DEF Drop
    <3>2. FileTypeOK' /\ Callers' /\ Leases' /\ Descriptor'
      BY <1>1, <1>2, <2>1, <2>2, <2>4, <3>1, Zenon
      DEF FileInv, FileTypeOK, Callers, Leases, Descriptor
    <3>3. Offsets'
      BY <1>1, <2>1, <3>1, Zenon DEF FileInv, Offsets, SequentialOffset
    <3> QED BY <3>2, <3>3, Zenon DEF FileInv
  <2> QED BY <2>3, <2>4, Zenon
<1> QED BY <1>3, <1>4, <1>5, <1>6, Zenon

----------------------------------------------------------------------------
(* Every step of the file keeps the invariant. *)
LEMMA FileNextInv == FileInv /\ [FileNext]_fileVars => FileInv'
<1> SUFFICES ASSUME FileInv, [FileNext]_fileVars PROVE FileInv'
  BY Zenon
<1>1. CASE Open \/ to_offset_throws \/ seek \/ Drop
  BY <1>1, OwnerStep, Zenon
<1>2. ASSUME NEW t \in Users,
             \/ stat(t) \/ sync(t) \/ datasync(t) \/ read_at(t) \/ write_at(t)
             \/ read_some(t) \/ write_some(t) \/ write_all(t) \/ read_until_eof(t)
             \/ FinishPositional(t) \/ FinishReadSome(t) \/ FinishWriteSome(t)
             \/ StepWriteAll(t) \/ StepReadUntilEof(t) \/ Throw(t)
      PROVE  FileInv'
  <2>1. Starts(t) \/ GoesOn(t) \/ Ends(t)
    BY <1>2, CallKinds, Zenon
  <2> QED BY <2>1, StartsStep, GoesOnStep, EndsStep, Zenon
<1>3. ASSUME NEW t \in Users, close(t) \/ Close(t) \/ CloseFails(t)
      PROVE  FileInv'
  BY <1>3, CloseStartsStep, CloseEndsStep, Zenon
<1>4. CASE UNCHANGED fileVars
  BY <1>4, Zenon DEF fileVars, FileInv, FileTypeOK, Callers, Leases, Leased, Descriptor,
              Offsets, SequentialOffset
<1> QED BY <1>1, <1>2, <1>3, <1>4, Zenon DEF FileNext

LEMMA FileInitInv == FileInit => FileInv
<1> SUFFICES ASSUME FileInit PROVE FileInv
  BY Zenon
<1>1. state \in State /\ ~state.file /\ ~state.closing
  BY Zenon DEF FileInit, NoState, State
<1>2. FileTypeOK
  <2>1. size \in Nat
    BY FileAssumption DEF FileInit, Positions
  <2>2. call \in [Users -> {"idle", "close"} \cup Sequential \cup Positional]
    BY Zenon DEF FileInit
  <2>3. at \in [Users -> Nat] /\ moved \in [Users -> Nat]
    BY Zenon DEF FileInit
  <2> QED BY <1>1, <2>1, <2>2, <2>3, Zenon DEF FileInit, FileTypeOK
<1>3. Callers /\ Leases /\ Descriptor
  BY <1>1, Zenon DEF FileInit, Callers, Leases, Descriptor
<1>4. Offsets
  BY <1>1, Zenon DEF FileInit, Offsets, SequentialOffset, Sequential
<1> QED BY <1>2, <1>3, <1>4, Zenon DEF FileInv

LEMMA FileInvOwned == FileInv => DescriptorOwned
BY Zenon DEF FileInv, Callers, Descriptor, DescriptorOwned

(* File's leases keep every request on an open descriptor: close() and ~State
   never close one that a read or a write still uses, never twice, and always
   once everybody has let go. *)
THEOREM DescriptorIsOwned == FileSpec => []DescriptorOwned
BY FileInitInv, FileNextInv, FileInvOwned, PTL DEF FileSpec

(* The offset of a File advances by exactly what its sequential calls report. *)
THEOREM OffsetIsSequential == FileSpec => []SequentialOffset
<1>1. FileInv => SequentialOffset
  BY Zenon DEF FileInv, Offsets
<1> QED BY <1>1, FileInitInv, FileNextInv, PTL DEF FileSpec

------------------------------------------------------------------------------
(***************************************************************************)
(* TaskGroup: what wait() promises.                                        *)
(***************************************************************************)

\* pending counts the children that run.
Pending == pending = Cardinality(Running)

\* Unless a spawn came between the two halves of a finish(): the event is set,
\* or about to be set, only when no child runs.
Drained == ~overtaken => (drained \/ "set" \in todo => pending = 0)

\* finish() leaves nothing to do when it returns.
Todo == busy = NoChild => todo = {}

\* A waiter waits for children that were spawned; once it was woken, or has
\* returned, none of them runs.
Waited ==
  \A w \in Waiters :
    /\ \A c \in must[w] : child[c] # "new"
    /\ ~overtaken /\ waiter[w] \in {"woken", "returned", "threw"} =>
         must[w] \intersect Running = {}

\* The inductive invariant.
GroupInv == GroupTypeOK /\ Pending /\ Drained /\ Todo /\ Waited

------------------------------------------------------------------------------
(* The children that run are finitely many, and a spawn or a finish() changes
   their number by one. *)
LEMMA RunningFinite ==
  IsFiniteSet(Running) /\ Cardinality(Running) \in Nat
<1>1. Running \subseteq Children
  BY Zenon DEF Running
<1> QED BY <1>1, FS_Subset, FS_CardinalityType, GroupAssumption, Zenon

LEMMA RunningEmpty ==
  ASSUME Pending
  PROVE  pending = 0 <=> Running = {}
BY RunningFinite, FS_EmptySet, Zenon DEF Pending

LEMMA GroupInitInv == GroupInit => GroupInv
<1> SUFFICES ASSUME GroupInit PROVE GroupInv
  BY Zenon
<1>1. GroupTypeOK
  <2>1. owed \in Seq(Children)
    BY DEF GroupInit
  <2> QED BY <2>1, Zenon DEF GroupInit, GroupTypeOK
<1>2. Running = {}
  BY Zenon DEF GroupInit, Running
<1>3. Pending
  BY <1>2, FS_EmptySet, Zenon DEF GroupInit, Pending
<1> QED BY <1>1, <1>3, Zenon DEF GroupInit, GroupInv, Drained, Todo, Waited

LEMMA SpawnInv ==
  ASSUME GroupInv, NEW c \in Children, Spawn(c)
  PROVE  GroupInv'
<1> USE DEF GroupInv
<1>1. GroupTypeOK'
  <2>1. overtaken' \in BOOLEAN
    BY Zenon DEF Spawn
  <2>2. drained' \in BOOLEAN
    <3>1. drained \in BOOLEAN
      BY Zenon DEF GroupTypeOK
    <3>2. ~canceled /\ pending = 0 => drained' = FALSE
      BY Zenon DEF Spawn
    <3>3. canceled \/ pending # 0 => drained' = drained
      BY Zenon DEF Spawn
    <3> QED BY <3>1, <3>2, <3>3, Zenon
  <2>3. pending' \in Nat /\ child' \in [Children -> {"new", "refused", "running", "ended"}]
    <3>1. /\ pending' = pending \/ pending' = pending + 1
          /\ \/ child' = [child EXCEPT ![c] = "refused"]
             \/ child' = [child EXCEPT ![c] = "running"]
      BY Zenon DEF Spawn
    <3> QED BY <3>1 DEF GroupTypeOK
  <2> QED BY <2>1, <2>2, <2>3, Zenon DEF GroupTypeOK, Spawn
<1>2. CASE canceled
  <2>1. Running' = Running
    BY <1>2, Zenon DEF Spawn, Running, GroupTypeOK
  <2>2. Pending'
    BY <1>2, <2>1, Zenon DEF Pending, Spawn
  <2>3. overtaken' = overtaken
    BY <1>2, Zenon DEF Spawn, GroupTypeOK
  <2>4. Drained' /\ Todo'
    BY <1>2, <2>3, Zenon DEF Drained, Todo, Spawn
  <2>5. Waited'
    BY <1>2, <2>1, <2>3, Zenon DEF Waited, Spawn, GroupTypeOK
  <2> QED BY <1>1, <2>2, <2>4, <2>5, Zenon
<1>3. CASE ~canceled
  <2>1. Running' = Running \union {c} /\ c \notin Running
    BY <1>3 DEF Spawn, Running, GroupTypeOK
  <2>2. Cardinality(Running') = Cardinality(Running) + 1
    BY <2>1, RunningFinite, FS_AddElement, Zenon
  <2>3. Pending'
    BY <1>3, <2>2, Zenon DEF Pending, Spawn
  <2>4. Todo'
    BY Zenon DEF Todo, Spawn
  <2>5. ~overtaken' => ~overtaken /\ "set" \notin todo
    BY <1>3, Zenon DEF Spawn, GroupTypeOK
  <2>6. Drained'
    BY <1>3, <2>5, Zenon DEF Drained, Spawn, GroupTypeOK
  <2>7. Waited'
    <3> SUFFICES ASSUME NEW w \in Waiters
                 PROVE  /\ \A d \in must'[w] : child'[d] # "new"
                        /\ ~overtaken' /\ waiter'[w] \in {"woken", "returned", "threw"} =>
                             must'[w] \intersect Running' = {}
      BY Zenon DEF Waited
    <3>1. must' = must /\ waiter' = waiter /\ child' = [child EXCEPT ![c] = "running"]
      BY <1>3, Zenon DEF Spawn
    <3>2. c \notin must[w]
      BY Zenon DEF Waited, Spawn
    <3>3. must[w] \subseteq Children
      BY Zenon DEF GroupTypeOK
    <3>4. \A d \in must[w] : child[d] # "new"
      BY Zenon DEF Waited
    <3>5. ~overtaken' /\ waiter[w] \in {"woken", "returned", "threw"} =>
             must[w] \intersect Running = {}
      BY <2>5, Zenon DEF Waited
    <3>6. \A d \in must'[w] : child'[d] # "new"
      BY <3>1, <3>2, <3>3, <3>4, Zenon DEF GroupTypeOK
    <3> QED BY <2>1, <3>1, <3>2, <3>5, <3>6, Zenon
  <2> QED BY <1>1, <2>3, <2>4, <2>6, <2>7, Zenon
<1> QED BY <1>2, <1>3, Zenon

LEMMA FinishInv ==
  ASSUME GroupInv, NEW c \in Children, NEW o \in {"ok", "error", "signal"}, Finish(c, o)
  PROVE  GroupInv'
<1> USE DEF GroupInv
<1>1. Running' = Running \ {c} /\ c \in Running
  BY Zenon DEF Finish, Running, GroupTypeOK
<1>2. Cardinality(Running') = Cardinality(Running) - 1 /\ Cardinality(Running) # 0
  BY <1>1, RunningFinite, FS_RemoveElement, FS_EmptySet, Zenon
<1>3. pending' = pending - 1 /\ pending > 0
  BY <1>2, RunningFinite DEF Finish, CountDown, Pending
<1>4. GroupTypeOK'
  <2>1. Decide(o) \subseteq {"cancel", "set"}
    BY Zenon DEF Decide
  <2>2. owed' \in Seq(Children)
    <3>1. owed \in Seq(Children) /\ (owed' = owed \/ owed' = Append(owed, c))
      BY Zenon DEF GroupTypeOK, Finish
    <3> QED BY <3>1
  <2> QED BY <1>3, <2>1, <2>2 DEF GroupTypeOK, Finish
<1>5. Pending'
  BY <1>2, <1>3, Zenon DEF Pending
<1>6. Drained'
  <2>1. "set" \in todo' => pending' = 0
    BY Zenon DEF Finish, Decide
  <2>2. drained' = drained /\ overtaken' = overtaken
    BY Zenon DEF Finish
  <2>3. ~overtaken => ~drained
    BY <1>3 DEF Drained, GroupTypeOK
  <2> QED BY <2>1, <2>2, <2>3, Zenon DEF Drained
<1>7. Todo'
  <2>1. busy' # NoChild
    BY GroupAssumption, Zenon DEF Finish
  <2> QED BY <2>1, Zenon DEF Todo
<1>8. Waited'
  BY <1>1, Zenon DEF Waited, Finish, GroupTypeOK
<1> QED BY <1>4, <1>5, <1>6, <1>7, <1>8, Zenon

(* finish() after its lock. *)
LEMMA FinishRestInv ==
  ASSUME GroupInv, FinishCancel \/ FinishReturn
  PROVE  GroupInv'
<1> USE DEF GroupInv
<1>1. GroupTypeOK'
  BY Zenon DEF GroupTypeOK, FinishCancel, FinishReturn
<1>2. Running' = Running /\ pending' = pending /\ overtaken' = overtaken /\ must' = must
      /\ child' = child
  BY Zenon DEF FinishCancel, FinishReturn, Running
<1>3. Pending'
  BY <1>2, Zenon DEF Pending
<1>4. Drained' /\ Todo'
  <2>1. CASE FinishCancel
    BY <1>2, <2>1 DEF Drained, Todo, FinishCancel
  <2>2. CASE FinishReturn
    <3>1. drained' => drained \/ "set" \in todo
      BY <2>2, Zenon DEF FinishReturn
    <3> QED BY <1>2, <2>2, <3>1 DEF Drained, Todo, FinishReturn
  <2> QED BY <2>1, <2>2, Zenon
<1>5. Waited'
  <2>1. CASE FinishCancel
    BY <1>2, <2>1 DEF Waited, FinishCancel
  <2>2. CASE FinishReturn
    <3>1. ASSUME NEW w \in Waiters, ~overtaken, waiter'[w] \in {"woken", "returned", "threw"},
                 waiter[w] \notin {"woken", "returned", "threw"}
          PROVE  Running = {}
      BY <2>2, <3>1, RunningEmpty, Zenon DEF FinishReturn, Drained
    <3> QED BY <1>2, <3>1, Zenon DEF Waited
  <2> QED BY <2>1, <2>2, Zenon
<1> QED BY <1>1, <1>3, <1>4, <1>5, Zenon

LEMMA WaitInv ==
  ASSUME GroupInv, NEW w \in Waiters, Wait(w) \/ WaitReturn(w) \/ WaitCanceled(w)
  PROVE  GroupInv'
<1> USE DEF GroupInv
<1>1. GroupTypeOK'
  <2>1. Running \subseteq Children
    BY Zenon DEF Running
  <2>2. CASE Wait(w)
    BY <2>1, <2>2, Zenon DEF GroupTypeOK, Wait
  <2>3. CASE WaitReturn(w)
    <3>1. owed' \in Seq(Children)
      <4>1. owed \in Seq(Children) /\ (owed' = owed \/ owed' = <<>>)
        BY <2>3, Zenon DEF GroupTypeOK, WaitReturn
      <4>2. <<>> \in Seq(Children)
        OBVIOUS
      <4> QED BY <4>1, <4>2, Zenon
    <3> QED BY <2>3, <3>1, Zenon DEF GroupTypeOK, WaitReturn
  <2>4. CASE WaitCanceled(w)
    BY <2>4, Zenon DEF GroupTypeOK, WaitCanceled
  <2> QED BY <2>2, <2>3, <2>4, Zenon
<1>2. /\ Running' = Running /\ pending' = pending /\ overtaken' = overtaken
      /\ child' = child /\ drained' = drained /\ todo' = todo /\ busy' = busy
  BY Zenon DEF Wait, WaitReturn, WaitCanceled, Running
<1>3. Pending' /\ Drained' /\ Todo'
  BY <1>2, Zenon DEF Pending, Drained, Todo
<1>4. Waited'
  <2>1. CASE Wait(w)
    <3>1. \A c \in Running : child[c] # "new"
      BY Zenon DEF Running
    <3>2. ~overtaken /\ drained => Running = {}
      BY RunningEmpty, Zenon DEF Drained
    <3> QED BY <1>2, <2>1, <3>1, <3>2 DEF Waited, Wait, GroupTypeOK
  <2>2. CASE WaitReturn(w)
    BY <1>2, <2>2 DEF Waited, WaitReturn, GroupTypeOK
  <2>3. CASE WaitCanceled(w)
    BY <1>2, <2>3 DEF Waited, WaitCanceled, GroupTypeOK
  <2> QED BY <2>1, <2>2, <2>3, Zenon
<1> QED BY <1>1, <1>3, <1>4, Zenon

LEMMA GroupStepInv == GroupInv /\ [GroupNext]_groupVars => GroupInv'
<1> SUFFICES ASSUME GroupInv, [GroupNext]_groupVars PROVE GroupInv'
  BY Zenon
<1>1. ASSUME NEW c \in Children,
             Spawn(c) \/ \E o \in {"ok", "error", "signal"} : Finish(c, o)
      PROVE  GroupInv'
  BY <1>1, SpawnInv, FinishInv, Zenon
<1>2. CASE FinishCancel \/ FinishReturn
  BY <1>2, FinishRestInv, Zenon
<1>3. ASSUME NEW w \in Waiters, Wait(w) \/ WaitReturn(w) \/ WaitCanceled(w)
      PROVE  GroupInv'
  BY <1>3, WaitInv, Zenon
<1>4. CASE Cancel
  BY <1>4 DEF Cancel, GroupInv, GroupTypeOK, Pending, Drained, Todo, Waited, Running
<1>5. CASE UNCHANGED groupVars
  BY <1>5 DEF groupVars, GroupInv, GroupTypeOK, Pending, Drained, Todo, Waited, Running
<1> QED BY <1>1, <1>2, <1>3, <1>4, <1>5, Zenon DEF GroupNext

(* The count of pending children is the number of children that run, and the
   event is set only when there is none, but for the gap in finish(). *)
THEOREM GroupInvariance == GroupSpec => []GroupInv
BY GroupInitInv, GroupStepInv, PTL DEF GroupSpec

(* wait() returns only when the children it was called for have ended, unless
   another thread spawned one between the two halves of a finish(). *)
THEOREM WaitIsForAll == GroupSpec => []WaitReturnsDrained
<1>1. GroupInv => WaitReturnsDrained
  BY Zenon DEF GroupInv, Waited, WaitReturnsDrained
<1> QED BY <1>1, GroupInvariance, PTL

(* The group's error is the first failure since a wait() last threw, whatever
   fails later and whichever wait() is cancelled. *)
THEOREM ErrorIsKept == GroupSpec => []ErrorNotSwallowed
<1>1. GroupInit => ErrorNotSwallowed
  BY Zenon DEF GroupInit, ErrorNotSwallowed
<1>2. GroupInv /\ ErrorNotSwallowed /\ [GroupNext]_groupVars => ErrorNotSwallowed'
  <2> SUFFICES ASSUME GroupInv, ErrorNotSwallowed, [GroupNext]_groupVars PROVE ErrorNotSwallowed'
    BY Zenon
  <2>1. ASSUME NEW c \in Children, NEW o \in {"ok", "error", "signal"}, Finish(c, o)
        PROVE  ErrorNotSwallowed'
    <3>1. owed \in Seq(Children)
      BY Zenon DEF GroupInv, GroupTypeOK
    <3>2. owed # <<>> => firstError = Head(owed) /\ Head(owed) # NoChild
      BY <3>1, GroupAssumption DEF ErrorNotSwallowed
    <3>3. /\ Append(owed, c) # <<>>
          /\ owed # <<>> => Head(Append(owed, c)) = Head(owed)
          /\ owed = <<>> => Head(Append(owed, c)) = c
      BY <3>1
    <3>4. CASE Fails(o)
      <4>1. owed' = Append(owed, c)
        BY <2>1, <3>4, Zenon DEF Finish
      <4>2. firstError' = IF firstError = NoChild THEN c ELSE firstError
        BY <2>1, <3>4, Zenon DEF Finish, Records
      <4> QED BY <3>2, <3>3, <4>1, <4>2, Zenon DEF ErrorNotSwallowed
    <3>5. CASE ~Fails(o)
      BY <2>1, <3>5, Zenon DEF Finish, Records, ErrorNotSwallowed
    <3> QED BY <3>4, <3>5, Zenon
  <2>2. ASSUME NEW w \in Waiters, WaitReturn(w)
        PROVE  ErrorNotSwallowed'
    <3>1. firstError = NoChild => owed = <<>>
      BY GroupAssumption DEF ErrorNotSwallowed, GroupInv, GroupTypeOK
    <3>2. owed' = <<>> /\ firstError' = NoChild
      BY <2>2, <3>1, Zenon DEF WaitReturn
    <3> QED BY <3>2, Zenon DEF ErrorNotSwallowed
  <2>3. ASSUME NEW c \in Children, Spawn(c)
        PROVE  ErrorNotSwallowed'
    BY <2>3, Zenon DEF Spawn, ErrorNotSwallowed
  <2>4. ASSUME NEW w \in Waiters, Wait(w) \/ WaitCanceled(w)
        PROVE  ErrorNotSwallowed'
    BY <2>4, Zenon DEF Wait, WaitCanceled, ErrorNotSwallowed
  <2>5. CASE FinishCancel \/ FinishReturn \/ Cancel \/ UNCHANGED groupVars
    BY <2>5, Zenon DEF FinishCancel, FinishReturn, Cancel, groupVars, ErrorNotSwallowed
  <2> QED BY <2>1, <2>2, <2>3, <2>4, <2>5, Zenon DEF GroupNext
<1> QED BY <1>1, <1>2, GroupInvariance, PTL DEF GroupSpec

------------------------------------------------------------------------------
(***************************************************************************)
(* CancelScope: cancellation reaches the scopes it is meant for, however   *)
(* deep they are nested and however many sources there are.                *)
(***************************************************************************)

Signals == Sources \cup 0 .. Depth
HasOuter(k) == k > 1 \/ hasSlot

ScopeTypeOK ==
    /\ hasSlot \in BOOLEAN
    /\ token \in [Scopes -> SUBSET Sources]
    /\ scope \in [Scopes -> {"out", "outer", "outerCheck", "token", "tokenCheck", "in"}]
    /\ chained \subseteq Signals \X Scopes
    /\ emitted \subseteq Signals
    /\ walking \subseteq emitted

\* A scope is entered inside the ones before it.
Nested == \A k \in Scopes : scope[k] # "out" => \A j \in 1 .. Outer(k) : scope[j] = "in"

\* Slots exist from the step of the constructor that chains them, and forward
\* from the signal around the scope or from its token's.
SlotsChained ==
    /\ \A k \in Scopes :
         /\ scope[k] \in {"outerCheck", "token", "tokenCheck", "in"} /\ HasOuter(k)
              => <<Outer(k), k>> \in chained
         /\ scope[k] \in {"tokenCheck", "in"} => \A s \in token[k] : <<s, k>> \in chained
    /\ \A c \in chained : c[1] = Outer(c[2]) \/ c[1] \in token[c[2]]

\* From the step that looks at the state on, what is through with its slots has
\* been passed on; over several scopes too, which is what makes it inductive.
PassedOn ==
    /\ \A k \in Scopes :
         scope[k] \in {"token", "tokenCheck"} /\ Outer(k) \in emitted /\ Outer(k) \notin walking
           => k \in emitted
    /\ \A k \in Scopes : scope[k] = "in" =>
         /\ \A s \in token[k] : s \in emitted /\ s \notin walking => k \in emitted
         /\ \A j \in 0 .. Outer(k) :
              j \in emitted /\ (\A i \in j .. Outer(k) : i \notin walking) => k \in emitted

\* Nothing is cancelled unasked.
AskedFor ==
    /\ 0 \in emitted => hasSlot
    /\ \A k \in Scopes : k \in emitted => Reach(k) \cap emitted # {}

\* The inductive invariant.
ScopeInv == ScopeTypeOK /\ Nested /\ SlotsChained /\ PassedOn /\ AskedFor

-----------------------------------------------------------------------------
\* The invariant holds initially.
LEMMA ScopeInitInv == ScopeInit => ScopeInv
BY ScopeAssumption, Zenon DEF ScopeInit, ScopeInv, ScopeTypeOK, Nested, SlotsChained, PassedOn,
   AskedFor, Signals, Scopes

\* An emission starts to walk: nothing that depends on it counts as passed on.
LEMMA CancelStep ==
    ASSUME ScopeInv, NEW s \in Signals, s \in Sources \/ (s = 0 /\ hasSlot), cancel(s)
    PROVE  ScopeInv'
<1> USE DEF ScopeInv
<1>1. ScopeTypeOK'
  BY Zenon DEF ScopeTypeOK, cancel, Emits, Signals
<1>2. Nested' /\ SlotsChained'
  BY Zenon DEF Nested, SlotsChained, HasOuter, cancel
<1>3. PassedOn'
  BY ScopeAssumption DEF PassedOn, ScopeTypeOK, Signals, Scopes, Outer, cancel, Emits
<1>4. AskedFor'
  BY ScopeAssumption DEF AskedFor, ScopeTypeOK, Signals, Scopes, Reach, cancel, Emits
<1> QED
  BY <1>1, <1>2, <1>3, <1>4, Zenon

\* The end of an emission's walk: the scopes it was chained to walk in turn, and
\* those that were cancelled before had passed on to the scopes inside.
LEMMA WalkStep ==
    ASSUME ScopeInv, NEW s \in Signals, WalkSlots(s)
    PROVE  ScopeInv'
<1> USE DEF ScopeInv
<1> DEFINE targets == {k \in Scopes : <<s, k>> \in chained}
<1>0. /\ s \in walking
      /\ emitted' = emitted \cup targets
      /\ walking' = (walking \ {s}) \cup (targets \ emitted)
      /\ UNCHANGED <<hasSlot, token, scope, chained>>
  BY Zenon DEF WalkSlots
<1> HIDE DEF targets
<1>t. targets \subseteq Scopes /\ \A k \in Scopes : k \in targets <=> <<s, k>> \in chained
  BY Zenon DEF targets
<1>1. ScopeTypeOK'
  <2>1. Scopes \subseteq Signals
    BY ScopeAssumption DEF Signals, Scopes
  <2> QED
    BY <1>0, <1>t, <2>1, Zenon DEF ScopeTypeOK
<1>2. Nested' /\ SlotsChained'
  BY <1>0, Zenon DEF Nested, SlotsChained, HasOuter
<1>3. PassedOn'
  <2>1. ASSUME NEW k \in Scopes, scope[k] \in {"token", "tokenCheck"},
               Outer(k) \in emitted', Outer(k) \notin walking'
        PROVE  k \in emitted'
    <3>1. Outer(k) \in emitted /\ Outer(k) \in 0 .. Depth
      BY <1>0, <1>t, <2>1, ScopeAssumption DEF Scopes, Outer
    <3>2. CASE s = Outer(k)
      <4>1. HasOuter(k)
        BY <3>1 DEF AskedFor, HasOuter, Outer, Scopes
      <4> QED
        BY <1>0, <1>t, <2>1, <3>2, <4>1, Zenon DEF SlotsChained
    <3>3. CASE s # Outer(k)
      BY <1>0, <2>1, <3>1, <3>3, Zenon DEF PassedOn
    <3> QED
      BY <3>2, <3>3, Zenon
  <2>2. ASSUME NEW k \in Scopes, scope[k] = "in", NEW u \in token[k],
               u \in emitted', u \notin walking'
        PROVE  k \in emitted'
    BY <1>0, <1>t, <2>2, ScopeAssumption, Zenon DEF PassedOn, SlotsChained, ScopeTypeOK, Scopes
  <2>3. ASSUME NEW k \in Scopes, scope[k] = "in", NEW j \in 0 .. Outer(k),
               j \in emitted', \A i \in j .. Outer(k) : i \notin walking'
        PROVE  k \in emitted'
    <3>1. j \in emitted
      BY <1>0, <2>3, ScopeAssumption DEF Scopes, Outer
    <3>2. CASE s \notin j .. Outer(k)
      BY <1>0, <2>3, <3>1, <3>2, Zenon DEF PassedOn
    <3>3. CASE s \in j .. Outer(k)
      <4>1. s + 1 \in Scopes /\ Outer(s + 1) = s
        BY <3>3, ScopeAssumption DEF Scopes, Outer
      <4>2. scope[s + 1] = "in"
        BY <2>3, <3>3, <4>1, ScopeAssumption DEF Nested, Scopes, Outer
      <4>3. HasOuter(s + 1)
        BY <1>0, <3>3, <4>1 DEF AskedFor, HasOuter, ScopeTypeOK, Outer, Scopes
      <4>4. s + 1 \in targets
        BY <1>t, <4>1, <4>2, <4>3, Zenon DEF SlotsChained
      <4>5. CASE s + 1 = k
        BY <1>0, <4>4, <4>5, Zenon
      <4>6. CASE s + 1 # k
        <5>1. s + 1 \in j .. Outer(k) /\ s + 1 \in 0 .. Outer(k)
          BY <3>3, <4>6, ScopeAssumption DEF Scopes, Outer
        <5>2. s + 1 \in emitted
          BY <1>0, <2>3, <4>4, <5>1, Zenon
        <5>3. \A i \in s + 1 .. Outer(k) : i \notin walking
          BY <1>0, <2>3, <3>3, ScopeAssumption DEF Scopes, Outer
        <5> QED
          BY <1>0, <2>3, <5>1, <5>2, <5>3, Zenon DEF PassedOn
      <4> QED
        BY <4>5, <4>6, Zenon
    <3> QED
      BY <3>2, <3>3, Zenon
  <2> QED
    BY <1>0, <2>1, <2>2, <2>3, Zenon DEF PassedOn
<1>4. AskedFor'
  <2>1. 0 \in emitted' => hasSlot'
    BY <1>0, <1>t, ScopeAssumption DEF AskedFor, Scopes
  <2>2. ASSUME NEW k \in Scopes, k \in emitted'
        PROVE  Reach(k) \cap emitted # {}
    <3>1. CASE k \in emitted
      BY <3>1, Zenon DEF AskedFor
    <3>2. CASE s \in token[k]
      BY <1>0, <3>2, ScopeAssumption DEF Reach, ScopeTypeOK, Scopes
    <3>3. CASE s = Outer(k)
      <4>1. CASE k = 1
        BY <1>0, <3>3, <4>1 DEF Reach, Outer, ScopeTypeOK
      <4>2. CASE k # 1
        <5>1. s \in Scopes /\ Reach(s) \subseteq Reach(k)
          BY <3>3, <4>2, ScopeAssumption DEF Reach, Outer, Scopes
        <5> QED
          BY <1>0, <5>1, Zenon DEF AskedFor, ScopeTypeOK
      <4> QED
        BY <4>1, <4>2, Zenon
    <3> QED
      BY <1>0, <1>t, <2>2, <3>1, <3>2, <3>3, Zenon DEF SlotsChained
  <2> QED
    BY <1>0, <2>1, <2>2, Zenon DEF AskedFor, Reach
<1> QED
  BY <1>1, <1>2, <1>3, <1>4, Zenon

\* The constructor's steps that neither emit nor end it: no scope that is
\* entered sees a difference.
LEMMA QuietStep ==
    ASSUME ScopeInv, NEW k \in Scopes,
           with_cancellation(k) \/ ChainOuter(k) \/ (ChainToken(k) /\ token[k] # {})
    PROVE  ScopeInv'
<1> USE DEF ScopeInv
<1>0. /\ UNCHANGED <<hasSlot, token, emitted, walking>>
      /\ scope[k] \in {"out", "outer", "token"}
      /\ scope' = [scope EXCEPT ![k] = scope'[k]]
      /\ scope'[k] \in {"outer", "token", "outerCheck", "tokenCheck"}
  BY Zenon DEF with_cancellation, ChainOuter, ChainToken, GoOn, ScopeTypeOK
<1>1. ScopeTypeOK'
  BY <1>0, ScopeAssumption
     DEF ScopeTypeOK, Signals, Scopes, Outer, with_cancellation, ChainOuter, ChainToken, GoOn
<1>2. Nested'
  BY <1>0, ScopeAssumption
     DEF ScopeTypeOK, Nested, Scopes, Outer, with_cancellation, ChainOuter, ChainToken, GoOn
<1>3. SlotsChained'
  BY <1>0, ScopeAssumption
     DEF ScopeTypeOK, SlotsChained, HasOuter, Scopes, Outer, with_cancellation, ChainOuter, ChainToken, GoOn
<1>4. PassedOn'
  BY <1>0, ScopeAssumption
     DEF ScopeTypeOK, PassedOn, AskedFor, Scopes, Outer, with_cancellation, ChainOuter, ChainToken, GoOn
<1>5. AskedFor'
  BY <1>0 DEF AskedFor, Reach
<1> QED
  BY <1>1, <1>2, <1>3, <1>4, <1>5, Zenon

\* The look at the signal around the scope: the scopes inside are not entered
\* yet, so that nobody has been passed less than before.
LEMMA CheckOuterStep ==
    ASSUME ScopeInv, NEW k \in Scopes, CheckOuter(k)
    PROVE  ScopeInv'
<1> USE DEF ScopeInv
<1>0. /\ scope[k] = "outerCheck" /\ scope' = [scope EXCEPT ![k] = "token"]
      /\ IF Outer(k) \in emitted
         THEN emitted' = emitted \cup {k} /\ walking' = walking \cup ({k} \ emitted)
         ELSE UNCHANGED <<emitted, walking>>
      /\ UNCHANGED <<hasSlot, token, chained>>
  BY Zenon DEF CheckOuter, PassOn, Emits, GoOn
<1>1. ScopeTypeOK'
  BY <1>0, ScopeAssumption DEF ScopeTypeOK, Signals, Scopes
<1>2. Nested'
  BY <1>0, ScopeAssumption DEF ScopeTypeOK, Nested, Scopes, Outer
<1>3. SlotsChained'
  BY <1>0, Zenon DEF ScopeTypeOK, SlotsChained, HasOuter
<1>4. PassedOn'
  <2>1. ASSUME NEW m \in Scopes, m # k
        PROVE  scope'[m] = scope[m] /\ (m \in emitted => m \in emitted')
    BY <1>0, <2>1, Zenon DEF ScopeTypeOK
  <2>2. scope'[k] = "token" /\ (Outer(k) \in emitted => k \in emitted')
    BY <1>0, Zenon DEF ScopeTypeOK
  <2>3. ASSUME NEW m \in Scopes, scope[m] # "out", m # k
        PROVE  m < k
    BY <1>0, <2>3, ScopeAssumption DEF Nested, Scopes, Outer
  <2>4. \A x \in Signals : x # k =>
           (x \in emitted' <=> x \in emitted) /\ (x \in walking' <=> x \in walking)
    BY <1>0
  <2>5. \A m \in Scopes :
           scope'[m] \in {"token", "tokenCheck"} /\ Outer(m) \in emitted' /\ Outer(m) \notin walking'
             => m \in emitted'
    <3> SUFFICES ASSUME NEW m \in Scopes, scope'[m] \in {"token", "tokenCheck"},
                        Outer(m) \in emitted', Outer(m) \notin walking'
                 PROVE  m \in emitted'
      BY Zenon
    <3>1. CASE m = k
      <4>1. Outer(k) # k /\ Outer(k) \in Signals
        BY ScopeAssumption DEF Outer, Scopes, Signals
      <4> QED BY <3>1, <4>1, <2>2, <2>4, Zenon
    <3>2. CASE m # k
      <4>1. scope[m] \in {"token", "tokenCheck"}
        BY <2>1, <3>2, Zenon
      <4>2. m < k
        BY <2>3, <3>2, <4>1
      <4>3. Outer(m) # k /\ Outer(m) \in Signals
        BY <4>2, ScopeAssumption DEF Outer, Scopes, Signals
      <4> QED BY <2>1, <2>4, <3>2, <4>1, <4>3, Zenon DEF PassedOn
    <3> QED BY <3>1, <3>2, Zenon
  <2>6. \A m \in Scopes : scope'[m] = "in" =>
           /\ \A s \in token'[m] : s \in emitted' /\ s \notin walking' => m \in emitted'
           /\ \A j \in 0 .. Outer(m) :
                j \in emitted' /\ (\A i \in j .. Outer(m) : i \notin walking') => m \in emitted'
    <3> SUFFICES ASSUME NEW m \in Scopes, scope'[m] = "in"
                 PROVE  /\ \A s \in token'[m] : s \in emitted' /\ s \notin walking' => m \in emitted'
                        /\ \A j \in 0 .. Outer(m) :
                             j \in emitted' /\ (\A i \in j .. Outer(m) : i \notin walking')
                               => m \in emitted'
      BY Zenon
    <3>1. m # k /\ scope[m] = "in"
      BY <2>1, <2>2, Zenon
    <3>2. m < k
      BY <2>3, <3>1
    <3>3. \A x \in 0 .. Outer(m) : x \in Signals /\ x # k
      BY <3>2, ScopeAssumption DEF Outer, Scopes, Signals
    <3>4. \A s \in token[m] : s \in Signals /\ s # k
      BY ScopeAssumption DEF ScopeTypeOK, Signals, Scopes
    <3>5. \A s \in token'[m] : s \in emitted' /\ s \notin walking' => m \in emitted'
      BY <1>0, <2>1, <2>4, <3>1, <3>4, Zenon DEF PassedOn
    <3>6. ASSUME NEW j \in 0 .. Outer(m), j \in emitted', \A i \in j .. Outer(m) : i \notin walking'
          PROVE  m \in emitted'
      <4>1. \A i \in j .. Outer(m) : i \in 0 .. Outer(m)
        BY DEF Outer
      <4>2. j \in emitted /\ \A i \in j .. Outer(m) : i \notin walking
        BY <2>4, <3>3, <3>6, <4>1, Zenon
      <4> QED BY <2>1, <3>1, <4>2, Zenon DEF PassedOn
    <3> QED BY <3>5, <3>6, Zenon
  <2> QED BY <2>5, <2>6, Zenon DEF PassedOn
<1>5. AskedFor'
  <2>1. 0 \in emitted' => hasSlot'
    BY <1>0, ScopeAssumption DEF AskedFor, Scopes
  <2>2. Outer(k) \in emitted => Reach(k) \cap emitted # {}
    <3>1. CASE k = 1
      BY <3>1 DEF Reach, Outer
    <3>2. CASE k # 1
      <4>1. Outer(k) \in Scopes /\ Reach(Outer(k)) \subseteq Reach(k)
        BY <3>2, ScopeAssumption DEF Reach, Outer, Scopes
      <4> QED
        BY <4>1, Zenon DEF AskedFor
    <3> QED
      BY <3>1, <3>2, Zenon
  <2> QED
    BY <1>0, <2>1, <2>2 DEF AskedFor, Reach
<1> QED
  BY <1>1, <1>2, <1>3, <1>4, <1>5, Zenon

\* The last step of the constructor, with a token or without: what reaches the
\* scope around this one has been passed on to it by CheckOuter, what reaches its
\* token by this step.
LEMMA EnterStep ==
    ASSUME ScopeInv, NEW k \in Scopes, (ChainToken(k) /\ token[k] = {}) \/ CheckToken(k)
    PROVE  ScopeInv'
<1> USE DEF ScopeInv
<1>0. /\ scope[k] \in {"token", "tokenCheck"} /\ scope' = [scope EXCEPT ![k] = "in"]
      /\ scope[k] = "tokenCheck" \/ token[k] = {}
      /\ IF token[k] \cap emitted # {}
         THEN emitted' = emitted \cup {k} /\ walking' = walking \cup ({k} \ emitted)
         ELSE UNCHANGED <<emitted, walking>>
      /\ UNCHANGED <<hasSlot, token, chained>>
  <2>1. CASE CheckToken(k)
    BY <2>1, Zenon DEF CheckToken, PassOn, Emits, GoOn
  <2>2. CASE ChainToken(k) /\ token[k] = {}
    BY <2>2, Zenon DEF ChainToken, GoOn
  <2> QED
    BY <2>1, <2>2, Zenon
<1>1. ScopeTypeOK'
  BY <1>0, ScopeAssumption DEF ScopeTypeOK, Signals, Scopes
<1>2. Nested'
  BY <1>0, ScopeAssumption DEF ScopeTypeOK, Nested, Scopes, Outer
<1>3. SlotsChained'
  BY <1>0, Zenon DEF ScopeTypeOK, SlotsChained, HasOuter
<1>4. PassedOn'
  <2>1. \A n \in Scopes : n # k => /\ n \in emitted' <=> n \in emitted
                                  /\ n \in walking' <=> n \in walking
                                  /\ scope'[n] = scope[n]
    BY <1>0, Zenon DEF ScopeTypeOK
  <2>2. \A n \in Scopes : n > k => scope[n] = "out"
    BY <1>0, ScopeAssumption DEF Nested, Scopes, Outer
  <2>3. ASSUME NEW j \in 0 .. Outer(k), j \in emitted, \A i \in j .. Outer(k) : i \notin walking
        PROVE  k \in emitted
    <3>1. CASE j = Outer(k)
      BY <1>0, <2>3, <3>1, ScopeAssumption DEF PassedOn, Scopes, Outer
    <3>2. CASE j # Outer(k)
      <4>1. Outer(k) \in Scopes /\ scope[Outer(k)] = "in" /\ j \in 0 .. Outer(Outer(k))
        BY <1>0, <3>2, ScopeAssumption DEF Nested, Scopes, Outer
      <4>2. \A i \in j .. Outer(Outer(k)) : i \notin walking
        BY <2>3, <4>1, ScopeAssumption DEF Scopes, Outer
      <4>3. Outer(k) \in emitted
        BY <2>3, <4>1, <4>2, Zenon DEF PassedOn
      <4>4. Outer(k) \notin walking
        BY <2>3, <4>1, ScopeAssumption DEF Scopes, Outer
      <4> QED
        BY <1>0, <4>3, <4>4, Zenon DEF PassedOn
    <3> QED
      BY <3>1, <3>2, Zenon
  <2> QED
    BY <1>0, <2>1, <2>2, <2>3, ScopeAssumption DEF ScopeTypeOK, PassedOn, Scopes, Outer
<1>5. AskedFor'
  <2>1. token[k] \subseteq Reach(k)
    BY ScopeAssumption DEF Reach, Scopes
  <2> QED
    BY <1>0, <2>1, ScopeAssumption DEF AskedFor, Reach, Scopes
<1> QED
  BY <1>1, <1>2, <1>3, <1>4, <1>5, Zenon

\* The innermost scope ends and takes its signal along.
LEMMA LeaveScopeStep ==
    ASSUME ScopeInv, NEW k \in Scopes, LeaveScope(k)
    PROVE  ScopeInv'
<1> USE DEF ScopeInv
<1>0. /\ scope[k] = "in" /\ scope' = [scope EXCEPT ![k] = "out"]
      /\ chained' = {c \in chained : c[2] # k}
      /\ emitted' = emitted \ {k} /\ walking' = walking \ {k}
      /\ UNCHANGED <<hasSlot, token>>
  BY Zenon DEF LeaveScope, GoOn
<1>i. \A n \in Scopes : n > k => scope[n] = "out"
  BY ScopeAssumption DEF LeaveScope, Nested, Scopes, Outer
<1>1. ScopeTypeOK'
  BY <1>0, Zenon DEF ScopeTypeOK
<1>2. Nested'
  BY <1>0, <1>i, ScopeAssumption DEF ScopeTypeOK, Nested, Scopes, Outer
<1>3. SlotsChained'
  BY <1>0, Zenon DEF ScopeTypeOK, SlotsChained, HasOuter
<1>4. PassedOn'
  BY <1>0, <1>i, ScopeAssumption DEF ScopeTypeOK, PassedOn, Scopes, Outer
<1>5. AskedFor'
  <2>1. ASSUME NEW n \in Scopes, n \in emitted'
        PROVE  Reach(n) \cap emitted' # {}
    <3>1. k \notin Reach(n)
      BY ScopeAssumption DEF Reach, ScopeTypeOK, Scopes
    <3> QED
      BY <1>0, <2>1, <3>1, Zenon DEF AskedFor
  <2> QED
    BY <1>0, <2>1 DEF AskedFor, Reach
<1> QED
  BY <1>1, <1>2, <1>3, <1>4, <1>5, Zenon

\* Every step preserves the invariant.
LEMMA ScopeNextInv == ScopeInv /\ [ScopeNext]_scopeVars => ScopeInv'
<1> SUFFICES ASSUME ScopeInv, [ScopeNext]_scopeVars
             PROVE  ScopeInv'
  BY Zenon
<1>1. CASE UNCHANGED scopeVars
  <2>1. /\ hasSlot' = hasSlot /\ token' = token /\ scope' = scope /\ chained' = chained
        /\ emitted' = emitted /\ walking' = walking
    BY <1>1, Zenon DEF scopeVars
  <2> QED BY <2>1 DEF ScopeInv, ScopeTypeOK, Nested, SlotsChained, HasOuter, PassedOn,
              AskedFor, Reach
<1>2. CASE \E s \in Sources : cancel(s)
  BY <1>2, CancelStep, Zenon DEF Signals
<1>3. CASE hasSlot /\ cancel(0)
  <2>1. 0 \in Signals
    BY ScopeAssumption DEF Signals
  <2> QED
    BY <1>3, <2>1, CancelStep, Zenon
<1>4. CASE \E s \in walking : WalkSlots(s)
  <2>1. walking \subseteq Signals
    BY Zenon DEF ScopeInv, ScopeTypeOK
  <2> QED
    BY <1>4, <2>1, WalkStep, Zenon
<1>5. ASSUME NEW k \in Scopes,
             \/ with_cancellation(k) \/ ChainOuter(k) \/ CheckOuter(k)
             \/ ChainToken(k) \/ CheckToken(k) \/ LeaveScope(k)
      PROVE  ScopeInv'
  BY <1>5, QuietStep, CheckOuterStep, EnterStep, LeaveScopeStep, Zenon
<1> QED
  BY <1>1, <1>2, <1>3, <1>4, <1>5, Zenon DEF ScopeNext

\* The invariant gives the property: a source's emission that is through with
\* its slots is in the scope of its token, and from there in every scope inside.
LEMMA ScopeInvReaches == ScopeInv => CancellationReachesScope
<1> SUFFICES ASSUME ScopeInv PROVE CancellationReachesScope
  BY Zenon
<1> USE DEF ScopeInv
<1>1. ASSUME NEW k \in Scopes, scope[k] = "in", Reach(k) \cap emitted # {},
             Above(k) \cap walking = {}
      PROVE  k \in emitted
  <2>0. \A i \in 0 .. Outer(k) : i \notin walking
    BY <1>1, ScopeAssumption DEF Above, Reach, Outer, Scopes
  <2>1. PICK s \in Reach(k) : s \in emitted
    BY <1>1, Zenon
  <2>2. CASE s = 0
    <3>1. 0 \in 0 .. Outer(k)
      BY ScopeAssumption DEF Outer, Scopes
    <3> QED
      BY <1>1, <2>0, <2>1, <2>2, <3>1, Zenon DEF PassedOn
  <2>3. ASSUME NEW j \in 1 .. k, s \in token[j]
        PROVE  k \in emitted
    <3>1. j \in Scopes /\ scope[j] = "in"
      BY <1>1, ScopeAssumption DEF Nested, Scopes, Outer
    <3>2. j \in emitted
      BY <1>1, <2>1, <2>3, <3>1, Zenon DEF PassedOn, Above
    <3>3. CASE j # k
      <4>1. j \in 0 .. Outer(k) /\ \A i \in j .. Outer(k) : i \notin walking
        BY <2>0, <3>3, ScopeAssumption DEF Outer, Scopes
      <4> QED
        BY <1>1, <3>2, <4>1, Zenon DEF PassedOn
    <3> QED
      BY <3>2, <3>3, Zenon
  <2> QED
    BY <2>1, <2>2, <2>3, Zenon DEF Reach
<1> QED
  BY <1>1, Zenon DEF CancellationReachesScope, AskedFor

\* With any number of scopes and sources, and any thread cancelling at any
\* moment, with_cancellation's chaining passes a cancellation on to every scope it
\* is meant for, and to no other.
THEOREM ReachesEveryScope == ScopeSpec => []CancellationReachesScope
<1>1. ScopeInv /\ [ScopeNext]_scopeVars => ScopeInv'
  BY ScopeNextInv, Zenon
<1> QED
  BY ScopeInitInv, <1>1, ScopeInvReaches, PTL DEF ScopeSpec
==============================================================================
