-------------------------------- MODULE File --------------------------------
(***************************************************************************)
(* corouv::io::File and the libuv file requests of fs.h it awaits.         *)
(*                                                                         *)
(* An operation takes a lease (State::acquire), awaits one request or      *)
(* several, and gives the lease back (State::release) on every path; close *)
(* refuses while a lease is out.  Coroutines of one loop interleave where  *)
(* they await.  Each of them keeps the State alive, and whoever lets go of *)
(* it last closes the descriptor.  The bytes of the file are their         *)
(* positions: of the contents only the size matters.                       *)
(***************************************************************************)
EXTENDS Integers, FiniteSets

CONSTANTS
    Users,      \* coroutines that use the file
    MaxSize,    \* bytes the file may grow to
    Buffer,     \* bytes a caller reads or writes in one call
    MaxLeaks    \* calls with an offset that does not fit in int64_t

ASSUME FileAssumption ==
    /\ IsFiniteSet(Users)
    /\ MaxSize \in Nat /\ Buffer \in Nat \ {0} /\ MaxLeaks \in Nat

VARIABLES
    fd,          \* the descriptor: "none", "open", "closed", "again" (closed twice)
    size,        \* bytes in the file
    held,        \* the application still has the File object
    state,       \* File::State
    call,        \* the operation each coroutine awaits in, or "idle"
    at,          \* the position of its request
    moved,       \* bytes its call has transferred so far
    sought,      \* history: the last seek plus the bytes reported since
    leaked,      \* history: leases taken by calls whose offset did not fit
    orphan,      \* history: open() threw after the descriptor was opened
    closeFailed  \* history: a close request failed

fileVars == <<fd, size, held, state, call, at, moved, sought, leaked, orphan, closeFailed>>

Sequential == {"read_some", "write_some", "write_all", "read_until_eof"}
Positional == {"stat", "read_at", "write_at", "sync", "datasync"}
Positions == 0..MaxSize

(* File::State. *)
State == [file : BOOLEAN, offset : Nat, inflight : Nat,
          sequential_busy : BOOLEAN, closing : BOOLEAN]
NoState == [file |-> FALSE, offset |-> 0, inflight |-> 0,
            sequential_busy |-> FALSE, closing |-> FALSE]

(* Every variable has its type. *)
FileTypeOK ==
    /\ fd \in {"none", "open", "closed", "again"}
    /\ size \in Nat /\ held \in BOOLEAN /\ state \in State
    /\ call \in [Users -> {"idle", "close"} \cup Sequential \cup Positional]
    /\ at \in [Users -> Nat] /\ moved \in [Users -> Nat]
    /\ sought \in Nat /\ leaked \in Nat
    /\ orphan \in BOOLEAN /\ closeFailed \in BOOLEAN

FileInit ==
    /\ fd = "none" /\ size \in Positions /\ held = FALSE /\ state = NoState
    /\ call = [t \in Users |-> "idle"]
    /\ at = [t \in Users |-> 0] /\ moved = [t \in Users |-> 0]
    /\ sought = 0 /\ leaked = 0 /\ orphan = FALSE /\ closeFailed = FALSE

----------------------------------------------------------------------------
(* State::is_open_unlocked; ensure_open_unlocked throws when it is false. *)
is_open_unlocked == state.file /\ ~state.closing

(* acquire refuses a second sequential operation. *)
MayStart_Always(op) == TRUE \* (mutant)
MayStart(op) == op \in Sequential => ~state.sequential_busy

(* State::acquire, release and close_sync. *)
acquire(s, sequential) ==
    [s EXCEPT !.sequential_busy = @ \/ sequential, !.inflight = @ + 1]
release(s, sequential, update_offset, new_offset) ==
    [s EXCEPT !.offset = IF update_offset THEN new_offset ELSE @,
              !.sequential_busy = @ /\ ~sequential,
              !.inflight = IF @ > 0 THEN @ - 1 ELSE 0]
close_sync(s) ==
    [s EXCEPT !.file = FALSE, !.closing = FALSE, !.sequential_busy = FALSE,
              !.inflight = 0]

(* The kernel's side of uv_fs_close. *)
Closed(d) == IF d = "open" THEN "closed" ELSE "again"

(* A coroutine is through: it leaves the State as s and the descriptor as d,
   and drops its reference; ~State runs close_sync if that was the last one. *)
LastOwner(t) == ~held /\ \A u \in Users \ {t} : call[u] = "idle"
Return(t, s, d) ==
    /\ call' = [call EXCEPT ![t] = "idle"]
    /\ at' = [at EXCEPT ![t] = 0] /\ moved' = [moved EXCEPT ![t] = 0]
    /\ IF LastOwner(t) /\ s.file
       THEN state' = close_sync(s) /\ fd' = Closed(d)
       ELSE state' = s /\ fd' = d

----------------------------------------------------------------------------
(* io::open: fs::Open, and then a State unless the offset does not fit. *)
Open ==
    /\ fd = "none"
    /\ fd' = "open"
    /\ \/ /\ held' = TRUE
          /\ \E o \in Positions :
                state' = [NoState EXCEPT !.file = TRUE, !.offset = o] /\ sought' = o
          /\ UNCHANGED orphan
       \/ orphan' = TRUE /\ UNCHANGED <<held, state, sought>>
    /\ UNCHANGED <<size, call, at, moved, leaked, closeFailed>>

(* A call that takes a lease and submits its first request at pos. *)
Begin(t, op, pos) ==
    /\ held /\ call[t] = "idle" /\ is_open_unlocked /\ MayStart(op)
    /\ state' = acquire(state, op \in Sequential)
    /\ call' = [call EXCEPT ![t] = op]
    /\ at' = [at EXCEPT ![t] = pos]
    /\ UNCHANGED <<fd, size, held, moved, sought, leaked, orphan, closeFailed>>
stat(t) == Begin(t, "stat", 0)
sync(t) == Begin(t, "sync", 0)
datasync(t) == Begin(t, "datasync", 0)
read_at(t) == \E pos \in Positions : Begin(t, "read_at", pos)
write_at(t) == \E pos \in Positions : Begin(t, "write_at", pos)
read_some(t) == Begin(t, "read_some", state.offset)
write_some(t) == Begin(t, "write_some", state.offset)
write_all(t) == Begin(t, "write_all", state.offset)
read_until_eof(t) == Begin(t, "read_until_eof", state.offset)

(* read_at and write_at convert the offset after acquire and outside the try:
   one that does not fit keeps the lease for good. *)
to_offset_throws ==
    /\ held /\ is_open_unlocked /\ leaked < MaxLeaks
    /\ state' = acquire(state, FALSE)
    /\ leaked' = leaked + 1
    /\ UNCHANGED <<fd, size, held, call, at, moved, sought, orphan, closeFailed>>

----------------------------------------------------------------------------
(* fs::Fstat, fs::Fsync and fs::Fdatasync complete. *)
Fstat(t) == call[t] = "stat" /\ UNCHANGED size
Fsync(t) == call[t] = "sync" /\ UNCHANGED size
Fdatasync(t) == call[t] = "datasync" /\ UNCHANGED size

(* fs::Read returns n bytes: short at the kernel's pleasure, 0 at the end. *)
Read(t, n) ==
    /\ IF at[t] < size THEN n \in 1..Buffer /\ at[t] + n <= size ELSE n = 0
    /\ UNCHANGED size

(* fs::Write writes n bytes of those that are left. *)
Write(t, n) ==
    /\ n \in 1..(Buffer - moved[t]) /\ at[t] + n <= MaxSize
    /\ size' = IF at[t] + n > size THEN at[t] + n ELSE size

(* A call with a position of its own returns. *)
FinishPositional(t) ==
    /\ \/ Fstat(t)
       \/ Fsync(t)
       \/ Fdatasync(t)
       \/ call[t] = "read_at" /\ \E n \in 0..Buffer : Read(t, n)
       \/ call[t] = "write_at" /\ \E n \in 0..Buffer : Write(t, n)
    /\ Return(t, release(state, FALSE, FALSE, 0), fd)
    /\ UNCHANGED <<held, sought, leaked, orphan, closeFailed>>

(* A sequential call returns total bytes and leaves the offset at new_offset. *)
FinishSequential(t, total, new_offset) ==
    /\ Return(t, release(state, TRUE, TRUE, new_offset), fd)
    /\ sought' = sought + total
    /\ UNCHANGED <<held, leaked, orphan, closeFailed>>

(* write_all and read_until_eof go on with the next request. *)
Continue(t, n) ==
    /\ at' = [at EXCEPT ![t] = @ + n] /\ moved' = [moved EXCEPT ![t] = @ + n]
    /\ UNCHANGED <<fd, held, state, call, sought, leaked, orphan, closeFailed>>

FinishReadSome(t) ==
    /\ call[t] = "read_some"
    /\ \E n \in 0..Buffer : Read(t, n) /\ FinishSequential(t, n, at[t] + n)
FinishWriteSome(t) ==
    /\ call[t] = "write_some"
    /\ \E n \in 0..Buffer : Write(t, n) /\ FinishSequential(t, n, at[t] + n)
StepWriteAll(t) ==
    /\ call[t] = "write_all"
    /\ \E n \in 0..Buffer :
          /\ Write(t, n)
          /\ IF moved[t] + n < Buffer THEN Continue(t, n)
             ELSE FinishSequential(t, moved[t] + n, at[t] + n)
StepReadUntilEof(t) ==
    /\ call[t] = "read_until_eof"
    /\ \E n \in 0..Buffer :
          /\ Read(t, n)
          /\ IF n > 0 THEN Continue(t, n)
             ELSE FinishSequential(t, moved[t], at[t])

(* The request fails, a write stalls or read_until_eof passes max_bytes: the
   catch clause gives the lease back and leaves the offset where it was. *)
Throw(t) ==
    /\ call[t] \in Sequential \cup Positional
    /\ Return(t, release(state, call[t] \in Sequential, FALSE, 0), fd)
    /\ UNCHANGED <<size, held, sought, leaked, orphan, closeFailed>>

----------------------------------------------------------------------------
(* File::seek and rewind. *)
seek ==
    /\ held /\ is_open_unlocked /\ ~state.sequential_busy
    /\ \E o \in Positions : state' = [state EXCEPT !.offset = o] /\ sought' = o
    /\ UNCHANGED <<fd, size, held, call, at, moved, leaked, orphan, closeFailed>>

(* File::close: refused while a lease is out or another close is in progress;
   fs::Close then completes or fails. *)
MayClose_Inflight == ~state.sequential_busy \* (mutant)
MayClose == state.inflight = 0 /\ ~state.sequential_busy
close(t) ==
    /\ held /\ call[t] = "idle" /\ is_open_unlocked /\ MayClose
    /\ state' = [state EXCEPT !.closing = TRUE]
    /\ call' = [call EXCEPT ![t] = "close"]
    /\ UNCHANGED <<fd, size, held, at, moved, sought, leaked, orphan, closeFailed>>
Close(t) ==
    /\ call[t] = "close"
    /\ Return(t, [state EXCEPT !.file = FALSE, !.offset = 0, !.closing = FALSE],
              Closed(fd))
    /\ UNCHANGED <<size, held, sought, leaked, orphan, closeFailed>>

(* The kernel may or may not have released the descriptor of a failed close. *)
CloseFails(t) ==
    /\ call[t] = "close"
    /\ \E d \in {fd, Closed(fd)} : Return(t, [state EXCEPT !.closing = FALSE], d)
    /\ closeFailed' = TRUE
    /\ UNCHANGED <<size, held, sought, leaked, orphan>>

(* ~File, or an assignment to it. *)
Drop ==
    /\ held /\ held' = FALSE
    /\ IF (\A t \in Users : call[t] = "idle") /\ state.file
       THEN state' = close_sync(state) /\ fd' = Closed(fd)
       ELSE UNCHANGED <<state, fd>>
    /\ UNCHANGED <<size, call, at, moved, sought, leaked, orphan, closeFailed>>

FileNext ==
    \/ Open
    \/ to_offset_throws
    \/ seek
    \/ Drop
    \/ \E t \in Users :
          \/ stat(t) \/ sync(t) \/ datasync(t) \/ read_at(t) \/ write_at(t)
          \/ read_some(t) \/ write_some(t) \/ write_all(t) \/ read_until_eof(t)
          \/ FinishPositional(t) \/ FinishReadSome(t) \/ FinishWriteSome(t)
          \/ StepWriteAll(t) \/ StepReadUntilEof(t) \/ Throw(t)
          \/ close(t) \/ Close(t) \/ CloseFails(t)

FileSpec == FileInit /\ [][FileNext]_fileVars

----------------------------------------------------------------------------
(* No request is ever in flight on a descriptor that is closed or being closed
   by somebody else, and no descriptor is closed twice, unless a close request
   failed; and once nobody has the State any more its descriptor is closed,
   unless open() threw after it had opened it. *)
Leased == {t \in Users : call[t] \in Sequential \cup Positional}
DescriptorOwned ==
    /\ ~closeFailed => /\ fd # "again"
                       /\ \A t \in Users : call[t] # "idle" => fd = "open"
    /\ \A t \in Users : call[t] = "close" => Leased = {}
    /\ ~held /\ (\A t \in Users : call[t] = "idle") => fd # "open" \/ orphan

(* The offset is where the last seek went plus what sequential calls have
   reported since: two of them never work from one position, and what a failed
   call transferred is not counted. *)
SequentialOffset == state.file => state.offset = sought
=============================================================================
