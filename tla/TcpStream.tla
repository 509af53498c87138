------------------------------ MODULE TcpStream ------------------------------
(***************************************************************************)
(* TcpStream::State and its awaiters (src/net.cpp): the read callback      *)
(* fills read_buffer and wakes the one registered reader, writes try the   *)
(* socket first and queue the rest, close cancels both.  All of it happens *)
(* on the loop thread: a task of OffLoop posts its registration, and a     *)
(* woken coroutine is posted, so that other callbacks come in between.     *)
(* libuv and the peer are modelled by what the code uses of them.          *)
(***************************************************************************)
EXTENDS Naturals, Sequences

CONSTANTS
  Conns,     \* connections
  Readers,   \* coroutines that call read_some
  Writers,   \* coroutines that call write_all
  OffLoop,   \* coroutines that run on another thread
  Active,    \* connections that data flows over
  MaxBytes,  \* bound on the bytes a peer sends
  MaxRead,   \* bound on the size of a reader's buffer
  WriteLen,  \* bytes of one write_all
  Nobody

ASSUME StreamAssumption ==
  /\ MaxBytes \in Nat /\ MaxRead \in Nat /\ WriteLen \in Nat
  /\ Nobody \notin Readers \union Conns
  /\ Readers \intersect Writers = {}

VARIABLES
  handle,       \* the uv_tcp_t: none, connecting, open, closing, closed
  owned,        \* connections whose State a TcpStream object holds
  arrived,      \* bytes the peer has sent
  peerEnd,      \* the peer's side: up, fin or reset
  taken,        \* bytes that libuv has passed to read_cb
  read_buffer,
  read_waiter,
  read_error,
  read_started,
  eof,
  closeQ,       \* connections for which close_on_loop is posted
  rpc,          \* where each reader is
  rflag,        \* its awaiter's _concurrent_read or _setup_error
  at,           \* the connection a reader or writer is busy with
  zeroRead,     \* readers whose last read_some returned 0
  shut,         \* connections whose write side was shut down
  wpc,          \* where each writer is
  written,      \* write_all's written
  result,       \* its WriteOp's result; 0 stands for an error
  writeQ,       \* libuv's queue of uv_write requests: writer and bytes left
  got,          \* history: bytes that readers were given
  overlap,      \* history: two reads of the connection were in progress
  wire          \* history: each writer's bytes that went out over a connection

handleVars == <<handle, owned, closeQ>>
peerVars == <<arrived, peerEnd>>
bufferVars == <<taken, read_buffer, read_error, eof>>
waitVars == <<read_waiter, read_started>>
readerVars == <<rpc, rflag, zeroRead>>
readVars == <<bufferVars, waitVars, readerVars, got, overlap>>
writeVars == <<shut, wpc, written, result, writeQ, wire>>
streamVars == <<handleVars, peerVars, readVars, writeVars, at>>

StreamTypeOK ==
  /\ handle \in [Conns -> {"none", "connecting", "open", "closing", "closed"}]
  /\ owned \in SUBSET Conns
  /\ arrived \in [Conns -> 0..MaxBytes]
  /\ peerEnd \in [Conns -> {"up", "fin", "reset"}]
  /\ taken \in [Conns -> 0..MaxBytes]
  /\ read_buffer \in [Conns -> Seq(1..MaxBytes)]
  /\ read_waiter \in [Conns -> Readers \union {Nobody}]
  /\ read_error \in [Conns -> {"none", "canceled", "reset", "start"}]
  /\ read_started \in [Conns -> BOOLEAN]
  /\ eof \in [Conns -> BOOLEAN]
  /\ closeQ \in SUBSET Conns
  /\ rpc \in [Readers -> {"idle", "register", "waiting", "resuming"}]
  /\ rflag \in [Readers -> {"none", "concurrent", "setup"}]
  /\ at \in [Readers \union Writers -> Conns \union {Nobody}]
  /\ zeroRead \in SUBSET Readers
  /\ shut \in SUBSET Conns
  /\ wpc \in [Writers -> {"idle", "start", "waiting", "resuming", "done", "failed"}]
  /\ written \in [Writers -> 0..WriteLen]
  /\ result \in [Writers -> 0..WriteLen]
  /\ writeQ \in [Conns -> Seq(Writers \X (0..WriteLen))]
  /\ got \in [Conns -> Seq(1..MaxBytes)]
  /\ overlap \in SUBSET Conns
  /\ wire \in [Conns -> [Writers -> Seq(1..WriteLen)]]

\* Every handle is in state h, and the connections of O are held by a TcpStream.
StreamInit(h, O) ==
  /\ handle = [c \in Conns |-> h]
  /\ owned = O
  /\ arrived = [c \in Conns |-> 0]
  /\ peerEnd = [c \in Conns |-> "up"]
  /\ taken = [c \in Conns |-> 0]
  /\ read_buffer = [c \in Conns |-> <<>>]
  /\ read_waiter = [c \in Conns |-> Nobody]
  /\ read_error = [c \in Conns |-> "none"]
  /\ read_started = [c \in Conns |-> FALSE]
  /\ eof = [c \in Conns |-> FALSE]
  /\ closeQ = {}
  /\ rpc = [r \in Readers |-> "idle"]
  /\ rflag = [r \in Readers |-> "none"]
  /\ at = [t \in Readers \union Writers |-> Nobody]
  /\ zeroRead = {}
  /\ shut = {}
  /\ wpc = [w \in Writers |-> "idle"]
  /\ written = [w \in Writers |-> 0]
  /\ result = [w \in Writers |-> 0]
  /\ writeQ = [c \in Conns |-> <<>>]
  /\ got = [c \in Conns |-> <<>>]
  /\ overlap = {}
  /\ wire = [c \in Conns |-> [w \in Writers |-> <<>>]]

\* State::open(), and TcpStream::is_open, which needs the object to hold it.
Open(c) == handle[c] \in {"connecting", "open"}
IsOpen(c) == c \in owned /\ Open(c)

\* The bytes a up to b, in order.
Span(a, b) == [i \in 1..(b + 1 - a) |-> a + i - 1]

------------------------------------------------------------------------------
(***************************************************************************)
(* Reading                                                                 *)
(***************************************************************************)

\* The registered reader is taken out of read_waiter and its resumption posted.
WakeReader(c) ==
  /\ read_waiter' = [read_waiter EXCEPT ![c] = Nobody]
  /\ rpc' = [r \in Readers |-> IF read_waiter[c] = r THEN "resuming" ELSE rpc[r]]

\* await_resume that empties read_buffer whatever it copied (mutant).
TakeResult_ClearAll(r, c) ==
  /\ \E size \in 1..MaxRead :
       LET n == IF size < Len(read_buffer[c]) THEN size ELSE Len(read_buffer[c])
       IN /\ got' = [got EXCEPT ![c] = @ \o SubSeq(read_buffer[c], 1, n)]
          /\ read_buffer' = [read_buffer EXCEPT ![c] = <<>>]
  /\ zeroRead' = IF read_buffer[c] = <<>> /\ read_error[c] = "none"
                 THEN zeroRead \union {r} ELSE zeroRead \ {r}
  /\ rpc' = [rpc EXCEPT ![r] = "idle"]

\* ReadAwaiter::await_resume, the flags aside: buffered bytes come before an
\* error, and 0 is returned when there is neither.
TakeResult(r, c) ==
  /\ \E size \in 1..MaxRead :
       LET n == IF size < Len(read_buffer[c]) THEN size ELSE Len(read_buffer[c])
       IN /\ got' = [got EXCEPT ![c] = @ \o SubSeq(read_buffer[c], 1, n)]
          /\ read_buffer' = [read_buffer EXCEPT ![c] = SubSeq(@, n + 1, Len(@))]
  /\ zeroRead' = IF read_buffer[c] = <<>> /\ read_error[c] = "none"
                 THEN zeroRead \union {r} ELSE zeroRead \ {r}
  /\ rpc' = [rpc EXCEPT ![r] = "idle"]

\* register_waiter finds something to return at once.
Ready(c) == ~Open(c) \/ read_buffer[c] # <<>> \/ eof[c] \/ read_error[c] # "none"

\* await_resume throws because of a flag; a coroutine on another thread learns
\* of it when its posted resumption runs.
Refuse(r, flag) ==
  /\ rflag' = [rflag EXCEPT ![r] = IF r \in OffLoop THEN flag ELSE "none"]
  /\ rpc' = [rpc EXCEPT ![r] = IF r \in OffLoop THEN "resuming" ELSE "idle"]
  /\ zeroRead' = IF r \in OffLoop THEN zeroRead ELSE zeroRead \ {r}

\* register_waiter on the loop thread, with start_reading_on_loop and, for a
\* coroutine of the loop, the await_resume that follows a `false`.
Register(r, c) ==
  \/ /\ Ready(c)
     /\ IF r \in OffLoop
        THEN /\ rpc' = [rpc EXCEPT ![r] = "resuming"]
             /\ UNCHANGED <<got, read_buffer, zeroRead>>
        ELSE TakeResult(r, c)
     /\ UNCHANGED <<read_waiter, read_started, read_error, rflag>>
  \/ /\ ~Ready(c)
     /\ read_waiter[c] # Nobody
     /\ Refuse(r, "concurrent")
     /\ UNCHANGED <<read_waiter, read_started, read_error, got, read_buffer>>
  \/ /\ ~Ready(c)
     /\ read_waiter[c] = Nobody
     /\ read_waiter' = [read_waiter EXCEPT ![c] = r]
     /\ read_started' = [read_started EXCEPT ![c] = TRUE]
     /\ rpc' = [rpc EXCEPT ![r] = "waiting"]
     /\ UNCHANGED <<read_error, rflag, zeroRead, got, read_buffer>>
  \/ /\ ~Ready(c)  \* uv_read_start fails
     /\ read_waiter[c] = Nobody /\ ~read_started[c]
     /\ read_error' = [read_error EXCEPT ![c] = "start"]
     /\ Refuse(r, "setup")
     /\ UNCHANGED <<read_waiter, read_started, got, read_buffer>>

\* read_some up to its suspension.
ReadSome(r, c) ==
  /\ rpc[r] = "idle"
  /\ IsOpen(c)
  /\ at' = [at EXCEPT ![r] = c]
  /\ overlap' = IF \E q \in Readers : rpc[q] # "idle" /\ at[q] = c
                THEN overlap \union {c} ELSE overlap
  /\ IF r \in OffLoop
     THEN /\ rpc' = [rpc EXCEPT ![r] = "register"]
          /\ UNCHANGED <<read_waiter, read_started, read_error, rflag, zeroRead, got,
                         read_buffer>>
     ELSE Register(r, c)
  /\ UNCHANGED <<handleVars, peerVars, taken, eof, writeVars>>

\* The closure that await_suspend posted from another thread.
RegisterPosted(r) ==
  /\ rpc[r] = "register"
  /\ Register(r, at[r])
  /\ UNCHANGED <<handleVars, peerVars, taken, eof, overlap, writeVars, at>>

\* A posted resumption runs await_resume.
ReadResume(r) ==
  /\ rpc[r] = "resuming"
  /\ IF rflag[r] # "none"
     THEN /\ rpc' = [rpc EXCEPT ![r] = "idle"]
          /\ zeroRead' = zeroRead \ {r}
          /\ UNCHANGED <<got, read_buffer>>
     ELSE TakeResult(r, at[r])
  /\ rflag' = [rflag EXCEPT ![r] = "none"]
  /\ UNCHANGED <<handleVars, peerVars, taken, eof, read_error, waitVars, overlap,
                 writeVars, at>>

\* read_cb that keeps the waiter asleep at the end of the stream (mutant).
ReadCb_EofNoWake(c) ==
  /\ read_started[c]
  /\ \/ \E n \in (taken[c] + 1)..arrived[c] :
          /\ read_buffer' = [read_buffer EXCEPT ![c] = @ \o Span(taken[c] + 1, n)]
          /\ taken' = [taken EXCEPT ![c] = n]
          /\ WakeReader(c)
          /\ UNCHANGED <<eof, read_error, read_started>>
     \/ /\ peerEnd[c] = "fin" /\ taken[c] = arrived[c]
        /\ eof' = [eof EXCEPT ![c] = TRUE]
        /\ read_started' = [read_started EXCEPT ![c] = FALSE]
        /\ UNCHANGED <<read_buffer, taken, read_error, read_waiter, rpc>>
  /\ UNCHANGED <<handleVars, peerVars, rflag, zeroRead, got, overlap, writeVars, at>>

\* read_cb: bytes, the end of the stream, or an error.
ReadCb(c) ==
  /\ read_started[c]
  /\ \/ \E n \in (taken[c] + 1)..arrived[c] :
          /\ read_buffer' = [read_buffer EXCEPT ![c] = @ \o Span(taken[c] + 1, n)]
          /\ taken' = [taken EXCEPT ![c] = n]
          /\ UNCHANGED <<eof, read_error, read_started>>
     \/ /\ peerEnd[c] = "fin" /\ taken[c] = arrived[c]
        /\ eof' = [eof EXCEPT ![c] = TRUE]
        /\ read_started' = [read_started EXCEPT ![c] = FALSE]
        /\ UNCHANGED <<read_buffer, taken, read_error>>
     \/ /\ peerEnd[c] = "reset"
        /\ read_error' = [read_error EXCEPT ![c] = "reset"]
        /\ read_started' = [read_started EXCEPT ![c] = FALSE]
        /\ UNCHANGED <<read_buffer, taken, eof>>
  /\ WakeReader(c)
  /\ UNCHANGED <<handleVars, peerVars, rflag, zeroRead, got, overlap, writeVars, at>>

------------------------------------------------------------------------------
(***************************************************************************)
(* Writing                                                                 *)
(***************************************************************************)

\* write_all on the loop thread from its m-th byte on.  uv_try_write takes some
\* bytes and write_some is called for the rest until all are out, the socket
\* would block and the rest is queued with uv_write, or there is an error.
Push(w, c, m) ==
  IF ~IsOpen(c)
  THEN /\ wpc' = [wpc EXCEPT ![w] = "failed"]
       /\ written' = [written EXCEPT ![w] = m]
       /\ UNCHANGED <<wire, writeQ>>
  ELSE \E n \in m..WriteLen :
         /\ n > m => writeQ[c] = <<>> /\ c \notin shut
         /\ wire' = [wire EXCEPT ![c][w] = @ \o Span(m + 1, n)]
         /\ written' = [written EXCEPT ![w] = n]
         /\ \/ /\ n = WriteLen
               /\ wpc' = [wpc EXCEPT ![w] = "done"]
               /\ UNCHANGED writeQ
            \/ /\ n < WriteLen /\ c \notin shut
               /\ wpc' = [wpc EXCEPT ![w] = "waiting"]
               /\ writeQ' = [writeQ EXCEPT ![c] = Append(@, <<w, WriteLen - n>>)]
            \/ /\ n < WriteLen /\ (c \in shut \/ peerEnd[c] = "reset")
               /\ wpc' = [wpc EXCEPT ![w] = "failed"]
               /\ UNCHANGED writeQ

\* write_all, called once by each writer.
WriteAll(w, c) ==
  /\ wpc[w] = "idle"
  /\ IsOpen(c)
  /\ at' = [at EXCEPT ![w] = c]
  /\ IF w \in OffLoop
     THEN /\ wpc' = [wpc EXCEPT ![w] = "start"]
          /\ UNCHANGED <<written, wire, writeQ>>
     ELSE Push(w, c, 0)
  /\ UNCHANGED <<handleVars, peerVars, readVars, shut, result>>

\* start_on_loop in the closure that await_suspend posted; what uv_try_write
\* took is a result of its own here, since the coroutine has to be resumed.
StartPosted(w) ==
  LET c == at[w] IN
  /\ wpc[w] = "start"
  /\ \/ /\ ~Open(c) \/ c \in shut \/ peerEnd[c] = "reset"
        /\ wpc' = [wpc EXCEPT ![w] = "resuming"]
        /\ result' = [result EXCEPT ![w] = 0]
        /\ UNCHANGED <<wire, writeQ>>
     \/ /\ Open(c) /\ c \notin shut /\ writeQ[c] = <<>>
        /\ \E n \in 1..WriteLen :
             /\ wire' = [wire EXCEPT ![c][w] = @ \o Span(1, n)]
             /\ result' = [result EXCEPT ![w] = n]
        /\ wpc' = [wpc EXCEPT ![w] = "resuming"]
        /\ UNCHANGED writeQ
     \/ /\ Open(c) /\ c \notin shut
        /\ writeQ' = [writeQ EXCEPT ![c] = Append(@, <<w, WriteLen>>)]
        /\ wpc' = [wpc EXCEPT ![w] = "waiting"]
        /\ UNCHANGED <<wire, result>>
  /\ UNCHANGED <<handleVars, peerVars, readVars, shut, written, at>>

\* A posted resumption: await_resume, then write_all's loop goes on.
WriteResume(w) ==
  /\ wpc[w] = "resuming"
  /\ IF result[w] = 0
     THEN /\ wpc' = [wpc EXCEPT ![w] = "failed"]
          /\ UNCHANGED <<written, wire, writeQ>>
     ELSE IF written[w] + result[w] = WriteLen
     THEN /\ wpc' = [wpc EXCEPT ![w] = "done"]
          /\ written' = [written EXCEPT ![w] = WriteLen]
          /\ UNCHANGED <<wire, writeQ>>
     ELSE Push(w, at[w], written[w] + result[w])
  /\ UNCHANGED <<handleVars, peerVars, readVars, shut, result, at>>

\* libuv writes one more byte of the request in front.
Drain(c) ==
  /\ handle[c] = "open"
  /\ peerEnd[c] # "reset"
  /\ writeQ[c] # <<>>
  /\ LET w == Head(writeQ[c])[1]
         left == Head(writeQ[c])[2]
     IN /\ left > 0
        /\ wire' = [wire EXCEPT ![c][w] = Append(@, WriteLen - left + 1)]
        /\ writeQ' = [writeQ EXCEPT ![c][1] = <<w, left - 1>>]
  /\ UNCHANGED <<handleVars, peerVars, readVars, shut, wpc, written, result, at>>

\* on_write for the request in front: it is complete, or it fails because the
\* peer is gone or the handle is being closed.
OnWrite(c) ==
  /\ writeQ[c] # <<>>
  /\ LET w == Head(writeQ[c])[1]
         left == Head(writeQ[c])[2]
     IN /\ left = 0 \/ peerEnd[c] = "reset" \/ handle[c] = "closing"
        /\ wpc' = [wpc EXCEPT ![w] = "resuming"]
        /\ result' = [result EXCEPT ![w] = IF left = 0 THEN WriteLen - written[w] ELSE 0]
  /\ writeQ' = [writeQ EXCEPT ![c] = Tail(@)]
  /\ UNCHANGED <<handleVars, peerVars, readVars, shut, written, wire, at>>

\* shutdown_write: libuv refuses the writes that come after it.
ShutdownWrite(c) ==
  /\ c \in Active
  /\ IsOpen(c)
  /\ shut' = shut \union {c}
  /\ UNCHANGED <<handleVars, peerVars, readVars, wpc, written, result, writeQ, wire, at>>

------------------------------------------------------------------------------
(***************************************************************************)
(* Closing, and the peer                                                   *)
(***************************************************************************)

\* close_on_loop that sets no error for the reader (mutant).
CloseOnLoop_NoError(c) ==
  IF ~Open(c)
  THEN UNCHANGED <<handle, read_started, read_error, read_waiter, rpc>>
  ELSE /\ handle' = [handle EXCEPT ![c] = "closing"]
       /\ read_started' = [read_started EXCEPT ![c] = FALSE]
       /\ WakeReader(c)
       /\ UNCHANGED read_error

\* close_on_loop.
CloseOnLoop(c) ==
  IF ~Open(c)
  THEN UNCHANGED <<handle, read_started, read_error, read_waiter, rpc>>
  ELSE /\ handle' = [handle EXCEPT ![c] = "closing"]
       /\ read_started' = [read_started EXCEPT ![c] = FALSE]
       /\ read_error' = [read_error EXCEPT ![c] = IF ~eof[c] /\ @ = "none" THEN "canceled" ELSE @]
       /\ WakeReader(c)

\* close(), or the destructor, on the loop thread.
Close(c) ==
  /\ c \in owned
  /\ owned' = owned \ {c}
  /\ CloseOnLoop(c)
  /\ UNCHANGED <<closeQ, peerVars, taken, read_buffer, eof, rflag, zeroRead, got, overlap,
                 writeVars, at>>

\* close() on another thread.
CloseElsewhere(c) ==
  /\ c \in owned
  /\ owned' = owned \ {c}
  /\ closeQ' = closeQ \union {c}
  /\ UNCHANGED <<handle, peerVars, readVars, writeVars, at>>

\* The closure that request_close posted.
ClosePosted(c) ==
  /\ c \in closeQ
  /\ closeQ' = closeQ \ {c}
  /\ CloseOnLoop(c)
  /\ UNCHANGED <<owned, peerVars, taken, read_buffer, eof, rflag, zeroRead, got, overlap,
                 writeVars, at>>

\* on_close, which libuv calls after the callbacks of the queued writes.
OnClose(c) ==
  /\ handle[c] = "closing"
  /\ writeQ[c] = <<>>
  /\ handle' = [handle EXCEPT ![c] = "closed"]
  /\ UNCHANGED <<owned, closeQ, peerVars, readVars, writeVars, at>>

\* The peer sends a byte, ends its side or resets the connection.
Peer(c) ==
  /\ c \in Active
  /\ handle[c] = "open"
  /\ peerEnd[c] = "up"
  /\ \/ /\ arrived[c] < MaxBytes
        /\ arrived' = [arrived EXCEPT ![c] = @ + 1]
        /\ UNCHANGED peerEnd
     \/ /\ \E e \in {"fin", "reset"} : peerEnd' = [peerEnd EXCEPT ![c] = e]
        /\ UNCHANGED arrived
  /\ UNCHANGED <<handleVars, readVars, writeVars, at>>

StreamNext ==
  \/ \E r \in Readers : \/ \E c \in Conns : ReadSome(r, c)
                        \/ RegisterPosted(r)
                        \/ ReadResume(r)
  \/ \E w \in Writers : \/ \E c \in Conns : WriteAll(w, c)
                        \/ StartPosted(w)
                        \/ WriteResume(w)
  \/ \E c \in Conns : \/ ReadCb(c)
                      \/ Drain(c)
                      \/ OnWrite(c)
                      \/ ShutdownWrite(c)
                      \/ Close(c)
                      \/ CloseElsewhere(c)
                      \/ ClosePosted(c)
                      \/ OnClose(c)
                      \/ Peer(c)

\* The streams that accept() or connect() returned, by themselves.
StreamSpec == StreamInit("open", Conns) /\ [][StreamNext]_streamVars

------------------------------------------------------------------------------
(***************************************************************************)
(* Properties                                                              *)
(***************************************************************************)

\* The bytes that readers were given, followed by read_buffer, are the bytes
\* that libuv passed to read_cb, in order, none lost or given twice: whatever
\* sizes the readers ask for, and across errors, the end of the stream and
\* close(), after which the buffer is still served first.  What a writer put on
\* the wire is a prefix of its buffer, in order and without repetition, at least
\* as long as write_all believes, and the whole of it when write_all returns: a
\* partial uv_try_write, the queue behind it and other writers in between never
\* repeat or skip a byte.
BytesInOrder ==
  /\ \A c \in Conns : got[c] \o read_buffer[c] = Span(1, taken[c])
  /\ \A w \in Writers, c \in Conns :
       at[w] = c =>
         /\ wire[c][w] = Span(1, Len(wire[c][w]))
         /\ Len(wire[c][w]) >= written[w]
         /\ wpc[w] = "done" => Len(wire[c][w]) = WriteLen

\* A registered reader has nothing to wake up for and uv_read_start is in
\* effect: data, the end of the stream, an error or close() never leaves it
\* asleep, and neither does a registration from another thread that comes after
\* them.
NoIdleReader ==
  /\ \A c \in Conns : read_waiter[c] # Nobody => ~Ready(c) /\ read_started[c]
  /\ \A r \in Readers, c \in Conns :
       read_waiter[c] = r <=> rpc[r] = "waiting" /\ at[r] = c

\* read_some returns 0 only at the end of the stream, unless two reads of the
\* stream were in progress: then one may take the bytes another was woken for,
\* and the refusal of concurrent reads does not see it.
ZeroMeansEof ==
  \A r \in Readers :
    rpc[r] = "idle" /\ r \in zeroRead => eof[at[r]] \/ at[r] \in overlap

==============================================================================
