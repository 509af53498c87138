----------------------------- MODULE CodecStream -----------------------------
(***************************************************************************)
(* transport::CodecStream: the two ends of a connection, each with a codec *)
(* between its coroutines and its TcpStream.                               *)
(*                                                                         *)
(* Both ends live on one loop, as in tests/https_test.cpp.  A coroutine    *)
(* runs on, step by step, until it awaits a read or a write of its TCP     *)
(* stream, and only then may another one or a callback of libuv run.  One  *)
(* coroutine of an end makes the handshake and reads, the other writes and *)
(* closes the session.                                                     *)
(*                                                                         *)
(* Ciphertext is a sequence of records: a flight of the handshake, data    *)
(* with its plaintext, or close_notify.  Plaintext bytes are numbered in   *)
(* the order in which they are written.  BearSSL's engine is external.     *)
(***************************************************************************)
EXTENDS Naturals, Sequences, SequencesExt

CONSTANTS
    RecordSize,  \* plaintext bytes the engine puts into one record
    Messages,    \* what the two writers may have to write: the sizes, in order
    Flights      \* flights of the handshake; the client sends the first

ASSUME CodecAssumption ==
    /\ RecordSize \in Nat \ {0} /\ Flights \in Nat
    /\ Messages \subseteq [{"client", "server"} -> Seq(Nat \ {0})]

Ends == {"client", "server"}
Peer(e) == IF e = "client" THEN "server" ELSE "client"
Roles == {"reader", "writer"}

VARIABLES
    codec,      \* "bearssl" or "passthrough", at both ends
    engine,     \* the MemoryCodec of each end
    backlog,    \* _ciphertext_backlog, from its offset on
    loop,       \* the coroutine that runs on the loop, if one does
    task,       \* where each coroutine is
    todo,       \* messages the writer of each end has not written yet
    tcp,        \* the TcpStream of each end
    wire,       \* records on their way to each end
    written,    \* history: plaintext bytes the codec of each end has taken
    flushed,    \* history: how many of them have gone to the TCP stream
    delivered,  \* history: plaintext bytes read_some has returned
    ended,      \* history: read_some returned 0
    crossed,    \* history: a coroutine read the TCP stream beside a woken one
    quit        \* history: close_notify() began to end the session, not the peer

codecVars == <<codec, engine, backlog, loop, task, todo, tcp, wire,
              written, flushed, delivered, ended, crossed, quit>>

Resting(label) == [at |-> label, then |-> "none", got |-> <<>>, left |-> 0]

CodecInit ==
    /\ codec \in {"bearssl", "passthrough"}
    /\ engine = [e \in Ends |-> [hs |-> IF codec = "bearssl" THEN 0 ELSE Flights,
                                 inp |-> <<>>, out |-> <<>>, failed |-> FALSE,
                                 sentClose |-> FALSE, gotClose |-> FALSE]]
    /\ backlog = [e \in Ends |-> <<>>]
    /\ loop = {}
    /\ task = [e \in Ends |-> [r \in Roles |->
                 Resting(IF r = "reader" THEN "start" ELSE "off")]]
    /\ todo \in Messages
    /\ tcp = [e \in Ends |-> [open |-> TRUE, shut |-> FALSE, buf |-> <<>>,
                              waiter |-> "none", woken |-> {}]]
    /\ wire = [e \in Ends |-> <<>>]
    /\ written = [e \in Ends |-> 0] /\ flushed = [e \in Ends |-> 0]
    /\ delivered = [e \in Ends |-> <<>>]
    /\ ended = [e \in Ends |-> FALSE]
    /\ crossed = [e \in Ends |-> FALSE]
    /\ quit = [e \in Ends |-> FALSE]

----------------------------------------------------------------------------
(* The codec.  g is engine[e]. *)
Bearssl == codec = "bearssl"
MyFlight(e, g) == g.hs < Flights /\ (g.hs % 2 = 0 <=> e = "client")

plaintext_eof(g) == Bearssl /\ (g.failed \/ (g.sentClose /\ g.gotClose /\ g.out = <<>>))
wants_input(g) == Bearssl /\ ~g.failed /\ ~g.gotClose /\ g.inp = <<>>
has_pending_ciphertext(e, g) == g.out # <<>> \/ MyFlight(e, g)

\* SENDAPP: the engine takes plaintext for one record, and no other is pending.
Sendapp(g) == ~Bearssl \/ (g.hs = Flights /\ g.out = <<>> /\ ~g.sentClose)
Taken(g, n) == IF ~Sendapp(g) THEN 0
               ELSE IF Bearssl /\ n > RecordSize THEN RecordSize ELSE n
write_plaintext(g, from, n) ==
    IF Taken(g, n) = 0 THEN g
    ELSE [g EXCEPT !.out = Append(@, [type |-> "data",
                                      bytes |-> [i \in 1 .. Taken(g, n) |-> from + i]])]

\* The engine rejects a flight if bad; it drops data once it is closing, and
\* answers close_notify.
Fed(g, record, bad) ==
    CASE record.type = "flight" -> IF bad THEN [g EXCEPT !.failed = TRUE] ELSE [g EXCEPT !.hs = @ + 1]
      [] record.type = "data" -> IF g.sentClose THEN g ELSE [g EXCEPT !.inp = @ \o record.bytes]
      [] OTHER -> [g EXCEPT !.gotClose = TRUE, !.sentClose = TRUE,
                            !.out = IF g.sentClose THEN @ ELSE Append(@, record)]
feed_ciphertext(s, record, bad) ==
    IF s.rest = <<>> /\ (~Bearssl \/ wants_input(s.codec))
    THEN [s EXCEPT !.codec = Fed(@, record, bad)]
    ELSE [s EXCEPT !.rest = Append(@, record)]

\* read_ciphertext: the record it returns, and the codec after it.
NextRecord(e, g) == IF MyFlight(e, g) THEN [type |-> "flight", bytes |-> <<>>] ELSE Head(g.out)
read_ciphertext(e, g) ==
    IF MyFlight(e, g) THEN [g EXCEPT !.hs = @ + 1] ELSE [g EXCEPT !.out = Tail(@)]

start_close(g) ==
    IF ~Bearssl \/ g.sentClose THEN g
    ELSE [g EXCEPT !.sentClose = TRUE, !.inp = <<>>,
                   !.out = Append(@, [type |-> "close", bytes |-> <<>>])]

(* CodecStream::feed_ciphertext_backlog and feed_ciphertext_bytes: the codec, and
   what it did not take. *)
FeedAll(g, records, bad) ==
    FoldLeft(LAMBDA s, record : feed_ciphertext(s, record, bad),
             [codec |-> g, rest |-> <<>>], records)
feed_ciphertext_backlog(e) == FeedAll(engine[e], backlog[e], FALSE)
feed_ciphertext_bytes(e, data, bad) ==
    IF data = <<>> THEN [codec |-> engine[e], rest |-> backlog[e]]
    ELSE IF backlog[e] # <<>> THEN FeedAll(engine[e], backlog[e] \o data, bad)
    ELSE FeedAll(engine[e], data, bad)

----------------------------------------------------------------------------
(* Steps of a coroutine that runs on its loop. *)
Running(e, r, label) == loop = {<<e, r>>} /\ task[e][r].at = label
GoesTo(e, r, label) ==
    task' = [task EXCEPT ![e][r].at = label, ![e][r].got = <<>>] /\ UNCHANGED loop
Flushes(e, r, label) ==
    /\ task' = [task EXCEPT ![e][r].at = "flush", ![e][r].then = label, ![e][r].got = <<>>]
    /\ UNCHANGED loop
Suspends(e, r, label) == task' = [task EXCEPT ![e][r].at = label] /\ loop' = {}
\* A call ends; the handshake is the reader's, and the writer begins after it.
Rests(e, r, label) == task' = [task EXCEPT ![e][r] = Resting(label)] /\ loop' = {}
Returns(e, r) == Rests(e, r, "idle")
Throws(e, r) == Rests(e, r, IF task[e]["writer"].at = "off" THEN "failed" ELSE "idle")

Feeds(e, fed) ==
    /\ engine' = [engine EXCEPT ![e] = fed.codec]
    /\ backlog' = [backlog EXCEPT ![e] = fed.rest]
SamePlaintext == UNCHANGED <<written, flushed, delivered, ended>>
SameTcp == UNCHANGED <<tcp, wire, crossed>>
SameCodec == UNCHANGED <<engine, backlog>>
Apart == UNCHANGED <<codec, todo, quit>>

\* read_plaintext that does not acknowledge what it has copied (mutant).
Reads_NoAck(e, r, fed) ==
    /\ fed.codec.inp # <<>>
    /\ \E n \in 1 .. Len(fed.codec.inp) :
          delivered' = [delivered EXCEPT ![e] = @ \o SubSeq(fed.codec.inp, 1, n)]
    /\ Feeds(e, fed)
    /\ Returns(e, r) /\ UNCHANGED <<written, flushed, ended>>
\* read_plaintext, into a buffer of any size, once the codec has been fed.
Reads(e, r, fed) ==
    /\ fed.codec.inp # <<>>
    /\ \E n \in 1 .. Len(fed.codec.inp) :
          /\ Feeds(e, [fed EXCEPT !.codec.inp = SubSeq(@, n + 1, Len(@))])
          /\ delivered' = [delivered EXCEPT ![e] = @ \o SubSeq(fed.codec.inp, 1, n)]
    /\ Returns(e, r) /\ UNCHANGED <<written, flushed, ended>>
ReadsEnd(e, r, fed) ==
    /\ fed.codec.inp = <<>> /\ plaintext_eof(fed.codec)
    /\ Feeds(e, fed) /\ ended' = [ended EXCEPT ![e] = TRUE]
    /\ Returns(e, r) /\ UNCHANGED <<written, flushed, delivered>>
NothingToRead(fed) == fed.codec.inp = <<>> /\ ~plaintext_eof(fed.codec)

(* TcpStream::read_some, as net.cpp promises it: what is in the buffer, the end
   of the stream, an error for a second reader or a closed stream, or a wait. *)
Eof(e) == wire[e] = <<>> /\ (tcp[Peer(e)].shut \/ ~tcp[Peer(e)].open)
Receives(e, r, label, n) ==
    /\ task' = [task EXCEPT ![e][r].at = "got", ![e][r].then = label,
                            ![e][r].got = SubSeq(tcp[e].buf, 1, n)]
    /\ loop' = {<<e, r>>}
TcpRead(e, r, label) ==
    \/ /\ tcp[e].open /\ (tcp[e].buf # <<>> \/ Eof(e))
       /\ \E n \in 0 .. Len(tcp[e].buf) :
             /\ n = 0 => tcp[e].buf = <<>>
             /\ Receives(e, r, label, n)
             /\ tcp' = [tcp EXCEPT ![e].buf = SubSeq(@, n + 1, Len(@))]
       /\ crossed' = [crossed EXCEPT ![e] = @ \/ tcp[e].woken # {}]
    \/ /\ ~tcp[e].open \/ (tcp[e].buf = <<>> /\ ~Eof(e) /\ tcp[e].waiter # "none")
       /\ Throws(e, r) /\ UNCHANGED <<tcp, crossed>>
    \/ /\ tcp[e].open /\ tcp[e].buf = <<>> /\ ~Eof(e) /\ tcp[e].waiter = "none"
       /\ task' = [task EXCEPT ![e][r].at = "recv", ![e][r].then = label]
       /\ loop' = {}
       /\ tcp' = [tcp EXCEPT ![e].waiter = r] /\ UNCHANGED crossed

\* The waiter is resumed by a closure its loop runs later.
Woken(t) == [t EXCEPT !.woken = IF t.waiter = "none" THEN @ ELSE @ \cup {t.waiter},
                      !.waiter = "none"]
TcpArrives(e) ==
    /\ loop = {} /\ tcp[e].open /\ wire[e] # <<>>
    /\ tcp' = [tcp EXCEPT ![e] = Woken([@ EXCEPT !.buf = Append(@, Head(wire[e]))])]
    /\ wire' = [wire EXCEPT ![e] = Tail(@)]
    /\ SameCodec /\ SamePlaintext /\ Apart /\ UNCHANGED <<loop, task, crossed>>
TcpEof(e) ==
    /\ loop = {} /\ tcp[e].open /\ Eof(e) /\ tcp[e].waiter # "none"
    /\ tcp' = [tcp EXCEPT ![e] = Woken(@)]
    /\ SameCodec /\ SamePlaintext /\ Apart /\ UNCHANGED <<loop, task, wire, crossed>>
TcpResumes(e, r) ==
    /\ loop = {} /\ r \in tcp[e].woken /\ task[e][r].at = "recv"
    /\ \/ /\ tcp[e].buf = <<>> /\ ~tcp[e].open
          /\ tcp' = [tcp EXCEPT ![e].woken = @ \ {r}]
          /\ Throws(e, r)
       \/ \E n \in 0 .. Len(tcp[e].buf) :
             /\ n = 0 => tcp[e].buf = <<>> /\ tcp[e].open
             /\ Receives(e, r, task[e][r].then, n)
             /\ tcp' = [tcp EXCEPT ![e].woken = @ \ {r}, ![e].buf = SubSeq(@, n + 1, Len(@))]
    /\ SameCodec /\ SamePlaintext /\ Apart /\ UNCHANGED <<wire, crossed>>

----------------------------------------------------------------------------
(* CodecStream::flush_ciphertext: one record after the other goes to
   TcpStream::write_all, which completes at once, later, or with an error. *)
Flushed(e, r, label) ==
    /\ Running(e, r, "flush") /\ ~has_pending_ciphertext(e, engine[e])
    /\ task[e][r].then = label
FlushWrites(e, r) ==
    /\ Running(e, r, "flush") /\ has_pending_ciphertext(e, engine[e])
    /\ engine' = [engine EXCEPT ![e] = read_ciphertext(e, @)]
    /\ \/ /\ tcp[e].open /\ ~tcp[e].shut
          /\ wire' = IF tcp[Peer(e)].open
                     THEN [wire EXCEPT ![Peer(e)] = Append(@, NextRecord(e, engine[e]))]
                     ELSE wire
          /\ flushed' = [flushed EXCEPT ![e] = @ + Len(NextRecord(e, engine[e]).bytes)]
          /\ GoesTo(e, r, "flush") \/ Suspends(e, r, "sending")
       \/ /\ ~tcp[e].open \/ tcp[e].shut \/ ~tcp[Peer(e)].open
          /\ Throws(e, r) /\ UNCHANGED <<wire, flushed>>
    /\ Apart /\ UNCHANGED <<backlog, tcp, crossed, written, delivered, ended>>
FlushResumes(e, r) ==
    /\ loop = {} /\ task[e][r].at = "sending"
    /\ \/ /\ tcp[e].open
          /\ task' = [task EXCEPT ![e][r].at = "flush"]
          /\ loop' = {<<e, r>>}
       \/ (~tcp[e].open \/ ~tcp[Peer(e)].open) /\ Throws(e, r)
    /\ SameCodec /\ SameTcp /\ SamePlaintext /\ Apart

(* CodecStream::run_handshake. *)
HandshakeStarts(e) ==
    /\ loop = {} /\ task[e]["reader"].at = "start"
    /\ task' = [task EXCEPT ![e]["reader"].at = "handshake"]
    /\ loop' = {<<e, "reader">>}
    /\ SameCodec /\ SameTcp /\ SamePlaintext /\ Apart
\* The handshake reads before it has flushed its own flight (mutant).
HandshakeLoops_NoFlush(e) ==
    /\ Running(e, "reader", "handshake")
    /\ IF engine[e].hs = Flights
       THEN Flushes(e, "reader", "handshakeEnd") /\ UNCHANGED <<tcp, crossed>>
       ELSE TcpRead(e, "reader", "handshake")
    /\ SameCodec /\ SamePlaintext /\ Apart /\ UNCHANGED wire
HandshakeLoops(e) ==
    /\ Running(e, "reader", "handshake")
    /\ Flushes(e, "reader", IF engine[e].hs = Flights THEN "handshakeEnd" ELSE "handshakeFlushed")
    /\ SameCodec /\ SameTcp /\ SamePlaintext /\ Apart
HandshakeFlushed(e) ==
    LET fed == feed_ciphertext_backlog(e) IN
    /\ Flushed(e, "reader", "handshakeFlushed")
    /\ Feeds(e, fed)
    /\ \/ fed.codec.hs = Flights /\ Flushes(e, "reader", "handshakeEnd") /\ SameTcp
       \/ /\ fed.codec.hs < Flights /\ ~wants_input(fed.codec) /\ SameTcp
          /\ IF has_pending_ciphertext(e, fed.codec)
             THEN GoesTo(e, "reader", "handshake") ELSE Throws(e, "reader")
       \/ /\ fed.codec.hs < Flights /\ wants_input(fed.codec)
          /\ TcpRead(e, "reader", "handshake") /\ UNCHANGED wire
    /\ SamePlaintext /\ Apart
\* handshake_timeout: the read that is given up stays registered.
HandshakeTimesOut(e) ==
    /\ loop = {} /\ task[e]["reader"].at = "recv" /\ task[e]["writer"].at = "off"
    /\ Throws(e, "reader")
    /\ SameCodec /\ SameTcp /\ SamePlaintext /\ Apart
HandshakeReceived(e) ==
    /\ Running(e, "reader", "got") /\ task[e]["reader"].then = "handshake"
    /\ \E bad \in BOOLEAN :
          LET fed == feed_ciphertext_bytes(e, task[e]["reader"].got, bad) IN
          /\ Feeds(e, fed)
          /\ IF task[e]["reader"].got = <<>> \/ fed.codec.failed
             THEN Throws(e, "reader") ELSE GoesTo(e, "reader", "handshake")
    /\ SameTcp /\ SamePlaintext /\ Apart
HandshakeEnds(e) ==
    /\ Flushed(e, "reader", "handshakeEnd")
    /\ Feeds(e, feed_ciphertext_backlog(e))
    /\ task' = [task EXCEPT ![e] = [r \in Roles |-> Resting("idle")]]
    /\ loop' = {}
    /\ SameTcp /\ SamePlaintext /\ Apart

(* CodecStream::read_some. *)
CodecReadSome(e) ==
    LET fed == feed_ciphertext_backlog(e) IN
    /\ loop = {} /\ task[e]["reader"].at = "idle" /\ tcp[e].open
    /\ \/ Reads(e, "reader", fed)
       \/ ReadsEnd(e, "reader", fed)
       \/ /\ NothingToRead(fed) /\ Feeds(e, fed) /\ SamePlaintext
          /\ task' = [task EXCEPT ![e]["reader"].at = "flush", ![e]["reader"].then = "readFlushed"]
          /\ loop' = {<<e, "reader">>}
    /\ SameTcp /\ Apart
ReadFlushed(e) ==
    LET fed == feed_ciphertext_backlog(e) IN
    /\ Flushed(e, "reader", "readFlushed")
    /\ \/ (Reads(e, "reader", fed) \/ ReadsEnd(e, "reader", fed)) /\ SameTcp
       \/ /\ NothingToRead(fed) /\ Feeds(e, fed) /\ SamePlaintext
          /\ IF fed.rest # <<>> THEN Throws(e, "reader") /\ SameTcp
             ELSE TcpRead(e, "reader", "read") /\ UNCHANGED wire
    /\ Apart
ReadReceived(e) ==
    LET got == task[e]["reader"].got
        fed == feed_ciphertext_bytes(e, got, FALSE)
    IN
    /\ Running(e, "reader", "got") /\ task[e]["reader"].then = "read"
    /\ \/ /\ got = <<>> /\ Returns(e, "reader") /\ SameCodec
          /\ ended' = [ended EXCEPT ![e] = TRUE] /\ UNCHANGED <<written, flushed, delivered>>
       \/ got # <<>> /\ (Reads(e, "reader", fed) \/ ReadsEnd(e, "reader", fed))
       \/ /\ got # <<>> /\ NothingToRead(fed) /\ Feeds(e, fed) /\ SamePlaintext
          /\ Flushes(e, "reader", "readFlushed")
    /\ SameTcp /\ Apart

(* CodecStream::write_all. *)
CodecWriteAll(e) ==
    /\ loop = {} /\ task[e]["writer"].at = "idle" /\ tcp[e].open /\ todo[e] # <<>>
    /\ task' = [task EXCEPT ![e]["writer"].at = "write", ![e]["writer"].left = Head(todo[e])]
    /\ loop' = {<<e, "writer">>}
    /\ todo' = [todo EXCEPT ![e] = Tail(@)]
    /\ SameCodec /\ SameTcp /\ SamePlaintext /\ UNCHANGED <<codec, quit>>
WriteTakes(e) ==
    LET fed == feed_ciphertext_backlog(e)
        left == task[e]["writer"].left
        taken == Taken(fed.codec, left)
    IN
    /\ Running(e, "writer", "write")
    /\ Feeds(e, [fed EXCEPT !.codec = write_plaintext(@, written[e], left)])
    /\ written' = [written EXCEPT ![e] = @ + taken]
    /\ task' = [task EXCEPT ![e]["writer"].at = "flush", ![e]["writer"].then = "writeFlushed",
                            ![e]["writer"].left = @ - taken]
    /\ SameTcp /\ Apart /\ UNCHANGED <<loop, flushed, delivered, ended>>
WriteFlushed(e) ==
    LET fed == feed_ciphertext_backlog(e) IN
    /\ Flushed(e, "writer", "writeFlushed")
    /\ Feeds(e, fed)
    /\ \/ task[e]["writer"].left = 0 /\ Flushes(e, "writer", "return") /\ SameTcp
       \/ /\ task[e]["writer"].left > 0 /\ SameTcp
          /\ plaintext_eof(fed.codec) \/ ~wants_input(fed.codec) \/ fed.rest # <<>>
          /\ IF ~plaintext_eof(fed.codec) /\ ~wants_input(fed.codec)
                /\ has_pending_ciphertext(e, fed.codec)
             THEN GoesTo(e, "writer", "write") ELSE Throws(e, "writer")
       \/ /\ task[e]["writer"].left > 0 /\ wants_input(fed.codec) /\ fed.rest = <<>>
          /\ TcpRead(e, "writer", "write") /\ UNCHANGED wire
    /\ SamePlaintext /\ Apart
WriteReceived(e) ==
    /\ Running(e, "writer", "got") /\ task[e]["writer"].then = "write"
    /\ Feeds(e, feed_ciphertext_bytes(e, task[e]["writer"].got, FALSE))
    /\ IF task[e]["writer"].got = <<>> THEN Throws(e, "writer") ELSE GoesTo(e, "writer", "write")
    /\ SameTcp /\ SamePlaintext /\ Apart

(* CodecStream::close_notify. *)
close_notify(e) ==
    /\ loop = {} /\ task[e]["writer"].at = "idle" /\ tcp[e].open
    /\ engine' = [engine EXCEPT ![e] = start_close(@)]
    /\ task' = [task EXCEPT ![e]["writer"].at = "flush", ![e]["writer"].then = "shutdown"]
    /\ loop' = {<<e, "writer">>}
    /\ quit' = [quit EXCEPT ![e] = @ \/ (Bearssl /\ ~engine[e].sentClose)]
    /\ SameTcp /\ SamePlaintext /\ UNCHANGED <<backlog, codec, todo>>
\* What is left of close_notify, and of write_all, after the last flush.
CallEnds(e) ==
    /\ \/ Flushed(e, "writer", "shutdown") /\ tcp' = [tcp EXCEPT ![e].shut = TRUE]
       \/ Flushed(e, "writer", "return") /\ UNCHANGED tcp
    /\ Returns(e, "writer")
    /\ SameCodec /\ SamePlaintext /\ Apart /\ UNCHANGED <<wire, crossed>>

(* CodecStream::shutdown_write and close, by whoever runs on the loop while the
   two wait. *)
shutdown_write(e) ==
    /\ loop = {} /\ tcp[e].open /\ ~tcp[e].shut
    /\ tcp' = [tcp EXCEPT ![e].shut = TRUE]
    /\ SameCodec /\ SamePlaintext /\ Apart /\ UNCHANGED <<loop, task, wire, crossed>>
CodecClose(e) ==
    /\ loop = {} /\ tcp[e].open
    /\ tcp' = [tcp EXCEPT ![e] = Woken([@ EXCEPT !.open = FALSE])]
    /\ wire' = [wire EXCEPT ![e] = <<>>]
    /\ SameCodec /\ SamePlaintext /\ Apart /\ UNCHANGED <<loop, task, crossed>>

CodecNext ==
    \E e \in Ends :
        \/ TcpArrives(e) \/ TcpEof(e)
        \/ \E r \in Roles : TcpResumes(e, r) \/ FlushWrites(e, r) \/ FlushResumes(e, r)
        \/ HandshakeStarts(e) \/ HandshakeLoops(e) \/ HandshakeFlushed(e) \/ HandshakeTimesOut(e)
        \/ HandshakeReceived(e) \/ HandshakeEnds(e)
        \/ CodecReadSome(e) \/ ReadFlushed(e) \/ ReadReceived(e)
        \/ CodecWriteAll(e) \/ WriteTakes(e) \/ WriteFlushed(e) \/ WriteReceived(e)
        \/ close_notify(e) \/ CallEnds(e) \/ shutdown_write(e) \/ CodecClose(e)

----------------------------------------------------------------------------
(* read_some returns what the peer's write_all wrote, in order and once; and it
   returns 0 only when the peer has ended its side, and after everything the
   peer sent: with a TLS session that the peer's close_notify ends, and with a TCP
   stream that it shuts down.  Excepted are a peer that closed its TCP stream, ends
   that began to end the session themselves, whose codec drops what arrives, and
   those on which the writer read the TCP stream beside a woken reader.  An end
   that only answered the peer's close_notify is not excepted. *)
PlaintextInOrder ==
    \A e \in Ends :
        /\ Len(delivered[e]) <= written[Peer(e)]
        /\ \A i \in DOMAIN delivered[e] : delivered[e][i] = i
        /\ ended[e] /\ ~crossed[e] =>
              \/ ~tcp[Peer(e)].open \/ quit[e]
              \/ /\ tcp[Peer(e)].shut \/ engine[Peer(e)].sentClose
                 /\ Len(delivered[e]) = flushed[Peer(e)]

(* Nobody sleeps beside what it waits for: a reader that waits for the TCP
   stream has neither plaintext nor an end to return and has left no ciphertext
   behind, and the two ends never both wait for the other's flight. *)
NoIdleCodec ==
    /\ \A e \in Ends :
          tcp[e].waiter = "reader" /\ tcp[e].open /\ loop = {} /\ task[e]["reader"].at = "recv" =>
             /\ engine[e].inp = <<>> /\ backlog[e] = <<>> /\ ~plaintext_eof(engine[e])
             /\ has_pending_ciphertext(e, engine[e]) => task[e]["writer"].at = "sending"
    /\ (\A e \in Ends : task[e]["writer"].at = "off" /\ task[e]["reader"].at = "recv") =>
          \E e \in Ends : wire[e] # <<>> \/ tcp[e].woken # {} \/ ~tcp[e].open

(* write_all does not wait for bytes of the peer while its codec takes plaintext. *)
WriteNeedsNoAnswer ==
    \A e \in Ends : task[e]["writer"].at = "recv" => ~Sendapp(engine[e])
=============================================================================
