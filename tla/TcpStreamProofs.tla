--------------------------- MODULE TcpStreamProofs ---------------------------
(***************************************************************************)
(* Proofs about TcpStream: the bytes of both directions, the registered    *)
(* reader and the meaning of a read of 0, for any sets of connections,     *)
(* readers and writers and any bounds.                                     *)
(***************************************************************************)
EXTENDS TcpStream, Integers, TLAPS

PeerTypes ==
    /\ handle \in [Conns -> {"none", "connecting", "open", "closing", "closed"}]
    /\ owned \in SUBSET Conns
    /\ closeQ \in SUBSET Conns
    /\ arrived \in [Conns -> 0 .. MaxBytes]
    /\ peerEnd \in [Conns -> {"up", "fin", "reset"}]
    /\ at \in [Readers \union Writers -> Conns \union {Nobody}]
ReadTypes ==
    /\ taken \in [Conns -> 0 .. MaxBytes]
    /\ read_buffer \in [Conns -> Seq(1 .. MaxBytes)]
    /\ read_waiter \in [Conns -> Readers \union {Nobody}]
    /\ read_error \in [Conns -> {"none", "canceled", "reset", "start"}]
    /\ read_started \in [Conns -> BOOLEAN]
    /\ eof \in [Conns -> BOOLEAN]
    /\ rpc \in [Readers -> {"idle", "register", "waiting", "resuming"}]
    /\ rflag \in [Readers -> {"none", "concurrent", "setup"}]
    /\ zeroRead \in SUBSET Readers
    /\ got \in [Conns -> Seq(1 .. MaxBytes)]
    /\ overlap \in SUBSET Conns
WriteTypes ==
    /\ shut \in SUBSET Conns
    /\ wpc \in [Writers -> {"idle", "start", "waiting", "resuming", "done", "failed"}]
    /\ written \in [Writers -> 0 .. WriteLen]
    /\ result \in [Writers -> 0 .. WriteLen]
    /\ writeQ \in [Conns -> Seq(Writers \X (0 .. WriteLen))]
    /\ wire \in [Conns -> [Writers -> Seq(1 .. WriteLen)]]

\* There is something for await_resume to return.
Something(c) == read_buffer[c] # <<>> \/ eof[c] \/ read_error[c] # "none"

\* The bytes given away and those in the buffer are those that libuv delivered.
ReadBytes(c) ==
    /\ taken[c] <= arrived[c]
    /\ got[c] \o read_buffer[c] = Span(1, taken[c])

\* A closed stream has an error or the end of the stream for its reader.
ClosedIsSeen(c) == Open(c) \/ eof[c] \/ read_error[c] # "none"

\* Where a reader is, its stream is known; two of them on one stream are noticed;
\* a reader that is resumed without a flag finds something, unless another one was
\* there to take it; and a result of 0 was the end of the stream.
AtWork(r) == rpc[r] # "idle" \/ r \in zeroRead => at[r] \in Conns
Noticed(r, s) ==
    r # s /\ rpc[r] # "idle" /\ rpc[s] # "idle" /\ at[r] = at[s] => at[r] \in overlap
Finds(r) ==
    rpc[r] = "resuming" /\ rflag[r] = "none" => at[r] \in overlap \/ Something(at[r])
ZeroIsEof(r) == rpc[r] = "idle" /\ r \in zeroRead => eof[at[r]] \/ at[r] \in overlap

ReadInv ==
    /\ ReadTypes
    /\ NoIdleReader
    /\ \A c \in Conns : ReadBytes(c) /\ ClosedIsSeen(c)
    /\ \A r \in Readers : AtWork(r) /\ Finds(r) /\ ZeroIsEof(r)
    /\ \A r, s \in Readers : Noticed(r, s)

\* How many bytes of a writer are on the wire, where it is in write_all; a request
\* in libuv's queue is for the bytes that are not.
Sent(w) ==
    /\ \A c \in Conns : wire[c][w] = Span(1, Len(wire[c][w]))
    /\ \A c \in Conns : at[w] # c => wire[c][w] = <<>>
    /\ wpc[w] = "idle" => at[w] = Nobody /\ written[w] = 0
    /\ wpc[w] # "idle" => at[w] \in Conns
    /\ at[w] \in Conns =>
         /\ Len(wire[at[w]][w]) <= WriteLen
         /\ Len(wire[at[w]][w]) >= written[w]
         /\ wpc[w] = "start" => Len(wire[at[w]][w]) = 0 /\ written[w] = 0
         /\ wpc[w] = "resuming" /\ result[w] # 0 => Len(wire[at[w]][w]) = written[w] + result[w]
         /\ wpc[w] = "done" => Len(wire[at[w]][w]) = WriteLen
Request(c, w, left) == wpc[w] = "waiting" /\ at[w] = c /\ Len(wire[c][w]) = WriteLen - left
Queued(c) ==
    /\ \A i \in 1 .. Len(writeQ[c]) :
         Request(c, writeQ[c][i][1], writeQ[c][i][2])
    /\ \A i, j \in 1 .. Len(writeQ[c]) : writeQ[c][i][1] = writeQ[c][j][1] => i = j

WriteInv ==
    /\ WriteTypes
    /\ \A w \in Writers : Sent(w)
    /\ \A c \in Conns : Queued(c)

StreamInv == PeerTypes /\ ReadInv /\ WriteInv

----------------------------------------------------------------------------
(* Sequences of bytes. *)
LEMMA SpanSeq ==
    ASSUME NEW a \in Nat \ {0}, NEW b \in Nat, a <= b + 1, NEW m \in Nat, b <= m
    PROVE  Span(a, b) \in Seq(1 .. m) /\ Len(Span(a, b)) = b + 1 - a
<1>1. b + 1 - a \in Nat
  OBVIOUS
<1>2. \A i \in 1 .. (b + 1 - a) : a + i - 1 \in 1 .. m
  OBVIOUS
<1>3. Span(a, b) \in [1 .. (b + 1 - a) -> 1 .. m]
  BY <1>2, Zenon DEF Span
<1>4. Span(a, b) \in Seq(1 .. m)
  BY <1>1, <1>3
<1> QED BY <1>1, <1>3, <1>4

LEMMA SpanEmpty == Span(1, 0) = <<>>
<1>1. Span(1, 0) \in Seq(1 .. 0) /\ Len(Span(1, 0)) = 0
  BY SpanSeq
<1> QED BY <1>1

LEMMA SpanJoin ==
    ASSUME NEW m \in Nat, NEW n \in Nat, m <= n
    PROVE  Span(1, m) \o Span(m + 1, n) = Span(1, n)
<1>1. /\ Span(1, m) \in Seq(1 .. n) /\ Len(Span(1, m)) = m
      /\ Span(m + 1, n) \in Seq(1 .. n) /\ Len(Span(m + 1, n)) = n - m
      /\ Span(1, n) \in Seq(1 .. n) /\ Len(Span(1, n)) = n
  <2>1. Span(1, m) \in Seq(1 .. n) /\ Len(Span(1, m)) = m + 1 - 1
    BY SpanSeq
  <2>2. m + 1 \in Nat \ {0} /\ m + 1 <= n + 1 /\ n <= n
    OBVIOUS
  <2>3. Span(m + 1, n) \in Seq(1 .. n) /\ Len(Span(m + 1, n)) = n + 1 - (m + 1)
    BY <2>2, SpanSeq, Zenon
  <2>4. Span(1, n) \in Seq(1 .. n) /\ Len(Span(1, n)) = n + 1 - 1
    BY SpanSeq
  <2> QED BY <2>1, <2>3, <2>4
<1> DEFINE j == Span(1, m) \o Span(m + 1, n)
<1>2. /\ j \in Seq(1 .. n) /\ Len(j) = n
      /\ \A i \in 1 .. n : j[i] = IF i <= m THEN Span(1, m)[i] ELSE Span(m + 1, n)[i - m]
  <2>1. /\ j \in Seq(1 .. n) /\ Len(j) = Len(Span(1, m)) + Len(Span(m + 1, n))
        /\ \A i \in 1 .. Len(Span(1, m)) + Len(Span(m + 1, n)) : j[i] =
              IF i <= Len(Span(1, m)) THEN Span(1, m)[i] ELSE Span(m + 1, n)[i - Len(Span(1, m))]
    BY <1>1
  <2>2. Len(Span(1, m)) = m /\ Len(Span(1, m)) + Len(Span(m + 1, n)) = n
    BY <1>1
  <2> HIDE DEF j
  <2> QED BY <2>1, <2>2, Zenon
<1> HIDE DEF j
<1>3. ASSUME NEW i \in 1 .. n PROVE j[i] = i /\ Span(1, n)[i] = i
  <2>1. Span(1, n)[i] = i
    BY DEF Span
  <2>2. CASE i <= m
    <3>1. j[i] = Span(1, m)[i]
      BY <1>2, <2>2, Zenon
    <3> QED BY <2>1, <2>2, <3>1 DEF Span
  <2>3. CASE i > m
    <3>1. j[i] = Span(m + 1, n)[i - m]
      BY <1>2, <2>3
    <3>2. Span(m + 1, n)[i - m] = i
      BY <2>3 DEF Span
    <3> QED BY <2>1, <3>1, <3>2, Zenon
  <2> QED BY <2>1, <2>2, <2>3
<1>4. j = Span(1, n)
  BY <1>1, <1>2, <1>3
<1> QED BY <1>4, Zenon DEF j

LEMMA SpanAppend ==
    ASSUME NEW m \in Nat PROVE Append(Span(1, m), m + 1) = Span(1, m + 1)
<1>1. Span(m + 1, m + 1) = <<m + 1>>
  BY DEF Span
<1>2. Span(1, m) \in Seq(1 .. m + 1)
  BY SpanSeq
<1>3. Append(Span(1, m), m + 1) = Span(1, m) \o <<m + 1>>
  BY <1>2
<1>4. m + 1 \in Nat /\ m <= m + 1
  OBVIOUS
<1>5. Span(1, m) \o Span(m + 1, m + 1) = Span(1, m + 1)
  BY <1>4, SpanJoin, Zenon
<1> QED BY <1>1, <1>3, <1>5, Zenon

\* b is x followed by y.
Splits(b, x, y) ==
    /\ Len(b) = Len(x) + Len(y)
    /\ \A i \in 1 .. Len(b) : b[i] = IF i <= Len(x) THEN x[i] ELSE y[i - Len(x)]

(* Two sequences of one length with the same elements are one. *)
LEMMA SameSeq ==
    ASSUME NEW S, NEW a \in Seq(S), NEW b \in Seq(S), Len(a) = Len(b),
           \A i \in 1 .. Len(a) : a[i] = b[i]
    PROVE  a = b
OBVIOUS

\* Two and three sequences in a row.
Row2(g, b) == g \o b
Row3(g, x, y) == (g \o x) \o y

LEMMA Glue ==
    ASSUME NEW S, NEW g \in Seq(S), NEW b \in Seq(S), NEW x \in Seq(S), NEW y \in Seq(S),
           Splits(b, x, y)
    PROVE  Row3(g, x, y) = Row2(g, b)
<1> DEFINE u == g \o x
           v == u \o y
           d == g \o b
<1>0. Len(g) \in Nat /\ Len(b) \in Nat /\ Len(x) \in Nat /\ Len(y) \in Nat
  OBVIOUS
<1>3. /\ u \in Seq(S) /\ Len(u) = Len(g) + Len(x)
      /\ \A i \in 1 .. Len(g) + Len(x) : u[i] = IF i <= Len(g) THEN g[i] ELSE x[i - Len(g)]
  OBVIOUS
<1> HIDE DEF u
<1>u. u \in Seq(S)
  BY <1>3, Zenon
<1>4. /\ v \in Seq(S) /\ Len(v) = Len(u) + Len(y)
      /\ \A i \in 1 .. Len(u) + Len(y) : v[i] = IF i <= Len(u) THEN u[i] ELSE y[i - Len(u)]
  BY <1>u
<1>5. /\ d \in Seq(S) /\ Len(d) = Len(g) + Len(b)
      /\ \A i \in 1 .. Len(g) + Len(b) : d[i] = IF i <= Len(g) THEN g[i] ELSE b[i - Len(g)]
  OBVIOUS
<1> HIDE DEF v, d
<1>6. v = d
  <2> USE DEF Splits
  <2>1. Len(v) = Len(d) /\ Len(v) = Len(g) + Len(x) + Len(y)
    BY <1>0, <1>3, <1>4, <1>5
  <2>2. ASSUME NEW i \in 1 .. Len(v) PROVE v[i] = d[i]
    <3>1. CASE i <= Len(g)
      <4>1. v[i] = g[i]
        BY <1>0, <1>3, <1>4, <2>1, <3>1
      <4>2. d[i] = g[i]
        BY <1>0, <1>5, <2>1, <3>1, Zenon
      <4> QED BY <4>1, <4>2, Zenon
    <3>2. CASE i > Len(g) /\ i <= Len(g) + Len(x)
      <4>1. v[i] = x[i - Len(g)]
        BY <1>0, <1>3, <1>4, <2>1, <3>2
      <4>2. d[i] = b[i - Len(g)] /\ i - Len(g) \in 1 .. Len(b) /\ i - Len(g) <= Len(x)
        BY <1>0, <1>5, <2>1, <3>2
      <4> QED BY <4>1, <4>2, Zenon
    <3>3. CASE i > Len(g) + Len(x)
      <4>1. v[i] = y[i - Len(g) - Len(x)]
        BY <1>0, <1>3, <1>4, <2>1, <3>3
      <4>2. d[i] = b[i - Len(g)] /\ i - Len(g) \in 1 .. Len(b) /\ ~(i - Len(g) <= Len(x))
        BY <1>0, <1>5, <2>1, <3>3
      <4> QED BY <4>1, <4>2, Zenon
    <3> QED BY <1>0, <3>1, <3>2, <3>3
  <2> QED BY <1>4, <1>5, <2>1, <2>2, SameSeq, Zenon
<1> QED BY <1>6, Zenon DEF v, d, u, Row2, Row3

Regroups(S, g, x, y) ==
    /\ Row2(x, y) \in Seq(S) /\ Len(Row2(x, y)) = Len(x) + Len(y)
    /\ Row3(g, x, y) = Row2(g, Row2(x, y))

LEMMA Associative ==
    ASSUME NEW S, NEW g \in Seq(S), NEW x \in Seq(S), NEW y \in Seq(S)
    PROVE  Regroups(S, g, x, y)
<1> DEFINE b == x \o y
<1>1. /\ b \in Seq(S) /\ Len(b) = Len(x) + Len(y)
      /\ \A i \in 1 .. Len(x) + Len(y) : b[i] = IF i <= Len(x) THEN x[i] ELSE y[i - Len(x)]
  OBVIOUS
<1> HIDE DEF b
<1>2. b \in Seq(S) /\ Splits(b, x, y)
  BY <1>1, Zenon DEF Splits
<1>3. b \in Seq(S)
  BY <1>2, Zenon
<1>4. Splits(b, x, y)
  BY <1>2, Zenon
<1>5. Row3(g, x, y) = Row2(g, b)
  BY <1>3, <1>4, Glue
<1> QED BY <1>1, <1>5, Zenon DEF b, Row2, Row3, Regroups

LEMMA Cut ==
    ASSUME NEW S, NEW b \in Seq(S), NEW n \in 0 .. Len(b)
    PROVE  LET x == SubSeq(b, 1, n)
               y == SubSeq(b, n + 1, Len(b))
           IN /\ x \in Seq(S) /\ y \in Seq(S) /\ Splits(b, x, y)
<1> DEFINE x == SubSeq(b, 1, n)
           y == SubSeq(b, n + 1, Len(b))
<1>0. Len(b) \in Nat /\ \A i \in 1 .. Len(b) : b[i] \in S
  OBVIOUS
<1>1. x \in Seq(S) /\ Len(x) = n /\ \A i \in 1 .. n : x[i] = b[i]
  BY <1>0
<1>2. y \in Seq(S) /\ Len(y) = Len(b) - n /\ \A i \in 1 .. Len(b) - n : y[i] = b[n + i]
  BY <1>0
<1> HIDE DEF x, y
<1>3. ASSUME NEW i \in 1 .. Len(b) PROVE b[i] = IF i <= Len(x) THEN x[i] ELSE y[i - Len(x)]
  <2>1. CASE i <= n
    BY <1>0, <1>1, <2>1
  <2>2. CASE i > n
    <3>1. i - n \in 1 .. Len(b) - n
      BY <1>0, <2>2
    <3> QED BY <1>0, <1>1, <1>2, <2>2, <3>1
  <2> QED BY <1>0, <2>1, <2>2
<1>4. Len(b) = Len(x) + Len(y)
  BY <1>0, <1>1, <1>2
<1> QED BY <1>1, <1>2, <1>3, <1>4, Zenon DEF x, y, Splits

LEMMA StreamInitInv == StreamInit("open", Conns) => StreamInv
<1> SUFFICES ASSUME StreamInit("open", Conns) PROVE StreamInv
  BY Zenon
<1> USE StreamAssumption
<1>1. PeerTypes /\ ReadTypes /\ WriteTypes
  BY DEF StreamInit, PeerTypes, ReadTypes, WriteTypes
<1>2. NoIdleReader
  BY Zenon DEF StreamInit, NoIdleReader
<1>3. ASSUME NEW c \in Conns PROVE ReadBytes(c) /\ ClosedIsSeen(c)
  <2>1. /\ taken[c] = 0 /\ arrived[c] = 0 /\ got[c] = <<>> /\ read_buffer[c] = <<>>
        /\ handle[c] = "open"
    BY Zenon DEF StreamInit
  <2>2. <<>> \o <<>> = <<>>
    OBVIOUS
  <2> QED BY <2>1, <2>2, SpanEmpty DEF ReadBytes, ClosedIsSeen, Open
<1>4. /\ \A r \in Readers : AtWork(r) /\ Finds(r) /\ ZeroIsEof(r)
      /\ \A r, s \in Readers : Noticed(r, s)
  BY Zenon DEF StreamInit, AtWork, Finds, ZeroIsEof, Noticed
<1>5. \A w \in Writers : Sent(w)
  BY SpanEmpty, Zenon DEF StreamInit, Sent
<1>6. ASSUME NEW c \in Conns PROVE Queued(c)
  <2>1. Len(writeQ[c]) = 0
    BY Zenon DEF StreamInit
  <2> QED BY <2>1 DEF Queued
<1> QED BY <1>1, <1>2, <1>3, <1>4, <1>5, <1>6, Zenon DEF StreamInv, ReadInv, WriteInv

----------------------------------------------------------------------------
(* What one direction does leaves the other as it is. *)
LEMMA ReadFrame ==
    ASSUME ReadInv, readVars' = readVars, handle' = handle, arrived' = arrived,
           \A r \in Readers : at'[r] = at[r]
    PROVE  ReadInv'
<1> USE DEF readVars, bufferVars, waitVars, readerVars
<1>1. ReadTypes'
  BY Zenon DEF ReadInv, ReadTypes
<1>2. NoIdleReader'
  BY DEF ReadInv, NoIdleReader, Ready, Open
<1>3. \A c \in Conns : ReadBytes(c)' /\ ClosedIsSeen(c)'
  BY Zenon DEF ReadInv, ReadBytes, ClosedIsSeen, Open
<1>4. \A r \in Readers : AtWork(r)' /\ Finds(r)' /\ ZeroIsEof(r)'
  BY Zenon DEF ReadInv, AtWork, Finds, Something, ZeroIsEof
<1>5. \A r, s \in Readers : Noticed(r, s)'
  BY Zenon DEF ReadInv, Noticed
<1> QED BY <1>1, <1>2, <1>3, <1>4, <1>5, Zenon DEF ReadInv

LEMMA OpenFrame ==
    ASSUME ReadInv, readVars' = readVars, arrived' = arrived, at' = at,
           \A c \in Conns : Open(c)' <=> Open(c)
    PROVE  ReadInv'
<1> USE DEF readVars, bufferVars, waitVars, readerVars
<1>1. ReadTypes'
  BY Zenon DEF ReadInv, ReadTypes
<1>2. NoIdleReader'
  BY DEF ReadInv, NoIdleReader, Ready
<1>3. \A c \in Conns : ReadBytes(c)' /\ ClosedIsSeen(c)'
  BY Zenon DEF ReadInv, ReadBytes, ClosedIsSeen
<1>4. \A r \in Readers : AtWork(r)' /\ Finds(r)' /\ ZeroIsEof(r)'
  BY Zenon DEF ReadInv, AtWork, Finds, Something, ZeroIsEof
<1>5. \A r, s \in Readers : Noticed(r, s)'
  BY Zenon DEF ReadInv, Noticed
<1> QED BY <1>1, <1>2, <1>3, <1>4, <1>5, Zenon DEF ReadInv

LEMMA ArrivedFrame ==
    ASSUME PeerTypes, ReadInv, readVars' = readVars, handle' = handle, at' = at,
           arrived' \in [Conns -> 0 .. MaxBytes], \A c \in Conns : arrived'[c] >= arrived[c]
    PROVE  ReadInv'
<1> USE DEF readVars, bufferVars, waitVars, readerVars
<1>1. ReadTypes'
  BY Zenon DEF ReadInv, ReadTypes
<1>2. NoIdleReader'
  BY DEF ReadInv, NoIdleReader, Ready, Open
<1>3. ASSUME NEW c \in Conns PROVE ReadBytes(c)' /\ ClosedIsSeen(c)'
  <2>1. ReadBytes(c) /\ ClosedIsSeen(c) /\ ReadTypes
    BY Zenon DEF ReadInv
  <2>2. taken[c] \in Nat /\ arrived[c] \in Nat /\ arrived'[c] \in Nat /\ arrived'[c] >= arrived[c]
    BY <2>1, StreamAssumption DEF PeerTypes, ReadTypes
  <2>3. taken'[c] <= arrived'[c]
    BY <2>1, <2>2 DEF ReadBytes
  <2> QED BY <2>1, <2>3, Zenon DEF ReadBytes, ClosedIsSeen, Open
<1>4. \A r \in Readers : AtWork(r)' /\ Finds(r)' /\ ZeroIsEof(r)'
  BY Zenon DEF ReadInv, AtWork, Finds, Something, ZeroIsEof
<1>5. \A r, s \in Readers : Noticed(r, s)'
  BY Zenon DEF ReadInv, Noticed
<1> QED BY <1>1, <1>2, <1>3, <1>4, <1>5, Zenon DEF ReadInv

LEMMA Entries ==
    ASSUME WriteTypes, NEW c \in Conns
    PROVE  /\ writeQ[c] \in Seq(Writers \X (0 .. WriteLen)) /\ Len(writeQ[c]) \in Nat
           /\ \A i \in 1 .. Len(writeQ[c]) :
                writeQ[c][i][1] \in Writers /\ writeQ[c][i][2] \in 0 .. WriteLen
<1>1. writeQ[c] \in Seq(Writers \X (0 .. WriteLen))
  BY Zenon DEF WriteTypes
<1>2. \A i \in 1 .. Len(writeQ[c]) : writeQ[c][i] \in Writers \X (0 .. WriteLen)
  BY <1>1
<1> QED BY <1>1, <1>2

LEMMA WriteFrame ==
    ASSUME WriteInv, writeVars' = writeVars, \A w \in Writers : at'[w] = at[w]
    PROVE  WriteInv'
<1> USE DEF writeVars
<1>1. WriteTypes'
  BY Zenon DEF WriteInv, WriteTypes
<1>2. \A w \in Writers : Sent(w)'
  BY DEF WriteInv, Sent
<1>3. ASSUME NEW c \in Conns PROVE Queued(c)'
  <2>1. \A i \in 1 .. Len(writeQ[c]) : writeQ[c][i][1] \in Writers
    BY Entries, Zenon DEF WriteInv
  <2>2. Queued(c)
    BY Zenon DEF WriteInv
  <2> QED BY <2>1, <2>2, Zenon DEF Queued, Request
<1> QED BY <1>1, <1>2, <1>3, Zenon DEF WriteInv

----------------------------------------------------------------------------
(* Reading. *)

\* Bytes move from the buffer to a reader; none is lost.
Handed(c) ==
    /\ got' \in [Conns -> Seq(1 .. MaxBytes)] /\ read_buffer' \in [Conns -> Seq(1 .. MaxBytes)]
    /\ \A d \in Conns \ {c} : got'[d] = got[d] /\ read_buffer'[d] = read_buffer[d]
    /\ got'[c] \o read_buffer'[c] = got[c] \o read_buffer[c]
    /\ read_buffer[c] = <<>> => read_buffer'[c] = <<>>

LEMMA NothingHanded ==
    ASSUME ReadTypes, NEW c \in Conns, got' = got, read_buffer' = read_buffer
    PROVE  Handed(c)
  BY Zenon DEF ReadTypes, Handed

LEMMA TakeHands ==
    ASSUME ReadTypes, NEW c \in Conns, NEW r \in Readers, TakeResult(r, c)
    PROVE  Handed(c)
<1>1. PICK size \in 1 .. MaxRead :
        LET n == IF size < Len(read_buffer[c]) THEN size ELSE Len(read_buffer[c])
        IN /\ got' = [got EXCEPT ![c] = @ \o SubSeq(read_buffer[c], 1, n)]
           /\ read_buffer' = [read_buffer EXCEPT ![c] = SubSeq(@, n + 1, Len(@))]
  BY Zenon DEF TakeResult
<1> DEFINE S == 1 .. MaxBytes
           b == read_buffer[c]
           g == got[c]
           n == IF size < Len(b) THEN size ELSE Len(b)
<1>2. b \in Seq(S) /\ g \in Seq(S) /\ Len(b) \in Nat
  BY DEF ReadTypes, S
<1>3. n \in 0 .. Len(b)
  BY <1>2, StreamAssumption
<1>4. /\ got' = [got EXCEPT ![c] = g \o SubSeq(b, 1, n)]
      /\ read_buffer' = [read_buffer EXCEPT ![c] = SubSeq(b, n + 1, Len(b))]
  BY <1>1, Zenon
<1>5. b = <<>> => n = 0 /\ Len(b) = 0
  BY <1>2
<1> HIDE DEF b, g, n, S
<1> DEFINE x == SubSeq(b, 1, n)
           y == SubSeq(b, n + 1, Len(b))
<1>6. /\ x \in Seq(S) /\ y \in Seq(S) /\ Splits(b, x, y)
  BY <1>2, <1>3, Cut, Zenon
<1>7. b = <<>> => y = <<>>
  BY <1>5
<1>8. got' = [got EXCEPT ![c] = g \o x] /\ read_buffer' = [read_buffer EXCEPT ![c] = y]
  BY <1>4, Zenon
<1> HIDE DEF x, y
<1>9. /\ x \in Seq(S) /\ y \in Seq(S) /\ g \o x \in Seq(S)
      /\ (g \o x) \o y = g \o b
  <2>1. x \in Seq(S) /\ y \in Seq(S) /\ g \in Seq(S) /\ b \in Seq(S)
    BY <1>2, <1>6, Zenon
  <2>2. Row3(g, x, y) = Row2(g, b)
    BY <1>6, <2>1, Glue
  <2>3. g \o x \in Seq(S)
    BY <2>1
  <2> QED BY <2>1, <2>2, <2>3, Zenon DEF Row2, Row3
<1>10. /\ got' \in [Conns -> Seq(S)] /\ read_buffer' \in [Conns -> Seq(S)]
       /\ \A d \in Conns \ {c} : got'[d] = got[d] /\ read_buffer'[d] = read_buffer[d]
       /\ got'[c] = g \o x /\ read_buffer'[c] = y
  <2> DEFINE h == g \o x
  <2>1. h \in Seq(S) /\ got' = [got EXCEPT ![c] = h]
    BY <1>8, <1>9, Zenon
  <2> HIDE DEF h
  <2>2. /\ got' \in [Conns -> Seq(S)] /\ got'[c] = h
        /\ \A d \in Conns \ {c} : got'[d] = got[d]
    BY <2>1, Zenon DEF ReadTypes, S
  <2>3. /\ read_buffer' \in [Conns -> Seq(S)] /\ read_buffer'[c] = y
        /\ \A d \in Conns \ {c} : read_buffer'[d] = read_buffer[d]
    BY <1>8, <1>9, Zenon DEF ReadTypes, S
  <2> QED BY <2>2, <2>3, Zenon DEF h
<1> QED BY <1>7, <1>9, <1>10, Zenon DEF Handed, g, b, S

\* A step of reader r on stream c that does not wake anybody keeps the invariant.
(* What the reader's own step leaves as it was: where it is, what the peer sent and
   whether the stream is shared; the waiter; the error; and the results of 0. *)
Place(r, c) ==
    /\ at'[r] = c /\ \A s \in Readers \ {r} : at'[s] = at[s]
    /\ rpc[r] # "waiting" /\ (rpc[r] # "idle" => at[r] = c)
    /\ handle' = handle /\ arrived' = arrived /\ taken' = taken /\ eof' = eof
    /\ overlap' \in SUBSET Conns /\ overlap \subseteq overlap'
    /\ \A s \in Readers \ {r} : rpc[s] # "idle" /\ at[s] = c => c \in overlap'
Waits(r, c, x) ==
    \/ x # "waiting" /\ read_waiter' = read_waiter /\ read_started' = read_started
    \/ /\ x = "waiting" /\ read_waiter[c] = Nobody /\ ~Ready(c)
       /\ read_buffer' = read_buffer /\ read_error' = read_error
       /\ read_waiter' = [read_waiter EXCEPT ![c] = r]
       /\ read_started' = [read_started EXCEPT ![c] = TRUE]
Errs(c) ==
    \/ read_error' = read_error
    \/ read_error' = [read_error EXCEPT ![c] = "start"] /\ read_waiter[c] = Nobody
Zeroes(r) == zeroRead' \in SUBSET Readers /\ zeroRead' \ {r} = zeroRead \ {r}

LEMMA ReaderMoves ==
    ASSUME PeerTypes, ReadInv, NEW r \in Readers, NEW c \in Conns,
           NEW x \in {"idle", "register", "waiting", "resuming"},
           NEW f \in {"none", "concurrent", "setup"},
           rpc' = [rpc EXCEPT ![r] = x], rflag' = [rflag EXCEPT ![r] = f],
           Place(r, c), Handed(c), Zeroes(r), Errs(c), Waits(r, c, x),
           x = "resuming" /\ f = "none" => Something(c)',
           x = "idle" /\ r \in zeroRead' => eof[c] \/ c \in overlap'
    PROVE  ReadInv'
<1> USE DEF Place, Waits, Errs, Zeroes
<1> USE StreamAssumption
<1>0. ReadTypes
  BY Zenon DEF ReadInv
<1>1. ReadTypes'
  <2>1. read_waiter' \in [Conns -> Readers \union {Nobody}] /\ read_started' \in [Conns -> BOOLEAN]
    <3>1. CASE read_waiter' = read_waiter /\ read_started' = read_started
      BY <1>0, <3>1, Zenon DEF ReadTypes
    <3>2. CASE /\ read_waiter' = [read_waiter EXCEPT ![c] = r]
               /\ read_started' = [read_started EXCEPT ![c] = TRUE]
      BY <1>0, <3>2, Zenon DEF ReadTypes
    <3> QED BY <3>1, <3>2, Zenon
  <2>2. read_error' \in [Conns -> {"none", "canceled", "reset", "start"}]
    BY <1>0, Zenon DEF ReadTypes
  <2>3. /\ rpc' \in [Readers -> {"idle", "register", "waiting", "resuming"}]
        /\ rflag' \in [Readers -> {"none", "concurrent", "setup"}]
    BY <1>0, Zenon DEF ReadTypes
  <2> QED BY <1>0, <2>1, <2>2, <2>3, Zenon DEF ReadTypes, Handed
<1>2. /\ rpc'[r] = x /\ rflag'[r] = f
      /\ \A s \in Readers \ {r} : rpc'[s] = rpc[s] /\ rflag'[s] = rflag[s] /\ at'[s] = at[s]
      /\ at'[r] = c
  BY <1>0 DEF ReadTypes
<1>3. /\ \A d \in Conns \ {c} : read_buffer'[d] = read_buffer[d] /\ read_error'[d] = read_error[d]
      /\ read_waiter[c] # Nobody => read_error'[c] = read_error[c]
      /\ read_error[c] # "none" => read_error'[c] # "none"
  BY <1>0, Zenon DEF ReadTypes, Handed
<1>4. NoIdleReader'
  <2>1. ASSUME NEW d \in Conns, read_waiter'[d] # Nobody
        PROVE  ~Ready(d)' /\ read_started'[d]
    <3>1. CASE read_waiter[d] # Nobody
      <4>1. ~Ready(d) /\ read_started[d]
        BY <3>1, Zenon DEF ReadInv, NoIdleReader
      <4>2. read_started'[d]
        <5>1. CASE read_started' = read_started
          BY <4>1, <5>1, Zenon
        <5>2. CASE read_started' = [read_started EXCEPT ![c] = TRUE]
          BY <1>0, <4>1, <5>2, Zenon DEF ReadTypes
        <5> QED BY <5>1, <5>2, Zenon
      <4>3. read_buffer'[d] = <<>> /\ read_error'[d] = read_error[d]
        BY <1>3, <3>1, <4>1, Zenon DEF Ready, Handed
      <4> QED BY <4>1, <4>2, <4>3, Zenon DEF Ready, Open
    <3>2. CASE read_waiter[d] = Nobody
      BY <1>0, <2>1, <3>2 DEF Ready, Open, ReadTypes
    <3> QED BY <3>1, <3>2, Zenon
  <2>2. ASSUME NEW s \in Readers, NEW d \in Conns
        PROVE  read_waiter'[d] = s <=> rpc'[s] = "waiting" /\ at'[s] = d
    <3>1. /\ read_waiter[d] = s <=> rpc[s] = "waiting" /\ at[s] = d
          /\ read_waiter[d] # r
      BY DEF ReadInv, NoIdleReader
    <3>2. CASE x # "waiting" /\ read_waiter' = read_waiter
      BY <1>2, <3>1, <3>2, Zenon
    <3>3. CASE x = "waiting" /\ read_waiter[c] = Nobody /\ read_waiter' = [read_waiter EXCEPT ![c] = r]
      <4>1. read_waiter'[d] = IF d = c THEN r ELSE read_waiter[d]
        BY <1>0, <3>3, Zenon DEF ReadTypes
      <4>2. CASE s = r
        BY <1>2, <3>1, <3>3, <4>1, <4>2, Zenon
      <4>3. CASE s # r
        BY <1>2, <3>1, <3>3, <4>1, <4>3
      <4> QED BY <4>2, <4>3, Zenon
    <3> QED BY <3>2, <3>3, Zenon
  <2> QED BY <2>1, <2>2, Zenon DEF NoIdleReader
<1>5. \A d \in Conns : ReadBytes(d)' /\ ClosedIsSeen(d)'
  <2> SUFFICES ASSUME NEW d \in Conns PROVE ReadBytes(d)' /\ ClosedIsSeen(d)'
    BY Zenon
  <2>1. ReadBytes(d) /\ ClosedIsSeen(d)
    BY Zenon DEF ReadInv
  <2>2. got'[d] \o read_buffer'[d] = got[d] \o read_buffer[d]
    BY Zenon DEF Handed
  <2>3. read_error[d] # "none" => read_error'[d] # "none"
    BY <1>3, Zenon
  <2> QED BY <2>1, <2>2, <2>3, Zenon DEF ReadBytes, ClosedIsSeen, Open
<1>6. \A s \in Readers : AtWork(s)'
  BY <1>2, Zenon DEF ReadInv, AtWork
<1>7. \A s \in Readers : ZeroIsEof(s)'
  BY <1>2, Zenon DEF ReadInv, ZeroIsEof
<1>8. \A s, u \in Readers : Noticed(s, u)'
  BY <1>2 DEF ReadInv, Noticed
<1>9. ASSUME NEW s \in Readers PROVE Finds(s)'
  <2>1. CASE s = r
    BY <1>2, <2>1, Zenon DEF Finds
  <2>2. CASE s # r
    <3> SUFFICES ASSUME rpc[s] = "resuming", rflag[s] = "none", at[s] \notin overlap'
                 PROVE  Something(at[s])'
      BY <1>2, <2>2, Zenon DEF Finds
    <3>1. at[s] \in Conns /\ Something(at[s]) /\ at[s] # c
      BY <2>2, Zenon DEF ReadInv, Finds, AtWork
    <3>2. read_buffer'[at[s]] = read_buffer[at[s]] /\ read_error'[at[s]] = read_error[at[s]]
      BY <1>3, <3>1, Zenon
    <3>3. at'[s] = at[s]
      BY <1>2, <2>2, Zenon
    <3> QED BY <3>1, <3>2, <3>3, Zenon DEF Something
  <2> QED BY <2>1, <2>2, Zenon
<1> QED BY <1>1, <1>4, <1>5, <1>6, <1>7, <1>8, <1>9, Zenon DEF ReadInv

LEMMA ZeroResult ==
    ASSUME ReadTypes, NEW c \in Conns, NEW r \in Readers, TakeResult(r, c)
    PROVE  /\ Zeroes(r)
           /\ r \in zeroRead' => read_buffer[c] = <<>> /\ read_error[c] = "none"
           /\ rpc' = [rpc EXCEPT ![r] = "idle"]
  BY Zenon DEF ReadTypes, TakeResult, Zeroes

LEMMA RegisterStep ==
    ASSUME PeerTypes, ReadInv, NEW r \in Readers, NEW c \in Conns, Register(r, c), Place(r, c)
    PROVE  ReadInv'
<1>0. ReadTypes /\ ClosedIsSeen(c) /\ rflag[r] \in {"none", "concurrent", "setup"}
  BY Zenon DEF ReadInv, ReadTypes
<1>f. rflag = [rflag EXCEPT ![r] = rflag[r]]
  BY <1>0, Zenon DEF ReadTypes
<1>r. Ready(c) => Something(c)
  BY <1>0, Zenon DEF Ready, Something, ClosedIsSeen
<1>z. zeroRead' = zeroRead => Zeroes(r)
  BY <1>0, Zenon DEF ReadTypes, Zeroes
<1>e. read_error' = read_error => Errs(c)
  BY Zenon DEF Errs
<1>w. /\ read_waiter' = read_waiter /\ read_started' = read_started
      => Waits(r, c, "resuming") /\ Waits(r, c, "idle")
  BY Zenon DEF Waits
<1>1. CASE /\ Ready(c) /\ rpc' = [rpc EXCEPT ![r] = "resuming"]
           /\ UNCHANGED <<got, read_buffer, zeroRead, read_waiter, read_started, read_error, rflag>>
  <2>1. Handed(c)
    BY <1>0, <1>1, NothingHanded, Zenon
  <2>2. Something(c)'
    BY <1>1, <1>r, Zenon DEF Something, Place
  <2>3. Zeroes(r) /\ Errs(c) /\ Waits(r, c, "resuming")
    BY <1>1, <1>z, <1>e, <1>w, Zenon
  <2>4. rflag' = [rflag EXCEPT ![r] = rflag[r]] /\ rpc' = [rpc EXCEPT ![r] = "resuming"]
    BY <1>1, <1>f, Zenon
  <2> QED BY <1>0, <2>1, <2>2, <2>3, <2>4, ReaderMoves, Zenon
<1>2. CASE /\ Ready(c) /\ TakeResult(r, c)
           /\ UNCHANGED <<read_waiter, read_started, read_error, rflag>>
  <2>1. Handed(c)
    BY <1>0, <1>2, TakeHands, Zenon
  <2>2. /\ Zeroes(r)
        /\ r \in zeroRead' => read_buffer[c] = <<>> /\ read_error[c] = "none"
        /\ rpc' = [rpc EXCEPT ![r] = "idle"]
    BY <1>0, <1>2, ZeroResult, Zenon
  <2>3. r \in zeroRead' => eof[c]
    BY <1>2, <1>r, <2>2, Zenon DEF Something
  <2>4. rflag' = [rflag EXCEPT ![r] = rflag[r]]
    BY <1>2, <1>f, Zenon
  <2>5. Errs(c) /\ Waits(r, c, "idle")
    BY <1>2, <1>e, <1>w, Zenon
  <2> QED BY <1>0, <2>1, <2>2, <2>3, <2>4, <2>5, ReaderMoves, Zenon
<1>3. ASSUME NEW f \in {"concurrent", "setup"}, Refuse(r, f), read_waiter' = read_waiter,
             read_started' = read_started, got' = got, read_buffer' = read_buffer, Errs(c)
      PROVE  ReadInv'
  <2>1. Handed(c)
    BY <1>0, <1>3, NothingHanded, Zenon
  <2>w. Waits(r, c, "resuming") /\ Waits(r, c, "idle") /\ Errs(c)
    BY <1>3, <1>w, Zenon
  <2>2. CASE r \in OffLoop
    <3>1. rflag' = [rflag EXCEPT ![r] = f] /\ rpc' = [rpc EXCEPT ![r] = "resuming"] /\ Zeroes(r)
      BY <1>3, <1>z, <2>2, Zenon DEF Refuse
    <3> QED BY <2>1, <2>w, <3>1, ReaderMoves, Zenon
  <2>3. CASE r \notin OffLoop
    <3>1. /\ rflag' = [rflag EXCEPT ![r] = "none"] /\ rpc' = [rpc EXCEPT ![r] = "idle"]
          /\ Zeroes(r) /\ r \notin zeroRead'
      BY <1>0, <1>3, <2>3, Zenon DEF Refuse, ReadTypes, Zeroes
    <3> QED BY <2>1, <2>w, <3>1, ReaderMoves, Zenon
  <2> QED BY <2>2, <2>3, Zenon
<1>4. CASE /\ ~Ready(c) /\ read_waiter[c] = Nobody
           /\ read_waiter' = [read_waiter EXCEPT ![c] = r]
           /\ read_started' = [read_started EXCEPT ![c] = TRUE]
           /\ rpc' = [rpc EXCEPT ![r] = "waiting"]
           /\ UNCHANGED <<read_error, rflag, zeroRead, got, read_buffer>>
  <2>1. Handed(c)
    BY <1>0, <1>4, NothingHanded, Zenon
  <2>2. Zeroes(r) /\ Errs(c) /\ Waits(r, c, "waiting")
    BY <1>4, <1>z, <1>e, Zenon DEF Waits
  <2>3. rflag' = [rflag EXCEPT ![r] = rflag[r]] /\ rpc' = [rpc EXCEPT ![r] = "waiting"]
    BY <1>4, <1>f, Zenon
  <2> QED BY <1>0, <2>1, <2>2, <2>3, ReaderMoves, Zenon
<1> QED BY <1>1, <1>2, <1>3, <1>4, Zenon DEF Register, Errs

LEMMA ReaderSteps ==
    ASSUME StreamInv, NEW r \in Readers, (\E c \in Conns : ReadSome(r, c)) \/ RegisterPosted(r) \/ ReadResume(r)
    PROVE  StreamInv'
<1> USE StreamAssumption
<1> USE DEF handleVars, peerVars
<1>0. PeerTypes /\ ReadInv /\ WriteInv /\ ReadTypes
  BY Zenon DEF StreamInv, ReadInv
<1>1. ASSUME NEW c \in Conns, ReadSome(r, c) PROVE StreamInv'
  <2>1. /\ rpc[r] = "idle" /\ at' = [at EXCEPT ![r] = c]
        /\ overlap' = IF \E q \in Readers : rpc[q] # "idle" /\ at[q] = c
                      THEN overlap \union {c} ELSE overlap
        /\ handle' = handle /\ owned' = owned /\ closeQ' = closeQ /\ arrived' = arrived
        /\ peerEnd' = peerEnd /\ taken' = taken /\ eof' = eof /\ writeVars' = writeVars
    BY <1>1, Zenon DEF ReadSome
  <2>2. /\ PeerTypes'
        /\ at'[r] = c /\ \A s \in Readers \ {r} : at'[s] = at[s]
        /\ \A w \in Writers : at'[w] = at[w]
    BY <1>0, <2>1, Zenon DEF PeerTypes
  <2>3. WriteInv'
    BY <1>0, <2>1, <2>2, WriteFrame, Zenon
  <2>4. /\ overlap' \in SUBSET Conns /\ overlap \subseteq overlap'
        /\ \A s \in Readers \ {r} : rpc[s] # "idle" /\ at[s] = c => c \in overlap'
    BY <1>0, <2>1, Zenon DEF ReadTypes
  <2>p. Place(r, c)
    BY <2>1, <2>2, <2>4, Zenon DEF Place
  <2>5. CASE r \in OffLoop
    <3>1. /\ rpc' = [rpc EXCEPT ![r] = "register"]
          /\ UNCHANGED <<read_waiter, read_started, read_error, rflag, zeroRead, got, read_buffer>>
      BY <1>1, <2>5, Zenon DEF ReadSome
    <3>2. Handed(c)
      BY <1>0, <3>1, NothingHanded, Zenon
    <3>3. /\ rpc' = [rpc EXCEPT ![r] = "register"]
          /\ rflag' = [rflag EXCEPT ![r] = rflag[r]] /\ rflag[r] \in {"none", "concurrent", "setup"}
          /\ Zeroes(r) /\ Errs(c) /\ Waits(r, c, "register")
      BY <1>0, <3>1, Zenon DEF ReadTypes, Zeroes, Errs, Waits
    <3>4. ReadInv'
      BY <1>0, <2>p, <3>2, <3>3, ReaderMoves, Zenon
    <3> QED BY <2>2, <2>3, <3>4, Zenon DEF StreamInv
  <2>6. CASE r \notin OffLoop
    <3>1. Register(r, c)
      BY <1>1, <2>6, Zenon DEF ReadSome
    <3>2. ReadInv'
      BY <1>0, <2>p, <3>1, RegisterStep, Zenon
    <3> QED BY <2>2, <2>3, <3>2, Zenon DEF StreamInv
  <2> QED BY <2>5, <2>6, Zenon
<1>2. ASSUME RegisterPosted(r) \/ ReadResume(r) PROVE StreamInv'
  <2>1. /\ rpc[r] \in {"register", "resuming"} /\ at' = at /\ overlap' = overlap
        /\ handle' = handle /\ owned' = owned /\ closeQ' = closeQ /\ arrived' = arrived
        /\ peerEnd' = peerEnd /\ taken' = taken /\ eof' = eof /\ writeVars' = writeVars
    BY <1>2, Zenon DEF RegisterPosted, ReadResume
  <2>2. PICK c \in Conns : at[r] = c
    BY <1>0, <2>1, Zenon DEF ReadInv, AtWork
  <2>3. PeerTypes'
    BY <1>0, <2>1, <2>2, Zenon DEF PeerTypes
  <2>4. WriteInv'
    BY <1>0, <2>1, WriteFrame, Zenon
  <2>5. /\ overlap' \in SUBSET Conns /\ overlap \subseteq overlap'
        /\ \A s \in Readers \ {r} : rpc[s] # "idle" /\ at[s] = c => c \in overlap'
    <3>1. overlap' \in SUBSET Conns /\ \A s \in Readers : Noticed(r, s)
      BY <1>0, <2>1, Zenon DEF ReadInv, ReadTypes
    <3> QED BY <2>1, <2>2, <3>1, Zenon DEF Noticed
  <2>p. Place(r, c)
    BY <2>1, <2>2, <2>5, Zenon DEF Place
  <2>6. CASE RegisterPosted(r)
    <3>1. Register(r, c)
      BY <2>2, <2>6, Zenon DEF RegisterPosted
    <3>2. ReadInv'
      BY <1>0, <2>p, <3>1, RegisterStep, Zenon
    <3> QED BY <2>3, <2>4, <3>2, Zenon DEF StreamInv
  <2>7. CASE ReadResume(r)
    <3>1. /\ rflag' = [rflag EXCEPT ![r] = "none"] /\ rpc[r] = "resuming"
          /\ read_error' = read_error /\ read_waiter' = read_waiter /\ read_started' = read_started
      BY <2>7, Zenon DEF ReadResume, waitVars
    <3>e. Errs(c) /\ Waits(r, c, "idle") /\ rflag' = [rflag EXCEPT ![r] = "none"]
      BY <3>1, Zenon DEF Errs, Waits
    <3>2. CASE rflag[r] # "none"
      <4>1. /\ rpc' = [rpc EXCEPT ![r] = "idle"] /\ zeroRead' = zeroRead \ {r}
            /\ got' = got /\ read_buffer' = read_buffer
        BY <2>7, <3>2, Zenon DEF ReadResume
      <4>2. Handed(c)
        BY <1>0, <4>1, NothingHanded, Zenon
      <4>3. Zeroes(r) /\ r \notin zeroRead' /\ rpc' = [rpc EXCEPT ![r] = "idle"]
        BY <1>0, <4>1, Zenon DEF ReadTypes, Zeroes
      <4>4. ReadInv'
        BY <1>0, <2>p, <3>e, <4>2, <4>3, ReaderMoves, Zenon
      <4> QED BY <2>3, <2>4, <4>4, Zenon DEF StreamInv
    <3>3. CASE rflag[r] = "none"
      <4>1. TakeResult(r, c)
        BY <2>2, <2>7, <3>3, Zenon DEF ReadResume
      <4>2. Handed(c)
        BY <1>0, <4>1, TakeHands, Zenon
      <4>3. /\ Zeroes(r)
            /\ r \in zeroRead' => read_buffer[c] = <<>> /\ read_error[c] = "none"
            /\ rpc' = [rpc EXCEPT ![r] = "idle"]
        BY <1>0, <4>1, ZeroResult, Zenon
      <4>4. c \in overlap \/ Something(c)
        BY <1>0, <2>2, <3>1, <3>3, Zenon DEF ReadInv, Finds
      <4>5. r \in zeroRead' => eof[c] \/ c \in overlap'
        BY <2>1, <4>3, <4>4, Zenon DEF Something
      <4>6. ReadInv'
        BY <1>0, <2>p, <3>e, <4>2, <4>3, <4>5, ReaderMoves, Zenon
      <4> QED BY <2>3, <2>4, <4>6, Zenon DEF StreamInv
    <3> QED BY <3>2, <3>3, Zenon
  <2> QED BY <1>2, <2>6, <2>7, Zenon
<1> QED BY <1>1, <1>2, Zenon

(* read_cb and close_on_loop, which wake the registered reader. *)
LEMMA WakeMoves ==
    ASSUME PeerTypes, ReadInv, NEW c \in Conns, WakeReader(c), ReadTypes', ReadBytes(c)',
           ClosedIsSeen(c)', Something(c)', eof[c] => eof'[c],
           at' = at, rflag' = rflag, zeroRead' = zeroRead, overlap' = overlap, got' = got,
           arrived' = arrived,
           \A d \in Conns \ {c} :
              /\ handle'[d] = handle[d] /\ taken'[d] = taken[d] /\ read_buffer'[d] = read_buffer[d]
              /\ read_error'[d] = read_error[d] /\ read_started'[d] = read_started[d]
              /\ eof'[d] = eof[d]
    PROVE  ReadInv'
<1> USE StreamAssumption
<1>0. ReadTypes /\ NoIdleReader
  BY Zenon DEF ReadInv
<1>1. /\ \A d \in Conns : read_waiter'[d] = IF d = c THEN Nobody ELSE read_waiter[d]
      /\ \A s \in Readers : rpc'[s] = IF read_waiter[c] = s THEN "resuming" ELSE rpc[s]
  BY <1>0, Zenon DEF WakeReader, ReadTypes
<1>2. \A s \in Readers : read_waiter[c] = s => at[s] = c /\ rpc[s] = "waiting"
  BY <1>0, Zenon DEF NoIdleReader
<1>3. NoIdleReader'
  <2>1. ASSUME NEW d \in Conns, read_waiter'[d] # Nobody
        PROVE  ~Ready(d)' /\ read_started'[d]
    <3>1. d # c /\ read_waiter'[d] = read_waiter[d]
      BY <1>1, <2>1, Zenon
    <3>2. ~Ready(d) /\ read_started[d]
      BY <1>0, <2>1, <3>1, Zenon DEF NoIdleReader
    <3> QED BY <3>1, <3>2, Zenon DEF Ready, Open
  <2>2. ASSUME NEW s \in Readers, NEW d \in Conns
        PROVE  read_waiter'[d] = s <=> rpc'[s] = "waiting" /\ at'[s] = d
    <3>1. read_waiter[d] = s <=> rpc[s] = "waiting" /\ at[s] = d
      BY <1>0, Zenon DEF NoIdleReader
    <3>2. at'[s] = at[s] /\ s # Nobody /\ "resuming" # "waiting"
      BY StreamAssumption, Zenon
    <3>3. CASE d = c
      <4>1. read_waiter'[d] = Nobody
        BY <1>1, <3>3, Zenon
      <4>2. rpc'[s] = IF read_waiter[d] = s THEN "resuming" ELSE rpc[s]
        BY <1>1, <3>3, Zenon
      <4> QED BY <3>1, <3>2, <4>1, <4>2, Zenon
    <3>4. CASE d # c
      <4>1. read_waiter'[d] = read_waiter[d]
        BY <1>1, <3>4, Zenon
      <4>2. rpc'[s] = IF read_waiter[c] = s THEN "resuming" ELSE rpc[s]
        BY <1>1, Zenon
      <4>3. read_waiter[c] = s => at[s] # d
        BY <1>2, <3>4, Zenon
      <4> QED BY <3>1, <3>2, <4>1, <4>2, <4>3, Zenon
    <3> QED BY <3>3, <3>4, Zenon
  <2> QED BY <2>1, <2>2, Zenon DEF NoIdleReader
<1>4. ASSUME NEW d \in Conns PROVE ReadBytes(d)' /\ ClosedIsSeen(d)'
  <2>1. CASE d = c
    BY <2>1, Zenon
  <2>2. CASE d # c
    <3>1. ReadBytes(d) /\ ClosedIsSeen(d)
      BY Zenon DEF ReadInv
    <3> QED BY <2>2, <3>1, Zenon DEF ReadBytes, ClosedIsSeen, Open
  <2> QED BY <2>1, <2>2, Zenon
<1>5. \A s \in Readers : AtWork(s)'
  BY <1>1, <1>2, Zenon DEF ReadInv, AtWork
<1>6. \A s \in Readers : ZeroIsEof(s)'
  BY <1>1 DEF ReadInv, ZeroIsEof, AtWork
<1>7. \A s, u \in Readers : Noticed(s, u)'
  BY <1>1, <1>2 DEF ReadInv, Noticed
<1>8. ASSUME NEW s \in Readers PROVE Finds(s)'
  <2> SUFFICES ASSUME rpc'[s] = "resuming", rflag[s] = "none", at[s] \notin overlap
               PROVE  Something(at[s])'
    BY Zenon DEF Finds
  <2>1. CASE at[s] = c
    BY <2>1, Zenon DEF Something
  <2>2. CASE at[s] # c
    <3>1. rpc[s] = "resuming"
      BY <1>1, <1>2, <2>2, Zenon
    <3>2. at[s] \in Conns /\ Something(at[s])
      BY <3>1, Zenon DEF ReadInv, Finds, AtWork
    <3> QED BY <2>2, <3>2, Zenon DEF Something
  <2> QED BY <2>1, <2>2, Zenon
<1> QED BY <1>3, <1>4, <1>5, <1>6, <1>7, <1>8, Zenon DEF ReadInv

LEMMA BufferGrows ==
    ASSUME PeerTypes, ReadInv, NEW c \in Conns, NEW n \in (taken[c] + 1) .. arrived[c]
    PROVE  LET b == read_buffer[c] \o Span(taken[c] + 1, n)
           IN /\ n \in 0 .. MaxBytes /\ n <= arrived[c]
              /\ b \in Seq(1 .. MaxBytes) /\ b # <<>> /\ got[c] \o b = Span(1, n)
<1> DEFINE S == 1 .. MaxBytes
           x == read_buffer[c]
           y == Span(taken[c] + 1, n)
           b == x \o y
           g == got[c]
<1>1. /\ taken[c] \in Nat /\ n \in Nat /\ taken[c] + 1 <= n /\ n <= MaxBytes /\ MaxBytes \in Nat
      /\ n \in 0 .. MaxBytes /\ n <= arrived[c]
  BY StreamAssumption DEF PeerTypes, ReadInv, ReadTypes
<1>2. y \in Seq(1 .. MaxBytes) /\ Len(y) = n + 1 - (taken[c] + 1)
  <2> DEFINE a == taken[c] + 1
  <2>1. a \in Nat \ {0} /\ a <= n + 1 /\ n \in Nat /\ n <= MaxBytes /\ MaxBytes \in Nat
    BY <1>1
  <2> HIDE DEF a
  <2>2. Span(a, n) \in Seq(1 .. MaxBytes) /\ Len(Span(a, n)) = n + 1 - a
    BY <2>1, SpanSeq, Zenon
  <2> QED BY <2>2, Zenon DEF a
<1>3. x \in Seq(S) /\ g \in Seq(S) /\ y \in Seq(S)
  BY <1>2, Zenon DEF ReadInv, ReadTypes
<1>4. g \o x = Span(1, taken[c])
  BY Zenon DEF ReadInv, ReadBytes
<1>5. (g \o x) \o y = Span(1, n)
  <2> DEFINE m == taken[c]
  <2>1. m \in Nat /\ n \in Nat /\ m <= n
    BY <1>1
  <2> HIDE DEF m
  <2>2. Span(1, m) \o Span(m + 1, n) = Span(1, n)
    BY <2>1, SpanJoin, Zenon
  <2> QED BY <1>4, <2>2, Zenon DEF m
<1> HIDE DEF S, x, y, g
<1>6. b \in Seq(S) /\ Len(b) = Len(x) + Len(y) /\ (g \o x) \o y = g \o b
  <2>1. Regroups(S, g, x, y)
    BY <1>3, Associative, Zenon
  <2> QED BY <2>1, Zenon DEF Regroups, Row2, Row3
<1> HIDE DEF b
<1>10. b # <<>>
  <2>1. Len(x) \in Nat /\ Len(y) > 0
    BY <1>1, <1>2, <1>3
  <2>2. Len(b) # 0
    BY <1>1, <1>2, <1>6, <2>1
  <2> QED BY <2>2
<1>11. g \o b = Span(1, n)
  BY <1>5, <1>6, Zenon
<1> QED BY <1>1, <1>6, <1>10, <1>11, Zenon DEF S, x, y, g, b

LEMMA ReadCbStep ==
    ASSUME PeerTypes, ReadInv, NEW c \in Conns, ReadCb(c)
    PROVE  ReadInv'
<1> USE DEF handleVars, peerVars
<1>0. ReadTypes /\ ReadBytes(c) /\ ClosedIsSeen(c)
  BY Zenon DEF ReadInv
<1>1. /\ WakeReader(c) /\ handle' = handle /\ arrived' = arrived
      /\ at' = at /\ rflag' = rflag /\ zeroRead' = zeroRead /\ overlap' = overlap /\ got' = got
  BY Zenon DEF ReadCb
<1>2. /\ read_waiter' \in [Conns -> Readers \union {Nobody}]
      /\ rpc' \in [Readers -> {"idle", "register", "waiting", "resuming"}]
  BY <1>0, <1>1, Zenon DEF WakeReader, ReadTypes
<1>3. CASE \E n \in (taken[c] + 1) .. arrived[c] :
             /\ read_buffer' = [read_buffer EXCEPT ![c] = @ \o Span(taken[c] + 1, n)]
             /\ taken' = [taken EXCEPT ![c] = n]
             /\ UNCHANGED <<eof, read_error, read_started>>
  <2>1. PICK n \in (taken[c] + 1) .. arrived[c] :
             /\ read_buffer' = [read_buffer EXCEPT ![c] = @ \o Span(taken[c] + 1, n)]
             /\ taken' = [taken EXCEPT ![c] = n]
             /\ UNCHANGED <<eof, read_error, read_started>>
    BY <1>3, Zenon
  <2> DEFINE b == read_buffer[c] \o Span(taken[c] + 1, n)
  <2>2. /\ n \in 0 .. MaxBytes /\ n <= arrived[c]
        /\ b \in Seq(1 .. MaxBytes) /\ b # <<>> /\ got[c] \o b = Span(1, n)
    BY BufferGrows, Zenon
  <2>3. /\ read_buffer' = [read_buffer EXCEPT ![c] = b] /\ taken' = [taken EXCEPT ![c] = n]
        /\ eof' = eof /\ read_error' = read_error /\ read_started' = read_started
    BY <2>1, Zenon
  <2> HIDE DEF b
  <2>4. /\ read_buffer'[c] = b /\ taken'[c] = n
        /\ \A d \in Conns \ {c} : read_buffer'[d] = read_buffer[d] /\ taken'[d] = taken[d]
    BY <1>0, <2>3, Zenon DEF ReadTypes
  <2>5. read_buffer' \in [Conns -> Seq(1 .. MaxBytes)]
    BY <1>0, <2>2, <2>3, Zenon DEF ReadTypes
  <2>6. ReadTypes'
    BY <1>0, <1>1, <1>2, <2>2, <2>3, <2>5, Zenon DEF ReadTypes
  <2>7. Something(c)' /\ ClosedIsSeen(c)' /\ (eof[c] => eof'[c])
    BY <1>0, <1>1, <2>2, <2>3, <2>4, Zenon DEF Something, ClosedIsSeen, Open
  <2>8. ReadBytes(c)'
    BY <1>1, <2>2, <2>4, Zenon DEF ReadBytes
  <2> QED BY <1>1, <2>3, <2>4, <2>6, <2>7, <2>8, WakeMoves, Zenon
<1>4. CASE /\ eof' = [eof EXCEPT ![c] = TRUE]
           /\ read_started' = [read_started EXCEPT ![c] = FALSE]
           /\ UNCHANGED <<read_buffer, taken, read_error>>
  <2>1. ReadTypes'
    BY <1>0, <1>1, <1>2, <1>4, Zenon DEF ReadTypes
  <2>2. /\ Something(c)' /\ ClosedIsSeen(c)' /\ eof'[c]
        /\ \A d \in Conns \ {c} : eof'[d] = eof[d] /\ read_started'[d] = read_started[d]
    BY <1>0, <1>4, Zenon DEF Something, ClosedIsSeen, ReadTypes
  <2>3. ReadBytes(c)'
    BY <1>0, <1>1, <1>4, Zenon DEF ReadBytes
  <2> QED BY <1>1, <1>4, <2>1, <2>2, <2>3, WakeMoves, Zenon
<1>5. CASE /\ read_error' = [read_error EXCEPT ![c] = "reset"]
           /\ read_started' = [read_started EXCEPT ![c] = FALSE]
           /\ UNCHANGED <<read_buffer, taken, eof>>
  <2>1. ReadTypes'
    BY <1>0, <1>1, <1>2, <1>5, Zenon DEF ReadTypes
  <2>2. /\ Something(c)' /\ ClosedIsSeen(c)'
        /\ \A d \in Conns \ {c} : read_error'[d] = read_error[d] /\ read_started'[d] = read_started[d]
    BY <1>0, <1>5, Zenon DEF Something, ClosedIsSeen, ReadTypes
  <2>3. ReadBytes(c)'
    BY <1>0, <1>1, <1>5, Zenon DEF ReadBytes
  <2> QED BY <1>1, <1>5, <2>1, <2>2, <2>3, WakeMoves, Zenon
<1> QED BY <1>3, <1>4, <1>5, Zenon DEF ReadCb

\* close_on_loop, called or posted.
LEMMA CloseStep ==
    ASSUME PeerTypes, ReadInv, NEW c \in Conns, CloseOnLoop(c),
           UNCHANGED <<arrived, taken, read_buffer, eof, rflag, zeroRead, got, overlap, at>>
    PROVE  ReadInv'
<1>0. ReadTypes /\ ReadBytes(c)
  BY Zenon DEF ReadInv
<1>1. CASE ~Open(c)
  BY <1>1, ReadFrame, Zenon DEF CloseOnLoop, readVars, bufferVars, waitVars, readerVars
<1>2. CASE Open(c)
  <2>1. /\ handle' = [handle EXCEPT ![c] = "closing"]
        /\ read_started' = [read_started EXCEPT ![c] = FALSE]
        /\ read_error' = [read_error EXCEPT ![c] = IF ~eof[c] /\ @ = "none" THEN "canceled" ELSE @]
        /\ WakeReader(c)
    BY <1>2, Zenon DEF CloseOnLoop
  <2>2. /\ read_waiter' \in [Conns -> Readers \union {Nobody}]
        /\ rpc' \in [Readers -> {"idle", "register", "waiting", "resuming"}]
        /\ read_error' \in [Conns -> {"none", "canceled", "reset", "start"}]
        /\ read_started' \in [Conns -> BOOLEAN]
    BY <1>0, <2>1, Zenon DEF WakeReader, ReadTypes
  <2>3. ReadTypes'
    BY <1>0, <2>2, Zenon DEF ReadTypes
  <2>4. Something(c)' /\ ClosedIsSeen(c)'
    BY <1>0, <2>1, Zenon DEF Something, ClosedIsSeen, ReadTypes
  <2>5. ReadBytes(c)'
    BY <1>0, Zenon DEF ReadBytes
  <2>6. \A d \in Conns \ {c} :
          /\ handle'[d] = handle[d] /\ read_started'[d] = read_started[d]
          /\ read_error'[d] = read_error[d]
    BY <1>0, <2>1, Zenon DEF ReadTypes, PeerTypes
  <2> QED BY <2>1, <2>3, <2>4, <2>5, <2>6, WakeMoves, Zenon
<1> QED BY <1>1, <1>2, Zenon

----------------------------------------------------------------------------
(* Writing. *)

\* The requests of the writers that a step leaves alone.
LEMMA RequestKept ==
    ASSUME NEW v \in Writers, NEW c \in Conns, NEW k, Request(c, v, k),
           wpc'[v] = wpc[v], at'[v] = at[v], wire'[c][v] = wire[c][v]
    PROVE  wpc'[v] = "waiting" /\ at'[v] = c /\ Len(wire'[c][v]) = WriteLen - k
  BY Zenon DEF Request

LEMMA QueueKept ==
    ASSUME WriteInv, NEW w \in Writers, NEW c \in Conns,
           \A v \in Writers \ {w} :
              wpc'[v] = wpc[v] /\ at'[v] = at[v] /\ wire'[c][v] = wire[c][v],
           \A i \in 1 .. Len(writeQ[c]) : writeQ[c][i][1] # w,
           writeQ'[c] = writeQ[c]
    PROVE  Queued(c)'
<1>1. Queued(c) /\ \A i \in 1 .. Len(writeQ[c]) : writeQ[c][i][1] \in Writers
  BY Entries, Zenon DEF WriteInv
<1>0. \A i \in 1 .. Len(writeQ[c]) : writeQ[c][i][2] \in 0 .. WriteLen
  BY Entries, Zenon DEF WriteInv
<1>2. ASSUME NEW i \in 1 .. Len(writeQ'[c])
      PROVE  /\ wpc'[writeQ'[c][i][1]] = "waiting" /\ at'[writeQ'[c][i][1]] = c
             /\ Len(wire'[c][writeQ'[c][i][1]]) = WriteLen - writeQ'[c][i][2]
  <2>1. PICK v \in Writers, k \in 0 .. WriteLen : v = writeQ[c][i][1] /\ k = writeQ[c][i][2]
    BY <1>0, <1>1, Zenon
  <2>2. Request(c, v, k) /\ v # w
    BY <1>1, <2>1, Zenon DEF Queued
  <2>3. wpc'[v] = "waiting" /\ at'[v] = c /\ Len(wire'[c][v]) = WriteLen - k
    BY <2>2, RequestKept
  <2> QED BY <2>1, <2>3, Zenon
<1>3. \A i, j \in 1 .. Len(writeQ'[c]) : writeQ'[c][i][1] = writeQ'[c][j][1] => i = j
  BY <1>1, Zenon DEF Queued
<1> QED BY <1>2, <1>3, Zenon DEF Queued, Request

\* A step of writer w on stream c keeps the invariant of all the others.
LEMMA WriterMoves ==
    ASSUME WriteInv, WriteTypes', NEW w \in Writers, NEW c \in Conns,
           wpc[w] = "waiting" => at[w] = c,
           \A v \in Writers \ {w} :
              /\ wpc'[v] = wpc[v] /\ written'[v] = written[v] /\ result'[v] = result[v]
              /\ at'[v] = at[v] /\ \A d \in Conns : wire'[d][v] = wire[d][v],
           \A d \in Conns \ {c} : writeQ'[d] = writeQ[d],
           Sent(w)', Queued(c)'
    PROVE  WriteInv'
<1>1. ASSUME NEW v \in Writers PROVE Sent(v)'
  <2>1. CASE v # w
    <3>1. Sent(v)
      BY Zenon DEF WriteInv
    <3> QED BY <2>1, <3>1 DEF Sent
  <2> QED BY <2>1, Zenon
<1>2. ASSUME NEW d \in Conns PROVE Queued(d)'
  <2>1. CASE d # c
    <3>1. Queued(d) /\ \A i \in 1 .. Len(writeQ[d]) : writeQ[d][i][1] \in Writers
      BY Entries, Zenon DEF WriteInv
    <3>2. \A i \in 1 .. Len(writeQ[d]) : writeQ[d][i][1] # w
      <4>1. ASSUME NEW i \in 1 .. Len(writeQ[d]) PROVE writeQ[d][i][1] # w
        <5>1. wpc[writeQ[d][i][1]] = "waiting" /\ at[writeQ[d][i][1]] = d
          BY <3>1, <4>1, Zenon DEF Queued, Request
        <5> QED BY <2>1, <5>1, Zenon
      <4> QED BY <4>1, Zenon
    <3>3. writeQ'[d] = writeQ[d]
      BY <2>1, Zenon
    <3>4. \A v \in Writers \ {w} : wpc'[v] = wpc[v] /\ at'[v] = at[v] /\ wire'[d][v] = wire[d][v]
      BY Zenon
    <3> QED BY <3>2, <3>3, <3>4, QueueKept, Zenon
  <2> QED BY <2>1, Zenon
<1> QED BY <1>1, <1>2, Zenon DEF WriteInv

\* The queue of c when a writer that is not in it stays out of it, or joins it.
LEMMA NotQueued ==
    ASSUME WriteInv, NEW c \in Conns, NEW w \in Writers, wpc[w] # "waiting"
    PROVE  \A i \in 1 .. Len(writeQ[c]) : writeQ[c][i][1] \in Writers \ {w}
<1>1. Queued(c) /\ \A i \in 1 .. Len(writeQ[c]) : writeQ[c][i][1] \in Writers
  BY Entries, Zenon DEF WriteInv
<1> QED BY <1>1, Zenon DEF Queued, Request

LEMMA StaysOut ==
    ASSUME WriteInv, NEW w \in Writers, NEW c \in Conns, wpc[w] # "waiting",
           \A v \in Writers \ {w} :
              wpc'[v] = wpc[v] /\ at'[v] = at[v] /\ \A d \in Conns : wire'[d][v] = wire[d][v],
           writeQ'[c] = writeQ[c]
    PROVE  Queued(c)'
<1>1. \A i \in 1 .. Len(writeQ[c]) : writeQ[c][i][1] # w
  BY NotQueued
<1> QED BY <1>1, QueueKept, Zenon

LEMMA QueuedIs ==
    ASSUME NEW c \in Conns, NEW p, writeQ'[c] = p,
           \A i \in 1 .. Len(p) : /\ wpc'[p[i][1]] = "waiting" /\ at'[p[i][1]] = c
                                  /\ Len(wire'[c][p[i][1]]) = WriteLen - p[i][2],
           \A i, j \in 1 .. Len(p) : p[i][1] = p[j][1] => i = j
    PROVE  Queued(c)'
  BY Zenon DEF Queued, Request

LEMMA Joins ==
    ASSUME WriteInv, NEW w \in Writers, NEW c \in Conns, wpc[w] # "waiting",
           NEW k \in 0 .. WriteLen,
           \A v \in Writers \ {w} :
              wpc'[v] = wpc[v] /\ at'[v] = at[v] /\ \A d \in Conns : wire'[d][v] = wire[d][v],
           writeQ' = [writeQ EXCEPT ![c] = Append(@, <<w, k>>)],
           wpc'[w] = "waiting", at'[w] = c, Len(wire'[c][w]) = WriteLen - k
    PROVE  Queued(c)' /\ writeQ' \in [Conns -> Seq(Writers \X (0 .. WriteLen))]
<1> DEFINE q == writeQ[c]
           e == <<w, k>>
           S == Writers \X (0 .. WriteLen)
<1>0. q \in Seq(S) /\ e \in S /\ Len(q) \in Nat
  BY Entries, Zenon DEF WriteInv
<1>1. Queued(c) /\ \A i \in 1 .. Len(q) : q[i][1] \in Writers \ {w}
  BY NotQueued, Zenon DEF WriteInv
<1>2. e[1] = w /\ e[2] = k
  BY Zenon
<1>3. writeQ \in [Conns -> Seq(S)] /\ writeQ' = [writeQ EXCEPT ![c] = Append(q, e)]
  BY Zenon DEF WriteInv, WriteTypes
<1> HIDE DEF S, e
<1>4. /\ Append(q, e) \in Seq(S) /\ Len(Append(q, e)) = Len(q) + 1
      /\ \A i \in 1 .. Len(q) : Append(q, e)[i] = q[i]
      /\ Append(q, e)[Len(q) + 1] = e
  BY <1>0
<1> DEFINE p == Append(q, e)
<1> HIDE DEF p
<1>5. writeQ' \in [Conns -> Seq(S)] /\ writeQ'[c] = p
  BY <1>3, <1>4 DEF p
<1>6. ASSUME NEW i \in 1 .. Len(p)
      PROVE  /\ wpc'[p[i][1]] = "waiting" /\ at'[p[i][1]] = c
             /\ Len(wire'[c][p[i][1]]) = WriteLen - p[i][2]
  <2>1. CASE i \in 1 .. Len(q)
    <3>1. PICK v \in Writers \ {w}, h \in 0 .. WriteLen : v = q[i][1] /\ h = q[i][2]
      BY <1>1, <2>1, Entries, Zenon DEF WriteInv
    <3>2. p[i] = q[i]
      BY <1>4, <2>1, Zenon DEF p
    <3>3. Request(c, v, h)
      BY <1>1, <2>1, <3>1, Zenon DEF Queued
    <3>4. wpc'[v] = "waiting" /\ at'[v] = c /\ Len(wire'[c][v]) = WriteLen - h
      BY <3>3, RequestKept, Zenon
    <3> QED BY <3>1, <3>2, <3>4, Zenon
  <2>2. CASE i = Len(q) + 1
    BY <1>2, <1>4, <2>2, Zenon DEF p
  <2> QED BY <1>0, <1>4, <2>1, <2>2 DEF p
<1>7. ASSUME NEW i \in 1 .. Len(p), NEW j \in 1 .. Len(p), p[i][1] = p[j][1] PROVE i = j
  <2>1. \A n \in 1 .. Len(q) : p[n] = q[n] /\ p[n][1] # w
    BY <1>1, <1>4, Zenon DEF p
  <2>2. p[Len(q) + 1][1] = w /\ Len(p) = Len(q) + 1
    BY <1>2, <1>4, Zenon DEF p
  <2>3. \A n, m \in 1 .. Len(q) : q[n][1] = q[m][1] => n = m
    BY <1>1, Zenon DEF Queued
  <2> HIDE DEF q
  <2>4. CASE i \in 1 .. Len(q) /\ j \in 1 .. Len(q)
    BY <1>7, <2>1, <2>3, <2>4, Zenon
  <2>5. CASE i = Len(q) + 1 \/ j = Len(q) + 1
    BY <1>0, <1>7, <2>1, <2>2, <2>5
  <2> QED BY <1>0, <2>2, <2>4, <2>5
<1> HIDE DEF q
<1>8. \A i, j \in 1 .. Len(p) : p[i][1] = p[j][1] => i = j
  BY <1>7, Zenon
<1>9. writeQ'[c] = p
  BY <1>5, Zenon
<1>10. Queued(c)'
  BY <1>6, <1>8, <1>9, QueuedIs
<1> QED BY <1>5, <1>10, Zenon DEF S

\* The next bytes of w's buffer go out.
Longer(b, m, n) == b \o Span(m + 1, n)
LEMMA NextBytes ==
    ASSUME WriteInv, NEW w \in Writers, NEW c \in Conns, NEW m \in Nat, NEW n \in m .. WriteLen,
           Len(wire[c][w]) = m
    PROVE  Longer(wire[c][w], m, n) = Span(1, n)
<1>1. n \in Nat /\ m <= n
  BY StreamAssumption
<1>2. wire[c][w] = Span(1, m)
  BY Zenon DEF WriteInv, Sent
<1>3. Span(1, m) \o Span(m + 1, n) = Span(1, n)
  BY <1>1, SpanJoin, Zenon
<1> QED BY <1>2, <1>3, Zenon DEF Longer

LEMMA WireGrows ==
    ASSUME WriteInv, NEW w \in Writers, NEW c \in Conns, NEW n \in 0 .. WriteLen,
           wire' = [wire EXCEPT ![c][w] = Span(1, n)]
    PROVE  /\ wire' \in [Conns -> [Writers -> Seq(1 .. WriteLen)]]
           /\ wire'[c][w] = Span(1, n) /\ Len(wire'[c][w]) = n
           /\ \A d \in Conns, v \in Writers : d # c \/ v # w => wire'[d][v] = wire[d][v]
<1>1. n \in Nat /\ n <= WriteLen /\ WriteLen \in Nat
  BY StreamAssumption
<1>4. Span(1, n) \in Seq(1 .. WriteLen) /\ Len(Span(1, n)) = n + 1 - 1
  <2>1. 1 \in Nat \ {0} /\ 1 <= n + 1
    BY <1>1
  <2> QED BY <1>1, <2>1, SpanSeq, Zenon
<1> DEFINE b == Span(1, n)
           S == 1 .. WriteLen
<1>5. wire' = [wire EXCEPT ![c][w] = b]
  BY Zenon
<1>6. b \in Seq(1 .. WriteLen) /\ Len(b) = n
  BY <1>1, <1>4
<1>7. wire \in [Conns -> [Writers -> Seq(S)]] /\ b \in Seq(S)
  BY <1>6, Zenon DEF WriteInv, WriteTypes
<1> DEFINE f == [wire[c] EXCEPT ![w] = b]
<1> HIDE DEF b, S
<1>a. wire[c] \in [Writers -> Seq(S)]
  BY <1>7, Zenon
<1>b. f \in [Writers -> Seq(S)] /\ f[w] = b /\ \A v \in Writers \ {w} : f[v] = wire[c][v]
  BY <1>7, <1>a, Zenon
<1>c. wire' = [wire EXCEPT ![c] = f]
  BY <1>5, Zenon
<1> HIDE DEF f
<1>8. wire' \in [Conns -> [Writers -> Seq(S)]]
  BY <1>7, <1>b, <1>c, Zenon
<1>9. /\ wire'[c][w] = b
      /\ \A d \in Conns, v \in Writers : d # c \/ v # w => wire'[d][v] = wire[d][v]
  BY <1>7, <1>b, <1>c, Zenon
<1> QED BY <1>6, <1>8, <1>9, Zenon DEF b, S

LEMMA SentNow ==
    ASSUME NEW w \in Writers, NEW c \in Conns, NEW n \in 0 .. WriteLen,
           at'[w] = c, wpc'[w] # "idle",
           wire'[c][w] = Span(1, n), Len(wire'[c][w]) = n,
           \A d \in Conns \ {c} : wire'[d][w] = <<>>,
           written'[w] \in 0 .. n,
           wpc'[w] = "start" => n = 0,
           wpc'[w] = "resuming" /\ result'[w] # 0 => n = written'[w] + result'[w],
           wpc'[w] = "done" => n = WriteLen
    PROVE  Sent(w)'
<1>1. \A d \in Conns : wire'[d][w] = Span(1, Len(wire'[d][w]))
  <2>1. Len(<<>>) = 0
    BY Zenon
  <2> QED BY <2>1, SpanEmpty, Zenon
<1>2. n <= WriteLen /\ n >= written'[w] /\ (wpc'[w] = "start" => written'[w] = 0)
  BY StreamAssumption
<1> QED BY <1>1, <1>2, Zenon DEF Sent

LEMMA PushStep ==
    ASSUME PeerTypes, WriteInv, NEW w \in Writers, NEW c \in Conns, NEW m \in 0 .. WriteLen,
           Push(w, c, m), wpc[w] # "waiting", Len(wire[c][w]) = m,
           \A d \in Conns \ {c} : wire[d][w] = <<>>,
           \A v \in Writers : at'[v] = IF v = w THEN c ELSE at[v],
           result' = result, shut' = shut
    PROVE  WriteInv'
<1> USE StreamAssumption
<1>0. WriteTypes /\ Sent(w)
  BY Zenon DEF WriteInv
<1> DEFINE Goes(n) ==
             /\ \/ wire' = wire /\ n = m
                \/ wire' = [wire EXCEPT ![c][w] = @ \o Span(m + 1, n)]
             /\ written' = [written EXCEPT ![w] = n]
             /\ \/ wpc' = [wpc EXCEPT ![w] = "failed"] /\ writeQ' = writeQ
                \/ n = WriteLen /\ wpc' = [wpc EXCEPT ![w] = "done"] /\ writeQ' = writeQ
                \/ /\ wpc' = [wpc EXCEPT ![w] = "waiting"]
                   /\ writeQ' = [writeQ EXCEPT ![c] = Append(@, <<w, WriteLen - n>>)]
<1>1. PICK n \in m .. WriteLen : Goes(n)
  <2>1. CASE ~IsOpen(c)
    <3>1. m \in m .. WriteLen /\ Goes(m)
      BY <2>1 DEF Push
    <3> QED BY <3>1, Zenon
  <2>2. CASE IsOpen(c)
    <3>1. PICK n \in m .. WriteLen :
            /\ wire' = [wire EXCEPT ![c][w] = @ \o Span(m + 1, n)]
            /\ written' = [written EXCEPT ![w] = n]
            /\ \/ n = WriteLen /\ wpc' = [wpc EXCEPT ![w] = "done"] /\ UNCHANGED writeQ
               \/ /\ n < WriteLen /\ c \notin shut
                  /\ wpc' = [wpc EXCEPT ![w] = "waiting"]
                  /\ writeQ' = [writeQ EXCEPT ![c] = Append(@, <<w, WriteLen - n>>)]
               \/ /\ n < WriteLen /\ (c \in shut \/ peerEnd[c] = "reset")
                  /\ wpc' = [wpc EXCEPT ![w] = "failed"]
                  /\ UNCHANGED writeQ
      BY <2>2, Zenon DEF Push
    <3> QED BY <3>1, Zenon
  <2> QED BY <2>1, <2>2, Zenon
<1>2. n \in Nat /\ m \in Nat /\ n \in 0 .. WriteLen /\ WriteLen - n \in 0 .. WriteLen
  OBVIOUS
<1>3. /\ wire' \in [Conns -> [Writers -> Seq(1 .. WriteLen)]]
      /\ wire'[c][w] = Span(1, n) /\ Len(wire'[c][w]) = n
      /\ \A d \in Conns, v \in Writers : d # c \/ v # w => wire'[d][v] = wire[d][v]
  <2>1. CASE wire' = wire /\ n = m
    BY <1>0, <2>1, Zenon DEF WriteTypes, Sent
  <2>2. CASE wire' = [wire EXCEPT ![c][w] = @ \o Span(m + 1, n)]
    <3>1. Longer(wire[c][w], m, n) = Span(1, n)
      BY <1>2, NextBytes, Zenon
    <3>2. wire' = [wire EXCEPT ![c][w] = Longer(wire[c][w], m, n)]
      BY <2>2, Zenon DEF Longer
    <3>3. wire' = [wire EXCEPT ![c][w] = Span(1, n)]
      BY <3>1, <3>2, Zenon
    <3> QED BY <1>2, <3>3, WireGrows, Zenon
  <2> QED BY <1>1, <2>1, <2>2, Zenon
<1>4. /\ written' \in [Writers -> 0 .. WriteLen] /\ written'[w] = n
      /\ \A v \in Writers \ {w} : written'[v] = written[v]
  BY <1>0, <1>1, <1>2, Zenon DEF WriteTypes
<1>5. PICK x \in {"failed", "done", "waiting"} : wpc' = [wpc EXCEPT ![w] = x]
  BY <1>1, Zenon
<1>6. /\ wpc' \in [Writers -> {"idle", "start", "waiting", "resuming", "done", "failed"}]
      /\ wpc'[w] = x /\ \A v \in Writers \ {w} : wpc'[v] = wpc[v]
  BY <1>0, <1>5, Zenon DEF WriteTypes
<1>7. x = "done" => n = WriteLen
  BY <1>0, <1>1, <1>6, Zenon DEF WriteTypes
<1>8. \A v \in Writers \ {w} :
        /\ wpc'[v] = wpc[v] /\ written'[v] = written[v] /\ result'[v] = result[v]
        /\ at'[v] = at[v] /\ \A d \in Conns : wire'[d][v] = wire[d][v]
  BY <1>3, <1>4, <1>6, Zenon
<1>9. Sent(w)'
  <2>1. at'[w] = c /\ \A d \in Conns \ {c} : wire'[d][w] = <<>>
    BY <1>3, Zenon
  <2>2. written'[w] \in 0 .. n
    BY <1>2, <1>4
  <2> QED BY <1>2, <1>3, <1>6, <1>7, <2>1, <2>2, SentNow, Zenon
<1>10. Queued(c)' /\ writeQ' \in [Conns -> Seq(Writers \X (0 .. WriteLen))]
  <2>1. CASE writeQ' = writeQ
    <3>1. Queued(c)'
      BY <1>8, <2>1, StaysOut, Zenon
    <3> QED BY <1>0, <2>1, <3>1, Zenon DEF WriteTypes
  <2>2. CASE /\ wpc' = [wpc EXCEPT ![w] = "waiting"]
             /\ writeQ' = [writeQ EXCEPT ![c] = Append(@, <<w, WriteLen - n>>)]
    <3>1. wpc'[w] = "waiting"
      BY <1>0, <2>2, Zenon DEF WriteTypes
    <3> DEFINE k == WriteLen - n
    <3>2. k \in 0 .. WriteLen /\ Len(wire'[c][w]) = WriteLen - k
      BY <1>2, <1>3
    <3>3. writeQ' = [writeQ EXCEPT ![c] = Append(@, <<w, k>>)] /\ at'[w] = c
      BY <2>2, Zenon
    <3>4. \A v \in Writers \ {w} :
            wpc'[v] = wpc[v] /\ at'[v] = at[v] /\ \A d \in Conns : wire'[d][v] = wire[d][v]
      BY <1>8, Zenon
    <3> HIDE DEF k
    <3> QED BY <3>1, <3>2, <3>3, <3>4, Joins, Zenon
  <2> QED BY <1>1, <2>1, <2>2, Zenon
<1>11. WriteTypes'
  BY <1>0, <1>3, <1>4, <1>6, <1>10, Zenon DEF WriteTypes
<1>12. \A d \in Conns \ {c} : writeQ'[d] = writeQ[d]
  BY <1>0, <1>1, Zenon DEF WriteTypes
<1> QED BY <1>8, <1>9, <1>10, <1>11, <1>12, WriterMoves, Zenon

LEMMA WriteAllStep ==
    ASSUME PeerTypes, WriteInv, NEW w \in Writers, NEW c \in Conns, WriteAll(w, c)
    PROVE  WriteInv'
<1> USE StreamAssumption
<1>0. WriteTypes /\ Sent(w)
  BY Zenon DEF WriteInv
<1>1. /\ wpc[w] = "idle" /\ result' = result /\ shut' = shut
      /\ \A v \in Writers : at'[v] = IF v = w THEN c ELSE at[v]
  BY Zenon DEF WriteAll, PeerTypes
<1>2. written[w] = 0 /\ \A d \in Conns : wire[d][w] = <<>>
  BY <1>0, <1>1, Zenon DEF Sent
<1>3. Len(wire[c][w]) = 0
  BY <1>2
<1>4. CASE Push(w, c, 0)
  <2>1. 0 \in 0 .. WriteLen
    OBVIOUS
  <2> QED BY <1>1, <1>2, <1>3, <1>4, <2>1, PushStep, Zenon
<1>5. CASE wpc' = [wpc EXCEPT ![w] = "start"] /\ UNCHANGED <<written, wire, writeQ>>
  <2>1. WriteTypes'
    BY <1>0, <1>1, <1>5, Zenon DEF WriteTypes
  <2>2. wpc'[w] = "start" /\ \A v \in Writers \ {w} : wpc'[v] = wpc[v]
    BY <1>0, <1>5, Zenon DEF WriteTypes
  <2>3. Sent(w)'
    <3>1. 0 \in 0 .. WriteLen /\ written'[w] \in 0 .. 0 /\ at'[w] = c
      BY <1>1, <1>2, <1>5
    <3>2. wire'[c][w] = Span(1, 0) /\ Len(wire'[c][w]) = 0 /\ \A d \in Conns \ {c} : wire'[d][w] = <<>>
      BY <1>2, <1>3, <1>5, SpanEmpty, Zenon
    <3> QED BY <2>2, <3>1, <3>2, SentNow, Zenon
  <2>4. \A v \in Writers \ {w} :
          /\ wpc'[v] = wpc[v] /\ written'[v] = written[v] /\ result'[v] = result[v]
          /\ at'[v] = at[v] /\ \A d \in Conns : wire'[d][v] = wire[d][v]
    BY <1>1, <1>5, <2>2, Zenon
  <2>5. Queued(c)'
    BY <1>1, <1>5, <2>4, StaysOut, Zenon
  <2> QED BY <1>1, <1>5, <2>1, <2>3, <2>4, <2>5, WriterMoves, Zenon
<1> QED BY <1>4, <1>5, Zenon DEF WriteAll

LEMMA StartStep ==
    ASSUME PeerTypes, WriteInv, NEW w \in Writers, StartPosted(w)
    PROVE  WriteInv'
<1> USE StreamAssumption
<1>0. WriteTypes /\ Sent(w)
  BY Zenon DEF WriteInv
<1>1. /\ wpc[w] = "start" /\ shut' = shut /\ written' = written /\ at' = at
  BY Zenon DEF StartPosted
<1>2. PICK c \in Conns : c = at[w]
  BY <1>0, <1>1, Zenon DEF Sent
<1>3. /\ Len(wire[c][w]) = 0 /\ written[w] = 0 /\ wire[c][w] = Span(1, 0)
      /\ \A d \in Conns \ {c} : wire[d][w] = <<>>
  BY <1>0, <1>1, <1>2, Zenon DEF Sent
<1>4. ASSUME NEW n \in 0 .. WriteLen, NEW x \in {"resuming", "waiting"},
             wpc' = [wpc EXCEPT ![w] = x],
             \/ wire' = wire /\ n = 0
             \/ wire' = [wire EXCEPT ![c][w] = Span(1, n)],
             \/ result' = result /\ x = "waiting"
             \/ result' = [result EXCEPT ![w] = n],
             \/ writeQ' = writeQ
             \/ /\ writeQ' = [writeQ EXCEPT ![c] = Append(@, <<w, WriteLen>>)]
                /\ x = "waiting" /\ n = 0
      PROVE  WriteInv'
  <2>1. /\ wire' \in [Conns -> [Writers -> Seq(1 .. WriteLen)]]
        /\ wire'[c][w] = Span(1, n) /\ Len(wire'[c][w]) = n
        /\ \A d \in Conns, v \in Writers : d # c \/ v # w => wire'[d][v] = wire[d][v]
    <3>1. CASE wire' = wire /\ n = 0
      BY <1>0, <1>3, <3>1, Zenon DEF WriteTypes
    <3>2. CASE wire' = [wire EXCEPT ![c][w] = Span(1, n)]
      BY <3>2, WireGrows, Zenon
    <3> QED BY <1>4, <3>1, <3>2, Zenon
  <2>2. /\ wpc' \in [Writers -> {"idle", "start", "waiting", "resuming", "done", "failed"}]
        /\ wpc'[w] = x /\ \A v \in Writers \ {w} : wpc'[v] = wpc[v]
    BY <1>0, <1>4, Zenon DEF WriteTypes
  <2>3. /\ result' \in [Writers -> 0 .. WriteLen] /\ (x = "resuming" => result'[w] = n)
        /\ \A v \in Writers \ {w} : result'[v] = result[v]
    <3>1. CASE result' = result /\ x = "waiting"
      BY <1>0, <3>1, Zenon DEF WriteTypes
    <3>2. CASE result' = [result EXCEPT ![w] = n]
      BY <1>0, <3>2, Zenon DEF WriteTypes
    <3> QED BY <1>4, <3>1, <3>2, Zenon
  <2>4. \A v \in Writers \ {w} :
          /\ wpc'[v] = wpc[v] /\ written'[v] = written[v] /\ result'[v] = result[v]
          /\ at'[v] = at[v] /\ \A d \in Conns : wire'[d][v] = wire[d][v]
    BY <1>1, <2>1, <2>2, <2>3, Zenon
  <2>5. Sent(w)'
    <3>1. at'[w] = c /\ written'[w] \in 0 .. n /\ written'[w] = 0
      BY <1>1, <1>2, <1>3
    <3>2. \A d \in Conns \ {c} : wire'[d][w] = <<>>
      BY <1>3, <2>1, Zenon
    <3>3. wpc'[w] = "resuming" => n = written'[w] + result'[w]
      BY <2>2, <2>3, <3>1
    <3> QED BY <2>1, <2>2, <3>1, <3>2, <3>3, SentNow, Zenon
  <2>6. Queued(c)' /\ writeQ' \in [Conns -> Seq(Writers \X (0 .. WriteLen))]
    <3>1. CASE writeQ' = writeQ
      <4>1. Queued(c)'
        BY <1>1, <2>4, <3>1, StaysOut, Zenon
      <4> QED BY <1>0, <3>1, <4>1, Zenon DEF WriteTypes
    <3>2. CASE /\ writeQ' = [writeQ EXCEPT ![c] = Append(@, <<w, WriteLen>>)]
               /\ x = "waiting" /\ n = 0
      <4>1. /\ wpc'[w] = "waiting" /\ at'[w] = c /\ WriteLen \in 0 .. WriteLen
            /\ Len(wire'[c][w]) = WriteLen - WriteLen /\ wpc[w] # "waiting"
        BY <1>1, <1>2, <2>1, <2>2, <3>2
      <4>2. \A v \in Writers \ {w} :
              wpc'[v] = wpc[v] /\ at'[v] = at[v] /\ \A d \in Conns : wire'[d][v] = wire[d][v]
        BY <2>4, Zenon
      <4> QED BY <3>2, <4>1, <4>2, Joins, Zenon
    <3> QED BY <1>4, <3>1, <3>2, Zenon
  <2>7. WriteTypes'
    BY <1>0, <1>1, <2>1, <2>2, <2>3, <2>6, Zenon DEF WriteTypes
  <2>8. \A d \in Conns \ {c} : writeQ'[d] = writeQ[d]
    BY <1>0, <1>4, Zenon DEF WriteTypes
  <2>9. wpc[w] # "waiting"
    BY <1>1, Zenon
  <2> QED BY <2>4, <2>5, <2>6, <2>7, <2>8, <2>9, WriterMoves, Zenon
<1>5. CASE /\ wpc' = [wpc EXCEPT ![w] = "resuming"]
           /\ result' = [result EXCEPT ![w] = 0] /\ UNCHANGED <<wire, writeQ>>
  <2>1. 0 \in 0 .. WriteLen
    OBVIOUS
  <2> QED BY <1>4, <1>5, <2>1, Zenon
<1>6. CASE \E n \in 1 .. WriteLen :
             /\ wire' = [wire EXCEPT ![c][w] = @ \o Span(1, n)]
             /\ result' = [result EXCEPT ![w] = n]
             /\ wpc' = [wpc EXCEPT ![w] = "resuming"]
             /\ writeQ' = writeQ
  <2>1. PICK n \in 1 .. WriteLen :
             /\ wire' = [wire EXCEPT ![c][w] = @ \o Span(1, n)]
             /\ result' = [result EXCEPT ![w] = n]
             /\ wpc' = [wpc EXCEPT ![w] = "resuming"]
             /\ writeQ' = writeQ
    BY <1>6, Zenon
  <2>2. n \in 0 .. WriteLen /\ 0 \in Nat
    OBVIOUS
  <2>3. Longer(wire[c][w], 0, n) = Span(1, n)
    BY <1>3, <2>2, NextBytes
  <2>4. wire' = [wire EXCEPT ![c][w] = Longer(wire[c][w], 0, n)]
    BY <2>1 DEF Longer
  <2>5. wire' = [wire EXCEPT ![c][w] = Span(1, n)]
    BY <2>3, <2>4, Zenon
  <2> QED BY <1>4, <2>1, <2>2, <2>5, Zenon
<1>7. CASE /\ writeQ' = [writeQ EXCEPT ![c] = Append(@, <<w, WriteLen>>)]
           /\ wpc' = [wpc EXCEPT ![w] = "waiting"]
           /\ UNCHANGED <<wire, result>>
  <2>1. 0 \in 0 .. WriteLen
    OBVIOUS
  <2> QED BY <1>4, <1>7, <2>1, Zenon
<1> QED BY <1>2, <1>5, <1>6, <1>7, Zenon DEF StartPosted

LEMMA ResumeStep ==
    ASSUME PeerTypes, WriteInv, NEW w \in Writers, WriteResume(w)
    PROVE  WriteInv'
<1> USE StreamAssumption
<1>0. WriteTypes /\ Sent(w)
  BY Zenon DEF WriteInv
<1>1. /\ wpc[w] = "resuming" /\ shut' = shut /\ result' = result /\ at' = at
  BY Zenon DEF WriteResume
<1>2. PICK c \in Conns : c = at[w]
  BY <1>0, <1>1, Zenon DEF Sent
<1>3. /\ wire[c][w] = Span(1, Len(wire[c][w])) /\ written[w] \in Nat /\ result[w] \in Nat
      /\ \A d \in Conns \ {c} : wire[d][w] = <<>>
      /\ Len(wire[c][w]) <= WriteLen /\ Len(wire[c][w]) >= written[w]
      /\ result[w] # 0 => Len(wire[c][w]) = written[w] + result[w]
  BY <1>0, <1>1, <1>2 DEF Sent, WriteTypes
<1>4. Len(wire[c][w]) \in 0 .. WriteLen
  <2>1. wire[c][w] \in Seq(1 .. WriteLen)
    BY <1>0 DEF WriteTypes
  <2>2. Len(wire[c][w]) \in Nat
    BY <2>1
  <2> QED BY <1>3, <2>2
<1>5. ASSUME NEW x \in {"failed", "done"}, wpc' = [wpc EXCEPT ![w] = x],
             wire' = wire, writeQ' = writeQ,
             \/ x = "failed" /\ written' = written
             \/ written' = [written EXCEPT ![w] = WriteLen] /\ Len(wire[c][w]) = WriteLen
      PROVE  WriteInv'
  <2>1. /\ wpc' \in [Writers -> {"idle", "start", "waiting", "resuming", "done", "failed"}]
        /\ wpc'[w] = x /\ \A v \in Writers \ {w} : wpc'[v] = wpc[v]
    BY <1>0, <1>5, Zenon DEF WriteTypes
  <2>2. /\ written' \in [Writers -> 0 .. WriteLen] /\ written'[w] \in 0 .. Len(wire[c][w])
        /\ \A v \in Writers \ {w} : written'[v] = written[v]
    <3>1. CASE written' = written
      BY <1>0, <1>3, <1>4, <3>1 DEF WriteTypes
    <3>2. CASE written' = [written EXCEPT ![w] = WriteLen] /\ Len(wire[c][w]) = WriteLen
      BY <1>0, <3>2 DEF WriteTypes
    <3> QED BY <1>5, <3>1, <3>2, Zenon
  <2>3. WriteTypes'
    BY <1>0, <1>1, <1>5, <2>1, <2>2, Zenon DEF WriteTypes
  <2>4. \A v \in Writers \ {w} :
          /\ wpc'[v] = wpc[v] /\ written'[v] = written[v] /\ result'[v] = result[v]
          /\ at'[v] = at[v] /\ \A d \in Conns : wire'[d][v] = wire[d][v]
    BY <1>1, <1>5, <2>1, <2>2, Zenon
  <2>5. Queued(c)'
    BY <1>1, <1>5, <2>4, StaysOut, Zenon
  <2>6. Sent(w)'
    <3> DEFINE n == Len(wire[c][w])
    <3>1. /\ n \in 0 .. WriteLen /\ wire'[c][w] = Span(1, n) /\ Len(wire'[c][w]) = n
          /\ \A d \in Conns \ {c} : wire'[d][w] = <<>>
      BY <1>3, <1>4, <1>5, Zenon
    <3>2. written'[w] \in 0 .. n /\ at'[w] = c /\ (x = "done" => n = WriteLen)
      BY <1>1, <1>2, <1>5, <2>2, Zenon
    <3> HIDE DEF n
    <3> QED BY <2>1, <3>1, <3>2, SentNow, Zenon
  <2>7. wpc[w] # "waiting"
    BY <1>1, Zenon
  <2> QED BY <1>5, <2>3, <2>4, <2>5, <2>6, <2>7, WriterMoves, Zenon
<1>6. CASE result[w] = 0
  BY <1>5, <1>6, Zenon DEF WriteResume
<1>7. CASE result[w] # 0 /\ written[w] + result[w] = WriteLen
  BY <1>3, <1>5, <1>7, Zenon DEF WriteResume
<1>8. CASE result[w] # 0 /\ written[w] + result[w] # WriteLen
  <2> DEFINE m == written[w] + result[w]
  <2>1. Push(w, c, m)
    BY <1>2, <1>8, Zenon DEF WriteResume
  <2>2. m \in 0 .. WriteLen /\ Len(wire[c][w]) = m /\ wpc[w] # "waiting"
    BY <1>1, <1>3, <1>4, <1>8, Zenon
  <2>3. \A v \in Writers : at'[v] = IF v = w THEN c ELSE at[v]
    BY <1>1, <1>2, Zenon
  <2> HIDE DEF m
  <2> QED BY <1>1, <1>3, <2>1, <2>2, <2>3, PushStep, Zenon
<1> QED BY <1>6, <1>7, <1>8, Zenon

\* The request in front of libuv's queue.
LEMMA Front ==
    ASSUME WriteInv, NEW c \in Conns, writeQ[c] # <<>>
    PROVE  \E w \in Writers, k \in 0 .. WriteLen :
             /\ Head(writeQ[c])[1] = w /\ Head(writeQ[c])[2] = k
             /\ Head(writeQ[c]) = writeQ[c][1] /\ Len(writeQ[c]) \in Nat \ {0}
             /\ wpc[w] = "waiting" /\ at[w] = c /\ Len(wire[c][w]) = WriteLen - k
             /\ \A i \in 2 .. Len(writeQ[c]) : writeQ[c][i][1] \in Writers \ {w}
<1>1. /\ writeQ[c] \in Seq(Writers \X (0 .. WriteLen)) /\ Len(writeQ[c]) \in Nat
      /\ \A i \in 1 .. Len(writeQ[c]) :
            writeQ[c][i][1] \in Writers /\ writeQ[c][i][2] \in 0 .. WriteLen
      /\ Queued(c)
  BY Entries, Zenon DEF WriteInv
<1>2. Len(writeQ[c]) # 0 /\ Head(writeQ[c]) = writeQ[c][1]
  BY <1>1
<1>3. 1 \in 1 .. Len(writeQ[c])
  BY <1>1, <1>2
<1>4. PICK w \in Writers, k \in 0 .. WriteLen : w = writeQ[c][1][1] /\ k = writeQ[c][1][2]
  BY <1>1, <1>3, Zenon
<1>5. Request(c, w, k)
  BY <1>1, <1>3, <1>4, Zenon DEF Queued
<1>6. \A i \in 2 .. Len(writeQ[c]) : writeQ[c][i][1] \in Writers \ {w}
  <2>1. \A i \in 1 .. Len(writeQ[c]) : writeQ[c][i][1] = writeQ[c][1][1] => i = 1
    BY <1>1, <1>3, Zenon DEF Queued
  <2>2. \A i \in 2 .. Len(writeQ[c]) : i \in 1 .. Len(writeQ[c]) /\ i # 1
    BY <1>1
  <2> QED BY <1>1, <1>4, <2>1, <2>2, Zenon
<1> QED BY <1>1, <1>2, <1>4, <1>5, <1>6, Zenon DEF Request

LEMMA DrainStep ==
    ASSUME PeerTypes, WriteInv, NEW c \in Conns, Drain(c)
    PROVE  WriteInv'
<1> USE StreamAssumption
<1>0. WriteTypes /\ Queued(c) /\ writeQ[c] # <<>>
  BY Zenon DEF WriteInv, Drain
<1>1. PICK w \in Writers, k \in 0 .. WriteLen :
        /\ Head(writeQ[c])[1] = w /\ Head(writeQ[c])[2] = k
        /\ Head(writeQ[c]) = writeQ[c][1] /\ Len(writeQ[c]) \in Nat \ {0}
        /\ wpc[w] = "waiting" /\ at[w] = c /\ Len(wire[c][w]) = WriteLen - k
        /\ \A i \in 2 .. Len(writeQ[c]) : writeQ[c][i][1] \in Writers \ {w}
  BY <1>0, Front, Zenon
<1>2. /\ k > 0 /\ wire' = [wire EXCEPT ![c][w] = Append(@, WriteLen - k + 1)]
      /\ writeQ' = [writeQ EXCEPT ![c][1] = <<w, k - 1>>]
      /\ shut' = shut /\ wpc' = wpc /\ written' = written /\ result' = result /\ at' = at
  <2>1. Head(writeQ[c])[1] = w /\ Head(writeQ[c])[2] = k
    BY <1>1, Zenon
  <2> QED BY <2>1, Zenon DEF Drain
<1> DEFINE m == WriteLen - k
           n == m + 1
<1>3. m \in Nat /\ n \in 0 .. WriteLen /\ n = WriteLen - (k - 1)
  BY <1>2
<1>4. wire' = [wire EXCEPT ![c][w] = Span(1, n)]
  <2>1. wire[c][w] = Span(1, m)
    BY <1>1 DEF WriteInv, Sent
  <2>2. Append(Span(1, m), m + 1) = Span(1, m + 1)
    BY <1>3, SpanAppend, Zenon
  <2> QED BY <1>2, <2>1, <2>2, Zenon
<1> HIDE DEF m
<1>5. /\ wire' \in [Conns -> [Writers -> Seq(1 .. WriteLen)]]
      /\ wire'[c][w] = Span(1, n) /\ Len(wire'[c][w]) = n
      /\ \A d \in Conns, v \in Writers : d # c \/ v # w => wire'[d][v] = wire[d][v]
  BY <1>3, <1>4, WireGrows, Zenon
<1> DEFINE e == <<w, k - 1>>
           S == Writers \X (0 .. WriteLen)
           q == writeQ[c]
           p == [q EXCEPT ![1] = e]
<1>6. e \in S /\ e[1] = w /\ e[2] = k - 1
  BY <1>2
<1>7. writeQ \in [Conns -> Seq(S)] /\ q \in Seq(S) /\ writeQ' = [writeQ EXCEPT ![c] = p]
  BY <1>0, <1>2, Zenon DEF WriteTypes
<1>8. 1 \in 1 .. Len(q) /\ Len(q) \in Nat
  BY <1>1
<1> HIDE DEF e, S
<1>9. /\ p \in Seq(S) /\ Len(p) = Len(q) /\ p[1] = e
      /\ \A i \in 2 .. Len(q) : p[i] = q[i]
  <2> HIDE DEF q
  <2>1. p \in Seq(S) /\ Len(p) = Len(q) /\ \A j \in 1 .. Len(q) : p[j] = IF j = 1 THEN e ELSE q[j]
    BY <1>6, <1>7, <1>8
  <2> HIDE DEF p
  <2> QED BY <1>8, <2>1
<1> HIDE DEF p
<1>10. writeQ' \in [Conns -> Seq(S)] /\ writeQ'[c] = p /\ \A d \in Conns \ {c} : writeQ'[d] = writeQ[d]
  BY <1>7, <1>9, Zenon
<1>11. WriteTypes'
  BY <1>0, <1>2, <1>5, <1>10, Zenon DEF WriteTypes, S
<1>12. \A v \in Writers \ {w} :
         /\ wpc'[v] = wpc[v] /\ written'[v] = written[v] /\ result'[v] = result[v]
         /\ at'[v] = at[v] /\ \A d \in Conns : wire'[d][v] = wire[d][v]
  BY <1>2, <1>5, Zenon
<1>13. Sent(w)'
  <2>0. Sent(w)
    BY Zenon DEF WriteInv
  <2>a. \A d \in Conns \ {c} : wire[d][w] = <<>>
    BY <1>1, <2>0, Zenon DEF Sent
  <2>1. \A d \in Conns \ {c} : wire'[d][w] = <<>>
    BY <1>5, <2>a, Zenon
  <2>2. written'[w] \in 0 .. n
    <3>1. written[w] \in Nat /\ Len(wire[c][w]) >= written[w]
      BY <1>0, <1>1, <2>0 DEF Sent, WriteTypes
    <3>2. m >= written[w]
      BY <1>1, <3>1, Zenon DEF m
    <3> QED BY <1>2, <1>3, <3>1, <3>2
  <2>3. at'[w] = c /\ wpc'[w] = "waiting"
    BY <1>1, <1>2, Zenon
  <2> HIDE DEF n
  <2> QED BY <1>3, <1>5, <2>1, <2>2, <2>3, SentNow, Zenon
<1>14. ASSUME NEW i \in 1 .. Len(p)
       PROVE  /\ wpc'[p[i][1]] = "waiting" /\ at'[p[i][1]] = c
              /\ Len(wire'[c][p[i][1]]) = WriteLen - p[i][2]
  <2>1. CASE i = 1
    <3>1. p[i][1] = w /\ p[i][2] = k - 1
      BY <1>6, <1>9, <2>1, Zenon
    <3> QED BY <1>1, <1>2, <1>3, <1>5, <3>1, Zenon
  <2>2. CASE i # 1
    <3>1. i \in 2 .. Len(q) /\ i \in 1 .. Len(q)
      BY <1>8, <1>9, <2>2
    <3>2. PICK v \in Writers \ {w}, h \in 0 .. WriteLen : v = q[i][1] /\ h = q[i][2]
      BY <1>0, <1>1, <3>1, Entries, Zenon
    <3>3. p[i] = q[i]
      BY <1>9, <3>1, Zenon
    <3>4. Request(c, v, h)
      BY <1>0, <3>1, <3>2, Zenon DEF Queued
    <3>5. wpc'[v] = "waiting" /\ at'[v] = c /\ Len(wire'[c][v]) = WriteLen - h
      BY <1>12, <3>4, RequestKept
    <3> QED BY <3>2, <3>3, <3>5, Zenon
  <2> QED BY <2>1, <2>2, Zenon
<1>15. \A i, j \in 1 .. Len(p) : p[i][1] = p[j][1] => i = j
  <2>1. \A i \in 1 .. Len(p) : p[i][1] = q[i][1]
    <3> SUFFICES ASSUME NEW i \in 1 .. Len(p) PROVE p[i][1] = q[i][1]
      BY Zenon
    <3>1. CASE i = 1
      BY <1>1, <1>6, <1>9, <3>1, Zenon
    <3>2. CASE i # 1
      BY <1>8, <1>9, <3>2
    <3> QED BY <3>1, <3>2, Zenon
  <2>2. \A i, j \in 1 .. Len(q) : q[i][1] = q[j][1] => i = j
    BY <1>0, Zenon DEF Queued
  <2> HIDE DEF q
  <2> QED BY <1>9, <2>1, <2>2, Zenon
<1>16. Queued(c)'
  <2>1. writeQ'[c] = p
    BY <1>10, Zenon
  <2> QED BY <1>14, <1>15, <2>1, QueuedIs
<1> QED BY <1>1, <1>10, <1>11, <1>12, <1>13, <1>16, WriterMoves, Zenon

LEMMA OnWriteStep ==
    ASSUME PeerTypes, WriteInv, NEW c \in Conns, OnWrite(c)
    PROVE  WriteInv'
<1> USE StreamAssumption
<1>0. WriteTypes /\ Queued(c) /\ writeQ[c] # <<>>
  BY Zenon DEF WriteInv, OnWrite
<1>1. PICK w \in Writers, k \in 0 .. WriteLen :
        /\ Head(writeQ[c])[1] = w /\ Head(writeQ[c])[2] = k
        /\ Head(writeQ[c]) = writeQ[c][1] /\ Len(writeQ[c]) \in Nat \ {0}
        /\ wpc[w] = "waiting" /\ at[w] = c /\ Len(wire[c][w]) = WriteLen - k
        /\ \A i \in 2 .. Len(writeQ[c]) : writeQ[c][i][1] \in Writers \ {w}
  BY <1>0, Front, Zenon
<1>2. /\ wpc' = [wpc EXCEPT ![w] = "resuming"]
      /\ result' = [result EXCEPT ![w] = IF k = 0 THEN WriteLen - written[w] ELSE 0]
      /\ writeQ' = [writeQ EXCEPT ![c] = Tail(writeQ[c])]
      /\ shut' = shut /\ wire' = wire /\ written' = written /\ at' = at
  BY <1>1, Zenon DEF OnWrite
<1>3. Sent(w)
  BY Zenon DEF WriteInv
<1> DEFINE n == Len(wire[c][w])
           r == IF k = 0 THEN WriteLen - written[w] ELSE 0
<1>4. /\ n \in 0 .. WriteLen /\ written[w] \in 0 .. n /\ r \in 0 .. WriteLen
      /\ r # 0 => n = written[w] + r
  <2>1. written[w] \in 0 .. WriteLen /\ n >= written[w] /\ n = WriteLen - k
    BY <1>0, <1>1, <1>3, Zenon DEF Sent, WriteTypes
  <2> HIDE DEF n
  <2> QED BY <2>1
<1>5. result' = [result EXCEPT ![w] = r]
  BY <1>2, Zenon
<1> HIDE DEF r
<1>6. /\ result' \in [Writers -> 0 .. WriteLen] /\ result'[w] = r
      /\ \A v \in Writers \ {w} : result'[v] = result[v]
  BY <1>0, <1>4, <1>5, Zenon DEF WriteTypes
<1>7. /\ wpc' \in [Writers -> {"idle", "start", "waiting", "resuming", "done", "failed"}]
      /\ wpc'[w] = "resuming" /\ \A v \in Writers \ {w} : wpc'[v] = wpc[v]
  BY <1>0, <1>2, Zenon DEF WriteTypes
<1>8. Sent(w)'
  <2>1. /\ wire'[c][w] = Span(1, n) /\ Len(wire'[c][w]) = n /\ at'[w] = c
        /\ \A d \in Conns \ {c} : wire'[d][w] = <<>>
    BY <1>1, <1>2, <1>3, Zenon DEF Sent
  <2>2. written'[w] \in 0 .. n /\ (result'[w] # 0 => n = written'[w] + result'[w])
    BY <1>2, <1>4, <1>6, Zenon
  <2> HIDE DEF n
  <2> QED BY <1>4, <1>7, <2>1, <2>2, SentNow, Zenon
<1> DEFINE S == Writers \X (0 .. WriteLen)
           q == writeQ[c]
           p == Tail(q)
<1>9. writeQ \in [Conns -> Seq(S)] /\ q \in Seq(S) /\ q # <<>> /\ writeQ' = [writeQ EXCEPT ![c] = p]
  BY <1>0, <1>2, Zenon DEF WriteTypes
<1> HIDE DEF S
<1>10. p \in Seq(S) /\ Len(p) = Len(q) - 1 /\ \A i \in 1 .. Len(p) : p[i] = q[i + 1]
  BY <1>9
<1> HIDE DEF p
<1>11. /\ writeQ' \in [Conns -> Seq(S)] /\ writeQ'[c] = p
       /\ \A d \in Conns \ {c} : writeQ'[d] = writeQ[d]
  BY <1>9, <1>10, Zenon
<1>12. WriteTypes'
  BY <1>0, <1>2, <1>6, <1>7, <1>11, Zenon DEF WriteTypes, S
<1>13. \A v \in Writers \ {w} :
         /\ wpc'[v] = wpc[v] /\ written'[v] = written[v] /\ result'[v] = result[v]
         /\ at'[v] = at[v] /\ \A d \in Conns : wire'[d][v] = wire[d][v]
  BY <1>2, <1>6, <1>7, Zenon
<1>14. ASSUME NEW i \in 1 .. Len(p)
       PROVE  /\ wpc'[p[i][1]] = "waiting" /\ at'[p[i][1]] = c
              /\ Len(wire'[c][p[i][1]]) = WriteLen - p[i][2]
  <2>1. PICK j \in 2 .. Len(q) : j = i + 1 /\ j \in 1 .. Len(q)
    BY <1>1, <1>10
  <2>2. PICK v \in Writers \ {w}, h \in 0 .. WriteLen : v = q[j][1] /\ h = q[j][2]
    BY <1>0, <1>1, <2>1, Entries, Zenon
  <2>3. p[i] = q[j]
    BY <1>10, <2>1, Zenon
  <2>4. Request(c, v, h)
    BY <1>0, <2>1, <2>2, Zenon DEF Queued
  <2>5. wpc'[v] = "waiting" /\ at'[v] = c /\ Len(wire'[c][v]) = WriteLen - h
    BY <1>13, <2>4, RequestKept
  <2> QED BY <2>2, <2>3, <2>5, Zenon
<1>15. \A i, j \in 1 .. Len(p) : p[i][1] = p[j][1] => i = j
  <2>1. \A i, j \in 1 .. Len(q) : q[i][1] = q[j][1] => i = j
    BY <1>0, Zenon DEF Queued
  <2>2. \A i \in 1 .. Len(p) : i + 1 \in 1 .. Len(q) /\ p[i] = q[i + 1]
    BY <1>1, <1>10
  <2> HIDE DEF q
  <2> SUFFICES ASSUME NEW i \in 1 .. Len(p), NEW j \in 1 .. Len(p), p[i][1] = p[j][1] PROVE i = j
    BY Zenon
  <2>3. i + 1 = j + 1
    BY <2>1, <2>2
  <2> QED BY <2>3
<1>16. Queued(c)'
  <2>1. writeQ'[c] = p
    BY <1>11, Zenon
  <2> QED BY <1>14, <1>15, <2>1, QueuedIs
<1> QED BY <1>1, <1>11, <1>12, <1>13, <1>8, <1>16, WriterMoves, Zenon

LEMMA WriterSteps ==
    ASSUME StreamInv, NEW w \in Writers,
           (\E c \in Conns : WriteAll(w, c)) \/ StartPosted(w) \/ WriteResume(w)
    PROVE  StreamInv'
<1> USE StreamAssumption
<1>0. PeerTypes /\ ReadInv /\ WriteInv
  BY Zenon DEF StreamInv
<1>1. ASSUME NEW c \in Conns, WriteAll(w, c) PROVE StreamInv'
  <2>1. /\ at' = [at EXCEPT ![w] = c] /\ readVars' = readVars
        /\ handle' = handle /\ owned' = owned /\ closeQ' = closeQ
        /\ arrived' = arrived /\ peerEnd' = peerEnd
    BY <1>1, Zenon DEF WriteAll, handleVars, peerVars
  <2>2. PeerTypes' /\ \A r \in Readers : at'[r] = at[r]
    BY <1>0, <2>1, Zenon DEF PeerTypes
  <2>3. ReadInv'
    BY <1>0, <2>1, <2>2, ReadFrame, Zenon
  <2>4. WriteInv'
    BY <1>0, <1>1, WriteAllStep, Zenon
  <2> QED BY <2>2, <2>3, <2>4, Zenon DEF StreamInv
<1>2. ASSUME StartPosted(w) \/ WriteResume(w) PROVE StreamInv'
  <2>1. /\ at' = at /\ readVars' = readVars
        /\ handle' = handle /\ owned' = owned /\ closeQ' = closeQ
        /\ arrived' = arrived /\ peerEnd' = peerEnd
    BY <1>2, Zenon DEF StartPosted, WriteResume, handleVars, peerVars
  <2>2. PeerTypes'
    BY <1>0, <2>1, Zenon DEF PeerTypes
  <2>3. ReadInv'
    BY <1>0, <2>1, ReadFrame, Zenon
  <2>4. WriteInv'
    BY <1>0, <1>2, StartStep, ResumeStep, Zenon
  <2> QED BY <2>2, <2>3, <2>4, Zenon DEF StreamInv
<1> QED BY <1>1, <1>2, Zenon

\* What happens to a connection: libuv's callbacks, close() and the peer.
LEMMA ConnectionSteps ==
    ASSUME StreamInv, NEW c \in Conns,
           \/ ReadCb(c) \/ Drain(c) \/ OnWrite(c) \/ ShutdownWrite(c) \/ Close(c)
           \/ CloseElsewhere(c) \/ ClosePosted(c) \/ OnClose(c) \/ Peer(c)
    PROVE  StreamInv'
<1> USE StreamAssumption
<1> USE DEF handleVars, peerVars
<1>0. PeerTypes /\ ReadInv /\ WriteInv
  BY Zenon DEF StreamInv
<1>1. CASE ReadCb(c)
  <2>1. /\ handle' = handle /\ owned' = owned /\ closeQ' = closeQ /\ at' = at
        /\ arrived' = arrived /\ peerEnd' = peerEnd /\ writeVars' = writeVars
    BY <1>1, Zenon DEF ReadCb
  <2>2. PeerTypes' /\ WriteInv'
    BY <1>0, <2>1, WriteFrame, Zenon DEF PeerTypes
  <2>3. ReadInv'
    BY <1>0, <1>1, ReadCbStep, Zenon
  <2> QED BY <2>2, <2>3, Zenon DEF StreamInv
<1>2. CASE Drain(c) \/ OnWrite(c) \/ ShutdownWrite(c)
  <2>1. /\ handle' = handle /\ owned' = owned /\ closeQ' = closeQ /\ at' = at
        /\ arrived' = arrived /\ peerEnd' = peerEnd /\ readVars' = readVars
    BY <1>2, Zenon DEF Drain, OnWrite, ShutdownWrite, handleVars, peerVars
  <2>2. PeerTypes' /\ ReadInv'
    BY <1>0, <2>1, ReadFrame, Zenon DEF PeerTypes
  <2>3. WriteInv'
    <3>1. CASE Drain(c) \/ OnWrite(c)
      BY <1>0, <3>1, DrainStep, OnWriteStep, Zenon
    <3>2. CASE ShutdownWrite(c)
      <4>1. /\ shut' = shut \union {c} /\ wpc' = wpc /\ written' = written /\ result' = result
            /\ writeQ' = writeQ /\ wire' = wire /\ at' = at
        BY <3>2, Zenon DEF ShutdownWrite
      <4>2. WriteTypes'
        BY <1>0, <4>1, Zenon DEF WriteInv, WriteTypes
      <4>3. \A w \in Writers : Sent(w)'
        BY <1>0, <4>1, Zenon DEF WriteInv, Sent
      <4>4. \A d \in Conns : Queued(d)'
        <5> TAKE d \in Conns
        <5>1. Queued(d)
          BY <1>0, Zenon DEF WriteInv
        <5> QED BY <4>1, <5>1 DEF Queued, Request
      <4> QED BY <4>2, <4>3, <4>4, Zenon DEF WriteInv
    <3> QED BY <1>2, <3>1, <3>2, Zenon
  <2> QED BY <2>2, <2>3, Zenon DEF StreamInv
<1>3. CASE Close(c) \/ ClosePosted(c)
  <2>1. /\ CloseOnLoop(c) /\ writeVars' = writeVars /\ peerEnd' = peerEnd
        /\ UNCHANGED <<arrived, taken, read_buffer, eof, rflag, zeroRead, got, overlap, at>>
        /\ owned' \subseteq owned /\ closeQ' \subseteq closeQ
    BY <1>3, Zenon DEF Close, ClosePosted
  <2>2. handle' \in [Conns -> {"none", "connecting", "open", "closing", "closed"}]
    BY <1>0, <2>1, Zenon DEF CloseOnLoop, PeerTypes
  <2>3. PeerTypes'
    BY <1>0, <2>1, <2>2, Zenon DEF PeerTypes
  <2>4. ReadInv'
    BY <1>0, <2>1, CloseStep, Zenon
  <2>5. WriteInv'
    BY <1>0, <2>1, WriteFrame, Zenon
  <2> QED BY <2>3, <2>4, <2>5, Zenon DEF StreamInv
<1>4. CASE CloseElsewhere(c)
  <2>1. /\ owned' = owned \ {c} /\ closeQ' = closeQ \union {c} /\ handle' = handle /\ at' = at
        /\ arrived' = arrived /\ peerEnd' = peerEnd /\ readVars' = readVars /\ writeVars' = writeVars
    BY <1>4, Zenon DEF CloseElsewhere
  <2>2. PeerTypes'
    BY <1>0, <2>1, Zenon DEF PeerTypes
  <2> QED BY <1>0, <2>1, <2>2, ReadFrame, WriteFrame, Zenon DEF StreamInv
<1>5. CASE OnClose(c)
  <2>1. /\ handle[c] = "closing" /\ handle' = [handle EXCEPT ![c] = "closed"]
        /\ owned' = owned /\ closeQ' = closeQ /\ at' = at
        /\ arrived' = arrived /\ peerEnd' = peerEnd /\ readVars' = readVars /\ writeVars' = writeVars
    BY <1>5, Zenon DEF OnClose
  <2>2. PeerTypes' /\ \A d \in Conns : Open(d)' <=> Open(d)
    BY <1>0, <2>1, Zenon DEF PeerTypes, Open
  <2>3. WriteInv'
    BY <1>0, <2>1, WriteFrame, Zenon
  <2>4. ReadInv'
    BY <1>0, <2>1, <2>2, OpenFrame, Zenon
  <2> QED BY <2>2, <2>3, <2>4, Zenon DEF StreamInv
<1>6. CASE Peer(c)
  <2>1. /\ arrived' \in [Conns -> 0 .. MaxBytes] /\ \A d \in Conns : arrived'[d] >= arrived[d]
        /\ peerEnd' \in [Conns -> {"up", "fin", "reset"}]
        /\ handle' = handle /\ owned' = owned /\ closeQ' = closeQ /\ at' = at
        /\ readVars' = readVars /\ writeVars' = writeVars
    BY <1>0, <1>6 DEF Peer, PeerTypes
  <2>2. PeerTypes'
    BY <1>0, <2>1, Zenon DEF PeerTypes
  <2>3. WriteInv'
    BY <1>0, <2>1, WriteFrame, Zenon
  <2>4. ReadInv'
    BY <1>0, <2>1, <2>2, ArrivedFrame, Zenon
  <2> QED BY <2>2, <2>3, <2>4, Zenon DEF StreamInv
<1> QED BY <1>1, <1>2, <1>3, <1>4, <1>5, <1>6, Zenon

LEMMA StreamStepInv == StreamInv /\ [StreamNext]_streamVars => StreamInv'
<1> SUFFICES ASSUME StreamInv, [StreamNext]_streamVars PROVE StreamInv'
  BY Zenon
<1>1. CASE StreamNext
  BY <1>1, ReaderSteps, WriterSteps, ConnectionSteps, Zenon DEF StreamNext
<1>2. CASE UNCHANGED streamVars
  <2>1. /\ handle' = handle /\ owned' = owned /\ closeQ' = closeQ /\ at' = at
        /\ arrived' = arrived /\ peerEnd' = peerEnd /\ readVars' = readVars /\ writeVars' = writeVars
    BY <1>2, Zenon DEF streamVars, handleVars, peerVars
  <2>2. PeerTypes'
    BY <2>1, Zenon DEF StreamInv, PeerTypes
  <2> QED BY <2>1, <2>2, ReadFrame, WriteFrame, Zenon DEF StreamInv
<1> QED BY <1>1, <1>2, Zenon

LEMMA StreamInvAlways == StreamSpec => []StreamInv
  BY StreamInitInv, StreamStepInv, PTL DEF StreamSpec

(***************************************************************************)
(* read_some hands out the bytes that read_cb was given, in order, each    *)
(* once, and write_all puts each writer's bytes on the wire in order, all  *)
(* of them when it returns: whatever the sizes, the partial uv_try_write,  *)
(* the queue behind it and a close() in between.                           *)
(***************************************************************************)
THEOREM StreamBytesInOrder == StreamSpec => []BytesInOrder
<1>1. StreamInv => BytesInOrder
  <2> SUFFICES ASSUME StreamInv PROVE BytesInOrder
    BY Zenon
  <2>1. \A c \in Conns : got[c] \o read_buffer[c] = Span(1, taken[c])
    BY Zenon DEF StreamInv, ReadInv, ReadBytes
  <2>2. ASSUME NEW w \in Writers, NEW c \in Conns, at[w] = c
        PROVE  /\ wire[c][w] = Span(1, Len(wire[c][w]))
               /\ Len(wire[c][w]) >= written[w]
               /\ wpc[w] = "done" => Len(wire[c][w]) = WriteLen
    BY <2>2, Zenon DEF StreamInv, WriteInv, Sent
  <2> QED BY <2>1, <2>2, Zenon DEF BytesInOrder
<1> QED BY <1>1, StreamInvAlways, PTL

(***************************************************************************)
(* Data, the end of the stream, an error and close() leave no registered   *)
(* reader asleep, and neither does a registration posted before them.      *)
(***************************************************************************)
THEOREM ReaderNeverIdle == StreamSpec => []NoIdleReader
<1>1. StreamInv => NoIdleReader
  BY Zenon DEF StreamInv, ReadInv
<1> QED BY <1>1, StreamInvAlways, PTL

(***************************************************************************)
(* read_some returns 0 at the end of the stream only, unless two reads of  *)
(* the stream overlapped.                                                  *)
(***************************************************************************)
THEOREM ZeroIsEndOfStream == StreamSpec => []ZeroMeansEof
<1>1. StreamInv => ZeroMeansEof
  BY Zenon DEF StreamInv, ReadInv, ZeroMeansEof, ZeroIsEof
<1> QED BY <1>1, StreamInvAlways, PTL
==============================================================================
