----------------------------- MODULE HttpExchange -----------------------------
(***************************************************************************)
(* corouv::http: a Client talking to a Server over HTTP/1.1 connections,   *)
(* with Server::serve accepting them and one handle_client per connection. *)
(*                                                                         *)
(* Each direction of a connection is a sequence of tokens, the units the   *)
(* framing code tells apart: a message head, a byte of a fixed body, a     *)
(* non-empty chunk with its size line and CRLF, the line "0" and an empty  *)
(* line; "100 Continue" is a head.  An empty chunk is what write_chunk     *)
(* sends: the line "0" and an empty line.  The reader's BufferCursor and the *)
(* bytes still in the stream are one sequence, since every read goes       *)
(* through the buffer.  Header wording, trailers and URLs are left out.    *)
(***************************************************************************)
EXTENDS Naturals, Sequences, SequencesExt

CONSTANTS
    MaxConns,       \* connections the client opens
    MaxRequests,    \* requests it makes
    RequestKinds,   \* [head, chunked, chunks, expect, keep] of each request
    ResponseKinds,  \* [status, chunked, chunks, keep] of what handlers return
    MaxBody,        \* Limits::max_body_bytes, in tokens
    MaxFailures     \* timeouts, failed reads, writes and accepts, cancelled requests

ASSUME HttpAssumption ==
    /\ MaxConns \in Nat /\ MaxRequests \in Nat /\ MaxBody \in Nat /\ MaxFailures \in Nat
    /\ \A k \in RequestKinds :
          /\ k.head \in BOOLEAN /\ k.chunked \in BOOLEAN /\ k.keep \in BOOLEAN
          /\ k.expect \in {"none", "continue", "other"} /\ k.chunks \in Seq({0, 1})
    /\ \A k \in ResponseKinds :
          /\ k.chunked \in BOOLEAN /\ k.keep \in BOOLEAN
          /\ k.status \in {"ok", "nobody", "continue", "informational"} /\ k.chunks \in Seq({0, 1})

Conns == 1..MaxConns

VARIABLES
    conn,      \* the client's Connection (0: none)
    nconn,     \* connections opened so far
    made,      \* requests made so far
    cpc,       \* where Client::request is
    cur,       \* the request it is about
    todo,      \* body tokens it has still to send
    chead,     \* the head of the response being read
    crd,       \* how far the response's body has been read
    returned,  \* history: what the last request returned
    c2s, s2c,  \* tokens on the way, per connection
    copen,     \* the client's end is open
    sopen,     \* the server's end is open
    spc,       \* where handle_client is
    sreq,      \* the head of the request being served
    srd,       \* how far its body has been read
    stodo,     \* response tokens still to be written
    sloop,     \* the connection stays open after the response
    listener,  \* the server's listener is open
    serve,     \* where Server::serve is
    signaled,  \* serve's task got Terminate
    canceled,  \* the task group's children got Terminate
    spoiled,   \* history: what happened to the connection's framing
    failures   \* timeouts, failed calls and cancelled requests so far

clientVars == <<conn, nconn, made, cpc, cur, todo, chead, crd, returned>>
wireVars == <<c2s, s2c, copen, sopen, spoiled>>
handlerVars == <<spc, sreq, srd, stodo, sloop>>
serveVars == <<listener, serve, signaled, canceled>>
vars == <<clientVars, wireVars, handlerVars, serveVars, failures>>

-----------------------------------------------------------------------------
(* Framing. *)

Tok(kind, of) == [kind |-> kind, of |-> of]
HeadTok(of, msg) == [kind |-> "head", of |-> of, msg |-> msg]
None == [kind |-> "none", of |-> 0]
NoRequest == [id |-> 0]

(* A status is "continue" (100), "informational" (any other 1xx but 101), "nobody"
   (101, 204, 304), "error" or "ok".  read_response_stream_impl does not take the
   first two for an answer. *)
Interim(status) == status \in {"continue", "informational"}

(* response_has_body: neither for HEAD nor for 1xx, 204 and 304. *)
HasBody(status, head) == ~head /\ status # "nobody" /\ ~Interim(status)

(* write_chunk *)
Chunk(n, of) ==
    IF n = 0 THEN <<Tok("0", of), Tok("crlf", of)>> ELSE <<Tok("chunk", of)>>

(* write_chunked_body_stream, or the body as it is. *)
BodyTokens(m, of) ==
    IF m.chunked
    THEN FlattenSeq([i \in DOMAIN m.chunks |-> Chunk(m.chunks[i], of)])
            \o <<Tok("0", of), Tok("crlf", of)>>
    ELSE [i \in DOMAIN m.chunks |-> Tok("data", of)]

(* A body reader before its first token: chunked, or of the announced length, which
   must be within the limit.  Every body that is not chunked is announced. *)
StartBody_OffByOne(m) == \* (mutant)
    [body |-> <<>>, left |-> IF m.chunked THEN 0 ELSE Len(m.chunks) - 1,
     mode |-> IF m.chunked THEN "chunks"
              ELSE IF Len(m.chunks) < 2 THEN "done" ELSE "fixed"]
StartBody(m) ==
    [body |-> <<>>, left |-> IF m.chunked THEN 0 ELSE Len(m.chunks),
     mode |-> IF m.chunked THEN "chunks"
              ELSE IF Len(m.chunks) > MaxBody THEN "refused"
              ELSE IF m.chunks = <<>> THEN "done" ELSE "fixed"]
NoBody == [body |-> <<>>, left |-> 0, mode |-> "done"]

(* read_fixed_body_stream: every byte counts, whatever it is. *)
FeedFixed(rd, t) ==
    [body |-> Append(rd.body, t.of), left |-> rd.left - 1,
     mode |-> IF rd.left = 1 THEN "done" ELSE "fixed"]

(* read_chunked_body_stream: chunks, the line "0", then lines to an empty one. *)
FeedChunked(rd, t) ==
    CASE rd.mode = "chunks" /\ t.kind = "chunk" ->
            IF Len(rd.body) = MaxBody THEN [rd EXCEPT !.mode = "refused"]
            ELSE [rd EXCEPT !.body = Append(@, t.of)]
      [] rd.mode = "chunks" /\ t.kind = "0" -> [rd EXCEPT !.mode = "trailers"]
      [] rd.mode = "trailers" /\ t.kind = "crlf" -> [rd EXCEPT !.mode = "done"]
      [] OTHER -> [rd EXCEPT !.mode = "refused"]

Feed(rd, t) == IF rd.mode = "fixed" THEN FeedFixed(rd, t) ELSE FeedChunked(rd, t)

(* What write_response sends for a response to a request. *)
ResponseTokens(r, of, head) ==
    LET has == HasBody(r.status, head)
        hdr == IF r.chunked /\ ~has THEN [r EXCEPT !.chunked = FALSE, !.chunks = <<>>]
               ELSE r
    IN  <<HeadTok(of, hdr)>> \o (IF has THEN BodyTokens(hdr, of) ELSE <<>>)

(* The response to a request that could not be read or whose handler threw. *)
ErrorResponse_KeepAlive == \* (mutant)
    [status |-> "error", chunked |-> FALSE, chunks |-> <<1>>, keep |-> TRUE]
ErrorResponse == [status |-> "error", chunked |-> FALSE, chunks |-> <<1>>, keep |-> FALSE]

(* 100 Continue, as read_request_stream sends it. *)
ContinueResponse == [status |-> "continue", chunked |-> FALSE, chunks |-> <<>>, keep |-> TRUE]

-----------------------------------------------------------------------------
Init ==
    /\ conn = 0 /\ nconn = 0 /\ made = 0 /\ cpc = "idle"
    /\ cur = NoRequest /\ todo = <<>> /\ chead = None /\ crd = NoBody
    /\ returned = NoRequest
    /\ c2s = [c \in Conns |-> <<>>] /\ s2c = [c \in Conns |-> <<>>]
    /\ copen = [c \in Conns |-> FALSE] /\ sopen = [c \in Conns |-> FALSE]
    /\ spoiled = [c \in Conns |-> {}]
    /\ spc = [c \in Conns |-> "none"] /\ sreq = [c \in Conns |-> None]
    /\ srd = [c \in Conns |-> NoBody] /\ stodo = [c \in Conns |-> <<>>]
    /\ sloop = [c \in Conns |-> FALSE]
    /\ listener = TRUE /\ serve = "accepting" /\ signaled = FALSE /\ canceled = FALSE
    /\ failures = 0

(* A timeout, a failed call or a cancellation: at most MaxFailures of them. *)
Fails == failures < MaxFailures /\ failures' = failures + 1

(* Bytes sent to an end that is closed are gone. *)
ToServer(c, ts) == c2s' = IF sopen[c] THEN [c2s EXCEPT ![c] = @ \o ts] ELSE c2s
ToClient(c, ts) == s2c' = IF copen[c] THEN [s2c EXCEPT ![c] = @ \o ts] ELSE s2c
Spoil(c, what) == spoiled' = [spoiled EXCEPT ![c] = @ \cup what]
EmptyChunk(m) == IF m.chunked /\ 0 \in {m.chunks[i] : i \in DOMAIN m.chunks}
                 THEN {"emptychunk"} ELSE {}
NoAnswer(m) == IF Interim(m.status) THEN {"interim"} ELSE {}

-----------------------------------------------------------------------------
(* The client. *)

(* Client::close *)
CloseClient == /\ conn' = 0
               /\ copen' = [c \in Conns |-> copen[c] /\ c # conn]

(* Client::connect: the old connection goes first. *)
Connect ==
    /\ cpc = "idle" /\ listener /\ nconn < MaxConns
    /\ nconn' = nconn + 1 /\ conn' = nconn + 1
    /\ copen' = [c \in Conns |-> (copen[c] /\ c # conn) \/ c = nconn + 1]
    /\ sopen' = [sopen EXCEPT ![nconn + 1] = TRUE]
    /\ spc' = [spc EXCEPT ![nconn + 1] = "backlog"]
    /\ cur' = NoRequest /\ returned' = NoRequest
    /\ UNCHANGED <<made, cpc, todo, chead, crd, c2s, s2c, spoiled,
                   sreq, srd, stodo, sloop, serveVars, failures>>

Disconnect ==
    /\ cpc = "idle" /\ conn # 0
    /\ CloseClient
    /\ cur' = NoRequest /\ returned' = NoRequest
    /\ UNCHANGED <<nconn, made, cpc, todo, chead, crd, c2s, s2c,
                   sopen, spoiled, handlerVars, serveVars, failures>>

(* expect_100: write_request waits for the go-ahead only if there is a body,
   write_request_stream always. *)
Waits(r) == r.expect = "continue" /\ (r.chunked \/ r.chunks # <<>>)

(* Client::request: write_request sends the head. *)
Request(k) ==
    /\ cpc = "idle" /\ conn # 0 /\ made < MaxRequests
    /\ made' = made + 1
    /\ cur' = [id |-> made + 1, kind |-> k]
    /\ ToServer(conn, <<HeadTok(made + 1, k)>>)
    /\ todo' = BodyTokens(k, made + 1)
    /\ cpc' = IF Waits(k) THEN "await100" ELSE "body"
    /\ returned' = NoRequest
    /\ UNCHANGED <<conn, nconn, chead, crd, s2c, copen, sopen, spoiled, handlerVars, serveVars, failures>>

(* write_request and write_chunked_body_stream send the body. *)
WriteBody ==
    /\ cpc = "body"
    /\ IF todo = <<>>
       THEN cpc' = "read" /\ UNCHANGED <<todo, c2s, spoiled>>
       ELSE /\ ToServer(conn, <<Head(todo)>>) /\ todo' = Tail(todo)
            /\ Spoil(conn, EmptyChunk(cur.kind))
            /\ UNCHANGED cpc
    /\ UNCHANGED <<conn, nconn, made, cur, chead, crd, returned, s2c, copen, sopen,
                   handlerVars, serveVars, failures>>

(* A failed request leaves the connection as it is, still open. *)
Throws ==
    /\ cpc' = "idle" /\ todo' = <<>> /\ chead' = None /\ crd' = NoBody
    /\ cur' = NoRequest /\ Spoil(conn, {"threw"})
    /\ UNCHANGED <<conn, copen, returned>>

(* read_response returns, and Client::request closes unless both sides keep the
   connection alive. *)
Returns(head, rd) ==
    /\ cpc' = "idle" /\ todo' = <<>> /\ chead' = None /\ crd' = NoBody
    /\ returned' = [id |-> cur.id, on |-> conn, head |-> head, body |-> rd.body]
    /\ IF cur.kind.keep /\ head.msg.keep THEN UNCHANGED <<conn, copen>> ELSE CloseClient
    /\ UNCHANGED <<cur, spoiled>>

(* An interim response has been read, with the body it announced.  One that came
   while write_request waits for the go-ahead starts the body if it is 100, and
   becomes the answer if not; read_response skips it. *)
AfterInterim(head) ==
    IF todo # <<>> /\ head.msg.status = "informational" THEN Returns(head, NoBody)
    ELSE /\ cpc' = IF todo # <<>> THEN "body" ELSE "read"
         /\ chead' = None /\ crd' = NoBody
         /\ UNCHANGED <<conn, copen, cur, todo, returned, spoiled>>

AfterBody(head, rd) ==
    CASE rd.mode = "done" /\ Interim(head.msg.status) -> AfterInterim(head)
      [] rd.mode = "done" /\ ~Interim(head.msg.status) -> Returns(head, rd)
      [] rd.mode = "refused" -> Throws
      [] OTHER -> /\ cpc' = "readbody" /\ chead' = head /\ crd' = rd
                  /\ UNCHANGED <<conn, copen, cur, todo, returned, spoiled>>

(* read_response_stream_impl reads a head.  A response that is not interim is the
   answer, and what is left of the request's body is not sent. *)
ReadResponseHead ==
    /\ cpc \in {"await100", "read"} /\ s2c[conn] # <<>>
    /\ s2c' = [s2c EXCEPT ![conn] = Tail(@)]
    /\ LET t == Head(s2c[conn]) IN
       IF t.kind # "head" THEN Throws
       ELSE AfterBody(t, IF Interim(t.msg.status) \/ HasBody(t.msg.status, cur.kind.head)
                         THEN StartBody(t.msg) ELSE NoBody)
    /\ UNCHANGED <<nconn, made, c2s, sopen, handlerVars, serveVars, failures>>

ReadResponseBody ==
    /\ cpc = "readbody" /\ s2c[conn] # <<>>
    /\ s2c' = [s2c EXCEPT ![conn] = Tail(@)]
    /\ AfterBody(chead, Feed(crd, Head(s2c[conn])))
    /\ UNCHANGED <<nconn, made, c2s, sopen, handlerVars, serveVars, failures>>

(* with_optional_timeout or a cancellation; the end of the stream, or the reset
   that a write to a server that is gone brings, whatever is still unread. *)
RequestFails ==
    /\ cpc # "idle"
    /\ \/ Fails
       \/ ~sopen[conn] /\ UNCHANGED failures
    /\ Throws
    /\ UNCHANGED <<nconn, made, c2s, s2c, sopen, handlerVars, serveVars>>

-----------------------------------------------------------------------------
(* Server::handle_client. *)

(* conn.close() at the end of the loop, or its destructor on the way out. *)
EndConnection(c) ==
    /\ spc' = [spc EXCEPT ![c] = "done"] /\ sopen' = [sopen EXCEPT ![c] = FALSE]
    /\ c2s' = [c2s EXCEPT ![c] = <<>>]
    /\ stodo' = [stodo EXCEPT ![c] = <<>>] /\ sloop' = [sloop EXCEPT ![c] = FALSE]
    /\ sreq' = [sreq EXCEPT ![c] = None] /\ srd' = [srd EXCEPT ![c] = NoBody]

StartReply(c, r, of, head) ==
    /\ sreq' = [sreq EXCEPT ![c] = None] /\ srd' = [srd EXCEPT ![c] = NoBody]
    /\ spc' = [spc EXCEPT ![c] = "reply"]
    /\ stodo' = [stodo EXCEPT ![c] = ResponseTokens(r, of, head)]
    /\ sloop' = [sloop EXCEPT ![c] = r.keep]

(* A request that cannot be read is answered with its error (whatever its
   method) and the connection ends. *)
Reject(c, of) == StartReply(c, ErrorResponse, of, FALSE)

(* The body is read, is refused, or needs more. *)
AfterRequestBody(c, t, rd) ==
    IF rd.mode = "refused" THEN Reject(c, t.of)
    ELSE /\ sreq' = [sreq EXCEPT ![c] = t] /\ srd' = [srd EXCEPT ![c] = rd]
         /\ spc' = [spc EXCEPT ![c] = IF rd.mode = "done" THEN "handle" ELSE "body"]
         /\ UNCHANGED <<stodo, sloop>>

(* has_request_body: whether 100 Continue is sent to a client that expects it. *)
AsksForBody_Fixed(m) == m.expect = "continue" /\ ~m.chunked /\ m.chunks # <<>> \* (mutant)
AsksForBody(m) == m.expect = "continue" /\ (m.chunked \/ m.chunks # <<>>)

(* read_request_stream *)
ReadRequestHead(c) ==
    /\ spc[c] = "head" /\ c2s[c] # <<>>
    /\ c2s' = [c2s EXCEPT ![c] = Tail(@)]
    /\ LET t == Head(c2s[c]) IN
       CASE t.kind # "head" -> Reject(c, 0) /\ UNCHANGED s2c
         [] t.kind = "head" /\ t.msg.expect = "other" -> Reject(c, t.of) /\ UNCHANGED s2c
         [] OTHER ->
              /\ IF AsksForBody(t.msg) THEN ToClient(c, <<HeadTok(t.of, ContinueResponse)>>)
                 ELSE UNCHANGED s2c
              /\ AfterRequestBody(c, t, StartBody(t.msg))
    /\ UNCHANGED <<clientVars, copen, sopen, spoiled, serveVars, failures>>

ReadRequestBody(c) ==
    /\ spc[c] = "body" /\ c2s[c] # <<>>
    /\ c2s' = [c2s EXCEPT ![c] = Tail(@)]
    /\ AfterRequestBody(c, sreq[c], Feed(srd[c], Head(c2s[c])))
    /\ UNCHANGED <<clientVars, s2c, copen, sopen, spoiled, serveVars, failures>>

(* The client is gone, or a write to it fails or times out. *)
ConnectionEnds(c) ==
    /\ \/ spc[c] \in {"head", "body"} /\ c2s[c] = <<>> /\ ~copen[c] /\ UNCHANGED failures
       \/ spc[c] = "reply" /\ ~copen[c] /\ UNCHANGED failures
       \/ spc[c] = "reply" /\ copen[c] /\ Fails
    /\ EndConnection(c)
    /\ UNCHANGED <<clientVars, s2c, copen, spoiled, serveVars>>

(* A read that fails with anything but an http::Error (the client reset the
   connection) leaves handle_client, and its failure cancels the whole group. *)
ReadFails(c) ==
    /\ spc[c] \in {"head", "body"} /\ Fails
    /\ EndConnection(c)
    /\ canceled' = TRUE
    /\ UNCHANGED <<clientVars, s2c, copen, spoiled, listener, serve, signaled>>

(* IoTimeouts::read_headers and read_body: 408, between two requests as well. *)
ReadTimeout(c) ==
    /\ spc[c] \in {"head", "body"}
    /\ Reject(c, IF spc[c] = "body" THEN sreq[c].of ELSE 0)
    /\ Spoil(c, {"timeout"}) /\ Fails
    /\ UNCHANGED <<clientVars, c2s, s2c, copen, sopen, serveVars>>

(* The handler returns a response or throws. *)
Handle(c, r) ==
    /\ spc[c] = "handle"
    /\ LET m == sreq[c].msg IN
       StartReply(c, [r EXCEPT !.keep = @ /\ m.keep], sreq[c].of, m.head)
    /\ UNCHANGED <<clientVars, wireVars, serveVars, failures>>

(* write_response; after its last token the loop goes on or ends. *)
WriteResponse(c) ==
    /\ spc[c] = "reply" /\ stodo[c] # <<>>
    /\ ToClient(c, <<Head(stodo[c])>>)
    /\ IF Len(stodo[c]) > 1
       THEN stodo' = [stodo EXCEPT ![c] = Tail(@)] /\ UNCHANGED <<spc, c2s, sopen, sreq, srd, sloop>>
       ELSE IF sloop[c]
       THEN /\ spc' = [spc EXCEPT ![c] = "head"] /\ stodo' = [stodo EXCEPT ![c] = <<>>]
            /\ UNCHANGED <<c2s, sopen, sreq, srd, sloop>>
       ELSE EndConnection(c)
    /\ Spoil(c, IF Head(stodo[c]).kind # "head" THEN {}
                ELSE EmptyChunk(Head(stodo[c]).msg) \cup NoAnswer(Head(stodo[c]).msg))
    /\ UNCHANGED <<clientVars, copen, serveVars, failures>>

(* Terminate unwinds handle_client where something it awaits listens to it: in the
   handler, or in a read or write that with_timeout bounds.  A call of the TCP
   stream without a timeout does not, and handle_client stays in it. *)
HandlerCanceled(c) ==
    /\ canceled /\ spc[c] \in {"head", "body", "handle", "reply"}
    /\ EndConnection(c)
    /\ UNCHANGED <<clientVars, s2c, copen, spoiled, serveVars, failures>>

-----------------------------------------------------------------------------
(* Server::serve. *)

Running(c) == spc[c] \in {"head", "body", "handle", "reply"}

Accept(c) ==
    /\ serve = "accepting" /\ listener /\ spc[c] = "backlog" /\ ~canceled
    /\ spc' = [spc EXCEPT ![c] = "head"]
    /\ UNCHANGED <<clientVars, wireVars, sreq, srd, stodo, sloop, serveVars, failures>>

(* A group that is cancelled takes no more children: serve gives up. *)
SpawnFails(c) ==
    /\ serve = "accepting" /\ listener /\ spc[c] = "backlog" /\ canceled
    /\ EndConnection(c)
    /\ serve' = "draining"
    /\ UNCHANGED <<clientVars, s2c, copen, spoiled, listener, signaled, canceled, failures>>

(* Server::close: connections nobody accepted are reset. *)
CloseListener ==
    /\ listener' = FALSE
    /\ spc' = [c \in Conns |-> IF spc[c] = "backlog" THEN "done" ELSE spc[c]]
    /\ sopen' = [c \in Conns |-> sopen[c] /\ spc[c] # "backlog"]

CloseServer ==
    /\ listener /\ CloseListener
    /\ UNCHANGED <<clientVars, c2s, s2c, copen, spoiled, sreq, srd, stodo, sloop,
                   serve, signaled, canceled, failures>>

(* Terminate reaches serve's task: its handler closes the listener. *)
Terminate ==
    /\ ~signaled /\ serve \in {"accepting", "draining"}
    /\ signaled' = TRUE /\ CloseListener
    /\ UNCHANGED <<clientVars, c2s, s2c, copen, spoiled, sreq, srd, stodo, sloop,
                   serve, canceled, failures>>

(* accept throws: the listener was closed, or it failed and everybody is
   cancelled. *)
AcceptThrows ==
    /\ serve = "accepting" /\ serve' = "draining"
    /\ \/ ~listener /\ UNCHANGED <<canceled, failures>>
       \/ listener /\ Fails /\ canceled' = TRUE
    /\ UNCHANGED <<clientVars, wireVars, handlerVars, listener, signaled>>

(* connections.wait() *)
Drained == \A c \in Conns : ~Running(c)

ServeReturns ==
    /\ serve = "draining" /\ Drained
    /\ serve' = "returned"
    /\ UNCHANGED <<clientVars, wireVars, handlerVars, listener, signaled, canceled, failures>>

(* A signalled wait throws, and the group's destructor cancels the handlers that
   serve leaves behind. *)
ServeThrows ==
    /\ serve = "draining" /\ signaled /\ ~Drained
    /\ serve' = "threw" /\ canceled' = TRUE
    /\ UNCHANGED <<clientVars, wireVars, handlerVars, listener, signaled, failures>>

-----------------------------------------------------------------------------
Next ==
    \/ Connect \/ Disconnect \/ WriteBody \/ ReadResponseHead \/ ReadResponseBody
    \/ RequestFails
    \/ \E k \in RequestKinds : Request(k)
    \/ CloseServer \/ Terminate \/ AcceptThrows \/ ServeReturns \/ ServeThrows
    \/ \E c \in Conns :
          \/ Accept(c) \/ ReadRequestHead(c) \/ ReadRequestBody(c) \/ ConnectionEnds(c)
          \/ ReadFails(c) \/ SpawnFails(c) \/ ReadTimeout(c) \/ WriteResponse(c) \/ HandlerCanceled(c)
          \/ \E r \in ResponseKinds \cup {ErrorResponse} : Handle(c, r)

Spec == Init /\ [][Next]_vars

-----------------------------------------------------------------------------
(* The payload a message stands for: its non-empty chunks, all of its own. *)
Payload(m, of) ==
    LET kept == IF m.chunked THEN SelectSeq(m.chunks, LAMBDA n : n = 1) ELSE m.chunks
    IN  [i \in DOMAIN kept |-> of]

(* A handler sees exactly the body its client sent, unless the connection carried
   an empty chunk, which ends a body early, or an earlier request failed on it. *)
RequestBodyIntact ==
    \A c \in Conns :
        spc[c] = "handle" /\ spoiled[c] \cap {"threw", "emptychunk"} = {} =>
            srd[c].body = Payload(sreq[c].msg, sreq[c].of)

(* Client::request returns the answer to its own request, body and all, on a
   connection where nothing timed out, no request failed and no empty chunk was
   sent; short of a failed request it never returns another request's answer. *)
ResponseAnswersRequest ==
    returned.id # 0 =>
        LET s == spoiled[returned.on]
            h == returned.head
        IN  /\ s = {} => /\ h.of = returned.id
                         /\ returned.body = IF HasBody(h.msg.status, cur.kind.head)
                                            THEN Payload(h.msg, h.of) ELSE <<>>
            /\ "threw" \notin s => h.of \in {0, returned.id}

(* Client and handler never wait for each other: not both for bytes that the
   other will not send before it has read some.  Excepted are a connection on which
   a request failed, and one on which the handler's response was interim: the
   client goes on to wait for the answer, and the handler's part is over. *)
NoMutualWait ==
    conn # 0 => ~ /\ cpc \in {"await100", "read", "readbody"} /\ s2c[conn] = <<>>
                  /\ spc[conn] \in {"head", "body"} /\ c2s[conn] = <<>>
                  /\ spoiled[conn] \cap {"threw", "interim"} = {}
=============================================================================
