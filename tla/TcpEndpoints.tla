----------------------------- MODULE TcpEndpoints -----------------------------
(***************************************************************************)
(* TcpListener::State, accept(), listen() and connect() (src/net.cpp), and *)
(* the streams they make: a listener turns incoming connections into       *)
(* TcpStream::States that wait in pending for accept(), and connect()      *)
(* tries one State per address.  Composes TcpStream.                       *)
(***************************************************************************)
EXTENDS TcpStream

CONSTANTS
  Incoming,   \* connections that peers make to the listener
  Addresses,  \* what connect() resolved: a sequence, one connection for each
  Acceptors   \* coroutines that call accept()

ASSUME EndpointAssumption ==
  /\ Incoming \subseteq Conns
  /\ Addresses \in Seq(Conns \ Incoming)
  /\ Nobody \notin Acceptors

VARIABLES
  listener,       \* none, open, closing, closed, or failed when listen() threw
  listenerHeld,   \* the TcpListener object holds the State
  listenerCloseQ, \* a close_on_loop of the listener is posted
  pending,
  accept_waiter,
  accept_error,
  apc,            \* where each acceptor is
  refused,        \* its awaiter's _concurrent_accept
  outcome,        \* how its last accept() ended
  dpc,            \* where connect() is
  dial,           \* index of the address connect() tries
  connectOk,      \* ConnectAwaiter's result is 0
  arrivals,       \* history: connections that uv_accept returned
  delivered,      \* history: connections that accept() returned
  acceptOverlap   \* history: two accepts were in progress

acceptVars == <<pending, accept_waiter, accept_error, apc, refused, outcome>>
listenVars == <<listener, listenerHeld, listenerCloseQ>>
dialVars == <<dpc, dial, connectOk>>
historyVars == <<arrivals, delivered, acceptOverlap>>
vars == <<streamVars, acceptVars, listenVars, dialVars, historyVars>>

TypeOK ==
  /\ StreamTypeOK
  /\ listener \in {"none", "open", "closing", "closed", "failed"}
  /\ listenerHeld \in BOOLEAN /\ listenerCloseQ \in BOOLEAN
  /\ pending \in Seq(Incoming)
  /\ accept_waiter \in Acceptors \union {Nobody}
  /\ accept_error \in {"none", "canceled", "failed"}
  /\ apc \in [Acceptors -> {"idle", "register", "waiting", "resuming"}]
  /\ refused \in SUBSET Acceptors
  /\ outcome \in [Acceptors -> {"none", "stream", "error", "closed"}]
  /\ dpc \in {"next", "connecting", "resuming", "connected", "failed"}
  /\ dial \in 1..Len(Addresses) + 1
  /\ connectOk \in BOOLEAN
  /\ arrivals \in Seq(Incoming) /\ delivered \in Seq(Incoming)
  /\ acceptOverlap \in BOOLEAN

Init ==
  /\ StreamInit("none", {})
  /\ listener = "none" /\ listenerHeld = FALSE /\ listenerCloseQ = FALSE
  /\ pending = <<>>
  /\ accept_waiter = Nobody
  /\ accept_error = "none"
  /\ apc = [a \in Acceptors |-> "idle"]
  /\ refused = {}
  /\ outcome = [a \in Acceptors |-> "none"]
  /\ dpc = "next" /\ dial = 1 /\ connectOk = FALSE
  /\ arrivals = <<>> /\ delivered = <<>> /\ acceptOverlap = FALSE

streamRest == <<peerVars, bufferVars, waitVars, readerVars, got, overlap, writeVars, at>>

------------------------------------------------------------------------------
(***************************************************************************)
(* The listener                                                            *)
(***************************************************************************)

\* listen(): some address can be bound and listened on, or all fail and their
\* handles are closed.
Listen ==
  /\ listener = "none"
  /\ \/ listener' = "open" /\ listenerHeld' = TRUE
     \/ listener' = "failed" /\ UNCHANGED listenerHeld
  /\ UNCHANGED <<streamVars, listenerCloseQ, acceptVars, dialVars, historyVars>>

WakeAcceptor ==
  /\ accept_waiter' = Nobody
  /\ apc' = [a \in Acceptors |-> IF accept_waiter = a THEN "resuming" ELSE apc[a]]

\* on_connection that leaves the waiter asleep when the child fails (mutant).
OnConnection_ErrorNoWake(c) ==
  /\ listener = "open"
  /\ handle[c] = "none"
  /\ \/ /\ handle' = [handle EXCEPT ![c] = "open"]
        /\ pending' = Append(pending, c)
        /\ arrivals' = Append(arrivals, c)
        /\ WakeAcceptor
        /\ UNCHANGED accept_error
     \/ /\ \E h \in {"none", "closing"} : handle' = [handle EXCEPT ![c] = h]
        /\ accept_error' = "failed"
        /\ UNCHANGED <<pending, arrivals, accept_waiter, apc>>
  /\ UNCHANGED <<owned, closeQ, streamRest, refused, outcome, listenVars, dialVars,
                 delivered, acceptOverlap>>

\* on_connection: the child is accepted; or the status or the child's
\* initialisation is an error (no handle), or uv_accept is and the child closes.
OnConnection(c) ==
  /\ listener = "open"
  /\ handle[c] = "none"
  /\ \/ /\ handle' = [handle EXCEPT ![c] = "open"]
        /\ pending' = Append(pending, c)
        /\ arrivals' = Append(arrivals, c)
        /\ UNCHANGED accept_error
     \/ /\ \E h \in {"none", "closing"} : handle' = [handle EXCEPT ![c] = h]
        /\ accept_error' = "failed"
        /\ UNCHANGED <<pending, arrivals>>
  /\ WakeAcceptor
  /\ UNCHANGED <<owned, closeQ, streamRest, refused, outcome, listenVars, dialVars,
                 delivered, acceptOverlap>>

\* await_resume that copies the front of pending and leaves it there (mutant).
TakeConnection_NoPop(a) ==
  /\ IF pending # <<>>
     THEN /\ delivered' = Append(delivered, Head(pending))
          /\ owned' = owned \union {Head(pending)}
          /\ outcome' = [outcome EXCEPT ![a] = "stream"]
     ELSE /\ outcome' = [outcome EXCEPT ![a] = IF accept_error = "failed" THEN "error"
                                                                      ELSE "closed"]
          /\ UNCHANGED <<delivered, owned>>
  /\ apc' = [apc EXCEPT ![a] = "idle"]
  /\ UNCHANGED pending

\* AcceptAwaiter::await_resume, the flags aside.
TakeConnection(a) ==
  /\ IF pending # <<>>
     THEN /\ delivered' = Append(delivered, Head(pending))
          /\ pending' = Tail(pending)
          /\ owned' = owned \union {Head(pending)}
          /\ outcome' = [outcome EXCEPT ![a] = "stream"]
     ELSE /\ outcome' = [outcome EXCEPT ![a] = IF accept_error = "failed" THEN "error"
                                                                      ELSE "closed"]
          /\ UNCHANGED <<delivered, pending, owned>>
  /\ apc' = [apc EXCEPT ![a] = "idle"]

\* register_waiter on the loop thread, and the await_resume that follows a
\* `false` for a coroutine of the loop.
RegisterAccept(a) ==
  \/ /\ pending # <<>> \/ listener # "open" \/ accept_error # "none"
     /\ IF a \in OffLoop
        THEN /\ apc' = [apc EXCEPT ![a] = "resuming"]
             /\ UNCHANGED <<delivered, pending, owned, outcome>>
        ELSE TakeConnection(a)
     /\ UNCHANGED <<accept_waiter, refused>>
  \/ /\ pending = <<>> /\ listener = "open" /\ accept_error = "none"
     /\ accept_waiter # Nobody
     /\ IF a \in OffLoop
        THEN /\ apc' = [apc EXCEPT ![a] = "resuming"]
             /\ refused' = refused \union {a}
             /\ UNCHANGED outcome
        ELSE /\ apc' = [apc EXCEPT ![a] = "idle"]
             /\ outcome' = [outcome EXCEPT ![a] = "error"]
             /\ UNCHANGED refused
     /\ UNCHANGED <<delivered, pending, owned, accept_waiter>>
  \/ /\ pending = <<>> /\ listener = "open" /\ accept_error = "none"
     /\ accept_waiter = Nobody
     /\ accept_waiter' = a
     /\ apc' = [apc EXCEPT ![a] = "waiting"]
     /\ UNCHANGED <<delivered, pending, owned, outcome, refused>>

\* accept() up to its suspension.
Accept(a) ==
  /\ apc[a] = "idle"
  /\ listenerHeld /\ listener = "open"
  /\ acceptOverlap' = (acceptOverlap \/ \E b \in Acceptors : apc[b] # "idle")
  /\ IF a \in OffLoop
     THEN /\ apc' = [apc EXCEPT ![a] = "register"]
          /\ UNCHANGED <<delivered, pending, owned, accept_waiter, outcome, refused>>
     ELSE RegisterAccept(a)
  /\ UNCHANGED <<handle, closeQ, streamRest, accept_error, listenVars, dialVars, arrivals>>

\* The closure that await_suspend posted from another thread.
AcceptPosted(a) ==
  /\ apc[a] = "register"
  /\ RegisterAccept(a)
  /\ UNCHANGED <<handle, closeQ, streamRest, accept_error, listenVars, dialVars, arrivals,
                 acceptOverlap>>

\* A posted resumption runs await_resume.
AcceptResume(a) ==
  /\ apc[a] = "resuming"
  /\ IF a \in refused
     THEN /\ apc' = [apc EXCEPT ![a] = "idle"]
          /\ outcome' = [outcome EXCEPT ![a] = "error"]
          /\ UNCHANGED <<delivered, pending, owned>>
     ELSE TakeConnection(a)
  /\ refused' = refused \ {a}
  /\ UNCHANGED <<handle, closeQ, streamRest, accept_waiter, accept_error, listenVars,
                 dialVars, arrivals, acceptOverlap>>

\* The listener's close_on_loop; pending stays as it is.
ListenerCloseOnLoop ==
  IF listener # "open"
  THEN UNCHANGED <<listener, accept_error, accept_waiter, apc>>
  ELSE /\ listener' = "closing"
       /\ accept_error' = "canceled"
       /\ WakeAcceptor

\* close() of the listener, on the loop thread or elsewhere.
ListenerClose ==
  /\ listenerHeld
  /\ listenerHeld' = FALSE
  /\ \/ /\ ListenerCloseOnLoop
        /\ UNCHANGED listenerCloseQ
     \/ /\ listenerCloseQ' = TRUE
        /\ UNCHANGED <<listener, accept_error, accept_waiter, apc>>
  /\ UNCHANGED <<streamVars, pending, refused, outcome, dialVars, historyVars>>

\* The closure that the listener's request_close posted.
ListenerClosePosted ==
  /\ listenerCloseQ
  /\ listenerCloseQ' = FALSE
  /\ ListenerCloseOnLoop
  /\ UNCHANGED <<streamVars, listenerHeld, pending, refused, outcome, dialVars,
                 historyVars>>

\* The listener's on_close.
ListenerOnClose ==
  /\ listener = "closing"
  /\ listener' = "closed"
  /\ UNCHANGED <<streamVars, listenerHeld, listenerCloseQ, acceptVars, dialVars,
                 historyVars>>

------------------------------------------------------------------------------
(***************************************************************************)
(* connect()                                                               *)
(***************************************************************************)

dialRest == <<peerVars, taken, read_buffer, eof, rflag, zeroRead, got, overlap, writeVars, at>>

\* The next address: ConnectAwaiter's start.  A State that could not be
\* initialised is closed at once; one whose uv_tcp_connect fails is closing.
ConnectNext ==
  /\ dpc = "next"
  /\ dial <= Len(Addresses)
  /\ \E h \in {"connecting", "closing", "closed"} :
       /\ handle' = [handle EXCEPT ![Addresses[dial]] = h]
       /\ dpc' = IF h = "connecting" THEN "connecting" ELSE "next"
       /\ dial' = IF h = "connecting" THEN dial ELSE dial + 1
       /\ read_error' = [read_error EXCEPT ![Addresses[dial]] =
                           IF h = "closing" THEN "canceled" ELSE @]
  /\ UNCHANGED <<owned, closeQ, dialRest, waitVars, rpc, connectOk, acceptVars,
                 listenVars, historyVars>>

\* connect() has no address left and throws.
ConnectFails ==
  /\ dpc = "next"
  /\ dial > Len(Addresses)
  /\ dpc' = "failed"
  /\ UNCHANGED <<streamVars, dial, connectOk, acceptVars, listenVars, historyVars>>

\* on_connect.
OnConnect ==
  /\ dpc = "connecting"
  /\ \E ok \in BOOLEAN :
       /\ connectOk' = ok
       /\ handle' = IF ok THEN [handle EXCEPT ![Addresses[dial]] = "open"] ELSE handle
  /\ dpc' = "resuming"
  /\ UNCHANGED <<owned, closeQ, streamRest, dial, acceptVars, listenVars, historyVars>>

\* connect() that tries the next address and does not close the State (mutant).
ConnectResume_NoClose ==
  /\ dpc = "resuming"
  /\ IF connectOk
     THEN /\ owned' = owned \union {Addresses[dial]}
          /\ dpc' = "connected"
          /\ UNCHANGED dial
     ELSE /\ dpc' = "next"
          /\ dial' = dial + 1
          /\ UNCHANGED owned
  /\ UNCHANGED <<handle, closeQ, streamRest, connectOk, acceptVars, listenVars, historyVars>>

\* connect() goes on after an attempt: the stream is returned, or the State is
\* closed and the next address tried.
ConnectResume ==
  /\ dpc = "resuming"
  /\ IF connectOk
     THEN /\ owned' = owned \union {Addresses[dial]}
          /\ dpc' = "connected"
          /\ UNCHANGED <<handle, waitVars, read_error, rpc, dial>>
     ELSE /\ CloseOnLoop(Addresses[dial])
          /\ dpc' = "next"
          /\ dial' = dial + 1
          /\ UNCHANGED owned
  /\ UNCHANGED <<closeQ, dialRest, connectOk, acceptVars, listenVars, historyVars>>

Next ==
  \/ StreamNext /\ UNCHANGED <<acceptVars, listenVars, dialVars, historyVars>>
  \/ Listen
  \/ \E c \in Incoming : OnConnection(c)
  \/ \E a \in Acceptors : Accept(a) \/ AcceptPosted(a) \/ AcceptResume(a)
  \/ ListenerClose
  \/ ListenerClosePosted
  \/ ListenerOnClose
  \/ ConnectNext
  \/ ConnectFails
  \/ OnConnect
  \/ ConnectResume

Spec == Init /\ [][Next]_vars

------------------------------------------------------------------------------
(***************************************************************************)
(* Properties                                                              *)
(***************************************************************************)

\* accept() returns the connections in the order uv_accept made them, each
\* once; those not returned yet are in pending, also after close().
ConnectionsInOrder == delivered \o pending = arrivals

\* Acceptors are neither forgotten nor misled.  A registered one has nothing to
\* wake up for: a connection, an error or close() never leaves it asleep, and
\* neither does a registration from another thread that comes after them.  And
\* accept() says that the listener is closed only when it is, unless two accepts
\* were in progress: then one may take the connection another was woken for, and
\* the refusal of concurrent calls does not see it.
NoIdleAcceptor ==
  /\ accept_waiter # Nobody =>
       pending = <<>> /\ listener = "open" /\ accept_error = "none"
  /\ \A a \in Acceptors :
       /\ apc[a] = "waiting" <=> accept_waiter = a
       /\ outcome[a] = "closed" => listener \in {"closing", "closed"} \/ acceptOverlap

\* Somebody will close the connection: a TcpStream, a posted close, the connect()
\* that is trying it, or an accept() of the open listener it is pending at.
Owner(c) ==
  \/ c \in owned \union closeQ
  \/ listener = "open" /\ \E i \in 1..Len(pending) : pending[i] = c
  \/ dpc \in {"connecting", "resuming"} /\ Addresses[dial] = c

\* Every open handle has an owner, with one exception, and the exception is stated
\* as an equality: the connections that are pending when the listener is closed
\* are all left open, because close_on_loop() does not touch them.  Only an
\* accept() that was already under way can still take one.
OrphansLeftByClose ==
  {c \in Conns : Open(c) /\ ~Owner(c)} =
    IF listener = "open" THEN {} ELSE {pending[i] : i \in 1..Len(pending)}

==============================================================================
