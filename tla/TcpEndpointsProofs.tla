------------------------- MODULE TcpEndpointsProofs -------------------------
EXTENDS TcpEndpoints, TLAPS

AcceptTypes ==
    /\ listener \in {"none", "open", "closing", "closed", "failed"}
    /\ pending \in Seq(Conns) /\ arrivals \in Seq(Conns) /\ delivered \in Seq(Conns)
    /\ accept_waiter \in Acceptors \union {Nobody}
    /\ accept_error \in {"none", "canceled", "failed"}
    /\ apc \in [Acceptors -> {"idle", "register", "waiting", "resuming"}]
    /\ refused \in SUBSET Acceptors
    /\ outcome \in [Acceptors -> {"none", "stream", "error", "closed"}]
    /\ acceptOverlap \in BOOLEAN

\* An acceptor that is resumed and not refused finds a connection, an error or a
\* closed listener, unless another one was there to take it; a cancelled accept
\* means a closed listener; and accept() was called on one that listens.
Closing == listener \in {"closing", "closed"}
AcceptFinds(a) ==
    apc[a] = "resuming" /\ a \notin refused =>
      acceptOverlap \/ pending # <<>> \/ accept_error = "failed" \/ Closing
AcceptNoticed(a, b) == a # b /\ apc[a] # "idle" /\ apc[b] # "idle" => acceptOverlap

AcceptInv ==
    /\ AcceptTypes
    /\ NoIdleAcceptor
    /\ accept_error = "canceled" => Closing
    /\ \A a \in Acceptors : AcceptFinds(a) /\ (apc[a] # "idle" => Closing \/ listener = "open")
    /\ \A a, b \in Acceptors : AcceptNoticed(a, b)

HandleTypes ==
    /\ handle \in [Conns -> {"none", "connecting", "open", "closing", "closed"}]
    /\ dial \in 1 .. Len(Addresses) + 1
    /\ dpc \in {"connecting", "resuming"} => dial <= Len(Addresses)

InPending(c) == \E i \in 1 .. Len(pending) : pending[i] = c

\* Who will close c, or would if the listener is open.
Cared(c) ==
    \/ c \in owned \union closeQ
    \/ InPending(c)
    \/ dpc \in {"connecting", "resuming"} /\ Addresses[dial] = c

AllCared == \A c \in Conns : Open(c) => Cared(c)

EndpointInv == AcceptInv /\ ConnectionsInOrder /\ HandleTypes /\ AllCared

----------------------------------------------------------------------------
\* b is x followed by y.
Splits(b, x, y) ==
    /\ Len(b) = Len(x) + Len(y)
    /\ \A i \in 1 .. Len(b) : b[i] = IF i <= Len(x) THEN x[i] ELSE y[i - Len(x)]

(* Two sequences of one length with the same elements are one. *)
LEMMA SameSeq ==
    ASSUME NEW S, NEW a \in Seq(S), NEW b \in Seq(S), Len(a) = Len(b),
           \A i \in 1 .. Len(a) : a[i] = b[i]
    PROVE  a = b
OBVIOUS

\* Two and three sequences in a row.
Row2(g, b) == g \o b
Row3(g, x, y) == (g \o x) \o y

LEMMA Glue ==
    ASSUME NEW S, NEW g \in Seq(S), NEW b \in Seq(S), NEW x \in Seq(S), NEW y \in Seq(S),
           Splits(b, x, y)
    PROVE  Row3(g, x, y) = Row2(g, b)
<1> DEFINE u == g \o x
           v == u \o y
           d == g \o b
<1>0. Len(g) \in Nat /\ Len(b) \in Nat /\ Len(x) \in Nat /\ Len(y) \in Nat
  OBVIOUS
<1>3. /\ u \in Seq(S) /\ Len(u) = Len(g) + Len(x)
      /\ \A i \in 1 .. Len(g) + Len(x) : u[i] = IF i <= Len(g) THEN g[i] ELSE x[i - Len(g)]
  OBVIOUS
<1> HIDE DEF u
<1>u. u \in Seq(S)
  BY <1>3, Zenon
<1>4. /\ v \in Seq(S) /\ Len(v) = Len(u) + Len(y)
      /\ \A i \in 1 .. Len(u) + Len(y) : v[i] = IF i <= Len(u) THEN u[i] ELSE y[i - Len(u)]
  BY <1>u
<1>5. /\ d \in Seq(S) /\ Len(d) = Len(g) + Len(b)
      /\ \A i \in 1 .. Len(g) + Len(b) : d[i] = IF i <= Len(g) THEN g[i] ELSE b[i - Len(g)]
  OBVIOUS
<1> HIDE DEF v, d
<1>6. v = d
  <2> USE DEF Splits
  <2>1. Len(v) = Len(d) /\ Len(v) = Len(g) + Len(x) + Len(y)
    BY <1>0, <1>3, <1>4, <1>5
  <2>2. ASSUME NEW i \in 1 .. Len(v) PROVE v[i] = d[i]
    <3>1. CASE i <= Len(g)
      <4>1. v[i] = g[i]
        BY <1>0, <1>3, <1>4, <2>1, <3>1
      <4>2. d[i] = g[i]
        BY <1>0, <1>5, <2>1, <3>1, Zenon
      <4> QED BY <4>1, <4>2, Zenon
    <3>2. CASE i > Len(g) /\ i <= Len(g) + Len(x)
      <4>1. v[i] = x[i - Len(g)]
        BY <1>0, <1>3, <1>4, <2>1, <3>2
      <4>2. d[i] = b[i - Len(g)] /\ i - Len(g) \in 1 .. Len(b) /\ i - Len(g) <= Len(x)
        BY <1>0, <1>5, <2>1, <3>2
      <4> QED BY <4>1, <4>2, Zenon
    <3>3. CASE i > Len(g) + Len(x)
      <4>1. v[i] = y[i - Len(g) - Len(x)]
        BY <1>0, <1>3, <1>4, <2>1, <3>3
      <4>2. d[i] = b[i - Len(g)] /\ i - Len(g) \in 1 .. Len(b) /\ ~(i - Len(g) <= Len(x))
        BY <1>0, <1>5, <2>1, <3>3
      <4> QED BY <4>1, <4>2, Zenon
    <3> QED BY <1>0, <3>1, <3>2, <3>3
  <2> QED BY <1>4, <1>5, <2>1, <2>2, SameSeq, Zenon
<1> QED BY <1>6, Zenon DEF v, d, u, Row2, Row3

LEMMA Associative ==
    ASSUME NEW S, NEW g \in Seq(S), NEW x \in Seq(S), NEW y \in Seq(S)
    PROVE  /\ x \o y \in Seq(S) /\ Len(x \o y) = Len(x) + Len(y)
           /\ (g \o x) \o y = g \o (x \o y)
<1> DEFINE b == x \o y
<1>1. /\ b \in Seq(S) /\ Len(b) = Len(x) + Len(y)
      /\ \A i \in 1 .. Len(x) + Len(y) : b[i] = IF i <= Len(x) THEN x[i] ELSE y[i - Len(x)]
  OBVIOUS
<1> HIDE DEF b
<1>2. b \in Seq(S) /\ Splits(b, x, y)
  BY <1>1, Zenon DEF Splits
<1>3. b \in Seq(S)
  BY <1>2, Zenon
<1>4. Splits(b, x, y)
  BY <1>2, Zenon
<1>5. Row3(g, x, y) = Row2(g, b)
  BY <1>3, <1>4, Glue
<1> QED BY <1>1, <1>5, Zenon DEF b, Row2, Row3

\* The front of pending may be handed over; nothing is lost or overtaken.
Passed ==
    /\ delivered' \in Seq(Conns) /\ pending' \in Seq(Conns)
    /\ delivered' \o pending' = delivered \o pending
    /\ pending = <<>> => pending' = <<>>
    /\ owned \subseteq owned'
    /\ \A c \in Conns : InPending(c) => InPending(c)' \/ c \in owned'
    /\ \/ pending' = pending /\ owned' = owned
       \/ /\ pending # <<>> /\ pending' = Tail(pending)
          /\ owned' = owned \union {Head(pending)}

LEMMA NothingPassed ==
    ASSUME AcceptTypes, delivered' = delivered, pending' = pending, owned' = owned
    PROVE  Passed
  BY Zenon DEF Passed, AcceptTypes, InPending

LEMMA TakePasses ==
    ASSUME AcceptTypes, NEW a \in Acceptors, TakeConnection(a)
    PROVE  Passed
<1>1. CASE pending = <<>>
  BY <1>1, NothingPassed, Zenon DEF TakeConnection
<1>2. CASE pending # <<>>
  <2> DEFINE g == delivered
             b == pending
             h == Head(b)
             y == Tail(b)
             x == <<h>>
  <2>1. delivered' = Append(g, h) /\ pending' = y /\ owned' = owned \union {h}
    BY <1>2, Zenon DEF TakeConnection
  <2>2. g \in Seq(Conns) /\ b \in Seq(Conns) /\ b # <<>>
    BY <1>2, Zenon DEF AcceptTypes
  <2> HIDE DEF g, b
  <2>3. /\ h \in Conns /\ y \in Seq(Conns) /\ Len(y) = Len(b) - 1 /\ h = b[1]
        /\ \A i \in 1 .. Len(y) : y[i] = b[i + 1]
    BY <2>2
  <2>4. Append(g, h) = g \o <<h>> /\ Append(g, h) \in Seq(Conns)
    BY <2>2, <2>3
  <2>l. Len(b) \in Nat /\ Len(b) # 0
    BY <2>2
  <2>5. x \in Seq(Conns) /\ Len(x) = 1 /\ x[1] = h
    BY <2>3
  <2> HIDE DEF h, y, x
  <2>6. Splits(b, x, y)
    <3>1. Len(b) = Len(x) + Len(y)
      BY <2>3, <2>5, <2>l
    <3>2. ASSUME NEW i \in 1 .. Len(b) PROVE b[i] = IF i <= Len(x) THEN x[i] ELSE y[i - Len(x)]
      <4>1. CASE i = 1
        BY <2>3, <2>5, <4>1
      <4>2. CASE i # 1
        <5>1. i - 1 \in 1 .. Len(y) /\ (i - 1) + 1 = i
          BY <2>3, <2>l, <4>2
        <5> QED BY <2>3, <2>5, <4>2, <5>1
      <4> QED BY <4>1, <4>2, Zenon
    <3> QED BY <3>1, <3>2, Zenon DEF Splits
  <2>7. (g \o x) \o y = g \o b
    <3>1. g \in Seq(Conns) /\ b \in Seq(Conns) /\ x \in Seq(Conns) /\ y \in Seq(Conns)
      BY <2>2, <2>3, <2>5, Zenon
    <3>2. Row3(g, x, y) = Row2(g, b)
      BY <2>6, <3>1, Glue
    <3> QED BY <3>2, Zenon DEF Row2, Row3
  <2>8. ASSUME NEW c \in Conns, InPending(c) PROVE InPending(c)' \/ c \in owned'
    <3>1. PICK i \in 1 .. Len(b) : b[i] = c
      BY <2>8, Zenon DEF InPending, b
    <3>2. CASE i = 1
      BY <2>1, <2>3, <3>1, <3>2, Zenon
    <3>3. CASE i # 1
      <4>1. i - 1 \in 1 .. Len(y) /\ (i - 1) + 1 = i
        BY <2>3, <2>l, <3>3
      <4>2. y[i - 1] = c
        BY <2>3, <3>1, <4>1, Zenon
      <4> QED BY <2>1, <4>1, <4>2, Zenon DEF InPending
    <3> QED BY <3>2, <3>3, Zenon
  <2>9. /\ delivered' \in Seq(Conns) /\ pending' \in Seq(Conns)
        /\ delivered' \o pending' = delivered \o pending
    <3>1. delivered' = g \o x
      BY <2>1, <2>4, Zenon DEF x
    <3>2. delivered' \in Seq(Conns) /\ pending' \in Seq(Conns)
      BY <2>1, <2>3, <2>4, Zenon
    <3>3. pending' = y
      BY <2>1, Zenon
    <3>4. (g \o x) \o y = g \o b
      BY <2>7, Zenon
    <3> QED BY <3>1, <3>2, <3>3, <3>4, Zenon DEF g, b
  <2>10. owned \subseteq owned'
    BY <2>1, Zenon
  <2>11. pending' = Tail(pending) /\ owned' = owned \union {Head(pending)}
    BY <1>2, Zenon DEF TakeConnection
  <2> QED BY <1>2, <2>8, <2>9, <2>10, <2>11, Zenon DEF Passed
<1> QED BY <1>1, <1>2, Zenon

\* A step of acceptor a.
LEMMA AcceptorMoves ==
    ASSUME AcceptInv, NEW a \in Acceptors, NEW x \in {"idle", "register", "waiting", "resuming"},
           apc' = [apc EXCEPT ![a] = x], apc[a] # "waiting", Passed,
           listener' = listener, accept_error' = accept_error, arrivals' = arrivals,
           acceptOverlap' \in BOOLEAN, acceptOverlap => acceptOverlap',
           \A b \in Acceptors \ {a} : apc[b] # "idle" => acceptOverlap',
           refused' \in SUBSET Acceptors, refused' \ {a} = refused \ {a},
           outcome' \in [Acceptors -> {"none", "stream", "error", "closed"}],
           \A b \in Acceptors \ {a} : outcome'[b] = outcome[b],
           outcome'[a] = "closed" => outcome[a] = "closed" \/ Closing \/ acceptOverlap',
           \/ x # "waiting" /\ accept_waiter' = accept_waiter
           \/ /\ x = "waiting" /\ accept_waiter = Nobody /\ accept_waiter' = a
              /\ pending = <<>> /\ listener = "open" /\ accept_error = "none",
           x # "idle" => Closing \/ listener = "open",
           x = "resuming" /\ a \notin refused' =>
             acceptOverlap' \/ pending' # <<>> \/ accept_error = "failed" \/ Closing
    PROVE  AcceptInv'
<1> USE EndpointAssumption
<1>0. AcceptTypes
  BY Zenon DEF AcceptInv
<1>1. apc'[a] = x /\ \A b \in Acceptors \ {a} : apc'[b] = apc[b]
  BY <1>0, Zenon DEF AcceptTypes
<1>2. AcceptTypes'
  <2>1. apc' \in [Acceptors -> {"idle", "register", "waiting", "resuming"}]
    BY <1>0, Zenon DEF AcceptTypes
  <2>2. accept_waiter' \in Acceptors \union {Nobody}
    BY <1>0, Zenon DEF AcceptTypes
  <2>3. pending' \in Seq(Conns) /\ delivered' \in Seq(Conns)
    BY Zenon DEF Passed
  <2> QED BY <1>0, <2>1, <2>2, <2>3, Zenon DEF AcceptTypes
<1>3. NoIdleAcceptor'
  <2>1. ASSUME accept_waiter' # Nobody
        PROVE  pending' = <<>> /\ listener' = "open" /\ accept_error' = "none"
    BY <2>1, Zenon DEF AcceptInv, NoIdleAcceptor, Passed
  <2>2. ASSUME NEW b \in Acceptors PROVE apc'[b] = "waiting" <=> accept_waiter' = b
    BY <1>1 DEF AcceptInv, NoIdleAcceptor
  <2>3. ASSUME NEW b \in Acceptors, outcome'[b] = "closed"
        PROVE  listener' \in {"closing", "closed"} \/ acceptOverlap'
    BY <2>3, Zenon DEF AcceptInv, NoIdleAcceptor, Closing
  <2> QED BY <2>1, <2>2, <2>3, Zenon DEF NoIdleAcceptor
<1>4. Closing' <=> Closing
  BY Zenon DEF Closing
<1>5. accept_error' = "canceled" => Closing'
  BY <1>4, Zenon DEF AcceptInv
<1>6. ASSUME NEW b \in Acceptors PROVE AcceptFinds(b)' /\ (apc'[b] # "idle" => Closing' \/ listener' = "open")
  <2>1. CASE b = a
    BY <1>1, <1>4, <2>1, Zenon DEF AcceptFinds
  <2>2. CASE b # a
    BY <1>1, <1>4, <2>2, Zenon DEF AcceptFinds, AcceptInv
  <2> QED BY <2>1, <2>2, Zenon
<1>7. \A b, d \in Acceptors : AcceptNoticed(b, d)'
  BY <1>1, Zenon DEF AcceptInv, AcceptNoticed
<1> QED BY <1>2, <1>3, <1>5, <1>6, <1>7, Zenon DEF AcceptInv

LEMMA RegisterAcceptStep ==
    ASSUME AcceptInv, NEW a \in Acceptors, RegisterAccept(a), apc[a] # "waiting",
           Closing \/ listener = "open",
           listener' = listener, accept_error' = accept_error, arrivals' = arrivals,
           acceptOverlap' \in BOOLEAN, acceptOverlap => acceptOverlap',
           \A b \in Acceptors \ {a} : apc[b] # "idle" => acceptOverlap'
    PROVE  AcceptInv' /\ Passed
<1>0. AcceptTypes
  BY Zenon DEF AcceptInv
<1>1. CASE /\ pending # <<>> \/ listener # "open" \/ accept_error # "none"
           /\ a \in OffLoop
           /\ apc' = [apc EXCEPT ![a] = "resuming"]
           /\ UNCHANGED <<delivered, pending, owned, outcome, accept_waiter, refused>>
  <2>1. Passed
    BY <1>0, <1>1, NothingPassed, Zenon
  <2>2. /\ refused' \in SUBSET Acceptors /\ refused' \ {a} = refused \ {a}
        /\ outcome' \in [Acceptors -> {"none", "stream", "error", "closed"}]
        /\ \A b \in Acceptors : outcome'[b] = outcome[b]
        /\ accept_waiter' = accept_waiter
    BY <1>0, <1>1, Zenon DEF AcceptTypes
  <2>3. pending' # <<>> \/ accept_error = "failed" \/ Closing
    BY <1>0, <1>1, Zenon DEF AcceptInv, AcceptTypes
  <2>4. AcceptInv'
    BY <1>1, <2>1, <2>2, <2>3, AcceptorMoves, Zenon
  <2> QED BY <2>1, <2>4, Zenon
<1>2. CASE /\ pending # <<>> \/ listener # "open" \/ accept_error # "none"
           /\ TakeConnection(a)
           /\ UNCHANGED <<accept_waiter, refused>>
  <2>1. Passed
    BY <1>0, <1>2, TakePasses, Zenon
  <2>2. /\ outcome' \in [Acceptors -> {"none", "stream", "error", "closed"}]
        /\ \A b \in Acceptors \ {a} : outcome'[b] = outcome[b]
        /\ outcome'[a] = "closed" => pending = <<>> /\ accept_error # "failed"
    BY <1>0, <1>2, Zenon DEF TakeConnection, AcceptTypes
  <2>3. outcome'[a] = "closed" => Closing
    BY <1>0, <1>2, <2>2, Zenon DEF AcceptInv, AcceptTypes
  <2>4. /\ apc' = [apc EXCEPT ![a] = "idle"] /\ accept_waiter' = accept_waiter
        /\ refused' \in SUBSET Acceptors /\ refused' \ {a} = refused \ {a}
    BY <1>0, <1>2, Zenon DEF TakeConnection, AcceptTypes
  <2>5. AcceptInv'
    BY <2>1, <2>2, <2>3, <2>4, AcceptorMoves, Zenon
  <2> QED BY <2>1, <2>5, Zenon
<1>3. CASE /\ a \in OffLoop
           /\ apc' = [apc EXCEPT ![a] = "resuming"]
           /\ refused' = refused \union {a}
           /\ UNCHANGED <<outcome, delivered, pending, owned, accept_waiter>>
  <2>1. Passed
    BY <1>0, <1>3, NothingPassed, Zenon
  <2>2. /\ refused' \in SUBSET Acceptors /\ refused' \ {a} = refused \ {a} /\ a \in refused'
        /\ outcome' \in [Acceptors -> {"none", "stream", "error", "closed"}]
        /\ \A b \in Acceptors : outcome'[b] = outcome[b]
        /\ accept_waiter' = accept_waiter
    BY <1>0, <1>3, Zenon DEF AcceptTypes
  <2>3. AcceptInv'
    BY <1>3, <2>1, <2>2, AcceptorMoves, Zenon
  <2> QED BY <2>1, <2>3, Zenon
<1>4. CASE /\ apc' = [apc EXCEPT ![a] = "idle"]
           /\ outcome' = [outcome EXCEPT ![a] = "error"]
           /\ UNCHANGED <<refused, delivered, pending, owned, accept_waiter>>
  <2>1. Passed
    BY <1>0, <1>4, NothingPassed, Zenon
  <2>2. /\ refused' \in SUBSET Acceptors /\ refused' \ {a} = refused \ {a}
        /\ outcome' \in [Acceptors -> {"none", "stream", "error", "closed"}]
        /\ \A b \in Acceptors \ {a} : outcome'[b] = outcome[b]
        /\ outcome'[a] = "error" /\ accept_waiter' = accept_waiter
    BY <1>0, <1>4, Zenon DEF AcceptTypes
  <2>3. AcceptInv'
    BY <1>4, <2>1, <2>2, AcceptorMoves, Zenon
  <2> QED BY <2>1, <2>3, Zenon
<1>5. CASE /\ pending = <<>> /\ listener = "open" /\ accept_error = "none"
           /\ accept_waiter = Nobody
           /\ accept_waiter' = a
           /\ apc' = [apc EXCEPT ![a] = "waiting"]
           /\ UNCHANGED <<delivered, pending, owned, outcome, refused>>
  <2>1. Passed
    BY <1>0, <1>5, NothingPassed, Zenon
  <2>2. /\ refused' \in SUBSET Acceptors /\ refused' \ {a} = refused \ {a}
        /\ outcome' \in [Acceptors -> {"none", "stream", "error", "closed"}]
        /\ \A b \in Acceptors : outcome'[b] = outcome[b]
    BY <1>0, <1>5, Zenon DEF AcceptTypes
  <2>3. AcceptInv'
    BY <1>5, <2>1, <2>2, AcceptorMoves, Zenon
  <2> QED BY <2>1, <2>3, Zenon
<1> QED BY <1>1, <1>2, <1>3, <1>4, <1>5, Zenon DEF RegisterAccept

\* Accept, AcceptPosted and AcceptResume.
LEMMA AcceptorSteps ==
    ASSUME AcceptInv, NEW a \in Acceptors, Accept(a) \/ AcceptPosted(a) \/ AcceptResume(a)
    PROVE  AcceptInv' /\ Passed
<1>0. AcceptTypes
  BY Zenon DEF AcceptInv
<1>1. listener' = listener /\ accept_error' = accept_error /\ arrivals' = arrivals
  BY Zenon DEF Accept, AcceptPosted, AcceptResume, listenVars
<1>2. CASE Accept(a)
  <2>1. /\ apc[a] = "idle" /\ listener = "open"
        /\ acceptOverlap' = (acceptOverlap \/ \E b \in Acceptors : apc[b] # "idle")
    BY <1>2, Zenon DEF Accept
  <2>2. /\ acceptOverlap' \in BOOLEAN /\ (acceptOverlap => acceptOverlap')
        /\ \A b \in Acceptors \ {a} : apc[b] # "idle" => acceptOverlap'
    BY <1>0, <2>1, Zenon DEF AcceptTypes
  <2>3. CASE a \in OffLoop
    <3>1. /\ apc' = [apc EXCEPT ![a] = "register"]
          /\ UNCHANGED <<delivered, pending, owned, accept_waiter, outcome, refused>>
      BY <1>2, <2>3, Zenon DEF Accept
    <3>2. Passed
      BY <1>0, <3>1, NothingPassed, Zenon
    <3>3. /\ refused' \in SUBSET Acceptors /\ refused' \ {a} = refused \ {a}
          /\ outcome' \in [Acceptors -> {"none", "stream", "error", "closed"}]
          /\ \A b \in Acceptors : outcome'[b] = outcome[b]
          /\ accept_waiter' = accept_waiter
      BY <1>0, <3>1, Zenon DEF AcceptTypes
    <3>4. AcceptInv'
      BY <1>1, <2>1, <2>2, <3>1, <3>2, <3>3, AcceptorMoves, Zenon
    <3> QED BY <3>2, <3>4, Zenon
  <2>4. CASE a \notin OffLoop
    <3>1. RegisterAccept(a)
      BY <1>2, <2>4, Zenon DEF Accept
    <3> QED BY <1>1, <2>1, <2>2, <3>1, RegisterAcceptStep, Zenon
  <2> QED BY <2>3, <2>4, Zenon
<1>3. ASSUME AcceptPosted(a) \/ AcceptResume(a)
      PROVE  /\ acceptOverlap' = acceptOverlap /\ acceptOverlap' \in BOOLEAN
             /\ apc[a] \in {"register", "resuming"} /\ (Closing \/ listener = "open")
             /\ \A b \in Acceptors \ {a} : apc[b] # "idle" => acceptOverlap'
  BY <1>0, <1>3, Zenon DEF AcceptPosted, AcceptResume, AcceptInv, AcceptTypes, AcceptNoticed
<1>4. CASE AcceptPosted(a)
  <2>1. RegisterAccept(a)
    BY <1>4, Zenon DEF AcceptPosted
  <2>2. /\ acceptOverlap' = acceptOverlap /\ acceptOverlap' \in BOOLEAN
        /\ apc[a] # "waiting" /\ (Closing \/ listener = "open")
        /\ \A b \in Acceptors \ {a} : apc[b] # "idle" => acceptOverlap'
    BY <1>3, <1>4, Zenon
  <2> QED BY <1>1, <2>1, <2>2, RegisterAcceptStep, Zenon
<1>5. CASE AcceptResume(a)
  <2>0. /\ acceptOverlap' = acceptOverlap /\ acceptOverlap' \in BOOLEAN
        /\ apc[a] # "waiting" /\ (Closing \/ listener = "open")
        /\ \A b \in Acceptors \ {a} : apc[b] # "idle" => acceptOverlap'
    BY <1>3, <1>5, Zenon
  <2>1. /\ refused' = refused \ {a} /\ accept_waiter' = accept_waiter /\ apc[a] = "resuming"
    BY <1>5, Zenon DEF AcceptResume
  <2>2. refused' \in SUBSET Acceptors /\ refused' \ {a} = refused \ {a}
    BY <1>0, <2>1, Zenon DEF AcceptTypes
  <2>3. CASE a \in refused
    <3>1. /\ apc' = [apc EXCEPT ![a] = "idle"] /\ outcome' = [outcome EXCEPT ![a] = "error"]
          /\ UNCHANGED <<delivered, pending, owned>>
      BY <1>5, <2>3, Zenon DEF AcceptResume
    <3>2. Passed
      BY <1>0, <3>1, NothingPassed, Zenon
    <3>3. /\ outcome' \in [Acceptors -> {"none", "stream", "error", "closed"}]
          /\ outcome'[a] = "error" /\ \A b \in Acceptors \ {a} : outcome'[b] = outcome[b]
      BY <1>0, <3>1, Zenon DEF AcceptTypes
    <3>4. AcceptInv'
      BY <1>1, <2>0, <2>1, <2>2, <3>1, <3>2, <3>3, AcceptorMoves, Zenon
    <3> QED BY <3>2, <3>4, Zenon
  <2>4. CASE a \notin refused
    <3>1. TakeConnection(a)
      BY <1>5, <2>4, Zenon DEF AcceptResume
    <3>2. Passed
      BY <1>0, <3>1, TakePasses, Zenon
    <3>3. /\ outcome' \in [Acceptors -> {"none", "stream", "error", "closed"}]
          /\ \A b \in Acceptors \ {a} : outcome'[b] = outcome[b]
          /\ outcome'[a] = "closed" => pending = <<>> /\ accept_error # "failed"
          /\ apc' = [apc EXCEPT ![a] = "idle"]
      BY <1>0, <3>1, Zenon DEF TakeConnection, AcceptTypes
    <3>4. outcome'[a] = "closed" => Closing \/ acceptOverlap'
      BY <2>0, <2>1, <2>4, <3>3, Zenon DEF AcceptInv, AcceptFinds
    <3>5. AcceptInv'
      BY <1>1, <2>0, <2>1, <2>2, <3>2, <3>3, <3>4, AcceptorMoves, Zenon
    <3> QED BY <3>2, <3>5, Zenon
  <2> QED BY <2>3, <2>4, Zenon
<1> QED BY <1>2, <1>4, <1>5, Zenon

\* on_connection and the listener's close_on_loop wake the registered acceptor.
LEMMA WakeAccept ==
    ASSUME AcceptInv, WakeAcceptor, listener' \in {"open", "closing", "closed"},
           accept_error' \in {"none", "canceled", "failed"}, pending' \in Seq(Conns),
           arrivals' \in Seq(Conns), delivered' = delivered, outcome' = outcome,
           refused' = refused, acceptOverlap' = acceptOverlap, Closing => Closing',
           pending' # <<>> \/ accept_error' = "failed" \/ Closing',
           accept_error' = "canceled" => Closing'
    PROVE  AcceptInv'
<1> USE EndpointAssumption
<1>0. AcceptTypes /\ NoIdleAcceptor
  BY Zenon DEF AcceptInv
<1>1. /\ accept_waiter' = Nobody
      /\ \A a \in Acceptors : apc'[a] = IF accept_waiter = a THEN "resuming" ELSE apc[a]
      /\ apc' \in [Acceptors -> {"idle", "register", "waiting", "resuming"}]
  BY <1>0, Zenon DEF WakeAcceptor, AcceptTypes
<1>2. AcceptTypes'
  BY <1>0, <1>1, Zenon DEF AcceptTypes
<1>3. NoIdleAcceptor'
  BY <1>0, <1>1, Zenon DEF NoIdleAcceptor, Closing
<1>4. \A a \in Acceptors : AcceptFinds(a)' /\ (apc'[a] # "idle" => Closing' \/ listener' = "open")
  BY Zenon DEF AcceptFinds, Closing
<1>5. \A a, b \in Acceptors : AcceptNoticed(a, b)'
  BY <1>0, <1>1 DEF AcceptInv, AcceptNoticed, NoIdleAcceptor
<1> QED BY <1>2, <1>3, <1>4, <1>5, Zenon DEF AcceptInv

LEMMA AcceptFrame ==
    ASSUME AcceptInv, acceptVars' = acceptVars, historyVars' = historyVars,
           listener' \in {"none", "open", "closing", "closed", "failed"},
           Closing => Closing', listener = "open" => listener' = "open"
    PROVE  AcceptInv'
<1> USE DEF acceptVars, historyVars
<1>1. AcceptTypes'
  BY Zenon DEF AcceptInv, AcceptTypes
<1>2. NoIdleAcceptor'
  BY DEF AcceptInv, NoIdleAcceptor, Closing
<1>3. \A a \in Acceptors : AcceptFinds(a)' /\ (apc'[a] # "idle" => Closing' \/ listener' = "open")
  BY DEF AcceptInv, AcceptFinds
<1>4. \A a, b \in Acceptors : AcceptNoticed(a, b)'
  BY DEF AcceptInv, AcceptNoticed
<1> QED BY <1>1, <1>2, <1>3, <1>4, Zenon DEF AcceptInv, acceptVars

----------------------------------------------------------------------------
(* Handles. *)

\* A stream's own steps open no handle, and who holds an open one still does; they
\* leave a connection alone that no TcpStream has.
Kept(c) ==
    /\ Open(c)' => Open(c) /\ (c \in owned \union closeQ => c \in owned' \union closeQ')
    /\ c \notin owned \union closeQ =>
         c \notin owned' \union closeQ' /\ (Open(c) => Open(c)')
    /\ handle[c] # "none" => handle'[c] # "none"

LEMMA CloseKeeps ==
    ASSUME HandleTypes, NEW c \in Conns, CloseOnLoop(c)
    PROVE  /\ handle' \in [Conns -> {"none", "connecting", "open", "closing", "closed"}]
           /\ ~Open(c)' /\ \A d \in Conns \ {c} : handle'[d] = handle[d]
           /\ handle[c] # "none" => handle'[c] # "none"
  BY Zenon DEF CloseOnLoop, HandleTypes, Open

LEMMA StreamKeeps ==
    ASSUME HandleTypes, StreamNext
    PROVE  /\ handle' \in [Conns -> {"none", "connecting", "open", "closing", "closed"}]
           /\ \A d \in Conns : Kept(d)
<1> USE DEF handleVars
<1>1. ASSUME handle' = handle, owned' = owned, closeQ' = closeQ
      PROVE  /\ handle' \in [Conns -> {"none", "connecting", "open", "closing", "closed"}]
             /\ \A d \in Conns : Kept(d)
  BY <1>1, Zenon DEF Kept, Open, HandleTypes
<1>2. ASSUME NEW r \in Readers, (\E c \in Conns : ReadSome(r, c)) \/ RegisterPosted(r) \/ ReadResume(r)
      PROVE  handle' = handle /\ owned' = owned /\ closeQ' = closeQ
  BY <1>2, Zenon DEF ReadSome, RegisterPosted, ReadResume
<1>3. ASSUME NEW w \in Writers, (\E c \in Conns : WriteAll(w, c)) \/ StartPosted(w) \/ WriteResume(w)
      PROVE  handle' = handle /\ owned' = owned /\ closeQ' = closeQ
  BY <1>3, Zenon DEF WriteAll, StartPosted, WriteResume
<1>4. ASSUME NEW c \in Conns, ReadCb(c) \/ Drain(c) \/ OnWrite(c) \/ ShutdownWrite(c) \/ Peer(c)
      PROVE  handle' = handle /\ owned' = owned /\ closeQ' = closeQ
  BY <1>4, Zenon DEF ReadCb, Drain, OnWrite, ShutdownWrite, Peer
<1>5. ASSUME NEW c \in Conns, Close(c) \/ ClosePosted(c)
      PROVE  /\ handle' \in [Conns -> {"none", "connecting", "open", "closing", "closed"}]
             /\ \A d \in Conns : Kept(d)
  <2>1. /\ CloseOnLoop(c) /\ owned \ {c} \subseteq owned' /\ closeQ \ {c} \subseteq closeQ'
        /\ owned' \subseteq owned /\ closeQ' \subseteq closeQ /\ c \in owned \union closeQ
    BY <1>5, Zenon DEF Close, ClosePosted
  <2> QED BY <2>1, CloseKeeps, Zenon DEF Kept, Open
<1>6. ASSUME NEW c \in Conns, CloseElsewhere(c)
      PROVE  /\ handle' \in [Conns -> {"none", "connecting", "open", "closing", "closed"}]
             /\ \A d \in Conns : Kept(d)
  BY <1>6, Zenon DEF CloseElsewhere, Kept, Open, HandleTypes
<1>7. ASSUME NEW c \in Conns, OnClose(c)
      PROVE  /\ handle' \in [Conns -> {"none", "connecting", "open", "closing", "closed"}]
             /\ \A d \in Conns : Kept(d)
  BY <1>7, Zenon DEF OnClose, Kept, Open, HandleTypes
<1> QED BY <1>1, <1>2, <1>3, <1>4, <1>5, <1>6, <1>7, Zenon DEF StreamNext

LEMMA HandlesSame ==
    ASSUME HandleTypes, AllCared, handle' = handle, owned' = owned, closeQ' = closeQ,
           pending' = pending, dialVars' = dialVars
    PROVE  HandleTypes' /\ AllCared'
  BY Zenon DEF HandleTypes, AllCared, Cared, InPending, Open, dialVars

LEMMA OneMore ==
    ASSUME AcceptTypes, ConnectionsInOrder, NEW c \in Conns
    PROVE  /\ Append(pending, c) \in Seq(Conns) /\ Append(arrivals, c) \in Seq(Conns)
           /\ delivered \o Append(pending, c) = Append(arrivals, c)
           /\ Append(pending, c) # <<>>
           /\ Len(Append(pending, c)) = Len(pending) + 1 /\ Len(pending) \in Nat
           /\ Append(pending, c)[Len(pending) + 1] = c
           /\ \A i \in 1 .. Len(pending) : Append(pending, c)[i] = pending[i]
<1>1. pending \in Seq(Conns) /\ delivered \in Seq(Conns) /\ arrivals \in Seq(Conns)
  BY Zenon DEF AcceptTypes
<1>2. /\ Append(pending, c) \in Seq(Conns) /\ Append(pending, c) # <<>>
      /\ Len(Append(pending, c)) = Len(pending) + 1 /\ Len(pending) \in Nat
      /\ Append(pending, c)[Len(pending) + 1] = c
      /\ \A i \in 1 .. Len(pending) : Append(pending, c)[i] = pending[i]
  BY <1>1
<1>3. Append(arrivals, c) \in Seq(Conns)
  BY <1>1
<1> DEFINE x == <<c>>
<1>4. Append(pending, c) = pending \o x /\ Append(arrivals, c) = arrivals \o x /\ x \in Seq(Conns)
  BY <1>1
<1> HIDE DEF x
<1>5. /\ pending \o x \in Seq(Conns) /\ Len(pending \o x) = Len(pending) + Len(x)
      /\ (delivered \o pending) \o x = delivered \o (pending \o x)
  <2>1. x \in Seq(Conns)
    BY <1>4, Zenon
  <2> QED BY <1>1, <2>1, Associative
<1>6. delivered \o pending = arrivals
  BY Zenon DEF ConnectionsInOrder
<1>7. delivered \o Append(pending, c) = Append(arrivals, c)
  BY <1>4, <1>5, <1>6, Zenon
<1> QED BY <1>2, <1>3, <1>7, Zenon

LEMMA EndpointInitInv == Init => EndpointInv
<1> SUFFICES ASSUME Init PROVE EndpointInv
  BY Zenon
<1> USE EndpointAssumption
<1>1. AcceptInv
  <2>1. AcceptTypes
    <3>1. /\ pending = <<>> /\ arrivals = <<>> /\ delivered = <<>> /\ listener = "none"
          /\ accept_waiter = Nobody /\ accept_error = "none" /\ refused = {}
      BY Zenon DEF Init
    <3>2. acceptOverlap = FALSE
      BY Zenon DEF Init
    <3>3. /\ apc \in [Acceptors -> {"idle", "register", "waiting", "resuming"}]
          /\ outcome \in [Acceptors -> {"none", "stream", "error", "closed"}]
      BY Zenon DEF Init
    <3>4. <<>> \in Seq(Conns)
      OBVIOUS
    <3> QED BY <3>1, <3>2, <3>3, <3>4, Zenon DEF AcceptTypes
  <2>2. accept_waiter = Nobody /\ \A a \in Acceptors : apc[a] = "idle" /\ outcome[a] = "none"
    BY Zenon DEF Init
  <2>3. NoIdleAcceptor
    BY <2>2, Zenon DEF NoIdleAcceptor
  <2>4. accept_error # "canceled"
    BY Zenon DEF Init
  <2> QED BY <2>1, <2>2, <2>3, <2>4, Zenon DEF AcceptInv, AcceptFinds, AcceptNoticed
<1>2. ConnectionsInOrder
  <2>1. <<>> \o <<>> = <<>>
    OBVIOUS
  <2> QED BY <2>1, Zenon DEF Init, ConnectionsInOrder
<1>3. HandleTypes
  <2>1. Len(Addresses) \in Nat
    OBVIOUS
  <2> QED BY <2>1 DEF Init, StreamInit, HandleTypes
<1>4. AllCared
  BY Zenon DEF Init, StreamInit, AllCared, Open
<1> QED BY <1>1, <1>2, <1>3, <1>4, Zenon DEF EndpointInv

LEMMA ListenerSteps ==
    ASSUME EndpointInv,
           \/ Listen \/ ListenerClose \/ ListenerClosePosted \/ ListenerOnClose
    PROVE  EndpointInv'
<1>0. AcceptInv /\ AcceptTypes /\ ConnectionsInOrder /\ HandleTypes /\ AllCared
  BY Zenon DEF EndpointInv, AcceptInv
<1>1. /\ handle' = handle /\ owned' = owned /\ closeQ' = closeQ /\ pending' = pending
      /\ dialVars' = dialVars /\ historyVars' = historyVars /\ refused' = refused
      /\ outcome' = outcome
  BY Zenon DEF Listen, ListenerClose, ListenerClosePosted, ListenerOnClose, streamVars, handleVars,
         acceptVars
<1>2. HandleTypes' /\ AllCared'
  BY <1>0, <1>1, HandlesSame, Zenon
<1>3. ConnectionsInOrder'
  BY <1>0, <1>1, Zenon DEF ConnectionsInOrder, historyVars
<1>4. ASSUME ListenerCloseOnLoop PROVE AcceptInv'
  <2>1. CASE listener # "open"
    <3>1. acceptVars' = acceptVars /\ listener' = listener
      BY <1>1, <1>4, <2>1, Zenon DEF ListenerCloseOnLoop, acceptVars
    <3> QED BY <1>0, <1>1, <3>1, AcceptFrame, Zenon DEF AcceptTypes, Closing
  <2>2. CASE listener = "open"
    <3>1. listener' = "closing" /\ accept_error' = "canceled" /\ WakeAcceptor
      BY <1>4, <2>2, Zenon DEF ListenerCloseOnLoop
    <3>2. /\ pending' \in Seq(Conns) /\ arrivals' \in Seq(Conns) /\ delivered' = delivered
          /\ acceptOverlap' = acceptOverlap
      BY <1>0, <1>1, Zenon DEF AcceptTypes, historyVars
    <3>3. Closing'
      BY <3>1, Zenon DEF Closing
    <3> QED BY <1>0, <1>1, <3>1, <3>2, <3>3, WakeAccept, Zenon
  <2> QED BY <2>1, <2>2, Zenon
<1>5. ASSUME acceptVars' = acceptVars,
             \/ listener' = listener
             \/ listener = "none" /\ listener' \in {"open", "failed"}
             \/ listener = "closing" /\ listener' = "closed"
      PROVE  AcceptInv'
  <2>1. /\ listener' \in {"none", "open", "closing", "closed", "failed"}
        /\ (Closing => Closing') /\ (listener = "open" => listener' = "open")
    BY <1>0, <1>5, Zenon DEF AcceptTypes, Closing
  <2> QED BY <1>0, <1>1, <1>5, <2>1, AcceptFrame, Zenon
<1>6. AcceptInv'
  <2>1. CASE Listen \/ ListenerOnClose
    BY <1>5, <2>1, Zenon DEF Listen, ListenerOnClose
  <2>2. CASE ListenerClosePosted
    BY <1>4, <2>2, Zenon DEF ListenerClosePosted
  <2>3. CASE ListenerClose
    <3>1. CASE ListenerCloseOnLoop
      BY <1>4, <3>1, Zenon
    <3>2. CASE UNCHANGED <<listener, accept_error, accept_waiter, apc>>
      BY <1>1, <1>5, <3>2, Zenon DEF acceptVars
    <3> QED BY <2>3, <3>1, <3>2, Zenon DEF ListenerClose
  <2> QED BY <2>1, <2>2, <2>3, Zenon
<1> QED BY <1>2, <1>3, <1>6, Zenon DEF EndpointInv

LEMMA ConnectionStep ==
    ASSUME EndpointInv, NEW c \in Incoming, OnConnection(c)
    PROVE  EndpointInv'
<1> USE EndpointAssumption
<1>0. AcceptInv /\ AcceptTypes /\ ConnectionsInOrder /\ HandleTypes /\ AllCared /\ c \in Conns
  BY Zenon DEF EndpointInv, AcceptInv
<1>1. /\ owned' = owned /\ closeQ' = closeQ /\ dialVars' = dialVars /\ refused' = refused
      /\ outcome' = outcome /\ listener' = listener /\ listener = "open"
      /\ delivered' = delivered /\ acceptOverlap' = acceptOverlap /\ WakeAcceptor
  BY Zenon DEF OnConnection, listenVars
<1>2. CASE /\ handle' = [handle EXCEPT ![c] = "open"]
           /\ pending' = Append(pending, c)
           /\ arrivals' = Append(arrivals, c)
           /\ accept_error' = accept_error
  <2>1. /\ pending' \in Seq(Conns) /\ arrivals' \in Seq(Conns)
        /\ delivered \o pending' = arrivals' /\ pending' # <<>>
        /\ Len(pending') = Len(pending) + 1 /\ Len(pending) \in Nat
        /\ pending'[Len(pending) + 1] = c
        /\ \A i \in 1 .. Len(pending) : pending'[i] = pending[i]
    BY <1>0, <1>2, OneMore, Zenon
  <2>2. AcceptInv'
    BY <1>0, <1>1, <1>2, <2>1, WakeAccept, Zenon DEF AcceptTypes, Closing, AcceptInv
  <2>3. ConnectionsInOrder'
    BY <1>1, <2>1, Zenon DEF ConnectionsInOrder
  <2>4. HandleTypes' /\ \A d \in Conns \ {c} : handle'[d] = handle[d]
    BY <1>0, <1>1, <1>2, Zenon DEF HandleTypes, dialVars
  <2>5. InPending(c)' /\ \A d \in Conns : InPending(d) => InPending(d)'
    <3>1. Len(pending) + 1 \in 1 .. Len(pending')
      BY <2>1
    <3>2. \A i \in 1 .. Len(pending) : i \in 1 .. Len(pending')
      BY <2>1
    <3> QED BY <2>1, <3>1, <3>2, Zenon DEF InPending
  <2>6. AllCared'
    <3> SUFFICES ASSUME NEW d \in Conns, Open(d)' PROVE Cared(d)'
      BY Zenon DEF AllCared
    <3>1. CASE d = c
      BY <2>5, <3>1, Zenon DEF Cared
    <3>2. CASE d # c
      <4>1. Cared(d)
        BY <1>0, <2>4, <3>2, Zenon DEF AllCared, Open
      <4> QED BY <1>1, <2>5, <4>1, Zenon DEF Cared, dialVars
    <3> QED BY <3>1, <3>2, Zenon
  <2> QED BY <2>2, <2>3, <2>4, <2>6, Zenon DEF EndpointInv
<1>3. CASE /\ \E h \in {"none", "closing"} : handle' = [handle EXCEPT ![c] = h]
           /\ accept_error' = "failed"
           /\ UNCHANGED <<pending, arrivals>>
  <2>1. AcceptInv'
    BY <1>0, <1>1, <1>3, WakeAccept, Zenon DEF AcceptTypes, Closing
  <2>2. ConnectionsInOrder'
    BY <1>0, <1>1, <1>3, Zenon DEF ConnectionsInOrder
  <2>3. /\ handle' \in [Conns -> {"none", "connecting", "open", "closing", "closed"}]
        /\ ~Open(c)' /\ \A d \in Conns \ {c} : handle'[d] = handle[d]
    BY <1>0, <1>3, Zenon DEF HandleTypes, Open
  <2>4. HandleTypes'
    BY <1>0, <1>1, <2>3, Zenon DEF HandleTypes, dialVars
  <2>5. AllCared'
    <3> SUFFICES ASSUME NEW d \in Conns, Open(d)' PROVE Cared(d)'
      BY Zenon DEF AllCared
    <3>1. Cared(d)
      BY <1>0, <2>3, Zenon DEF AllCared, Open
    <3> QED BY <1>1, <1>3, <3>1, Zenon DEF Cared, InPending, dialVars
  <2> QED BY <2>1, <2>2, <2>4, <2>5, Zenon DEF EndpointInv
<1> QED BY <1>2, <1>3, Zenon DEF OnConnection

LEMMA AcceptKeeps ==
    ASSUME EndpointInv, NEW a \in Acceptors, Accept(a) \/ AcceptPosted(a) \/ AcceptResume(a)
    PROVE  EndpointInv'
<1>0. AcceptInv /\ ConnectionsInOrder /\ HandleTypes /\ AllCared
  BY Zenon DEF EndpointInv
<1>1. handle' = handle /\ closeQ' = closeQ /\ dialVars' = dialVars /\ arrivals' = arrivals
  BY Zenon DEF Accept, AcceptPosted, AcceptResume
<1>2. AcceptInv' /\ Passed
  BY <1>0, AcceptorSteps, Zenon
<1>3. ConnectionsInOrder'
  BY <1>0, <1>1, <1>2, Zenon DEF ConnectionsInOrder, Passed
<1>4. HandleTypes'
  BY <1>0, <1>1, Zenon DEF HandleTypes, dialVars
<1>5. AllCared'
  <2> SUFFICES ASSUME NEW d \in Conns, Open(d)' PROVE Cared(d)'
    BY Zenon DEF AllCared
  <2>1. Cared(d)
    BY <1>0, <1>1, Zenon DEF AllCared, Open
  <2> QED BY <1>1, <1>2, <2>1, Zenon DEF Cared, Passed, dialVars
<1> QED BY <1>2, <1>3, <1>4, <1>5, Zenon DEF EndpointInv

LEMMA ConnectSteps ==
    ASSUME EndpointInv, ConnectNext \/ ConnectFails \/ OnConnect \/ ConnectResume
    PROVE  EndpointInv'
<1> USE EndpointAssumption
<1>0. AcceptInv /\ AcceptTypes /\ ConnectionsInOrder /\ HandleTypes /\ AllCared
  BY Zenon DEF EndpointInv, AcceptInv
<1>1. /\ acceptVars' = acceptVars /\ listener' = listener /\ historyVars' = historyVars
      /\ closeQ' = closeQ /\ pending' = pending
  BY Zenon DEF ConnectNext, ConnectFails, OnConnect, ConnectResume, listenVars, streamVars, handleVars,
         acceptVars
<1>2. AcceptInv' /\ ConnectionsInOrder'
  <2>1. AcceptInv'
    BY <1>0, <1>1, AcceptFrame, Zenon DEF AcceptTypes, Closing
  <2>2. ConnectionsInOrder'
    BY <1>0, <1>1, Zenon DEF ConnectionsInOrder, historyVars
  <2> QED BY <2>1, <2>2, Zenon
<1>n. Len(Addresses) \in Nat /\ \A i \in 1 .. Len(Addresses) : Addresses[i] \in Conns
  <2>1. Addresses \in Seq(Conns \ Incoming)
    BY Zenon
  <2> QED BY <2>1
<1>3. CASE ConnectNext
  <2>1. PICK h \in {"connecting", "closing", "closed"} :
          /\ handle' = [handle EXCEPT ![Addresses[dial]] = h]
          /\ dpc' = IF h = "connecting" THEN "connecting" ELSE "next"
          /\ dial' = IF h = "connecting" THEN dial ELSE dial + 1
    BY <1>3, Zenon DEF ConnectNext
  <2>2. dpc = "next" /\ dial <= Len(Addresses) /\ owned' = owned
    BY <1>3, Zenon DEF ConnectNext
  <2>3. PICK c \in Conns : c = Addresses[dial]
    BY <1>0, <1>n, <2>2 DEF HandleTypes
  <2>4. HandleTypes' /\ handle'[c] = h /\ \A d \in Conns \ {c} : handle'[d] = handle[d]
    BY <1>0, <1>n, <2>1, <2>2, <2>3 DEF HandleTypes
  <2>5. AllCared'
    <3> SUFFICES ASSUME NEW d \in Conns, Open(d)' PROVE Cared(d)'
      BY Zenon DEF AllCared
    <3>1. CASE d = c
      <4>1. h = "connecting"
        BY <2>4, <3>1, Zenon DEF Open
      <4> QED BY <2>1, <2>3, <3>1, <4>1, Zenon DEF Cared
    <3>2. CASE d # c
      <4>1. Cared(d)
        BY <1>0, <2>4, <3>2, Zenon DEF AllCared, Open
      <4> QED BY <1>1, <2>2, <4>1, Zenon DEF Cared, InPending
    <3> QED BY <3>1, <3>2, Zenon
  <2> QED BY <1>2, <2>4, <2>5, Zenon DEF EndpointInv
<1>4. CASE ConnectFails
  <2>1. /\ dpc = "next" /\ dpc' = "failed" /\ dial' = dial /\ handle' = handle /\ owned' = owned
    BY <1>4, Zenon DEF ConnectFails, streamVars, handleVars
  <2>2. HandleTypes'
    BY <1>0, <2>1, Zenon DEF HandleTypes
  <2>3. AllCared'
    BY <1>0, <1>1, <2>1, Zenon DEF AllCared, Cared, InPending, Open
  <2> QED BY <1>2, <2>2, <2>3, Zenon DEF EndpointInv
<1>5. CASE OnConnect
  <2>1. /\ dpc = "connecting" /\ dpc' = "resuming" /\ dial' = dial /\ owned' = owned
        /\ handle' = [handle EXCEPT ![Addresses[dial]] = "open"] \/ handle' = handle
    BY <1>5, Zenon DEF OnConnect
  <2>2. PICK c \in Conns : c = Addresses[dial]
    BY <1>0, <1>n, <2>1 DEF HandleTypes
  <2>3. HandleTypes' /\ \A d \in Conns \ {c} : handle'[d] = handle[d]
    BY <1>0, <2>1, <2>2, Zenon DEF HandleTypes
  <2>4. AllCared'
    <3> SUFFICES ASSUME NEW d \in Conns, Open(d)' PROVE Cared(d)'
      BY Zenon DEF AllCared
    <3>1. CASE d = c
      BY <2>1, <2>2, <3>1, Zenon DEF Cared
    <3>2. CASE d # c
      <4>1. Cared(d)
        BY <1>0, <2>3, <3>2, Zenon DEF AllCared, Open
      <4> QED BY <1>1, <2>1, <4>1, Zenon DEF Cared, InPending
    <3> QED BY <3>1, <3>2, Zenon
  <2> QED BY <1>2, <2>3, <2>4, Zenon DEF EndpointInv
<1>6. CASE ConnectResume
  <2>1. PICK c \in Conns : c = Addresses[dial]
    BY <1>0, <1>6, <1>n DEF HandleTypes, ConnectResume
  <2>2. dpc = "resuming"
    BY <1>6, Zenon DEF ConnectResume
  <2>3. CASE connectOk
    <3>1. owned' = owned \union {c} /\ dpc' = "connected" /\ handle' = handle /\ dial' = dial
      BY <1>6, <2>1, <2>3, Zenon DEF ConnectResume
    <3>2. HandleTypes'
      BY <1>0, <3>1, Zenon DEF HandleTypes
    <3>3. AllCared'
      <4> SUFFICES ASSUME NEW d \in Conns, Open(d)' PROVE Cared(d)'
        BY Zenon DEF AllCared
      <4>1. Cared(d)
        BY <1>0, <3>1, Zenon DEF AllCared, Open
      <4> QED BY <1>1, <2>1, <3>1, <4>1, Zenon DEF Cared, InPending
    <3> QED BY <1>2, <3>2, <3>3, Zenon DEF EndpointInv
  <2>4. CASE ~connectOk
    <3>1. CloseOnLoop(c) /\ dpc' = "next" /\ dial' = dial + 1 /\ owned' = owned
      BY <1>6, <2>1, <2>4, Zenon DEF ConnectResume
    <3>2. /\ handle' \in [Conns -> {"none", "connecting", "open", "closing", "closed"}]
          /\ ~Open(c)' /\ \A d \in Conns \ {c} : handle'[d] = handle[d]
      BY <1>0, <3>1, CloseKeeps, Zenon
    <3>3. HandleTypes'
      BY <1>0, <1>n, <2>2, <3>1, <3>2 DEF HandleTypes
    <3>4. AllCared'
      <4> SUFFICES ASSUME NEW d \in Conns, Open(d)' PROVE Cared(d)'
        BY Zenon DEF AllCared
      <4>1. Cared(d) /\ d # c
        BY <1>0, <3>2, Zenon DEF AllCared, Open
      <4> QED BY <1>1, <2>1, <3>1, <4>1, Zenon DEF Cared, InPending
    <3> QED BY <1>2, <3>3, <3>4, Zenon DEF EndpointInv
  <2> QED BY <2>3, <2>4, Zenon
<1> QED BY <1>3, <1>4, <1>5, <1>6, Zenon

LEMMA EndpointStepInv == EndpointInv /\ [Next]_vars => EndpointInv'
<1> SUFFICES ASSUME EndpointInv, [Next]_vars PROVE EndpointInv'
  BY Zenon
<1>0. AcceptInv /\ AcceptTypes /\ ConnectionsInOrder /\ HandleTypes /\ AllCared
  BY Zenon DEF EndpointInv, AcceptInv
<1>1. ASSUME UNCHANGED <<acceptVars, listenVars, dialVars, historyVars>>
      PROVE  AcceptInv' /\ ConnectionsInOrder'
  <2>1. acceptVars' = acceptVars /\ historyVars' = historyVars /\ listener' = listener
    BY <1>1, Zenon DEF listenVars
  <2>2. AcceptInv'
    BY <1>0, <2>1, AcceptFrame, Zenon DEF AcceptTypes, Closing
  <2>3. ConnectionsInOrder'
    BY <1>0, <2>1, Zenon DEF ConnectionsInOrder, acceptVars, historyVars
  <2> QED BY <2>2, <2>3, Zenon
<1>2. CASE StreamNext /\ UNCHANGED <<acceptVars, listenVars, dialVars, historyVars>>
  <2>1. /\ handle' \in [Conns -> {"none", "connecting", "open", "closing", "closed"}]
        /\ \A d \in Conns : Kept(d)
    BY <1>0, <1>2, StreamKeeps, Zenon
  <2>2. HandleTypes'
    BY <1>0, <1>2, <2>1, Zenon DEF HandleTypes, dialVars
  <2>3. AllCared'
    <3> SUFFICES ASSUME NEW d \in Conns, Open(d)' PROVE Cared(d)'
      BY Zenon DEF AllCared
    <3>1. Cared(d) /\ (d \in owned \union closeQ => d \in owned' \union closeQ')
      BY <1>0, <2>1, Zenon DEF AllCared, Kept
    <3> QED BY <1>2, <3>1, Zenon DEF Cared, InPending, dialVars, acceptVars
  <2> QED BY <1>1, <1>2, <2>2, <2>3, Zenon DEF EndpointInv
<1>3. CASE UNCHANGED vars
  <2>1. /\ handle' = handle /\ owned' = owned /\ closeQ' = closeQ
        /\ pending' = pending /\ dialVars' = dialVars
        /\ UNCHANGED <<acceptVars, listenVars, dialVars, historyVars>>
    BY <1>3, Zenon DEF vars, streamVars, handleVars, acceptVars
  <2>2. HandleTypes' /\ AllCared'
    BY <1>0, <2>1, HandlesSame, Zenon
  <2> QED BY <1>1, <2>1, <2>2, Zenon DEF EndpointInv
<1>4. CASE Next
  BY <1>2, <1>4, ListenerSteps, ConnectionStep, AcceptKeeps, ConnectSteps, Zenon DEF Next
<1> QED BY <1>3, <1>4, Zenon

----------------------------------------------------------------------------
\* A connection that is pending is there once, open, and nobody's yet.
Waits ==
    /\ \A i, j \in 1 .. Len(pending) : pending[i] = pending[j] => i = j
    /\ \A c \in Conns : InPending(c) => c \in Incoming /\ Open(c) /\ c \notin owned \union closeQ
    /\ \A c \in Incoming : c \in owned \union closeQ => handle[c] # "none"

\* A step that leaves pending alone.
LEMMA WaitsFrame ==
    ASSUME Waits, pending' = pending,
           \A c \in Incoming : c \notin owned \union closeQ =>
              c \notin owned' \union closeQ' /\ (Open(c) => Open(c)'),
           \A c \in Incoming : handle[c] # "none" => handle'[c] # "none"
    PROVE  Waits'
<1>1. \A c \in Conns : InPending(c)' <=> InPending(c)
  BY Zenon DEF InPending
<1>2. \A c \in Conns : InPending(c)' => c \in Incoming /\ Open(c)' /\ c \notin owned' \union closeQ'
  BY <1>1, Zenon DEF Waits
<1>3. \A c \in Incoming : c \in owned' \union closeQ' => handle'[c] # "none"
  BY Zenon DEF Waits
<1> QED BY <1>2, <1>3, Zenon DEF Waits

\* accept() takes the front of pending, which is nowhere else in it.
LEMMA WaitsPassed ==
    ASSUME AcceptTypes, Waits, Passed, handle' = handle, closeQ' = closeQ
    PROVE  Waits'
<1>1. CASE pending' = pending /\ owned' = owned
  BY <1>1, WaitsFrame, Zenon DEF Open
<1>2. CASE /\ pending # <<>> /\ pending' = Tail(pending)
           /\ owned' = owned \union {Head(pending)}
  <2> DEFINE b == pending
             y == Tail(b)
  <2>1. b \in Seq(Conns) /\ b # <<>>
    BY <1>2, Zenon DEF AcceptTypes
  <2> HIDE DEF b
  <2>2. /\ Len(b) \in Nat /\ Len(b) # 0 /\ Head(b) = b[1] /\ Len(y) = Len(b) - 1
        /\ \A i \in 1 .. Len(y) : y[i] = b[i + 1]
    BY <2>1
  <2> HIDE DEF y
  <2>3. /\ 1 \in 1 .. Len(b)
        /\ \A i \in 1 .. Len(y) : i + 1 \in 1 .. Len(b) /\ i + 1 # 1
        /\ \A i, j \in 1 .. Len(y) : i + 1 = j + 1 => i = j
    BY <2>2
  <2>4. \A i, j \in 1 .. Len(b) : b[i] = b[j] => i = j
    BY Zenon DEF Waits, b
  <2>5. pending' = y /\ owned' = owned \union {b[1]}
    BY <1>2, <2>2, Zenon DEF y, b
  <2>6. ASSUME NEW i \in 1 .. Len(y), NEW j \in 1 .. Len(y), y[i] = y[j] PROVE i = j
    <3>1. b[i + 1] = b[j + 1]
      BY <2>2, <2>6, Zenon
    <3>2. i + 1 = j + 1
      BY <2>3, <2>4, <3>1, Zenon
    <3> QED BY <2>3, <3>2, Zenon
  <2>7. ASSUME NEW c \in Conns, InPending(c)' PROVE InPending(c) /\ c # b[1]
    <3>1. PICK i \in 1 .. Len(y) : y[i] = c
      BY <2>5, <2>7, Zenon DEF InPending
    <3>2. b[i + 1] = c /\ i + 1 \in 1 .. Len(b) /\ i + 1 # 1
      BY <2>2, <2>3, <3>1, Zenon
    <3>3. InPending(c)
      BY <3>2, Zenon DEF InPending, b
    <3>4. c # b[1]
      BY <2>3, <2>4, <3>2, Zenon
    <3> QED BY <3>3, <3>4, Zenon
  <2>8. ASSUME NEW c \in Conns, InPending(c)'
        PROVE  c \in Incoming /\ Open(c)' /\ c \notin owned' \union closeQ'
    <3>1. c \in Incoming /\ Open(c) /\ c \notin owned \union closeQ /\ c # b[1]
      BY <2>7, <2>8, Zenon DEF Waits
    <3> QED BY <2>5, <3>1, Zenon DEF Open
  <2>9. ASSUME NEW c \in Incoming, c \in owned' \union closeQ' PROVE handle'[c] # "none"
    <3>1. CASE c \in owned \union closeQ
      BY <3>1, Zenon DEF Waits
    <3>2. CASE c = b[1]
      <4>1. c \in Conns /\ InPending(c)
        BY <2>3, <3>2, EndpointAssumption, Zenon DEF InPending, b
      <4> QED BY <4>1, Zenon DEF Waits, Open
    <3> QED BY <2>5, <2>9, <3>1, <3>2, Zenon
  <2>10. \A i, j \in 1 .. Len(pending') : pending'[i] = pending'[j] => i = j
    BY <2>5, <2>6, Zenon
  <2> QED BY <2>8, <2>9, <2>10, Zenon DEF Waits
<1> QED BY <1>1, <1>2, Zenon DEF Passed

\* on_connection queues a connection that was not there before.
LEMMA WaitsConnection ==
    ASSUME EndpointInv, Waits, NEW c \in Incoming, OnConnection(c)
    PROVE  Waits'
<1>0. AcceptTypes /\ ConnectionsInOrder /\ c \in Conns /\ HandleTypes
  BY EndpointAssumption, Zenon DEF EndpointInv, AcceptInv
<1>1. handle[c] = "none" /\ owned' = owned /\ closeQ' = closeQ
  BY Zenon DEF OnConnection
<1>2. ~InPending(c) /\ c \notin owned \union closeQ
  BY <1>0, <1>1, Zenon DEF Waits, Open
<1>3. CASE pending' = pending /\ \E h \in {"none", "closing"} : handle' = [handle EXCEPT ![c] = h]
  <2>1. \A d \in Conns \ {c} : handle'[d] = handle[d]
    BY <1>0, <1>3, Zenon DEF HandleTypes
  <2>2. \A d \in Incoming : d \notin owned \union closeQ =>
           d \notin owned' \union closeQ' /\ (Open(d) => Open(d)')
    BY <1>1, <2>1, EndpointAssumption, Zenon DEF Open
  <2>3. \A d \in Incoming : handle[d] # "none" => handle'[d] # "none"
    BY <1>1, <2>1, EndpointAssumption, Zenon
  <2> QED BY <1>3, <2>2, <2>3, WaitsFrame, Zenon
<1>4. CASE pending' = Append(pending, c) /\ handle' = [handle EXCEPT ![c] = "open"]
  <2> DEFINE n == Len(pending)
  <2>1. /\ n \in Nat /\ Len(pending') = n + 1 /\ pending'[n + 1] = c
        /\ \A i \in 1 .. n : pending'[i] = pending[i]
    BY <1>0, <1>4, OneMore, Zenon
  <2> HIDE DEF n
  <2>2. \A i \in 1 .. n + 1 : i \in 1 .. n \/ i = n + 1
    BY <2>1
  <2>3. \A i \in 1 .. n : pending[i] # c
    BY <1>2, Zenon DEF InPending, n
  <2>4. \A i, j \in 1 .. n + 1 : pending'[i] = pending'[j] => i = j
    <3> TAKE i, j \in 1 .. n + 1
    <3>1. CASE i \in 1 .. n /\ j \in 1 .. n
      BY <2>1, <3>1, Zenon DEF Waits, n
    <3>2. CASE i = n + 1 \/ j = n + 1
      BY <2>1, <2>2, <2>3, <3>2, Zenon
    <3> QED BY <2>2, <3>1, <3>2, Zenon
  <2>5. handle'[c] = "open" /\ \A d \in Conns \ {c} : handle'[d] = handle[d]
    BY <1>0, <1>4, Zenon DEF HandleTypes
  <2>6. ASSUME NEW d \in Conns, InPending(d)', d # c PROVE InPending(d)
    <3>1. PICK i \in 1 .. n + 1 : pending'[i] = d
      BY <2>1, <2>6, Zenon DEF InPending
    <3>2. i \in 1 .. n /\ pending[i] = d
      BY <2>1, <2>2, <2>6, <3>1, Zenon
    <3> QED BY <3>2, Zenon DEF InPending, n
  <2>7. ASSUME NEW d \in Conns, InPending(d)'
        PROVE  d \in Incoming /\ Open(d)' /\ d \notin owned' \union closeQ'
    <3>1. CASE d = c
      BY <1>1, <1>2, <2>5, <3>1, Zenon DEF Open
    <3>2. CASE d # c
      BY <1>1, <2>5, <2>6, <2>7, <3>2, Zenon DEF Waits, Open
    <3> QED BY <3>1, <3>2, Zenon
  <2>8. \A d \in Incoming : d \in owned' \union closeQ' => handle'[d] # "none"
    BY <1>1, <1>2, <2>5, EndpointAssumption, Zenon DEF Waits
  <2> QED BY <2>1, <2>4, <2>7, <2>8, Zenon DEF Waits
<1> QED BY <1>3, <1>4, Zenon DEF OnConnection

\* connect() uses connections that are not the listener's.
LEMMA WaitsConnect ==
    ASSUME EndpointInv, Waits, ConnectNext \/ ConnectFails \/ OnConnect \/ ConnectResume
    PROVE  Waits'
<1> DEFINE c == Addresses[dial]
<1>0. HandleTypes /\ pending' = pending
  BY Zenon DEF EndpointInv, ConnectNext, ConnectFails, OnConnect, ConnectResume, acceptVars
<1>1. ASSUME dial <= Len(Addresses) PROVE c \in Conns \ Incoming
  BY <1>0, <1>1, EndpointAssumption DEF HandleTypes
<1>2. CASE ConnectFails
  <2>1. handle' = handle /\ owned' = owned /\ closeQ' = closeQ
    BY <1>2, Zenon DEF ConnectFails, streamVars, handleVars
  <2> QED BY <1>0, <2>1, WaitsFrame, Zenon DEF Open
<1>3. CASE ~ConnectFails
  <2>1. c \in Conns \ Incoming
    BY <1>0, <1>1, <1>3, Zenon DEF ConnectNext, OnConnect, ConnectResume, HandleTypes
  <2>2. closeQ' = closeQ /\ (owned' = owned \/ owned' = owned \union {c})
    BY <1>3, Zenon DEF ConnectNext, OnConnect, ConnectResume
  <2>3. \A d \in Conns \ {c} : handle'[d] = handle[d]
    BY <1>0, <1>3, <2>1, CloseKeeps, Zenon DEF ConnectNext, OnConnect, ConnectResume, HandleTypes
  <2>4. ASSUME NEW d \in Incoming
        PROVE  /\ d \notin owned \union closeQ =>
                    d \notin owned' \union closeQ' /\ (Open(d) => Open(d)')
               /\ handle[d] # "none" => handle'[d] # "none"
    <3>1. d \in Conns /\ d # c
      BY <2>1, EndpointAssumption, Zenon
    <3> QED BY <2>2, <2>3, <3>1, Zenon DEF Open
  <2> QED BY <1>0, <2>4, WaitsFrame, Zenon
<1> QED BY <1>2, <1>3, Zenon

LEMMA WaitsStep == EndpointInv /\ Waits /\ [Next]_vars => Waits'
<1> SUFFICES ASSUME EndpointInv, Waits, [Next]_vars PROVE Waits'
  BY Zenon
<1>0. AcceptInv /\ AcceptTypes /\ HandleTypes /\ Incoming \subseteq Conns
  BY EndpointAssumption, Zenon DEF EndpointInv, AcceptInv
<1>1. CASE StreamNext /\ UNCHANGED <<acceptVars, listenVars, dialVars, historyVars>>
  <2>1. pending' = pending /\ \A d \in Conns : Kept(d)
    BY <1>0, <1>1, StreamKeeps, Zenon DEF acceptVars
  <2> QED BY <1>0, <2>1, WaitsFrame, Zenon DEF Kept
<1>2. ASSUME NEW a \in Acceptors, Accept(a) \/ AcceptPosted(a) \/ AcceptResume(a) PROVE Waits'
  <2>1. Passed /\ handle' = handle /\ closeQ' = closeQ
    BY <1>0, <1>2, AcceptorSteps, Zenon DEF Accept, AcceptPosted, AcceptResume
  <2> QED BY <1>0, <2>1, WaitsPassed, Zenon
<1>3. CASE Listen \/ ListenerClose \/ ListenerClosePosted \/ ListenerOnClose \/ UNCHANGED vars
  <2>1. pending' = pending /\ handle' = handle /\ owned' = owned /\ closeQ' = closeQ
    BY <1>3, Zenon DEF Listen, ListenerClose, ListenerClosePosted, ListenerOnClose, vars, acceptVars,
       streamVars, handleVars
  <2> QED BY <2>1, WaitsFrame, Zenon DEF Open
<1> QED BY <1>1, <1>2, <1>3, WaitsConnection, WaitsConnect, Zenon DEF Next

LEMMA WaitsInit == Init => Waits
<1> SUFFICES ASSUME Init PROVE Waits
  BY Zenon
<1>1. pending = <<>> /\ owned = {} /\ closeQ = {}
  BY Zenon DEF Init, StreamInit
<1>2. 1 .. Len(<<>>) = {}
  OBVIOUS
<1> QED BY <1>1, <1>2, Zenon DEF Waits, InPending

LEMMA EndpointInvAlways == Spec => [](EndpointInv /\ Waits)
  BY EndpointInitInv, EndpointStepInv, WaitsInit, WaitsStep, PTL DEF Spec

(***************************************************************************)
(* accept() returns the connections in the order in which on_connection    *)
(* queued them, each once, also across close().                            *)
(***************************************************************************)
THEOREM AcceptsInOrder == Spec => []ConnectionsInOrder
<1>1. EndpointInv => ConnectionsInOrder
  BY Zenon DEF EndpointInv
<1> QED BY <1>1, EndpointInvAlways, PTL

(***************************************************************************)
(* No acceptor sleeps on a connection, an error or a closed listener, and  *)
(* none is told that an open listener is closed unless two accepts         *)
(* overlapped.                                                             *)
(***************************************************************************)
THEOREM AcceptorNeverIdle == Spec => []NoIdleAcceptor
<1>1. EndpointInv => NoIdleAcceptor
  BY Zenon DEF EndpointInv, AcceptInv
<1> QED BY <1>1, EndpointInvAlways, PTL

(***************************************************************************)
(* Every open uv_tcp_t has somebody who will close it, through accept(),   *)
(* the attempts of connect() and close() on any thread, except exactly the *)
(* connections that are pending at a listener that was closed              *)
(* (TcpListener::State::close_on_loop leaves them).                        *)
(***************************************************************************)
THEOREM OnlyCloseOrphans == Spec => []OrphansLeftByClose
<1>1. EndpointInv /\ Waits => OrphansLeftByClose
  <2> SUFFICES ASSUME EndpointInv, Waits PROVE OrphansLeftByClose
    BY Zenon
  <2>0. AllCared /\ HandleTypes /\ pending \in Seq(Conns)
    BY Zenon DEF EndpointInv, AcceptInv, AcceptTypes
  <2>1. \A c \in Conns : Owner(c) <=>
           \/ c \in owned \union closeQ
           \/ listener = "open" /\ InPending(c)
           \/ dpc \in {"connecting", "resuming"} /\ Addresses[dial] = c
    BY Zenon DEF Owner, InPending
  <2>2. CASE listener = "open"
    <3>1. \A c \in Conns : Open(c) => Owner(c)
      BY <2>0, <2>1, <2>2, Zenon DEF AllCared, Cared
    <3> QED BY <2>2, <3>1, Zenon DEF OrphansLeftByClose
  <2>3. CASE listener # "open"
    <3>1. ASSUME NEW c \in Conns, Open(c), ~Owner(c) PROVE InPending(c)
      BY <2>0, <2>1, <3>1, Zenon DEF AllCared, Cared
    <3>2. ASSUME NEW c \in Conns, InPending(c) PROVE Open(c) /\ ~Owner(c)
      <4>1. c \in Incoming /\ Open(c) /\ c \notin owned \union closeQ
        BY <3>2, Zenon DEF Waits
      <4>2. dpc \in {"connecting", "resuming"} => Addresses[dial] \in Conns \ Incoming
        BY <2>0, EndpointAssumption DEF HandleTypes
      <4> QED BY <2>1, <2>3, <4>1, <4>2, Zenon
    <3>3. \A c : InPending(c) => c \in Conns
      <4>1. \A i \in 1 .. Len(pending) : pending[i] \in Conns
        BY <2>0
      <4> QED BY <4>1, Zenon DEF InPending
    <3>4. {c \in Conns : Open(c) /\ ~Owner(c)} = {pending[i] : i \in 1 .. Len(pending)}
      BY <3>1, <3>2, <3>3, Zenon DEF InPending
    <3> QED BY <2>3, <3>4, Zenon DEF OrphansLeftByClose
  <2> QED BY <2>2, <2>3, Zenon
<1> QED BY <1>1, EndpointInvAlways, PTL
==============================================================================
