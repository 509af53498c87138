---------------------------- MODULE SqlConnection ----------------------------
(***************************************************************************)
(* sql::Connection and its drivers: coroutines on one loop connect, query  *)
(* and close one Connection.                                               *)
(*                                                                         *)
(* A call keeps its driver alive with a shared_ptr and awaits: the socket  *)
(* in the pgsql and mysql drivers, a thread of the pool in the sqlite one. *)
(* What a statement returns is abstracted to whose statement it was.  The  *)
(* client libraries are external, and so is the pool, which is used        *)
(* through what BlockingWork shows of blocking::run.                       *)
(***************************************************************************)
EXTENDS Naturals, FiniteSets

CONSTANTS
    Callers,  \* coroutines that use the Connection
    Nobody    \* none of them

ASSUME SqlAssumption == IsFiniteSet(Callers) /\ Nobody \notin Callers

\* Enough for _driver and one driver of each call; 0 is a null pointer.
Drivers == 1 .. Cardinality(Callers) + 1
Kinds == {"sqlite", "pgsql", "mysql"}

VARIABLES
    _driver,    \* Connection::_driver
    kind,       \* the class of each driver
    native,     \* its _db or _conn: "null", "pending" or "open"
    command,    \* whose command the client library has in progress
    lastRan,    \* whose statement a sqlite3 ran last
    request,    \* where the call of each coroutine is, and on which driver
    answer,     \* history: what its last query returned
    mixed       \* history: callers whose query shared its handle or lost it

sqlVars == <<_driver, kind, native, command, lastRan, request, answer, mixed>>

NoRequest == [op |-> "none", at |-> "rest", on |-> 0]
NoAnswer == [stmt |-> Nobody, shared |-> FALSE]

SqlInit ==
    /\ _driver = 0
    /\ kind = [d \in Drivers |-> "sqlite"]
    /\ native = [d \in Drivers |-> "null"]
    /\ command = [d \in Drivers |-> Nobody]
    /\ lastRan = [d \in Drivers |-> Nobody]
    /\ request = [c \in Callers |-> NoRequest]
    /\ answer = [c \in Callers |-> NoAnswer]
    /\ mixed = {}

----------------------------------------------------------------------------
In(c, op, at) == request[c].op = op /\ request[c].at = at
Of(c) == request[c].on
Queries(d) == {c \in Callers : request[c].op = "query" /\ Of(c) = d}

Awaits(c, op, at, d) == request' = [request EXCEPT ![c] = [op |-> op, at |-> at, on |-> d]]
Forgets(c) == request' = [request EXCEPT ![c] = NoRequest]

\* ~SqliteDriver, ~PostgresDriver, ~MySqlDriver: a driver nobody points to closes
\* its handle, so that its number can be given to another one.
Pointed(d) == _driver' = d \/ \E c \in Callers : request'[c].on = d
Destroys(handles, commands) ==
    /\ native' = [d \in Drivers |-> IF Pointed(d) THEN handles[d] ELSE "null"]
    /\ command' = [d \in Drivers |-> IF Pointed(d) THEN commands[d] ELSE Nobody]
    /\ lastRan' = [d \in Drivers |-> IF Pointed(d) THEN lastRan[d] ELSE Nobody]
    /\ kind' = [d \in Drivers |-> IF Pointed(d) THEN kind[d] ELSE "sqlite"]

\* A call throws, or returns nothing, and forgets its driver.
GivesUp(c) ==
    /\ Forgets(c) /\ mixed' = mixed \ {c} /\ UNCHANGED <<_driver, answer>>
    /\ Destroys(native, command)

\* close() of a driver, on the loop or on the pool.
Cuts(d) == mixed' = mixed \cup Queries(d)

\* Connection::connect once the driver is connected: the two are exchanged under
\* _mu, and the old one is closed, by close_async at once or on the pool.
Installs(c) ==
    LET d == Of(c)
        old == _driver
    IN
    /\ _driver' = d
    /\ IF old # 0 /\ kind[old] = "sqlite"
       THEN /\ Awaits(c, "close", "queued", old)
            /\ Destroys([native EXCEPT ![d] = "open"], command) /\ UNCHANGED mixed
       ELSE /\ Forgets(c)
            /\ Destroys([x \in Drivers |-> CASE x = d -> "open" [] x = old -> "null" [] OTHER -> native[x]], command)
            /\ Cuts(old)
    /\ UNCHANGED answer

(* Connection::connect: create_driver, then connect_async or the pool. *)
SqlConnect(c) ==
    /\ request[c] = NoRequest
    /\ \E k \in Kinds, d \in Drivers :
          /\ d # _driver /\ \A x \in Callers : Of(x) # d
          /\ \A x \in 1 .. d - 1 : x = _driver \/ \E y \in Callers : Of(y) = x
          /\ kind' = [kind EXCEPT ![d] = k]
          /\ Awaits(c, "connect", IF k = "sqlite" THEN "queued" ELSE "polling", d)
          /\ native' = [native EXCEPT ![d] = IF k = "sqlite" THEN "null" ELSE "pending"]
    /\ UNCHANGED <<_driver, command, lastRan, answer, mixed>>

(* PostgresDriver::connect_async and MySqlDriver::connect_async: the library has
   connected, or has failed, after which the driver closes its handle. *)
PostgresConnects(c) ==
    /\ In(c, "connect", "polling") /\ kind[Of(c)] = "pgsql"
    /\ Installs(c) \/ GivesUp(c)
MySqlConnects(c) ==
    /\ In(c, "connect", "polling") /\ kind[Of(c)] = "mysql"
    /\ Installs(c) \/ GivesUp(c)

\* Where a call is suspended: wait_socket_events, and the queue of the pool.
AtSocket(c) == request[c].at \in {"polling", "flushing", "sending", "storing"}
AtPool(c) == request[c].at = "queued"

(* Cancellation where a call awaits, or a socket that cannot be waited for: the
   await throws.  What the client library has begun it goes on with. *)
Terminate(c) == (AtSocket(c) \/ AtPool(c)) /\ GivesUp(c)

----------------------------------------------------------------------------
(* Connection::query.  An async driver that cannot begin throws at once. *)
\* PQsendQueryParams refuses while a command is in progress, and query_async
\* does not look at what it returned (mutant).
MaySend_Unchecked(d) == TRUE
MaySend(d) == kind[d] = "pgsql" => command[d] = Nobody
SqlQuery(c) ==
    LET d == _driver IN
    /\ request[c] = NoRequest /\ d # 0
    /\ kind[d] # "sqlite" => native[d] # "null" /\ MaySend(d)
    /\ Awaits(c, "query", CASE kind[d] = "sqlite" -> "queued"
                            [] kind[d] = "pgsql" -> "flushing"
                            [] OTHER -> "sending", d)
    /\ command' = IF kind[d] = "mysql" \/ (kind[d] = "pgsql" /\ command[d] = Nobody)
                  THEN [command EXCEPT ![d] = c] ELSE command
    /\ mixed' = IF Queries(d) # {} \/ (kind[d] = "mysql" /\ command[d] # Nobody)
                    THEN mixed \cup Queries(d) \cup {c} ELSE mixed
    /\ answer' = [answer EXCEPT ![c] = NoAnswer]
    /\ UNCHANGED <<_driver, kind, native, lastRan>>

\* A query returns; the command whose result it took is over.
Answers(c, stmt) ==
    LET d == Of(c) IN
    /\ answer' = [answer EXCEPT ![c] =
          [stmt |-> stmt, shared |-> c \in mixed /\ kind[d] # "pgsql"]]
    /\ Forgets(c) /\ mixed' = mixed \ {c} /\ UNCHANGED _driver
    /\ Destroys(native, [command EXCEPT ![d] = Nobody])

(* PostgresDriver::query_async after it was suspended in flush.  get_result blocks
   until the results are there.  A closed handle, an error of the connection and
   one of the statement throw, and leave the command in progress. *)
PostgresFlushes(c) ==
    /\ In(c, "query", "flushing")
    /\ \/ native[Of(c)] = "open" /\ Answers(c, command[Of(c)])
       \/ GivesUp(c)

(* MySqlDriver::query_async: real_query, then store_result, each with its
   suspensions.  An error of the statement ends its command.  A handle that was
   closed meanwhile is used all the same, and may yield anything. *)
StatementFails(c) ==
    /\ Forgets(c) /\ mixed' = mixed \ {c} /\ UNCHANGED <<_driver, answer>>
    /\ Destroys(native, [command EXCEPT ![Of(c)] = Nobody])
MySqlSends(c) ==
    /\ In(c, "query", "sending")
    /\ \/ /\ Awaits(c, "query", "storing", Of(c))
          /\ UNCHANGED <<_driver, kind, native, command, lastRan, answer, mixed>>
       \/ StatementFails(c)
MySqlStores(c) ==
    /\ In(c, "query", "storing")
    /\ \/ native[Of(c)] = "open" /\ Answers(c, command[Of(c)])
       \/ native[Of(c)] = "null" /\ \E x \in Callers : Answers(c, x)
       \/ StatementFails(c)

----------------------------------------------------------------------------
(* What a thread of the pool does for a sqlite driver: SqliteDriver::connect, query
   and close.  query throws on a null _db and for an error of the statement; it
   ends with a look at _db, which a close may have set to null meanwhile. *)
WorkGoes(c, at) == request' = [request EXCEPT ![c].at = at]
SqliteConnects(c) ==
    /\ In(c, "connect", "queued")
    /\ \/ WorkGoes(c, "done") /\ native' = [native EXCEPT ![Of(c)] = "open"]
       \/ WorkGoes(c, "threw") /\ UNCHANGED native
    /\ UNCHANGED <<_driver, kind, command, lastRan, answer, mixed>>
SqliteSteps(c) ==
    /\ In(c, "query", "queued")
    /\ \/ /\ native[Of(c)] = "open" /\ WorkGoes(c, "stepped")
          /\ lastRan' = [lastRan EXCEPT ![Of(c)] = c]
       \/ WorkGoes(c, "threw") /\ UNCHANGED lastRan
    /\ UNCHANGED <<_driver, kind, native, command, answer, mixed>>
SqliteChanges(c) ==
    /\ In(c, "query", "stepped")
    /\ \/ native[Of(c)] = "open" /\ Answers(c, lastRan[Of(c)])
       \/ native[Of(c)] = "null" /\ \E x \in Callers : Answers(c, x)
SqliteCloses(c) ==
    /\ In(c, "close", "queued")
    /\ WorkGoes(c, "done") /\ native' = [native EXCEPT ![Of(c)] = "null"] /\ Cuts(Of(c))
    /\ UNCHANGED <<_driver, kind, command, lastRan, answer>>

(* The loop goes on with a call whose work is over.  It throws what the work
   threw, or because it was cancelled while a thread of the pool ran it. *)
SqliteConnected(c) == In(c, "connect", "done") /\ Installs(c)
WorkForgotten(c) == request[c].at \in {"done", "threw", "stepped"} /\ GivesUp(c)

(* Connection::close takes the driver out under _mu and then closes it. *)
\* It only copies the pointer (mutant).
TakenOut_Copied == _driver
TakenOut == 0
SqlClose(c) ==
    LET d == _driver IN
    /\ request[c] = NoRequest /\ d # 0
    /\ _driver' = TakenOut
    /\ IF kind[d] = "sqlite"
       THEN /\ Awaits(c, "close", "queued", d)
            /\ Destroys(native, command) /\ UNCHANGED mixed
       ELSE /\ UNCHANGED request
            /\ Destroys([native EXCEPT ![d] = "null"], command) /\ Cuts(d)
    /\ UNCHANGED answer

SqlNext ==
    \E c \in Callers :
        \/ SqlConnect(c) \/ PostgresConnects(c) \/ MySqlConnects(c) \/ Terminate(c)
        \/ SqlQuery(c) \/ PostgresFlushes(c) \/ MySqlSends(c) \/ MySqlStores(c)
        \/ SqliteConnects(c) \/ SqliteSteps(c) \/ SqliteChanges(c) \/ SqliteCloses(c)
        \/ SqliteConnected(c) \/ WorkForgotten(c) \/ SqlClose(c)

----------------------------------------------------------------------------
(* The driver of the Connection is connected, whatever other connects, closes and
   queries are under way, fail or are cancelled; a handle that is being opened
   belongs to one call; and when no call is under way no other handle is open. *)
DriverOwned ==
    /\ _driver # 0 => native[_driver] = "open"
    /\ \A d \in Drivers : native[d] = "pending" =>
          Cardinality({c \in Callers : In(c, "connect", "polling") /\ Of(c) = d}) = 1
    /\ (\A c \in Callers : request[c] = NoRequest) =>
          \A d \in Drivers : native[d] # "null" => d = _driver

(* A query returns the result of its own statement.  Excepted are sqlite and mysql
   queries whose driver ran another one, still had the command of a cancelled one,
   or was closed meanwhile; libpq refuses a second command. *)
OwnResult ==
    \A c \in Callers : answer[c].stmt \in {Nobody, c} \/ answer[c].shared
=============================================================================
