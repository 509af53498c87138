# A TLA+ verification of corouv

corouv is a C++ coroutine library on libuv and async_simple. Coroutines run on a
`UvExecutor`, which is one libuv loop and a queue of closures any thread may
extend. On it stand cancellation, timers, task groups and synchronisation
primitives; on those stand files, sockets, TLS, HTTP and SQL.

This directory holds TLA+ models of the concurrent core, of TCP, UDP, TLS streams
and HTTP, of files, directories and watchers, of SQL connections, and of the other
operations a coroutine awaits; TLC configurations that check them on small
instances; and proofs checked by TLAPS that hold for any number of tasks, permits,
coroutines and nested scopes.
Paths below are relative to the repository root.

## 1. The system

| part | source | state | operations | hard behaviour |
|---|---|---|---|---|
| executor | `src/uv_executor.cpp`, `executor.h` | closure queue, count, `closing`, async handle, timers | `schedule`, timed `schedule`, `shutdown`, destructor, `on_async` | coalesced wake-ups, timer against cancellation, shutdown in between |
| semaphore | `async_semaphore.h` | permits, deque of waiters | `acquire`, `try_acquire`, `release(n)` | grant against cancellation, lost wake-ups, overflow |
| mutex | `async_mutex.h` | `_locked`, deque of waiters | `lock`, `try_lock`, `unlock`, `ScopedLock` | hand-over without freeing, foreign cancellation |
| event | `event.h` | `_signaled`, list of ops | `wait`, `set`, `reset` | set and reset racing a wait, two completers of one op |
| queue | `async_queue.h` | deque, item and slot semaphores | `push`, `pop`, `try_push`, `try_pop` | two-step accounting, throwing `push_back` |
| task group | `task_group.h` | pending count, first error, drained event | `spawn`, `wait`, `cancel`, a child's finish | work after the lock is released, errors |
| cancellation | `cancel.h` | signal shared by source and tokens | `cancel`, `with_cancellation` | emission on any thread |
| timeouts | `timeout.h`, `timer.h` | - | `with_timeout`, `sleep_for` | late answer of the loser |
| ownership | `runtime.h`, `loop.h`, `sync_wait.h` | loop, executor | `run`, `close` | order of shutdown |
| blocking work, poll | `blocking.h`, `poll.h` | one shared op each | await, cancel, abandon | cancellation against start and completion |
| files | `file.h`, `fs.h`, `filesystem.h` | descriptor, in-flight count, watcher queue | read, write, seek, close, watch | close beside operations, end of stream |
| TCP, UDP | `src/net.cpp` | buffers, one waiter per direction, errors | read, write, accept, connect, close | callbacks between suspension points |
| transport | `src/transport.cpp` | codec, in and out buffers | handshake, read, write, shutdown | timeouts that leave a reader behind |
| HTTP, HTTPS | `src/http.cpp`, `src/https.cpp` | connection buffer, body framing | serve, fetch, stream | framing, keep-alive, expect-continue |
| web, multipart | `web.h`, `src/multipart.cpp` | routes | dispatch, parse | - |
| SQL | `src/sql.cpp`, `sql/` | connection | query, transaction, close | close while a query is suspended |

How they interact: every primitive resumes a coroutine by scheduling a closure on
the executor the coroutine is bound to (`detail/awaiter_utils.h`). The queue is
built from two semaphores. The task group is built from the event and a
cancellation source. These waits, timers, polls, blocking work and UDP receives
look at the slot of the coroutine that awaits them; TCP reads, writes, accepts
and connects do not, and end only by an event of the connection or by close.

## 2. The modules

**AwaitProtocol** is the cancellable wait that `async_semaphore.h` and
`async_mutex.h` both contain: the `Waiter` with `done`,
`granted`, `abandoned` and `continuation`; the steps of `await_ready`,
`await_suspend`, `await_resume` and `~Awaiter`; the Terminate handler, which
posts `cancel_on_executor`; and the loop in which a releaser resumes the waiters
it has granted. `pc[t]` says where a task is; there is a label wherever another
thread may come in between, and one action for each critical section. The deque
`_waiters` is the set `queued` with `ahead[t]`, the waiters in front of `t`: this
keeps the order and is easier to reason about than a sequence.

Each task has an executor of its own. Tasks that share one interleave less. A
closure posted on a task's executor runs only while the task is suspended.
`RemoteCancel` are the tasks another thread may cancel at any moment;
`Destroyable` those whose frame may be destroyed in a wait. A resumption that was
posted before the frame went is still in the executor's queue and runs; what
`h.resume()` does to a frame that is gone is undefined, and the model leaves it
there. A task that is cancelled unwinds and takes no further part.

**AsyncSemaphore** and **AsyncMutex** add `_permits` and `_locked` to the
protocol. `owed`, `held` and `lostBy` are history variables: permits put in and
not consumed, the tasks that hold the lock, and the tasks that took a permit in an
acquire that did not succeed.

**PermitPool** is the abstract specification of both: permits, a line, and the
clients a permit is set aside for. There is no signal, no executor and no
Waiter in it. A client of `Lossy` may lose a permit set aside for it; nobody
else may.

**AsyncQueue** models the deque and its two semaphores, used through PermitPool
with no lossy clients, which is what the semaphore promises for tasks that are
cancelled on their own executor. Of the deque only the length matters. `push_back`,
and the move of an item out of the deque, may throw; `orphans` counts the items
whose move threw, for which the permit is gone. A foreign cancellation would lose
an item or a slot as it loses a permit. Whether the queue is bounded is chosen in
`Init`.

**ManualResetEvent** models `event.h` in the same style. The difference to the
protocol above is that the Terminate handler completes the op on the emitting
thread. `posting` holds the threads between `done.exchange` and `schedule`.

**TaskGroup** models `finish()` in three steps, because it works on after it has
released its mutex: the decision under the lock, the cancellation of the
siblings, and `drained.set()`. The loop does nothing else while a child is
inside `finish()`, but spawn and cancel may come from any thread. `owed` is
history: the failures since a `wait` last threw, in order.

**UvExecutor** models `enqueue` in its three steps (test of `closing`, push
under the lock, send), `on_async` with its local batch, timed closures with
their `TimerOp`, and `shutdown` on and off the loop. libuv appears as what the
code uses of it: an async handle that coalesces sends, timers that fire while
active, and close callbacks.

**TcpStream** models `TcpStream::State` with `ReadAwaiter` and `WriteAwaiter`.
Everything happens on the loop thread, so that a callback, or a coroutine of the
loop from one suspension to the next, is one action. What is left to interleave is
posted: the registration, start or close that a task of `OffLoop` asks for, and the
resumption of a coroutine that a callback has taken out of `read_waiter`. Received
bytes are numbered, so that `got`, `read_buffer` and `taken` show order and loss;
`wire` is what each writer has put on a connection, its bytes by their index.
`Push` is the loop of `write_all` up to its next suspension. The order of posted
closures is left open, which allows more than the executor's queue does. libuv is
what the code sees of it: `read_cb` after a successful `uv_read_start`, a queue of
write requests, `EAGAIN` from `uv_try_write` while that queue is not empty, and an
error for what is queued when the handle closes.

**TcpEndpoints** composes it with `TcpListener::State`, `AcceptAwaiter`,
`listen()` and `connect()`, which make the streams: `on_connection` puts a State
into `pending`, from which `accept()` takes it, and `connect()` tries one State
per address. Each libuv call that may fail does.

**UdpSocket** models `UdpSocket::State` with its two kinds of receiver. `recv`
parks in `recv_waiter` and takes from `pending`; `recv_some` parks in
`recv_some_waiter`, and `recv_cb` copies a datagram straight into its buffer and
leaves a description in `recv_some_result`. A datagram is its number in order of
arrival. `mailbox` is the executor's queue, first in first out: registrations,
cancellations, closes and resumptions of both threads go through it.

**HttpExchange** models `http::Client`, `http::Server` and the two `Connection`s
between them. Each direction of a connection is a sequence of tokens, the units the
framing tells apart: a head, a byte of a fixed body, a chunk, the line `0`, an
empty line. The application may answer with any status, also with an interim one
(1xx but 101), which the client does not take for an answer. The reader's buffer
and the bytes still in the stream are one sequence, because every read goes through
the buffer. `cpc` is where `Client::request` is, `spc[c]` where `handle_client` of
connection `c` is. Both sides interleave token by token, timeouts, failures and
cancellation come at any point where the code awaits. `spoiled[c]` remembers what
happened to a connection.

**File** models `File::State` with its lease (`acquire`, `release`), the
sequential and the positional operations, `close`, and the destructor of the
State, which closes the descriptor when the last reference goes. The bytes of the
file are positions. **Directory** does the same for `Directory::State`.

**FileTree** models the path functions of `filesystem.h` over the awaiters of
`fs.h`: each function is a loop over requests, with a stack of frames where it
calls another (`remove_all` walks a tree), and between two requests others change
the tree. The kernel's tree is external: what a request answers and does,
including links and loops of links, as the code uses it.

**FileWatcher** models both back ends, the queue of events, `next`, `try_next`
and `close`, whose steps on another thread interleave with the loop, an executor
that refuses the closure included. The queue is used through what it promises.

**PollWait** and **BlockingWork** model one `Op` shared by the awaiter, the loop
and, for the latter, a thread of libuv's pool. Terminate may be emitted at any
moment, between any two steps of `await_suspend`. A frame may be destroyed while
its work runs. PollWait's executor may be shut down at any step: the batch it is
running is still called, what is behind it is `stranded`, and later closures are
refused.

**CancelScope** models nested `with_cancellation`: for each scope the combined
signal, the slot on the signal around it and the one on its token's signal, each
set up in two steps (chain, then look at the state). `Signal::emits` is external
and takes two steps too: it sets the state, and walks the slots that are chained
at that moment.

**CodecStream** models the two ends of a connection with a codec between their
coroutines and the TCP stream. One coroutine of an end makes the handshake and
reads, the other writes and closes. `loop` is the coroutine that runs; another
one, or a callback of libuv, comes in only where it awaits. Ciphertext is a
sequence of records (a flight of the handshake, data, close_notify) and plaintext
bytes are numbered. BearSSL's engine is external: which records it wants, takes,
drops and produces. The TCP stream is used through what TcpStream shows of it, its
single reader and the gap between a wake-up and the resumption included.

**SqlConnection** models `sql::Connection` and the drivers for sqlite, pgsql and
mysql. `request[c]` is where the call of a coroutine is suspended and on which
driver; a driver that nobody points to is destroyed. What a statement returns is
whose statement it was. Any suspension may end with an error or a Terminate. The
client libraries and the thread pool are external.

The parts from File to CancelScope, the queue and the SQL connection share no
state of the library, so that one run, `operations`, checks them side by side:
**MCOperations** picks a part in `Init` and moves that part only. **MCTransports**
does the same with UdpSocket and CodecStream. The other `MC` modules only name
model values and the kinds of request to make.

## 3. The runs

| run | instance | shows |
|---|---|---|
| `semaphore` | 3 tasks, 1 permit, at most 2, `release` of 1 or 2; one task is cancelled from outside, one may be destroyed, one is cancelled on its executor only | `PermitConservation`, `NoLostWakeup`, `CanceledWaiterLeaves`, `ImplementsPermitPool` |
| `mutex` | the same three tasks | `MutualExclusion`, `LockIsServed`, `ImplementsPermitPool` |
| `mutex_foreign_cancel` | one task is cancelled from outside | `FreeWhenUnused` is violated (section 6) |
| `event` | 3 tasks, as above | `WokenOnceBySet`, `SetWakesWaiters` |
| `task_group` | 3 children, 2 waiters | `WaitReturnsDrained`, `ErrorNotSwallowed`, `WaitEnds` |
| `executor` | a plain closure, a timed one from another thread and one from the loop | `CalledOnce`, `CalledEventually` |
| `tcp_stream` | 1 connection, 2 bytes in, 2 readers and 2 writers of 2 bytes, one of each on another thread | `BytesInOrder`, `NoIdleReader`, `ZeroMeansEof` |
| `tcp_endpoints` | 2 incoming connections, 2 acceptors, one on another thread, `connect` over 2 addresses | `ConnectionsInOrder`, `NoIdleAcceptor`, `OrphansLeftByClose` |
| `transports` | UDP: 2 coroutines, one on another thread, 2 datagrams. Codec: a handshake of 2 flights, records of 2 bytes, and three pairs of messages | `DatagramsAccounted`, `NoIdleReceiver`; `PlaintextInOrder`, `NoIdleCodec` |
| `http` | 2 requests, up to 2 connections, one failure, 6 kinds of request and 4 of response | `RequestBodyIntact`, `ResponseAnswersRequest`, `NoMutualWait` |
| `operations` | File: 3 coroutines, 2 bytes. Directory: 3 readers, 2 entries. Tree: 2 walkers, 3 trees, one failing request. Watcher: 3 readers, 3 events. Poll and blocking work: 2 coroutines, a pool of one thread. Scopes: depth 3, 2 sources. Queue: 4 tasks, capacity 2. SQL: 2 callers | `DescriptorOwned`, `SequentialOffset`; `OneRequestPerDirectory`; `TreeCallsConverge`; `EndOfStream`; `NoForgottenPoll`; `WorkEndsOnce`; `CancellationReachesScope`; `Accounted`, `NoStuckWaiter`; `DriverOwned`, `OwnResult` |
| `tls_large_write` | the server writes 3 bytes, in records of 2 | `WriteNeedsNoAnswer` is violated (section 6) |

Each property is stated in words above its definition.

Bounds. Three tasks are a releaser and two waiters, or a holder, a waiter in
front and a waiter behind, of which each may be the cancelled one. A release of
two permits grants two waiters at once, and `SizeMax = 2` makes overflow happen.
Two waiters on a group compete for its one error. Four tasks on a queue of two
slots give blocked pushers and poppers beside tasks in the middle of an
operation. Two readers, acceptors or receivers are enough for one to be
registered, or woken, while the other calls; two bytes read one at a time leave a
rest in the buffer; two writers queue behind each other. Connections share no
state but the listener's, so one is enough for `tcp_stream`, and in
`tcp_endpoints` no data flows (`Active` is empty). Two records in one read, a
message of two records and traffic in both directions are the three pairs of
messages of the codec. Two requests are the least that can be confused on a
kept connection; a second connection follows a failure. Three coroutines of a File
are one that closes and two that compete for the offset. Scopes three deep have
one between an outer and an inner one. Three drivers are enough for two callers,
one in `_driver` and one in the hands of each. Deadlock is not checked: a program
may stop using a primitive, and a cancelled task ends.

Properties worth a remark, because of what they except:

- `WokenOnceBySet` excepts a task that a foreign thread cancels between the
  installation of its handler and `register_waiter`, which does not look at
  `done`. The resumption is then posted for a coroutine that goes on by itself.
- `WaitReturnsDrained` excepts the groups in which another thread spawned a
  child between the unlock of `finish()` and its `drained.set()` (`overtaken`).
  That `set()` overtakes the `reset()` of the spawn, and `wait` returns while the
  new child runs. On the loop's own thread the gap cannot be entered.
- `CalledEventually` is for an executor that is open. A closure that `enqueue`
  accepted while `shutdown` closed the handle is never called.
- `NoForgottenPoll` follows that closure: a coroutine whose start was accepted and
  then stranded sleeps on. It also names the one case in which a wait goes on
  twice, once because `await_suspend` returns false and once by the loop: the
  cancellation was posted before the shutdown, and the start refused after it.
- `Accounted` and `NoStuckWaiter` count the items whose move threw: each stays in
  the deque, and nobody is woken for it.
- `ZeroMeansEof`, `NoIdleAcceptor` and `NoIdleReceiver` except streams, listeners
  and sockets on which two calls overlapped. A second `read_some` is refused while
  a reader is registered, but not between the wake-up of that reader and its
  resumption: it then takes the bytes, and the first reader returns 0, which
  `read_until_eof` takes for the end. `accept` does the same with a connection,
  and `recv` with a datagram.
- `PlaintextInOrder` excepts from its last clause the ends on which the writer
  read the TCP stream in that gap (`crossed`), and those that end the session
  themselves (`quit`), whose codec drops what arrives. An end that only answers the
  peer's close_notify is not excepted.
- `OrphansLeftByClose` is an equality. `close()` of a listener leaves the
  connections in `pending` open, and only an accept that was already in progress
  can still get one; every other open handle has somebody to close it.
- `NoIdleReceiver` excepts a cancellation whose closure was queued before the
  registration of a receiver on another thread (`early`): it finds nobody parked,
  and the receiver then parks and does not learn of it.
- `DatagramsAccounted` allows a datagram to be lost that `recv_cb` copied straight
  to a `recv_some` which was cancelled, or took a later one, before it looked.
- `RequestBodyIntact` and `ResponseAnswersRequest` except connections on which an
  empty chunk was sent, which ends a chunked body early, or an earlier request
  failed or timed out; `Client` keeps such a connection.
- `NoMutualWait` excepts connections on which a request failed, and those on which
  the application's response was interim: `read_response` skips it and waits for
  an answer, while the handler has done its part and reads the next request.
- `DescriptorOwned` excepts a close request that failed, after which the
  descriptor may be closed again, and a descriptor that `open()` leaves behind
  when it throws after the request succeeded.
- `EndOfStream` lets two readers see the end, since `close` and the handle's close
  callback push one each; a third one sleeps. It excepts an executor that has
  stopped, and an event that a callback pushes behind the end when another thread
  closes.
- `TreeCallsConverge` says of `create_directories` that it succeeds whatever others
  create meanwhile, and of `remove_all` what it leaves when nothing else changed the
  tree and no link was met. An entry that another coroutine removes between the
  `exists` and the `unlink` of `remove_all` makes it throw. A `read_file` whose Close
  fails closes its descriptor twice.
- `OwnResult` excepts sqlite and mysql queries whose connection another query used
  meanwhile, or on which a cancelled query left its command: nothing in
  `Connection` keeps two queries apart, and only libpq refuses the second.
- `PermitConservation` counts the permits in `lostBy`; `ImplementsPermitPool`
  says who can get into it.

Fairness. A thread inside an operation goes on, an executor runs the closures it
accepted, and libuv calls the callbacks that are due: this is the operating
system's and the loop's scheduling. `LockIsServed` also needs holders to unlock,
which `ScopedLock` does when its scope is left. `WaitEnds` needs children to end.
Nothing makes a program call `acquire`, `set` or `spawn`. The runs without a
liveness property state as invariants that nobody sleeps beside what would wake
them (`NoIdleReader`, `NoIdleCodec`, `NoForgottenPoll` and their like).

## 4. The proofs

Each safety theorem is of the form `Spec => []P`, from an inductive invariant that is
proved initially true and preserved by one lemma per action or group of actions.
There is one proof module per component or per group of small components.

`AwaitProtocolProofs` proves, for any step of the protocol, that the type, the
states a Waiter can be in (`WaiterStates`), and the origin of early signals
(`ForeignSignals`) are preserved, and how a step changes the set of live waiters.

`AsyncSemaphoreProofs` proves for every set of tasks, every initial number of
permits and every size of release: `TypeCorrect`, `Conservation`,
`NoWakeupIsLost`, `AtMostOneResume`, `LossIsForeign` and `FailureIsCancellation`.
None of the properties is inductive alone. The inductive invariant `IndInv` adds
to them `WaiterStates`, which ties `pc` to `done`, `granted`, `cont`, `resumes` and
the membership in `_waiters` and so decides, in each state, who will resume the
coroutine; and `ForeignSignals`, which says that a task in `await_ready` or
`await_suspend` that is signalled was signalled by a foreign thread.

`AsyncMutexProofs` proves `MutexIsExclusive`, `LockedMeansOwned` and
`NoHandoffIsLost` in the same way; and `CancelLeavesNoTrace`, that
`FreeWhenUnused` holds when nobody is cancelled by a foreign thread or destroyed in
a wait, which is the exact complement of the violation below.

Both modules prove the refinement, `SemaphoreIsPool` and `MutexIsPool`: under the
inductive invariant each action is the step of PermitPool that its lemma names, or
leaves the pool alone. The lemmas `LineKept`, `LineLeft`, `LineJoined` and
`LinePopped` of AwaitProtocolProofs say what a protocol step does to the line of
live waiters; that a waiter is marked done and erased in two steps does not show.
That waiters are served in the order of arrival is part of this: PermitPool grants
to the first of its line. AsyncQueue, which uses its semaphores as PermitPools,
rests on it.

`EventQueueProofs` proves `WokenOnceBySet` for any tasks, foreign cancellations and
destructions. What `EventInv` adds is where a coroutine may be that a `set()` has
swapped out (`Listed`), that one thread at most is inside `request_resume` of an op
and its closure the only one (`Posted`, `Resumed`), and that `done` is reset only
for an op nobody refers to any more. It also proves `Accounted` and `NoStuckWaiter`
for any tasks and any capacity, over two semaphores of which only PermitPool's
steps are known. `QueueInv` adds what a pool keeps (nobody is in line beside a
permit, and the permits are those available and those set aside) and that whoever
is in a line stands at that semaphore's `acquire`.

`LifetimeProofs` is about what must last as long as its users.
`WaitReturnsDrained` and `ErrorNotSwallowed` hold for any children and waiters;
`GroupInv` adds that `pending` counts the children that run and that the drained
event, or a `finish()` about to set it, means that none does.
`DescriptorOwned` and `SequentialOffset` hold for any number of coroutines;
`FileInv` adds who is in a call and who may close (`Callers`), that `inflight`
counts them and the leaked leases (`Leases`), that State and kernel agree about the
descriptor (`Descriptor`), and from which position a sequential call works
(`Offsets`). `CancellationReachesScope` holds for scopes of any depth and any
sources; `PassedOn` makes it inductive: it speaks of every signal outside a scope,
not only of the next one, for emissions that no signal in between is still walking
its slots for.

`LoopProofs` is about what is handed to the loop and how it comes back.
`CalledOnce` holds for any plain and timed closures; `ExecutorInv` adds that no
item is pushed twice, by an `enqueue` that got beyond its test, and that a timed
closure ran exactly if its op is `done`, or was queued itself and called.
`NoForgottenPoll` holds for any coroutines on and off the loop; `PollInv` adds what
a posted start or cancellation finds (`Posted`), what is true inside
`await_suspend` (`Suspending`), and who has made a wait go on (`WentOn`).
`OneRequestPerDirectory` and `WorkEndsOnce` hold for any number of coroutines:
`DirectoryInv` ties each request to the flag that keeps others out, `WorkInv` the
place of an awaiter to the place of its request.

`TcpStreamProofs` proves `BytesInOrder`, `NoIdleReader` and `ZeroMeansEof` of
TcpStream's own specification, for any streams, readers, writers and lengths. The
reading half of `StreamInv` adds that a closed stream leaves its reader an end or
an error, that two readers of one stream are noticed, and that a reader which is
resumed finds something unless it was overtaken; the writing half, how many bytes
of a writer are on the wire at each place of `write_all`, and that a queued request
is for exactly the rest.

`TcpEndpointsProofs` proves `ConnectionsInOrder`, `NoIdleAcceptor` and
`OrphansLeftByClose` of the composition, for any connections, acceptors and
addresses. `EndpointInv` adds what a resumed acceptor finds, and that every open
handle is owned, about to be closed, pending, or being tried; that a pending
connection has no other owner turns this into the equality.

The assumptions are the named ones of the modules: sets of tasks, users and
children are finite, numbers are naturals, the tasks a foreign thread may cancel
or destroy are tasks, the initial permits fit in `size_t`, `NoChild` is no child.

Only model-checked: liveness (`CanceledWaiterLeaves`, `LockIsServed`,
`SetWakesWaiters`, `WaitEnds`, `CalledEventually`), which is out of the prover's
reach; UDP, codecs, HTTP, file trees, watchers and SQL; and the three properties of
TcpStream within the composition with TcpEndpoints.

## 5. Not modelled

- Memory order and the data race on `continuation`: shared fields change in
  atomic steps.
- An executor that is gone or closing while its tasks wait: the primitives and
  the sockets then resume inline, on the thread that releases or cancels. Poll
  and FileWatcher are modelled with such an executor; `LoopCallAwaiter` is not.
- A second signal for a coroutine that handled the first, and the race inside
  `with_timeout`, which is `collectAny` of async_simple. Where a timeout matters
  (the handshake, HTTP) it is an action that ends the wait.
- Of TCP and UDP: name resolution, socket options and multicast, which change
  nothing that is modelled; `read_until_eof`, which is `read_some` in a loop; and
  the defaulted move assignment, which drops an open State without closing it.
- Of the codecs: certificates and keys; a record that is cut when it is read or
  sent, which the engine puts together again.
- Of HTTP: URLs and header syntax beyond what the framing tells apart, bodies that
  end with the connection, trailers, `fetch`. The HTTPS server is the same loop
  over a CodecStream and is not composed with it.
- Of files: the glob filter of a watcher, and which events a poll reported.
- Of SQL: URLs, the registry of drivers, parameters and the conversion of rows,
  and the mapping layer, which builds text.
- `Runtime`, `Loop` and `sync_wait`, the type-erased byte interfaces, the router,
  multipart, the code generators: `PROJECT.json` gives the reasons.

## 6. Findings

`AsyncMutex::lock` takes a free mutex in `await_ready` and throws in
`await_resume` when Terminate was emitted in between. Only another thread can
emit there. Nobody unlocks, so that the mutex is locked for good. The test
`tests/async_mutex_test.cpp` cancels `mutex.lock()` from a `std::jthread` and
expects the mutex to be usable after it. The run `mutex_foreign_cancel` shows
the interleaving. `AsyncSemaphore::acquire` loses a permit the same way.

`CodecStream::write_all` reads the TCP stream between two records whenever its
codec wants input, which a BearSSL engine does when it is idle. A TLS write of
more than one record so waits for bytes of the peer, which a client that waits for
a response does not send. The run `tls_large_write` shows the server asleep after
its first record, while its codec would take the next bytes. The README of the
library says that HTTP works over TCP and over TLS alike.

## 7. Plan

Next modules: the order in which `Runtime`, `Loop` and `UvExecutor` are taken
down while tasks wait, with primitives that resume inline; HttpExchange over
CodecStream, for the HTTPS server; the router's middleware chain; multipart as an
operator against a reference definition.

Next proofs: `DatagramsAccounted` and `NoIdleReceiver` of UDP, `EndOfStream`, and
`DriverOwned`.
