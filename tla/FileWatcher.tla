----------------------------- MODULE FileWatcher -----------------------------
(***************************************************************************)
(* corouv::io::FileWatcher: watch, next, try_next and close, with the      *)
(* callbacks of uv_fs_event_t or uv_fs_poll_t.                             *)
(*                                                                         *)
(* Events go through an AsyncQueue to the coroutines that wait in next(),  *)
(* all of them on the loop.  The end of the stream is an empty optional in *)
(* the same queue: request_close pushes one and on_close another.  close() *)
(* may be called on another thread, where each of its steps interleaves    *)
(* with the loop.  The queue is used through what it promises: an item is  *)
(* for the reader that waited longest, whose resumption is posted.         *)
(***************************************************************************)
EXTENDS Naturals, Sequences, FiniteSets

CONSTANTS
    Watching,     \* coroutines that call next and try_next
    MaxEvents     \* changes libuv reports

VARIABLES
    backend,      \* "event" or "poll"
    uv_watch,     \* the handle: "none", "init", "open", "closing" or "closed"
    closing,      \* State::closing
    closed,       \* State::closed
    queue,        \* the items of State::queue, "event" or "end"
    sleeping,     \* readers in its pop, in order of arrival
    woken,        \* readers an item was granted to and that have not run yet
    reporting,    \* a callback has found the watcher open and not yet pushed
    closer,       \* where a foreign thread is in request_close
    closePosted,  \* its close_on_loop is in the executor's queue
    events,       \* changes reported so far
    ends,         \* history: ends of the stream taken out of the queue by readers
    told,         \* history: some reader was told the end
    raced,        \* history: a callback pushed after closing was set
    late          \* history: a reader got an event after some reader got the end

watchVars == <<backend, uv_watch, closing, closed, queue, sleeping, woken, reporting,
               closer, closePosted, events, ends, told, raced, late>>

(* Every variable has its type. *)
WatcherTypeOK ==
    /\ backend \in {"event", "poll"}
    /\ uv_watch \in {"none", "init", "open", "closing", "closed"}
    /\ {closing, closed, reporting, closePosted, told, raced, late} \subseteq BOOLEAN
    /\ queue \in Seq({"event", "end"}) /\ sleeping \in Seq(Watching)
    /\ woken \subseteq Watching /\ Cardinality(woken) <= Len(queue)
    /\ closer \in {"none", "drain", "push", "post", "done", "refused"}
    /\ events \in 0..MaxEvents /\ ends \in Nat

WatcherInit ==
    /\ backend \in {"event", "poll"} /\ uv_watch = "none"
    /\ closing = FALSE /\ closed = FALSE
    /\ queue = <<>> /\ sleeping = <<>> /\ woken = {}
    /\ reporting = FALSE /\ closer = "none" /\ closePosted = FALSE
    /\ events = 0 /\ ends = 0 /\ told = FALSE /\ raced = FALSE /\ late = FALSE

queueVars == <<queue, sleeping, woken>>
pastVars == <<ends, told, late>>

(* AsyncQueue::try_push, and the items a try_pop may take: not those that
   were granted to readers already. *)
try_push(item) ==
    /\ queue' = Append(queue, item)
    /\ IF sleeping = <<>> THEN UNCHANGED <<sleeping, woken>>
       ELSE woken' = woken \cup {Head(sleeping)} /\ sleeping' = Tail(sleeping)
Free == Len(queue) - Cardinality(woken)

----------------------------------------------------------------------------
(* watch(): the handle is initialised and started on the loop.  When the start
   fails it is closed again and nobody gets a FileWatcher. *)
watch ==
    /\ uv_watch = "none"
    /\ uv_watch' = "open"
    /\ UNCHANGED <<backend, closing, closed, queueVars, reporting, closer,
                   closePosted, events, pastVars, raced>>
watch_start_fails ==
    /\ uv_watch = "none"
    /\ uv_watch' = "init"
    /\ UNCHANGED <<backend, closing, closed, queueVars, reporting, closer,
                   closePosted, events, pastVars, raced>>

(* FileWatcher exists; State::is_open. *)
Watched == uv_watch \in {"open", "closing", "closed"}
watcher_is_open == uv_watch = "open" /\ ~closing /\ ~closed

(* on_event and on_poll look at closed and closing, and then push. *)
Report ==
    /\ uv_watch = "open" /\ events < MaxEvents /\ ~reporting
    /\ ~closed /\ ~closing
    /\ reporting' = TRUE /\ events' = events + 1
    /\ UNCHANGED <<backend, uv_watch, closing, closed, queueVars, closer,
                   closePosted, pastVars, raced>>
on_event == backend = "event" /\ Report
on_poll == backend = "poll" /\ Report
PushReport ==
    /\ reporting /\ reporting' = FALSE
    /\ try_push("event")
    /\ raced' = (raced \/ closing)
    /\ UNCHANGED <<backend, uv_watch, closing, closed, closer, closePosted,
                   events, pastVars>>

----------------------------------------------------------------------------
(* A reader takes the item at the front. *)
Took(item) ==
    /\ ends' = ends + (IF item = "end" THEN 1 ELSE 0)
    /\ told' = (told \/ item = "end")
    /\ late' = (late \/ (told /\ item = "event"))
Reader(t) ==
    /\ Watched /\ ~reporting /\ t \notin woken
    /\ \A i \in DOMAIN sleeping : sleeping[i] # t
loopVars == <<backend, uv_watch, closing, closed, reporting, closer, closePosted, events, raced>>

(* next(): what is there, the end if the watcher is closed for good, or sleep in
   pop.  A filtered next() is a next() that may be followed by another. *)
next(t) ==
    /\ Reader(t)
    /\ \/ /\ Free > 0
          /\ queue' = Tail(queue) /\ Took(Head(queue)) /\ UNCHANGED <<sleeping, woken>>
       \/ /\ Free = 0 /\ closed /\ ~watcher_is_open
          /\ told' = TRUE /\ UNCHANGED <<queueVars, ends, late>>
       \/ /\ Free = 0 /\ (watcher_is_open \/ ~closed)
          /\ sleeping' = Append(sleeping, t) /\ UNCHANGED <<queue, woken, pastVars>>
    /\ UNCHANGED loopVars
Wakes(t) ==
    /\ t \in woken /\ ~reporting
    /\ woken' = woken \ {t} /\ queue' = Tail(queue) /\ Took(Head(queue))
    /\ UNCHANGED <<sleeping, loopVars>>

(* try_next(): an end of the stream it takes reads like an empty queue. *)
try_next(t) ==
    /\ Reader(t) /\ Free > 0
    /\ queue' = Tail(queue)
    /\ Took(Head(queue))
    /\ UNCHANGED <<sleeping, woken, loopVars>>

(* The task of a sleeping reader is cancelled. *)
CancelNext(t) ==
    /\ \E i \in DOMAIN sleeping : sleeping[i] = t
    /\ ~reporting
    /\ sleeping' = SelectSeq(sleeping, LAMBDA u : u # t)
    /\ UNCHANGED <<queue, woken, pastVars, loopVars>>

----------------------------------------------------------------------------
(* close() on the loop: request_close in one step.  Draining takes from the front
   whatever is not granted. *)
CloseHandle == IF uv_watch = "open" THEN "closing" ELSE uv_watch
request_close ==
    /\ Watched /\ ~reporting /\ ~closing /\ closing' = TRUE
    /\ LET left == SubSeq(queue, Free + 1, Len(queue))
       IN /\ queue' = Append(left, "end")
          /\ IF sleeping = <<>> THEN UNCHANGED <<sleeping, woken>>
             ELSE woken' = woken \cup {Head(sleeping)} /\ sleeping' = Tail(sleeping)
    /\ uv_watch' = CloseHandle
    /\ UNCHANGED <<backend, closed, reporting, closer, closePosted, events, pastVars, raced>>

(* close() on another thread, step by step.  An executor that refuses the
   closure leaves the handle as it is. *)
StartClose ==
    /\ Watched /\ ~closing /\ closing' = TRUE /\ closer' = "drain"
    /\ UNCHANGED <<backend, uv_watch, closed, queueVars, reporting, closePosted,
                   events, pastVars, raced>>
Drain ==
    /\ closer = "drain"
    /\ IF Free > 0 THEN queue' = Tail(queue) /\ UNCHANGED closer
       ELSE closer' = "push" /\ UNCHANGED queue
    /\ UNCHANGED <<backend, uv_watch, closing, closed, sleeping, woken, reporting,
                   closePosted, events, pastVars, raced>>
PushEnd ==
    /\ closer = "push" /\ closer' = "post"
    /\ try_push("end")
    /\ UNCHANGED <<backend, uv_watch, closing, closed, reporting, closePosted,
                   events, pastVars, raced>>
PostClose ==
    /\ closer = "post"
    /\ \/ closer' = "done" /\ closePosted' = TRUE /\ UNCHANGED closed
       \/ closer' = "refused" /\ closed' = TRUE /\ UNCHANGED closePosted
    /\ UNCHANGED <<backend, uv_watch, closing, queueVars, reporting, events, pastVars, raced>>
close_on_loop ==
    /\ closePosted /\ ~reporting /\ closePosted' = FALSE
    /\ uv_watch' = CloseHandle
    /\ UNCHANGED <<backend, closing, closed, queueVars, reporting, closer,
                   events, pastVars, raced>>

(* on_close, for a closed watcher and for one whose start failed. *)
LastEnd_None == UNCHANGED queueVars \* (mutant)
LastEnd == try_push("end")
watcher_on_close ==
    /\ uv_watch \in {"closing", "init"} /\ ~reporting
    /\ uv_watch' = IF uv_watch = "init" THEN "none" ELSE "closed"
    /\ closed' = TRUE
    /\ LastEnd
    /\ UNCHANGED <<backend, closing, reporting, closer, closePosted, events, pastVars, raced>>

WatcherNext ==
    \/ ~closed /\ (watch \/ watch_start_fails)
    \/ on_event \/ on_poll \/ PushReport
    \/ request_close \/ StartClose \/ Drain \/ PushEnd \/ PostClose
    \/ close_on_loop \/ watcher_on_close
    \/ \E t \in Watching : next(t) \/ Wakes(t) \/ try_next(t) \/ CancelNext(t)

(* Unless its executor has stopped: once the watcher is closed a reader sleeps
   only if two others have taken the two ends of the stream; and nobody gets an
   event after somebody got the end, unless a callback was between its test of
   closing and its push when another thread called close(). *)
EndOfStream ==
    closer # "refused" =>
        /\ closed /\ Watched /\ woken = {} /\ sleeping # <<>> => ends >= 2
        /\ late => raced
=============================================================================
