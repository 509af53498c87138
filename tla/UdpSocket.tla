------------------------------ MODULE UdpSocket ------------------------------
(***************************************************************************)
(* corouv::net::UdpSocket: bind, connect, send, send_to, recv, recv_some   *)
(* and close of one socket, with the libuv callbacks behind them.          *)
(*                                                                         *)
(* A receiver parks in recv_waiter or in recv_some_waiter.  recv_cb puts a *)
(* datagram in pending, or copies it straight into the parked recv_some's  *)
(* buffer and leaves its description in recv_some_result; either way the   *)
(* receiver is only POSTED, so other callbacks and other calls run before  *)
(* it looks at what arrived.  A datagram is its number in order of arrival *)
(* (0: none); payload, peer and flags play no part in the control.         *)
(***************************************************************************)
EXTENDS Naturals, Sequences, FiniteSets

CONSTANTS
    Tasks,          \* coroutines that use the socket
    OffLoop,        \* those that run on another thread and post their start
    Nobody,         \* an empty coroutine handle
    MaxDatagrams,   \* datagrams that ever arrive
    MaxAddresses    \* addresses the resolver returns to bind

ASSUME UdpAssumption ==
    /\ OffLoop \subseteq Tasks
    /\ Nobody \notin Tasks
    /\ MaxDatagrams \in Nat
    /\ MaxAddresses \in Nat \ {0}

VARIABLES
    tried,            \* addresses bind has given up on
    handle,           \* "none", "open", "closing" or "closed"
    held,             \* the UdpSocket object still owns the State
    connected,        \* State::peer is not empty
    arrived,          \* datagrams libuv has handed to recv_cb
    pending,          \* State::pending
    recv_waiter,      \* State::recv_waiter
    recv_some_waiter, \* State::recv_some_waiter
    recv_some_result, \* the datagram State::recv_some_result describes
    recv_error,       \* "none", "canceled" (UV_ECANCELED) or "failed"
    recv_started,     \* State::recv_started
    pc,               \* where each task is
    op,               \* the call it is in, or "none"
    rc,               \* what its awaiter recorded: "none", "concurrent", "start"
    signaled,         \* tasks whose slot got Terminate
    mailbox,          \* closures posted to the loop's executor, first in first out
    got,              \* history: datagrams returned to callers, in order
    direct,           \* history: datagrams copied straight to a recv_some
    early,            \* history: tasks cancelled between register_cancel and the post
                      \* of their registration
    alone,            \* history: no other receive has overlapped the task's own
    toldClosed        \* history: such a receive, its last one, reported a closed socket

socketVars == <<tried, handle, held, connected>>
recvVars == <<arrived, pending, recv_waiter, recv_some_waiter, recv_some_result,
              recv_error, recv_started>>
taskVars == <<pc, op, rc, signaled, mailbox>>
dataVars == <<got, direct, early, alone, toldClosed>>
vars == <<socketVars, recvVars, taskVars, dataVars>>

Ids == 1..MaxDatagrams

Init ==
    /\ tried = 0 /\ handle = "none" /\ held = FALSE /\ connected = FALSE
    /\ arrived = 0 /\ pending = <<>> /\ got = <<>>
    /\ recv_waiter = Nobody /\ recv_some_waiter = Nobody
    /\ recv_some_result = 0 /\ recv_error = "none" /\ recv_started = FALSE
    /\ pc = [t \in Tasks |-> "idle"] /\ op = [t \in Tasks |-> "none"]
    /\ rc = [t \in Tasks |-> "none"]
    /\ signaled = {} /\ mailbox = <<>>
    /\ direct = {} /\ early = {} /\ alone = [t \in Tasks |-> TRUE] /\ toldClosed = {}

(* State::open and UdpSocket::is_open. *)
open == handle = "open"
is_open == held /\ open

(* A coroutine of the loop thread that does not suspend goes on at once: no
   callback and no other coroutine of that thread runs before it is through. *)
OnLoop(t) == t \notin OffLoop /\ pc[t] \in {"arming", "inline"}
LoopFree == \A t \in Tasks : ~OnLoop(t)

(* UvExecutor::schedule, and the loop taking the oldest closure. *)
Post(what, t) == mailbox' = Append(mailbox, <<what, t>>)
RunNext(what, t) ==
    /\ mailbox # <<>> /\ Head(mailbox) = <<what, t>> /\ LoopFree
Posted(what, t) == \E i \in DOMAIN mailbox : mailbox[i] = <<what, t>>

-----------------------------------------------------------------------------
(* bind: one State per address; a failed init or bind gives the address up,
   request_close reclaiming a handle nobody else has seen. *)
BindFails ==
    /\ handle = "none" /\ tried < MaxAddresses
    /\ tried' = tried + 1
    /\ UNCHANGED <<handle, held, connected, recvVars, taskVars, dataVars>>

Bind ==
    /\ handle = "none" /\ tried < MaxAddresses
    /\ handle' = "open" /\ held' = TRUE
    /\ UNCHANGED <<tried, connected, recvVars, taskVars, dataVars>>

(* UdpSocket::connect suspends in resolve_udp, then dereferences _state, which
   a close() in between has reset: what follows is undefined. *)
Connect(t) ==
    /\ pc[t] = "idle" /\ is_open
    /\ pc' = [pc EXCEPT ![t] = "resolving"] /\ op' = [op EXCEPT ![t] = "connect"]
    /\ UNCHANGED <<socketVars, recvVars, rc, signaled, mailbox, dataVars>>

ConnectResolved(t) ==
    /\ pc[t] = "resolving" /\ op[t] = "connect" /\ LoopFree
    /\ pc' = [pc EXCEPT ![t] = IF held THEN "idle" ELSE "undefined"]
    /\ op' = [op EXCEPT ![t] = "none"]
    /\ \/ held /\ open /\ connected' = TRUE
       \/ connected' = connected
    /\ UNCHANGED <<tried, handle, held, recvVars, rc, signaled, mailbox, dataVars>>

-----------------------------------------------------------------------------
(* recv and recv_some: await_suspend. *)

Receiving(t) == op[t] \in {"recv", "recv_some"}

(* The call and register_cancel: tryEmplace fails when the slot already has the
   signal and the coroutine goes on without suspending. *)
Receive(t, kind) ==
    /\ pc[t] = "idle" /\ is_open
    /\ t \in OffLoop \/ LoopFree
    /\ op' = [op EXCEPT ![t] = kind]
    /\ pc' = [pc EXCEPT ![t] = IF t \in signaled THEN "inline" ELSE "arming"]
    /\ alone' = [u \in Tasks |-> IF u = t THEN ~\E v \in Tasks \ {t} : Receiving(v)
                                 ELSE alone[u] /\ ~Receiving(u)]
    /\ toldClosed' = toldClosed \ {t}
    /\ UNCHANGED <<socketVars, recvVars, rc, signaled, mailbox, got, direct, early>>

(* Another thread posts register_waiter to the executor. *)
PostRegister(t) ==
    /\ pc[t] = "arming" /\ t \in OffLoop
    /\ pc' = [pc EXCEPT ![t] = "posted"] /\ Post("register", t)
    /\ UNCHANGED <<socketVars, recvVars, op, rc, signaled, dataVars>>

(* What register_waiter looks at before it parks the coroutine.  recv does not
   look at recv_some_waiter. *)
NothingToWaitFor == pending # <<>> \/ ~open \/ recv_error # "none"
Concurrent(t) ==
    \/ recv_waiter # Nobody
    \/ op[t] = "recv_some" /\ recv_some_waiter # Nobody

(* A coroutine that does not park goes on inline, or is posted when
   register_waiter itself was. *)
Park(t) ==
    /\ pc' = [pc EXCEPT ![t] = "waiting"]
    /\ mailbox' = IF t \in OffLoop THEN Tail(mailbox) ELSE mailbox
DoNotPark(t) ==
    /\ pc' = [pc EXCEPT ![t] = IF t \in OffLoop THEN "resuming" ELSE "inline"]
    /\ mailbox' = IF t \in OffLoop THEN Append(Tail(mailbox), <<"resume", t>>) ELSE mailbox

(* register_waiter with start_receiving_on_loop. *)
Register(t) ==
    /\ \/ OnLoop(t) /\ pc[t] = "arming"
       \/ RunNext("register", t) /\ op[t] # "send"
    /\ \/ /\ NothingToWaitFor
          /\ DoNotPark(t)
          /\ UNCHANGED <<rc, recvVars>>
       \/ /\ ~NothingToWaitFor /\ Concurrent(t)
          /\ DoNotPark(t) /\ rc' = [rc EXCEPT ![t] = "concurrent"]
          /\ UNCHANGED recvVars
       \/ /\ ~NothingToWaitFor /\ ~Concurrent(t)
          /\ Park(t) /\ recv_started' = TRUE
          /\ recv_waiter' = IF op[t] = "recv" THEN t ELSE recv_waiter
          /\ recv_some_waiter' = IF op[t] = "recv_some" THEN t ELSE recv_some_waiter
          /\ UNCHANGED <<rc, arrived, pending, recv_some_result, recv_error>>
       \/ /\ ~NothingToWaitFor /\ ~Concurrent(t) /\ ~recv_started   \* uv_udp_recv_start fails
          /\ DoNotPark(t) /\ rc' = [rc EXCEPT ![t] = "start"]
          /\ recv_error' = "failed"
          /\ UNCHANGED <<arrived, pending, recv_waiter, recv_some_waiter,
                         recv_some_result, recv_started>>
    /\ UNCHANGED <<socketVars, op, signaled, dataVars>>

-----------------------------------------------------------------------------
(* recv and recv_some: await_resume. *)

Finish(t, kind) ==
    /\ pc' = [pc EXCEPT ![t] = "idle"] /\ op' = [op EXCEPT ![t] = "none"]
    /\ rc' = [rc EXCEPT ![t] = "none"] /\ alone' = [alone EXCEPT ![t] = TRUE]
    /\ toldClosed' = IF kind = "closed" /\ alone[t] THEN toldClosed \cup {t} ELSE toldClosed

Throw(t, kind) == Finish(t, kind) /\ UNCHANGED <<recvVars, got>>

(* Both awaiters look at pending first, a recv_some that was woken with a
   recv_some_result of its own included. *)
TakePending(t) ==
    /\ Finish(t, "datagram")
    /\ pending' = Tail(pending) /\ got' = Append(got, Head(pending))
    /\ UNCHANGED <<arrived, recv_waiter, recv_some_waiter, recv_some_result,
                   recv_error, recv_started>>

(* What recv_some leaves in recv_some_result. *)
Collected_Kept == recv_some_result \* (mutant: not reset)
Collected == 0

(* recv_some collects and resets recv_some_result, whoever it was meant for. *)
TakeResult(t) ==
    /\ Finish(t, "datagram")
    /\ got' = Append(got, recv_some_result) /\ recv_some_result' = Collected
    /\ UNCHANGED <<arrived, pending, recv_waiter, recv_some_waiter, recv_error,
                   recv_started>>

(* How a receive that finds nothing ends. *)
NothingReceived == IF recv_error = "failed" THEN "failed" ELSE "closed"

Resume(t) ==
    /\ Receiving(t)
    /\ \/ pc[t] = "inline" /\ UNCHANGED mailbox
       \/ RunNext("resume", t) /\ mailbox' = Tail(mailbox)
    /\ CASE rc[t] = "concurrent" -> Throw(t, "concurrent")
         [] rc[t] # "concurrent" /\ t \in signaled -> Throw(t, "canceled")
         [] rc[t] = "start" /\ t \notin signaled -> Throw(t, "failed")
         [] OTHER ->
              \/ pending # <<>> /\ TakePending(t)
              \/ pending = <<>> /\ op[t] = "recv_some" /\ recv_some_result # 0 /\ TakeResult(t)
              \/ /\ pending = <<>> /\ ~(op[t] = "recv_some" /\ recv_some_result # 0)
                 /\ Throw(t, NothingReceived)
    /\ UNCHANGED <<socketVars, signaled, direct, early>>

-----------------------------------------------------------------------------
(* libuv's callbacks, cancellation and close. *)

(* The parked coroutines in W are taken out of their slots and posted behind
   what is left in the mailbox, recv's ahead of recv_some's. *)
Wake(W, left) ==
    /\ pc' = [t \in Tasks |-> IF t \in W THEN "resuming" ELSE pc[t]]
    /\ recv_waiter' = IF recv_waiter \in W THEN Nobody ELSE recv_waiter
    /\ recv_some_waiter' = IF recv_some_waiter \in W THEN Nobody ELSE recv_some_waiter
    /\ LET InW(e) == e[2] \in W
       IN  mailbox' = left \o SelectSeq(<<<<"resume", recv_waiter>>,
                                          <<"resume", recv_some_waiter>>>>, InW)

Parked == {recv_waiter, recv_some_waiter} \ {Nobody}

(* recv_cb, nread > 0: straight to a parked recv_some, else to pending; both
   parked coroutines are woken. *)
Deliver(d) ==
    /\ Wake(Parked, mailbox)
    /\ IF recv_some_waiter # Nobody
       THEN /\ recv_some_result' = d /\ direct' = direct \cup {d}
            /\ UNCHANGED pending
       ELSE pending' = Append(pending, d) /\ UNCHANGED <<recv_some_result, direct>>

recv_cb ==
    /\ recv_started /\ LoopFree /\ arrived < MaxDatagrams
    /\ arrived' = arrived + 1
    /\ Deliver(arrived + 1)
    /\ UNCHANGED <<socketVars, recv_error, recv_started, op, rc, signaled, got, early,
                   alone, toldClosed>>

(* recv_cb, nread < 0: receiving stops for good. *)
recv_cb_error ==
    /\ recv_started /\ LoopFree
    /\ recv_error' = "failed" /\ recv_started' = FALSE
    /\ Wake(Parked, mailbox)
    /\ UNCHANGED <<socketVars, arrived, pending, recv_some_result, op, rc, signaled, dataVars>>

(* Terminate reaches a task: the emplaced handler posts the cancel closure.  One
   emitted before an off-loop task has posted its registration is queued ahead of
   it, finds nothing to cancel and is spent. *)
Signal(t) ==
    /\ t \notin signaled /\ signaled' = signaled \cup {t}
    /\ IF Receiving(t) THEN Post("cancel", t) ELSE UNCHANGED mailbox
    /\ early' = IF t \in OffLoop /\ pc[t] = "arming" THEN early \cup {t} ELSE early
    /\ UNCHANGED <<socketVars, recvVars, pc, op, rc, got, direct, alone, toldClosed>>

(* cancel_recv_waiter and cancel_recv_some_waiter. *)
RunCancel(t) ==
    /\ RunNext("cancel", t)
    /\ Wake({t} \cap Parked, Tail(mailbox))
    /\ UNCHANGED <<socketVars, arrived, pending, recv_some_result, recv_error, recv_started,
                   op, rc, signaled, dataVars>>

(* The receivers close_on_loop takes out of their slots. *)
ClosedWaiters_None == {} \* (mutant: they are left parked)
ClosedWaiters == IF open THEN Parked ELSE {}

(* State::close_on_loop. *)
close_on_loop(left) ==
    /\ handle' = IF open THEN "closing" ELSE handle
    /\ recv_started' = (recv_started /\ ~open)
    /\ recv_error' = IF open /\ pending = <<>> /\ recv_error = "none"
                     THEN "canceled" ELSE recv_error
    /\ Wake(ClosedWaiters, left)

(* UdpSocket::close and request_close, from the loop thread and from another. *)
close ==
    /\ held /\ LoopFree /\ held' = FALSE
    /\ close_on_loop(mailbox)
    /\ UNCHANGED <<tried, connected, arrived, pending, recv_some_result, op, rc, signaled,
                   dataVars>>

close_OffLoop ==
    /\ held /\ held' = FALSE /\ Post("close", Nobody)
    /\ UNCHANGED <<tried, handle, connected, recvVars, pc, op, rc, signaled, dataVars>>

RunClose ==
    /\ RunNext("close", Nobody)
    /\ close_on_loop(Tail(mailbox))
    /\ UNCHANGED <<tried, held, connected, arrived, pending, recv_some_result, op, rc,
                   signaled, dataVars>>

(* State::on_close, after libuv has completed every queued send. *)
on_close ==
    /\ handle = "closing" /\ LoopFree
    /\ \A t \in Tasks : pc[t] # "sending"
    /\ handle' = "closed"
    /\ UNCHANGED <<tried, held, connected, recvVars, taskVars, dataVars>>

-----------------------------------------------------------------------------
(* send and send_to. *)

(* send needs a connected socket; send_to resolves the endpoint first. *)
Send(t) ==
    /\ pc[t] = "idle" /\ is_open /\ connected
    /\ t \in OffLoop \/ LoopFree
    /\ pc' = [pc EXCEPT ![t] = IF t \in OffLoop THEN "posted" ELSE "inline"]
    /\ op' = [op EXCEPT ![t] = "send"]
    /\ IF t \in OffLoop THEN Post("register", t) ELSE UNCHANGED mailbox
    /\ UNCHANGED <<socketVars, recvVars, rc, signaled, dataVars>>

SendTo(t) ==
    /\ pc[t] = "idle" /\ is_open
    /\ pc' = [pc EXCEPT ![t] = "resolving"] /\ op' = [op EXCEPT ![t] = "send"]
    /\ UNCHANGED <<socketVars, recvVars, rc, signaled, mailbox, dataVars>>

(* SendOp::start_on_loop: sent or refused at once, or queued in libuv; a socket
   that closed meanwhile refuses it, and send_to then has no State left. *)
StartSend(t) ==
    /\ op[t] = "send"
    /\ \/ OnLoop(t) /\ UNCHANGED mailbox
       \/ pc[t] = "resolving" /\ LoopFree /\ UNCHANGED mailbox
       \/ RunNext("register", t) /\ mailbox' = Tail(mailbox)
    /\ \/ pc' = [pc EXCEPT ![t] = "idle"] /\ op' = [op EXCEPT ![t] = "none"]
       \/ /\ open /\ (pc[t] # "resolving" \/ held)
          /\ pc' = [pc EXCEPT ![t] = "sending"] /\ UNCHANGED op
    /\ UNCHANGED <<socketVars, recvVars, rc, signaled, dataVars>>

on_send(t) ==
    /\ pc[t] = "sending" /\ LoopFree
    /\ pc' = [pc EXCEPT ![t] = "idle"] /\ op' = [op EXCEPT ![t] = "none"]
    /\ UNCHANGED <<socketVars, recvVars, rc, signaled, mailbox, dataVars>>

-----------------------------------------------------------------------------
Next ==
    \/ BindFails \/ Bind \/ recv_cb \/ recv_cb_error
    \/ close \/ close_OffLoop \/ RunClose \/ on_close
    \/ \E t \in Tasks :
          \/ Connect(t) \/ ConnectResolved(t)
          \/ \E kind \in {"recv", "recv_some"} : Receive(t, kind)
          \/ PostRegister(t) \/ Register(t) \/ Resume(t)
          \/ Signal(t) \/ RunCancel(t)
          \/ Send(t) \/ SendTo(t) \/ StartSend(t) \/ on_send(t)

Spec == Init /\ [][Next]_vars

-----------------------------------------------------------------------------
SeqRange(s) == {s[i] : i \in DOMAIN s}

(* Every datagram recv_cb accepted is returned to at most one caller, and one
   that is neither returned nor pending was copied straight to a recv_some (which
   was cancelled, or found a later one in pending, before it looked).  Those that
   went through pending are returned in the order they arrived. *)
DatagramsAccounted ==
    LET kept == got \o pending
        Queued(d) == d \notin direct
        queued == SelectSeq(kept, Queued)
    IN  /\ \A i, j \in DOMAIN kept : i # j => kept[i] # kept[j]
        /\ recv_some_result \notin SeqRange(kept)
        /\ (1..arrived) \ SeqRange(kept) \subseteq direct
        /\ \A i, j \in DOMAIN queued : i < j => queued[i] < queued[j]

(* Receivers are neither forgotten nor misled.  A parked one has something to
   wait for: the socket is open and receiving, nothing is pending and no error is
   recorded.  A cancelled one has its cancel closure on the way, on whatever thread
   it awaits, unless the closure was queued ahead of an off-loop registration.  And
   one that no other receive overlapped is told that the socket is closed only when
   it is. *)
NoIdleReceiver ==
    /\ \A t \in Tasks :
          pc[t] = "waiting" =>
             /\ t \in Parked
             /\ open /\ recv_started /\ recv_error = "none" /\ pending = <<>>
             /\ t \in signaled => Posted("cancel", t) \/ t \in early
    /\ toldClosed # {} => ~open
=============================================================================
