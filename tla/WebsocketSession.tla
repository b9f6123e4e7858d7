-------------------------- MODULE WebsocketSession --------------------------
(***************************************************************************)
(* One WebSocket connection (web::websocket_session in webserver.hpp):     *)
(* the handshake, the read loop, the send queue and the timer that pings a *)
(* quiet peer and closes a silent one.  Handlers run on the strand, one at *)
(* a time; responses come from the pool and are posted to the strand.      *)
(*                                                                         *)
(* The stream is Boost.Beast's (external): an operation that fails leaves  *)
(* it no longer open ("gone"); closing the socket fails what is            *)
(* outstanding.  The buffer of a write is a local of the function that     *)
(* starts it; that the bytes may be garbage by the time they are read is   *)
(* not modelled, wire tells which message is written.  A wait that the     *)
(* moved deadline cancels is issued again with the new deadline, which is  *)
(* no step here.                                                           *)
(***************************************************************************)
EXTENDS Naturals, Sequences

CONSTANT MaxMessages  \* bound: messages the peer sends

ASSUME MessagesAssumption == MaxMessages \in Nat \ {0}

Msgs == 1..MaxMessages

VARIABLES
    socket,     \* "handshake", "open", "gone" or "closed" (by the timer)
    waiting,    \* an async_wait is outstanding
    expired,    \* the timer's expiry () is in the past
    pingState,  \* ping_state_
    pinging,    \* an async_ping is outstanding
    reading,    \* an async_read is outstanding
    received,   \* messages read so far, numbered 1, 2, ...
    pending,    \* messages the work handler has still to answer
    posted,     \* responses posted to the strand
    queue,      \* send_queue_
    writes,     \* async_writes outstanding, each the message it writes
    wire,       \* the messages the peer received
    order,      \* history: the responses in the order they were posted
    failed,     \* history: the stream failed or was closed
    quiet       \* history: deadlines passed since the peer's last activity

vars == <<socket, waiting, expired, pingState, pinging, reading, received,
          pending, posted, queue, writes, wire, order, failed, quiet>>

timerVars == <<waiting, expired, pingState, pinging, quiet>>
sendVars  == <<posted, queue, writes, wire, order>>

(* The type of every variable; the peer's silence is counted up to 2.      *)
TypeOK ==
    /\ socket \in {"handshake", "open", "gone", "closed"}
    /\ waiting \in BOOLEAN /\ expired \in BOOLEAN
    /\ pingState \in 0..2 /\ pinging \in BOOLEAN
    /\ reading \in BOOLEAN
    /\ received \in 0..MaxMessages
    /\ pending \subseteq 1..received
    /\ posted \in Seq(Msgs) /\ queue \in Seq(Msgs) /\ writes \in Seq(Msgs)
    /\ wire \in Seq(Msgs) /\ order \in Seq(Msgs)
    /\ failed \in BOOLEAN /\ quiet \in 0..2

(* do_accept: the timer is armed and async_accept is outstanding. *)
Init ==
    /\ socket = "handshake"
    /\ waiting = TRUE /\ expired = FALSE
    /\ pingState = 0 /\ pinging = FALSE
    /\ reading = FALSE /\ received = 0 /\ pending = {}
    /\ posted = <<>> /\ queue = <<>> /\ writes = <<>> /\ wire = <<>>
    /\ order = <<>>
    /\ failed = FALSE /\ quiet = 0

-----------------------------------------------------------------------------
(* on_accept: read, or report the error and do nothing more. *)
OnAccept(ok) ==
    /\ socket = "handshake"
    /\ socket' = IF ok THEN "open" ELSE "gone"
    /\ reading' = ok
    /\ failed' = ~ok
    /\ UNCHANGED <<received, pending, timerVars, sendVars>>

(* Variant of Activity: the note that a ping was sent stays. *)
ActivityKeepsPing ==
    /\ expired' = FALSE
    /\ quiet' = 0
    /\ UNCHANGED <<pingState, waiting, pinging>>

(* activity (): the peer is alive; the deadline moves. *)
Activity ==
    /\ pingState' = 0
    /\ expired' = FALSE
    /\ quiet' = 0
    /\ UNCHANGED <<waiting, pinging>>

(* on_control_callback, run by the read under way. *)
OnControl ==
    /\ socket = "open" /\ reading
    /\ Activity
    /\ UNCHANGED <<socket, reading, received, pending, failed, sendVars>>

(* on_read: the message goes to the work handler; the next read is issued. *)
OnMessage ==
    /\ socket = "open" /\ reading
    /\ received < MaxMessages
    /\ received' = received + 1
    /\ Activity
    /\ UNCHANGED <<socket, reading, failed>>

(* ... which queues a job and answers later, from the pool, *)
OnRead ==
    /\ OnMessage
    /\ pending' = pending \cup {received'}
    /\ UNCHANGED sendVars

(* ... or answers at once (an error, work_validate, work_cancel): it calls *)
(* write_response while on_read still holds the strand.                    *)
OnReadAnswered ==
    /\ OnMessage
    /\ posted' = Append(posted, received')
    /\ order' = Append(order, received')
    /\ UNCHANGED <<pending, queue, writes, wire>>

(* The stream is no longer open; a socket the timer closed stays closed. *)
Fail ==
    /\ socket' = IF socket = "open" THEN "gone" ELSE socket
    /\ failed' = TRUE

(* on_read with an error, the peer's close and the timer's among them. *)
OnReadError ==
    /\ reading
    /\ reading' = FALSE
    /\ Fail
    /\ UNCHANGED <<received, pending, timerVars, sendVars>>

-----------------------------------------------------------------------------
(* write_response, called by a pool thread: post to the strand. *)
WriteResponse(m) ==
    /\ m \in pending
    /\ pending' = pending \ {m}
    /\ posted' = Append(posted, m)
    /\ order' = Append(order, m)
    /\ UNCHANGED <<socket, reading, received, queue, writes, wire, failed,
                   timerVars>>

(* Variant of Front: the newest response is sent first. *)
FrontNewest(q) == q[Len(q)]

Front(q) == Head(q)

(* write_queued_messages: async_write of a copy of the front. *)
WriteQueued(started, q) == writes' = Append(started, Front(q))

(* Variant of WriteInProgress: every response is written as it comes. *)
WriteNeverInProgress == FALSE

WriteInProgress == queue # <<>>

(* The posted lambda: queue the response, write it if the queue was empty. *)
Enqueue ==
    /\ posted # <<>>
    /\ posted' = Tail(posted)
    /\ queue' = Append(queue, Head(posted))
    /\ IF WriteInProgress THEN UNCHANGED writes ELSE WriteQueued(writes, queue')
    /\ UNCHANGED <<socket, reading, received, pending, wire, order, failed,
                   timerVars>>

(* Variant of WriteMore: the rest of the queue waits for a new response. *)
WriteNoMore(rest, q) == writes' = rest

WriteMore(rest, q) ==
    IF q = <<>> THEN writes' = rest ELSE WriteQueued(rest, q)

(* The completion of async_write: pop, and write the next response. *)
OnWrite ==
    /\ writes # <<>> /\ socket = "open"
    /\ wire' = Append(wire, Head(writes))
    /\ queue' = Tail(queue)
    /\ WriteMore(Tail(writes), queue')
    /\ UNCHANGED <<socket, reading, received, pending, posted, order, failed,
                   timerVars>>

(* ... with an error: pop, and leave the rest in the queue. *)
OnWriteError ==
    /\ writes # <<>>
    /\ queue' = Tail(queue)
    /\ writes' = Tail(writes)
    /\ Fail
    /\ UNCHANGED <<reading, received, pending, posted, wire, order, timerVars>>

-----------------------------------------------------------------------------
(* 15 seconds pass. *)
Deadline ==
    /\ waiting /\ ~expired
    /\ expired' = TRUE
    /\ quiet' = IF quiet < 2 THEN quiet + 1 ELSE quiet
    /\ UNCHANGED <<socket, waiting, pingState, pinging, reading,
                   received, pending, failed, sendVars>>

(* "If this is the first time the timer expired" *)
MustPing == socket = "open" /\ pingState = 0

(* Variant of WaitAgain: the wait is not issued again after a ping. *)
WaitNoMore == waiting' = FALSE

WaitAgain == waiting' = TRUE

(* on_timer, first time: note the ping, move the deadline, send the ping. *)
OnTimerPing ==
    /\ waiting /\ expired
    /\ MustPing
    /\ pingState' = 1
    /\ expired' = FALSE
    /\ pinging' = TRUE
    /\ WaitAgain
    /\ UNCHANGED <<socket, quiet, reading, received, pending, failed, sendVars>>

(* on_timer, otherwise: shut the socket down and wait no more. *)
OnTimerClose ==
    /\ waiting /\ expired
    /\ ~MustPing
    /\ socket' = "closed"
    /\ waiting' = FALSE
    /\ failed' = TRUE
    /\ UNCHANGED <<expired, pingState, pinging, quiet, reading,
                   received, pending, sendVars>>

PingSent(state) == IF state = 1 THEN 2 ELSE state

(* on_ping: "Note that the ping was sent." *)
OnPing ==
    /\ pinging /\ socket = "open"
    /\ pinging' = FALSE
    /\ pingState' = PingSent(pingState)
    /\ UNCHANGED <<socket, waiting, expired, quiet, reading, received,
                   pending, failed, sendVars>>

(* ... with an error: reported, or ignored when the timer closed. *)
OnPingError ==
    /\ pinging
    /\ pinging' = FALSE
    /\ Fail
    /\ UNCHANGED <<waiting, expired, pingState, quiet, reading,
                   received, pending, sendVars>>

-----------------------------------------------------------------------------
(* Nothing is outstanding: the session object is destroyed. *)
Destroyed ==
    /\ ~waiting /\ ~reading /\ ~pinging /\ writes = <<>>
    /\ posted = <<>> /\ pending = {}
    /\ UNCHANGED vars

PeerActivity == OnControl \/ OnRead \/ OnReadAnswered

Next ==
    \/ \E ok \in BOOLEAN : OnAccept(ok)
    \/ OnControl \/ OnRead \/ OnReadAnswered \/ OnReadError
    \/ \E m \in Msgs : WriteResponse(m)
    \/ Enqueue \/ OnWrite \/ OnWriteError
    \/ Deadline \/ OnTimerPing \/ OnTimerClose \/ OnPing \/ OnPingError
    \/ Destroyed

Spec == Init /\ [][Next]_vars

(* Time passes, the pool answers, the strand runs its handlers and a peer  *)
(* that is there reads what it is sent.  A ping need not complete.         *)
Fairness ==
    /\ WF_vars(Deadline)
    /\ WF_vars(OnTimerPing \/ OnTimerClose)
    /\ \A m \in Msgs : WF_vars(WriteResponse(m))
    /\ WF_vars(Enqueue)
    /\ WF_vars(OnWrite \/ OnWriteError)

FairSpec == Spec /\ Fairness

-----------------------------------------------------------------------------
(* Properties. *)

(* A WebSocket stream admits one async_write at a time: write_in_progress  *)
(* (the queue is not empty) covers the whole time a write is under way.    *)
OneWrite == Len(writes) <= 1

(* The peer receives the responses in the order write_response was called, *)
(* none twice and none left out before one that arrives.                   *)
WireOrder ==
    /\ Len(wire) <= Len(order)
    /\ \A i \in 1..Len(wire) : wire[i] = order[i]

(* A connection the peer keeps open is closed only after two deadlines in  *)
(* a row without a sign of life, one of them after a ping.                 *)
ClosedOnlyWhenSilent ==
    [][OnTimerClose /\ socket = "open" => quiet = 2]_vars

(* Whatever fails, the session of a peer that falls silent is closed, even *)
(* when the ping never completes: the timer keeps no dead session alive.   *)
SilentPeerClosed ==
    <>[][~PeerActivity]_vars => <>(socket = "closed")

(* Every response of the work handler is written while the stream is open. *)
ResponsesSent ==
    \A m \in Msgs :
        (m <= received) ~> (failed \/ \E i \in 1..Len(wire) : wire[i] = m)
=============================================================================
