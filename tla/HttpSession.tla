---------------------------- MODULE HttpSession ----------------------------
(***************************************************************************)
(* One HTTP connection (web::http_session in webserver.hpp): pipelined     *)
(* requests are read on the strand, responses are queued and written one   *)
(* at a time.  An endpoint answers either while the request is handled     *)
(* ("sync": ping, version, static pages, errors...) or later, from a       *)
(* thread of the work pool ("async": work_generate), which calls           *)
(* write_json_response without going through the strand.                   *)
(*                                                                         *)
(* Handlers on the strand do not overlap; a pool thread runs next to them. *)
(* queue::on_write (erase, then start the next item) and queue::operator() *)
(* called by a pool thread (push_back, then start the item if it is alone) *)
(* are two steps each, so that they interleave.  The vector itself is not  *)
(* synchronised: tearing inside push_back or erase is not modelled.        *)
(***************************************************************************)
EXTENDS Naturals, Sequences, FiniteSets

CONSTANTS
    MaxRequests,  \* bound: requests the client sends on the connection
    Window,       \* requests the client sends ahead; 1: it does not pipeline
    Limit         \* queue::limit, 8 in the code

ASSUME HttpAssumption ==
    /\ MaxRequests \in Nat \ {0}
    /\ Window \in Nat \ {0}
    /\ Limit \in Nat \ {0}

Reqs == 1..MaxRequests

VARIABLES
    socket,     \* "open", "half" (shutdown_send), "closed", "moved"
    expired,    \* the timer's deadline has passed
    reads,      \* async_read operations outstanding
    arrived,    \* requests read so far; request numbers are 1, 2, ...
    keepOf,     \* the keep-alive each request asked for
    keepalive,  \* client_keepalive
    pending,    \* requests the work handler has still to answer
    items,      \* items_: the queued responses, [req, keep]
    kicking,    \* requests whose pool thread is between push_back and size ()
    strand,     \* "free", or in queue::on_write after the erase
    wasFull,    \* was_full of that call
    writes,     \* async_writes outstanding, [req, close, flushed]
    wire,       \* the responses the client has received
    broken,     \* history: a read or write failed, or the socket moved on
    underflow   \* history: queue::on_write was called with no item

vars == <<socket, expired, reads, arrived, keepOf, keepalive, pending, items,
          kicking, strand, wasFull, writes, wire, broken, underflow>>

(* The type of every variable.                                             *)
TypeOK ==
    /\ socket \in {"open", "half", "closed", "moved"}
    /\ expired \in BOOLEAN
    /\ reads \in Nat
    /\ arrived \in 0..MaxRequests
    /\ keepOf \in [Reqs -> BOOLEAN]
    /\ keepalive \in BOOLEAN
    /\ pending \subseteq 1..arrived
    /\ items \in Seq([req : 1..arrived, keep : BOOLEAN])
    /\ kicking \subseteq 1..arrived
    /\ strand \in {"free", "erased"}
    /\ wasFull \in BOOLEAN
    /\ writes \in Seq([req : 1..arrived, close : BOOLEAN,
                      flushed : BOOLEAN])
    /\ wire \in Seq(1..arrived)
    /\ broken \in BOOLEAN
    /\ underflow \in BOOLEAN

(* run (): the timer waits and the first read is issued. *)
Init ==
    /\ socket = "open"
    /\ expired = FALSE
    /\ reads = 1
    /\ arrived = 0
    /\ keepOf = [r \in Reqs |-> TRUE]
    /\ keepalive = TRUE
    /\ pending = {}
    /\ items = <<>>
    /\ kicking = {}
    /\ strand = "free"
    /\ wasFull = FALSE
    /\ writes = <<>>
    /\ wire = <<>>
    /\ broken = FALSE
    /\ underflow = FALSE

-----------------------------------------------------------------------------
(* The client's next request is on its way. *)
RequestSent ==
    /\ arrived < MaxRequests
    /\ Cardinality((1..arrived) \ {wire[i] : i \in 1..Len(wire)}) < Window

(* on_read can run: the strand is free and its async_read is outstanding.  *)
ReadReady == strand = "free" /\ reads > 0 /\ socket \in {"open", "half"}

(* Variant of IsFull: off by one. *)
IsFullLate(q) == Len(q) > Limit

IsFull(q) == Len(q) >= Limit

(* work::operator(): async_write of an item; it closes unless keep-alive. *)
Started(item) ==
    Append(writes, [req |-> item.req, close |-> ~item.keep, flushed |-> FALSE])

(* Variant of Alone: every response is started as it is stored. *)
AloneOrNot(q) == TRUE

Alone(q) == Len(q) = 1

(* queue::operator(): store the item, start it if it is the only one. *)
Send(item) ==
    /\ items' = Append(items, item)
    /\ writes' = IF Alone(items') THEN Started(item) ELSE writes

(* read (): the deadline moves and one more async_read is outstanding. *)
Read(n) ==
    /\ reads' = n + 1
    /\ expired' = FALSE

(* "If we aren't at the queue limit, try to pipeline another request" *)
ReadMoreUnlessFull(q) ==
    IF IsFull(q)
      THEN reads' = reads - 1 /\ UNCHANGED expired
      ELSE Read(reads - 1)

(* Variant of NoteKeepAlive: the session keeps its first value. *)
ForgetKeepAlive(keep) == UNCHANGED keepalive

(* handle_request starts by remembering the client's version, keep-alive. *)
NoteKeepAlive(keep) == keepalive' = keep

(* on_read without an error, for a request that is answered at once. *)
OnReadSync(keep) ==
    /\ ReadReady /\ RequestSent
    /\ arrived' = arrived + 1
    /\ keepOf' = [keepOf EXCEPT ![arrived'] = keep]
    /\ NoteKeepAlive(keep)
    /\ Send([req |-> arrived', keep |-> keep])
    /\ ReadMoreUnlessFull(items')
    /\ UNCHANGED <<socket, pending, kicking, strand, wasFull, wire, broken,
                   underflow>>

(* ... for a work request: nothing is queued yet. *)
OnReadAsync(keep) ==
    /\ ReadReady /\ RequestSent
    /\ arrived' = arrived + 1
    /\ keepOf' = [keepOf EXCEPT ![arrived'] = keep]
    /\ NoteKeepAlive(keep)
    /\ pending' = pending \cup {arrived'}
    /\ ReadMoreUnlessFull(items)
    /\ UNCHANGED <<socket, items, kicking, strand, wasFull, writes, wire,
                   broken, underflow>>

(* ... for a WebSocket upgrade: the socket goes to a websocket_session, or *)
(* nowhere when no endpoint has the path; nothing is read any more.        *)
OnReadUpgrade ==
    /\ ReadReady /\ RequestSent
    /\ socket' \in {"moved", socket}
    /\ reads' = reads - 1
    /\ broken' = TRUE
    /\ UNCHANGED <<expired, arrived, keepOf, keepalive, pending, items, kicking,
                   strand, wasFull, writes, wire, underflow>>

(* on_read with end_of_stream: graceful_shutdown. *)
OnReadEnd ==
    /\ ReadReady
    /\ reads' = reads - 1
    /\ socket' = "half"
    /\ UNCHANGED <<expired, arrived, keepOf, keepalive, pending, items, kicking,
                   strand, wasFull, writes, wire, broken, underflow>>

(* on_read with any other error, or aborted by a closed socket. *)
OnReadError ==
    /\ strand = "free" /\ reads > 0
    /\ reads' = reads - 1
    /\ broken' = TRUE
    /\ UNCHANGED <<socket, expired, arrived, keepOf, keepalive, pending, items,
                   kicking, strand, wasFull, writes, wire, underflow>>

-----------------------------------------------------------------------------

(* The bytes of the first write under way reach the client, which can act  *)
(* on them before on_write runs.                                           *)
Flush ==
    /\ socket = "open"
    /\ \E i \in 1..Len(writes) :
         /\ ~writes[i].flushed /\ \A k \in 1..(i - 1) : writes[k].flushed
         /\ writes' = [writes EXCEPT ![i].flushed = TRUE]
         /\ wire' = Append(wire, writes[i].req)
    /\ UNCHANGED <<socket, expired, reads, arrived, keepOf, keepalive, pending,
                   items, kicking, strand, wasFull, broken, underflow>>

WriteReady(close) ==
    strand = "free" /\ writes # <<>> /\ Head(writes).flushed
                    /\ Head(writes).close = close

(* on_write, the response said close: graceful_shutdown, the item stays. *)
OnWriteClose ==
    /\ WriteReady(TRUE)
    /\ writes' = Tail(writes)
    /\ socket' = IF socket = "open" THEN "half" ELSE socket
    /\ UNCHANGED <<expired, reads, arrived, keepOf, keepalive, pending, items,
                   kicking, strand, wasFull, wire, broken, underflow>>

(* Variant of Rest: the queue is cleared. *)
RestNone(q) == <<>>

(* items_.erase (items_.begin ()) *)
Rest(q) == IF q = <<>> THEN q ELSE Tail(q)

(* on_write, first half of queue::on_write: BOOST_ASSERT, was_full, erase. *)
OnWriteErase ==
    /\ WriteReady(FALSE)
    /\ writes' = Tail(writes)
    /\ underflow' = (underflow \/ items = <<>>)
    /\ wasFull' = IsFull(items)
    /\ items' = Rest(items)
    /\ strand' = "erased"
    /\ UNCHANGED <<socket, expired, reads, arrived, keepOf, keepalive, pending,
                   kicking, wire, broken>>

(* Variant of StartFront: back () for front (). *)
StartBack ==
    writes' = IF items = <<>> THEN writes ELSE Started(items[Len(items)])

StartFront ==
    writes' = IF items = <<>> THEN writes ELSE Started(Head(items))

(* Variants of ResumeReading: after every write, and never. *)
ResumeAlways == TRUE
ResumeNever == FALSE

ResumeReading == wasFull

(* ... second half: start the next item; read again if the queue was full. *)
OnWriteNext ==
    /\ strand = "erased"
    /\ strand' = "free"
    /\ wasFull' = FALSE
    /\ StartFront
    /\ IF ResumeReading THEN Read(reads) ELSE UNCHANGED <<reads, expired>>
    /\ UNCHANGED <<socket, arrived, keepOf, keepalive, pending, items, kicking,
                   wire, broken, underflow>>

(* on_write with an error: reported, and nothing more. *)
OnWriteError ==
    /\ strand = "free" /\ writes # <<>> /\ ~Head(writes).flushed
    /\ writes' = Tail(writes)
    /\ broken' = TRUE
    /\ UNCHANGED <<socket, expired, reads, arrived, keepOf, keepalive, pending,
                   items, kicking, strand, wasFull, wire, underflow>>

-----------------------------------------------------------------------------
(* A pool thread delivers work: write_json_response, off the strand, with  *)
(* the keep-alive of whichever request was read last.                      *)
PoolPush(r) ==
    /\ r \in pending
    /\ pending' = pending \ {r}
    /\ items' = Append(items, [req |-> r, keep |-> keepalive])
    /\ kicking' = kicking \cup {r}
    /\ UNCHANGED <<socket, expired, reads, arrived, keepOf, keepalive, strand,
                   wasFull, writes, wire, broken, underflow>>

PoolKick(r) ==
    /\ r \in kicking
    /\ kicking' = kicking \ {r}
    /\ writes' = IF Alone(items) THEN Started(Head(items)) ELSE writes
    /\ UNCHANGED <<socket, expired, reads, arrived, keepOf, keepalive, pending,
                   items, strand, wasFull, wire, broken, underflow>>

(* An hour passes without a read. *)
Deadline ==
    /\ ~expired /\ socket \in {"open", "half"}
    /\ expired' = TRUE
    /\ UNCHANGED <<socket, reads, arrived, keepOf, keepalive, pending, items,
                   kicking, strand, wasFull, writes, wire, broken, underflow>>

(* on_timer, the deadline really passed: the socket is closed. *)
OnTimer ==
    /\ strand = "free" /\ expired /\ socket \in {"open", "half"}
    /\ socket' = "closed"
    /\ UNCHANGED <<expired, reads, arrived, keepOf, keepalive, pending, items,
                   kicking, strand, wasFull, writes, wire, broken, underflow>>

-----------------------------------------------------------------------------
(* Nothing is outstanding: the session object is destroyed. *)
Released ==
    /\ reads = 0 /\ writes = <<>> /\ pending = {} /\ kicking = {}
    /\ strand = "free"
    /\ UNCHANGED vars

(* A connection whose requests are all answered on the strand. *)
StrandNext ==
    \/ \E keep \in BOOLEAN : OnReadSync(keep)
    \/ OnReadUpgrade \/ OnReadEnd \/ OnReadError
    \/ OnWriteClose \/ OnWriteErase \/ OnWriteNext \/ OnWriteError
    \/ Flush
    \/ Deadline \/ OnTimer
    \/ Released

(* Any connection: work requests are answered by the pool. *)
Next ==
    \/ StrandNext
    \/ \E keep \in BOOLEAN : OnReadAsync(keep)
    \/ \E r \in Reqs : PoolPush(r) \/ PoolKick(r)

Spec == Init /\ [][Next]_vars

(* Writes complete and the strand runs its handlers; the client need not   *)
(* send anything.                                                          *)
StrandFairness ==
    /\ WF_vars(Flush)
    /\ WF_vars(OnWriteClose \/ OnWriteErase \/ OnWriteNext)

StrandSpec == Init /\ [][StrandNext]_vars /\ StrandFairness

-----------------------------------------------------------------------------
(* Properties. *)

(* webserver.hpp:570: the request must be empty "before reading, otherwise *)
(* the operation behavior is undefined": req_ belongs to one read at a     *)
(* time.                                                                   *)
SingleRead == reads <= 1

(* webserver.hpp:502, "If there was no previous work, start this one": a   *)
(* response is written only when no other is being written.                *)
SingleWrite == Len(writes) <= 1

(* webserver.hpp:456, BOOST_ASSERT (!items_.empty ()): a completed write   *)
(* finds its item at the head of the queue.                                *)
NoUnderflow == ~underflow

(* webserver.hpp:424, "Maximum number of responses we will queue".         *)
QueueLimited == Len(items) <= Limit

(* Responses leave in the order of the requests and none twice, which is   *)
(* how a client without correlation ids (work_handler.cpp:152) tells them  *)
(* apart.                                                                  *)
ResponsesInOrder ==
    \A i, j \in 1..Len(wire) : i < j => wire[i] < wire[j]

(* handle_request keeps the client's keep-alive in the session: a response *)
(* closes the connection exactly when its own request asked for it.        *)
KeepAliveOfRequest ==
    \A i \in 1..Len(items) : items[i].keep = keepOf[items[i].req]

(* A healthy connection is never left deaf: when no read is outstanding,   *)
(* the queue is full and a write that will resume reading is under way.    *)
NeverDeaf ==
    socket = "open" /\ ~broken /\ reads = 0 =>
        \/ strand = "erased" /\ wasFull
        \/ IsFull(items) /\ writes # <<>>

(* Every response that reaches the queue of a healthy connection, and that *)
(* no close overtakes, is written to the client.                           *)
ResponsesWritten ==
    \A r \in Reqs :
        (r <= arrived) ~>
            \/ \E i \in 1..Len(wire) : wire[i] = r
            \/ socket # "open" \/ broken
=============================================================================
