------------------------------ MODULE EndToEnd ------------------------------
(***************************************************************************)
(* Two clients of one server, as main in nano_pow_server.cpp connects the  *)
(* parts: an HTTP connection and a WebSocket connection over one work      *)
(* handler.  The sessions are HttpSession and WebsocketSession, the work   *)
(* handler is what it promises, WorkExchange.                              *)
(*                                                                         *)
(* Request k of the HTTP connection and message m of the WebSocket are the *)
(* exchange's requests <<"http", k>> and <<"ws", m>>.  handle_request_async*)
(* runs inside on_read, so a session's strand is taken from Ask until the  *)
(* exchange has let the request in or refused it; the answer to one that   *)
(* was let in comes from the pool.  Time does not pass here, and the HTTP  *)
(* client neither upgrades nor closes its side first: timers, upgrades and *)
(* half-closed streams are in the modules of the sessions.                 *)
(***************************************************************************)
EXTENDS Naturals, Sequences, FiniteSets

CONSTANTS
    MaxHttp, MaxWs,   \* bounds: requests and messages of the two clients
    HttpLimit,        \* queue::limit of the HTTP session
    Hashes, NoHash, Levels, JobLimit, Workers, AllowControl, None

ASSUME EndToEndAssumption ==
    MaxHttp \in Nat \ {0} /\ MaxWs \in Nat \ {0} /\ HttpLimit \in Nat \ {0}

Requests == ({"http"} \X (1..MaxHttp)) \cup ({"ws"} \X (1..MaxWs))

VARIABLES
    phase, hash, pri, turn, jobs, claim, answers,
    withdrawn,        \* history: the jobs work_cancel and DELETE took away
    hSocket, hExpired, hReads, hArrived, hKeepOf, hKeepalive, hPending, hItems,
    hKicking, hStrand, hWasFull, hWrites, hWire, hBroken, hUnderflow,
    wSocket, wWaiting, wExpired, wPingState, wPinging, wReading, wReceived,
    wPending, wPosted, wQueue, wWrites, wWire, wOrder, wFailed, wQuiet

Exchange == INSTANCE WorkExchange WITH
    Limit <- JobLimit, AllowWithdrawAll <- AllowControl

Http == INSTANCE HttpSession WITH
    MaxRequests <- MaxHttp, Window <- 1, Limit <- HttpLimit,
    socket <- hSocket, expired <- hExpired, reads <- hReads,
    arrived <- hArrived, keepOf <- hKeepOf, keepalive <- hKeepalive,
    pending <- hPending, items <- hItems, kicking <- hKicking,
    strand <- hStrand, wasFull <- hWasFull, writes <- hWrites, wire <- hWire,
    broken <- hBroken, underflow <- hUnderflow

Ws == INSTANCE WebsocketSession WITH
    MaxMessages <- MaxWs,
    socket <- wSocket, waiting <- wWaiting, expired <- wExpired,
    pingState <- wPingState, pinging <- wPinging, reading <- wReading,
    received <- wReceived, pending <- wPending, posted <- wPosted,
    queue <- wQueue, writes <- wWrites, wire <- wWire, order <- wOrder,
    failed <- wFailed, quiet <- wQuiet

xVars == <<phase, hash, pri, turn, jobs, claim, answers>>
hVars == <<hSocket, hExpired, hReads, hArrived, hKeepOf, hKeepalive, hPending,
           hItems, hKicking, hStrand, hWasFull, hWrites, hWire, hBroken,
           hUnderflow>>
wVars == <<wSocket, wWaiting, wExpired, wPingState, wPinging, wReading,
           wReceived, wPending, wPosted, wQueue, wWrites, wWire, wOrder,
           wFailed, wQuiet>>
vars == <<xVars, withdrawn, hVars, wVars>>

Init == Exchange!Init /\ withdrawn = {} /\ Http!Init /\ Ws!Init

-----------------------------------------------------------------------------
(* The pool answers a request that was let in. *)
PoolAnswers(r) ==
    Exchange!Deliver(r) \/ Exchange!Abandon(r) \/ Exchange!TurnAway(r)

(* A pool thread takes up a job for a waiting request. *)
PoolClaims(r) ==
    /\ \E j \in jobs : Exchange!Claim(r, j)
    /\ UNCHANGED <<withdrawn, hVars, wVars>>

(* work_cancel takes the job of a hash away, if there is one; all other    *)
(* actions leave the jobs alone.                                           *)
CancelOrOther ==
    /\ (\E h \in Hashes : Exchange!WithdrawHash(h)) \/ UNCHANGED xVars
    /\ withdrawn' = withdrawn \cup (jobs \ jobs')

(* DELETE of the queue, an endpoint of HTTP. *)
ClearQueue ==
    /\ Exchange!WithdrawAll
    /\ withdrawn' = withdrawn \cup (jobs \ jobs')

-----------------------------------------------------------------------------
(* The HTTP connection. *)
HttpNext == <<"http", hArrived + 1>>

HttpHandling == hArrived < MaxHttp /\ phase[HttpNext] = "asked"

(* on_read has a work request: work_endpoint_handler is called, *)
HttpAsks ==
    /\ Http!ReadReady /\ Http!RequestSent
    /\ Exchange!Ask(HttpNext)
    /\ UNCHANGED <<withdrawn, hVars, wVars>>

(* ... the job is queued and on_read goes on, *)
HttpLetIn(keep) ==
    /\ HttpHandling
    /\ Exchange!Deposit(HttpNext)
    /\ Http!OnReadAsync(keep)
    /\ UNCHANGED <<withdrawn, wVars>>

(* ... or write_json_response was called before on_read goes on. *)
HttpRefused(keep) ==
    /\ HttpHandling
    /\ Exchange!Refuse(HttpNext)
    /\ Http!OnReadSync(keep)
    /\ UNCHANGED <<withdrawn, wVars>>

(* Any other request: work_cancel, the queue, ping, version, pages. *)
HttpControls(keep) ==
    /\ ~HttpHandling
    /\ CancelOrOther \/ ClearQueue
    /\ Http!OnReadSync(keep)
    /\ UNCHANGED wVars

PoolAnswersHttp(k) ==
    /\ PoolAnswers(<<"http", k>>)
    /\ Http!PoolPush(k)
    /\ UNCHANGED <<withdrawn, wVars>>

HttpStrand ==
    /\ ~HttpHandling
    /\ \/ Http!OnReadError
       \/ Http!OnWriteClose \/ Http!OnWriteErase \/ Http!OnWriteNext
       \/ Http!OnWriteError
    /\ UNCHANGED <<xVars, withdrawn, wVars>>

HttpOther ==
    /\ \/ \E k \in 1..MaxHttp : Http!PoolKick(k)
       \/ Http!Flush
    /\ UNCHANGED <<xVars, withdrawn, wVars>>

-----------------------------------------------------------------------------
(* The WebSocket connection. *)
WsNext == <<"ws", wReceived + 1>>

WsHandling == wReceived < MaxWs /\ phase[WsNext] = "asked"

WsAsks ==
    /\ wSocket = "open" /\ wReading /\ wReceived < MaxWs
    /\ Exchange!Ask(WsNext)
    /\ UNCHANGED <<withdrawn, hVars, wVars>>

WsLetIn ==
    /\ WsHandling
    /\ Exchange!Deposit(WsNext)
    /\ Ws!OnRead
    /\ UNCHANGED <<withdrawn, hVars>>

(* Variant of WsRefused: the catch block does not answer. *)
WsRefusedSilently ==
    /\ WsHandling
    /\ Exchange!Refuse(WsNext)
    /\ Ws!OnRead
    /\ UNCHANGED <<withdrawn, hVars>>

WsRefused ==
    /\ WsHandling
    /\ Exchange!Refuse(WsNext)
    /\ Ws!OnReadAnswered
    /\ UNCHANGED <<withdrawn, hVars>>

(* work_cancel, work_validate or an invalid action. *)
WsControls ==
    /\ ~WsHandling
    /\ CancelOrOther
    /\ Ws!OnReadAnswered
    /\ UNCHANGED hVars

PoolAnswersWs(m) ==
    /\ PoolAnswers(<<"ws", m>>)
    /\ Ws!WriteResponse(m)
    /\ UNCHANGED <<withdrawn, hVars>>

WsReads ==
    /\ ~WsHandling
    /\ Ws!OnReadError \/ \E ok \in BOOLEAN : Ws!OnAccept(ok)
    /\ UNCHANGED <<xVars, withdrawn, hVars>>

WsSends ==
    /\ ~WsHandling
    /\ Ws!Enqueue \/ Ws!OnWrite \/ Ws!OnWriteError
    /\ UNCHANGED <<xVars, withdrawn, hVars>>

-----------------------------------------------------------------------------
(* Both connections are gone; a WebSocket session waits for its timer. *)
Over ==
    /\ Http!Released
    /\ wSocket # "handshake" /\ ~wReading /\ wWrites = <<>>
    /\ wPosted = <<>>
    /\ \A r \in Requests : phase[r] \in {"new", "answered"}
    /\ UNCHANGED vars

PoolStep ==
    \/ \E r \in Requests : PoolClaims(r)
    \/ \E k \in 1..MaxHttp : PoolAnswersHttp(k)
    \/ \E m \in 1..MaxWs : PoolAnswersWs(m)

HandlerStep ==
    \/ \E keep \in BOOLEAN : HttpLetIn(keep) \/ HttpRefused(keep)
    \/ WsLetIn \/ WsRefused

Next ==
    \/ PoolStep
    \/ HandlerStep
    \/ HttpAsks \/ \E keep \in BOOLEAN : HttpControls(keep)
    \/ HttpStrand \/ HttpOther
    \/ WsAsks \/ WsControls
    \/ WsReads \/ WsSends
    \/ Over

Spec == Init /\ [][Next]_vars

(* The pool works on, a handler that has begun returns, and a peer reads   *)
(* what it is sent or the write fails.                                     *)
Fairness ==
    /\ WF_vars(PoolStep)
    /\ WF_vars(HandlerStep)
    /\ WF_vars(WsSends)

FairSpec == Spec /\ Fairness

-----------------------------------------------------------------------------
(* Properties. *)

(* The requests answered "No jobs available" never outnumber the jobs that *)
(* cancels and deletes of either client took away: a client pays for what  *)
(* was withdrawn, perhaps by the other one, and for nothing else.          *)
TurnedAwayOnlyForWithdrawn ==
    Cardinality({r \in Requests :
        \E i \in 1..Len(answers[r]) : answers[r][i].kind = "nojobs"})
            <= Cardinality(withdrawn)

(* handle_request keeps the client's keep-alive in the session, and pool   *)
(* threads read it later: for a client that waits for each response, a     *)
(* response closes the connection exactly when its own request asked so.   *)
HttpKeepAlive == Http!KeepAliveOfRequest

(* Every message read from the WebSocket is answered on it while the       *)
(* stream is open: whether it is let in, refused, turned away or fails,    *)
(* and whatever becomes of the HTTP connection and its jobs.               *)
EveryMessageAnswered ==
    \A m \in 1..MaxWs :
        (m <= wReceived) ~>
            (wFailed \/ \E i \in 1..Len(wWire) : wWire[i] = m)
=============================================================================
