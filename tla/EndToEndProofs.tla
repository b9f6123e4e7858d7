--------------------------- MODULE EndToEndProofs ---------------------------
(***************************************************************************)
(* Machine-checked proofs about EndToEnd, for any number of requests of    *)
(* either client: what the HTTP session promises to a client that waits    *)
(* for its responses it still promises when the work handler is shared,    *)
(* and a request is turned away only for a job somebody withdrew.          *)
(***************************************************************************)
EXTENDS EndToEnd, FiniteSetTheorems, TLAPS

(* The HTTP connection of EndToEnd, with what is proved about it alone. *)
Session == INSTANCE HttpSessionProofs WITH
    MaxRequests <- MaxHttp, Window <- 1, Limit <- HttpLimit,
    socket <- hSocket, expired <- hExpired, reads <- hReads,
    arrived <- hArrived, keepOf <- hKeepOf, keepalive <- hKeepalive,
    pending <- hPending, items <- hItems, kicking <- hKicking,
    strand <- hStrand, wasFull <- hWasFull, writes <- hWrites, wire <- hWire,
    broken <- hBroken, underflow <- hUnderflow

-----------------------------------------------------------------------------
(* The actions of the two instances of HttpSession are the same. *)

LEMMA SameRequestSent == Http!RequestSent => Session!RequestSent
<1>1. \A S : Http!Cardinality(S) = Session!Cardinality(S)
  BY DEF Http!Cardinality, Session!Cardinality
<1> QED
  BY <1>1 DEF Http!RequestSent, Session!RequestSent

LEMMA SameReads ==
  ASSUME NEW keep \in BOOLEAN
  PROVE  /\ Http!OnReadSync(keep) => Session!OnReadSync(keep)
         /\ Http!OnReadAsync(keep) => Session!OnReadAsync(keep)
<1> USE SameRequestSent
    DEF Http!ReadReady, Session!ReadReady, Http!NoteKeepAlive, Session!NoteKeepAlive,
        Http!Send, Session!Send, Http!Alone, Session!Alone, Http!Started, Session!Started,
        Http!ReadMoreUnlessFull, Session!ReadMoreUnlessFull,
        Http!IsFull, Session!IsFull, Http!Read, Session!Read
<1>1. Http!OnReadSync(keep) => Session!OnReadSync(keep)
  BY DEF Http!OnReadSync, Session!OnReadSync
<1>2. Http!OnReadAsync(keep) => Session!OnReadAsync(keep)
  BY DEF Http!OnReadAsync, Session!OnReadAsync
<1> QED
  BY <1>1, <1>2

LEMMA SameWrites ==
  /\ Http!OnReadError => Session!OnReadError
  /\ Http!OnWriteClose => Session!OnWriteClose
  /\ Http!OnWriteErase => Session!OnWriteErase
  /\ Http!OnWriteNext => Session!OnWriteNext
  /\ Http!OnWriteError => Session!OnWriteError
  /\ Http!Flush => Session!Flush
<1>1. Http!OnReadError => Session!OnReadError
  BY DEF Http!OnReadError, Session!OnReadError
<1>2. Http!OnWriteClose => Session!OnWriteClose
  BY DEF Http!OnWriteClose, Session!OnWriteClose, Http!WriteReady, Session!WriteReady
<1>3. Http!OnWriteErase => Session!OnWriteErase
  BY DEF Http!OnWriteErase, Session!OnWriteErase, Http!WriteReady, Session!WriteReady,
         Http!Rest, Session!Rest, Http!IsFull, Session!IsFull
<1>4. Http!OnWriteNext => Session!OnWriteNext
  BY DEF Http!OnWriteNext, Session!OnWriteNext, Http!StartFront, Session!StartFront,
         Http!Started, Session!Started, Http!ResumeReading, Session!ResumeReading,
         Http!Read, Session!Read
<1>5. Http!OnWriteError => Session!OnWriteError
  BY DEF Http!OnWriteError, Session!OnWriteError
<1>6. Http!Flush => Session!Flush
  BY DEF Http!Flush, Session!Flush
<1> QED
  BY <1>1, <1>2, <1>3, <1>4, <1>5, <1>6

LEMMA SamePool ==
  ASSUME NEW k \in 1..MaxHttp
  PROVE  /\ Http!PoolPush(k) => Session!PoolPush(k)
         /\ Http!PoolKick(k) => Session!PoolKick(k)
<1>1. Http!PoolPush(k) => Session!PoolPush(k)
  BY DEF Http!PoolPush, Session!PoolPush
<1>2. Http!PoolKick(k) => Session!PoolKick(k)
  BY DEF Http!PoolKick, Session!PoolKick, Http!Alone, Session!Alone, Http!Started, Session!Started
<1> QED
  BY <1>1, <1>2

(* Every step of the composition is a step of the HTTP session or leaves   *)
(* the session alone.                                                      *)
LEMMA HttpSteps == [Next]_vars => [Session!Next]_(Session!vars)
<1> SUFFICES ASSUME [Next]_vars PROVE [Session!Next]_(Session!vars)
  OBVIOUS
<1>0. UNCHANGED hVars => UNCHANGED Session!vars
  BY DEF hVars, Session!vars
<1>1. ASSUME NEW keep \in BOOLEAN,
             HttpLetIn(keep) \/ HttpRefused(keep) \/ HttpControls(keep)
      PROVE  Session!Next
  BY <1>1, SameReads DEF HttpLetIn, HttpRefused, HttpControls, Session!Next, Session!StrandNext
<1>2. ASSUME NEW k \in 1..MaxHttp, PoolAnswersHttp(k) PROVE Session!Next
  BY <1>2, SamePool DEF PoolAnswersHttp, Session!Next, Session!Reqs
<1>3. CASE HttpStrand
  BY <1>3, SameWrites DEF HttpStrand, Session!Next, Session!StrandNext
<1>4. CASE HttpOther
  BY <1>4, SameWrites, SamePool DEF HttpOther, Session!Next, Session!StrandNext, Session!Reqs
<1>5. CASE \E r \in Requests : PoolClaims(r)
  BY <1>0, <1>5 DEF PoolClaims
<1>6. CASE \E m \in 1..MaxWs : PoolAnswersWs(m)
  BY <1>0, <1>6 DEF PoolAnswersWs
<1>7. CASE HttpAsks \/ WsAsks \/ WsLetIn \/ WsRefused \/ WsControls \/ WsReads \/ WsSends
  BY <1>0, <1>7 DEF HttpAsks, WsAsks, WsLetIn, WsRefused, WsControls, WsReads, WsSends
<1>8. CASE Over \/ UNCHANGED vars
  BY <1>0, <1>8 DEF Over, vars
<1> QED
  BY <1>1, <1>2, <1>3, <1>4, <1>5, <1>6, <1>7, <1>8 DEF Next, PoolStep, HandlerStep

LEMMA PolledAlways == Spec => []Session!PolledInv
<1>1. Init => Session!PolledInv
  <2>1. Http!Init => Session!Init
    BY DEF Http!Init, Session!Init, Http!Reqs, Session!Reqs
  <2> QED
    BY <2>1, Session!PolledInit, EndToEndAssumption DEF Init
<1>2. Session!PolledInv /\ [Next]_vars => Session!PolledInv'
  BY HttpSteps, Session!PolledStep, EndToEndAssumption
<1> QED
  BY <1>1, <1>2, PTL DEF Spec

(* Whatever the other client and the pool do, a response on the HTTP       *)
(* connection closes it exactly when its own request asked so              *)
(* (HttpKeepAlive).                                                        *)
THEOREM HttpAlwaysKeepsAlive == Spec => []HttpKeepAlive
<1>1. Session!PolledInv => HttpKeepAlive
  BY DEF Session!PolledInv, Session!KeepAliveOfRequest, HttpKeepAlive, Http!KeepAliveOfRequest
<1> QED
  BY <1>1, PolledAlways, PTL

-----------------------------------------------------------------------------
(* The jobs.  Every request that is let in brings one job and takes one    *)
(* away, its own or another's, or finds none.                              *)

Waiting == {r \in Requests : phase[r] = "waiting"}

LetIn == {r \in Requests : phase[r] \notin {"new", "asked"}}

TurnedAway ==
    {r \in Requests : \E i \in 1..Len(answers[r]) : answers[r][i].kind = "nojobs"}

NamesOK ==
    /\ wReceived \in 0..MaxWs
    /\ phase = [r \in Requests |-> phase[r]]
    /\ answers = [r \in Requests |-> answers[r]]

(* Each waiting request has a job that waits or was withdrawn, and so has  *)
(* each one that was turned away; no more jobs wait than requests.         *)
JobsOK ==
    /\ jobs \subseteq LetIn /\ withdrawn \subseteq LetIn
    /\ jobs \cap withdrawn = {}

CountOK ==
    /\ Cardinality(jobs) <= Cardinality(Waiting)
    /\ Cardinality(Waiting) + Cardinality(TurnedAway)
           <= Cardinality(jobs) + Cardinality(withdrawn)

CountInv == NamesOK /\ JobsOK /\ CountOK

LEMMA RequestsFinite == IsFiniteSet(Requests)
<1>1. IsFiniteSet(1..MaxHttp) /\ IsFiniteSet(1..MaxWs)
  BY EndToEndAssumption, FS_Interval
<1>2. IsFiniteSet({"http"}) /\ IsFiniteSet({"ws"})
  BY FS_Singleton
<1>3. IsFiniteSet({"http"} \X (1..MaxHttp)) /\ IsFiniteSet({"ws"} \X (1..MaxWs))
  BY <1>1, <1>2, FS_Product
<1> QED
  BY <1>3, FS_Union DEF Requests

LEMMA SetsOfRequests ==
  ASSUME NEW S, S \subseteq Requests
  PROVE  IsFiniteSet(S) /\ Cardinality(S) \in Nat
  BY RequestsFinite, FS_Subset, FS_CardinalityType

LEMMA OneMore ==
  ASSUME NEW S, S \subseteq Requests, NEW r, r \notin S
  PROVE  Cardinality(S \cup {r}) = Cardinality(S) + 1
  BY SetsOfRequests, FS_AddElement

LEMMA AtMostOneMore ==
  ASSUME NEW S, S \subseteq Requests, NEW r \in Requests, NEW T, T \subseteq S \cup {r}
  PROVE  Cardinality(T) <= Cardinality(S) + 1
<1>1. S \cup {r} \subseteq Requests
  OBVIOUS
<1>2. IsFiniteSet(S \cup {r}) /\ Cardinality(S \cup {r}) \in Nat /\ Cardinality(S) \in Nat
      /\ Cardinality(T) \in Nat
  BY <1>1, SetsOfRequests
<1>3. Cardinality(T) <= Cardinality(S \cup {r})
  BY <1>2, FS_Subset
<1>4. Cardinality(S \cup {r}) <= Cardinality(S) + 1
  <2>1. IsFiniteSet(S)
    BY SetsOfRequests
  <2>2. Cardinality(S \cup {r}) = IF r \in S THEN Cardinality(S) ELSE Cardinality(S) + 1
    BY <2>1, FS_AddElement
  <2> QED
    BY <1>2, <2>2
<1> QED
  BY <1>2, <1>3, <1>4

LEMMA NoMore ==
  ASSUME NEW S, S \subseteq Requests, NEW T, T \subseteq S
  PROVE  Cardinality(T) <= Cardinality(S)
  BY SetsOfRequests, FS_Subset

LEMMA OneLess ==
  ASSUME NEW S, S \subseteq Requests, NEW r \in S
  PROVE  Cardinality(S \ {r}) = Cardinality(S) - 1
  BY SetsOfRequests, FS_RemoveElement

(* The exchange sees one of these, whatever the step of the composition. *)
ExchangeStep(r) ==
    \/ Exchange!Ask(r) \/ Exchange!Deposit(r) \/ Exchange!Refuse(r)
    \/ \E j \in jobs : Exchange!Claim(r, j)
    \/ PoolAnswers(r)

LEMMA ExchangeSteps ==
  ASSUME Session!PolledInv, wReceived \in 0..MaxWs, [Next]_vars
  PROVE  \/ UNCHANGED withdrawn /\ \E r \in Requests : ExchangeStep(r)
         \/ CancelOrOther \/ ClearQueue
         \/ UNCHANGED <<xVars, withdrawn>>
<1>0. hArrived \in 0..MaxHttp /\ MaxHttp \in Nat /\ MaxWs \in Nat
  BY EndToEndAssumption DEF Session!PolledInv, Session!Typed, Session!ReadTypeOK
<1>h. hArrived < MaxHttp => HttpNext \in Requests
  BY <1>0 DEF HttpNext, Requests
<1>w. wReceived < MaxWs => WsNext \in Requests
  BY <1>0 DEF WsNext, Requests
<1>1. ASSUME NEW keep \in BOOLEAN, HttpLetIn(keep) \/ HttpRefused(keep)
      PROVE  UNCHANGED withdrawn /\ ExchangeStep(HttpNext) /\ hArrived < MaxHttp
  BY <1>1 DEF HttpLetIn, HttpRefused, HttpHandling, ExchangeStep
<1>2. ASSUME NEW keep \in BOOLEAN, HttpControls(keep) PROVE CancelOrOther \/ ClearQueue
  BY <1>2 DEF HttpControls
<1>3. CASE HttpAsks
  BY <1>3, <1>h DEF HttpAsks, Http!RequestSent, ExchangeStep
<1>4. CASE WsLetIn \/ WsRefused \/ WsAsks
  BY <1>4, <1>w DEF WsLetIn, WsRefused, WsAsks, WsHandling, ExchangeStep
<1>5. ASSUME NEW k \in 1..MaxHttp, PoolAnswersHttp(k)
      PROVE  UNCHANGED withdrawn /\ \E r \in Requests : ExchangeStep(r)
  <2>1. <<"http", k>> \in Requests
    BY DEF Requests
  <2> QED
    BY <1>5, <2>1 DEF PoolAnswersHttp, ExchangeStep
<1>6. ASSUME NEW m \in 1..MaxWs, PoolAnswersWs(m)
      PROVE  UNCHANGED withdrawn /\ \E r \in Requests : ExchangeStep(r)
  <2>1. <<"ws", m>> \in Requests
    BY DEF Requests
  <2> QED
    BY <1>6, <2>1 DEF PoolAnswersWs, ExchangeStep
<1>7. CASE \E r \in Requests : PoolClaims(r)
  BY <1>7 DEF PoolClaims, ExchangeStep
<1>8. CASE WsControls
  BY <1>8 DEF WsControls
<1>9. CASE HttpStrand \/ HttpOther \/ WsReads \/ WsSends
  BY <1>9 DEF HttpStrand, HttpOther, WsReads, WsSends
<1>10. CASE Over \/ UNCHANGED vars
  BY <1>10 DEF Over, vars
<1> QED
  BY <1>1, <1>2, <1>3, <1>4, <1>5, <1>6, <1>7, <1>8, <1>9, <1>10, <1>h
     DEF Next, PoolStep, HandlerStep

LEMMA ReceivedStep ==
  ASSUME wReceived \in 0..MaxWs, [Next]_vars
  PROVE  wReceived' \in 0..MaxWs
<1>0. MaxWs \in Nat
  BY EndToEndAssumption
<1>1. CASE WsLetIn \/ WsRefused \/ WsControls
  <2>1. wReceived < MaxWs /\ wReceived' = wReceived + 1
    BY <1>1 DEF WsLetIn, WsRefused, WsControls, Ws!OnRead, Ws!OnReadAnswered, Ws!OnMessage
  <2> QED
    BY <1>0, <2>1
<1>2. CASE UNCHANGED wVars
  BY <1>2 DEF wVars
<1>3. ASSUME NEW m \in 1..MaxWs, PoolAnswersWs(m) PROVE UNCHANGED wReceived
  BY <1>3 DEF PoolAnswersWs, Ws!WriteResponse
<1>4. CASE WsReads
  BY <1>4 DEF WsReads, Ws!OnReadError, Ws!OnAccept
<1>5. CASE WsSends
  BY <1>5 DEF WsSends, Ws!Enqueue, Ws!OnWrite, Ws!OnWriteError
<1>6. ASSUME NEW keep \in BOOLEAN, HttpLetIn(keep) \/ HttpRefused(keep) \/ HttpControls(keep)
      PROVE  UNCHANGED wVars
  BY <1>6 DEF HttpLetIn, HttpRefused, HttpControls
<1>7. ASSUME NEW k \in 1..MaxHttp, PoolAnswersHttp(k) PROVE UNCHANGED wVars
  BY <1>7 DEF PoolAnswersHttp
<1>8. CASE HttpAsks \/ WsAsks \/ HttpStrand \/ HttpOther \/ \E r \in Requests : PoolClaims(r)
  BY <1>2, <1>8 DEF HttpAsks, WsAsks, HttpStrand, HttpOther, PoolClaims
<1>9. CASE Over \/ UNCHANGED vars
  BY <1>2, <1>9 DEF Over, vars
<1> QED
  BY <1>1, <1>2, <1>3, <1>4, <1>5, <1>6, <1>7, <1>8, <1>9 DEF Next, PoolStep, HandlerStep

(* A request is asked, or gets an answer that is not "No jobs available". *)
LEMMA CountKept ==
  ASSUME CountInv, NEW r \in Requests, NEW to,
         phase' = [phase EXCEPT ![r] = to], phase[r] # "waiting", to # "waiting",
         to = "asked" => phase[r] \in {"new", "asked"},
         answers' = answers
         \/ \E kind, j : /\ kind # "nojobs"
                         /\ answers' = [answers EXCEPT ![r] = <<[kind |-> kind, job |-> j]>>],
         UNCHANGED <<jobs, withdrawn>>,
         wReceived' \in 0..MaxWs, to # "new"
  PROVE  CountInv'
<1>0. phase = [k \in Requests |-> phase[k]] /\ answers = [k \in Requests |-> answers[k]]
  BY DEF CountInv, NamesOK
<1>1. phase' = [k \in Requests |-> IF k = r THEN to ELSE phase[k]]
  BY <1>0
<1>2. Waiting' = Waiting
  BY <1>1 DEF Waiting
<1>3. LetIn \subseteq LetIn'
  BY <1>1 DEF LetIn
<1>4. TurnedAway' \subseteq TurnedAway /\ answers' = [k \in Requests |-> answers'[k]]
  <2>1. CASE answers' = answers
    BY <1>0, <2>1 DEF TurnedAway
  <2>2. ASSUME NEW kind, NEW j, kind # "nojobs",
               answers' = [answers EXCEPT ![r] = <<[kind |-> kind, job |-> j]>>]
        PROVE  TurnedAway' \subseteq TurnedAway /\ answers' = [k \in Requests |-> answers'[k]]
    <3>1. answers' = [k \in Requests |-> IF k = r THEN <<[kind |-> kind, job |-> j]>>
                                                  ELSE answers[k]]
      BY <1>0, <2>2
    <3>2. r \notin TurnedAway'
      <4>1. answers'[r] = <<[kind |-> kind, job |-> j]>>
        BY <3>1
      <4>2. \A i \in 1..Len(answers'[r]) : answers'[r][i].kind = kind
        BY <4>1
      <4> QED
        BY <2>2, <4>2 DEF TurnedAway
    <3>3. \A k \in Requests \ {r} : answers'[k] = answers[k]
      BY <3>1
    <3> QED
      BY <3>1, <3>2, <3>3 DEF TurnedAway
  <2> QED
    BY <2>1, <2>2
<1>5. Cardinality(TurnedAway') <= Cardinality(TurnedAway)
  BY <1>4, NoMore DEF TurnedAway
<1>6. NamesOK'
  BY <1>1, <1>4 DEF NamesOK
<1>7. JobsOK'
  BY <1>3 DEF CountInv, JobsOK
<1>8. CountOK'
  <2>1. Cardinality(Waiting) \in Nat /\ Cardinality(TurnedAway) \in Nat
        /\ Cardinality(TurnedAway') \in Nat
    BY SetsOfRequests DEF Waiting, TurnedAway
  <2>2. Cardinality(jobs) \in Nat /\ Cardinality(withdrawn) \in Nat
    BY SetsOfRequests DEF CountInv, JobsOK, LetIn
  <2> QED
    BY <1>2, <1>5, <2>1, <2>2 DEF CountInv, CountOK
<1> QED
  BY <1>6, <1>7, <1>8 DEF CountInv

LEMMA DepositCounts ==
  ASSUME CountInv, NEW r \in Requests, Exchange!Deposit(r), UNCHANGED withdrawn,
         wReceived' \in 0..MaxWs
  PROVE  CountInv'
<1>0. phase = [k \in Requests |-> phase[k]] /\ answers = [k \in Requests |-> answers[k]]
  BY DEF CountInv, NamesOK
<1>1. phase[r] = "asked" /\ phase' = [phase EXCEPT ![r] = "waiting"]
      /\ jobs' = jobs \cup {r} /\ answers' = answers
  BY DEF Exchange!Deposit, Exchange!Goes
<1>2. phase' = [k \in Requests |-> IF k = r THEN "waiting" ELSE phase[k]]
  BY <1>0, <1>1
<1>3. jobs \subseteq Requests /\ withdrawn \subseteq Requests /\ r \notin jobs /\ r \notin withdrawn
  BY <1>1 DEF CountInv, JobsOK, LetIn
<1>4. r \notin Waiting /\ Waiting' = Waiting \cup {r} /\ Waiting \subseteq Requests
  BY <1>1, <1>2 DEF Waiting
<1>5. TurnedAway' = TurnedAway
  BY <1>1 DEF TurnedAway
<1>6. LetIn' = LetIn \cup {r}
  BY <1>2 DEF LetIn
<1>7. NamesOK'
  BY <1>0, <1>1, <1>2 DEF NamesOK
<1>8. JobsOK'
  BY <1>1, <1>3, <1>6 DEF CountInv, JobsOK
<1>9. CountOK'
  <2>1. Cardinality(Waiting) \in Nat /\ Cardinality(TurnedAway) \in Nat
        /\ Cardinality(jobs) \in Nat /\ Cardinality(withdrawn) \in Nat
    BY <1>3, SetsOfRequests DEF Waiting, TurnedAway
  <2>2. Cardinality(Waiting') = Cardinality(Waiting) + 1
    BY <1>4, OneMore
  <2>3. Cardinality(jobs') = Cardinality(jobs) + 1
    BY <1>1, <1>3, OneMore
  <2> QED
    BY <1>5, <2>1, <2>2, <2>3 DEF CountInv, CountOK
<1> QED
  BY <1>7, <1>8, <1>9 DEF CountInv

LEMMA ClaimCounts ==
  ASSUME CountInv, NEW r \in Requests, NEW j \in jobs, Exchange!Claim(r, j), UNCHANGED withdrawn,
         wReceived' \in 0..MaxWs
  PROVE  CountInv'
<1>0. phase = [k \in Requests |-> phase[k]] /\ answers = [k \in Requests |-> answers[k]]
  BY DEF CountInv, NamesOK
<1>1. phase[r] = "waiting" /\ phase' = [phase EXCEPT ![r] = "working"]
      /\ jobs' = jobs \ {j} /\ answers' = answers
  BY DEF Exchange!Claim, Exchange!Goes
<1>2. phase' = [k \in Requests |-> IF k = r THEN "working" ELSE phase[k]]
  BY <1>0, <1>1
<1>3. jobs \subseteq Requests /\ withdrawn \subseteq Requests
  BY DEF CountInv, JobsOK, LetIn
<1>4. r \in Waiting /\ Waiting' = Waiting \ {r} /\ Waiting \subseteq Requests
  BY <1>1, <1>2 DEF Waiting
<1>5. TurnedAway' = TurnedAway
  BY <1>1 DEF TurnedAway
<1>6. LetIn' = LetIn
  BY <1>1, <1>2 DEF LetIn
<1>7. NamesOK'
  BY <1>0, <1>1, <1>2 DEF NamesOK
<1>8. JobsOK'
  BY <1>1, <1>6 DEF CountInv, JobsOK
<1>9. CountOK'
  <2>1. Cardinality(Waiting) \in Nat /\ Cardinality(TurnedAway) \in Nat
        /\ Cardinality(jobs) \in Nat /\ Cardinality(withdrawn) \in Nat
    BY <1>3, SetsOfRequests DEF Waiting, TurnedAway
  <2>2. Cardinality(Waiting') = Cardinality(Waiting) - 1
    BY <1>4, OneLess
  <2>3. Cardinality(jobs') = Cardinality(jobs) - 1
    BY <1>1, <1>3, OneLess
  <2> QED
    BY <1>5, <2>1, <2>2, <2>3 DEF CountInv, CountOK
<1> QED
  BY <1>7, <1>8, <1>9 DEF CountInv

LEMMA TurnAwayCounts ==
  ASSUME CountInv, NEW r \in Requests, Exchange!TurnAway(r), UNCHANGED withdrawn,
         wReceived' \in 0..MaxWs
  PROVE  CountInv'
<1>0. phase = [k \in Requests |-> phase[k]] /\ answers = [k \in Requests |-> answers[k]]
  BY DEF CountInv, NamesOK
<1>1. phase[r] = "waiting" /\ phase' = [phase EXCEPT ![r] = "answered"]
      /\ jobs = {} /\ jobs' = jobs
      /\ answers' = [answers EXCEPT ![r] = <<[kind |-> "nojobs", job |-> None]>>]
  BY DEF Exchange!TurnAway, Exchange!Answered, Exchange!Goes
<1>2. phase' = [k \in Requests |-> IF k = r THEN "answered" ELSE phase[k]]
  BY <1>0, <1>1
<1>a. answers' = [k \in Requests |-> IF k = r THEN <<[kind |-> "nojobs", job |-> None]>>
                                              ELSE answers[k]]
  BY <1>0, <1>1
<1>3. jobs \subseteq Requests /\ withdrawn \subseteq Requests
  BY DEF CountInv, JobsOK, LetIn
<1>4. r \in Waiting /\ Waiting' = Waiting \ {r} /\ Waiting \subseteq Requests
  BY <1>1, <1>2 DEF Waiting
<1>5. TurnedAway' \subseteq TurnedAway \cup {r} /\ TurnedAway \subseteq Requests
  <2>1. \A k \in Requests \ {r} : answers'[k] = answers[k]
    BY <1>a
  <2> QED
    BY <2>1 DEF TurnedAway
<1>6. LetIn' = LetIn
  BY <1>1, <1>2 DEF LetIn
<1>7. NamesOK'
  BY <1>2, <1>a DEF NamesOK
<1>8. JobsOK'
  BY <1>1, <1>6 DEF CountInv, JobsOK
<1>9. CountOK'
  <2>1. Cardinality(Waiting) \in Nat /\ Cardinality(TurnedAway) \in Nat
        /\ Cardinality(jobs) \in Nat /\ Cardinality(withdrawn) \in Nat
        /\ Cardinality(TurnedAway') \in Nat /\ Cardinality(Waiting') \in Nat
    <3>1. Waiting' \subseteq Requests /\ TurnedAway' \subseteq Requests
      BY <1>4, <1>5
    <3> QED
      BY <1>3, <3>1, SetsOfRequests DEF Waiting, TurnedAway
  <2>2. Cardinality(Waiting') = Cardinality(Waiting) - 1
    BY <1>4, OneLess
  <2>3. Cardinality(TurnedAway') <= Cardinality(TurnedAway) + 1
    BY <1>5, AtMostOneMore
  <2>4. Cardinality(jobs) = 0
    BY <1>1, FS_EmptySet
  <2> QED
    BY <1>1, <2>1, <2>2, <2>3, <2>4 DEF CountInv, CountOK
<1> QED
  BY <1>7, <1>8, <1>9 DEF CountInv

LEMMA ControlCounts ==
  ASSUME CountInv, CancelOrOther \/ ClearQueue, wReceived' \in 0..MaxWs
  PROVE  CountInv'
<1>1. jobs' \subseteq jobs /\ UNCHANGED <<phase, answers>>
      /\ withdrawn' = withdrawn \cup (jobs \ jobs')
  BY DEF CancelOrOther, ClearQueue, Exchange!WithdrawHash, Exchange!WithdrawAll, Exchange!Withdraw, xVars
<1>2. Waiting' = Waiting /\ LetIn' = LetIn /\ TurnedAway' = TurnedAway
  BY <1>1 DEF Waiting, LetIn, TurnedAway
<1>3. jobs \subseteq Requests /\ withdrawn \subseteq Requests /\ jobs \cap withdrawn = {}
  BY DEF CountInv, JobsOK, LetIn
<1>4. NamesOK'
  BY <1>1 DEF CountInv, NamesOK
<1>5. JobsOK'
  BY <1>1, <1>2 DEF CountInv, JobsOK
<1>6. CountOK'
  <2>1. Cardinality(Waiting) \in Nat /\ Cardinality(TurnedAway) \in Nat
        /\ Cardinality(jobs) \in Nat /\ Cardinality(withdrawn) \in Nat
        /\ Cardinality(jobs') \in Nat /\ Cardinality(withdrawn') \in Nat
    <3>1. jobs' \subseteq Requests /\ withdrawn' \subseteq Requests
      BY <1>1, <1>3
    <3> QED
      BY <1>3, <3>1, SetsOfRequests DEF Waiting, TurnedAway
  <2>2. Cardinality(jobs') <= Cardinality(jobs)
    BY <1>1, <1>3, NoMore
  <2>3. Cardinality(jobs') + Cardinality(withdrawn') = Cardinality(jobs) + Cardinality(withdrawn)
    <3>1. IsFiniteSet(jobs) /\ IsFiniteSet(withdrawn)
      BY <1>3, SetsOfRequests
    <3>2. PICK G : G = jobs \ jobs'
      OBVIOUS
    <3>3. IsFiniteSet(G) /\ Cardinality(G) = Cardinality(jobs) - Cardinality(jobs \cap jobs')
      BY <3>1, <3>2, FS_Difference
    <3>4. jobs \cap jobs' = jobs' /\ withdrawn \cap G = {}
      BY <1>1, <1>3, <3>2
    <3>5. Cardinality(withdrawn \cup G)
            = Cardinality(withdrawn) + Cardinality(G) - Cardinality(withdrawn \cap G)
      BY <3>1, <3>3, FS_Union
    <3>6. Cardinality(withdrawn \cap G) = 0
      BY <3>4, FS_EmptySet
    <3>7. Cardinality(G) \in Nat
      BY <3>3, FS_CardinalityType
    <3>8. Cardinality(G) = Cardinality(jobs) - Cardinality(jobs')
      BY <3>3, <3>4
    <3>9. Cardinality(withdrawn')
            = Cardinality(withdrawn) + Cardinality(G) - Cardinality(withdrawn \cap G)
      BY <1>1, <3>2, <3>5
    <3> QED
      BY <2>1, <3>6, <3>7, <3>8, <3>9
  <2> QED
    BY <1>2, <2>1, <2>2, <2>3 DEF CountInv, CountOK
<1> QED
  BY <1>4, <1>5, <1>6 DEF CountInv

LEMMA CountStep == Session!PolledInv /\ CountInv /\ [Next]_vars => CountInv'
<1> SUFFICES ASSUME Session!PolledInv, CountInv, [Next]_vars PROVE CountInv'
  OBVIOUS
<1>0. wReceived \in 0..MaxWs
  BY DEF CountInv, NamesOK
<1>r. wReceived' \in 0..MaxWs
  BY <1>0, ReceivedStep
<1>1. ASSUME NEW r \in Requests, UNCHANGED withdrawn, ExchangeStep(r) PROVE CountInv'
  <2>1. CASE Exchange!Ask(r)
    <3>1. phase[r] = "new" /\ phase' = [phase EXCEPT ![r] = "asked"]
          /\ UNCHANGED <<jobs, answers>>
      BY <2>1 DEF Exchange!Ask, Exchange!Goes
    <3> QED
      BY <1>1, <1>r, <3>1, CountKept
  <2>2. CASE Exchange!Deposit(r)
    BY <1>1, <1>r, <2>2, DepositCounts
  <2>3. CASE Exchange!Refuse(r) \/ Exchange!Deliver(r) \/ Exchange!Abandon(r)
    <3>1. phase[r] \in {"asked", "working"} /\ phase' = [phase EXCEPT ![r] = "answered"]
          /\ jobs' = jobs
          /\ \E kind, j : /\ kind # "nojobs"
                          /\ answers' = [answers EXCEPT ![r] = <<[kind |-> kind, job |-> j]>>]
      BY <2>3 DEF Exchange!Refuse, Exchange!Deliver, Exchange!Abandon, Exchange!Answered,
                  Exchange!Goes
    <3> QED
      BY <1>1, <1>r, <3>1, CountKept
  <2>4. ASSUME NEW j \in jobs, Exchange!Claim(r, j) PROVE CountInv'
    BY <1>1, <1>r, <2>4, ClaimCounts
  <2>5. CASE Exchange!TurnAway(r)
    BY <1>1, <1>r, <2>5, TurnAwayCounts
  <2> QED
    BY <1>1, <2>1, <2>2, <2>3, <2>4, <2>5 DEF ExchangeStep, PoolAnswers
<1>2. CASE CancelOrOther \/ ClearQueue
  BY <1>2, <1>r, ControlCounts
<1>3. CASE UNCHANGED <<xVars, withdrawn>>
  <2>1. UNCHANGED <<phase, jobs, answers, withdrawn>>
    BY <1>3 DEF xVars
  <2> QED
    BY <1>r, <2>1 DEF CountInv, NamesOK, JobsOK, CountOK, Waiting, LetIn, TurnedAway
<1> QED
  BY <1>0, <1>1, <1>2, <1>3, ExchangeSteps

LEMMA CountInit == Init => CountInv
<1> SUFFICES ASSUME Init PROVE CountInv
  OBVIOUS
<1>1. phase = [r \in Requests |-> "new"] /\ answers = [r \in Requests |-> <<>>]
      /\ jobs = {} /\ withdrawn = {} /\ wReceived = 0
  BY DEF Init, Exchange!Init, Ws!Init
<1>2. NamesOK
  BY <1>1, EndToEndAssumption DEF NamesOK
<1>3. JobsOK
  BY <1>1 DEF JobsOK
<1>4. Waiting = {} /\ TurnedAway = {}
  <2>1. \A r \in Requests : answers[r] = <<>> /\ Len(answers[r]) = 0
    BY <1>1
  <2> QED
    BY <1>1, <2>1 DEF Waiting, TurnedAway
<1>5. Cardinality({}) = 0
  BY FS_EmptySet
<1>6. CountOK
  BY <1>1, <1>4, <1>5 DEF CountOK
<1> QED
  BY <1>2, <1>3, <1>6 DEF CountInv

(* The requests answered "No jobs available" never outnumber the jobs that *)
(* work_cancel and DELETE took away (TurnedAwayOnlyForWithdrawn), however  *)
(* many requests two clients send and whoever's job a request took.        *)
THEOREM TurnedAwayForWithdrawn == Spec => []TurnedAwayOnlyForWithdrawn
<1>1. CountInv => TurnedAwayOnlyForWithdrawn
  <2> SUFFICES ASSUME CountInv PROVE Cardinality(TurnedAway) <= Cardinality(withdrawn)
    BY DEF TurnedAwayOnlyForWithdrawn, TurnedAway
  <2>1. Cardinality(Waiting) \in Nat /\ Cardinality(TurnedAway) \in Nat
        /\ Cardinality(jobs) \in Nat /\ Cardinality(withdrawn) \in Nat
    BY SetsOfRequests DEF CountInv, JobsOK, LetIn, Waiting, TurnedAway
  <2> QED
    BY <2>1 DEF CountInv, CountOK
<1> QED
  BY <1>1, CountInit, CountStep, PolledAlways, PTL DEF Spec
=============================================================================
