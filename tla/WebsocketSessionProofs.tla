----------------------- MODULE WebsocketSessionProofs -----------------------
(***************************************************************************)
(* Machine-checked proofs about WebsocketSession, for any number of        *)
(* messages: types, one write at a time, the order on the wire, and when   *)
(* the timer closes a connection.                                          *)
(***************************************************************************)
EXTENDS WebsocketSession, SequenceTheorems, TLAPS

TimerTypeOK ==
    /\ waiting \in BOOLEAN /\ expired \in BOOLEAN
    /\ pingState \in 0..2 /\ pinging \in BOOLEAN /\ quiet \in 0..2

SendTypeOK ==
    /\ posted \in Seq(Msgs) /\ queue \in Seq(Msgs) /\ writes \in Seq(Msgs)
    /\ wire \in Seq(Msgs) /\ order \in Seq(Msgs)

ReadTypeOK ==
    /\ socket \in {"handshake", "open", "gone", "closed"}
    /\ reading \in BOOLEAN /\ failed \in BOOLEAN
    /\ received \in 0..MaxMessages
    /\ pending \subseteq 1..received

LEMMA TypeParts == TypeOK <=> TimerTypeOK /\ SendTypeOK /\ ReadTypeOK
  BY DEF TypeOK, TimerTypeOK, SendTypeOK, ReadTypeOK

LEMMA TypeInit == Init => TypeOK
<1> SUFFICES ASSUME Init PROVE TimerTypeOK /\ SendTypeOK /\ ReadTypeOK
  BY TypeParts
<1>1. TimerTypeOK
  <2>1. pingState \in 0..2 /\ quiet \in 0..2
    BY SMT DEF Init
  <2> QED
    BY <2>1, Zenon DEF Init, TimerTypeOK
<1>2. SendTypeOK
  BY DEF Init, SendTypeOK
<1>3. ReadTypeOK
  <2>1. received \in 0..MaxMessages /\ pending \subseteq 1..received
    BY MessagesAssumption, SMT DEF Init
  <2> QED
    BY <2>1, Zenon DEF Init, ReadTypeOK
<1> QED
  BY <1>1, <1>2, <1>3

(* The tail of a sequence, the empty one included. *)
LEMMA TailType ==
  ASSUME NEW s \in Seq(Msgs), s # <<>>
  PROVE  Head(s) \in Msgs /\ Tail(s) \in Seq(Msgs) /\ Len(Tail(s)) = Len(s) - 1
  BY HeadTailProperties

(* One write at a time, and none that the queue does not know of. *)
WriteInv == OneWrite /\ (queue = <<>> => writes = <<>>)

LEMMA TypeStep == TypeOK /\ WriteInv /\ [Next]_vars => TypeOK'
<1> SUFFICES ASSUME TypeOK, WriteInv, [Next]_vars PROVE TypeOK'
  OBVIOUS
<1> USE MessagesAssumption
<1>0. TimerTypeOK /\ SendTypeOK /\ ReadTypeOK
  BY TypeParts
<1>a. UNCHANGED timerVars => TimerTypeOK'
  BY <1>0 DEF timerVars, TimerTypeOK
<1>b. UNCHANGED sendVars => SendTypeOK'
  BY <1>0 DEF sendVars, SendTypeOK
<1>c. UNCHANGED <<socket, reading, failed, received, pending>> => ReadTypeOK'
  BY <1>0 DEF ReadTypeOK
<1> USE DEF timerVars, sendVars
<1>1. ASSUME NEW ok \in BOOLEAN, OnAccept(ok) PROVE TypeOK'
  <2>1. ReadTypeOK'
    BY <1>0, <1>1 DEF OnAccept, ReadTypeOK
  <2> QED
    BY <1>1, <1>a, <1>b, <2>1, TypeParts DEF OnAccept, TypeOK, TimerTypeOK, SendTypeOK, ReadTypeOK
<1>2. ASSUME PeerActivity PROVE TypeOK'
  <2>0. Activity
    BY <1>2 DEF PeerActivity, OnControl, OnRead, OnReadAnswered, OnMessage
  <2>1. TimerTypeOK'
    <3>1. pingState' \in 0..2 /\ quiet' \in 0..2
      BY <2>0, SMT DEF Activity
    <3> QED
      BY <1>0, <2>0, <3>1, Zenon DEF Activity, TimerTypeOK
  <2>2. ReadTypeOK'
    <3>1. CASE OnControl
      BY <1>0, <3>1 DEF OnControl, ReadTypeOK
    <3>2. CASE OnRead
      <4>1. received' = received + 1 /\ received < MaxMessages
            /\ pending' = pending \cup {received'} /\ UNCHANGED <<socket, reading, failed>>
        BY <3>2 DEF OnRead, OnMessage
      <4> QED
        BY <1>0, <4>1 DEF ReadTypeOK
    <3>3. CASE OnReadAnswered
      <4>1. received' = received + 1 /\ received < MaxMessages
            /\ pending' = pending /\ UNCHANGED <<socket, reading, failed>>
        BY <3>3 DEF OnReadAnswered, OnMessage
      <4> QED
        BY <1>0, <4>1 DEF ReadTypeOK
    <3> QED
      BY <1>2, <3>1, <3>2, <3>3 DEF PeerActivity
  <2>3. SendTypeOK'
    <3>1. CASE OnReadAnswered
      <4>1. received' \in Msgs
        BY <1>0, <3>1 DEF OnReadAnswered, OnMessage, Msgs, ReadTypeOK
      <4> QED
        BY <1>0, <3>1, <4>1 DEF OnReadAnswered, SendTypeOK
    <3>2. CASE OnControl \/ OnRead
      BY <1>b, <3>2 DEF OnControl, OnRead
    <3> QED
      BY <1>2, <3>1, <3>2 DEF PeerActivity
  <2> QED
    BY <2>1, <2>2, <2>3 DEF TypeOK, TimerTypeOK, SendTypeOK, ReadTypeOK
<1>3. CASE OnReadError \/ OnPingError
  <2>1. ReadTypeOK'
    BY <1>0, <1>3 DEF OnReadError, OnPingError, Fail, ReadTypeOK
  <2>2. TimerTypeOK'
    BY <1>0, <1>3 DEF OnReadError, OnPingError, TimerTypeOK
  <2>3. SendTypeOK'
    BY <1>0, <1>3 DEF OnReadError, OnPingError, SendTypeOK
  <2> QED
    BY <2>1, <2>2, <2>3 DEF TypeOK, TimerTypeOK, SendTypeOK, ReadTypeOK
<1>4. ASSUME NEW m \in Msgs, WriteResponse(m) PROVE TypeOK'
  <2>1. ReadTypeOK' /\ TimerTypeOK'
    BY <1>0, <1>4 DEF WriteResponse, ReadTypeOK, TimerTypeOK
  <2>2. SendTypeOK'
    BY <1>0, <1>4 DEF WriteResponse, SendTypeOK
  <2> QED
    BY <2>1, <2>2 DEF TypeOK, TimerTypeOK, SendTypeOK, ReadTypeOK
<1>5. CASE Enqueue
  <2>1. ReadTypeOK' /\ TimerTypeOK'
    BY <1>0, <1>5 DEF Enqueue, ReadTypeOK, TimerTypeOK
  <2>0. posted \in Seq(Msgs) /\ posted # <<>> /\ queue \in Seq(Msgs)
        /\ writes \in Seq(Msgs)
    BY <1>0, <1>5 DEF Enqueue, SendTypeOK
  <2>a. Head(posted) \in Msgs /\ Tail(posted) \in Seq(Msgs)
    BY <2>0, TailType
  <2>b. posted' = Tail(posted) /\ queue' = Append(queue, Head(posted))
    BY <1>5 DEF Enqueue
  <2>2. Head(posted) \in Msgs /\ posted' \in Seq(Msgs) /\ queue' \in Seq(Msgs)
        /\ queue' # <<>>
    BY <2>0, <2>a, <2>b, AppendProperties
  <2>3. Head(queue') \in Msgs
    BY <2>2, TailType
  <2>4. writes' \in Seq(Msgs)
    <3>1. writes' = writes \/ writes' = Append(writes, Head(queue'))
      BY <1>5 DEF Enqueue, WriteQueued, Front
    <3> QED
      BY <2>0, <2>3, <3>1, AppendProperties
  <2>5. SendTypeOK'
    BY <1>0, <1>5, <2>2, <2>4 DEF Enqueue, SendTypeOK
  <2> QED
    BY <2>1, <2>5 DEF TypeOK, TimerTypeOK, SendTypeOK, ReadTypeOK
<1>6. CASE OnWrite
  <2>1. ReadTypeOK' /\ TimerTypeOK'
    BY <1>0, <1>6 DEF OnWrite, ReadTypeOK, TimerTypeOK
  <2>2. queue \in Seq(Msgs) /\ writes \in Seq(Msgs) /\ queue # <<>> /\ writes # <<>>
    BY <1>0, <1>6 DEF OnWrite, SendTypeOK, WriteInv
  <2>a. queue' = Tail(queue)
    BY <1>6 DEF OnWrite
  <2>3. queue' \in Seq(Msgs) /\ Tail(writes) \in Seq(Msgs) /\ Head(writes) \in Msgs
    BY <2>a, <2>2, TailType
  <2>4. queue' # <<>> => Head(queue') \in Msgs
    BY <2>3, TailType
  <2>5. writes' \in Seq(Msgs)
    <3>1. \/ writes' = Tail(writes)
          \/ queue' # <<>> /\ writes' = Append(Tail(writes), Head(queue'))
      BY <1>6 DEF OnWrite, WriteMore, WriteQueued, Front
    <3>2. CASE writes' = Tail(writes)
      BY <2>3, <3>2
    <3>3. CASE queue' # <<>> /\ writes' = Append(Tail(writes), Head(queue'))
      BY <2>3, <2>4, <3>3, AppendProperties
    <3> QED
      BY <3>1, <3>2, <3>3
  <2>6. SendTypeOK'
    BY <1>0, <1>6, <2>3, <2>5 DEF OnWrite, SendTypeOK
  <2> QED
    BY <2>1, <2>6 DEF TypeOK, TimerTypeOK, SendTypeOK, ReadTypeOK
<1>7. CASE OnWriteError
  <2>1. ReadTypeOK' /\ TimerTypeOK'
    BY <1>0, <1>7 DEF OnWriteError, Fail, ReadTypeOK, TimerTypeOK
  <2>2. queue \in Seq(Msgs) /\ writes \in Seq(Msgs) /\ queue # <<>> /\ writes # <<>>
    BY <1>0, <1>7 DEF OnWriteError, SendTypeOK, WriteInv
  <2>3. queue' \in Seq(Msgs) /\ writes' \in Seq(Msgs)
    BY <1>7, <2>2, TailType DEF OnWriteError
  <2>4. SendTypeOK'
    BY <1>0, <1>7, <2>3 DEF OnWriteError, SendTypeOK
  <2> QED
    BY <2>1, <2>4 DEF TypeOK, TimerTypeOK, SendTypeOK, ReadTypeOK
<1>8. CASE Deadline \/ OnTimerPing \/ OnTimerClose \/ OnPing
  <2>1. ReadTypeOK'
    BY <1>0, <1>8 DEF Deadline, OnTimerPing, OnTimerClose, OnPing, ReadTypeOK
  <2>2. TimerTypeOK'
    <3>1. CASE Deadline
      <4>1. quiet' \in 0..2
        BY <1>0, <3>1 DEF Deadline, TimerTypeOK
      <4> QED
        BY <1>0, <3>1, <4>1 DEF Deadline, TimerTypeOK
    <3>2. CASE OnTimerPing
      <4>1. pingState' \in 0..2
        BY <3>2 DEF OnTimerPing
      <4> QED
        BY <1>0, <3>2, <4>1 DEF OnTimerPing, WaitAgain, TimerTypeOK
    <3>3. CASE OnTimerClose
      BY <1>0, <3>3 DEF OnTimerClose, TimerTypeOK
    <3>4. CASE OnPing
      <4>1. pingState' \in 0..2
        BY <1>0, <3>4 DEF OnPing, PingSent, TimerTypeOK
      <4> QED
        BY <1>0, <3>4, <4>1 DEF OnPing, TimerTypeOK
    <3> QED
      BY <1>8, <3>1, <3>2, <3>3, <3>4
  <2>3. SendTypeOK'
    BY <1>0, <1>8 DEF Deadline, OnTimerPing, OnTimerClose, OnPing, SendTypeOK
  <2> QED
    BY <2>1, <2>2, <2>3 DEF TypeOK, TimerTypeOK, SendTypeOK, ReadTypeOK
<1>9. CASE Destroyed \/ UNCHANGED vars
  <2>1. UNCHANGED vars
    BY <1>9 DEF Destroyed
  <2>2. ReadTypeOK' /\ TimerTypeOK' /\ SendTypeOK'
    BY <1>a, <1>b, <1>c, <2>1 DEF vars
  <2> QED
    BY <2>2 DEF TypeOK, TimerTypeOK, SendTypeOK, ReadTypeOK
<1> QED
  BY <1>1, <1>2, <1>3, <1>4, <1>5, <1>6, <1>7, <1>8, <1>9 DEF Next, PeerActivity

-----------------------------------------------------------------------------
(* The send queue. *)

LEMMA TailOfOne ==
  ASSUME NEW s \in Seq(Msgs), s # <<>>, Len(s) <= 1
  PROVE  Tail(s) = <<>>
  BY TailType, EmptySeq

(* The steps that leave the send queue alone. *)
SendStutters == UNCHANGED <<posted, queue, writes, wire, order>>

LEMMA NextMessage ==
  ASSUME TypeOK, OnMessage
  PROVE  received' \in Msgs
<1>1. received \in 0..MaxMessages /\ received < MaxMessages /\ received' = received + 1
  BY DEF OnMessage, TypeOK
<1> QED
  BY <1>1, MessagesAssumption DEF Msgs

LEMMA WhoSends ==
  ASSUME [Next]_vars
  PROVE  \/ OnReadAnswered \/ (\E m \in Msgs : WriteResponse(m))
         \/ Enqueue \/ OnWrite \/ OnWriteError \/ SendStutters
<1> USE DEF sendVars, SendStutters
<1>1. CASE \E ok \in BOOLEAN : OnAccept(ok)
  BY <1>1 DEF OnAccept
<1>2. CASE OnControl \/ OnRead \/ OnReadError \/ OnPingError
  BY <1>2 DEF OnControl, OnRead, OnReadError, OnPingError
<1>3. CASE Deadline \/ OnTimerPing \/ OnTimerClose \/ OnPing
  BY <1>3 DEF Deadline, OnTimerPing, OnTimerClose, OnPing
<1>4. CASE Destroyed \/ UNCHANGED vars
  BY <1>4 DEF Destroyed, vars
<1> QED
  BY <1>1, <1>2, <1>3, <1>4 DEF Next

LEMMA WriteStep == TypeOK /\ WriteInv /\ [Next]_vars => WriteInv'
<1> SUFFICES ASSUME TypeOK, WriteInv, [Next]_vars PROVE WriteInv'
  OBVIOUS
<1>0. queue \in Seq(Msgs) /\ writes \in Seq(Msgs) /\ posted \in Seq(Msgs)
  BY DEF TypeOK
<1>t. queue' \in Seq(Msgs) /\ writes' \in Seq(Msgs)
  BY TypeStep DEF TypeOK
<1>1. CASE SendStutters
  BY <1>1 DEF SendStutters, WriteInv, OneWrite
<1>2. CASE OnReadAnswered \/ \E m \in Msgs : WriteResponse(m)
  BY <1>2 DEF OnReadAnswered, WriteResponse, WriteInv, OneWrite
<1>3. CASE Enqueue
  <2>1. queue' # <<>>
    BY <1>0, <1>3, TailType, AppendProperties DEF Enqueue
  <2>2. OneWrite'
    <3>1. CASE queue = <<>>
      <4>1. writes = <<>>
        BY <3>1 DEF WriteInv
      <4>2. writes' = Append(<<>>, Head(queue'))
        BY <1>3, <3>1, <4>1 DEF Enqueue, WriteInProgress, WriteQueued, Front
      <4>3. Len(writes') = 1
        BY <4>2
      <4> QED
        BY <4>3 DEF OneWrite
    <3>2. CASE queue # <<>>
      BY <1>3, <3>2 DEF Enqueue, WriteInProgress, WriteInv, OneWrite
    <3> QED
      BY <3>1, <3>2
  <2> QED
    BY <2>1, <2>2 DEF WriteInv
<1>4. CASE OnWrite
  <2>1. Tail(writes) = <<>>
    BY <1>0, <1>4, TailOfOne DEF OnWrite, WriteInv, OneWrite
  <2>2. CASE queue' = <<>>
    <3>1. writes' = <<>>
      BY <1>4, <2>1, <2>2 DEF OnWrite, WriteMore
    <3>2. Len(writes') = 0
      BY <3>1
    <3> QED
      BY <3>1, <3>2 DEF WriteInv, OneWrite
  <2>3. CASE queue' # <<>>
    <3>1. writes' = Append(<<>>, Head(queue'))
      BY <1>4, <2>1, <2>3 DEF OnWrite, WriteMore, WriteQueued, Front
    <3>2. Len(writes') = 1
      BY <3>1
    <3> QED
      BY <3>2, <2>3 DEF WriteInv, OneWrite
  <2> QED
    BY <2>2, <2>3
<1>5. CASE OnWriteError
  <2>1. writes' = <<>>
    BY <1>0, <1>5, TailOfOne DEF OnWriteError, WriteInv, OneWrite
  <2>2. Len(writes') = 0
    BY <2>1
  <2> QED
    BY <2>1, <2>2 DEF WriteInv, OneWrite
<1> QED
  BY <1>1, <1>2, <1>3, <1>4, <1>5, WhoSends

-----------------------------------------------------------------------------
(* Before the handshake is over nothing is read, answered or sent. *)
HandshakeInv ==
    socket = "handshake" =>
        /\ posted = <<>> /\ queue = <<>> /\ wire = <<>> /\ order = <<>>
        /\ pending = {} /\ ~reading

(* While the stream is open, what was posted is what the peer has, then    *)
(* what the queue holds, then what waits for the strand; and the write     *)
(* under way is of the front of the queue.                                 *)
OpenInv ==
    socket = "open" =>
        /\ order = (wire \o queue) \o posted
        /\ queue # <<>> => writes = <<Head(queue)>>

SendInv == TypeOK /\ WriteInv /\ HandshakeInv /\ OpenInv /\ WireOrder

(* The stream opens when the handshake succeeds and never again. *)
LEMMA OpenOnce ==
  ASSUME [Next]_vars
  PROVE  /\ socket' = "handshake" => socket = "handshake"
         /\ socket' = "open" => socket = "open" \/ (socket = "handshake" /\ SendStutters)
<1> USE DEF SendStutters, sendVars
<1>1. CASE \E ok \in BOOLEAN : OnAccept(ok)
  BY <1>1 DEF OnAccept
<1>2. CASE OnControl \/ OnRead \/ OnReadAnswered
  BY <1>2 DEF OnControl, OnRead, OnReadAnswered, OnMessage
<1>3. CASE OnReadError \/ OnPingError \/ OnWriteError
  BY <1>3 DEF OnReadError, OnPingError, OnWriteError, Fail
<1>4. CASE \E m \in Msgs : WriteResponse(m)
  BY <1>4 DEF WriteResponse
<1>5. CASE Enqueue \/ OnWrite
  BY <1>5 DEF Enqueue, OnWrite
<1>6. CASE Deadline \/ OnTimerPing \/ OnTimerClose \/ OnPing
  BY <1>6 DEF Deadline, OnTimerPing, OnTimerClose, OnPing
<1>7. CASE Destroyed \/ UNCHANGED vars
  BY <1>7 DEF Destroyed, vars
<1> QED
  BY <1>1, <1>2, <1>3, <1>4, <1>5, <1>6, <1>7 DEF Next

LEMMA HandshakeStep == SendInv /\ [Next]_vars => HandshakeInv'
<1> SUFFICES ASSUME SendInv, [Next]_vars, socket' = "handshake"
             PROVE  (/\ posted = <<>> /\ queue = <<>> /\ wire = <<>> /\ order = <<>>
                     /\ pending = {} /\ ~reading)'
  BY DEF HandshakeInv
<1>1. socket = "handshake"
  BY OpenOnce
<1>2. posted = <<>> /\ queue = <<>> /\ wire = <<>> /\ order = <<>> /\ pending = {}
      /\ ~reading /\ writes = <<>>
  BY <1>1 DEF SendInv, HandshakeInv, WriteInv
<1>3. CASE \E ok \in BOOLEAN : OnAccept(ok)
  BY <1>3 DEF OnAccept
<1>4. CASE Deadline \/ OnTimerPing \/ OnTimerClose \/ OnPing \/ OnPingError
  BY <1>1, <1>2, <1>4 DEF Deadline, OnTimerPing, OnTimerClose, OnPing, OnPingError, sendVars
<1>5. CASE Destroyed \/ UNCHANGED vars
  BY <1>2, <1>5 DEF Destroyed, vars
<1>6. ~(OnControl \/ OnRead \/ OnReadAnswered \/ OnReadError)
  BY <1>2 DEF OnControl, OnRead, OnReadAnswered, OnMessage, OnReadError
<1>7. ~(Enqueue \/ OnWrite \/ OnWriteError \/ \E m \in Msgs : WriteResponse(m))
  BY <1>2 DEF Enqueue, OnWrite, OnWriteError, WriteResponse
<1> QED
  BY <1>3, <1>4, <1>5, <1>6, <1>7 DEF Next

-----------------------------------------------------------------------------
(* Three sequences in a row: a message appended to the last, or moved from *)
(* the front of one to the end of the one before it.                       *)

LEMMA Assoc ==
  ASSUME NEW s \in Seq(Msgs), NEW t \in Seq(Msgs), NEW u \in Seq(Msgs)
  PROVE  (s \o t) \o u = s \o (t \o u)
<1>1. \A S : \A x, y, z \in Seq(S) : (x \o y) \o z = x \o (y \o z)
  BY ConcatAssociative
<1> QED
  BY <1>1

LEMMA AppendToLast ==
  ASSUME NEW w \in Seq(Msgs), NEW q \in Seq(Msgs), NEW p \in Seq(Msgs), NEW m \in Msgs
  PROVE  Append((w \o q) \o p, m) = (w \o q) \o Append(p, m)
<1>1. w \o q \in Seq(Msgs) /\ (w \o q) \o p \in Seq(Msgs) /\ <<m>> \in Seq(Msgs)
  BY ConcatProperties
<1>2. ((w \o q) \o p) \o <<m>> = (w \o q) \o (p \o <<m>>)
  <2>1. \A x, y, z \in Seq(Msgs) : (x \o y) \o z = x \o (y \o z)
    BY Assoc
  <2> QED
    BY <1>1, <2>1
<1>3. Append((w \o q) \o p, m) = ((w \o q) \o p) \o <<m>> /\ Append(p, m) = p \o <<m>>
  BY <1>1, AppendIsConcat
<1> QED
  BY <1>2, <1>3

LEMMA MoveToFront ==
  ASSUME NEW w \in Seq(Msgs), NEW q \in Seq(Msgs), q # <<>>
  PROVE  Append(w, Head(q)) \o Tail(q) = w \o q
<1> DEFINE a == Append(w, Head(q)) \o Tail(q)
           b == w \o q
<1>0. Head(q) \in Msgs /\ Tail(q) \in Seq(Msgs) /\ Len(Tail(q)) = Len(q) - 1
      /\ Len(w) \in Nat /\ Len(q) \in Nat \ {0} /\ Head(q) = q[1]
      /\ \A i \in 1..Len(Tail(q)) : Tail(q)[i] = q[i + 1]
  BY HeadTailProperties, LenProperties, EmptySeq
<1>1. Append(w, Head(q)) \in Seq(Msgs) /\ Len(Append(w, Head(q))) = Len(w) + 1
      /\ (\A i \in 1..Len(w) : Append(w, Head(q))[i] = w[i])
      /\ Append(w, Head(q))[Len(w) + 1] = Head(q)
  BY <1>0, AppendProperties
<1>2. a \in Seq(Msgs) /\ b \in Seq(Msgs) /\ Len(a) = Len(w) + Len(q) /\ Len(b) = Len(a)
  BY <1>0, <1>1, ConcatProperties
<1>3. ASSUME NEW i \in 1..Len(a) PROVE a[i] = b[i]
  <2>1. a[i] = IF i <= Len(w) + 1 THEN Append(w, Head(q))[i] ELSE Tail(q)[i - (Len(w) + 1)]
    BY <1>0, <1>1, <1>2, <1>3, ConcatProperties
  <2>2. b[i] = IF i <= Len(w) THEN w[i] ELSE q[i - Len(w)]
    BY <1>0, <1>2, <1>3, ConcatProperties
  <2>3. CASE i <= Len(w)
    BY <1>0, <1>1, <1>2, <2>1, <2>2, <2>3
  <2>4. CASE i = Len(w) + 1
    BY <1>0, <1>1, <1>2, <2>1, <2>2, <2>4
  <2>5. CASE i > Len(w) + 1
    <3>1. i - (Len(w) + 1) \in 1..Len(Tail(q))
          /\ (i - (Len(w) + 1)) + 1 = i - Len(w)
      BY <1>0, <1>2, <1>3, <2>5
    <3>2. Tail(q)[i - (Len(w) + 1)] = q[i - Len(w)]
      BY <1>0, <3>1
    <3> QED
      BY <1>0, <1>2, <2>1, <2>2, <2>5, <3>2
  <2> QED
    BY <1>0, <1>2, <1>3, <2>3, <2>4, <2>5
<1> QED
  BY <1>2, <1>3, SeqEqual

LEMMA MoveToMiddle ==
  ASSUME NEW w \in Seq(Msgs), NEW q \in Seq(Msgs), NEW p \in Seq(Msgs), p # <<>>
  PROVE  (w \o Append(q, Head(p))) \o Tail(p) = (w \o q) \o p
<1>0. Head(p) \in Msgs /\ Tail(p) \in Seq(Msgs) /\ Append(q, Head(p)) \in Seq(Msgs)
  BY HeadTailProperties, AppendProperties
<1>1. (w \o Append(q, Head(p))) \o Tail(p) = w \o (Append(q, Head(p)) \o Tail(p))
  BY <1>0, Assoc, Zenon
<1>2. Append(q, Head(p)) \o Tail(p) = q \o p
  BY MoveToFront
<1>3. w \o (q \o p) = (w \o q) \o p
  BY Assoc, Zenon
<1> QED
  BY <1>1, <1>2, <1>3

LEMMA OpenStep == SendInv /\ [Next]_vars => OpenInv'
<1> SUFFICES ASSUME SendInv, [Next]_vars, socket' = "open"
             PROVE  (order = (wire \o queue) \o posted)'
                    /\ (queue # <<>> => writes = <<Head(queue)>>)'
  BY DEF OpenInv
<1>0. posted \in Seq(Msgs) /\ queue \in Seq(Msgs) /\ writes \in Seq(Msgs)
      /\ wire \in Seq(Msgs) /\ order \in Seq(Msgs)
  BY DEF SendInv, TypeOK
<1>1. CASE socket = "handshake" /\ SendStutters
  <2>1. posted' = <<>> /\ queue' = <<>> /\ wire' = <<>> /\ order' = <<>>
    BY <1>1 DEF SendInv, HandshakeInv, SendStutters
  <2>2. (<<>> \o <<>>) \o <<>> = <<>>
    BY ConcatEmptySeq, EmptySeq
  <2> QED
    BY <2>1, <2>2
<1>2. CASE socket = "open"
  <2>0. order = (wire \o queue) \o posted /\ (queue # <<>> => writes = <<Head(queue)>>)
    BY <1>2 DEF SendInv, OpenInv
  <2>1. CASE SendStutters
    BY <2>0, <2>1 DEF SendStutters
  <2>2. ASSUME NEW m \in Msgs, posted' = Append(posted, m), order' = Append(order, m),
               UNCHANGED <<queue, writes, wire>>
        PROVE  (order = (wire \o queue) \o posted)'
               /\ (queue # <<>> => writes = <<Head(queue)>>)'
    <3>0. Append((wire \o queue) \o posted, m) = (wire \o queue) \o Append(posted, m)
      <4>1. \A w, q, p \in Seq(Msgs) : Append((w \o q) \o p, m) = (w \o q) \o Append(p, m)
        BY <2>2, AppendToLast
      <4> QED
        BY <1>0, <4>1
    <3>1. order' = (wire \o queue) \o Append(posted, m)
      BY <2>0, <2>2, <3>0, Zenon
    <3>2. (order = (wire \o queue) \o posted)'
      BY <2>2, <3>1
    <3> QED
      BY <2>0, <2>2, <3>2
  <2>3. CASE OnReadAnswered
    <3>1. received' \in Msgs
      BY <2>3, NextMessage DEF OnReadAnswered, SendInv
    <3> QED
      BY <2>2, <2>3, <3>1 DEF OnReadAnswered
  <2>4. CASE \E m \in Msgs : WriteResponse(m)
    BY <2>2, <2>4 DEF WriteResponse
  <2>5. CASE Enqueue
    <3>1. posted # <<>> /\ posted' = Tail(posted) /\ queue' = Append(queue, Head(posted))
          /\ wire' = wire /\ order' = order
      BY <2>5 DEF Enqueue
    <3>2. (order = (wire \o queue) \o posted)'
      BY <1>0, <2>0, <3>1, MoveToMiddle
    <3>3. CASE queue = <<>>
      <4>1. writes = <<>>
        BY <3>3 DEF SendInv, WriteInv
      <4>2. writes' = Append(<<>>, Head(queue'))
        BY <2>5, <3>3, <4>1 DEF Enqueue, WriteInProgress, WriteQueued, Front
      <4> QED
        BY <3>2, <4>2
    <3>4. CASE queue # <<>>
      <4>1. writes' = writes
        BY <2>5, <3>4 DEF Enqueue, WriteInProgress
      <4>2. Head(queue') = Head(queue)
        BY <1>0, <3>1, <3>4, HeadTailProperties, AppendProperties, EmptySeq
      <4> QED
        BY <2>0, <3>2, <3>4, <4>1, <4>2
    <3> QED
      BY <3>3, <3>4
  <2>6. CASE OnWrite
    <3>1. queue # <<>> /\ writes = <<Head(queue)>> /\ Len(writes) <= 1 /\ writes # <<>>
      BY <2>0, <2>6 DEF OnWrite, SendInv, WriteInv, OneWrite
    <3>2. wire' = Append(wire, Head(queue)) /\ queue' = Tail(queue)
          /\ posted' = posted /\ order' = order
      BY <2>6, <3>1 DEF OnWrite
    <3>3. (order = (wire \o queue) \o posted)'
      BY <1>0, <2>0, <3>1, <3>2, MoveToFront
    <3>4. Tail(writes) = <<>>
      BY <1>0, <3>1, TailOfOne
    <3>5. queue' # <<>> => writes' = Append(<<>>, Head(queue'))
      BY <2>6, <3>4 DEF OnWrite, WriteMore, WriteQueued, Front
    <3> QED
      BY <3>3, <3>5
  <2>7. ~OnWriteError
    BY <1>2 DEF OnWriteError, Fail
  <2> QED
    BY <2>1, <2>3, <2>4, <2>5, <2>6, <2>7, WhoSends
<1> QED
  BY <1>1, <1>2, OpenOnce

LEMMA WireStep == SendInv /\ [Next]_vars => WireOrder'
<1> SUFFICES ASSUME SendInv, [Next]_vars PROVE WireOrder'
  OBVIOUS
<1>0. wire \in Seq(Msgs) /\ order \in Seq(Msgs) /\ queue \in Seq(Msgs) /\ posted \in Seq(Msgs)
      /\ wire' \in Seq(Msgs) /\ order' \in Seq(Msgs) /\ queue' \in Seq(Msgs)
      /\ posted' \in Seq(Msgs)
  BY TypeStep DEF SendInv, TypeOK
<1>1. Len(wire) <= Len(order) /\ \A i \in 1..Len(wire) : wire[i] = order[i]
  BY DEF SendInv, WireOrder
<1>2. CASE UNCHANGED <<wire, order>>
  BY <1>1, <1>2 DEF WireOrder
<1>3. ASSUME NEW m \in Msgs, order' = Append(order, m), wire' = wire PROVE WireOrder'
  <2>1. Len(order') = Len(order) + 1 /\ \A i \in 1..Len(order) : order'[i] = order[i]
    BY <1>0, <1>3, AppendProperties
  <2> QED
    BY <1>0, <1>1, <1>3, <2>1, LenProperties DEF WireOrder
<1>4. CASE OnReadAnswered
  <2>1. received' \in Msgs
    BY <1>4, NextMessage DEF OnReadAnswered, SendInv
  <2> QED
    BY <1>3, <1>4, <2>1 DEF OnReadAnswered
<1>5. CASE \E m \in Msgs : WriteResponse(m)
  BY <1>3, <1>5 DEF WriteResponse
<1>6. CASE Enqueue \/ OnWriteError \/ SendStutters
  BY <1>2, <1>6 DEF Enqueue, OnWriteError, SendStutters
<1>7. CASE OnWrite
  <2>1. order' = (wire' \o queue') \o posted'
    BY <1>7, OpenStep DEF OnWrite, OpenInv
  <2>2. wire' \o queue' \in Seq(Msgs) /\ Len(wire' \o queue') = Len(wire') + Len(queue')
        /\ \A i \in 1..Len(wire') : (wire' \o queue')[i] = wire'[i]
    BY <1>0, ConcatProperties, LenProperties
  <2>3. Len(order') = (Len(wire') + Len(queue')) + Len(posted')
        /\ \A i \in 1..Len(wire') : order'[i] = wire'[i]
    BY <1>0, <2>1, <2>2, ConcatProperties, LenProperties
  <2>4. Len(wire') \in Nat /\ Len(queue') \in Nat /\ Len(posted') \in Nat
    BY <1>0, LenProperties
  <2>5. Len(wire') <= Len(order')
    BY <2>3, <2>4
  <2>6. \A i \in 1..Len(wire') : wire'[i] = order'[i]
    BY <2>3
  <2> QED
    BY <2>5, <2>6 DEF WireOrder
<1> QED
  BY <1>4, <1>5, <1>6, <1>7, WhoSends

LEMMA SendInit == Init => SendInv
<1> SUFFICES ASSUME Init PROVE SendInv
  OBVIOUS
<1>1. writes = <<>> /\ Len(<<>>) = 0 /\ wire = <<>>
  BY EmptySeq DEF Init
<1>2. WriteInv /\ WireOrder
  BY <1>1 DEF Init, WriteInv, OneWrite, WireOrder
<1>3. HandshakeInv /\ OpenInv
  BY DEF Init, HandshakeInv, OpenInv
<1> QED
  BY <1>2, <1>3, TypeInit DEF SendInv

LEMMA SendAlways == Spec => []SendInv
<1>1. Init => SendInv
  BY SendInit
<1>2. SendInv /\ [Next]_vars => SendInv'
  BY TypeStep, WriteStep, HandshakeStep, OpenStep, WireStep DEF SendInv
<1> QED
  BY <1>1, <1>2, PTL DEF Spec

(* The variables keep their types (TypeOK), whatever the number of messages. *)
THEOREM SessionTypesOK == Spec => []TypeOK
  BY SendAlways, PTL DEF SendInv

(* No async_write is started while another is under way (OneWrite):        *)
(* write_response and the completion of a write both ask whether the queue *)
(* is empty, and it is only when nothing is being written.                 *)
THEOREM OneWriteAtATime == Spec => []OneWrite
<1>1. SendInv => OneWrite
  BY DEF SendInv, WriteInv
<1> QED
  BY <1>1, SendAlways, PTL

(* What the peer has received is a prefix of the responses in the order    *)
(* write_response was called (WireOrder), also across a write that fails   *)
(* and a socket the timer closes.                                          *)
THEOREM PeerReceivesInOrder == Spec => []WireOrder
<1>1. SendInv => WireOrder
  BY DEF SendInv
<1> QED
  BY <1>1, SendAlways, PTL

-----------------------------------------------------------------------------
(* The timer. *)

(* A deadline that has passed is a deadline of silence, and so is the one  *)
(* before a ping: with both, the peer was silent twice.                    *)
QuietInv ==
    /\ expired => quiet >= 1
    /\ pingState # 0 => quiet >= 1
    /\ pingState # 0 /\ expired => quiet = 2

LEMMA QuietStep == TypeOK /\ QuietInv /\ [Next]_vars => QuietInv'
<1> SUFFICES ASSUME TypeOK, QuietInv, [Next]_vars PROVE QuietInv'
  OBVIOUS
<1>0. quiet \in 0..2 /\ pingState \in 0..2 /\ expired \in BOOLEAN
  BY DEF TypeOK
<1>1. CASE UNCHANGED <<expired, pingState, quiet>>
  BY <1>1 DEF QuietInv
<1>2. CASE OnControl \/ OnRead \/ OnReadAnswered
  <2>1. Activity
    BY <1>2 DEF OnControl, OnRead, OnReadAnswered, OnMessage
  <2>2. pingState' = 0 /\ ~expired'
    BY <2>1 DEF Activity
  <2> QED
    BY <2>2 DEF QuietInv
<1>3. CASE Deadline
  <2>1. quiet' = IF quiet < 2 THEN quiet + 1 ELSE quiet
    BY <1>3 DEF Deadline
  <2>2. pingState' = pingState
    BY <1>3 DEF Deadline
  <2>3. quiet' >= 1
    BY <1>0, <2>1
  <2>4. pingState # 0 => quiet' = 2
    BY <1>0, <2>1 DEF QuietInv
  <2> QED
    BY <2>2, <2>3, <2>4 DEF QuietInv
<1>4. CASE OnTimerPing
  <2>1. ~expired' /\ quiet' = quiet /\ expired
    BY <1>4 DEF OnTimerPing
  <2>2. quiet' >= 1
    BY <1>0, <2>1 DEF QuietInv
  <2> QED
    BY <2>1, <2>2 DEF QuietInv
<1>5. CASE OnPing
  <2>1. expired' = expired /\ quiet' = quiet /\ pingState' = PingSent(pingState)
    BY <1>5 DEF OnPing
  <2>2. pingState' # 0 => pingState # 0
    BY <1>0, <2>1 DEF PingSent
  <2> QED
    BY <2>1, <2>2 DEF QuietInv
<1>6. CASE \/ \E ok \in BOOLEAN : OnAccept(ok)
           \/ \E m \in Msgs : WriteResponse(m)
  BY <1>1, <1>6 DEF OnAccept, WriteResponse, timerVars
<1>7. CASE OnReadError \/ OnPingError \/ Enqueue \/ OnWrite \/ OnWriteError \/ OnTimerClose
  BY <1>1, <1>7 DEF OnReadError, OnPingError, Enqueue, OnWrite, OnWriteError, OnTimerClose,
                    timerVars
<1>8. CASE Destroyed \/ UNCHANGED vars
  BY <1>1, <1>8 DEF Destroyed, vars
<1> QED
  BY <1>2, <1>3, <1>4, <1>5, <1>6, <1>7, <1>8 DEF Next

(* on_timer closes an open connection only after two deadlines without a   *)
(* sign of life, the second after a ping (ClosedOnlyWhenSilent): every     *)
(* activity moves the deadline and forgets the ping.                       *)
THEOREM ClosesOnlyTheSilent == Spec => ClosedOnlyWhenSilent
<1>1. Init => QuietInv
  BY DEF Init, QuietInv
<1>2. TypeOK /\ QuietInv /\ OnTimerClose /\ socket = "open" => quiet = 2
  BY DEF OnTimerClose, MustPing, QuietInv
<1>3. TypeOK /\ QuietInv /\ [Next]_vars
      => [OnTimerClose /\ socket = "open" => quiet = 2]_vars
  BY <1>2
<1> QED
  BY <1>1, <1>3, QuietStep, SessionTypesOK, PTL DEF Spec, ClosedOnlyWhenSilent
=============================================================================
