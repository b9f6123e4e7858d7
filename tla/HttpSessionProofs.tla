------------------------- MODULE HttpSessionProofs -------------------------
(***************************************************************************)
(* Machine-checked proofs about HttpSession: a connection whose requests   *)
(* are all answered on the strand (StrandNext), for any number of requests *)
(* and any queue limit.  With responses from the pool (Next) the reads,    *)
(* the writes, the order and the keep-alive can all go wrong, as TLC shows *)
(* with pipelined requests; these theorems say that the pool's calls off   *)
(* the strand are all there is to it.  The last one is about Next, for a   *)
(* client that waits for each response.                                    *)
(***************************************************************************)
EXTENDS HttpSession, SequenceTheorems, FiniteSetTheorems, TLAPS

ItemsTo(n) == [req : 1..n, keep : BOOLEAN]
WritesTo(n) == [req : 1..n, close : BOOLEAN, flushed : BOOLEAN]

ConnTypeOK ==
    /\ socket \in {"open", "half", "closed", "moved"}
    /\ expired \in BOOLEAN
    /\ keepOf \in [Reqs -> BOOLEAN]
    /\ keepalive \in BOOLEAN
    /\ strand \in {"free", "erased"}
    /\ wasFull \in BOOLEAN
    /\ broken \in BOOLEAN
    /\ underflow \in BOOLEAN

ReadTypeOK == reads \in Nat /\ arrived \in 0..MaxRequests

QueueTypeOK ==
    /\ items \in Seq(ItemsTo(arrived))
    /\ writes \in Seq(WritesTo(arrived))
    /\ wire \in Seq(1..arrived)

PoolTypeOK == pending \subseteq 1..arrived /\ kicking \subseteq 1..arrived

Typed == ConnTypeOK /\ ReadTypeOK /\ QueueTypeOK /\ PoolTypeOK

LEMMA TypeParts == Typed => TypeOK
  BY DEF Typed, ConnTypeOK, ReadTypeOK, QueueTypeOK, PoolTypeOK, TypeOK, ItemsTo, WritesTo

LEMMA TypeInit == Init => Typed
<1> SUFFICES ASSUME Init PROVE Typed
  OBVIOUS
<1>1. ConnTypeOK
  BY DEF Init, ConnTypeOK
<1>2. ReadTypeOK
  BY HttpAssumption DEF Init, ReadTypeOK
<1>3. QueueTypeOK
  BY EmptySeq DEF Init, QueueTypeOK
<1>4. PoolTypeOK
  BY DEF Init, PoolTypeOK
<1> QED
  BY <1>1, <1>2, <1>3, <1>4 DEF Typed

(* A queue of the first n requests is one of the first n + 1. *)
LEMMA OneRequestMore ==
  ASSUME NEW n \in Nat
  PROVE  /\ \A s \in Seq(ItemsTo(n)) : s \in Seq(ItemsTo(n + 1))
         /\ \A s \in Seq(WritesTo(n)) : s \in Seq(WritesTo(n + 1))
         /\ \A s \in Seq(1..n) : s \in Seq(1..(n + 1))
<1>1. 1..n \subseteq 1..(n + 1)
  OBVIOUS
<1>2. ItemsTo(n) \subseteq ItemsTo(n + 1) /\ WritesTo(n) \subseteq WritesTo(n + 1)
  BY <1>1 DEF ItemsTo, WritesTo
<1> QED
  BY <1>1, <1>2, SeqMonotonic

(* The write that an item becomes. *)
LEMMA StartedType ==
  ASSUME NEW n \in Nat, NEW item \in ItemsTo(n), writes \in Seq(WritesTo(n))
  PROVE  Started(item) \in Seq(WritesTo(n))
<1>1. [req |-> item.req, close |-> ~item.keep, flushed |-> FALSE] \in WritesTo(n)
  BY DEF ItemsTo, WritesTo
<1> QED
  BY <1>1, AppendProperties DEF Started

-----------------------------------------------------------------------------
(* A step that is not about the queue of responses. *)
QueueStutters ==
    /\ UNCHANGED <<arrived, keepOf, items, writes, wire, strand, wasFull, underflow,
                   pending, kicking>>
    /\ \/ UNCHANGED <<socket, broken, reads>>
       \/ /\ strand = "free" /\ reads > 0 /\ reads' = reads - 1
          /\ broken' \/ socket' # "open"
       \/ /\ UNCHANGED <<broken, reads>> /\ socket' = "closed"

LEMMA StrandSteps ==
  ASSUME [StrandNext]_vars
  PROVE  \/ \E keep \in BOOLEAN : OnReadSync(keep)
         \/ OnWriteClose \/ OnWriteErase \/ OnWriteNext \/ OnWriteError \/ Flush
         \/ QueueStutters
<1>1. CASE OnReadUpgrade \/ OnReadEnd \/ OnReadError
  BY <1>1 DEF OnReadUpgrade, OnReadEnd, OnReadError, ReadReady, QueueStutters
<1>2. CASE Deadline \/ OnTimer
  BY <1>2 DEF Deadline, OnTimer, QueueStutters
<1>3. CASE Released \/ UNCHANGED vars
  BY <1>3 DEF Released, vars, QueueStutters
<1> QED
  BY <1>1, <1>2, <1>3 DEF StrandNext

LEMMA NextSteps ==
  ASSUME [Next]_vars
  PROVE  \/ \E keep \in BOOLEAN : OnReadSync(keep)
         \/ \E keep \in BOOLEAN : OnReadAsync(keep)
         \/ \E r \in Reqs : PoolPush(r) \/ PoolKick(r)
         \/ OnWriteClose \/ OnWriteErase \/ OnWriteNext \/ OnWriteError \/ Flush
         \/ QueueStutters
<1>1. CASE [StrandNext]_vars
  BY <1>1, StrandSteps
<1> QED
  BY <1>1 DEF Next

LEMMA ConnStep == Typed /\ [Next]_vars => ConnTypeOK'
<1> SUFFICES ASSUME Typed, [Next]_vars PROVE ConnTypeOK'
  OBVIOUS
<1>0. ConnTypeOK
  BY DEF Typed
<1> USE DEF ConnTypeOK
<1>1. ASSUME NEW keep \in BOOLEAN, OnReadSync(keep) PROVE ConnTypeOK'
  BY <1>0, <1>1 DEF OnReadSync, NoteKeepAlive, ReadMoreUnlessFull, Read
<1>a. ASSUME NEW keep \in BOOLEAN, OnReadAsync(keep) PROVE ConnTypeOK'
  BY <1>0, <1>a DEF OnReadAsync, NoteKeepAlive, ReadMoreUnlessFull, Read
<1>b. ASSUME NEW r \in Reqs, PoolPush(r) \/ PoolKick(r) PROVE ConnTypeOK'
  BY <1>0, <1>b DEF PoolPush, PoolKick
<1>2. CASE OnReadUpgrade \/ OnReadEnd \/ OnReadError
  BY <1>0, <1>2 DEF OnReadUpgrade, OnReadEnd, OnReadError
<1>3. CASE OnWriteClose \/ OnWriteError \/ Flush
  BY <1>0, <1>3 DEF OnWriteClose, OnWriteError, Flush
<1>4. CASE OnWriteErase
  <2>1. underflow' \in BOOLEAN /\ wasFull' \in BOOLEAN
    BY <1>4 DEF OnWriteErase, IsFull
  <2> QED
    BY <1>0, <1>4, <2>1 DEF OnWriteErase
<1>5. CASE OnWriteNext
  BY <1>0, <1>5 DEF OnWriteNext, Read
<1>6. CASE Deadline \/ OnTimer
  BY <1>0, <1>6 DEF Deadline, OnTimer
<1>7. CASE Released \/ UNCHANGED vars
  BY <1>0, <1>7 DEF Released, vars
<1> QED
  BY <1>1, <1>a, <1>b, <1>2, <1>3, <1>4, <1>5, <1>6, <1>7 DEF Next, StrandNext

LEMMA ReadTypeStep == Typed /\ [Next]_vars => ReadTypeOK'
<1> SUFFICES ASSUME Typed, [Next]_vars PROVE ReadTypeOK'
  OBVIOUS
<1>0. reads \in Nat /\ arrived \in 0..MaxRequests /\ MaxRequests \in Nat
  BY HttpAssumption DEF Typed, ReadTypeOK
<1>1. ASSUME NEW keep \in BOOLEAN, OnReadSync(keep) \/ OnReadAsync(keep) PROVE ReadTypeOK'
  <2>1. arrived < MaxRequests /\ arrived' = arrived + 1 /\ reads > 0
        /\ (reads' = reads - 1 \/ reads' = (reads - 1) + 1)
    BY <1>1 DEF OnReadSync, OnReadAsync, RequestSent, ReadReady, ReadMoreUnlessFull, Read
  <2> QED
    BY <1>0, <2>1 DEF ReadTypeOK
<1>2. CASE QueueStutters
  BY <1>0, <1>2 DEF QueueStutters, ReadTypeOK
<1>3. CASE OnWriteNext
  <2>1. arrived' = arrived /\ (reads' = reads \/ reads' = reads + 1)
    BY <1>3 DEF OnWriteNext, Read
  <2> QED
    BY <1>0, <2>1 DEF ReadTypeOK
<1>4. CASE OnWriteClose \/ OnWriteErase \/ OnWriteError \/ Flush
  BY <1>0, <1>4 DEF OnWriteClose, OnWriteErase, OnWriteError, Flush, ReadTypeOK
<1>5. CASE \E r \in Reqs : PoolPush(r) \/ PoolKick(r)
  BY <1>0, <1>5 DEF PoolPush, PoolKick, ReadTypeOK
<1> QED
  BY <1>1, <1>2, <1>3, <1>4, <1>5, NextSteps

LEMMA QueueTypeStep == Typed /\ [Next]_vars => QueueTypeOK'
<1> SUFFICES ASSUME Typed, [Next]_vars PROVE QueueTypeOK'
  OBVIOUS
<1>0. items \in Seq(ItemsTo(arrived)) /\ writes \in Seq(WritesTo(arrived))
      /\ wire \in Seq(1..arrived) /\ arrived \in Nat
  BY DEF Typed, QueueTypeOK, ReadTypeOK
<1>1. ASSUME NEW keep \in BOOLEAN, OnReadSync(keep) PROVE QueueTypeOK'
  <2>1. PICK item : item = [req |-> arrived + 1, keep |-> keep]
    OBVIOUS
  <2>2. arrived' = arrived + 1 /\ wire' = wire /\ items' = Append(items, item)
        /\ (writes' = Started(item) \/ writes' = writes)
    BY <1>1, <2>1 DEF OnReadSync, Send
  <2>3. item \in ItemsTo(arrived + 1)
    BY <1>0, <2>1 DEF ItemsTo
  <2>4. items \in Seq(ItemsTo(arrived + 1)) /\ writes \in Seq(WritesTo(arrived + 1))
        /\ wire \in Seq(1..(arrived + 1)) /\ arrived + 1 \in Nat
    BY <1>0, OneRequestMore
  <2>5. items' \in Seq(ItemsTo(arrived + 1))
    BY <2>2, <2>3, <2>4, AppendProperties
  <2>6. writes' \in Seq(WritesTo(arrived + 1))
    BY <2>2, <2>3, <2>4, StartedType
  <2> QED
    BY <2>2, <2>4, <2>5, <2>6 DEF QueueTypeOK
<1>a. ASSUME NEW keep \in BOOLEAN, OnReadAsync(keep) PROVE QueueTypeOK'
  <2>1. arrived' = arrived + 1 /\ UNCHANGED <<items, writes, wire>>
    BY <1>a DEF OnReadAsync
  <2>2. items \in Seq(ItemsTo(arrived + 1)) /\ writes \in Seq(WritesTo(arrived + 1))
        /\ wire \in Seq(1..(arrived + 1))
    BY <1>0, OneRequestMore
  <2> QED
    BY <2>1, <2>2 DEF QueueTypeOK
<1>b. ASSUME NEW r \in Reqs, PoolPush(r) PROVE QueueTypeOK'
  <2>1. PICK item : item = [req |-> r, keep |-> keepalive]
    OBVIOUS
  <2>2. r \in pending /\ items' = Append(items, item) /\ UNCHANGED <<writes, wire, arrived>>
    BY <1>b, <2>1 DEF PoolPush
  <2>3. item \in ItemsTo(arrived)
    BY <2>1, <2>2 DEF Typed, PoolTypeOK, ConnTypeOK, ItemsTo
  <2>4. items' \in Seq(ItemsTo(arrived))
    BY <1>0, <2>2, <2>3, AppendProperties
  <2> QED
    BY <1>0, <2>2, <2>4 DEF QueueTypeOK
<1>c. ASSUME NEW r \in Reqs, PoolKick(r) PROVE QueueTypeOK'
  <2>1. UNCHANGED <<items, wire, arrived>>
        /\ (writes' = writes \/ (Len(items) = 1 /\ writes' = Started(Head(items))))
    BY <1>c DEF PoolKick, Alone
  <2>2. items = <<>> => Len(items) = 0
    OBVIOUS
  <2>3. Len(items) = 1 => items # <<>>
    BY <2>2
  <2>4. items # <<>> => Head(items) \in ItemsTo(arrived)
    BY <1>0, HeadTailProperties
  <2>5. writes' \in Seq(WritesTo(arrived))
    BY <1>0, <2>1, <2>3, <2>4, StartedType
  <2> QED
    BY <1>0, <2>1, <2>5 DEF QueueTypeOK
<1>2. CASE OnWriteClose \/ OnWriteError
  <2>1. writes # <<>> /\ UNCHANGED <<items, wire, arrived>> /\ writes' = Tail(writes)
    BY <1>2 DEF OnWriteClose, OnWriteError, WriteReady
  <2>2. Tail(writes) \in Seq(WritesTo(arrived))
    BY <1>0, <2>1, HeadTailProperties
  <2> QED
    BY <1>0, <2>1, <2>2 DEF QueueTypeOK
<1>3. CASE OnWriteErase
  <2>1. writes # <<>> /\ UNCHANGED <<wire, arrived>> /\ writes' = Tail(writes)
        /\ items' = Rest(items)
    BY <1>3 DEF OnWriteErase, WriteReady
  <2>2. Tail(writes) \in Seq(WritesTo(arrived))
    BY <1>0, <2>1, HeadTailProperties
  <2>3. Rest(items) \in Seq(ItemsTo(arrived))
    BY <1>0, HeadTailProperties DEF Rest
  <2> QED
    BY <1>0, <2>1, <2>2, <2>3 DEF QueueTypeOK
<1>4. CASE OnWriteNext
  <2>1. UNCHANGED <<items, wire, arrived>>
        /\ (writes' = writes \/ (items # <<>> /\ writes' = Started(Head(items))))
    BY <1>4 DEF OnWriteNext, StartFront
  <2>2. items # <<>> => Head(items) \in ItemsTo(arrived)
    BY <1>0, HeadTailProperties
  <2>3. writes' \in Seq(WritesTo(arrived))
    BY <1>0, <2>1, <2>2, StartedType
  <2> QED
    BY <1>0, <2>1, <2>3 DEF QueueTypeOK
<1>5. CASE Flush
  <2>1. PICK i \in 1..Len(writes) :
          writes' = [writes EXCEPT ![i].flushed = TRUE] /\ wire' = Append(wire, writes[i].req)
    BY <1>5 DEF Flush
  <2>2. writes[i] \in WritesTo(arrived)
    BY <1>0, <2>1, ElementOfSeq
  <2>3. [writes[i] EXCEPT !.flushed = TRUE] \in WritesTo(arrived) /\ writes[i].req \in 1..arrived
    BY <2>2 DEF WritesTo
  <2>4. writes' = [writes EXCEPT ![i] = [writes[i] EXCEPT !.flushed = TRUE]]
    BY <2>1
  <2>5. writes' \in Seq(WritesTo(arrived))
    BY <1>0, <2>3, <2>4, ExceptSeq
  <2>6. wire' \in Seq(1..arrived)
    BY <1>0, <2>1, <2>3, AppendProperties
  <2>7. UNCHANGED <<items, arrived>>
    BY <1>5 DEF Flush
  <2> QED
    BY <1>0, <2>5, <2>6, <2>7 DEF QueueTypeOK
<1>6. CASE QueueStutters
  BY <1>0, <1>6 DEF QueueStutters, QueueTypeOK
<1> QED
  BY <1>1, <1>a, <1>b, <1>c, <1>2, <1>3, <1>4, <1>5, <1>6, NextSteps

LEMMA PoolTypeStep == Typed /\ [Next]_vars => PoolTypeOK'
<1> SUFFICES ASSUME Typed, [Next]_vars PROVE PoolTypeOK'
  OBVIOUS
<1>0. pending \subseteq 1..arrived /\ kicking \subseteq 1..arrived /\ arrived \in Nat
  BY DEF Typed, PoolTypeOK, ReadTypeOK
<1>1. ASSUME NEW keep \in BOOLEAN, OnReadSync(keep) \/ OnReadAsync(keep) PROVE PoolTypeOK'
  <2>1. arrived' = arrived + 1 /\ pending' \subseteq pending \cup {arrived'} /\ kicking' = kicking
    BY <1>1 DEF OnReadSync, OnReadAsync
  <2> QED
    BY <1>0, <2>1 DEF PoolTypeOK
<1>2. ASSUME NEW r \in Reqs, PoolPush(r) \/ PoolKick(r) PROVE PoolTypeOK'
  <2>1. arrived' = arrived /\ pending' \subseteq pending /\ kicking' \subseteq kicking \cup pending
    BY <1>2 DEF PoolPush, PoolKick
  <2> QED
    BY <1>0, <2>1 DEF PoolTypeOK
<1>3. CASE OnWriteClose \/ OnWriteErase \/ OnWriteNext \/ OnWriteError \/ Flush \/ QueueStutters
  <2>1. UNCHANGED <<arrived, pending, kicking>>
    BY <1>3 DEF OnWriteClose, OnWriteErase, OnWriteNext, OnWriteError, Flush, QueueStutters
  <2> QED
    BY <1>0, <2>1 DEF PoolTypeOK
<1> QED
  BY <1>1, <1>2, <1>3, NextSteps

LEMMA TypeStep == Typed /\ [Next]_vars => Typed'
  BY ConnStep, ReadTypeStep, QueueTypeStep, PoolTypeStep DEF Typed

LEMMA StrandIsNext == [StrandNext]_vars => [Next]_vars
  BY DEF Next

(* The variables of a connection keep their types (TypeOK), with responses *)
(* from the pool, too.                                                     *)
THEOREM TypesAlwaysOK == Spec => []TypeOK
<1>1. Typed => TypeOK
  BY TypeParts
<1> QED
  BY <1>1, TypeInit, TypeStep, PTL DEF Spec

-----------------------------------------------------------------------------
(* The write under way is of the first item; none is under way when there  *)
(* is no item, nor between the erase and the start of the next item.       *)
WriteInv ==
    /\ SingleWrite
    /\ (strand = "erased" \/ items = <<>>) => writes = <<>>
    /\ writes # <<>> => Head(writes).req = Head(items).req

LEMMA TailOfOne ==
  ASSUME NEW S, NEW s \in Seq(S), s # <<>>, Len(s) <= 1
  PROVE  Tail(s) = <<>> /\ Len(s) = 1
<1>1. Len(s) \in Nat \ {0}
  BY EmptySeq
<1>2. Len(s) = 1
  BY <1>1
<1>3. Tail(s) \in Seq(S) /\ Len(Tail(s)) = 0
  BY <1>2, HeadTailProperties
<1>4. Tail(s) = <<>>
  BY <1>3, EmptySeq
<1> QED
  BY <1>2, <1>4

(* Before any write: the write of an item is the only one. *)
LEMMA StartedAlone ==
  ASSUME NEW item, writes = <<>>
  PROVE  /\ Started(item) = <<[req |-> item.req, close |-> ~item.keep, flushed |-> FALSE]>>
         /\ Started(item) # <<>> /\ Len(Started(item)) = 1
         /\ Head(Started(item)).req = item.req /\ ~Head(Started(item)).flushed
<1>1. Started(item) = <<[req |-> item.req, close |-> ~item.keep, flushed |-> FALSE]>>
  BY DEF Started
<1> QED
  BY <1>1

(* What on_read does to the queue. *)
LEMMA SyncEffect ==
  ASSUME Typed, NEW keep \in BOOLEAN, OnReadSync(keep)
  PROVE  /\ strand = "free" /\ strand' = "free" /\ reads > 0 /\ wire' = wire
         /\ UNCHANGED <<socket, wasFull, broken, underflow>>
         /\ arrived' = arrived + 1 /\ arrived + 1 \in Reqs /\ items' # <<>>
         /\ items' = Append(items, [req |-> arrived + 1, keep |-> keep])
         /\ keepOf' = [keepOf EXCEPT ![arrived + 1] = keep]
         /\ Len(items') = Len(items) + 1
         /\ (\A i \in 1..Len(items) : items'[i] = items[i])
         /\ items'[Len(items) + 1] = [req |-> arrived + 1, keep |-> keep]
         /\ items # <<>> => writes' = writes /\ Head(items') = Head(items)
         /\ items = <<>> => /\ Head(items') = [req |-> arrived + 1, keep |-> keep]
                            /\ writes' = Started(Head(items'))
<1>0. items \in Seq(ItemsTo(arrived)) /\ arrived \in 0..MaxRequests /\ MaxRequests \in Nat
  BY HttpAssumption DEF Typed, QueueTypeOK, ReadTypeOK
<1>1. PICK item : item = [req |-> arrived + 1, keep |-> keep]
  OBVIOUS
<1>2. strand = "free" /\ reads > 0 /\ wire' = wire /\ arrived < MaxRequests
      /\ UNCHANGED <<socket, wasFull, broken, underflow, strand>>
      /\ arrived' = arrived + 1 /\ items' = Append(items, item)
      /\ keepOf' = [keepOf EXCEPT ![arrived + 1] = keep]
      /\ writes' = (IF Len(items') = 1 THEN Started(item) ELSE writes)
  BY <1>1 DEF OnReadSync, Send, Alone, ReadReady, RequestSent
<1>3. arrived + 1 \in Reqs /\ item \in ItemsTo(arrived + 1)
  BY <1>0, <1>1, <1>2 DEF Reqs, ItemsTo
<1>4. items \in Seq(ItemsTo(arrived + 1))
  BY <1>0, OneRequestMore
<1>5. Len(items') = Len(items) + 1 /\ items' # <<>>
      /\ (\A i \in 1..Len(items) : items'[i] = items[i]) /\ items'[Len(items) + 1] = item
  BY <1>2, <1>3, <1>4, AppendProperties
<1>6. items # <<>> => writes' = writes /\ Head(items') = Head(items)
  <2> SUFFICES ASSUME items # <<>> PROVE writes' = writes /\ Head(items') = Head(items)
    OBVIOUS
  <2>1. Len(items) \in Nat \ {0}
    BY <1>0, EmptySeq
  <2>2. Len(items') # 1 /\ items'[1] = items[1]
    BY <1>5, <2>1
  <2>3. Head(items) = items[1] /\ Head(items') = items'[1]
    BY <1>2, <1>3, <1>4
  <2> QED
    BY <1>2, <2>2, <2>3
<1>7. items = <<>> => Head(items') = item /\ writes' = Started(item)
  <2> SUFFICES ASSUME items = <<>> PROVE Head(items') = item /\ writes' = Started(item)
    OBVIOUS
  <2>1. items' = <<item>>
    BY <1>2
  <2>2. Len(items') = 1 /\ Head(items') = item
    BY <2>1
  <2> QED
    BY <1>2, <2>2
<1> QED
  BY <1>1, <1>2, <1>3, <1>5, <1>6, <1>7

(* What a write's completion finds: it is the only one, of the first item. *)
LEMMA OnlyWrite ==
  ASSUME Typed, WriteInv, writes # <<>>
  PROVE  /\ Len(writes) = 1 /\ Tail(writes) = <<>> /\ items # <<>> /\ strand = "free"
         /\ Head(writes) = writes[1] /\ writes[1] \in WritesTo(arrived)
         /\ writes[1].req = items[1].req /\ Len(items) \in Nat \ {0}
         /\ Head(items) = items[1] /\ items[1] \in ItemsTo(arrived)
<1>0. items \in Seq(ItemsTo(arrived)) /\ writes \in Seq(WritesTo(arrived)) /\ arrived \in Nat
      /\ strand \in {"free", "erased"}
  BY DEF Typed, QueueTypeOK, ReadTypeOK, ConnTypeOK
<1>1. Len(writes) = 1 /\ Tail(writes) = <<>>
  BY <1>0, TailOfOne DEF WriteInv, SingleWrite
<1>2. items # <<>> /\ strand = "free" /\ Head(writes).req = Head(items).req
  BY <1>0 DEF WriteInv
<1>3. Len(items) \in Nat \ {0}
  BY <1>0, <1>2, EmptySeq
<1>4. Head(writes) = writes[1] /\ Head(items) = items[1]
  BY <1>0, <1>2
<1>5. writes[1] \in WritesTo(arrived) /\ items[1] \in ItemsTo(arrived)
  BY <1>0, <1>1, <1>3, ElementOfSeq
<1> QED
  BY <1>1, <1>2, <1>3, <1>4, <1>5

(* What Flush does to the write under way. *)
LEMMA FlushEffect ==
  ASSUME Typed, WriteInv, Flush
  PROVE  /\ writes # <<>> /\ writes' # <<>> /\ Len(writes') = 1 /\ ~Head(writes).flushed
         /\ Head(writes') = [Head(writes) EXCEPT !.flushed = TRUE]
         /\ wire' = Append(wire, items[1].req) /\ socket = "open"
         /\ UNCHANGED <<socket, reads, arrived, keepOf, items, strand, wasFull, broken, underflow>>
<1>0. writes \in Seq(WritesTo(arrived))
  BY DEF Typed, QueueTypeOK
<1>1. PICK i \in 1..Len(writes) :
         /\ ~writes[i].flushed
         /\ writes' = [writes EXCEPT ![i].flushed = TRUE]
         /\ wire' = Append(wire, writes[i].req)
  BY DEF Flush
<1>2. writes # <<>>
  BY <1>1, EmptySeq
<1>3. Len(writes) = 1 /\ i = 1 /\ Head(writes) = writes[1] /\ writes[1].req = items[1].req
      /\ writes[1] \in WritesTo(arrived)
  BY <1>1, <1>2, OnlyWrite
<1>4. [writes[1] EXCEPT !.flushed = TRUE] \in WritesTo(arrived)
  BY <1>3 DEF WritesTo
<1>5. writes' = [writes EXCEPT ![1] = [writes[1] EXCEPT !.flushed = TRUE]]
  BY <1>1, <1>3
<1>6. writes' \in Seq(WritesTo(arrived)) /\ Len(writes') = 1
      /\ writes'[1] = [writes[1] EXCEPT !.flushed = TRUE]
  BY <1>0, <1>3, <1>4, <1>5, ExceptSeq
<1>7. writes' # <<>> /\ Head(writes') = writes'[1]
  <2>1. writes' = <<>> => Len(writes') = 0
    OBVIOUS
  <2>2. writes' # <<>>
    BY <1>6, <2>1
  <2> QED
    BY <1>6, <2>2
<1>8. UNCHANGED <<socket, reads, arrived, keepOf, items, strand, wasFull, broken, underflow>>
      /\ socket = "open"
  BY DEF Flush
<1> QED
  BY <1>1, <1>2, <1>3, <1>6, <1>7, <1>8

LEMMA WriteStep == Typed /\ WriteInv /\ [StrandNext]_vars => WriteInv'
<1> SUFFICES ASSUME Typed, WriteInv, [StrandNext]_vars PROVE WriteInv'
  OBVIOUS
<1>e. Len(<<>>) = 0
  BY EmptySeq
<1>a. CASE writes' = <<>>
  <2>1. Len(writes') = 0
    BY <1>a, <1>e
  <2>2. SingleWrite'
    BY <2>1 DEF SingleWrite
  <2> QED
    BY <1>a, <2>2 DEF WriteInv
<1>b. ASSUME Len(writes') = 1, strand' # "erased", items' # <<>>,
             Head(writes').req = Head(items').req
      PROVE  WriteInv'
  <2>1. Len(writes') <= 1
    BY <1>b
  <2>2. SingleWrite'
    BY <2>1 DEF SingleWrite
  <2> QED
    BY <1>b, <2>2 DEF WriteInv
<1>1. ASSUME NEW keep \in BOOLEAN, OnReadSync(keep) PROVE WriteInv'
  <2>1. CASE items # <<>>
    <3>1. writes' = writes /\ Head(items') = Head(items) /\ items' # <<>>
          /\ strand' # "erased" /\ strand = "free"
      BY <1>1, <2>1, SyncEffect
    <3>2. CASE writes = <<>>
      BY <1>a, <3>1, <3>2
    <3>3. CASE writes # <<>>
      <4>1. Len(writes) = 1 /\ Head(writes).req = Head(items).req
        BY <3>3, OnlyWrite DEF WriteInv
      <4> QED
        BY <1>b, <3>1, <4>1
    <3> QED
      BY <3>2, <3>3
  <2>2. CASE items = <<>>
    <3>1. writes = <<>>
      BY <2>2 DEF WriteInv
    <3>2. writes' = Started(Head(items')) /\ items' # <<>> /\ strand' # "erased"
      BY <1>1, <2>2, SyncEffect
    <3> QED
      BY <1>b, <3>1, <3>2, StartedAlone
  <2> QED
    BY <2>1, <2>2
<1>2. CASE OnWriteClose \/ OnWriteErase \/ OnWriteError
  <2>1. writes # <<>> /\ writes' = Tail(writes)
    BY <1>2 DEF OnWriteClose, OnWriteErase, OnWriteError, WriteReady
  <2> QED
    BY <1>a, <2>1, OnlyWrite
<1>3. CASE OnWriteNext
  <2>1. writes = <<>> /\ strand' = "free" /\ items' = items
        /\ writes' = (IF items = <<>> THEN writes ELSE Started(Head(items)))
    BY <1>3 DEF OnWriteNext, StartFront, WriteInv
  <2>2. CASE items = <<>>
    BY <1>a, <2>1, <2>2
  <2>3. CASE items # <<>>
    <3>1. writes' = Started(Head(items')) /\ strand' # "erased" /\ items' # <<>>
      BY <2>1, <2>3
    <3> QED
      BY <1>b, <2>1, <3>1, StartedAlone
  <2> QED
    BY <2>2, <2>3
<1>4. CASE Flush
  <2>1. Len(writes') = 1 /\ items' = items /\ strand' = strand /\ writes # <<>>
        /\ Head(writes') = [Head(writes) EXCEPT !.flushed = TRUE]
    BY <1>4, FlushEffect
  <2>2. strand = "free" /\ items # <<>> /\ Head(writes).req = Head(items).req
        /\ Head(writes) \in WritesTo(arrived)
    BY <2>1, OnlyWrite DEF WriteInv
  <2>3. Head(writes').req = Head(writes).req
    BY <2>1, <2>2 DEF WritesTo
  <2> QED
    BY <1>b, <2>1, <2>2, <2>3
<1>5. CASE QueueStutters
  BY <1>5 DEF QueueStutters, WriteInv, SingleWrite
<1> QED
  BY <1>1, <1>2, <1>3, <1>4, <1>5, StrandSteps

-----------------------------------------------------------------------------
(* A read is outstanding only while the queue has room for its response,   *)
(* and none is when the write that completes found the queue full.         *)
ReadInv ==
    /\ SingleRead
    /\ QueueLimited
    /\ (reads = 1 \/ strand = "erased") => Len(items) < Limit
    /\ wasFull => strand = "erased" /\ reads = 0

(* What the erase does to the queue: the first item goes. *)
LEMMA EraseEffect ==
  ASSUME Typed, WriteInv, OnWriteErase
  PROVE  /\ writes # <<>> /\ Head(writes).flushed /\ writes' = <<>> /\ items # <<>>
         /\ items' = Tail(items) /\ Len(items') = Len(items) - 1 /\ Len(items) \in Nat \ {0}
         /\ (\A i \in 1..Len(items') : items'[i] = items[i + 1])
         /\ strand = "free" /\ strand' = "erased" /\ wasFull' = IsFull(items)
         /\ underflow' = underflow
         /\ UNCHANGED <<socket, reads, arrived, keepOf, wire, broken>>
<1>0. items \in Seq(ItemsTo(arrived)) /\ underflow \in BOOLEAN
  BY DEF Typed, QueueTypeOK, ConnTypeOK
<1>1. writes # <<>> /\ Head(writes).flushed /\ writes' = Tail(writes) /\ items' = Rest(items)
      /\ strand' = "erased" /\ wasFull' = IsFull(items)
      /\ underflow' = (underflow \/ items = <<>>)
      /\ UNCHANGED <<socket, reads, arrived, keepOf, wire, broken>>
  BY DEF OnWriteErase, WriteReady
<1>2. items # <<>> /\ Len(items) \in Nat \ {0} /\ strand = "free" /\ Tail(writes) = <<>>
  BY <1>1, OnlyWrite
<1>3. items' = Tail(items)
  BY <1>1, <1>2 DEF Rest
<1>4. Len(items') = Len(items) - 1 /\ \A i \in 1..Len(items') : items'[i] = items[i + 1]
  BY <1>0, <1>2, <1>3, HeadTailProperties
<1>5. underflow' = underflow
  BY <1>0, <1>1, <1>2
<1> QED
  BY <1>1, <1>2, <1>3, <1>4, <1>5

LEMMA ReadStep == Typed /\ WriteInv /\ ReadInv /\ [StrandNext]_vars => ReadInv'
<1> SUFFICES ASSUME Typed, WriteInv, ReadInv, [StrandNext]_vars PROVE ReadInv'
  OBVIOUS
<1>0. reads \in Nat /\ Len(items) \in Nat /\ Limit \in Nat \ {0}
  BY HttpAssumption, LenProperties DEF Typed, ReadTypeOK, QueueTypeOK
<1>i. reads <= 1 /\ Len(items) <= Limit
      /\ ((reads = 1 \/ strand = "erased") => Len(items) < Limit)
      /\ (wasFull => strand = "erased" /\ reads = 0)
  BY DEF ReadInv, SingleRead, QueueLimited
<1>1. ASSUME NEW keep \in BOOLEAN, OnReadSync(keep) PROVE ReadInv'
  <2>1. strand = "free" /\ strand' = "free" /\ reads > 0 /\ wasFull' = wasFull
        /\ Len(items') = Len(items) + 1
    BY <1>1, SyncEffect
  <2>2. reads = 1 /\ Len(items) < Limit /\ ~wasFull
    BY <1>0, <1>i, <2>1
  <2>3. Len(items') <= Limit
    BY <1>0, <2>1, <2>2
  <2>4. (Len(items') >= Limit /\ reads' = 0) \/ (Len(items') < Limit /\ reads' = 1)
    <3>1. CASE Len(items') >= Limit
      <4>1. reads' = reads - 1
        BY <1>1, <3>1 DEF OnReadSync, ReadMoreUnlessFull, IsFull
      <4> QED
        BY <2>2, <3>1, <4>1
    <3>2. CASE ~(Len(items') >= Limit)
      <4>1. reads' = (reads - 1) + 1
        BY <1>1, <3>2 DEF OnReadSync, ReadMoreUnlessFull, IsFull, Read
      <4> QED
        BY <1>0, <2>1, <2>2, <3>2, <4>1
    <3> QED
      BY <3>1, <3>2
  <2>5. reads' <= 1 /\ (reads' = 1 => Len(items') < Limit)
    BY <2>4
  <2>6. strand' # "erased" /\ ~wasFull'
    BY <2>1, <2>2
  <2> QED
    BY <2>3, <2>5, <2>6 DEF ReadInv, SingleRead, QueueLimited
<1>2. CASE OnWriteErase
  <2>1. Len(items') = Len(items) - 1 /\ Len(items) \in Nat \ {0} /\ strand' = "erased"
        /\ wasFull' = IsFull(items) /\ reads' = reads /\ strand = "free"
    BY <1>2, EraseEffect
  <2>2. Len(items') < Limit /\ Len(items') <= Limit
    BY <1>0, <1>i, <2>1
  <2>3. wasFull' => reads' = 0
    <3>1. IsFull(items) => reads = 0
      BY <1>0, <1>i DEF IsFull
    <3> QED
      BY <2>1, <3>1
  <2>4. reads' <= 1
    BY <1>i, <2>1
  <2> QED
    BY <2>1, <2>2, <2>3, <2>4 DEF ReadInv, SingleRead, QueueLimited
<1>3. CASE OnWriteNext
  <2>1. strand = "erased" /\ strand' = "free" /\ ~wasFull' /\ items' = items
        /\ (wasFull => reads' = reads + 1) /\ (~wasFull => reads' = reads)
    BY <1>3 DEF OnWriteNext, ResumeReading, Read
  <2>2. Len(items') < Limit /\ Len(items') <= Limit
    BY <1>0, <1>i, <2>1
  <2>3. reads' <= 1
    BY <1>0, <1>i, <2>1
  <2> QED
    BY <2>1, <2>2, <2>3 DEF ReadInv, SingleRead, QueueLimited
<1>4. CASE OnWriteClose \/ OnWriteError
  <2>1. UNCHANGED <<reads, items, strand, wasFull>>
    BY <1>4 DEF OnWriteClose, OnWriteError
  <2> QED
    BY <1>i, <2>1 DEF ReadInv, SingleRead, QueueLimited
<1>5. CASE Flush
  <2>1. UNCHANGED <<reads, items, strand, wasFull>>
    BY <1>5, FlushEffect
  <2> QED
    BY <1>i, <2>1 DEF ReadInv, SingleRead, QueueLimited
<1>6. CASE QueueStutters
  <2>1. UNCHANGED <<items, strand, wasFull>> /\ (reads' = reads \/ (reads > 0 /\ reads' = reads - 1))
        /\ (reads' # reads => strand = "free")
    BY <1>6 DEF QueueStutters
  <2>2. reads' <= 1 /\ (reads' = 1 => reads = 1) /\ (reads = 0 => reads' = 0)
    BY <1>0, <1>i, <2>1
  <2> QED
    BY <1>i, <2>1, <2>2 DEF ReadInv, SingleRead, QueueLimited
<1> QED
  BY <1>1, <1>2, <1>3, <1>4, <1>5, <1>6, StrandSteps

-----------------------------------------------------------------------------
(* While nothing has gone wrong, a queued response is being written. *)
HealthyInv ==
    socket = "open" /\ ~broken =>
        /\ strand = "free" /\ items # <<>> => writes # <<>>
        /\ reads = 0 => (strand = "erased" /\ wasFull) \/ (IsFull(items) /\ writes # <<>>)

LEMMA HealthyDeaf == HealthyInv <=> NeverDeaf /\ (socket = "open" /\ ~broken /\ strand = "free"
                                                  /\ items # <<>> => writes # <<>>)
  BY DEF HealthyInv, NeverDeaf

LEMMA HealthyStep ==
  Typed /\ WriteInv /\ ReadInv /\ HealthyInv /\ [StrandNext]_vars => HealthyInv'
<1> SUFFICES ASSUME Typed, WriteInv, ReadInv, HealthyInv, [StrandNext]_vars,
                    socket' = "open", ~broken'
             PROVE  /\ strand' = "free" /\ items' # <<>> => writes' # <<>>
                    /\ reads' = 0 => \/ strand' = "erased" /\ wasFull'
                                     \/ IsFull(items') /\ writes' # <<>>
  BY DEF HealthyInv, IsFull
<1>0. reads \in Nat /\ reads <= 1
  BY DEF Typed, ReadTypeOK, ReadInv, SingleRead
<1>1. ASSUME NEW keep \in BOOLEAN, OnReadSync(keep)
      PROVE  writes' # <<>> /\ (reads' = 0 => IsFull(items'))
  <2>1. socket = "open" /\ ~broken /\ strand = "free" /\ reads > 0
    BY <1>1, SyncEffect
  <2>2. writes' # <<>>
    <3>1. CASE items = <<>>
      <4>1. writes = <<>> /\ writes' = Started(Head(items'))
        BY <1>1, <3>1, SyncEffect DEF WriteInv
      <4> QED
        BY <4>1, StartedAlone
    <3>2. CASE items # <<>>
      <4>1. writes' = writes
        BY <1>1, <3>2, SyncEffect
      <4> QED
        BY <2>1, <3>2, <4>1 DEF HealthyInv
    <3> QED
      BY <3>1, <3>2
  <2>3. IsFull(items') \/ reads' = (reads - 1) + 1
    BY <1>1 DEF OnReadSync, ReadMoreUnlessFull, Read
  <2>4. reads' = 0 => IsFull(items')
    BY <1>0, <2>1, <2>3
  <2> QED
    BY <2>2, <2>4
<1>2. ~OnWriteClose
  BY DEF OnWriteClose
<1>3. ~OnWriteError
  BY DEF OnWriteError
<1>4. CASE OnWriteErase
  <2>1. socket = "open" /\ ~broken /\ strand = "free" /\ strand' = "erased" /\ reads' = reads
        /\ wasFull' = IsFull(items)
    BY <1>4, EraseEffect
  <2> QED
    BY <2>1 DEF HealthyInv
<1>5. CASE OnWriteNext
  <2>1. strand = "erased" /\ strand' = "free" /\ items' = items /\ socket = "open" /\ ~broken
        /\ (wasFull => reads' = reads + 1) /\ (~wasFull => reads' = reads)
        /\ writes' = (IF items = <<>> THEN writes ELSE Started(Head(items)))
    BY <1>5 DEF OnWriteNext, ResumeReading, Read, StartFront
  <2>2. writes = <<>>
    BY <2>1 DEF WriteInv
  <2>3. items # <<>> => writes' # <<>>
    BY <2>1, <2>2, StartedAlone
  <2>4. reads = 0 => wasFull
    BY <2>1, <2>2 DEF HealthyInv
  <2>5. reads' # 0
    BY <1>0, <2>1, <2>4
  <2> QED
    BY <2>1, <2>3, <2>5
<1>6. CASE Flush
  <2>1. writes' # <<>> /\ UNCHANGED <<socket, broken, reads, items, strand, wasFull>>
    BY <1>6, FlushEffect
  <2> QED
    BY <2>1 DEF HealthyInv, IsFull
<1>7. CASE QueueStutters
  <2>1. UNCHANGED <<socket, broken, reads, items, writes, strand, wasFull>>
    BY <1>7 DEF QueueStutters
  <2> QED
    BY <2>1 DEF HealthyInv, IsFull
<1> QED
  BY <1>1, <1>2, <1>3, <1>4, <1>5, <1>6, <1>7, StrandSteps

-----------------------------------------------------------------------------
(* The queue holds its responses in the order of the requests, none of     *)
(* them before one the client has; the first may be with the client until  *)
(* on_write erases it, the others are not.                                 *)
QueueInOrder ==
    \A i, j \in 1..Len(items) : i < j => items[i].req < items[j].req

ClientBehind ==
    \A i \in 1..Len(wire), j \in 1..Len(items) : wire[i] <= items[j].req

ClientStrictlyBehind ==
    \A i \in 1..Len(wire), j \in 1..Len(items) : wire[i] < items[j].req

OrderInv ==
    /\ QueueInOrder
    /\ ClientBehind
    /\ (strand = "erased" \/ (writes # <<>> /\ ~Head(writes).flushed)) => ClientStrictlyBehind
    /\ ResponsesInOrder

LEMMA Numbers ==
  ASSUME Typed
  PROVE  /\ arrived \in Nat /\ Len(items) \in Nat /\ Len(wire) \in Nat
         /\ (\A i \in 1..Len(items) : items[i].req \in 1..arrived)
         /\ (\A i \in 1..Len(wire) : wire[i] \in 1..arrived)
<1>0. items \in Seq(ItemsTo(arrived)) /\ wire \in Seq(1..arrived) /\ arrived \in Nat
  BY DEF Typed, QueueTypeOK, ReadTypeOK
<1>1. \A i \in 1..Len(items) : items[i] \in ItemsTo(arrived)
  BY <1>0, ElementOfSeq
<1>2. \A i \in 1..Len(wire) : wire[i] \in 1..arrived
  BY <1>0, ElementOfSeq
<1>3. Len(items) \in Nat /\ Len(wire) \in Nat
  BY <1>0, LenProperties
<1> QED
  BY <1>0, <1>1, <1>2, <1>3 DEF ItemsTo

LEMMA OrderStep == Typed /\ WriteInv /\ OrderInv /\ [StrandNext]_vars => OrderInv'
<1> SUFFICES ASSUME Typed, WriteInv, OrderInv, [StrandNext]_vars PROVE OrderInv'
  OBVIOUS
<1>0. /\ arrived \in Nat /\ Len(items) \in Nat /\ Len(wire) \in Nat
      /\ (\A i \in 1..Len(items) : items[i].req \in 1..arrived)
      /\ (\A i \in 1..Len(wire) : wire[i] \in 1..arrived)
  BY Numbers
<1>i. QueueInOrder /\ ClientBehind /\ ResponsesInOrder
  BY DEF OrderInv
<1>1. ASSUME NEW keep \in BOOLEAN, OnReadSync(keep) PROVE OrderInv'
  <2>1. /\ strand' # "erased" /\ wire' = wire
        /\ Len(items') = Len(items) + 1
        /\ (\A i \in 1..Len(items) : items'[i] = items[i])
        /\ items'[Len(items) + 1].req = arrived + 1
    <3>1. items'[Len(items) + 1] = [req |-> arrived + 1, keep |-> keep]
      BY <1>1, SyncEffect
    <3>2. items'[Len(items) + 1].req = arrived + 1
      BY <3>1
    <3> QED
      BY <1>1, <3>2, SyncEffect
  <2>a. \A j \in 1..Len(items') : j \in 1..Len(items) \/ j = Len(items) + 1
    BY <1>0, <2>1
  <2>2. QueueInOrder'
    <3> SUFFICES ASSUME NEW i \in 1..Len(items'), NEW j \in 1..Len(items'), i < j
                 PROVE  items'[i].req < items'[j].req
      BY DEF QueueInOrder
    <3>1. i \in 1..Len(items)
      BY <1>0, <2>1
    <3>2. CASE j \in 1..Len(items)
      BY <1>i, <2>1, <3>1, <3>2 DEF QueueInOrder
    <3>3. CASE j = Len(items) + 1
      BY <1>0, <2>1, <3>1, <3>3
    <3> QED
      BY <2>a, <3>2, <3>3
  <2>3. ClientBehind'
    <3> SUFFICES ASSUME NEW i \in 1..Len(wire), NEW j \in 1..Len(items')
                 PROVE  wire[i] <= items'[j].req
      BY <2>1 DEF ClientBehind
    <3>1. CASE j \in 1..Len(items)
      BY <1>i, <2>1, <3>1 DEF ClientBehind
    <3>2. CASE j = Len(items) + 1
      BY <1>0, <2>1, <3>2
    <3> QED
      BY <2>a, <3>1, <3>2
  <2>4. writes' # <<>> /\ ~Head(writes').flushed => ClientStrictlyBehind'
    <3>1. CASE items # <<>>
      <4> SUFFICES ASSUME writes' # <<>>, ~Head(writes').flushed PROVE ClientStrictlyBehind'
        OBVIOUS
      <4>1. writes' = writes
        BY <1>1, <3>1, SyncEffect
      <4>2. ClientStrictlyBehind
        BY <4>1 DEF OrderInv
      <4> QED
        BY <1>0, <2>1, <4>2 DEF ClientStrictlyBehind
    <3>2. CASE items = <<>>
      <4>1. Len(items) = 0
        BY <3>2
      <4> QED
        BY <1>0, <2>1, <4>1 DEF ClientStrictlyBehind
    <3> QED
      BY <3>1, <3>2
  <2>5. ResponsesInOrder'
    BY <1>i, <2>1 DEF ResponsesInOrder
  <2> QED
    BY <2>1, <2>2, <2>3, <2>4, <2>5 DEF OrderInv
<1>2. CASE OnWriteClose \/ OnWriteError
  <2>1. writes # <<>> /\ writes' = Tail(writes) /\ UNCHANGED <<items, wire, strand>>
    BY <1>2 DEF OnWriteClose, OnWriteError, WriteReady
  <2>2. writes' = <<>> /\ strand' # "erased"
    BY <2>1, OnlyWrite
  <2> QED
    BY <1>i, <2>1, <2>2 DEF OrderInv, QueueInOrder, ClientBehind, ResponsesInOrder
<1>3. CASE OnWriteErase
  <2>1. /\ wire' = wire /\ Len(items') = Len(items) - 1 /\ Len(items) \in Nat \ {0}
        /\ (\A i \in 1..Len(items') : items'[i] = items[i + 1])
    BY <1>3, EraseEffect
  <2>2. QueueInOrder'
    <3> SUFFICES ASSUME NEW i \in 1..Len(items'), NEW j \in 1..Len(items'), i < j
                 PROVE  items'[i].req < items'[j].req
      BY DEF QueueInOrder
    <3>1. i + 1 \in 1..Len(items) /\ j + 1 \in 1..Len(items) /\ i + 1 < j + 1
      BY <1>0, <2>1
    <3>2. items[i + 1].req < items[j + 1].req
      BY <1>i, <3>1 DEF QueueInOrder
    <3> QED
      BY <2>1, <3>2
  <2>3. ClientStrictlyBehind'
    <3> SUFFICES ASSUME NEW i \in 1..Len(wire), NEW j \in 1..Len(items')
                 PROVE  wire[i] < items'[j].req
      BY <2>1 DEF ClientStrictlyBehind
    <3>1. wire[i] <= items[1].req /\ items[1].req < items[j + 1].req /\ j + 1 \in 1..Len(items)
          /\ 1 \in 1..Len(items)
      BY <1>0, <1>i, <2>1 DEF ClientBehind, QueueInOrder
    <3>2. wire[i] \in Int /\ items[1].req \in Int /\ items[j + 1].req \in Int
      BY <1>0, <3>1
    <3> QED
      BY <2>1, <3>1, <3>2
  <2>4. Typed'
    BY StrandIsNext, TypeStep
  <2>5. /\ (\A i \in 1..Len(items') : items'[i].req \in Int)
        /\ (\A i \in 1..Len(wire') : wire'[i] \in Int)
    BY <2>4, Numbers, <1>0, <2>1
  <2>6. ClientBehind'
    BY <2>3, <2>5 DEF ClientBehind, ClientStrictlyBehind
  <2>7. ResponsesInOrder'
    BY <1>i, <2>1 DEF ResponsesInOrder
  <2> QED
    BY <2>2, <2>3, <2>6, <2>7 DEF OrderInv
<1>4. CASE OnWriteNext
  <2>1. strand = "erased" /\ UNCHANGED <<items, wire>>
    BY <1>4 DEF OnWriteNext
  <2>2. ClientStrictlyBehind
    BY <2>1 DEF OrderInv
  <2> QED
    BY <1>i, <2>1, <2>2 DEF OrderInv, QueueInOrder, ClientBehind, ClientStrictlyBehind,
                            ResponsesInOrder
<1>5. CASE Flush
  <2>1. /\ writes # <<>> /\ ~Head(writes).flushed /\ wire' = Append(wire, items[1].req)
        /\ items' = items /\ strand' = strand
        /\ Head(writes') = [Head(writes) EXCEPT !.flushed = TRUE]
    BY <1>5, FlushEffect
  <2>2. ClientStrictlyBehind
    BY <2>1 DEF OrderInv
  <2>3. strand' # "erased" /\ Len(items) \in Nat \ {0} /\ Head(writes) \in WritesTo(arrived)
    BY <2>1, OnlyWrite
  <2>4. Head(writes').flushed
    BY <2>1, <2>3 DEF WritesTo
  <2>5. wire \in Seq(1..arrived) /\ items[1].req \in 1..arrived
    BY <1>0, <2>3 DEF Typed, QueueTypeOK
  <2>6. /\ Len(wire') = Len(wire) + 1
        /\ (\A i \in 1..Len(wire) : wire'[i] = wire[i])
        /\ wire'[Len(wire) + 1] = items[1].req
    BY <2>1, <2>5, AppendProperties
  <2>7. ClientBehind'
    <3> SUFFICES ASSUME NEW i \in 1..Len(wire'), NEW j \in 1..Len(items)
                 PROVE  wire'[i] <= items[j].req
      BY <2>1 DEF ClientBehind
    <3>1. CASE i \in 1..Len(wire)
      BY <1>i, <2>6, <3>1 DEF ClientBehind
    <3>2. CASE i = Len(wire) + 1
      <4>1. CASE j = 1
        BY <1>0, <2>6, <3>2, <4>1
      <4>2. CASE j > 1
        <5>1. items[1].req < items[j].req
          BY <1>0, <1>i, <2>3, <4>2 DEF QueueInOrder
        <5> QED
          BY <1>0, <2>3, <2>6, <3>2, <5>1
      <4> QED
        BY <1>0, <4>1, <4>2
    <3> QED
      BY <1>0, <2>6, <3>1, <3>2
  <2>8. ResponsesInOrder'
    <3> SUFFICES ASSUME NEW i \in 1..Len(wire'), NEW j \in 1..Len(wire'), i < j
                 PROVE  wire'[i] < wire'[j]
      BY DEF ResponsesInOrder
    <3>1. i \in 1..Len(wire) /\ (j \in 1..Len(wire) \/ j = Len(wire) + 1)
      BY <1>0, <2>6
    <3>2. CASE j \in 1..Len(wire)
      BY <1>i, <2>6, <3>1, <3>2 DEF ResponsesInOrder
    <3>3. CASE j = Len(wire) + 1
      <4>1. wire[i] < items[1].req
        BY <2>2, <2>3, <3>1 DEF ClientStrictlyBehind
      <4> QED
        BY <2>6, <3>1, <3>3, <4>1
    <3> QED
      BY <3>1, <3>2, <3>3
  <2>9. QueueInOrder'
    BY <1>i, <2>1 DEF QueueInOrder
  <2> QED
    BY <2>3, <2>1, <2>4, <2>7, <2>8, <2>9 DEF OrderInv
<1>6. CASE QueueStutters
  BY <1>6 DEF QueueStutters, OrderInv, QueueInOrder, ClientBehind, ClientStrictlyBehind,
              ResponsesInOrder
<1> QED
  BY <1>1, <1>2, <1>3, <1>4, <1>5, <1>6, StrandSteps

-----------------------------------------------------------------------------
(* A response queued by on_read itself carries its request's keep-alive. *)
LEMMA SyncKeepsAlive ==
  ASSUME Typed, KeepAliveOfRequest, NEW keep \in BOOLEAN, OnReadSync(keep)
  PROVE  KeepAliveOfRequest'
<1>0. /\ arrived \in Nat /\ Len(items) \in Nat
      /\ (\A i \in 1..Len(items) : items[i].req \in 1..arrived)
      /\ keepOf \in [Reqs -> BOOLEAN]
  BY Numbers DEF Typed, ConnTypeOK
<1>1. /\ Len(items') = Len(items) + 1 /\ arrived + 1 \in Reqs
      /\ (\A i \in 1..Len(items) : items'[i] = items[i])
      /\ items'[Len(items) + 1] = [req |-> arrived + 1, keep |-> keep]
      /\ keepOf' = [keepOf EXCEPT ![arrived + 1] = keep]
  BY SyncEffect
<1> SUFFICES ASSUME NEW i \in 1..Len(items')
             PROVE  items'[i].keep = keepOf'[items'[i].req]
  BY DEF KeepAliveOfRequest
<1>2. CASE i \in 1..Len(items)
  <2>1. items[i].keep = keepOf[items[i].req] /\ items'[i] = items[i]
    BY <1>1, <1>2 DEF KeepAliveOfRequest
  <2>a. arrived + 1 \in 1..MaxRequests /\ MaxRequests \in Nat
    BY <1>1, HttpAssumption DEF Reqs
  <2>b. items[i].req \in 1..arrived
    BY <1>0, <1>2
  <2>2. items[i].req \in Reqs /\ items[i].req # arrived + 1
    BY <1>0, <2>a, <2>b DEF Reqs
  <2> QED
    BY <1>0, <1>1, <2>1, <2>2
<1>3. CASE i = Len(items) + 1
  <2>1. items'[i].req = arrived + 1 /\ items'[i].keep = keep
    BY <1>1, <1>3
  <2>2. keepOf'[arrived + 1] = keep
    BY <1>0, <1>1
  <2> QED
    BY <2>1, <2>2
<1> QED
  BY <1>0, <1>1, <1>2, <1>3

LEMMA KeepAliveStep ==
  Typed /\ WriteInv /\ KeepAliveOfRequest /\ [StrandNext]_vars => KeepAliveOfRequest'
<1> SUFFICES ASSUME Typed, WriteInv, KeepAliveOfRequest, [StrandNext]_vars
             PROVE  KeepAliveOfRequest'
  OBVIOUS
<1>0. /\ arrived \in Nat /\ Len(items) \in Nat
      /\ (\A i \in 1..Len(items) : items[i].req \in 1..arrived)
      /\ keepOf \in [Reqs -> BOOLEAN]
  BY Numbers DEF Typed, ConnTypeOK
<1>1. ASSUME NEW keep \in BOOLEAN, OnReadSync(keep) PROVE KeepAliveOfRequest'
  BY <1>1, SyncKeepsAlive
<1>2. CASE OnWriteErase
  <2>1. /\ Len(items') = Len(items) - 1 /\ keepOf' = keepOf
        /\ (\A i \in 1..Len(items') : items'[i] = items[i + 1])
    BY <1>2, EraseEffect
  <2> SUFFICES ASSUME NEW i \in 1..Len(items')
               PROVE  items'[i].keep = keepOf'[items'[i].req]
    BY DEF KeepAliveOfRequest
  <2>2. i + 1 \in 1..Len(items) /\ items'[i] = items[i + 1]
    BY <1>0, <2>1
  <2> QED
    BY <2>1, <2>2 DEF KeepAliveOfRequest
<1>3. CASE OnWriteClose \/ OnWriteNext \/ OnWriteError \/ Flush \/ QueueStutters
  <2>1. UNCHANGED <<items, keepOf>>
    BY <1>3 DEF OnWriteClose, OnWriteNext, OnWriteError, Flush, QueueStutters
  <2> QED
    BY <2>1 DEF KeepAliveOfRequest
<1> QED
  BY <1>1, <1>2, <1>3, StrandSteps

LEMMA UnderflowStep ==
  Typed /\ WriteInv /\ NoUnderflow /\ [StrandNext]_vars => NoUnderflow'
<1> SUFFICES ASSUME Typed, WriteInv, NoUnderflow, [StrandNext]_vars
             PROVE  underflow' = underflow
  BY DEF NoUnderflow
<1>1. CASE \E keep \in BOOLEAN : OnReadSync(keep)
  BY <1>1, SyncEffect
<1>2. CASE OnWriteErase
  BY <1>2, EraseEffect
<1>3. CASE OnWriteClose \/ OnWriteNext \/ OnWriteError \/ Flush \/ QueueStutters
  BY <1>3 DEF OnWriteClose, OnWriteNext, OnWriteError, Flush, QueueStutters
<1> QED
  BY <1>1, <1>2, <1>3, StrandSteps

-----------------------------------------------------------------------------
(* The inductive invariant of a connection that the strand serves alone. *)
StrandInv ==
    /\ Typed /\ WriteInv /\ ReadInv /\ HealthyInv /\ OrderInv
    /\ KeepAliveOfRequest /\ NoUnderflow

LEMMA StrandInit == Init => StrandInv
<1> SUFFICES ASSUME Init PROVE StrandInv
  OBVIOUS
<1>0. items = <<>> /\ writes = <<>> /\ wire = <<>> /\ reads = 1 /\ strand = "free"
      /\ ~wasFull /\ ~underflow
  BY DEF Init
<1>1. Len(items) = 0 /\ Len(writes) = 0 /\ Len(wire) = 0
  BY <1>0
<1>2. WriteInv
  BY <1>0, <1>1 DEF WriteInv, SingleWrite
<1>3. ReadInv
  <2>1. 0 < Limit /\ 0 <= Limit /\ 1 <= 1
    BY HttpAssumption
  <2> QED
    BY <1>0, <1>1, <2>1 DEF ReadInv, SingleRead, QueueLimited
<1>4. HealthyInv
  BY <1>0 DEF HealthyInv
<1>5. OrderInv
  BY <1>1 DEF OrderInv, QueueInOrder, ClientBehind, ClientStrictlyBehind, ResponsesInOrder
<1>6. KeepAliveOfRequest /\ NoUnderflow
  BY <1>0, <1>1 DEF KeepAliveOfRequest, NoUnderflow
<1> QED
  BY <1>2, <1>3, <1>4, <1>5, <1>6, TypeInit DEF StrandInv

LEMMA StrandAlways == StrandSpec => []StrandInv
<1>1. StrandInv /\ [StrandNext]_vars => StrandInv'
  BY StrandIsNext, TypeStep, WriteStep, ReadStep, HealthyStep, OrderStep, KeepAliveStep,
     UnderflowStep DEF StrandInv
<1> QED
  BY <1>1, StrandInit, PTL DEF StrandSpec

(* req_ belongs to one async_read at a time (SingleRead): on_read reads    *)
(* again, or on_write does because the queue was full, never both.         *)
THEOREM OneReadAtATime == StrandSpec => []SingleRead
<1>1. StrandInv => SingleRead
  BY DEF StrandInv, ReadInv
<1> QED
  BY <1>1, StrandAlways, PTL

(* At most one async_write is outstanding (SingleWrite): a response is     *)
(* started when it is alone, the next one after the erase.                 *)
THEOREM OneWriteAtATime == StrandSpec => []SingleWrite
<1>1. StrandInv => SingleWrite
  BY DEF StrandInv, WriteInv
<1> QED
  BY <1>1, StrandAlways, PTL

(* The queue never exceeds queue::limit (QueueLimited): a read is          *)
(* outstanding only while there is room for its response.                  *)
THEOREM QueueAlwaysLimited == StrandSpec => []QueueLimited
<1>1. StrandInv => QueueLimited
  BY DEF StrandInv, ReadInv
<1> QED
  BY <1>1, StrandAlways, PTL

(* Responses reach the client in the order of the requests, none twice     *)
(* (ResponsesInOrder), also around a close, an error or a full queue.      *)
THEOREM ClientSeesRequestOrder == StrandSpec => []ResponsesInOrder
<1>1. StrandInv => ResponsesInOrder
  BY DEF StrandInv, OrderInv
<1> QED
  BY <1>1, StrandAlways, PTL

(* An open, healthy connection without a read outstanding has a full queue *)
(* and a write that will resume reading (NeverDeaf).                       *)
THEOREM ConnectionNeverDeaf == StrandSpec => []NeverDeaf
<1>1. StrandInv => NeverDeaf
  BY HealthyDeaf DEF StrandInv
<1> QED
  BY <1>1, StrandAlways, PTL

(* BOOST_ASSERT (!items_.empty ()) holds when the strand alone answers     *)
(* (NoUnderflow); the run with work requests violates it.                  *)
THEOREM StrandNeverUnderflows == StrandSpec => []NoUnderflow
<1>1. StrandInv => NoUnderflow
  BY DEF StrandInv
<1> QED
  BY <1>1, StrandAlways, PTL

(* A response closes the connection exactly when its own request asked for *)
(* it (KeepAliveOfRequest), when the strand alone answers.                 *)
THEOREM StrandKeepsAlive == StrandSpec => []KeepAliveOfRequest
<1>1. StrandInv => KeepAliveOfRequest
  BY DEF StrandInv
<1> QED
  BY <1>1, StrandAlways, PTL

-----------------------------------------------------------------------------
(* A client that waits for each response, with responses from the pool: at *)
(* most the last request is with the work handler, nothing of it is queued *)
(* or sent yet, and the session's keep-alive is still that request's.      *)
LastPending ==
    /\ arrived > 0 => keepalive = keepOf[arrived]
    /\ pending \subseteq {arrived}

NothingOfPending ==
    /\ \A i \in 1..Len(items) : items[i].req \notin pending
    /\ \A i \in 1..Len(writes) : writes[i].req \notin pending
    /\ \A i \in 1..Len(wire) : wire[i] \notin pending

PolledInv == Typed /\ LastPending /\ NothingOfPending /\ KeepAliveOfRequest

(* The next request comes when the client has every response. *)
LEMMA NoneUnanswered ==
  ASSUME Window = 1, Typed, NothingOfPending, RequestSent
  PROVE  pending = {}
<1>0. arrived \in Nat /\ pending \subseteq 1..arrived
  BY DEF Typed, ReadTypeOK, PoolTypeOK
<1>1. PICK S : S = (1..arrived) \ {wire[i] : i \in 1..Len(wire)}
  OBVIOUS
<1>2. IsFiniteSet(1..arrived)
  BY <1>0, FS_Interval
<1>3. IsFiniteSet(S)
  BY <1>1, <1>2, FS_Subset
<1>4. Cardinality(S) \in Nat /\ Cardinality(S) < 1
  BY <1>1, <1>3, FS_CardinalityType DEF RequestSent
<1>5. S = {}
  BY <1>3, <1>4, FS_EmptySet
<1>6. \A r \in pending : \E i \in 1..Len(wire) : wire[i] = r
  BY <1>0, <1>1, <1>5
<1> QED
  BY <1>6 DEF NothingOfPending

(* Every write is of an item, and the next write is of the first one. *)
LEMMA StartedReqs ==
  ASSUME Typed, NothingOfPending, items # <<>>
  PROVE  \A i \in 1..Len(Started(Head(items))) : Started(Head(items))[i].req \notin pending
<1>0. items \in Seq(ItemsTo(arrived)) /\ writes \in Seq(WritesTo(arrived)) /\ arrived \in Nat
  BY DEF Typed, QueueTypeOK, ReadTypeOK
<1>1. Head(items) \in ItemsTo(arrived) /\ Head(items) = items[1] /\ 1 \in 1..Len(items)
  BY <1>0, HeadTailProperties, EmptySeq
<1>2. PICK w : w = [req |-> Head(items).req, close |-> ~Head(items).keep, flushed |-> FALSE]
  OBVIOUS
<1>3. w \in WritesTo(arrived) /\ w.req = items[1].req /\ Started(Head(items)) = Append(writes, w)
  BY <1>1, <1>2 DEF WritesTo, ItemsTo, Started
<1>4. Len(Append(writes, w)) = Len(writes) + 1 /\ Append(writes, w)[Len(writes) + 1] = w
      /\ \A i \in 1..Len(writes) : Append(writes, w)[i] = writes[i]
  BY <1>0, <1>3, AppendProperties
<1>5. w.req \notin pending
  BY <1>1, <1>3 DEF NothingOfPending
<1>6. Len(writes) \in Nat
  BY <1>0, LenProperties
<1>7. ASSUME NEW i \in 1..(Len(writes) + 1) PROVE Append(writes, w)[i].req \notin pending
  <2>1. CASE i \in 1..Len(writes)
    BY <1>4, <2>1 DEF NothingOfPending
  <2>2. CASE i = Len(writes) + 1
    BY <1>4, <1>5, <2>2
  <2> QED
    BY <1>6, <2>1, <2>2
<1> QED
  BY <1>3, <1>4, <1>7

LEMMA LastPendingStep ==
  ASSUME Window = 1, PolledInv, [Next]_vars
  PROVE  LastPending'
<1>0. arrived \in 0..MaxRequests /\ MaxRequests \in Nat /\ keepOf \in [Reqs -> BOOLEAN]
  BY HttpAssumption DEF PolledInv, Typed, ReadTypeOK, ConnTypeOK
<1>1. ASSUME NEW keep \in BOOLEAN, OnReadSync(keep) \/ OnReadAsync(keep) PROVE LastPending'
  <2>1. /\ arrived' = arrived + 1 /\ keepOf' = [keepOf EXCEPT ![arrived + 1] = keep]
        /\ keepalive' = keep /\ pending' \subseteq pending \cup {arrived + 1}
        /\ RequestSent
    BY <1>1 DEF OnReadSync, OnReadAsync, NoteKeepAlive
  <2>2. arrived + 1 \in Reqs
    BY <1>0, <2>1 DEF RequestSent, Reqs
  <2>3. keepOf'[arrived + 1] = keep
    BY <1>0, <2>1, <2>2
  <2>4. pending = {}
    BY <2>1, NoneUnanswered DEF PolledInv
  <2> QED
    BY <2>1, <2>3, <2>4 DEF LastPending
<1>2. CASE \/ \E r \in Reqs : PoolPush(r) \/ PoolKick(r)
           \/ OnWriteClose \/ OnWriteErase \/ OnWriteNext \/ OnWriteError \/ Flush
  <2>1. UNCHANGED <<arrived, keepOf, keepalive>> /\ pending' \subseteq pending
    BY <1>2 DEF PoolPush, PoolKick, OnWriteClose, OnWriteErase, OnWriteNext, OnWriteError, Flush
  <2> QED
    BY <2>1 DEF PolledInv, LastPending
<1>3. CASE OnReadUpgrade \/ OnReadEnd \/ OnReadError \/ Deadline \/ OnTimer
  BY <1>3 DEF OnReadUpgrade, OnReadEnd, OnReadError, Deadline, OnTimer, PolledInv, LastPending
<1>4. CASE Released \/ UNCHANGED vars
  BY <1>4 DEF Released, vars, PolledInv, LastPending
<1> QED
  BY <1>1, <1>2, <1>3, <1>4 DEF Next, StrandNext

LEMMA NothingOfPendingStep ==
  ASSUME Window = 1, PolledInv, [Next]_vars
  PROVE  NothingOfPending'
<1>t. Typed /\ NothingOfPending
  BY DEF PolledInv
<1>0. items \in Seq(ItemsTo(arrived)) /\ writes \in Seq(WritesTo(arrived))
      /\ wire \in Seq(1..arrived) /\ arrived \in Nat
  BY <1>t DEF Typed, QueueTypeOK, ReadTypeOK
<1>i. /\ \A i \in 1..Len(items) : items[i].req \notin pending
      /\ \A i \in 1..Len(writes) : writes[i].req \notin pending
      /\ \A i \in 1..Len(wire) : wire[i] \notin pending
  BY <1>t DEF NothingOfPending
<1>n. Len(items) \in Nat /\ Len(writes) \in Nat /\ Len(wire) \in Nat
  BY <1>0, LenProperties
<1>1. ASSUME NEW keep \in BOOLEAN, OnReadSync(keep) PROVE NothingOfPending'
  <2>1. pending' = {}
    BY <1>1, <1>t, NoneUnanswered DEF OnReadSync
  <2> QED
    BY <2>1 DEF NothingOfPending
<1>2. ASSUME NEW keep \in BOOLEAN, OnReadAsync(keep) PROVE NothingOfPending'
  <2>1. UNCHANGED <<items, writes, wire>> /\ pending' = {arrived + 1}
    BY <1>2, <1>t, NoneUnanswered DEF OnReadAsync
  <2>2. \A i \in 1..Len(items) : items[i].req \in 1..arrived
    <3>1. \A i \in 1..Len(items) : items[i] \in ItemsTo(arrived)
      BY <1>0, ElementOfSeq
    <3> QED
      BY <3>1 DEF ItemsTo
  <2>3. \A i \in 1..Len(writes) : writes[i].req \in 1..arrived
    <3>1. \A i \in 1..Len(writes) : writes[i] \in WritesTo(arrived)
      BY <1>0, ElementOfSeq
    <3> QED
      BY <3>1 DEF WritesTo
  <2>4. \A i \in 1..Len(wire) : wire[i] \in 1..arrived
    BY <1>0, ElementOfSeq
  <2>5. arrived + 1 \notin 1..arrived
    BY <1>0
  <2> QED
    BY <2>1, <2>2, <2>3, <2>4, <2>5 DEF NothingOfPending
<1>3. ASSUME NEW r \in Reqs, PoolPush(r) PROVE NothingOfPending'
  <2>1. PICK item : item = [req |-> r, keep |-> keepalive]
    OBVIOUS
  <2>2. r \in pending /\ pending' = pending \ {r} /\ items' = Append(items, item)
        /\ UNCHANGED <<writes, wire>>
    BY <1>3, <2>1 DEF PoolPush
  <2>3. item \in ItemsTo(arrived) /\ item.req = r
    BY <1>t, <2>1, <2>2 DEF Typed, PoolTypeOK, ConnTypeOK, ItemsTo
  <2>4. Len(items') = Len(items) + 1 /\ items'[Len(items) + 1] = item
        /\ \A i \in 1..Len(items) : items'[i] = items[i]
    BY <1>0, <2>2, <2>3, AppendProperties
  <2>5. ASSUME NEW i \in 1..Len(items') PROVE items'[i].req \notin pending'
    <3>1. CASE i \in 1..Len(items)
      BY <1>i, <2>2, <2>4, <3>1
    <3>2. CASE i = Len(items) + 1
      BY <2>2, <2>3, <2>4, <3>2
    <3> QED
      BY <1>n, <2>4, <3>1, <3>2
  <2> QED
    BY <1>i, <2>2, <2>5 DEF NothingOfPending
<1>a. ASSUME UNCHANGED <<items, wire, pending>>,
             writes' = writes \/ (items # <<>> /\ writes' = Started(Head(items)))
      PROVE  NothingOfPending'
  <2>1. \A i \in 1..Len(writes') : writes'[i].req \notin pending
    BY <1>a, <1>i, <1>t, StartedReqs
  <2> QED
    BY <1>a, <1>i, <2>1 DEF NothingOfPending
<1>4. ASSUME NEW r \in Reqs, PoolKick(r) PROVE NothingOfPending'
  <2>1. items = <<>> => Len(items) = 0
    OBVIOUS
  <2>2. Len(items) = 1 => items # <<>>
    BY <2>1
  <2> QED
    BY <1>4, <1>a, <2>2 DEF PoolKick, Alone
<1>5. CASE OnWriteNext
  BY <1>5, <1>a DEF OnWriteNext, StartFront
<1>b. ASSUME writes # <<>>, writes' = Tail(writes), UNCHANGED <<wire, pending>>,
             items' = items \/ items' = Rest(items)
      PROVE  NothingOfPending'
  <2>1. Len(Tail(writes)) = Len(writes) - 1
        /\ \A i \in 1..Len(Tail(writes)) : Tail(writes)[i] = writes[i + 1]
    BY <1>0, <1>b, HeadTailProperties
  <2>2. ASSUME NEW i \in 1..Len(writes') PROVE writes'[i].req \notin pending
    <3>1. i + 1 \in 1..Len(writes)
      BY <1>n, <1>b, <2>1
    <3> QED
      BY <1>i, <1>b, <2>1, <3>1
  <2>3. \A i \in 1..Len(items') : items'[i].req \notin pending
    <3>1. CASE items' = items
      BY <1>i, <3>1
    <3>2. CASE items # <<>> /\ items' = Tail(items)
      <4>1. Len(items') = Len(items) - 1 /\ \A i \in 1..Len(items') : items'[i] = items[i + 1]
        BY <1>0, <3>2, HeadTailProperties
      <4>2. \A i \in 1..Len(items') : i + 1 \in 1..Len(items)
        BY <1>n, <4>1
      <4> QED
        BY <1>i, <4>1, <4>2
    <3> QED
      BY <1>b, <3>1, <3>2 DEF Rest
  <2> QED
    BY <1>b, <1>i, <2>2, <2>3 DEF NothingOfPending
<1>6. CASE OnWriteClose \/ OnWriteErase \/ OnWriteError
  BY <1>6, <1>b DEF OnWriteClose, OnWriteErase, OnWriteError, WriteReady
<1>7. CASE Flush
  <2>1. PICK k \in 1..Len(writes) :
          writes' = [writes EXCEPT ![k].flushed = TRUE] /\ wire' = Append(wire, writes[k].req)
    BY <1>7 DEF Flush
  <2>2. UNCHANGED <<items, pending>>
    BY <1>7 DEF Flush
  <2>3. writes[k] \in WritesTo(arrived)
    BY <1>0, <2>1, ElementOfSeq
  <2>4. PICK w : w = [writes[k] EXCEPT !.flushed = TRUE]
    OBVIOUS
  <2>5. w \in WritesTo(arrived) /\ w.req = writes[k].req /\ writes[k].req \in 1..arrived
    BY <2>3, <2>4 DEF WritesTo
  <2>6. writes' = [writes EXCEPT ![k] = w]
    BY <2>1, <2>4
  <2>7. Len(writes') = Len(writes)
        /\ \A j \in 1..Len(writes) : writes'[j] = IF j = k THEN w ELSE writes[j]
    <3>1. \A s \in Seq(WritesTo(arrived)) : \A i \in 1..Len(s) :
             /\ Len([s EXCEPT ![i] = w]) = Len(s)
             /\ \A j \in 1..Len(s) : [s EXCEPT ![i] = w][j] = IF j = i THEN w ELSE s[j]
      BY <2>5, ExceptSeq
    <3>2. /\ Len([writes EXCEPT ![k] = w]) = Len(writes)
          /\ \A j \in 1..Len(writes) :
                [writes EXCEPT ![k] = w][j] = IF j = k THEN w ELSE writes[j]
      BY <1>0, <2>1, <3>1, Zenon
    <3> QED
      BY <2>6, <3>2, Zenon
  <2>8. \A i \in 1..Len(writes') : writes'[i].req \notin pending
    BY <1>i, <2>1, <2>5, <2>7
  <2>9. Len(wire') = Len(wire) + 1 /\ wire'[Len(wire) + 1] = writes[k].req
        /\ \A i \in 1..Len(wire) : wire'[i] = wire[i]
    BY <1>0, <2>1, <2>5, AppendProperties
  <2>10. ASSUME NEW i \in 1..Len(wire') PROVE wire'[i] \notin pending
    <3>1. CASE i \in 1..Len(wire)
      BY <1>i, <2>9, <3>1
    <3>2. CASE i = Len(wire) + 1
      BY <1>i, <2>1, <2>9, <3>2
    <3> QED
      BY <1>n, <2>9, <3>1, <3>2
  <2> QED
    BY <1>i, <2>2, <2>8, <2>10 DEF NothingOfPending
<1>8. CASE QueueStutters
  BY <1>8, <1>i DEF QueueStutters, NothingOfPending
<1> QED
  BY <1>1, <1>2, <1>3, <1>4, <1>5, <1>6, <1>7, <1>8, NextSteps

LEMMA PolledKeepAlive ==
  ASSUME Window = 1, PolledInv, [Next]_vars
  PROVE  KeepAliveOfRequest'
<1>0. /\ arrived \in Nat /\ Len(items) \in Nat
      /\ (\A i \in 1..Len(items) : items[i].req \in 1..arrived)
      /\ keepOf \in [Reqs -> BOOLEAN] /\ items \in Seq(ItemsTo(arrived))
  BY Numbers DEF PolledInv, Typed, ConnTypeOK, QueueTypeOK
<1>i. \A i \in 1..Len(items) : items[i].keep = keepOf[items[i].req]
  BY DEF PolledInv, KeepAliveOfRequest
<1>1. ASSUME NEW keep \in BOOLEAN, OnReadSync(keep) PROVE KeepAliveOfRequest'
  BY <1>1, SyncKeepsAlive DEF PolledInv
<1>2. ASSUME NEW keep \in BOOLEAN, OnReadAsync(keep) PROVE KeepAliveOfRequest'
  <2>1. items' = items /\ keepOf' = [keepOf EXCEPT ![arrived + 1] = keep] /\ arrived < MaxRequests
    BY <1>2 DEF OnReadAsync, RequestSent
  <2>a. 1..arrived \subseteq Reqs /\ arrived + 1 \notin 1..arrived
    BY <1>0, <2>1, HttpAssumption DEF Reqs
  <2>2. \A i \in 1..Len(items) : items[i].req \in Reqs /\ items[i].req # arrived + 1
    BY <1>0, <2>a
  <2>3. \A i \in 1..Len(items) : keepOf'[items[i].req] = keepOf[items[i].req]
    BY <1>0, <2>1, <2>2
  <2> QED
    BY <1>i, <2>1, <2>3 DEF KeepAliveOfRequest
<1>3. ASSUME NEW r \in Reqs, PoolPush(r) PROVE KeepAliveOfRequest'
  <2>1. PICK item : item = [req |-> r, keep |-> keepalive]
    OBVIOUS
  <2>2. r \in pending /\ items' = Append(items, item) /\ keepOf' = keepOf
    BY <1>3, <2>1 DEF PoolPush
  <2>3. item \in ItemsTo(arrived) /\ item.req = r /\ item.keep = keepalive
    BY <2>1, <2>2 DEF PolledInv, Typed, PoolTypeOK, ConnTypeOK, ItemsTo
  <2>4. r = arrived /\ arrived > 0
    BY <1>0, <2>2 DEF PolledInv, LastPending, Typed, PoolTypeOK
  <2>5. item.keep = keepOf[item.req]
    BY <2>3, <2>4 DEF PolledInv, LastPending
  <2>6. Len(items') = Len(items) + 1 /\ items'[Len(items) + 1] = item
        /\ \A i \in 1..Len(items) : items'[i] = items[i]
    BY <1>0, <2>2, <2>3, AppendProperties
  <2>7. ASSUME NEW i \in 1..Len(items') PROVE items'[i].keep = keepOf[items'[i].req]
    <3>1. CASE i \in 1..Len(items)
      BY <1>i, <2>6, <3>1
    <3>2. CASE i = Len(items) + 1
      BY <2>5, <2>6, <3>2
    <3> QED
      BY <1>0, <2>6, <3>1, <3>2
  <2> QED
    BY <2>2, <2>7 DEF KeepAliveOfRequest
<1>4. CASE OnWriteErase
  <2>1. keepOf' = keepOf /\ (items' = items \/ (items # <<>> /\ items' = Tail(items)))
    BY <1>4 DEF OnWriteErase, Rest
  <2>2. CASE items' = items
    BY <1>i, <2>1, <2>2 DEF KeepAliveOfRequest
  <2>3. CASE items # <<>> /\ items' = Tail(items)
    <3>1. Len(items') = Len(items) - 1 /\ \A i \in 1..Len(items') : items'[i] = items[i + 1]
      BY <1>0, <2>3, HeadTailProperties
    <3>2. \A i \in 1..Len(items') : i + 1 \in 1..Len(items)
      BY <1>0, <3>1
    <3> QED
      BY <1>i, <2>1, <3>1, <3>2 DEF KeepAliveOfRequest
  <2> QED
    BY <2>1, <2>2, <2>3
<1>5. CASE \/ \E r \in Reqs : PoolKick(r)
           \/ OnWriteClose \/ OnWriteNext \/ OnWriteError \/ Flush \/ QueueStutters
  <2>1. UNCHANGED <<items, keepOf>>
    BY <1>5 DEF PoolKick, OnWriteClose, OnWriteNext, OnWriteError, Flush, QueueStutters
  <2> QED
    BY <1>i, <2>1 DEF KeepAliveOfRequest
<1> QED
  BY <1>1, <1>2, <1>3, <1>4, <1>5, NextSteps

LEMMA PolledInit == Init => PolledInv
<1> SUFFICES ASSUME Init PROVE PolledInv
  OBVIOUS
<1>1. Len(items) = 0 /\ Len(writes) = 0 /\ Len(wire) = 0 /\ pending = {} /\ ~(arrived > 0)
  BY DEF Init
<1> QED
  BY <1>1, TypeInit DEF PolledInv, LastPending, NothingOfPending, KeepAliveOfRequest

LEMMA PolledStep ==
  ASSUME Window = 1
  PROVE  PolledInv /\ [Next]_vars => PolledInv'
  BY TypeStep, LastPendingStep, NothingOfPendingStep, PolledKeepAlive DEF PolledInv

(* For a client that waits for each response before it sends the next      *)
(* request (Window = 1), a response closes the connection exactly when its *)
(* own request asked so (KeepAliveOfRequest), although pool threads read   *)
(* the session's keep-alive long after the request.                        *)
THEOREM WaitingClientKeepsAlive ==
  ASSUME Window = 1
  PROVE  Spec => []KeepAliveOfRequest
<1>1. PolledInv => KeepAliveOfRequest
  BY DEF PolledInv
<1> QED
  BY <1>1, PolledInit, PolledStep, PTL DEF Spec
=============================================================================
