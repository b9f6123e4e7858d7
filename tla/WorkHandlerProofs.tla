------------------------- MODULE WorkHandlerProofs -------------------------
(***************************************************************************)
(* Machine-checked proofs about WorkHandler, for every number of devices,  *)
(* requests, readers and io threads.                                       *)
(***************************************************************************)
EXTENDS WorkHandler, FiniteSetTheorems, SequenceTheorems, TLAPS

(* A frame that has popped a job owns one. *)
FrameOK == \A t \in Threads : Owning(t) => job[t] \in Requests

AnswersOK == answers \in [Requests -> Seq(Answers)]

TypeInv == TypeOK /\ FrameOK

(* The variables of the io threads and of the queue requests never change  *)
(* in a step of the pool, and so on: TypeOK is shown part by part.         *)
LEMMA TypeInit == Init => TypeInv
<1> SUFFICES ASSUME Init PROVE TypeInv
  OBVIOUS
<1> USE ConstantsAssumption
<1>1. IoTypeOK
  BY DEF Init, IoTypeOK, Stages
<1>2. QueueTypeOK
  BY DEF Init, QueueTypeOK
<1>3. PoolTypeOK
  BY DEF Init, PoolTypeOK, ThreadPcs, Devices, Threads
<1>4. ReportTypeOK
  BY DEF Init, ReportTypeOK, ReaderPcs
<1>5. AnswersOK
  BY DEF Init, AnswersOK
<1>6. FrameOK
  BY DEF Init, FrameOK, Owning
<1> QED
  BY <1>1, <1>2, <1>3, <1>4, <1>5, <1>6 DEF TypeInv, TypeOK, AnswersOK

(* The history variable of Begin counts a finite set. *)
LEMMA RequestsBegun ==
  Cardinality({k \in Requests : stage[k] # "new"}) \in Nat
<1> DEFINE S == {k \in Requests : stage[k] # "new"}
<1>1. IsFiniteSet(S)
  BY FS_Subset, ConstantsAssumption
<1> QED
  BY <1>1, FS_CardinalityType

(* Answering any request, present or not, keeps the type of answers. *)
LEMMA AnswerType ==
  ASSUME AnswersOK, NEW r, NEW kind \in AnswerKinds,
         NEW j \in Requests \cup {None}, Answer(r, kind, j)
  PROVE  AnswersOK'
<1> DEFINE a == [kind |-> kind, job |-> j]
<1>1. a \in Answers
  BY DEF Answers
<1>2. \A x \in Requests : Append(answers[x], a) \in Seq(Answers)
  BY <1>1 DEF AnswersOK
<1>3. answers' = [answers EXCEPT ![r] = Append(answers[r], a)]
  BY DEF Answer
<1> HIDE DEF a
<1> QED
  BY <1>2, <1>3 DEF AnswersOK

(* Setting or clearing a flag keeps the type of busy. *)
LEMMA BusyType ==
  ASSUME busy \in [Devices -> BOOLEAN], NEW d, NEW b \in BOOLEAN
  PROVE  [busy EXCEPT ![d] = b] \in [Devices -> BOOLEAN]
  OBVIOUS

(* Each action keeps the type invariant; the parts it does not touch are   *)
(* shown together.                                                         *)
LEMMA TypeStep == TypeInv /\ [Next]_vars => TypeInv'
<1> SUFFICES ASSUME TypeInv, [Next]_vars
             PROVE  TypeInv'
  OBVIOUS
<1> USE ConstantsAssumption DEF TypeInv, TypeOK, AnswersOK
<1> USE DEF ioVars, poolVars, rpcVars, lockVars, histVars
<1>1. ASSUME NEW r \in Requests, NEW h \in Hashes \cup {NoHash},
             NEW p \in Priorities, Begin(r, h, p)
      PROVE  TypeInv'
  <2>1. IoTypeOK'
    BY <1>1, RequestsBegun DEF Begin, IoTypeOK, Stages
  <2>2. QueueTypeOK' /\ PoolTypeOK' /\ ReportTypeOK' /\ AnswersOK' /\ FrameOK'
    BY <1>1 DEF Begin, QueueTypeOK, PoolTypeOK, ReportTypeOK, AnswersOK, FrameOK, Owning
  <2> QED
    BY <2>1, <2>2
<1>2. ASSUME NEW r \in Requests, RequestStep(r)
      PROVE  TypeInv'
  <2>1. CASE Malformed(r)
    <3>1. IoTypeOK'
      BY <2>1 DEF Malformed, Answer, IoTypeOK, Stages
    <3>2. AnswersOK'
      BY <2>1, AnswerType DEF Malformed, AnswerKinds
    <3>3. QueueTypeOK' /\ PoolTypeOK' /\ ReportTypeOK' /\ FrameOK'
      BY <2>1 DEF Malformed, Answer, QueueTypeOK, PoolTypeOK, ReportTypeOK, FrameOK, Owning
    <3> QED
      BY <3>1, <3>2, <3>3
  <2>2. CASE Push(r)
    <3>1. IoTypeOK'
      BY <2>2 DEF Push, IoTypeOK, Stages
    <3>2. QueueTypeOK'
      BY <2>2 DEF Push, QueueTypeOK
    <3>3. PoolTypeOK' /\ ReportTypeOK' /\ AnswersOK' /\ FrameOK'
      BY <2>2 DEF Push, PoolTypeOK, ReportTypeOK, AnswersOK, FrameOK, Owning
    <3> QED
      BY <3>1, <3>2, <3>3
  <2>3. CASE Reject(r)
    <3>1. IoTypeOK'
      BY <2>3 DEF Reject, Answer, IoTypeOK, Stages
    <3>2. AnswersOK'
      BY <2>3, AnswerType DEF Reject, AnswerKinds
    <3>3. QueueTypeOK' /\ PoolTypeOK' /\ ReportTypeOK' /\ FrameOK'
      BY <2>3 DEF Reject, Answer, QueueTypeOK, PoolTypeOK, ReportTypeOK, FrameOK, Owning
    <3> QED
      BY <3>1, <3>2, <3>3
  <2>4. CASE Post(r)
    <3>1. IoTypeOK'
      BY <2>4 DEF Post, Posted, IoTypeOK, Stages
    <3>2. QueueTypeOK'
      BY <2>4 DEF Post, Posted, QueueTypeOK
    <3>3. PoolTypeOK' /\ ReportTypeOK' /\ AnswersOK' /\ FrameOK'
      BY <2>4 DEF Post, Posted, PoolTypeOK, ReportTypeOK, AnswersOK, FrameOK, Owning
    <3> QED
      BY <3>1, <3>2, <3>3
  <2> QED
    BY <1>2, <2>1, <2>2, <2>3, <2>4 DEF RequestStep
<1>3. ASSUME NEW h \in Hashes, Cancel(h)
      PROVE  TypeInv'
  <2>1. QueueTypeOK'
    BY <1>3 DEF Cancel, RemoveJobs, QueueTypeOK
  <2>2. IoTypeOK' /\ PoolTypeOK' /\ ReportTypeOK' /\ AnswersOK' /\ FrameOK'
    BY <1>3 DEF Cancel, RemoveJobs, IoTypeOK, PoolTypeOK, ReportTypeOK, AnswersOK, FrameOK, Owning
  <2> QED
    BY <2>1, <2>2
<1>4. CASE DeleteQueue
  <2>1. QueueTypeOK'
    BY <1>4 DEF DeleteQueue, RemoveJobs, QueueTypeOK
  <2>2. IoTypeOK' /\ PoolTypeOK' /\ ReportTypeOK' /\ AnswersOK' /\ FrameOK'
    BY <1>4 DEF DeleteQueue, RemoveJobs, IoTypeOK, PoolTypeOK, ReportTypeOK, AnswersOK, FrameOK, Owning
  <2> QED
    BY <2>1, <2>2
<1>5. ASSUME NEW q \in Readers, QueueLockJobs(q) \/ ReaderStep(q)
      PROVE  TypeInv'
  <2>1. CASE QueueLockJobs(q)
    <3>1. ReportTypeOK'
      BY <2>1 DEF QueueLockJobs, ReportTypeOK, ReaderPcs
    <3>2. IoTypeOK' /\ QueueTypeOK' /\ PoolTypeOK' /\ AnswersOK' /\ FrameOK'
      BY <2>1 DEF QueueLockJobs, IoTypeOK, QueueTypeOK, PoolTypeOK, AnswersOK, FrameOK, Owning
    <3> QED
      BY <3>1, <3>2
  <2>2. CASE QueueLockActive(q)
    <3>1. ReportTypeOK'
      BY <2>2 DEF QueueLockActive, ReportTypeOK, ReaderPcs
    <3>2. IoTypeOK' /\ QueueTypeOK' /\ PoolTypeOK' /\ AnswersOK' /\ FrameOK'
      BY <2>2 DEF QueueLockActive, IoTypeOK, QueueTypeOK, PoolTypeOK, AnswersOK, FrameOK, Owning
    <3> QED
      BY <3>1, <3>2
  <2>3. CASE QueueLockCompleted(q)
    <3>1. ReportTypeOK'
      BY <2>3 DEF QueueLockCompleted, ReportTypeOK, ReaderPcs
    <3>2. IoTypeOK' /\ QueueTypeOK' /\ PoolTypeOK' /\ AnswersOK' /\ FrameOK'
      BY <2>3 DEF QueueLockCompleted, IoTypeOK, QueueTypeOK, PoolTypeOK, AnswersOK, FrameOK, Owning
    <3> QED
      BY <3>1, <3>2
  <2>4. CASE QueueCopy(q)
    <3>1. ReportTypeOK'
      BY <2>4 DEF QueueCopy, ReportTypeOK, ReaderPcs, QueueTypeOK
    <3>2. IoTypeOK' /\ QueueTypeOK' /\ PoolTypeOK' /\ AnswersOK' /\ FrameOK'
      BY <2>4 DEF QueueCopy, IoTypeOK, QueueTypeOK, PoolTypeOK, AnswersOK, FrameOK, Owning
    <3> QED
      BY <3>1, <3>2
  <2>5. CASE QueueRespond(q)
    <3>1. ReportTypeOK'
      BY <2>5 DEF QueueRespond, ReportTypeOK, ReaderPcs
    <3>2. IoTypeOK' /\ QueueTypeOK' /\ PoolTypeOK' /\ AnswersOK' /\ FrameOK'
      BY <2>5 DEF QueueRespond, IoTypeOK, QueueTypeOK, PoolTypeOK, AnswersOK, FrameOK, Owning
    <3> QED
      BY <3>1, <3>2
  <2> QED
    BY <1>5, <2>1, <2>2, <2>3, <2>4, <2>5 DEF ReaderStep
<1>6. ASSUME NEW t \in Threads, ThreadStep(t) \/ Fault(t)
      PROVE  TypeInv'
  <2>1. CASE Start(t)
    <3>1. QueueTypeOK'
      BY <2>1 DEF Start, QueueTypeOK
    <3>2. PoolTypeOK'
      BY <2>1 DEF Start, PoolTypeOK, ThreadPcs, QueueTypeOK
    <3>3. FrameOK'
      BY <2>1 DEF Start, FrameOK, Owning, PoolTypeOK, ThreadPcs
    <3>4. IoTypeOK' /\ ReportTypeOK' /\ AnswersOK'
      BY <2>1 DEF Start, IoTypeOK, ReportTypeOK, AnswersOK
    <3> QED
      BY <3>1, <3>2, <3>3, <3>4
  <2>2. CASE Pop(t)
    <3>1. QueueTypeOK'
      BY <2>2 DEF Pop, Without, QueueTypeOK
    <3>2. PoolTypeOK'
      BY <2>2 DEF Pop, Without, PoolTypeOK, ThreadPcs, QueueTypeOK
    <3>3. FrameOK'
      BY <2>2 DEF Pop, Without, FrameOK, Owning, PoolTypeOK, ThreadPcs, QueueTypeOK
    <3>4. IoTypeOK' /\ ReportTypeOK' /\ AnswersOK'
      BY <2>2 DEF Pop, Without, IoTypeOK, ReportTypeOK, AnswersOK
    <3> QED
      BY <3>1, <3>2, <3>3, <3>4
  <2>3. CASE NoJobs(t)
    <3>1. PoolTypeOK'
      BY <2>3 DEF NoJobs, EndTask, Answer, PoolTypeOK, ThreadPcs
    <3>2. AnswersOK'
      BY <2>3, AnswerType DEF NoJobs, AnswerKinds
    <3>3. FrameOK'
      BY <2>3 DEF NoJobs, EndTask, Answer, FrameOK, Owning, PoolTypeOK, ThreadPcs
    <3>4. IoTypeOK' /\ QueueTypeOK' /\ ReportTypeOK'
      BY <2>3 DEF NoJobs, EndTask, Answer, IoTypeOK, QueueTypeOK, ReportTypeOK
    <3> QED
      BY <3>1, <3>2, <3>3, <3>4
  <2>4. CASE TryAcquire(t)
    <3>1. PoolTypeOK'
      <4>1. busy' \in [Devices -> BOOLEAN]
        BY <2>4, BusyType DEF TryAcquire, WasBusy, PoolTypeOK
      <4>2. dev' \in [Threads -> 0..(NumDevices + 1)]
        <5>1. dev' = dev \/ dev' = [dev EXCEPT ![t] = dev[t] + 1]
          BY <2>4 DEF TryAcquire, WasBusy
        <5>2. dev[t] + 1 \in 0..(NumDevices + 1)
          BY <2>4 DEF TryAcquire, WasBusy, PoolTypeOK
        <5> QED
          BY <5>1, <5>2 DEF PoolTypeOK
      <4>3. pc' \in [Threads -> ThreadPcs]
        BY <2>4 DEF TryAcquire, WasBusy, PoolTypeOK, ThreadPcs
      <4> QED
        BY <2>4, <4>1, <4>2, <4>3 DEF TryAcquire, WasBusy, PoolTypeOK
    <3>2. FrameOK'
      BY <2>4 DEF TryAcquire, WasBusy, FrameOK, Owning, PoolTypeOK, ThreadPcs
    <3>3. IoTypeOK' /\ QueueTypeOK' /\ ReportTypeOK' /\ AnswersOK'
      BY <2>4 DEF TryAcquire, WasBusy, IoTypeOK, QueueTypeOK, ReportTypeOK, AnswersOK
    <3> QED
      BY <3>1, <3>2, <3>3
  <2>5. CASE NoDevice(t)
    <3>1. PoolTypeOK'
      BY <2>5 DEF NoDevice, EndTask, Answer, PoolTypeOK, ThreadPcs
    <3>2. AnswersOK'
      BY <2>5, AnswerType DEF NoDevice, AnswerKinds
    <3>3. FrameOK'
      BY <2>5 DEF NoDevice, EndTask, Answer, FrameOK, Owning, PoolTypeOK, ThreadPcs
    <3>4. IoTypeOK' /\ QueueTypeOK' /\ ReportTypeOK'
      BY <2>5 DEF NoDevice, EndTask, Answer, IoTypeOK, QueueTypeOK, ReportTypeOK
    <3> QED
      BY <3>1, <3>2, <3>3, <3>4
  <2>6. CASE InsertActive(t)
    <3>1. QueueTypeOK'
      BY <2>6 DEF InsertActive, QueueTypeOK, FrameOK, Owning
    <3>2. PoolTypeOK'
      BY <2>6 DEF InsertActive, PoolTypeOK, ThreadPcs
    <3>3. FrameOK'
      BY <2>6 DEF InsertActive, FrameOK, Owning, PoolTypeOK, ThreadPcs
    <3>4. IoTypeOK' /\ ReportTypeOK' /\ AnswersOK'
      BY <2>6 DEF InsertActive, IoTypeOK, ReportTypeOK, AnswersOK
    <3> QED
      BY <3>1, <3>2, <3>3, <3>4
  <2>7. CASE Respond(t)
    <3>1. PoolTypeOK'
      BY <2>7 DEF Respond, Answer, PoolTypeOK, ThreadPcs
    <3>2. AnswersOK'
      BY <2>7, AnswerType DEF Respond, AnswerKinds, PoolTypeOK
    <3>3. FrameOK'
      BY <2>7 DEF Respond, Answer, FrameOK, Owning, PoolTypeOK, ThreadPcs
    <3>4. IoTypeOK' /\ QueueTypeOK' /\ ReportTypeOK'
      BY <2>7 DEF Respond, Answer, IoTypeOK, QueueTypeOK, ReportTypeOK
    <3> QED
      BY <3>1, <3>2, <3>3, <3>4
  <2>8. CASE Release(t)
    <3>1. PoolTypeOK'
      BY <2>8, BusyType DEF Release, Released, PoolTypeOK, ThreadPcs
    <3>2. FrameOK'
      BY <2>8 DEF Release, Released, FrameOK, Owning, PoolTypeOK, ThreadPcs
    <3>3. IoTypeOK' /\ QueueTypeOK' /\ ReportTypeOK' /\ AnswersOK'
      BY <2>8 DEF Release, Released, IoTypeOK, QueueTypeOK, ReportTypeOK, AnswersOK
    <3> QED
      BY <3>1, <3>2, <3>3
  <2>9. CASE LockActive(t)
    <3>1. PoolTypeOK'
      BY <2>9 DEF LockActive, PoolTypeOK, ThreadPcs
    <3>2. ReportTypeOK'
      BY <2>9 DEF LockActive, ReportTypeOK
    <3>3. FrameOK'
      BY <2>9 DEF LockActive, FrameOK, Owning, PoolTypeOK, ThreadPcs
    <3>4. IoTypeOK' /\ QueueTypeOK' /\ AnswersOK'
      BY <2>9 DEF LockActive, IoTypeOK, QueueTypeOK, AnswersOK
    <3> QED
      BY <3>1, <3>2, <3>3, <3>4
  <2>10. CASE Retire(t)
    <3>1. QueueTypeOK'
      BY <2>10 DEF Retire, Erased, PushBack, EndTask, QueueTypeOK, FrameOK, Owning
    <3>2. PoolTypeOK'
      BY <2>10 DEF Retire, Erased, PushBack, EndTask, PoolTypeOK, ThreadPcs
    <3>3. ReportTypeOK'
      BY <2>10 DEF Retire, Erased, PushBack, EndTask, ReportTypeOK
    <3>4. FrameOK'
      BY <2>10 DEF Retire, Erased, PushBack, EndTask, FrameOK, Owning, PoolTypeOK, ThreadPcs
    <3>5. IoTypeOK' /\ AnswersOK'
      BY <2>10 DEF Retire, Erased, PushBack, EndTask, IoTypeOK, AnswersOK
    <3> QED
      BY <3>1, <3>2, <3>3, <3>4, <3>5
  <2>11. CASE Fault(t)
    <3>1. PoolTypeOK'
      BY <2>11 DEF Fault, MayThrow, EndTask, Answer, PoolTypeOK, ThreadPcs
    <3>2. AnswersOK'
      BY <2>11, AnswerType DEF Fault, MayThrow, AnswerKinds
    <3>3. FrameOK'
      BY <2>11 DEF Fault, MayThrow, EndTask, Answer, FrameOK, Owning, PoolTypeOK, ThreadPcs
    <3>4. IoTypeOK' /\ QueueTypeOK' /\ ReportTypeOK'
      BY <2>11 DEF Fault, MayThrow, EndTask, Answer, IoTypeOK, QueueTypeOK, ReportTypeOK
    <3> QED
      BY <3>1, <3>2, <3>3, <3>4
  <2> QED
    BY <1>6, <2>1, <2>2, <2>3, <2>4, <2>5, <2>6, <2>7, <2>8, <2>9, <2>10, <2>11 DEF ThreadStep
<1>7. CASE Quiet
  BY <1>7 DEF Quiet, vars, IoTypeOK, QueueTypeOK, PoolTypeOK, ReportTypeOK, FrameOK, Owning
<1>8. CASE UNCHANGED vars
  BY <1>8 DEF vars, IoTypeOK, QueueTypeOK, PoolTypeOK, ReportTypeOK, FrameOK, Owning
<1> QED
  BY <1>1, <1>2, <1>3, <1>4, <1>5, <1>6, <1>7, <1>8 DEF Next

(* Every variable keeps its type, and every thread past the pop owns a     *)
(* job, in every behaviour of the work handler.                            *)
THEOREM TypeCorrect == Spec => []TypeInv
<1>1. Init => TypeInv
  BY TypeInit
<1>2. TypeInv /\ [Next]_vars => TypeInv'
  BY TypeStep
<1> QED
  BY <1>1, <1>2, PTL DEF Spec

(* TypeOK, as the runs of the work handler check it, for every value of    *)
(* the constants: ids stay below their modulus, completed_jobs within its  *)
(* capacity, find_if inside the list of devices.                           *)
THEOREM TypesAlwaysOK == Spec => []TypeOK
<1>1. TypeInv => TypeOK
  BY DEF TypeInv
<1> QED
  BY <1>1, TypeCorrect, PTL

-----------------------------------------------------------------------------
(* Devices. *)

(* Where a thread stands in find_if, or which device it holds. *)
DevRange ==
    \A t \in Threads :
        /\ pc[t] = "scan" => dev[t] \in 1..(NumDevices + 1)
        /\ Holding(t) => dev[t] \in Devices
        /\ ~Holding(t) /\ pc[t] # "scan" => dev[t] = 0

HoldInv == DevRange /\ DeviceExclusive

(* Steps that leave the devices and the threads' positions alone. *)
LEMMA HoldUnchanged ==
  ASSUME HoldInv, UNCHANGED <<pc, dev, busy>>
  PROVE  HoldInv'
  BY DEF HoldInv, DevRange, DeviceExclusive, Holding

LEMMA HoldThread ==
  ASSUME TypeInv, HoldInv, NEW t \in Threads, ThreadStep(t) \/ Fault(t)
  PROVE  HoldInv'
<1> USE ConstantsAssumption
<1> USE DEF HoldInv, DevRange, DeviceExclusive, Holding
<1>0. pc \in [Threads -> ThreadPcs] /\ dev \in [Threads -> 0..(NumDevices + 1)]
      /\ busy \in [Devices -> BOOLEAN]
  BY DEF TypeInv, TypeOK, PoolTypeOK
<1>1. CASE Start(t)
  BY <1>0, <1>1 DEF Start
<1>2. CASE Pop(t)
  BY <1>0, <1>2 DEF Pop, Without
<1>3. CASE NoJobs(t)
  BY <1>0, <1>3 DEF NoJobs, EndTask
<1>4. CASE TryAcquire(t)
  <2>1. dev[t] \in Devices
    BY <1>0, <1>4 DEF TryAcquire, WasBusy, Devices
  <2>2. CASE busy[dev[t]]
    <3>1. busy' = busy
      BY <1>0, <1>4, <2>1, <2>2 DEF TryAcquire, WasBusy
    <3>2. pc' = pc /\ dev' = [dev EXCEPT ![t] = dev[t] + 1]
      BY <1>4, <2>2 DEF TryAcquire, WasBusy
    <3>3. dev[t] + 1 \in 1..(NumDevices + 1) /\ pc[t] = "scan"
      BY <1>4, <2>1 DEF TryAcquire, WasBusy, Devices
    <3> QED
      BY <1>0, <3>1, <3>2, <3>3
  <2>3. CASE ~busy[dev[t]]
    <3>1. dev' = dev /\ pc' = [pc EXCEPT ![t] = "insert"]
      BY <1>4, <2>3 DEF TryAcquire, WasBusy
    <3>2. \A d \in Devices : busy'[d] <=> (busy[d] \/ d = dev[t])
      BY <1>0, <1>4, <2>1 DEF TryAcquire, WasBusy
    <3> QED
      BY <1>0, <2>1, <2>3, <3>1, <3>2
  <2> QED
    BY <2>2, <2>3
<1>5. CASE NoDevice(t)
  BY <1>0, <1>5 DEF NoDevice, EndTask
<1>6. CASE InsertActive(t)
  BY <1>0, <1>6 DEF InsertActive
<1>7. CASE Respond(t)
  BY <1>0, <1>7 DEF Respond
<1>8. CASE Release(t)
  <2>1. \A d \in Devices : d # dev[t] => (busy'[d] <=> busy[d])
    BY <1>0, <1>8 DEF Release, Released
  <2> QED
    BY <1>0, <1>8, <2>1 DEF Release, Released
<1>9. CASE LockActive(t)
  BY <1>0, <1>9 DEF LockActive
<1>10. CASE Retire(t)
  BY <1>0, <1>10 DEF Retire, Erased, EndTask
<1>11. CASE Fault(t)
  BY <1>0, <1>11 DEF Fault, MayThrow, EndTask
<1> QED
  BY <1>1, <1>2, <1>3, <1>4, <1>5, <1>6, <1>7, <1>8, <1>9, <1>10, <1>11
     DEF ThreadStep

(* Everything but a step of a pool thread leaves pc, dev and busy alone. *)
LEMMA NotPoolStep ==
  ASSUME [Next]_vars,
         ~(\E t \in Threads : ThreadStep(t) \/ Fault(t))
  PROVE  UNCHANGED <<pc, task, job, dev, busy>>
<1> USE DEF poolVars
<1>1. ASSUME NEW r \in Requests, NEW h \in Hashes \cup {NoHash},
             NEW p \in Priorities, Begin(r, h, p)
      PROVE  UNCHANGED poolVars
  BY <1>1 DEF Begin
<1>2. ASSUME NEW r \in Requests, RequestStep(r)
      PROVE  UNCHANGED poolVars
  BY <1>2 DEF RequestStep, Malformed, Push, Reject, Post, Posted
<1>3. ASSUME NEW h \in Hashes, Cancel(h)
      PROVE  UNCHANGED poolVars
  BY <1>3 DEF Cancel, RemoveJobs
<1>4. CASE DeleteQueue
  BY <1>4 DEF DeleteQueue, RemoveJobs
<1>5. ASSUME NEW q \in Readers, QueueLockJobs(q) \/ ReaderStep(q)
      PROVE  UNCHANGED poolVars
  BY <1>5 DEF QueueLockJobs, ReaderStep, QueueLockActive, QueueLockCompleted,
              QueueCopy, QueueRespond
<1>6. CASE Quiet \/ UNCHANGED vars
  BY <1>6 DEF Quiet, vars
<1> QED
  BY <1>1, <1>2, <1>3, <1>4, <1>5, <1>6 DEF Next

(* No two generations ever share a device, whatever fails: for any number  *)
(* of devices, requests and faults.                                        *)
THEOREM DevicesExclusive == Spec => []DeviceExclusive
<1>1. Init => HoldInv
  BY DEF Init, HoldInv, DevRange, DeviceExclusive, Holding
<1>2. TypeInv /\ HoldInv /\ [Next]_vars => HoldInv'
  <2> SUFFICES ASSUME TypeInv, HoldInv, [Next]_vars PROVE HoldInv'
    OBVIOUS
  <2>1. CASE \E t \in Threads : ThreadStep(t) \/ Fault(t)
    BY <2>1, HoldThread
  <2>2. CASE ~(\E t \in Threads : ThreadStep(t) \/ Fault(t))
    BY <2>2, NotPoolStep, HoldUnchanged
  <2> QED
    BY <2>1, <2>2
<1>3. HoldInv => DeviceExclusive
  BY DEF HoldInv
<1> QED
  BY <1>1, <1>2, <1>3, TypeCorrect, PTL DEF Spec

-----------------------------------------------------------------------------
(* A driver is available: the counting argument.                           *)

(* The threads that look for, or hold, device i or a later one. *)
AheadOf(f, i) == {t \in Threads : f[t] >= i}

(* A busy device has a holder: nothing was leaked. *)
BusyHeld ==
    \A d \in Devices : busy[d] => \E t \in Threads : Holding(t) /\ dev[t] = d

(* At most as many threads have reached device i as there are devices from *)
(* i on; nobody is past the last one.                                      *)
CountInv ==
    \A i \in 1..(NumDevices + 1) :
        Cardinality(AheadOf(dev, i)) <= NumDevices + 1 - i

AvailInv == TypeInv /\ HoldInv /\ BusyHeld /\ CountInv

LEMMA AheadFinite ==
  ASSUME NEW f, NEW i
  PROVE  /\ IsFiniteSet(AheadOf(f, i))
         /\ Cardinality(AheadOf(f, i)) \in Nat
         /\ Cardinality(AheadOf(f, i)) <= NumDevices
<1>1. IsFiniteSet(Threads) /\ Cardinality(Threads) = NumDevices
  BY FS_Interval, ConstantsAssumption DEF Threads
<1>2. AheadOf(f, i) \in SUBSET Threads
  BY DEF AheadOf
<1> QED
  BY <1>1, <1>2, FS_Subset, FS_CardinalityType

LEMMA AheadMonotone ==
  ASSUME NEW f, NEW g, NEW i,
         \A t \in Threads : g[t] >= i => f[t] >= i
  PROVE  Cardinality(AheadOf(g, i)) <= Cardinality(AheadOf(f, i))
<1>1. AheadOf(g, i) \in SUBSET AheadOf(f, i)
  BY DEF AheadOf
<1> QED
  BY <1>1, AheadFinite, FS_Subset

(* A step in which no thread moves forward keeps the count. *)
LEMMA CountBackward ==
  ASSUME CountInv, dev \in [Threads -> Nat], dev' \in [Threads -> Nat],
         \A t \in Threads : dev'[t] <= dev[t]
  PROVE  CountInv'
<1> SUFFICES ASSUME NEW i \in 1..(NumDevices + 1)
             PROVE  Cardinality(AheadOf(dev', i)) <= NumDevices + 1 - i
  BY DEF CountInv, AheadOf
<1>1. Cardinality(AheadOf(dev', i)) <= Cardinality(AheadOf(dev, i))
  BY AheadMonotone
<1> QED
  BY <1>1, AheadFinite, ConstantsAssumption DEF CountInv

(* A thread that enters the scan only counts for device 1. *)
LEMMA CountEnter ==
  ASSUME CountInv, dev \in [Threads -> Nat], NEW t \in Threads,
         dev' = [dev EXCEPT ![t] = 1]
  PROVE  CountInv'
<1> SUFFICES ASSUME NEW i \in 1..(NumDevices + 1)
             PROVE  Cardinality(AheadOf(dev', i)) <= NumDevices + 1 - i
  BY DEF CountInv, AheadOf
<1>1. CASE i = 1
  BY <1>1, AheadFinite, ConstantsAssumption
<1>2. CASE i # 1
  <2>0. \A u \in Threads : dev'[u] >= i => dev[u] >= i
    BY <1>2
  <2>1. Cardinality(AheadOf(dev', i)) <= Cardinality(AheadOf(dev, i))
    BY <2>0, AheadMonotone
  <2> QED
    BY <2>1, AheadFinite, ConstantsAssumption DEF CountInv
<1> QED
  BY <1>1, <1>2

(* A thread that finds device k busy moves on; the holder stays behind. *)
LEMMA CountAdvance ==
  ASSUME CountInv, dev \in [Threads -> Nat], NEW t \in Threads,
         NEW h \in Threads, h # t, dev[h] = dev[t], dev[t] \in Devices,
         dev' = [dev EXCEPT ![t] = dev[t] + 1]
  PROVE  CountInv'
<1> SUFFICES ASSUME NEW i \in 1..(NumDevices + 1)
             PROVE  Cardinality(AheadOf(dev', i)) <= NumDevices + 1 - i
  BY DEF CountInv, AheadOf
<1>1. CASE i # dev[t] + 1
  <2>0. \A u \in Threads : dev'[u] >= i => dev[u] >= i
    BY <1>1 DEF Devices
  <2>1. Cardinality(AheadOf(dev', i)) <= Cardinality(AheadOf(dev, i))
    BY <2>0, AheadMonotone
  <2> QED
    BY <2>1, AheadFinite, ConstantsAssumption DEF CountInv
<1>2. CASE i = dev[t] + 1
  <2> DEFINE A == AheadOf(dev', i)
             B == AheadOf(dev, dev[t])
  <2>1. h \notin A
    BY <1>2 DEF AheadOf
  <2>2. (A \cup {h}) \in SUBSET B
    BY <1>2 DEF AheadOf, Devices
  <2>3. IsFiniteSet(A) /\ Cardinality(A) \in Nat /\ IsFiniteSet(B)
        /\ Cardinality(B) \in Nat
    BY AheadFinite
  <2>4. Cardinality(B) <= NumDevices + 1 - dev[t]
    <3>1. dev[t] \in 1..(NumDevices + 1)
      BY ConstantsAssumption DEF Devices
    <3> QED
      BY <3>1 DEF CountInv
  <2> HIDE DEF A, B
  <2>5. Cardinality(A \cup {h}) = Cardinality(A) + 1
    BY <2>1, <2>3, FS_AddElement
  <2>6. Cardinality(A \cup {h}) <= Cardinality(B)
    BY <2>2, <2>3, FS_Subset
  <2> QED
    BY <1>2, <2>3, <2>4, <2>5, <2>6, ConstantsAssumption DEF Devices, A
<1> QED
  BY <1>1, <1>2

LEMMA AvailInit == Init => BusyHeld /\ CountInv
<1> SUFFICES ASSUME Init PROVE BusyHeld /\ CountInv
  OBVIOUS
<1>1. BusyHeld
  BY DEF Init, BusyHeld
<1>2. ASSUME NEW i \in 1..(NumDevices + 1)
      PROVE  Cardinality(AheadOf(dev, i)) <= NumDevices + 1 - i
  <2>1. AheadOf(dev, i) = {}
    BY DEF AheadOf, Init
  <2> QED
    BY <2>1, FS_EmptySet, ConstantsAssumption
<1> QED
  BY <1>1, <1>2 DEF CountInv

(* One step of a pool thread, when no generation fails. *)
LEMMA AvailThread ==
  ASSUME AvailInv, NEW t \in Threads, ThreadStep(t)
  PROVE  BusyHeld' /\ CountInv'
<1> USE ConstantsAssumption
<1>0. /\ pc \in [Threads -> ThreadPcs]
      /\ dev \in [Threads -> 0..(NumDevices + 1)]
      /\ dev \in [Threads -> Nat]
      /\ busy \in [Devices -> BOOLEAN]
      /\ HoldInv /\ BusyHeld /\ CountInv
  BY DEF AvailInv, TypeInv, TypeOK, PoolTypeOK
<1>a. ASSUME pc[t] # "scan", ~Holding(t), busy' = busy,
             \/ dev' = dev
             \/ dev' = [dev EXCEPT ![t] = 0]
             \/ dev' = [dev EXCEPT ![t] = 1],
             NEW c, c \notin {"insert", "search", "release"},
             pc' = [pc EXCEPT ![t] = c]
      PROVE  BusyHeld' /\ CountInv'
  <2>1. BusyHeld'
    BY <1>0, <1>a DEF BusyHeld, Holding, HoldInv, DevRange
  <2>2. dev' = [dev EXCEPT ![t] = 1] \/ \A u \in Threads : dev'[u] <= dev[u]
    BY <1>0, <1>a
  <2>3. dev' \in [Threads -> Nat]
    BY <1>0, <1>a
  <2>4. CountInv'
    BY <1>0, <2>2, <2>3, CountBackward, CountEnter
  <2> QED
    BY <2>1, <2>4
<1>b. ASSUME Holding(t), busy' = busy, dev' = dev,
             NEW c \in {"search", "release"}, pc' = [pc EXCEPT ![t] = c]
      PROVE  BusyHeld' /\ CountInv'
  <2>1. BusyHeld'
    BY <1>0, <1>b DEF BusyHeld, Holding
  <2>2. CountInv'
    BY <1>0, <1>b, CountBackward
  <2> QED
    BY <2>1, <2>2
<1>1. CASE Start(t)
  BY <1>0, <1>1, <1>a DEF Start, Holding
<1>2. CASE Pop(t)
  BY <1>0, <1>2, <1>a DEF Pop, Without, Holding
<1>3. CASE NoJobs(t)
  BY <1>0, <1>3, <1>a DEF NoJobs, EndTask, Holding
<1>4. CASE TryAcquire(t)
  <2>1. dev[t] \in Devices
    BY <1>0, <1>4 DEF TryAcquire, WasBusy, Devices, HoldInv, DevRange
  <2>2. CASE busy[dev[t]]
    <3>1. PICK h \in Threads : Holding(h) /\ dev[h] = dev[t]
      BY <1>0, <2>1, <2>2 DEF BusyHeld
    <3>2. h # t
      BY <1>4, <3>1 DEF TryAcquire, WasBusy, Holding
    <3>3. pc' = pc /\ dev' = [dev EXCEPT ![t] = dev[t] + 1]
      BY <1>4, <2>2 DEF TryAcquire, WasBusy
    <3>4. busy' = busy
      BY <1>0, <1>4, <2>1, <2>2 DEF TryAcquire, WasBusy
    <3>5. CountInv'
      BY <1>0, <2>1, <3>1, <3>2, <3>3, CountAdvance
    <3>6. BusyHeld'
      BY <1>0, <1>4, <3>3, <3>4 DEF BusyHeld, Holding, TryAcquire, WasBusy
    <3> QED
      BY <3>5, <3>6
  <2>3. CASE ~busy[dev[t]]
    <3>1. dev' = dev /\ pc' = [pc EXCEPT ![t] = "insert"]
      BY <1>4, <2>3 DEF TryAcquire, WasBusy
    <3>2. \A d \in Devices : busy'[d] => busy[d] \/ d = dev[t]
      BY <1>0, <1>4, <2>1 DEF TryAcquire, WasBusy
    <3>3. BusyHeld'
      BY <1>0, <1>4, <3>1, <3>2 DEF BusyHeld, Holding, TryAcquire, WasBusy
    <3>4. CountInv'
      BY <1>0, <3>1, CountBackward
    <3> QED
      BY <3>3, <3>4
  <2> QED
    BY <2>2, <2>3
<1>5. CASE NoDevice(t)
  <2>1. dev[t] = NumDevices + 1
    BY <1>0, <1>5 DEF NoDevice
  <2>2. t \in AheadOf(dev, NumDevices + 1)
    BY <2>1 DEF AheadOf
  <2>3. Cardinality(AheadOf(dev, NumDevices + 1)) <= 0
    BY <1>0 DEF CountInv
  <2> QED
    BY <2>2, <2>3, AheadFinite, FS_EmptySet
<1>6. CASE InsertActive(t)
  BY <1>0, <1>6, <1>b DEF InsertActive, Holding
<1>7. CASE Respond(t)
  BY <1>0, <1>7, <1>b DEF Respond, Holding
<1>8. CASE Release(t)
  <2>1. \A d \in Devices : busy'[d] => busy[d] /\ d # dev[t]
    BY <1>0, <1>8 DEF Release, Released, HoldInv, DevRange, Holding
  <2>2. BusyHeld'
    BY <1>0, <1>8, <2>1 DEF BusyHeld, Holding, Release, Released
  <2>3. CountInv'
    BY <1>0, <1>8, CountBackward DEF Release, Released
  <2> QED
    BY <2>2, <2>3
<1>9. CASE LockActive(t)
  BY <1>0, <1>9, <1>a DEF LockActive, Holding
<1>10. CASE Retire(t)
  BY <1>0, <1>10, <1>a DEF Retire, Erased, EndTask, Holding
<1> QED
  BY <1>1, <1>2, <1>3, <1>4, <1>5, <1>6, <1>7, <1>8, <1>9, <1>10
     DEF ThreadStep

(* If every device from dev[t] on were busy, their holders and t itself    *)
(* would be one thread too many.                                           *)
LEMMA AvailImplies == AvailInv => DriverAvailable
<1> SUFFICES ASSUME AvailInv, NEW t \in Threads, pc[t] = "scan",
                    \A d \in Devices : d >= dev[t] => busy[d]
             PROVE  FALSE
  BY DEF DriverAvailable
<1> USE ConstantsAssumption
<1>0. /\ dev \in [Threads -> 0..(NumDevices + 1)]
      /\ dev[t] \in 1..(NumDevices + 1)
      /\ HoldInv /\ BusyHeld /\ CountInv
  BY DEF AvailInv, TypeInv, TypeOK, PoolTypeOK, HoldInv, DevRange
<1> DEFINE A == AheadOf(dev, dev[t])
           I == dev[t]..NumDevices
           f == [d \in I |-> CHOOSE h \in Threads : Holding(h) /\ dev[h] = d]
<1>1. \A d \in I : f[d] \in Threads /\ Holding(f[d]) /\ dev[f[d]] = d
  BY <1>0 DEF BusyHeld, Devices
<1>2. \A d \in I : f[d] \in A \ {t}
  BY <1>0, <1>1 DEF AheadOf, Holding
<1>3. f \in Injection(I, A \ {t})
  <2>1. DOMAIN f = I /\ f \in [I -> A \ {t}]
    BY <1>2
  <2>2. \A a, b \in I : f[a] = f[b] => a = b
    BY <1>1
  <2> HIDE DEF f, I, A
  <2> QED
    BY <2>1, <2>2 DEF Injection, IsInjective
<1>4. t \in A /\ IsFiniteSet(A) /\ Cardinality(A) \in Nat
      /\ Cardinality(A) <= NumDevices + 1 - dev[t]
  <2>1. t \in A
    BY <1>0 DEF AheadOf
  <2>2. Cardinality(A) <= NumDevices + 1 - dev[t]
    BY <1>0 DEF CountInv
  <2> QED
    BY <2>1, <2>2, AheadFinite
<1>5. IsFiniteSet(A \ {t}) /\ Cardinality(A \ {t}) = Cardinality(A) - 1
  BY <1>4, FS_RemoveElement
<1>6. Cardinality(I) = NumDevices + 1 - dev[t]
  BY <1>0, FS_Interval
<1> HIDE DEF A, I, f
<1>7. Cardinality(I) <= Cardinality(A \ {t})
  BY <1>3, <1>5, FS_Injection
<1> QED
  BY <1>0, <1>4, <1>5, <1>6, <1>7

(* work_handler.cpp:221 is right as long as no generation fails: with one  *)
(* pool thread per device, a thread that looks for a device always has a   *)
(* free one ahead of it, for any number of devices and requests.           *)
THEOREM DriverAlwaysAvailable ==
  ASSUME MaxFaults = 0
  PROVE  Spec => []DriverAvailable
<1>1. Init => AvailInv
  BY TypeInit, AvailInit
     DEF AvailInv, Init, HoldInv, DevRange, DeviceExclusive, Holding
<1>2. AvailInv /\ [Next]_vars => AvailInv'
  <2> SUFFICES ASSUME AvailInv, [Next]_vars PROVE AvailInv'
    OBVIOUS
  <2>0. TypeInv /\ HoldInv /\ BusyHeld /\ CountInv /\ TypeInv'
    BY TypeStep DEF AvailInv
  <2>1. CASE \E t \in Threads : ThreadStep(t)
    BY <2>0, <2>1, AvailThread, HoldThread DEF AvailInv
  <2>2. ASSUME NEW t \in Threads, Fault(t) PROVE FALSE
    BY <2>0, <2>2 DEF Fault, MayThrow, TypeInv, TypeOK, PoolTypeOK
  <2>3. CASE ~(\E t \in Threads : ThreadStep(t) \/ Fault(t))
    <3>1. UNCHANGED <<pc, dev, busy>>
      BY <2>3, NotPoolStep
    <3>2. BusyHeld' /\ CountInv'
      BY <2>0, <3>1 DEF BusyHeld, CountInv, Holding, AheadOf
    <3> QED
      BY <2>0, <3>1, <3>2, HoldUnchanged DEF AvailInv
  <2> QED
    BY <2>1, <2>2, <2>3
<1>3. AvailInv => DriverAvailable
  BY AvailImplies
<1> QED
  BY <1>1, <1>2, <1>3, PTL DEF Spec

-----------------------------------------------------------------------------
(***************************************************************************)
(* Where requests, tasks and jobs are: each request is answered once, each *)
(* job has one owner, the queue keeps to its limit and the posted tasks    *)
(* balance the jobs, for every value of the constants.                     *)
(***************************************************************************)

-----------------------------------------------------------------------------
(* What an answer changes. *)

(* The answers of one request change.                                      *)
LEMMA AnswerEffect ==
  ASSUME AnswersOK, NEW r \in Requests, answers[r] = <<>>,
         NEW kind \in AnswerKinds, NEW j \in Requests \cup {None},
         Answer(r, kind, j)
  PROVE  /\ \A s \in Requests \ {r} : answers'[s] = answers[s]
         /\ answers'[r] # <<>> /\ Len(answers'[r]) = 1
         /\ answers'[r] = <<[kind |-> kind, job |-> j]>>
<1>1. answers' = [answers EXCEPT ![r] = <<[kind |-> kind, job |-> j]>>]
  BY DEF Answer
<1> QED
  BY <1>1 DEF AnswersOK

(* A request that had none has one answer now.                             *)
LEMMA AnswerOnce ==
  ASSUME AnswersOK, AnsweredOnce, NEW r \in Requests, answers[r] = <<>>,
         NEW kind \in AnswerKinds, NEW j \in Requests \cup {None},
         Answer(r, kind, j)
  PROVE  AnsweredOnce'
<1> SUFFICES ASSUME NEW s \in Requests
             PROVE  Len(answers'[s]) <= 1
  BY DEF AnsweredOnce
<1>1. CASE s = r
  <2>1. Len(answers'[s]) = 1
    BY <1>1, AnswerEffect
  <2> QED
    BY <2>1
<1>2. CASE s # r
  <2>1. answers'[s] = answers[s]
    BY <1>2, AnswerEffect
  <2> QED
    BY <2>1 DEF AnsweredOnce
<1> QED
  BY <1>1, <1>2

(* Its one answer is the only work it got.                                 *)
LEMMA AnswerGot ==
  ASSUME AnswersOK, NEW r \in Requests, answers[r] = <<>>,
         NEW kind \in AnswerKinds, NEW j \in Requests \cup {None},
         Answer(r, kind, j)
  PROVE  \A s, k \in Requests :
            GotWork(s, k)' <=> GotWork(s, k) \/ (s = r /\ kind = "work" /\ k = j)
<1> TAKE s, k \in Requests
<1>1. CASE s # r
  BY <1>1, AnswerEffect DEF GotWork
<1>2. CASE s = r
  <2>1. ~GotWork(s, k)
    BY <1>2 DEF GotWork
  <2>2. Len(answers'[s]) = 1 /\ answers'[s][1] = [kind |-> kind, job |-> j]
    BY <1>2, AnswerEffect
  <2>3. GotWork(s, k)' <=> answers'[s][1] = [kind |-> "work", job |-> k]
    BY <2>2 DEF GotWork
  <2> QED
    BY <1>2, <2>1, <2>2, <2>3
<1> QED
  BY <1>1, <1>2

(* It was turned away exactly if it was told so.                           *)
LEMMA AnswerAway ==
  ASSUME AnswersOK, NEW r \in Requests, answers[r] = <<>>,
         NEW kind \in AnswerKinds, NEW j \in Requests \cup {None},
         Answer(r, kind, j)
  PROVE  /\ r \notin TurnedAway
         /\ TurnedAway' = IF kind = "nojobs" THEN TurnedAway \cup {r}
                                             ELSE TurnedAway
<1>1. Len(answers'[r]) = 1 /\ answers'[r][1].kind = kind
  <2>1. answers'[r] = <<[kind |-> kind, job |-> j]>>
    BY AnswerEffect
  <2> QED
    BY <2>1
<1>2. r \in TurnedAway' <=> kind = "nojobs"
  BY <1>1 DEF TurnedAway
<1>3. \A s \in Requests \ {r} : s \in TurnedAway' <=> s \in TurnedAway
  BY AnswerEffect DEF TurnedAway
<1>4. r \notin TurnedAway /\ TurnedAway \subseteq Requests
      /\ TurnedAway' \subseteq Requests
  BY DEF TurnedAway
<1>5. CASE kind = "nojobs"
  <2>1. TurnedAway' \subseteq TurnedAway \cup {r}
    BY <1>3, <1>4
  <2>2. TurnedAway \cup {r} \subseteq TurnedAway'
    BY <1>2, <1>3, <1>4, <1>5
  <2> QED
    BY <1>4, <1>5, <2>1, <2>2
<1>6. CASE kind # "nojobs"
  <2>1. TurnedAway' \subseteq TurnedAway
    BY <1>2, <1>3, <1>4, <1>6
  <2>2. TurnedAway \subseteq TurnedAway'
    BY <1>2, <1>3, <1>4
  <2> QED
    BY <1>4, <1>6, <2>1, <2>2
<1> QED
  BY <1>5, <1>6

(* Whoever was answered before keeps what it got.                          *)
LEMMA NoAnswer ==
  ASSUME UNCHANGED answers
  PROVE  /\ TurnedAway' = TurnedAway
         /\ \A s, k \in Requests : GotWork(s, k)' <=> GotWork(s, k)
  BY DEF TurnedAway, GotWork

-----------------------------------------------------------------------------
(* Requests and their tasks. *)

(* The threads whose task has not answered its request yet. *)
Unanswered(t) == pc[t] \in {"pop", "scan", "insert", "search"}

(* A request has no answer while an io thread works on it. *)
StageInv ==
    \A r \in Requests : stage[r] # "done" => answers[r] = <<>>

(* A posted task is its request's only one and will answer it. *)
PostedInv ==
    \A i \in 1..Len(tasks) :
        /\ stage[tasks[i]] = "done" /\ answers[tasks[i]] = <<>>
        /\ \A k \in 1..Len(tasks) : tasks[k] = tasks[i] => k = i

(* So is a task that a thread has started, until it has answered.          *)
StartedInv ==
    \A t \in Threads : pc[t] # "idle" =>
        /\ task[t] \in Requests /\ stage[task[t]] = "done"
        /\ \A i \in 1..Len(tasks) : tasks[i] # task[t]
        /\ \A u \in Threads : pc[u] # "idle" /\ task[u] = task[t] => u = t
        /\ Unanswered(t) <=> answers[task[t]] = <<>>

TaskInv == AnsweredOnce /\ StageInv /\ PostedInv /\ StartedInv

LEMMA TaskInit == Init => TaskInv
  BY DEF Init, TaskInv, AnsweredOnce, StageInv, PostedInv, StartedInv

(* Steps of an io thread that neither answer nor post.                     *)
LEMMA TaskStage ==
  ASSUME TypeInv, TaskInv, NEW r \in Requests, stage[r] # "done",
         NEW s, s # "done", stage' = [stage EXCEPT ![r] = s],
         UNCHANGED <<tasks, pc, task, answers>>
  PROVE  TaskInv'
<1>1. \A k \in Requests : /\ k # r => stage'[k] = stage[k]
                          /\ stage[k] = "done" => stage'[k] = "done"
                          /\ stage'[k] # "done" => stage[k] # "done"
  BY DEF TypeInv, TypeOK, IoTypeOK
<1>2. tasks \in Seq(Requests)
  BY DEF TypeInv, TypeOK, QueueTypeOK
<1>3. AnsweredOnce' /\ StageInv'
  BY <1>1 DEF TaskInv, AnsweredOnce, StageInv
<1>4. PostedInv'
  BY <1>1, <1>2 DEF TaskInv, PostedInv
<1>5. StartedInv'
  BY <1>1 DEF TaskInv, StartedInv, Unanswered
<1> QED
  BY <1>3, <1>4, <1>5 DEF TaskInv

(* Steps of an io thread that answer.                                      *)
LEMMA TaskRefused ==
  ASSUME TypeInv, TaskInv, NEW r \in Requests, stage[r] # "done",
         stage' = [stage EXCEPT ![r] = "done"],
         NEW kind \in AnswerKinds, Answer(r, kind, None),
         UNCHANGED <<tasks, pc, task>>
  PROVE  TaskInv'
<1>1. answers[r] = <<>> /\ AnswersOK
  BY DEF TaskInv, StageInv, TypeInv, TypeOK, AnswersOK
<1>2. /\ \A s \in Requests \ {r} : answers'[s] = answers[s]
      /\ Len(answers'[r]) = 1
  BY <1>1, AnswerEffect
<1>3. \A s \in Requests : s # r => stage'[s] = stage[s]
  BY DEF TypeInv, TypeOK, IoTypeOK
<1>4. tasks \in Seq(Requests) /\ stage'[r] = "done"
  BY DEF TypeInv, TypeOK, QueueTypeOK, IoTypeOK
<1>5. AnsweredOnce' /\ StageInv'
  <2>1. AnsweredOnce'
    BY <1>1, AnswerOnce DEF TaskInv
  <2>2. ASSUME NEW s \in Requests, stage'[s] # "done" PROVE answers'[s] = <<>>
    BY <1>2, <1>3, <1>4, <2>2 DEF TaskInv, StageInv
  <2> QED
    BY <2>1, <2>2 DEF StageInv
<1>6. PostedInv'
  BY <1>1, <1>2, <1>3, <1>4 DEF TaskInv, PostedInv
<1>7. StartedInv'
  BY <1>1, <1>2, <1>3, <1>4 DEF TaskInv, StartedInv, Unanswered
<1> QED
  BY <1>5, <1>6, <1>7 DEF TaskInv

LEMMA TaskPost ==
  ASSUME TypeInv, TaskInv, NEW r \in Requests, Post(r)
  PROVE  TaskInv'
<1> USE DEF poolVars
<1>1. /\ stage[r] = "pushed" /\ stage' = [stage EXCEPT ![r] = "done"]
      /\ tasks' = Append(tasks, r) /\ UNCHANGED <<pc, task, answers>>
  BY DEF Post, Posted
<1>2. tasks \in Seq(Requests) /\ stage \in [Requests -> Stages]
  BY DEF TypeInv, TypeOK, QueueTypeOK, IoTypeOK
<1>3. /\ Len(tasks') = Len(tasks) + 1 /\ Len(tasks) \in Nat
      /\ \A i \in 1..Len(tasks) : tasks'[i] = tasks[i]
      /\ tasks'[Len(tasks) + 1] = r
  BY <1>1, <1>2, AppendProperties
<1>4. \A i \in 1..Len(tasks) : tasks[i] \in Requests /\ tasks[i] # r
  BY <1>1, <1>2 DEF TaskInv, PostedInv
<1>5. AnsweredOnce' /\ StageInv'
  BY <1>1, <1>2 DEF TaskInv, AnsweredOnce, StageInv
<1>6. PostedInv'
  <2> SUFFICES ASSUME NEW i \in 1..(Len(tasks) + 1)
               PROVE  /\ stage'[tasks'[i]] = "done" /\ answers[tasks'[i]] = <<>>
                      /\ \A k \in 1..(Len(tasks) + 1) : tasks'[k] = tasks'[i] => k = i
    BY <1>1, <1>3 DEF PostedInv
  <2>1. CASE i = Len(tasks) + 1
    BY <1>1, <1>2, <1>3, <1>4, <2>1 DEF TaskInv, StageInv
  <2>2. CASE i \in 1..Len(tasks)
    BY <1>1, <1>2, <1>3, <1>4, <2>2 DEF TaskInv, PostedInv
  <2> QED
    BY <1>3, <2>1, <2>2
<1>7. StartedInv'
  BY <1>1, <1>2, <1>3 DEF TaskInv, StartedInv, Unanswered
<1> QED
  BY <1>5, <1>6, <1>7 DEF TaskInv

LEMMA TaskStart ==
  ASSUME TypeInv, TaskInv, NEW t \in Threads, Start(t)
  PROVE  TaskInv'
<1> USE DEF ioVars
<1>1. /\ pc[t] = "idle" /\ tasks # <<>> /\ task' = [task EXCEPT ![t] = Head(tasks)]
      /\ tasks' = Tail(tasks) /\ pc' = [pc EXCEPT ![t] = "pop"]
      /\ UNCHANGED <<stage, answers>>
  BY DEF Start
<1>2. /\ tasks \in Seq(Requests) /\ pc \in [Threads -> ThreadPcs]
      /\ task \in [Threads -> Requests \cup {None}]
  BY DEF TypeInv, TypeOK, QueueTypeOK, PoolTypeOK
<1>3. /\ Len(tasks') = Len(tasks) - 1 /\ Len(tasks) \in Nat /\ Len(tasks) >= 1
      /\ \A i \in 1..Len(tasks') : tasks'[i] = tasks[i + 1]
      /\ Head(tasks) = tasks[1] /\ tasks[1] \in Requests
  BY <1>1, <1>2
<1>4. AnsweredOnce' /\ StageInv'
  BY <1>1 DEF TaskInv, AnsweredOnce, StageInv
<1>5. PostedInv'
  BY <1>1, <1>3 DEF TaskInv, PostedInv
<1>6. /\ stage[Head(tasks)] = "done" /\ answers[Head(tasks)] = <<>>
      /\ \A i \in 1..Len(tasks') : tasks'[i] # Head(tasks)
      /\ \A u \in Threads : pc[u] # "idle" => task[u] # Head(tasks)
  BY <1>1, <1>3 DEF TaskInv, PostedInv, StartedInv
<1>7. StartedInv'
  <2> SUFFICES ASSUME NEW u \in Threads, pc'[u] # "idle"
               PROVE  /\ task'[u] \in Requests /\ stage[task'[u]] = "done"
                      /\ \A i \in 1..Len(tasks') : tasks'[i] # task'[u]
                      /\ \A v \in Threads : pc'[v] # "idle" /\ task'[v] = task'[u] => v = u
                      /\ Unanswered(u)' <=> answers[task'[u]] = <<>>
    BY <1>1 DEF StartedInv
  <2>1. CASE u = t
    BY <1>1, <1>2, <1>3, <1>6, <2>1 DEF Unanswered
  <2>2. CASE u # t
    BY <1>1, <1>2, <1>3, <1>6, <2>2 DEF TaskInv, StartedInv, Unanswered
  <2> QED
    BY <2>1, <2>2
<1> QED
  BY <1>4, <1>5, <1>7 DEF TaskInv

(* A running task goes on without answering, or after it has answered.     *)
LEMMA TaskGoesOn ==
  ASSUME TypeInv, TaskInv, NEW t \in Threads, pc[t] # "idle",
         NEW c, c # "idle", pc' = [pc EXCEPT ![t] = c],
         Unanswered(t)' <=> Unanswered(t),
         UNCHANGED <<stage, tasks, task, answers>>
  PROVE  TaskInv'
<1>1. \A u \in Threads : /\ pc'[u] # "idle" <=> pc[u] # "idle"
                         /\ Unanswered(u)' <=> Unanswered(u)
  BY DEF TypeInv, TypeOK, PoolTypeOK, Unanswered
<1> QED
  BY <1>1 DEF TaskInv, AnsweredOnce, StageInv, PostedInv, StartedInv

(* A running task answers its request, and may end.                        *)
LEMMA TaskAnswers ==
  ASSUME TypeInv, TaskInv, NEW t \in Threads, Unanswered(t),
         NEW kind \in AnswerKinds, NEW j \in Requests \cup {None},
         Answer(task[t], kind, j),
         \/ EndTask(t)
         \/ pc' = [pc EXCEPT ![t] = "release"] /\ UNCHANGED task,
         UNCHANGED <<stage, tasks>>
  PROVE  TaskInv'
<1>1. /\ pc[t] # "idle" /\ task[t] \in Requests /\ stage[task[t]] = "done"
      /\ answers[task[t]] = <<>> /\ AnswersOK
  BY DEF TaskInv, StartedInv, Unanswered, TypeInv, TypeOK, AnswersOK
<1>2. /\ \A s \in Requests \ {task[t]} : answers'[s] = answers[s]
      /\ Len(answers'[task[t]]) = 1
  BY <1>1, AnswerEffect
<1>3. tasks \in Seq(Requests)
  BY DEF TypeInv, TypeOK, QueueTypeOK
<1>4. /\ pc'[t] \in {"idle", "release"} /\ ~Unanswered(t)'
      /\ pc'[t] # "idle" => task'[t] = task[t]
      /\ \A u \in Threads \ {t} : pc'[u] = pc[u] /\ task'[u] = task[u]
  BY DEF TypeInv, TypeOK, PoolTypeOK, EndTask, Unanswered
<1>5. AnsweredOnce' /\ StageInv'
  <2>1. AnsweredOnce'
    BY <1>1, AnswerOnce DEF TaskInv
  <2>2. ASSUME NEW s \in Requests, stage[s] # "done" PROVE answers'[s] = <<>>
    BY <1>1, <1>2, <2>2 DEF TaskInv, StageInv
  <2> QED
    BY <2>1, <2>2 DEF StageInv
<1>6. PostedInv'
  BY <1>1, <1>2, <1>3 DEF TaskInv, PostedInv, StartedInv
<1>7. StartedInv'
  BY <1>1, <1>2, <1>4 DEF TaskInv, StartedInv, Unanswered
<1> QED
  BY <1>5, <1>6, <1>7 DEF TaskInv

(* The task of a thread ends after its answer.                             *)
LEMMA TaskEnds ==
  ASSUME TypeInv, TaskInv, NEW t \in Threads, EndTask(t),
         UNCHANGED <<stage, tasks, answers>>
  PROVE  TaskInv'
<1>1. /\ pc'[t] = "idle" /\ ~Unanswered(t)'
      /\ \A u \in Threads \ {t} : pc'[u] = pc[u] /\ task'[u] = task[u]
  BY DEF TypeInv, TypeOK, PoolTypeOK, EndTask, Unanswered
<1> QED
  BY <1>1 DEF TaskInv, AnsweredOnce, StageInv, PostedInv, StartedInv, Unanswered

LEMMA TaskUnchanged ==
  ASSUME TaskInv, UNCHANGED <<stage, tasks, pc, task, answers>>
  PROVE  TaskInv'
  BY DEF TaskInv, AnsweredOnce, StageInv, PostedInv, StartedInv, Unanswered

LEMMA TaskStep == TypeInv /\ TaskInv /\ [Next]_vars => TaskInv'
<1> SUFFICES ASSUME TypeInv, TaskInv, [Next]_vars
             PROVE  TaskInv'
  OBVIOUS
<1> USE DEF ioVars, poolVars, rpcVars, lockVars, histVars
<1>1. ASSUME NEW r \in Requests, NEW h \in Hashes \cup {NoHash},
             NEW p \in Priorities, Begin(r, h, p)
      PROVE  TaskInv'
  BY <1>1, TaskStage DEF Begin
<1>2. ASSUME NEW r \in Requests, RequestStep(r)
      PROVE  TaskInv'
  <2>1. CASE Malformed(r)
    BY <2>1, TaskRefused DEF Malformed, AnswerKinds
  <2>2. CASE Push(r)
    BY <2>2, TaskStage DEF Push
  <2>3. CASE Reject(r)
    BY <2>3, TaskRefused DEF Reject, AnswerKinds
  <2>4. CASE Post(r)
    BY <2>4, TaskPost
  <2> QED
    BY <1>2, <2>1, <2>2, <2>3, <2>4 DEF RequestStep
<1>3. ASSUME NEW h \in Hashes, Cancel(h)
      PROVE  TaskInv'
  BY <1>3, TaskUnchanged DEF Cancel, RemoveJobs
<1>4. CASE DeleteQueue
  BY <1>4, TaskUnchanged DEF DeleteQueue, RemoveJobs
<1>5. ASSUME NEW q \in Readers, QueueLockJobs(q) \/ ReaderStep(q)
      PROVE  TaskInv'
  BY <1>5, TaskUnchanged DEF QueueLockJobs, ReaderStep, QueueLockActive,
     QueueLockCompleted, QueueCopy, QueueRespond
<1>6. ASSUME NEW t \in Threads, ThreadStep(t) \/ Fault(t)
      PROVE  TaskInv'
  <2>1. CASE Start(t)
    BY <2>1, TaskStart
  <2>2. CASE Pop(t)
    <3>1. pc'[t] = "scan" /\ pc[t] = "pop"
      BY <2>2 DEF Pop, TypeInv, TypeOK, PoolTypeOK
    <3> QED
      BY <2>2, <3>1, TaskGoesOn DEF Pop, Unanswered
  <2>3. CASE NoJobs(t)
    BY <2>3, TaskAnswers DEF NoJobs, Unanswered, AnswerKinds
  <2>4. CASE TryAcquire(t)
    <3>1. CASE UNCHANGED pc
      BY <2>4, <3>1, TaskUnchanged DEF TryAcquire
    <3>2. CASE pc' = [pc EXCEPT ![t] = "insert"]
      <4>1. pc'[t] = "insert" /\ pc[t] = "scan"
        BY <2>4, <3>2 DEF TryAcquire, TypeInv, TypeOK, PoolTypeOK
      <4> QED
        BY <2>4, <3>2, <4>1, TaskGoesOn DEF TryAcquire, Unanswered
    <3> QED
      BY <2>4, <3>1, <3>2 DEF TryAcquire
  <2>5. CASE NoDevice(t)
    BY <2>5, TaskAnswers DEF NoDevice, Unanswered, AnswerKinds
  <2>6. CASE InsertActive(t)
    <3>1. pc'[t] = "search" /\ pc[t] = "insert"
      BY <2>6 DEF InsertActive, TypeInv, TypeOK, PoolTypeOK
    <3> QED
      BY <2>6, <3>1, TaskGoesOn DEF InsertActive, Unanswered
  <2>7. CASE Respond(t)
    <3>1. job[t] \in Requests \cup {None}
      BY DEF TypeInv, TypeOK, PoolTypeOK
    <3> QED
      BY <2>7, <3>1, TaskAnswers DEF Respond, Unanswered, AnswerKinds
  <2>8. CASE Release(t)
    <3>1. pc'[t] = "lock"
      BY <2>8 DEF Release, TypeInv, TypeOK, PoolTypeOK
    <3> QED
      BY <2>8, <3>1, TaskGoesOn DEF Release, Unanswered
  <2>9. CASE LockActive(t)
    <3>1. pc'[t] = "retire"
      BY <2>9 DEF LockActive, TypeInv, TypeOK, PoolTypeOK
    <3> QED
      BY <2>9, <3>1, TaskGoesOn DEF LockActive, Unanswered
  <2>10. CASE Retire(t)
    BY <2>10, TaskEnds DEF Retire
  <2>11. CASE Fault(t)
    BY <2>11, TaskAnswers DEF Fault, MayThrow, Unanswered, AnswerKinds
  <2> QED
    BY <1>6, <2>1, <2>2, <2>3, <2>4, <2>5, <2>6, <2>7, <2>8, <2>9, <2>10, <2>11
       DEF ThreadStep
<1>7. CASE Quiet \/ UNCHANGED vars
  BY <1>7, TaskUnchanged DEF Quiet, vars
<1> QED
  BY <1>1, <1>2, <1>3, <1>4, <1>5, <1>6, <1>7 DEF Next

(* The response handler of a request is called at most once, whichever io  *)
(* and pool threads race and whatever fails.                               *)
THEOREM AnsweredAtMostOnce == Spec => []AnsweredOnce
<1>1. Init => TaskInv
  BY TaskInit
<1>2. TypeInv /\ TaskInv /\ [Next]_vars => TaskInv'
  BY TaskStep
<1>3. TaskInv => AnsweredOnce
  BY DEF TaskInv
<1> QED
  BY <1>1, <1>2, <1>3, TypeCorrect, PTL DEF Spec

-----------------------------------------------------------------------------
(* Jobs and their owners. *)

(* r's handler has pushed its job. *)
JobPushed(r) == stage[r] \in {"pushed", "done"}

(* The threads that have popped a job and not delivered its work. *)
Trying(t) == pc[t] \in {"scan", "insert", "search"}

(* Every job was pushed before it got where it is. *)
PushedFirst ==
    /\ \A j \in jobs \cup removed : JobPushed(j)
    /\ \A t \in Threads : Owning(t) => JobPushed(job[t])
    /\ \A r, j \in Requests : GotWork(r, j) => JobPushed(j)

(* The work of a job still being generated was delivered to nobody. *)
NotYetDelivered ==
    \A t \in Threads, r, j \in Requests :
        Trying(t) /\ job[t] = j => ~GotWork(r, j)

JobInv == OneOwner /\ PushedFirst /\ NotYetDelivered

LEMMA JobInit == Init => JobInv
  BY DEF Init, JobInv, OneOwner, PushedFirst, NotYetDelivered, Owning, Trying,
         GotWork

(* A pushed job was pushed for ever.                                       *)
LEMMA PushedStays ==
  ASSUME TypeInv, [Next]_vars, NEW j \in Requests, JobPushed(j)
  PROVE  JobPushed(j)'
<1>0. stage \in [Requests -> Stages]
  BY DEF TypeInv, TypeOK, IoTypeOK
<1> USE <1>0 DEF JobPushed, ioVars
<1>1. ASSUME NEW r \in Requests, NEW h \in Hashes \cup {NoHash},
             NEW p \in Priorities, Begin(r, h, p)
      PROVE  JobPushed(j)'
  BY <1>1 DEF Begin
<1>2. ASSUME NEW r \in Requests, RequestStep(r)
      PROVE  JobPushed(j)'
  BY <1>2 DEF RequestStep, Malformed, Push, Reject, Post
<1>3. ASSUME NEW h \in Hashes, Cancel(h)
      PROVE  JobPushed(j)'
  BY <1>3 DEF Cancel, RemoveJobs
<1>4. CASE DeleteQueue
  BY <1>4 DEF DeleteQueue, RemoveJobs
<1>5. ASSUME NEW q \in Readers, QueueLockJobs(q) \/ ReaderStep(q)
      PROVE  JobPushed(j)'
  BY <1>5 DEF QueueLockJobs, ReaderStep, QueueLockActive, QueueLockCompleted,
              QueueCopy, QueueRespond
<1>6. ASSUME NEW t \in Threads, ThreadStep(t) \/ Fault(t)
      PROVE  JobPushed(j)'
  BY <1>6 DEF ThreadStep, Start, Pop, NoJobs, TryAcquire, NoDevice,
     InsertActive, Respond, Release, LockActive, Retire, Fault
<1>7. CASE Quiet \/ UNCHANGED vars
  BY <1>7 DEF Quiet, vars
<1> QED
  BY <1>1, <1>2, <1>3, <1>4, <1>5, <1>6, <1>7 DEF Next

(* Only Pop gives a thread a job.                                          *)
LEMMA OwnersKept ==
  ASSUME TypeInv, [Next]_vars, ~(\E t \in Threads : Pop(t)),
         NEW u \in Threads
  PROVE  /\ Owning(u)' => Owning(u) /\ job'[u] = job[u]
         /\ Trying(u)' => Trying(u)
<1>0. pc \in [Threads -> ThreadPcs] /\ job \in [Threads -> Requests \cup {None}]
  BY DEF TypeInv, TypeOK, PoolTypeOK
<1>1. ASSUME NEW t \in Threads, ThreadStep(t) \/ Fault(t)
      PROVE  /\ Owning(u)' => Owning(u) /\ job'[u] = job[u]
             /\ Trying(u)' => Trying(u)
  <2> USE <1>0 DEF Owning, Trying
  <2>1. CASE Start(t)
    BY <2>1 DEF Start
  <2>2. CASE NoJobs(t) \/ NoDevice(t) \/ Fault(t) \/ Retire(t)
    BY <2>2 DEF NoJobs, NoDevice, Fault, Retire, EndTask
  <2>3. CASE TryAcquire(t)
    BY <2>3 DEF TryAcquire
  <2>4. CASE InsertActive(t) \/ Respond(t)
    BY <2>4 DEF InsertActive, Respond
  <2>5. CASE Release(t) \/ LockActive(t)
    BY <2>5 DEF Release, LockActive
  <2> QED
    BY <1>1, <2>1, <2>2, <2>3, <2>4, <2>5 DEF ThreadStep
<1>2. CASE ~(\E t \in Threads : ThreadStep(t) \/ Fault(t))
  BY <1>2, NotPoolStep DEF Owning, Trying
<1> QED
  BY <1>1, <1>2

(* Only Respond delivers work.                                             *)
LEMMA WorkKept ==
  ASSUME TypeInv, TaskInv, [Next]_vars, ~(\E t \in Threads : Respond(t)),
         NEW s \in Requests, NEW k \in Requests
  PROVE  GotWork(s, k)' <=> GotWork(s, k)
<1> USE DEF ioVars, poolVars, rpcVars, lockVars, histVars
<1>0. AnswersOK
  BY DEF TypeInv, TypeOK, AnswersOK
<1>a. CASE UNCHANGED answers
  BY <1>a, NoAnswer
<1>1. ASSUME NEW r \in Requests, NEW h \in Hashes \cup {NoHash},
             NEW p \in Priorities, Begin(r, h, p)
      PROVE  UNCHANGED answers
  BY <1>1 DEF Begin
<1>2. ASSUME NEW r \in Requests, RequestStep(r)
      PROVE  GotWork(s, k)' <=> GotWork(s, k)
  <2>1. CASE Malformed(r) \/ Reject(r)
    <3>1. PICK kind \in {"malformed", "limit"} : Answer(r, kind, None)
      BY <2>1 DEF Malformed, Reject
    <3>2. answers[r] = <<>>
      BY <2>1 DEF Malformed, Reject, TaskInv, StageInv
    <3> QED
      BY <1>0, <3>1, <3>2, AnswerGot DEF AnswerKinds
  <2>2. CASE Push(r) \/ Post(r)
    BY <2>2, <1>a DEF Push, Post
  <2> QED
    BY <1>2, <2>1, <2>2 DEF RequestStep
<1>3. ASSUME NEW h \in Hashes, Cancel(h)
      PROVE  UNCHANGED answers
  BY <1>3 DEF Cancel, RemoveJobs
<1>4. CASE DeleteQueue
  BY <1>4, <1>a DEF DeleteQueue, RemoveJobs
<1>5. ASSUME NEW q \in Readers, QueueLockJobs(q) \/ ReaderStep(q)
      PROVE  UNCHANGED answers
  BY <1>5 DEF QueueLockJobs, ReaderStep, QueueLockActive, QueueLockCompleted,
              QueueCopy, QueueRespond
<1>6. ASSUME NEW t \in Threads, ThreadStep(t) \/ Fault(t)
      PROVE  GotWork(s, k)' <=> GotWork(s, k)
  <2>1. CASE NoJobs(t) \/ NoDevice(t) \/ Fault(t)
    <3>1. PICK kind \in {"nojobs", "nodevice", "fault"} :
                 Answer(task[t], kind, None)
      BY <2>1 DEF NoJobs, NoDevice, Fault
    <3>2. task[t] \in Requests /\ answers[task[t]] = <<>>
      BY <2>1 DEF NoJobs, NoDevice, Fault, MayThrow, TaskInv, StartedInv,
                  Unanswered
    <3> QED
      BY <1>0, <3>1, <3>2, AnswerGot DEF AnswerKinds
  <2>2. CASE Start(t) \/ Pop(t) \/ TryAcquire(t) \/ InsertActive(t)
             \/ Release(t) \/ LockActive(t) \/ Retire(t)
    BY <2>2, <1>a DEF Start, Pop, TryAcquire, InsertActive, Release, LockActive,
                      Retire
  <2> QED
    BY <1>6, <2>1, <2>2 DEF ThreadStep
<1>7. CASE Quiet \/ UNCHANGED vars
  BY <1>7, <1>a DEF Quiet, vars
<1> QED
  BY <1>a, <1>1, <1>2, <1>3, <1>4, <1>5, <1>6, <1>7 DEF Next

(* Only a push, a pop, work_cancel and DELETE change the queue.            *)
LEMMA QueueKept ==
  ASSUME [Next]_vars,
         ~(\E r \in Requests : Push(r)), ~(\E t \in Threads : Pop(t)),
         ~(\E h \in Hashes : Cancel(h)), ~DeleteQueue
  PROVE  UNCHANGED <<jobs, removed>>
<1>1. ASSUME NEW r \in Requests, NEW h \in Hashes \cup {NoHash},
             NEW p \in Priorities, Begin(r, h, p)
      PROVE  UNCHANGED <<jobs, removed>>
  BY <1>1 DEF Begin
<1>2. ASSUME NEW r \in Requests, RequestStep(r)
      PROVE  UNCHANGED <<jobs, removed>>
  BY <1>2 DEF RequestStep, Malformed, Reject, Post
<1>3. ASSUME NEW q \in Readers, QueueLockJobs(q) \/ ReaderStep(q)
      PROVE  UNCHANGED <<jobs, removed>>
  BY <1>3 DEF QueueLockJobs, ReaderStep, QueueLockActive, QueueLockCompleted,
              QueueCopy, QueueRespond
<1>4. ASSUME NEW t \in Threads, ThreadStep(t) \/ Fault(t)
      PROVE  UNCHANGED <<jobs, removed>>
  BY <1>4 DEF ThreadStep, Start, NoJobs, TryAcquire, NoDevice, InsertActive,
     Respond, Release, LockActive, Retire, Fault
<1>5. CASE Quiet \/ UNCHANGED vars
  BY <1>5 DEF Quiet, vars
<1> QED
  BY <1>1, <1>2, <1>3, <1>4, <1>5 DEF Next

(* Steps that move no job.                                                 *)
LEMMA JobKept ==
  ASSUME JobInv, UNCHANGED <<jobs, removed>>,
         QueueTypeOK,
         FrameOK,
         \A j \in Requests : JobPushed(j) => JobPushed(j)',
         \A u \in Threads : /\ Owning(u)' => Owning(u) /\ job'[u] = job[u]
                            /\ Trying(u)' => Trying(u),
         \A u \in Threads : Trying(u) => Owning(u),
         \A u \in Threads : Trying(u)' => Owning(u)',
         \A s, k \in Requests : GotWork(s, k)' <=> GotWork(s, k)
  PROVE  JobInv'
<1>1. OneOwner'
  BY DEF JobInv, OneOwner
<1>2. PushedFirst'
  BY DEF JobInv, PushedFirst, QueueTypeOK, FrameOK
<1>3. NotYetDelivered'
  BY DEF JobInv, NotYetDelivered
<1> QED
  BY <1>1, <1>2, <1>3 DEF JobInv

LEMMA JobStep == TypeInv /\ TaskInv /\ JobInv /\ [Next]_vars => JobInv'
<1> SUFFICES ASSUME TypeInv, TaskInv, JobInv, [Next]_vars
             PROVE  JobInv'
  OBVIOUS
<1>0. /\ QueueTypeOK /\ FrameOK
      /\ pc \in [Threads -> ThreadPcs] /\ job \in [Threads -> Requests \cup {None}]
      /\ AnswersOK
  BY DEF TypeInv, TypeOK, PoolTypeOK, AnswersOK
<1>a. \A j \in Requests : JobPushed(j) => JobPushed(j)'
  BY PushedStays
<1>b. /\ \A u \in Threads : Trying(u) => Owning(u)
      /\ \A u \in Threads : Trying(u)' => Owning(u)'
  BY DEF Trying, Owning
<1>1. ASSUME NEW r \in Requests, Push(r) PROVE JobInv'
  <2>1. /\ jobs' = jobs \cup {r} /\ removed' = removed /\ UNCHANGED <<pc, job, answers>>
        /\ ~JobPushed(r) /\ JobPushed(r)'
    BY <1>1 DEF Push, poolVars, JobPushed, TypeInv, TypeOK, IoTypeOK
  <2>2. /\ r \notin jobs \cup removed
        /\ \A u \in Threads : Owning(u) => job[u] # r
        /\ \A s \in Requests : ~GotWork(s, r)
    BY <2>1 DEF JobInv, PushedFirst
  <2>3. /\ \A u \in Threads : (Owning(u)' <=> Owning(u)) /\ (Trying(u)' <=> Trying(u))
        /\ \A s, k \in Requests : GotWork(s, k)' <=> GotWork(s, k)
    BY <2>1, NoAnswer DEF Owning, Trying
  <2>4. OneOwner'
    BY <2>1, <2>2, <2>3 DEF JobInv, OneOwner
  <2>5. PushedFirst'
    BY <1>0, <1>a, <2>1, <2>3 DEF JobInv, PushedFirst, QueueTypeOK, FrameOK
  <2>6. NotYetDelivered'
    BY <2>1, <2>3 DEF JobInv, NotYetDelivered
  <2> QED
    BY <2>4, <2>5, <2>6 DEF JobInv
<1>2. ASSUME NEW gone \in SUBSET jobs, RemoveJobs(gone) PROVE JobInv'
  <2>1. /\ jobs' = jobs \ gone /\ removed' = removed \cup gone
        /\ UNCHANGED <<stage, pc, job, answers>>
    BY <1>2 DEF RemoveJobs, ioVars, poolVars
  <2>2. /\ \A u \in Threads : (Owning(u)' <=> Owning(u)) /\ (Trying(u)' <=> Trying(u))
        /\ \A s, k \in Requests : GotWork(s, k)' <=> GotWork(s, k)
    BY <2>1, NoAnswer DEF Owning, Trying
  <2>3. OneOwner'
    BY <2>1, <2>2 DEF JobInv, OneOwner
  <2>4. PushedFirst'
    BY <1>0, <1>a, <2>1, <2>2 DEF JobInv, PushedFirst, QueueTypeOK, FrameOK
  <2>5. NotYetDelivered'
    BY <2>1, <2>2 DEF JobInv, NotYetDelivered
  <2> QED
    BY <2>3, <2>4, <2>5 DEF JobInv
<1>3. ASSUME NEW t \in Threads, Pop(t) PROVE JobInv'
  <2>1. PICK j \in jobs : job' = [job EXCEPT ![t] = j] /\ jobs' = jobs \ {j}
    BY <1>3 DEF Pop, Without
  <2>2. /\ pc[t] = "pop" /\ pc' = [pc EXCEPT ![t] = "scan"]
        /\ UNCHANGED <<stage, removed, answers>>
    BY <1>3 DEF Pop, ioVars
  <2>3. /\ ~Owning(t) /\ Owning(t)' /\ job'[t] = j /\ j \in Requests
        /\ \A u \in Threads \ {t} : /\ Owning(u)' <=> Owning(u)
                                    /\ Trying(u)' <=> Trying(u)
                                    /\ job'[u] = job[u]
    BY <1>0, <2>1, <2>2 DEF Owning, Trying, QueueTypeOK
  <2>4. \A s, k \in Requests : GotWork(s, k)' <=> GotWork(s, k)
    BY <2>2, NoAnswer
  <2>5. /\ j \notin removed /\ JobPushed(j)
        /\ \A u \in Threads : Owning(u) => job[u] # j
        /\ \A s \in Requests : ~GotWork(s, j)
    BY <2>3 DEF JobInv, OneOwner, PushedFirst
  <2>6. OneOwner'
    <3>1. (jobs \cap removed)' = {}
      BY <2>1, <2>2 DEF JobInv, OneOwner
    <3>2. ASSUME NEW v \in Threads, Owning(v)'
          PROVE  /\ job'[v] \notin jobs' \cup removed'
                 /\ \A u \in Threads : Owning(u)' /\ job'[u] = job'[v] => u = v
      <4>1. CASE v = t
        BY <2>1, <2>2, <2>3, <2>5, <3>2, <4>1
      <4>2. CASE v # t
        <5>1. Owning(v) /\ job'[v] = job[v] /\ job[v] # j
          BY <2>3, <2>5, <3>2, <4>2
        <5>2. job[v] \notin jobs \cup removed
          BY <5>1 DEF JobInv, OneOwner
        <5>3. \A u \in Threads : Owning(u) /\ job[u] = job[v] => u = v
          BY <5>1 DEF JobInv, OneOwner
        <5> QED
          BY <2>1, <2>2, <2>3, <5>1, <5>2, <5>3
      <4> QED
        BY <4>1, <4>2
    <3>3. ASSUME NEW r \in Requests, NEW k \in Requests, GotWork(r, k)'
          PROVE  /\ k \notin jobs' \cup removed'
                 /\ \A s \in Requests : GotWork(s, k)' => s = r
      BY <2>1, <2>2, <2>4, <3>3 DEF JobInv, OneOwner
    <3> QED
      BY <3>1, <3>2, <3>3 DEF OneOwner
  <2>7. PushedFirst'
    <3>1. \A k \in (jobs \cup removed)' : JobPushed(k)'
      BY <1>0, <1>a, <2>1, <2>2 DEF JobInv, PushedFirst, QueueTypeOK
    <3>2. \A u \in Threads : Owning(u)' => stage'[job'[u]] \in {"pushed", "done"}
      BY <1>0, <2>2, <2>3, <2>5 DEF JobInv, PushedFirst, JobPushed
    <3>3. \A r, k \in Requests : GotWork(r, k)' => JobPushed(k)'
      BY <1>a, <2>4 DEF JobInv, PushedFirst
    <3> QED
      BY <3>1, <3>2, <3>3 DEF PushedFirst, JobPushed
  <2>8. NotYetDelivered'
    BY <2>3, <2>4, <2>5 DEF JobInv, NotYetDelivered
  <2> QED
    BY <2>6, <2>7, <2>8 DEF JobInv
<1>4. ASSUME NEW t \in Threads, Respond(t) PROVE JobInv'
  <2>1. /\ Answer(task[t], "work", job[t]) /\ pc[t] = "search"
        /\ pc' = [pc EXCEPT ![t] = "release"]
        /\ UNCHANGED <<stage, jobs, removed, job>>
    BY <1>4 DEF Respond, ioVars
  <2>2. /\ Owning(t) /\ Trying(t) /\ ~Trying(t)'
        /\ \A u \in Threads : Owning(u)' <=> Owning(u)
        /\ \A u \in Threads \ {t} : Trying(u)' <=> Trying(u)
    BY <1>0, <2>1 DEF Owning, Trying
  <2>3. task[t] \in Requests /\ answers[task[t]] = <<>> /\ job[t] \in Requests
    BY <1>0, <2>1, <2>2 DEF TaskInv, StartedInv, Unanswered, FrameOK
  <2>4. \A s, k \in Requests :
          GotWork(s, k)' <=> GotWork(s, k) \/ (s = task[t] /\ k = job[t])
    BY <1>0, <2>1, <2>3, AnswerGot DEF AnswerKinds
  <2>5. /\ job[t] \notin jobs \cup removed /\ JobPushed(job[t])
        /\ \A u \in Threads : Owning(u) /\ job[u] = job[t] => u = t
        /\ \A s \in Requests : ~GotWork(s, job[t])
    BY <2>2, <2>3 DEF JobInv, OneOwner, PushedFirst, NotYetDelivered
  <2>6. OneOwner'
    <3>1. /\ (jobs \cap removed)' = {}
          /\ \A v \in Threads : Owning(v)' =>
               /\ job'[v] \notin jobs' \cup removed'
               /\ \A u \in Threads : Owning(u)' /\ job'[u] = job'[v] => u = v
      BY <2>1, <2>2 DEF JobInv, OneOwner
    <3>2. ASSUME NEW r \in Requests, NEW k \in Requests, GotWork(r, k)'
          PROVE  /\ k \notin jobs' \cup removed'
                 /\ \A s \in Requests : GotWork(s, k)' => s = r
      BY <2>1, <2>4, <2>5, <3>2 DEF JobInv, OneOwner
    <3> QED
      BY <3>1, <3>2 DEF OneOwner
  <2>7. PushedFirst'
    <3>1. \A k \in (jobs \cup removed)' : JobPushed(k)'
      BY <1>0, <1>a, <2>1, <2>2 DEF JobInv, PushedFirst, QueueTypeOK
    <3>2. \A u \in Threads : Owning(u)' => stage'[job'[u]] \in {"pushed", "done"}
      BY <2>1, <2>2 DEF JobInv, PushedFirst, JobPushed
    <3>3. \A r, k \in Requests : GotWork(r, k)' => JobPushed(k)'
      BY <1>a, <2>4, <2>5 DEF JobInv, PushedFirst
    <3> QED
      BY <3>1, <3>2, <3>3 DEF PushedFirst, JobPushed
  <2>8. NotYetDelivered'
    BY <1>b, <2>1, <2>2, <2>4, <2>5 DEF JobInv, NotYetDelivered
  <2> QED
    BY <2>6, <2>7, <2>8 DEF JobInv
<1>5. CASE \E h \in Hashes : Cancel(h)
  BY <1>2, <1>5 DEF Cancel
<1>6. CASE DeleteQueue
  BY <1>2, <1>6 DEF DeleteQueue
<1>7. CASE /\ ~(\E r \in Requests : Push(r)) /\ ~(\E t \in Threads : Pop(t))
           /\ ~(\E h \in Hashes : Cancel(h)) /\ ~DeleteQueue
           /\ ~(\E t \in Threads : Respond(t))
  <2>1. UNCHANGED <<jobs, removed>>
    BY <1>7, QueueKept
  <2>2. \A u \in Threads : /\ Owning(u)' => Owning(u) /\ job'[u] = job[u]
                           /\ Trying(u)' => Trying(u)
    BY <1>7, OwnersKept
  <2>3. \A s, k \in Requests : GotWork(s, k)' <=> GotWork(s, k)
    BY <1>7, WorkKept
  <2> QED
    BY <1>0, <1>a, <1>b, <2>1, <2>2, <2>3, JobKept
<1> QED
  BY <1>1, <1>3, <1>4, <1>5, <1>6, <1>7

(* TypeInv, TaskInv and JobInv hold together.                              *)
LEMMA JobsAlways == Spec => [](TypeInv /\ TaskInv /\ JobInv)
<1>1. Init => TaskInv /\ JobInv
  BY TaskInit, JobInit
<1>2. TypeInv /\ TaskInv /\ JobInv /\ [Next]_vars => TaskInv' /\ JobInv'
  BY TaskStep, JobStep
<1> QED
  BY <1>1, <1>2, TypeCorrect, PTL DEF Spec

(* A job is in one place only and its work goes to one request, for any    *)
(* number of threads and requests and whatever is cancelled or fails.      *)
THEOREM JobsOwnedOnce == Spec => []OneOwner
<1>1. JobInv => OneOwner
  BY DEF JobInv
<1> QED
  BY <1>1, JobsAlways, PTL

-----------------------------------------------------------------------------
(* The queue and the posted tasks. *)

(* Sets of requests are finite: they can be counted.                       *)
LEMMA RequestSets ==
  ASSUME NEW S, S \subseteq Requests
  PROVE  IsFiniteSet(S) /\ Cardinality(S) \in Nat
  BY FS_Subset, FS_CardinalityType, ConstantsAssumption

LEMMA OneMore ==
  ASSUME NEW S, S \subseteq Requests, NEW r \in Requests, r \notin S
  PROVE  Cardinality(S \cup {r}) = Cardinality(S) + 1
  BY RequestSets, FS_AddElement

LEMMA OneLess ==
  ASSUME NEW S, S \subseteq Requests, NEW r \in S
  PROVE  Cardinality(S \ {r}) = Cardinality(S) - 1
  BY RequestSets, FS_RemoveElement

(* The queue only grows by a push that saw room.                           *)
LEMMA BoundedStep == TypeInv /\ QueueBounded /\ [Next]_vars => QueueBounded'
<1> SUFFICES ASSUME TypeInv, QueueBounded, [Next]_vars
             PROVE  QueueBounded'
  OBVIOUS
<1> USE ConstantsAssumption DEF QueueBounded
<1>0. jobs \subseteq Requests /\ Cardinality(jobs) \in Nat
  BY RequestSets DEF TypeInv, TypeOK, QueueTypeOK
<1>1. ASSUME NEW r \in Requests, Push(r) PROVE QueueBounded'
  <2>1. jobs' = jobs \cup {r} /\ Cardinality(jobs) < RequestLimit
    BY <1>1 DEF Push, HasRoom
  <2>2. Cardinality(jobs \cup {r}) <= Cardinality(jobs) + 1
    <3>1. CASE r \in jobs
      <4>1. jobs \cup {r} = jobs
        BY <3>1
      <4> QED
        BY <1>0, <4>1
    <3>2. CASE r \notin jobs
      BY <1>0, <3>2, OneMore
    <3> QED
      BY <3>1, <3>2
  <2>3. Cardinality(jobs \cup {r}) \in Nat
    <3>1. jobs \cup {r} \subseteq Requests
      BY <1>0
    <3> QED
      BY <3>1, RequestSets
  <2> QED
    BY <1>0, <2>1, <2>2, <2>3
<1>2. ASSUME jobs' \subseteq jobs PROVE QueueBounded'
  <2>1. IsFiniteSet(jobs)
    BY <1>0, RequestSets
  <2>2. IsFiniteSet(jobs') /\ Cardinality(jobs') <= Cardinality(jobs)
    BY <1>2, <2>1, FS_Subset
  <2>3. Cardinality(jobs') \in Nat
    BY <2>2, FS_CardinalityType
  <2> QED
    BY <1>0, <2>2, <2>3
<1>3. ASSUME NEW t \in Threads, Pop(t) PROVE QueueBounded'
  BY <1>2, <1>3 DEF Pop, Without
<1>4. CASE \E h \in Hashes : Cancel(h)
  BY <1>2, <1>4 DEF Cancel, RemoveJobs
<1>5. CASE DeleteQueue
  BY <1>2, <1>5 DEF DeleteQueue, RemoveJobs
<1>6. CASE /\ ~(\E r \in Requests : Push(r)) /\ ~(\E t \in Threads : Pop(t))
           /\ ~(\E h \in Hashes : Cancel(h)) /\ ~DeleteQueue
  BY <1>2, <1>6, QueueKept
<1> QED
  BY <1>1, <1>3, <1>4, <1>5, <1>6

(* However many io threads race for the last place, the queue never holds  *)
(* more than server.request_limit jobs.                                    *)
THEOREM QueueAlwaysBounded == Spec => []QueueBounded
<1>1. Init => QueueBounded
  BY FS_EmptySet, ConstantsAssumption DEF Init, QueueBounded
<1>2. TypeInv /\ QueueBounded /\ [Next]_vars => QueueBounded'
  BY BoundedStep
<1> QED
  BY <1>1, <1>2, TypeCorrect, PTL DEF Spec

(* Posting a task and starting it leave its request waiting.               *)
LEMMA WaitingKept ==
  ASSUME TypeInv, TaskInv, [Next]_vars,
         ~(\E r \in Requests : Push(r)),
         ~(\E t \in Threads : Pop(t) \/ NoJobs(t))
  PROVE  Waiting' = Waiting
<1> USE DEF ioVars, poolVars, rpcVars, lockVars, histVars
<1>0. /\ stage \in [Requests -> Stages] /\ tasks \in Seq(Requests)
      /\ pc \in [Threads -> ThreadPcs]
      /\ task \in [Threads -> Requests \cup {None}]
  BY DEF TypeInv, TypeOK, IoTypeOK, QueueTypeOK, PoolTypeOK
<1>a. ASSUME UNCHANGED <<tasks, pc, task>>,
             \A r \in Requests : stage'[r] = "pushed" <=> stage[r] = "pushed"
      PROVE  Waiting' = Waiting
  BY <1>a DEF Waiting
<1>b. ASSUME UNCHANGED <<stage, tasks>>,
             \A t \in Threads : pc'[t] = "pop" <=> pc[t] = "pop",
             \A t \in Threads : pc[t] = "pop" => task'[t] = task[t]
      PROVE  Waiting' = Waiting
  BY <1>b DEF Waiting
<1>1. ASSUME NEW r \in Requests, NEW h \in Hashes \cup {NoHash},
             NEW p \in Priorities, Begin(r, h, p)
      PROVE  Waiting' = Waiting
  BY <1>0, <1>1, <1>a DEF Begin
<1>2. ASSUME NEW r \in Requests, RequestStep(r)
      PROVE  Waiting' = Waiting
  <2>1. CASE Malformed(r) \/ Reject(r)
    BY <1>0, <2>1, <1>a DEF Malformed, Reject
  <2>2. CASE Post(r)
    <3>1. /\ stage[r] = "pushed" /\ stage' = [stage EXCEPT ![r] = "done"]
          /\ tasks' = Append(tasks, r) /\ UNCHANGED <<pc, task>>
      BY <2>2 DEF Post, Posted
    <3>2. /\ Len(tasks') = Len(tasks) + 1 /\ Len(tasks) \in Nat
          /\ \A i \in 1..Len(tasks) : tasks'[i] = tasks[i]
          /\ tasks'[Len(tasks) + 1] = r
      BY <1>0, <3>1, AppendProperties
    <3>3. ASSUME NEW s \in Requests PROVE s \in Waiting' <=> s \in Waiting
      <4>1. (\E i \in 1..Len(tasks') : tasks'[i] = s)
               <=> (\E i \in 1..Len(tasks) : tasks[i] = s) \/ s = r
        BY <3>2
      <4> QED
        BY <1>0, <3>1, <4>1 DEF Waiting
    <3> QED
      BY <3>3 DEF Waiting
  <2> QED
    BY <1>2, <2>1, <2>2 DEF RequestStep
<1>3. ASSUME NEW h \in Hashes, Cancel(h)
      PROVE  Waiting' = Waiting
  BY <1>3, <1>a DEF Cancel, RemoveJobs
<1>4. CASE DeleteQueue
  BY <1>4, <1>a DEF DeleteQueue, RemoveJobs
<1>5. ASSUME NEW q \in Readers, QueueLockJobs(q) \/ ReaderStep(q)
      PROVE  Waiting' = Waiting
  BY <1>5, <1>a DEF QueueLockJobs, ReaderStep, QueueLockActive,
     QueueLockCompleted, QueueCopy, QueueRespond
<1>6. ASSUME NEW t \in Threads, ThreadStep(t) \/ Fault(t)
      PROVE  Waiting' = Waiting
  <2>1. CASE Start(t)
    <3>1. /\ pc[t] = "idle" /\ tasks # <<>>
          /\ task' = [task EXCEPT ![t] = Head(tasks)]
          /\ tasks' = Tail(tasks) /\ pc' = [pc EXCEPT ![t] = "pop"]
          /\ UNCHANGED stage
      BY <2>1 DEF Start
    <3>2. /\ Len(tasks') = Len(tasks) - 1 /\ Len(tasks) \in Nat /\ Len(tasks) >= 1
          /\ \A i \in 1..Len(tasks') : tasks'[i] = tasks[i + 1]
          /\ Head(tasks) = tasks[1]
      BY <1>0, <3>1
    <3>3. ASSUME NEW s \in Requests PROVE s \in Waiting' <=> s \in Waiting
      <4>1. (\E i \in 1..Len(tasks) : tasks[i] = s)
               <=> (\E i \in 1..Len(tasks') : tasks'[i] = s) \/ s = Head(tasks)
        <5>1. ASSUME NEW i \in 1..Len(tasks), tasks[i] = s, i # 1
              PROVE  \E k \in 1..Len(tasks') : tasks'[k] = s
          <6>1. i - 1 \in 1..Len(tasks') /\ tasks'[i - 1] = s
            BY <3>2, <5>1
          <6> QED
            BY <6>1
        <5>2. ASSUME NEW i \in 1..Len(tasks'), tasks'[i] = s
              PROVE  \E k \in 1..Len(tasks) : tasks[k] = s
          <6>1. i + 1 \in 1..Len(tasks) /\ tasks[i + 1] = s
            BY <3>2, <5>2
          <6> QED
            BY <6>1
        <5>3. 1 \in 1..Len(tasks)
          BY <3>2
        <5> QED
          BY <3>2, <5>1, <5>2, <5>3
      <4>2. (\E u \in Threads : pc'[u] = "pop" /\ task'[u] = s)
               <=> (\E u \in Threads : pc[u] = "pop" /\ task[u] = s) \/ s = Head(tasks)
        BY <1>0, <3>1
      <4> QED
        BY <3>1, <4>1, <4>2 DEF Waiting
    <3> QED
      BY <3>3 DEF Waiting
  <2>2. CASE TryAcquire(t)
    BY <1>0, <2>2, <1>b DEF TryAcquire
  <2>3. CASE NoDevice(t) \/ Fault(t) \/ Retire(t)
    BY <1>0, <2>3, <1>b DEF NoDevice, Fault, MayThrow, Retire, EndTask
  <2>4. CASE InsertActive(t) \/ Respond(t) \/ Release(t) \/ LockActive(t)
    BY <1>0, <2>4, <1>b DEF InsertActive, Respond, Release, LockActive
  <2> QED
    BY <1>6, <2>1, <2>2, <2>3, <2>4 DEF ThreadStep
<1>7. CASE Quiet \/ UNCHANGED vars
  BY <1>7, <1>a DEF Quiet, vars
<1> QED
  BY <1>1, <1>2, <1>3, <1>4, <1>5, <1>6, <1>7 DEF Next

(* Only NoJobs turns a request away.                                       *)
LEMMA TurnedAwayKept ==
  ASSUME TypeInv, TaskInv, [Next]_vars, ~(\E t \in Threads : NoJobs(t))
  PROVE  TurnedAway' = TurnedAway
<1> USE DEF ioVars, poolVars, rpcVars, lockVars, histVars
<1>0. AnswersOK
  BY DEF TypeInv, TypeOK, AnswersOK
<1>a. CASE UNCHANGED answers
  BY <1>a, NoAnswer
<1>1. ASSUME NEW r \in Requests, NEW h \in Hashes \cup {NoHash},
             NEW p \in Priorities, Begin(r, h, p)
      PROVE  UNCHANGED answers
  BY <1>1 DEF Begin
<1>2. ASSUME NEW r \in Requests, RequestStep(r)
      PROVE  TurnedAway' = TurnedAway
  <2>1. CASE Malformed(r) \/ Reject(r)
    <3>1. PICK kind \in {"malformed", "limit"} : Answer(r, kind, None)
      BY <2>1 DEF Malformed, Reject
    <3>2. answers[r] = <<>>
      BY <2>1 DEF Malformed, Reject, TaskInv, StageInv
    <3> QED
      BY <1>0, <3>1, <3>2, AnswerAway DEF AnswerKinds
  <2>2. CASE Push(r) \/ Post(r)
    BY <2>2, <1>a DEF Push, Post
  <2> QED
    BY <1>2, <2>1, <2>2 DEF RequestStep
<1>3. ASSUME NEW h \in Hashes, Cancel(h)
      PROVE  UNCHANGED answers
  BY <1>3 DEF Cancel, RemoveJobs
<1>4. CASE DeleteQueue
  BY <1>4, <1>a DEF DeleteQueue, RemoveJobs
<1>5. ASSUME NEW q \in Readers, QueueLockJobs(q) \/ ReaderStep(q)
      PROVE  UNCHANGED answers
  BY <1>5 DEF QueueLockJobs, ReaderStep, QueueLockActive, QueueLockCompleted,
              QueueCopy, QueueRespond
<1>6. ASSUME NEW t \in Threads, ThreadStep(t) \/ Fault(t)
      PROVE  TurnedAway' = TurnedAway
  <2>1. CASE Respond(t) \/ NoDevice(t) \/ Fault(t)
    <3>1. PICK kind \in {"work", "nodevice", "fault"}, j \in Requests \cup {None} :
                 Answer(task[t], kind, j)
      BY <2>1 DEF Respond, NoDevice, Fault, TypeInv, TypeOK, PoolTypeOK
    <3>2. task[t] \in Requests /\ answers[task[t]] = <<>>
      BY <2>1 DEF Respond, NoDevice, Fault, MayThrow, TaskInv, StartedInv,
                  Unanswered
    <3> QED
      BY <1>0, <3>1, <3>2, AnswerAway DEF AnswerKinds
  <2>2. CASE Start(t) \/ Pop(t) \/ TryAcquire(t) \/ InsertActive(t)
             \/ Release(t) \/ LockActive(t) \/ Retire(t)
    BY <2>2, <1>a DEF Start, Pop, TryAcquire, InsertActive, Release, LockActive,
                      Retire
  <2> QED
    BY <1>6, <2>1, <2>2 DEF ThreadStep
<1>7. CASE Quiet \/ UNCHANGED vars
  BY <1>7, <1>a DEF Quiet, vars
<1> QED
  BY <1>a, <1>1, <1>2, <1>3, <1>4, <1>5, <1>6, <1>7 DEF Next

(* The task that gets to the queue no longer waits.                        *)
LEMMA WaitingLess ==
  ASSUME TypeInv, TaskInv, NEW t \in Threads, pc[t] = "pop",
         \A u \in Threads \ {t} : pc'[u] = pc[u] /\ task'[u] = task[u],
         pc'[t] # "pop", UNCHANGED <<stage, tasks>>
  PROVE  task[t] \in Waiting /\ Waiting' = Waiting \ {task[t]}
<1>1. /\ task[t] \in Requests /\ stage[task[t]] = "done"
      /\ \A i \in 1..Len(tasks) : tasks[i] # task[t]
      /\ \A u \in Threads : pc[u] = "pop" /\ task[u] = task[t] => u = t
  BY DEF TaskInv, StartedInv
<1>2. ASSUME NEW s \in Requests
      PROVE  s \in Waiting' <=> s \in Waiting /\ s # task[t]
  BY <1>1 DEF Waiting
<1> QED
  BY <1>1, <1>2 DEF Waiting

(* Each step keeps the balance: a push adds a waiting request and a job, a *)
(* pop takes one of each, NoJobs turns a waiting request away and a removal*)
(* moves jobs from one side's queue to its removed ones.                   *)
LEMMA BalanceStep ==
  TypeInv /\ TaskInv /\ JobInv /\ TasksMatchJobs /\ [Next]_vars => TasksMatchJobs'
<1> SUFFICES ASSUME TypeInv, TaskInv, JobInv, TasksMatchJobs, [Next]_vars
             PROVE  TasksMatchJobs'
  OBVIOUS
<1> DEFINE W == Cardinality(Waiting)
           A == Cardinality(TurnedAway)
           J == Cardinality(jobs)
           R == Cardinality(removed)
<1>0. /\ Waiting \subseteq Requests /\ TurnedAway \subseteq Requests
      /\ jobs \subseteq Requests /\ removed \subseteq Requests
  BY DEF Waiting, TurnedAway, TypeInv, TypeOK, QueueTypeOK
<1>a. W \in Nat /\ A \in Nat /\ J \in Nat /\ R \in Nat /\ W + A = J + R
  BY <1>0, RequestSets DEF TasksMatchJobs
<1>b. /\ pc \in [Threads -> ThreadPcs] /\ stage \in [Requests -> Stages]
      /\ task \in [Threads -> Requests \cup {None}]
      /\ tasks \in Seq(Requests) /\ AnswersOK
  BY DEF TypeInv, TypeOK, IoTypeOK, PoolTypeOK, QueueTypeOK, AnswersOK
<1> HIDE DEF W, A, J, R
<1>1. ASSUME NEW r \in Requests, Push(r) PROVE TasksMatchJobs'
  <2>1. /\ stage[r] = "parsed" /\ stage' = [stage EXCEPT ![r] = "pushed"]
        /\ jobs' = jobs \cup {r} /\ UNCHANGED <<removed, tasks, pc, task, answers>>
    BY <1>1 DEF Push, poolVars
  <2>2. r \notin jobs
    BY <2>1 DEF JobInv, PushedFirst, JobPushed
  <2>3. r \notin Waiting
    BY <2>1 DEF TaskInv, PostedInv, StartedInv, Waiting
  <2>4. Waiting' = Waiting \cup {r}
    <3>1. ASSUME NEW s \in Requests PROVE s \in Waiting' <=> s \in Waiting \/ s = r
      BY <1>b, <2>1 DEF Waiting
    <3> QED
      BY <3>1 DEF Waiting
  <2>5. TurnedAway' = TurnedAway
    BY <2>1, NoAnswer
  <2>6. Cardinality(Waiting') = W + 1 /\ Cardinality(jobs') = J + 1
    BY <1>0, <2>1, <2>2, <2>3, <2>4, OneMore DEF W, J
  <2>7. Cardinality(TurnedAway') = A /\ Cardinality(removed') = R
    BY <2>1, <2>5 DEF A, R
  <2>8. (W + 1) + A = (J + 1) + R
    BY <1>a
  <2> QED
    BY <2>6, <2>7, <2>8 DEF TasksMatchJobs
<1>2. ASSUME NEW t \in Threads, Pop(t) PROVE TasksMatchJobs'
  <2>1. PICK j \in jobs : jobs' = jobs \ {j}
    BY <1>2 DEF Pop, Without
  <2>2. /\ pc[t] = "pop" /\ pc' = [pc EXCEPT ![t] = "scan"]
        /\ UNCHANGED <<stage, removed, tasks, task, answers>>
    BY <1>2 DEF Pop, ioVars
  <2>3. task[t] \in Waiting /\ Waiting' = Waiting \ {task[t]}
    BY <1>b, <2>2, WaitingLess
  <2>4. TurnedAway' = TurnedAway
    BY <2>2, NoAnswer
  <2>5. Cardinality(Waiting') = W - 1 /\ Cardinality(jobs') = J - 1
    BY <1>0, <2>1, <2>3, OneLess DEF W, J
  <2>6. Cardinality(TurnedAway') = A /\ Cardinality(removed') = R
    BY <2>2, <2>4 DEF A, R
  <2>7. (W - 1) + A = (J - 1) + R
    BY <1>a
  <2> QED
    BY <2>5, <2>6, <2>7 DEF TasksMatchJobs
<1>3. ASSUME NEW t \in Threads, NoJobs(t) PROVE TasksMatchJobs'
  <2>1. /\ pc[t] = "pop" /\ Answer(task[t], "nojobs", None) /\ EndTask(t)
        /\ UNCHANGED <<stage, jobs, removed, tasks>>
    BY <1>3 DEF NoJobs, ioVars
  <2>2. task[t] \in Waiting /\ Waiting' = Waiting \ {task[t]}
    BY <1>b, <2>1, WaitingLess DEF EndTask
  <2>3. task[t] \in Requests /\ answers[task[t]] = <<>>
    BY <2>1 DEF TaskInv, StartedInv, Unanswered
  <2>4. task[t] \notin TurnedAway /\ TurnedAway' = TurnedAway \cup {task[t]}
    BY <1>b, <2>1, <2>3, AnswerAway DEF AnswerKinds
  <2>5. Cardinality(Waiting') = W - 1 /\ Cardinality(TurnedAway') = A + 1
    BY <1>0, <2>2, <2>3, <2>4, OneLess, OneMore DEF W, A
  <2>6. Cardinality(jobs') = J /\ Cardinality(removed') = R
    BY <2>1 DEF J, R
  <2>7. (W - 1) + (A + 1) = J + R
    BY <1>a
  <2> QED
    BY <2>5, <2>6, <2>7 DEF TasksMatchJobs
<1>4. ASSUME NEW gone \in SUBSET jobs, RemoveJobs(gone),
             Waiting' = Waiting, TurnedAway' = TurnedAway
      PROVE  TasksMatchJobs'
  <2>1. jobs' = jobs \ gone /\ removed' = removed \cup gone
    BY <1>4 DEF RemoveJobs
  <2>2. jobs \cap gone = gone /\ removed \cap gone = {} /\ gone \subseteq Requests
    BY <1>0 DEF JobInv, OneOwner
  <2>3. Cardinality(gone) \in Nat /\ IsFiniteSet(gone) /\ IsFiniteSet(jobs)
        /\ IsFiniteSet(removed)
    BY <1>0, <2>2, RequestSets
  <2>4. Cardinality(jobs') = J - Cardinality(gone)
    BY <2>1, <2>2, <2>3, FS_Difference DEF J
  <2>5. Cardinality(removed') = R + Cardinality(gone) - Cardinality({})
    BY <2>1, <2>2, <2>3, FS_Union DEF R
  <2>6. Cardinality({}) = 0
    BY FS_EmptySet
  <2>7. (J - Cardinality(gone)) + (R + Cardinality(gone) - 0) = J + R
    BY <1>a, <2>3
  <2>8. Cardinality(Waiting') = W /\ Cardinality(TurnedAway') = A
    BY <1>4 DEF W, A
  <2> QED
    BY <1>a, <2>4, <2>5, <2>6, <2>7, <2>8 DEF TasksMatchJobs
<1>5. ASSUME NEW h \in Hashes, Cancel(h) PROVE TasksMatchJobs'
  <2>1. UNCHANGED <<stage, tasks, pc, task, answers>>
    BY <1>5 DEF Cancel, RemoveJobs, ioVars, poolVars
  <2> QED
    BY <1>4, <1>5, <2>1 DEF Cancel, Waiting, TurnedAway
<1>6. CASE DeleteQueue
  <2>1. UNCHANGED <<stage, tasks, pc, task, answers>>
    BY <1>6 DEF DeleteQueue, RemoveJobs, ioVars, poolVars
  <2> QED
    BY <1>4, <1>6, <2>1 DEF DeleteQueue, Waiting, TurnedAway
<1>7. CASE /\ ~(\E r \in Requests : Push(r))
           /\ ~(\E t \in Threads : Pop(t) \/ NoJobs(t))
           /\ ~(\E h \in Hashes : Cancel(h)) /\ ~DeleteQueue
  <2>1. UNCHANGED <<jobs, removed>>
    BY <1>7, QueueKept
  <2>2. Waiting' = Waiting
    BY <1>7, WaitingKept
  <2>3. TurnedAway' = TurnedAway
    BY <1>7, TurnedAwayKept
  <2> QED
    BY <2>1, <2>2, <2>3 DEF TasksMatchJobs
<1> QED
  BY <1>1, <1>2, <1>3, <1>5, <1>6, <1>7

(* The posted tasks and the queued jobs balance, for any number of         *)
(* requests, threads and removals: no job is left without a task to take   *)
(* it, and "No jobs available" is said once for each removed job at most.  *)
THEOREM TasksAlwaysMatchJobs == Spec => []TasksMatchJobs
<1>1. Init => TasksMatchJobs
  <2> SUFFICES ASSUME Init PROVE TasksMatchJobs
    OBVIOUS
  <2>1. Waiting = {} /\ TurnedAway = {} /\ jobs = {} /\ removed = {}
    BY DEF Init, Waiting, TurnedAway
  <2>2. Cardinality({}) = 0
    BY FS_EmptySet
  <2> QED
    BY <2>1, <2>2 DEF TasksMatchJobs
<1>2. TypeInv /\ TaskInv /\ JobInv /\ TasksMatchJobs /\ [Next]_vars
        => TasksMatchJobs'
  BY BalanceStep
<1> QED
  BY <1>1, <1>2, JobsAlways, PTL DEF Spec

-----------------------------------------------------------------------------
(***************************************************************************)
(* The books the work handler keeps, active_jobs and completed_jobs: what  *)
(* a queue report lists, and that active_jobs refers to live frames only.  *)
(***************************************************************************)

(* The active and the completed jobs are no longer queued, and a completed *)
(* one is neither active nor in the frame of a thread.                     *)
ActiveInv == \A j \in active : JobPushed(j) /\ j \notin jobs

CompletedInv ==
    \A i \in 1..Len(completed) :
        /\ JobPushed(completed[i])
        /\ completed[i] \notin jobs \cup active
        /\ \A t \in Threads : Owning(t) => job[t] # completed[i]

BookInv == ActiveInv /\ CompletedInv

LEMMA BookInit == Init => BookInv
  BY DEF Init, BookInv, ActiveInv, CompletedInv

(* Only InsertActive and Retire write the books.                           *)
LEMMA BooksKept ==
  ASSUME [Next]_vars, ~(\E t \in Threads : InsertActive(t) \/ Retire(t))
  PROVE  UNCHANGED <<active, completed>>
<1> USE DEF histVars
<1>1. ASSUME NEW r \in Requests, NEW h \in Hashes \cup {NoHash},
             NEW p \in Priorities, Begin(r, h, p)
      PROVE  UNCHANGED <<active, completed>>
  BY <1>1 DEF Begin
<1>2. ASSUME NEW r \in Requests, RequestStep(r)
      PROVE  UNCHANGED <<active, completed>>
  BY <1>2 DEF RequestStep, Malformed, Push, Reject, Post
<1>3. ASSUME NEW h \in Hashes, Cancel(h)
      PROVE  UNCHANGED <<active, completed>>
  BY <1>3 DEF Cancel, RemoveJobs
<1>4. CASE DeleteQueue
  BY <1>4 DEF DeleteQueue, RemoveJobs
<1>5. ASSUME NEW q \in Readers, QueueLockJobs(q) \/ ReaderStep(q)
      PROVE  UNCHANGED <<active, completed>>
  BY <1>5 DEF QueueLockJobs, ReaderStep, QueueLockActive, QueueLockCompleted,
              QueueCopy, QueueRespond
<1>6. ASSUME NEW t \in Threads, ThreadStep(t) \/ Fault(t)
      PROVE  UNCHANGED <<active, completed>>
  BY <1>6 DEF ThreadStep, Start, Pop, NoJobs, TryAcquire, NoDevice, Respond,
              Release, LockActive, Fault
<1>7. CASE Quiet \/ UNCHANGED vars
  BY <1>7 DEF Quiet, vars
<1> QED
  BY <1>1, <1>2, <1>3, <1>4, <1>5, <1>6, <1>7 DEF Next

(* Whatever was completed before stays or is dropped by the ring buffer.   *)
LEMMA PushBackElements ==
  ASSUME QueueTypeOK, NEW j \in Requests
  PROVE  /\ PushBack(completed, j) \in Seq(Requests)
         /\ \A i \in 1..Len(PushBack(completed, j)) :
              \/ PushBack(completed, j)[i] = j
              \/ \E k \in 1..Len(completed) : PushBack(completed, j)[i] = completed[k]
<1> USE ConstantsAssumption
<1>0. completed \in Seq(Requests) /\ Len(completed) \in Nat
  BY DEF QueueTypeOK
<1>1. ASSUME NEW s \in Seq(Requests), NEW i \in 1..Len(Append(s, j))
      PROVE  \/ Append(s, j)[i] = j
             \/ i \in 1..Len(s) /\ Append(s, j)[i] = s[i]
  BY AppendProperties
<1>2. CASE Len(completed) < CompletedCap
  <2>1. PushBack(completed, j) = Append(completed, j)
    BY <1>2 DEF PushBack
  <2> QED
    BY <1>0, <1>1, <2>1, AppendProperties
<1>3. CASE ~(Len(completed) < CompletedCap)
  <2>1. PushBack(completed, j) = Append(Tail(completed), j)
    BY <1>3 DEF PushBack
  <2>2. completed # <<>>
    BY <1>0, <1>3
  <2>3. /\ Tail(completed) \in Seq(Requests)
        /\ Len(Tail(completed)) = Len(completed) - 1
        /\ \A i \in 1..Len(Tail(completed)) : Tail(completed)[i] = completed[i + 1]
    BY <1>0, <2>2
  <2>4. \A i \in 1..Len(Tail(completed)) : i + 1 \in 1..Len(completed)
    BY <1>0, <2>3
  <2>5. \A i \in 1..Len(Tail(completed)) :
           \E k \in 1..Len(completed) : Tail(completed)[i] = completed[k]
    BY <2>3, <2>4
  <2>6. Append(Tail(completed), j) \in Seq(Requests)
    BY <2>3, AppendProperties
  <2>7. ASSUME NEW i \in 1..Len(Append(Tail(completed), j))
        PROVE  \/ Append(Tail(completed), j)[i] = j
               \/ \E k \in 1..Len(completed) :
                     Append(Tail(completed), j)[i] = completed[k]
    <3>1. \/ Append(Tail(completed), j)[i] = j
          \/ /\ i \in 1..Len(Tail(completed))
             /\ Append(Tail(completed), j)[i] = Tail(completed)[i]
      BY <1>1, <2>3
    <3> QED
      BY <2>5, <3>1
  <2> QED
    BY <2>1, <2>6, <2>7
<1> QED
  BY <1>2, <1>3

LEMMA BookStep ==
  TypeInv /\ TaskInv /\ JobInv /\ BookInv /\ [Next]_vars => BookInv'
<1> SUFFICES ASSUME TypeInv, TaskInv, JobInv, BookInv, [Next]_vars
             PROVE  BookInv'
  OBVIOUS
<1>0. /\ QueueTypeOK /\ FrameOK
      /\ pc \in [Threads -> ThreadPcs] /\ job \in [Threads -> Requests \cup {None}]
      /\ completed \in Seq(Requests) /\ active \subseteq Requests
      /\ jobs \subseteq Requests
  BY DEF TypeInv, TypeOK, PoolTypeOK, QueueTypeOK
<1>a. \A j \in Requests : JobPushed(j) => JobPushed(j)'
  BY PushedStays
<1>1. ASSUME NEW r \in Requests, Push(r) PROVE BookInv'
  <2>1. /\ jobs' = jobs \cup {r} /\ UNCHANGED <<active, completed, pc, job>>
        /\ ~JobPushed(r)
    BY <1>1 DEF Push, poolVars, histVars, JobPushed
  <2>2. \A u \in Threads : Owning(u)' <=> Owning(u)
    BY <2>1 DEF Owning
  <2>3. ActiveInv'
    BY <1>0, <1>a, <2>1 DEF BookInv, ActiveInv
  <2>4. CompletedInv'
    <3> SUFFICES ASSUME NEW i \in 1..Len(completed)
                 PROVE  /\ JobPushed(completed[i])'
                        /\ completed[i] \notin jobs' \cup active
                        /\ \A t \in Threads : Owning(t)' => job[t] # completed[i]
      BY <2>1 DEF CompletedInv, JobPushed
    <3>1. completed[i] \in Requests /\ completed' = completed
      BY <1>0, <2>1
    <3>2. JobPushed(completed[i]) /\ completed[i] \notin jobs \cup active
      BY DEF BookInv, CompletedInv
    <3>3. stage'[completed[i]] \in {"pushed", "done"}
      BY <1>a, <3>1, <3>2 DEF JobPushed
    <3> QED
      BY <2>1, <2>2, <3>1, <3>2, <3>3 DEF BookInv, CompletedInv, JobPushed
  <2> QED
    BY <2>3, <2>4 DEF BookInv
<1>2. ASSUME UNCHANGED <<active, completed>>, jobs' \subseteq jobs,
             \A u \in Threads :
                Owning(u)' => \/ Owning(u) /\ job'[u] = job[u]
                              \/ job'[u] \in jobs
      PROVE  BookInv'
  <2>1. ActiveInv'
    BY <1>0, <1>a, <1>2 DEF BookInv, ActiveInv
  <2>2. CompletedInv'
    <3> SUFFICES ASSUME NEW i \in 1..Len(completed)
                 PROVE  /\ stage'[completed[i]] \in {"pushed", "done"}
                        /\ completed[i] \notin jobs' \cup active
                        /\ \A t \in Threads : Owning(t)' => job'[t] # completed[i]
      BY <1>2 DEF CompletedInv, JobPushed
    <3>1. completed[i] \in Requests
      BY <1>0
    <3>2. JobPushed(completed[i]) /\ completed[i] \notin jobs \cup active
          /\ \A t \in Threads : Owning(t) => job[t] # completed[i]
      BY DEF BookInv, CompletedInv
    <3> QED
      BY <1>a, <1>2, <3>1, <3>2 DEF JobPushed
  <2> QED
    BY <2>1, <2>2 DEF BookInv
<1>3. ASSUME NEW t \in Threads, Pop(t) PROVE BookInv'
  <2>1. PICK j \in jobs : job' = [job EXCEPT ![t] = j] /\ jobs' = jobs \ {j}
    BY <1>3 DEF Pop, Without
  <2>2. UNCHANGED <<active, completed>> /\ pc' = [pc EXCEPT ![t] = "scan"]
    BY <1>3 DEF Pop, histVars
  <2>3. \A u \in Threads : Owning(u)' => \/ Owning(u) /\ job'[u] = job[u]
                                         \/ job'[u] \in jobs
    BY <1>0, <2>1, <2>2 DEF Owning
  <2> QED
    BY <1>2, <2>1, <2>2, <2>3
<1>4. ASSUME NEW t \in Threads, InsertActive(t) PROVE BookInv'
  <2>1. /\ pc[t] = "insert" /\ pc' = [pc EXCEPT ![t] = "search"]
        /\ active \subseteq active' /\ active' \subseteq active \cup {job[t]}
        /\ UNCHANGED <<stage, jobs, job, completed>>
    BY <1>4 DEF InsertActive, ioVars
  <2>2. /\ Owning(t) /\ \A u \in Threads : Owning(u)' <=> Owning(u)
    BY <1>0, <2>1 DEF Owning
  <2>3. /\ JobPushed(job[t]) /\ job[t] \notin jobs
        /\ \A i \in 1..Len(completed) : completed[i] # job[t]
    BY <2>2 DEF JobInv, PushedFirst, OneOwner, BookInv, CompletedInv
  <2>4. ActiveInv'
    BY <2>1, <2>3 DEF BookInv, ActiveInv, JobPushed
  <2>5. CompletedInv'
    BY <2>1, <2>2, <2>3 DEF BookInv, CompletedInv, JobPushed
  <2> QED
    BY <2>4, <2>5 DEF BookInv
<1>5. ASSUME NEW t \in Threads, Retire(t) PROVE BookInv'
  <2>1. /\ pc[t] = "retire" /\ active' = Erased(job[t])
        /\ completed' = PushBack(completed, job[t])
        /\ pc' = [pc EXCEPT ![t] = "idle"] /\ job' = [job EXCEPT ![t] = None]
        /\ UNCHANGED <<stage, jobs>>
    BY <1>5 DEF Retire, EndTask, ioVars
  <2>2. /\ Owning(t) /\ job[t] \in Requests /\ ~Owning(t)'
        /\ \A u \in Threads \ {t} : (Owning(u)' <=> Owning(u)) /\ job'[u] = job[u]
    BY <1>0, <2>1 DEF Owning, FrameOK
  <2>3. /\ JobPushed(job[t]) /\ job[t] \notin jobs
        /\ \A u \in Threads : Owning(u) /\ job[u] = job[t] => u = t
    BY <2>2 DEF JobInv, PushedFirst, OneOwner
  <2>4. active' \subseteq active /\ job[t] \notin active'
    BY <2>1 DEF Erased, SameKey
  <2>5. ActiveInv'
    BY <2>1, <2>4 DEF BookInv, ActiveInv, JobPushed
  <2>6. ASSUME NEW k, \/ k = job[t]
                      \/ \E i \in 1..Len(completed) : k = completed[i]
        PROVE  /\ stage'[k] \in {"pushed", "done"}
               /\ k \notin jobs' \cup active'
               /\ \A u \in Threads : Owning(u)' => job'[u] # k
    <3>1. CASE k = job[t]
      BY <2>1, <2>2, <2>3, <2>4, <3>1 DEF JobPushed
    <3>2. CASE \E i \in 1..Len(completed) : k = completed[i]
      <4>1. JobPushed(k) /\ k \notin jobs \cup active
            /\ \A u \in Threads : Owning(u) => job[u] # k
        BY <3>2 DEF BookInv, CompletedInv
      <4> QED
        BY <2>1, <2>2, <2>4, <4>1 DEF JobPushed
    <3> QED
      BY <2>6, <3>1, <3>2
  <2>7. \A i \in 1..Len(completed') :
            \/ completed'[i] = job[t]
            \/ \E k \in 1..Len(completed) : completed'[i] = completed[k]
    BY <1>0, <2>1, <2>2, PushBackElements
  <2>8. CompletedInv'
    BY <2>6, <2>7 DEF CompletedInv, JobPushed
  <2> QED
    BY <2>5, <2>8 DEF BookInv
<1>6. ASSUME NEW gone \in SUBSET jobs, RemoveJobs(gone) PROVE BookInv'
  <2>1. jobs' \subseteq jobs /\ UNCHANGED <<active, completed, pc, job>>
    BY <1>6 DEF RemoveJobs, poolVars, histVars
  <2> QED
    BY <1>2, <2>1 DEF Owning
<1>7. CASE (\E h \in Hashes : Cancel(h)) \/ DeleteQueue
  BY <1>6, <1>7 DEF Cancel, DeleteQueue
<1>8. CASE /\ ~(\E r \in Requests : Push(r)) /\ ~(\E t \in Threads : Pop(t))
           /\ ~(\E h \in Hashes : Cancel(h)) /\ ~DeleteQueue
           /\ ~(\E t \in Threads : InsertActive(t) \/ Retire(t))
  <2>1. UNCHANGED <<jobs, removed>> /\ UNCHANGED <<active, completed>>
    BY <1>8, QueueKept, BooksKept
  <2>2. \A u \in Threads : Owning(u)' => Owning(u) /\ job'[u] = job[u]
    BY <1>8, OwnersKept
  <2> QED
    BY <1>2, <2>1, <2>2
<1> QED
  BY <1>1, <1>3, <1>4, <1>5, <1>7, <1>8

-----------------------------------------------------------------------------
(* The mutexes. *)

(* What a queue request holds at each of its steps, *)
ReaderLocks ==
    \A q \in Readers :
        /\ rpc[q] \in {"jobs", "active", "completed"} => jobsLock = q
        /\ rpc[q] \in {"active", "completed", "copied"} => activeLock = q
        /\ rpc[q] \in {"completed", "copied"} => completedLock = q

(* ... and that a thread about to retire a job shuts the others out.       *)
RetireLocks ==
    \A t \in Threads : pc[t] = "retire" =>
        /\ activeLock = t
        /\ \A q \in Readers : rpc[q] \notin {"active", "completed", "copied"}

LockInv == ReaderLocks /\ RetireLocks

LEMMA LockInit == Init => LockInv
  BY DEF Init, LockInv, ReaderLocks, RetireLocks

(* Only queue requests and the two steps around Retire use these locks.    *)
LEMMA LocksKept ==
  ASSUME TypeInv, [Next]_vars,
         ~(\E q \in Readers : QueueLockJobs(q) \/ ReaderStep(q)),
         ~(\E t \in Threads : LockActive(t) \/ Retire(t))
  PROVE  /\ UNCHANGED <<rpc, queued, jobsLock, activeLock, completedLock>>
         /\ \A t \in Threads : pc'[t] = "retire" <=> pc[t] = "retire"
<1>0. pc \in [Threads -> ThreadPcs]
  BY DEF TypeInv, TypeOK, PoolTypeOK
<1> USE DEF ioVars, poolVars, rpcVars, lockVars
<1>1. ASSUME NEW t \in Threads, ThreadStep(t) \/ Fault(t)
      PROVE  /\ UNCHANGED <<rpc, queued, jobsLock, activeLock, completedLock>>
             /\ \A u \in Threads : pc'[u] = "retire" <=> pc[u] = "retire"
  <2>1. CASE Start(t) \/ Pop(t)
    BY <1>0, <2>1 DEF Start, Pop
  <2>2. CASE NoJobs(t) \/ NoDevice(t) \/ Fault(t)
    BY <1>0, <2>2 DEF NoJobs, NoDevice, Fault, MayThrow, EndTask
  <2>3. CASE TryAcquire(t)
    BY <1>0, <2>3 DEF TryAcquire
  <2>4. CASE InsertActive(t) \/ Respond(t) \/ Release(t)
    BY <1>0, <2>4 DEF InsertActive, Respond, Release
  <2> QED
    BY <1>1, <2>1, <2>2, <2>3, <2>4 DEF ThreadStep
<1>2. CASE ~(\E t \in Threads : ThreadStep(t) \/ Fault(t))
  <2>0. UNCHANGED pc
    BY <1>2, NotPoolStep
  <2>1. ASSUME NEW r \in Requests, NEW h \in Hashes \cup {NoHash},
               NEW p \in Priorities, Begin(r, h, p)
        PROVE  UNCHANGED <<rpcVars, lockVars>>
    BY <2>1 DEF Begin
  <2>2. ASSUME NEW r \in Requests, RequestStep(r)
        PROVE  UNCHANGED <<rpcVars, lockVars>>
    BY <2>2 DEF RequestStep, Malformed, Push, Reject, Post
  <2>3. ASSUME NEW h \in Hashes, Cancel(h)
        PROVE  UNCHANGED <<rpcVars, lockVars>>
    BY <2>3 DEF Cancel, RemoveJobs
  <2>4. CASE DeleteQueue
    BY <2>0, <2>4 DEF DeleteQueue, RemoveJobs
  <2>5. CASE Quiet \/ UNCHANGED vars
    BY <2>0, <2>5 DEF Quiet, vars
  <2> QED
    BY <1>2, <2>0, <2>1, <2>2, <2>3, <2>4, <2>5 DEF Next
<1> QED
  BY <1>1, <1>2

LEMMA LockStep == TypeInv /\ LockInv /\ [Next]_vars => LockInv'
<1> SUFFICES ASSUME TypeInv, LockInv, [Next]_vars
             PROVE  LockInv'
  OBVIOUS
<1> USE ConstantsAssumption
<1>0. pc \in [Threads -> ThreadPcs] /\ rpc \in [Readers -> ReaderPcs]
  BY DEF TypeInv, TypeOK, PoolTypeOK, ReportTypeOK
<1> USE DEF LockInv, ReaderLocks, RetireLocks
<1>1. ASSUME NEW q \in Readers, QueueLockJobs(q) \/ ReaderStep(q)
      PROVE  LockInv'
  <2> USE DEF poolVars
  <2>1. CASE QueueLockJobs(q)
    BY <1>0, <2>1 DEF QueueLockJobs
  <2>2. CASE QueueLockActive(q)
    <3>1. /\ rpc[q] = "jobs" /\ activeLock = None /\ activeLock' = q
          /\ rpc' = [rpc EXCEPT ![q] = "active"]
          /\ UNCHANGED <<jobsLock, completedLock, pc>>
      BY <2>2 DEF QueueLockActive
    <3>2. \A u \in Threads : pc[u] # "retire"
      BY <3>1 DEF Threads
    <3>3. \A s \in Readers : rpc[s] \notin {"active", "completed", "copied"}
      BY <3>1
    <3> QED
      BY <1>0, <3>1, <3>2, <3>3
  <2>3. CASE QueueLockCompleted(q)
    BY <1>0, <2>3 DEF QueueLockCompleted
  <2>4. CASE QueueCopy(q)
    BY <1>0, <2>4 DEF QueueCopy
  <2>5. CASE QueueRespond(q)
    BY <1>0, <2>5 DEF QueueRespond
  <2> QED
    BY <1>1, <2>1, <2>2, <2>3, <2>4, <2>5 DEF ReaderStep
<1>2. ASSUME NEW t \in Threads, LockActive(t) PROVE LockInv'
  <2>1. /\ activeLock = None /\ activeLock' = t /\ pc' = [pc EXCEPT ![t] = "retire"]
        /\ UNCHANGED <<rpc, jobsLock, completedLock>>
    BY <1>2 DEF LockActive, rpcVars
  <2>2. \A s \in Readers : rpc[s] \notin {"active", "completed", "copied"}
    BY <2>1
  <2>3. \A u \in Threads : pc[u] # "retire"
    BY <2>1 DEF Threads
  <2> QED
    BY <1>0, <2>1, <2>2, <2>3
<1>3. ASSUME NEW t \in Threads, Retire(t) PROVE LockInv'
  <2>1. /\ pc[t] = "retire" /\ activeLock' = None /\ pc' = [pc EXCEPT ![t] = "idle"]
        /\ UNCHANGED <<rpc, jobsLock, completedLock>>
    BY <1>3 DEF Retire, EndTask, rpcVars
  <2>2. /\ activeLock = t
        /\ \A s \in Readers : rpc[s] \notin {"active", "completed", "copied"}
    BY <2>1
  <2>3. \A u \in Threads : pc'[u] # "retire"
    BY <1>0, <2>1, <2>2
  <2> QED
    BY <2>1, <2>2, <2>3
<1>4. CASE /\ ~(\E q \in Readers : QueueLockJobs(q) \/ ReaderStep(q))
           /\ ~(\E t \in Threads : LockActive(t) \/ Retire(t))
  BY <1>4, LocksKept
<1> QED
  BY <1>1, <1>2, <1>3, <1>4

-----------------------------------------------------------------------------
(* Reports. *)

(* None of the jobs in q's copy of the queue is in the two lists that q    *)
(* still protects.                                                         *)
CopyInv ==
    \A q \in Readers : rpc[q] = "copied" =>
        /\ \A j \in queued[q] : j \notin active
        /\ \A i \in 1..Len(completed) : completed[i] \notin queued[q]

LEMMA CopyStep ==
  TypeInv /\ BookInv /\ LockInv /\ CopyInv /\ [Next]_vars => CopyInv'
<1> SUFFICES ASSUME TypeInv, BookInv, LockInv, CopyInv, [Next]_vars
             PROVE  CopyInv'
  OBVIOUS
<1> USE ConstantsAssumption
<1>0. /\ rpc \in [Readers -> ReaderPcs] /\ queued \in [Readers -> SUBSET Requests]
  BY DEF TypeInv, TypeOK, ReportTypeOK
<1>1. ASSUME NEW q \in Readers, QueueLockJobs(q) \/ ReaderStep(q)
      PROVE  CopyInv'
  <2> USE DEF histVars
  <2>1. CASE QueueLockJobs(q) \/ QueueLockActive(q) \/ QueueLockCompleted(q)
    BY <1>0, <2>1
       DEF QueueLockJobs, QueueLockActive, QueueLockCompleted, CopyInv
  <2>2. CASE QueueCopy(q)
    <3>1. \A j \in jobs : j \notin active
      BY DEF BookInv, ActiveInv
    <3>2. \A i \in 1..Len(completed) : completed[i] \notin jobs
      BY DEF BookInv, CompletedInv
    <3> QED
      BY <1>0, <2>2, <3>1, <3>2 DEF QueueCopy, CopyInv
  <2>3. CASE QueueRespond(q)
    BY <1>0, <2>3 DEF QueueRespond, CopyInv
  <2> QED
    BY <1>1, <2>1, <2>2, <2>3 DEF ReaderStep
<1>2. ASSUME NEW t \in Threads, InsertActive(t) PROVE CopyInv'
  <2>1. activeLock = None /\ UNCHANGED <<rpc, queued, completed>>
    BY <1>2 DEF InsertActive, MayInsert, rpcVars
  <2>2. \A q \in Readers : rpc[q] # "copied"
    BY <2>1 DEF LockInv, ReaderLocks
  <2> QED
    BY <2>1, <2>2 DEF CopyInv
<1>3. ASSUME NEW t \in Threads, Retire(t) PROVE CopyInv'
  <2>1. pc[t] = "retire" /\ UNCHANGED <<rpc, queued>>
    BY <1>3 DEF Retire, rpcVars
  <2>2. \A q \in Readers : rpc[q] # "copied"
    BY <2>1 DEF LockInv, RetireLocks
  <2> QED
    BY <2>1, <2>2 DEF CopyInv
<1>4. ASSUME NEW t \in Threads, LockActive(t) PROVE CopyInv'
  BY <1>4 DEF LockActive, CopyInv, rpcVars, histVars
<1>5. CASE /\ ~(\E q \in Readers : QueueLockJobs(q) \/ ReaderStep(q))
           /\ ~(\E t \in Threads : InsertActive(t) \/ LockActive(t) \/ Retire(t))
  <2>1. UNCHANGED <<rpc, queued>> /\ UNCHANGED <<active, completed>>
    BY <1>5, LocksKept, BooksKept
  <2> QED
    BY <2>1 DEF CopyInv
<1> QED
  BY <1>1, <1>2, <1>3, <1>4, <1>5

(* No job is listed twice in a report, though the queue is copied and      *)
(* jobs_mutex given back before the report is written: for any number of   *)
(* queue requests and threads, and whatever fails.                         *)
THEOREM ReportsConsistent == Spec => []ReportConsistent
<1>1. Init => BookInv /\ LockInv /\ CopyInv
  BY BookInit, LockInit DEF Init, CopyInv
<1>2. TypeInv /\ TaskInv /\ JobInv /\ BookInv /\ LockInv /\ CopyInv /\ [Next]_vars
        => BookInv' /\ LockInv' /\ CopyInv'
  BY BookStep, LockStep, CopyStep
<1>3. BookInv /\ CopyInv => ReportConsistent
  <2> SUFFICES ASSUME BookInv, CopyInv, NEW q \in Readers, rpc[q] = "copied"
               PROVE  /\ queued[q] \cap active = {}
                      /\ \A i \in 1..Len(completed) :
                            completed[i] \notin queued[q] \cup active
    BY DEF ReportConsistent
  <2>1. queued[q] \cap active = {}
    BY DEF CopyInv
  <2>2. \A i \in 1..Len(completed) :
          completed[i] \notin queued[q] /\ completed[i] \notin active
    BY DEF CopyInv, BookInv, CompletedInv
  <2> QED
    BY <2>1, <2>2
<1> QED
  BY <1>1, <1>2, <1>3, JobsAlways, PTL DEF Spec

-----------------------------------------------------------------------------
(* active_jobs and the frames it refers to. *)

(* An active job is in the frame of a thread past its insertion.           *)
AliveInv ==
    \A j \in active : \E t \in Threads :
        pc[t] \in {"search", "release", "lock", "retire"} /\ job[t] = j

LEMMA AliveStep ==
  ASSUME MaxFaults = 0, TypeInv, AliveInv, [Next]_vars
  PROVE  AliveInv'
<1>0. pc \in [Threads -> ThreadPcs] /\ job \in [Threads -> Requests \cup {None}]
  BY DEF TypeInv, TypeOK, PoolTypeOK
<1> DEFINE Past(u) == pc[u] \in {"search", "release", "lock", "retire"}
<1>a. ASSUME active' \subseteq active,
             \A u \in Threads :
                Past(u) => pc'[u] \in {"search", "release", "lock", "retire"}
                           /\ job'[u] = job[u]
      PROVE  AliveInv'
  BY <1>a DEF AliveInv
<1> USE DEF histVars
<1>1. ASSUME NEW t \in Threads, ThreadStep(t)
      PROVE  AliveInv'
  <2>1. CASE Start(t)
    BY <1>0, <2>1, <1>a DEF Start
  <2>2. CASE Pop(t)
    BY <1>0, <2>2, <1>a DEF Pop
  <2>3. CASE NoJobs(t) \/ NoDevice(t)
    BY <1>0, <2>3, <1>a DEF NoJobs, NoDevice, EndTask
  <2>4. CASE TryAcquire(t)
    BY <1>0, <2>4, <1>a DEF TryAcquire
  <2>5. CASE InsertActive(t)
    <3>1. /\ pc[t] = "insert" /\ pc' = [pc EXCEPT ![t] = "search"]
          /\ active' \subseteq active \cup {job[t]} /\ job' = job
      BY <2>5 DEF InsertActive
    <3> QED
      BY <1>0, <3>1 DEF AliveInv
  <2>6. CASE Respond(t) \/ Release(t) \/ LockActive(t)
    BY <1>0, <2>6, <1>a DEF Respond, Release, LockActive
  <2>7. CASE Retire(t)
    <3>1. /\ active' = Erased(job[t])
          /\ pc' = [pc EXCEPT ![t] = "idle"] /\ job' = [job EXCEPT ![t] = None]
      BY <2>7 DEF Retire, EndTask
    <3>2. active' \subseteq active /\ job[t] \notin active'
      BY <3>1 DEF Erased, SameKey
    <3> SUFFICES ASSUME NEW j \in active'
                 PROVE  \E u \in Threads :
                          /\ pc'[u] \in {"search", "release", "lock", "retire"}
                          /\ job'[u] = j
      BY DEF AliveInv
    <3>3. PICK u \in Threads : Past(u) /\ job[u] = j
      BY <3>2 DEF AliveInv
    <3>4. u # t
      BY <3>2, <3>3
    <3> QED
      BY <1>0, <3>1, <3>3, <3>4
  <2> QED
    BY <1>1, <2>1, <2>2, <2>3, <2>4, <2>5, <2>6, <2>7 DEF ThreadStep
<1>2. ASSUME NEW t \in Threads, Fault(t) PROVE FALSE
  BY <1>2 DEF Fault, TypeInv, TypeOK, PoolTypeOK
<1>3. CASE ~(\E t \in Threads : ThreadStep(t) \/ Fault(t))
  <2>1. UNCHANGED <<pc, job>>
    BY <1>3, NotPoolStep
  <2>2. UNCHANGED active
    BY <1>3, BooksKept DEF ThreadStep
  <2> QED
    BY <2>1, <2>2, <1>a
<1> QED
  BY <1>1, <1>2, <1>3

(* As long as no generation fails, active_jobs never holds a reference to  *)
(* a job whose frame is gone, for any number of devices and requests.      *)
THEOREM ActiveAlwaysAlive ==
  ASSUME MaxFaults = 0
  PROVE  Spec => []ActiveAlive
<1>1. Init => AliveInv
  BY DEF Init, AliveInv
<1>2. TypeInv /\ AliveInv /\ [Next]_vars => AliveInv'
  BY AliveStep
<1>3. AliveInv => ActiveAlive
  BY DEF AliveInv, ActiveAlive, Owning
<1> QED
  BY <1>1, <1>2, <1>3, TypeCorrect, PTL DEF Spec
=============================================================================
