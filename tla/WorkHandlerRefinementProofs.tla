-------------------- MODULE WorkHandlerRefinementProofs --------------------
(***************************************************************************)
(* The order of the queue, and the proof that the work handler implements  *)
(* WorkExchange, for every value of the constants as long as the job ids   *)
(* do not wrap.                                                            *)
(***************************************************************************)
EXTENDS WorkHandlerRefinement, WorkHandlerProofs

-----------------------------------------------------------------------------
(* Job ids and the order of arrival. *)

(* The requests that have taken an id. *)
Begun == {k \in Requests : stage[k] # "new"}

(* The dispenser counts them, as long as one more can come.                *)
DispenserInv == Begun # Requests => dispenser = Cardinality(Begun) + 1

(* An id is one more than the requests that came before; no two are equal. *)
ArrivalInv ==
    \A r \in Begun :
        /\ id[r] = arrival[r] + 1
        /\ arrival[r] < Cardinality(Begun)
        /\ \A s \in Begun : arrival[s] = arrival[r] => s = r

IdInv == DispenserInv /\ ArrivalInv

(* Every step but Begin leaves ids, priorities and arrivals alone.         *)
LEMMA IdsKept ==
  ASSUME TypeInv, [Next]_vars,
         ~(\E r \in Requests, h \in Hashes \cup {NoHash}, p \in Priorities :
              Begin(r, h, p))
  PROVE  UNCHANGED <<hash, pri, id, dispenser, arrival>> /\ Begun' = Begun
<1>0. stage \in [Requests -> Stages]
  BY DEF TypeInv, TypeOK, IoTypeOK
<1> USE DEF ioVars
<1>1. ASSUME NEW r \in Requests, RequestStep(r)
      PROVE  UNCHANGED <<hash, pri, id, dispenser, arrival>> /\ Begun' = Begun
  <2>1. /\ UNCHANGED <<hash, pri, id, dispenser, arrival>>
        /\ stage[r] # "new"
        /\ \E s \in {"pushed", "done"} : stage' = [stage EXCEPT ![r] = s]
    BY <1>1 DEF RequestStep, Malformed, Push, Reject, Post
  <2>2. \A k \in Requests : stage'[k] # "new" <=> stage[k] # "new"
    BY <1>0, <2>1
  <2> QED
    BY <2>1, <2>2 DEF Begun
<1>2. ASSUME UNCHANGED ioVars
      PROVE  UNCHANGED <<hash, pri, id, dispenser, arrival>> /\ Begun' = Begun
  BY <1>2 DEF Begun
<1>3. ASSUME NEW h \in Hashes, Cancel(h)
      PROVE  UNCHANGED ioVars
  BY <1>3 DEF Cancel, RemoveJobs
<1>4. CASE DeleteQueue
  BY <1>4, <1>2 DEF DeleteQueue, RemoveJobs
<1>5. ASSUME NEW q \in Readers, QueueLockJobs(q) \/ ReaderStep(q)
      PROVE  UNCHANGED ioVars
  BY <1>5 DEF QueueLockJobs, ReaderStep, QueueLockActive, QueueLockCompleted,
              QueueCopy, QueueRespond
<1>6. ASSUME NEW t \in Threads, ThreadStep(t) \/ Fault(t)
      PROVE  UNCHANGED ioVars
  BY <1>6 DEF ThreadStep, Start, Pop, NoJobs, TryAcquire, NoDevice,
     InsertActive, Respond, Release, LockActive, Retire, Fault
<1>7. CASE Quiet \/ UNCHANGED vars
  BY <1>7, <1>2 DEF Quiet, vars
<1> QED
  BY <1>1, <1>2, <1>3, <1>4, <1>5, <1>6, <1>7 DEF Next

LEMMA IdStep ==
  ASSUME Cardinality(Requests) < IdMod, TypeInv, IdInv, [Next]_vars
  PROVE  IdInv'
<1> USE ConstantsAssumption
<1>1. ASSUME NEW r \in Requests, NEW h \in Hashes \cup {NoHash},
             NEW p \in Priorities, Begin(r, h, p)
      PROVE  IdInv'
  <2> DEFINE n == Cardinality(Begun)
  <2>0. /\ stage \in [Requests -> Stages] /\ id \in [Requests -> 0..(IdMod - 1)]
        /\ arrival \in [Requests -> Nat]
    BY DEF TypeInv, TypeOK, IoTypeOK
  <2>1. /\ stage[r] = "new" /\ stage' = [stage EXCEPT ![r] = "parsed"]
        /\ id' = [id EXCEPT ![r] = dispenser]
        /\ dispenser' = (dispenser + 1) % IdMod
        /\ arrival' = [arrival EXCEPT ![r] = n]
    BY <1>1 DEF Begin, Begun
  <2>2. r \notin Begun /\ Begun' = Begun \cup {r} /\ Begun \subseteq Requests
    BY <2>0, <2>1 DEF Begun
  <2>3. n \in Nat /\ Cardinality(Begun') = n + 1 /\ dispenser = n + 1
    BY <2>2, RequestSets, OneMore DEF IdInv, DispenserInv
  <2>4. DispenserInv'
    <3> SUFFICES ASSUME Begun' # Requests
                 PROVE  dispenser' = Cardinality(Begun') + 1
      BY DEF DispenserInv
    <3>1. Begun' \in SUBSET Requests /\ IsFiniteSet(Requests)
      BY <2>2
    <3>2. /\ Cardinality(Begun') <= Cardinality(Requests)
          /\ Cardinality(Begun') # Cardinality(Requests)
      BY <3>1, FS_Subset
    <3>3. Cardinality(Requests) \in Nat
      BY FS_CardinalityType
    <3>4. n + 2 < IdMod
      BY <2>3, <3>2, <3>3
    <3>5. (n + 2) % IdMod = n + 2
      BY <2>3, <3>4
    <3> QED
      BY <2>1, <2>3, <3>5
  <2>5. ArrivalInv'
    <3> SUFFICES ASSUME NEW k \in Begun'
                 PROVE  /\ id'[k] = arrival'[k] + 1
                        /\ arrival'[k] < n + 1
                        /\ \A s \in Begun' : arrival'[s] = arrival'[k] => s = k
      BY <2>3 DEF ArrivalInv
    <3>1. \A s \in Begun : /\ s # r /\ id'[s] = id[s] /\ arrival'[s] = arrival[s]
                           /\ id[s] = arrival[s] + 1 /\ arrival[s] < n
                           /\ arrival[s] \in Nat
      BY <2>0, <2>1, <2>2 DEF IdInv, ArrivalInv
    <3>2. id'[r] = n + 1 /\ arrival'[r] = n
      BY <2>0, <2>1, <2>3
    <3>3. \A s \in Begun : arrival'[s] # n
      BY <2>3, <3>1
    <3>4. CASE k = r
      BY <2>2, <2>3, <3>2, <3>3, <3>4
    <3>5. CASE k \in Begun
      <4>1. \A s \in Begun : arrival'[s] = arrival'[k] => s = k
        BY <3>1, <3>5 DEF IdInv, ArrivalInv
      <4>2. id'[k] = arrival'[k] + 1 /\ arrival'[k] < n + 1
        BY <2>3, <3>1, <3>5
      <4> QED
        BY <2>2, <3>2, <3>3, <3>5, <4>1, <4>2
    <3> QED
      BY <2>2, <3>4, <3>5
  <2> QED
    BY <2>4, <2>5 DEF IdInv
<1>2. CASE ~(\E r \in Requests, h \in Hashes \cup {NoHash}, p \in Priorities :
               Begin(r, h, p))
  <2>1. UNCHANGED <<hash, pri, id, dispenser, arrival>> /\ Begun' = Begun
    BY <1>2, IdsKept
  <2> QED
    BY <2>1 DEF IdInv, DispenserInv, ArrivalInv
<1> QED
  BY <1>1, <1>2

LEMMA IdInit == Init => IdInv
<1> SUFFICES ASSUME Init PROVE IdInv
  OBVIOUS
<1>1. Begun = {}
  BY DEF Init, Begun
<1>2. Cardinality({}) = 0
  BY FS_EmptySet
<1>3. dispenser = 1
  BY DEF Init
<1> QED
  BY <1>1, <1>2, <1>3 DEF IdInv, DispenserInv, ArrivalInv

(* The top of the priority queue is the earliest job of the highest        *)
(* priority.                                                               *)
LEMMA TopIsNext ==
  ASSUME TypeInv, JobInv, IdInv, NEW j, IsTop(j)
  PROVE  \A k \in jobs \ {j} :
            \/ pri[j] > pri[k]
            \/ pri[j] = pri[k] /\ arrival[j] < arrival[k]
<1>0. /\ jobs \subseteq Requests /\ pri \in [Requests -> Nat]
      /\ arrival \in [Requests -> Nat]
  BY DEF TypeInv, TypeOK, IoTypeOK, QueueTypeOK
<1>1. jobs \subseteq Begun
  BY <1>0 DEF JobInv, PushedFirst, JobPushed, Begun
<1> TAKE k \in jobs \ {j}
<1>2. j \in jobs /\ ~Before(k, j)
  BY DEF IsTop
<1>3. /\ id[j] = arrival[j] + 1 /\ id[k] = arrival[k] + 1
      /\ arrival[j] # arrival[k]
  BY <1>1, <1>2 DEF IdInv, ArrivalInv
<1>4. pri[j] \in Nat /\ pri[k] \in Nat /\ arrival[j] \in Nat /\ arrival[k] \in Nat
  BY <1>0, <1>2
<1> QED
  BY <1>2, <1>3, <1>4 DEF Before

(* Nothing but Pop takes a thread from the queue to the devices.           *)
LEMMA OnlyPop ==
  ASSUME TypeInv, [Next]_vars, NEW t \in Threads,
         pc[t] = "pop", pc'[t] = "scan"
  PROVE  Pop(t)
<1>0. pc \in [Threads -> ThreadPcs]
  BY DEF TypeInv, TypeOK, PoolTypeOK
<1>1. ASSUME NEW u \in Threads, ThreadStep(u) \/ Fault(u)
      PROVE  Pop(t)
  <2>1. CASE Pop(u)
    BY <1>0, <2>1 DEF Pop
  <2>2. CASE Start(u) \/ InsertActive(u) \/ Respond(u) \/ Release(u) \/ LockActive(u)
    BY <1>0, <2>2 DEF Start, InsertActive, Respond, Release, LockActive
  <2>3. CASE TryAcquire(u)
    BY <1>0, <2>3 DEF TryAcquire
  <2>4. CASE NoJobs(u) \/ NoDevice(u) \/ Fault(u) \/ Retire(u)
    BY <1>0, <2>4 DEF NoJobs, NoDevice, Fault, Retire, EndTask
  <2> QED
    BY <1>1, <2>1, <2>2, <2>3, <2>4 DEF ThreadStep
<1>2. CASE ~(\E u \in Threads : ThreadStep(u) \/ Fault(u))
  BY <1>2, NotPoolStep
<1> QED
  BY <1>1, <1>2

(* work_handler.hpp:40 is right as long as fewer requests come than there  *)
(* are job ids: whichever io threads race, a popped job leaves no job of a *)
(* higher priority behind, and none of its own that arrived earlier.       *)
THEOREM FifoAlways ==
  ASSUME Cardinality(Requests) < IdMod
  PROVE  Spec => FifoWithinPriority
<1>1. Init => IdInv
  BY IdInit
<1>2. TypeInv /\ IdInv /\ [Next]_vars => IdInv'
  BY IdStep
<1>3. TypeInv /\ JobInv /\ IdInv /\ [Next]_vars =>
        [\A t \in Threads : pc[t] = "pop" /\ pc'[t] = "scan" =>
           \A k \in jobs' :
              \/ pri[k] < pri[job'[t]]
              \/ pri[k] = pri[job'[t]] /\ arrival[k] > arrival[job'[t]]]_vars
  <2> SUFFICES ASSUME TypeInv, JobInv, IdInv, [Next]_vars,
                      NEW t \in Threads, pc[t] = "pop", pc'[t] = "scan",
                      NEW k \in jobs'
               PROVE  \/ pri[k] < pri[job'[t]]
                      \/ pri[k] = pri[job'[t]] /\ arrival[k] > arrival[job'[t]]
    OBVIOUS
  <2>1. Pop(t)
    BY OnlyPop
  <2>2. PICK j \in jobs :
          IsTop(j) /\ job' = [job EXCEPT ![t] = j] /\ jobs' = jobs \ {j}
    BY <2>1 DEF Pop, Without
  <2>3. job'[t] = j /\ k \in jobs \ {j}
    BY <2>2 DEF TypeInv, TypeOK, PoolTypeOK
  <2>4. \/ pri[j] > pri[k]
        \/ pri[j] = pri[k] /\ arrival[j] < arrival[k]
    BY <2>2, <2>3, TopIsNext
  <2>5. /\ pri[j] \in Nat /\ pri[k] \in Nat
        /\ arrival[j] \in Nat /\ arrival[k] \in Nat
    BY <2>2, <2>3 DEF TypeInv, TypeOK, IoTypeOK, QueueTypeOK
  <2> QED
    BY <2>3, <2>4, <2>5
<1> QED
  BY <1>1, <1>2, <1>3, JobsAlways, PTL DEF Spec, FifoWithinPriority

-----------------------------------------------------------------------------
(* The refinement mapping. *)

(* The exchange counts as the work handler does.                           *)
LEMMA SameCardinality ==
  ASSUME NEW S
  PROVE  Exchange!Cardinality(S) = Cardinality(S)
  BY DEF Cardinality, Exchange!Cardinality

MappedPhase == [r \in Requests |-> ExchangePhase(r)]
MappedClaim == [r \in Requests |-> ExchangeClaim(r)]

(* A request is worked for by one thread, and claims that thread's job.    *)
LEMMA ClaimIs ==
  ASSUME TaskInv, NEW t \in Threads, NEW r \in Requests, WorksFor(t, r)
  PROVE  IsWorking(r) /\ ExchangeClaim(r) = job[t]
<1>1. \A u \in Threads : WorksFor(u, r) => u = t
  BY DEF TaskInv, StartedInv, WorksFor, Owning
<1>2. (CHOOSE u \in Threads : WorksFor(u, r)) = t
  BY <1>1
<1>3. IsWorking(r)
  BY DEF IsWorking
<1> QED
  BY <1>2, <1>3 DEF ExchangeClaim

(* The same in the next state.                                             *)
LEMMA ClaimWillBe ==
  ASSUME TaskInv', NEW t \in Threads, NEW r \in Requests, WorksFor(t, r)'
  PROVE  IsWorking(r)' /\ ExchangeClaim(r)' = job'[t]
<1>1. \A u \in Threads : WorksFor(u, r)' => u = t
  BY DEF TaskInv, StartedInv, WorksFor, Owning
<1>2. (CHOOSE u \in Threads : WorksFor(u, r)') = t
  BY <1>1
<1>3. IsWorking(r)'
  BY DEF IsWorking
<1> QED
  BY <1>2, <1>3 DEF ExchangeClaim

(* Steps that touch neither the stage nor the answer of r, nor any thread  *)
(* that works for it.                                                      *)
LEMMA MapKept ==
  ASSUME TaskInv, TaskInv', NEW r \in Requests,
         stage'[r] = stage[r] \/ {stage[r], stage'[r]} \subseteq {"pushed", "done"},
         answers'[r] = answers[r],
         \A t \in Threads : WorksFor(t, r)' <=> WorksFor(t, r),
         \A t \in Threads : WorksFor(t, r) => job'[t] = job[t]
  PROVE  ExchangePhase(r)' = ExchangePhase(r) /\ ExchangeClaim(r)' = ExchangeClaim(r)
<1>1. IsWorking(r)' <=> IsWorking(r)
  BY DEF IsWorking
<1>2. ExchangePhase(r)' = ExchangePhase(r)
  <2>1. CASE stage'[r] = stage[r]
    BY <1>1, <2>1 DEF ExchangePhase
  <2>2. CASE {stage[r], stage'[r]} \subseteq {"pushed", "done"}
    <3>1. stage[r] \notin {"new", "parsed"} /\ stage'[r] \notin {"new", "parsed"}
      BY <2>2
    <3> QED
      BY <1>1, <3>1 DEF ExchangePhase
  <2> QED
    BY <2>1, <2>2
<1>3. ExchangeClaim(r)' = ExchangeClaim(r)
  <2>1. CASE IsWorking(r)
    <3>1. PICK t \in Threads : WorksFor(t, r)
      BY <2>1 DEF IsWorking
    <3>2. ExchangeClaim(r) = job[t]
      BY <3>1, ClaimIs
    <3>3. ExchangeClaim(r)' = job'[t]
      BY <3>1, ClaimWillBe
    <3> QED
      BY <3>1, <3>2, <3>3
  <2>2. CASE ~IsWorking(r)
    BY <1>1, <2>2 DEF ExchangeClaim
  <2> QED
    BY <2>1, <2>2
<1> QED
  BY <1>2, <1>3

(* A step that answers r.                                                  *)
LEMMA MapAnswered ==
  ASSUME TypeInv, TaskInv, TaskInv', NEW r \in Requests,
         answers[r] = <<>>, NEW kind \in AnswerKinds,
         NEW j \in Requests \cup {None}, Answer(r, kind, j),
         \A s \in Requests \ {r} : stage'[s] = stage[s],
         \A t \in Threads, s \in Requests \ {r} :
            /\ WorksFor(t, s)' <=> WorksFor(t, s)
            /\ WorksFor(t, s) => job'[t] = job[t]
  PROVE  /\ MappedPhase' = [MappedPhase EXCEPT ![r] = "answered"]
         /\ MappedClaim' = [MappedClaim EXCEPT ![r] = None]
         /\ answers' = [answers EXCEPT ![r] = <<[kind |-> kind, job |-> j]>>]
<1>0. AnswersOK
  BY DEF TypeInv, TypeOK, AnswersOK
<1>1. /\ answers'[r] # <<>>
      /\ \A s \in Requests \ {r} : answers'[s] = answers[s]
  BY <1>0, AnswerEffect
<1>2. ExchangePhase(r)' = "answered" /\ ExchangeClaim(r)' = None
  <2>1. ~IsWorking(r)'
    BY <1>1 DEF IsWorking, WorksFor
  <2>2. ExchangePhase(r)' = "answered"
    <3>1. stage'[r] = "done"
      BY <1>1 DEF TaskInv, StageInv
    <3> QED
      BY <1>1, <3>1 DEF ExchangePhase
  <2>3. ExchangeClaim(r)' = None
    BY <2>1 DEF ExchangeClaim
  <2> QED
    BY <2>2, <2>3
<1>3. \A s \in Requests \ {r} :
         ExchangePhase(s)' = ExchangePhase(s) /\ ExchangeClaim(s)' = ExchangeClaim(s)
  BY <1>1, MapKept
<1>4. answers' = [answers EXCEPT ![r] = <<[kind |-> kind, job |-> j]>>]
  BY DEF Answer
<1>5. MappedPhase' = [MappedPhase EXCEPT ![r] = "answered"]
  BY <1>2, <1>3 DEF MappedPhase
<1>6. MappedClaim' = [MappedClaim EXCEPT ![r] = None]
  BY <1>2, <1>3 DEF MappedClaim
<1> QED
  BY <1>4, <1>5, <1>6

(* Steps the exchange does not see.                                        *)
LEMMA MapStutters ==
  ASSUME TaskInv, TaskInv', UNCHANGED <<hash, pri, arrival, jobs, answers>>,
         \A r \in Requests :
            \/ stage'[r] = stage[r]
            \/ {stage[r], stage'[r]} \subseteq {"pushed", "done"},
         \A t \in Threads, r \in Requests :
            /\ WorksFor(t, r)' <=> WorksFor(t, r)
            /\ WorksFor(t, r) => job'[t] = job[t]
  PROVE  UNCHANGED Exchange!vars
<1>1. \A r \in Requests :
         ExchangePhase(r)' = ExchangePhase(r) /\ ExchangeClaim(r)' = ExchangeClaim(r)
  BY MapKept
<1>2. MappedPhase' = MappedPhase
  BY <1>1 DEF MappedPhase
<1>3. MappedClaim' = MappedClaim
  BY <1>1 DEF MappedClaim
<1> QED
  BY <1>2, <1>3 DEF Exchange!vars, MappedPhase, MappedClaim

(* Every request is new, unanswered and waits for nothing at the start.    *)
LEMMA MapInit == Init => Exchange!Init
<1> SUFFICES ASSUME Init PROVE Exchange!Init
  OBVIOUS
<1>1. \A r \in Requests : ExchangePhase(r) = "new"
  BY DEF Init, ExchangePhase
<1>2. \A r \in Requests : ExchangeClaim(r) = None
  BY DEF Init, ExchangeClaim, IsWorking, WorksFor, Owning
<1> QED
  BY <1>1, <1>2 DEF Init, Exchange!Init

(* Begin implements Ask.                                                   *)
LEMMA BeginAsks ==
  ASSUME TypeInv, TaskInv, TaskInv', NEW r \in Requests,
         NEW h \in Hashes \cup {NoHash}, NEW p \in Priorities, Begin(r, h, p)
  PROVE  Exchange!Ask(r)
<1>1. /\ stage[r] = "new" /\ stage' = [stage EXCEPT ![r] = "parsed"]
      /\ hash' = [hash EXCEPT ![r] = h]
      /\ pri' = [pri EXCEPT ![r] = IF AllowPriority THEN p ELSE 0]
      /\ arrival' = [arrival EXCEPT ![r] = Cardinality(Begun)]
      /\ UNCHANGED <<jobs, pc, task, job, answers>>
  BY DEF Begin, Begun, poolVars
<1>2. stage \in [Requests -> Stages]
  BY DEF TypeInv, TypeOK, IoTypeOK
<1>3. \A t \in Threads, s \in Requests : WorksFor(t, s)' <=> WorksFor(t, s)
  BY <1>1 DEF WorksFor, Owning
<1>4. \A s \in Requests \ {r} : ExchangePhase(s)' = ExchangePhase(s)
  BY <1>1, <1>2, <1>3, MapKept
<1>5. \A s \in Requests : ExchangeClaim(s)' = ExchangeClaim(s)
  <2> SUFFICES ASSUME NEW s \in Requests PROVE ExchangeClaim(s)' = ExchangeClaim(s)
    OBVIOUS
  <2>1. CASE s # r
    BY <1>1, <1>2, <1>3, <2>1, MapKept
  <2>2. CASE s = r
    <3>1. ~IsWorking(r)
      BY <1>1 DEF TaskInv, StartedInv, IsWorking, WorksFor, Owning
    <3>2. ~IsWorking(r)'
      BY <1>3, <3>1 DEF IsWorking
    <3> QED
      BY <2>2, <3>1, <3>2 DEF ExchangeClaim
  <2> QED
    BY <2>1, <2>2
<1>6. ExchangePhase(r) = "new" /\ ExchangePhase(r)' = "asked"
  <2>1. answers[r] = <<>> /\ answers'[r] = <<>> /\ stage'[r] = "parsed"
    BY <1>1, <1>2 DEF TaskInv, StageInv
  <2> QED
    BY <1>1, <2>1 DEF ExchangePhase
<1>7. MappedPhase[r] = "new" /\ MappedPhase' = [MappedPhase EXCEPT ![r] = "asked"]
  BY <1>4, <1>6 DEF MappedPhase
<1>8. MappedClaim' = MappedClaim
  BY <1>5 DEF MappedClaim
<1>9. {k \in Requests : MappedPhase[k] # "new"} = Begun
  <2>1. ASSUME NEW k \in Requests PROVE ExchangePhase(k) # "new" <=> stage[k] # "new"
    BY DEF ExchangePhase, TaskInv, StageInv
  <2> QED
    BY <2>1 DEF MappedPhase, Begun
<1>10. (IF AllowPriority THEN p ELSE 0) \in IF AllowPriority THEN Priorities ELSE {0}
  OBVIOUS
<1>11. arrival' = [arrival EXCEPT ![r] =
          Exchange!Cardinality({k \in Requests : MappedPhase[k] # "new"})]
  BY <1>1, <1>9, SameCardinality
<1> QED
  BY <1>1, <1>7, <1>8, <1>10, <1>11
     DEF Exchange!Ask, Exchange!Goes, MappedPhase, MappedClaim

(* Malformed and Reject implement Refuse.                                  *)
LEMMA RefusalRefuses ==
  ASSUME TypeInv, TaskInv, TaskInv', NEW r \in Requests,
         Malformed(r) \/ Reject(r)
  PROVE  Exchange!Refuse(r)
<1>1. /\ stage[r] = "parsed" /\ stage' = [stage EXCEPT ![r] = "done"]
      /\ UNCHANGED <<hash, pri, arrival, jobs, pc, task, job>>
  BY DEF Malformed, Reject, poolVars
<1>2. PICK kind \in AnswerKinds :
        /\ Answer(r, kind, None)
        /\ \/ hash[r] = NoHash /\ kind = "malformed"
           \/ hash[r] # NoHash /\ ~HasRoom /\ kind = "limit"
  BY DEF Malformed, Reject, AnswerKinds
<1>3. stage \in [Requests -> Stages] /\ answers[r] = <<>>
  BY <1>1 DEF TypeInv, TypeOK, IoTypeOK, TaskInv, StageInv
<1>4. \A s \in Requests \ {r} : stage'[s] = stage[s]
  BY <1>1, <1>3
<1>5. \A s \in Requests \ {r} : answers'[s] = answers[s]
  BY <1>2, <1>3, AnswerEffect DEF TypeInv, TypeOK, AnswersOK
<1>6. \A t \in Threads, s \in Requests \ {r} : WorksFor(t, s)' <=> WorksFor(t, s)
  BY <1>1, <1>5 DEF WorksFor, Owning
<1>7. /\ MappedPhase' = [MappedPhase EXCEPT ![r] = "answered"]
      /\ MappedClaim' = [MappedClaim EXCEPT ![r] = None]
      /\ answers' = [answers EXCEPT ![r] = <<[kind |-> kind, job |-> None]>>]
  BY <1>1, <1>2, <1>3, <1>4, <1>6, MapAnswered
<1>8. ExchangePhase(r) = "asked"
  BY <1>1, <1>3 DEF ExchangePhase
<1>9. ~HasRoom => Exchange!Full
  <2>1. Exchange!Cardinality(jobs) = Cardinality(jobs)
    BY SameCardinality
  <2>2. Cardinality(jobs) \in Nat /\ RequestLimit \in Nat
    BY RequestSets, ConstantsAssumption DEF TypeInv, TypeOK, QueueTypeOK
  <2> QED
    BY <2>1, <2>2 DEF HasRoom, Exchange!Full
<1>10. Exchange!Answered(r, kind, None)
  BY <1>7 DEF Exchange!Answered, Exchange!Goes, MappedPhase, MappedClaim
<1> QED
  BY <1>1, <1>2, <1>8, <1>9, <1>10 DEF Exchange!Refuse

(* Push implements Deposit.                                                *)
LEMMA PushDeposits ==
  ASSUME TypeInv, TaskInv, TaskInv', NEW r \in Requests, Push(r)
  PROVE  Exchange!Deposit(r)
<1>1. /\ stage[r] = "parsed" /\ stage' = [stage EXCEPT ![r] = "pushed"]
      /\ hash[r] # NoHash /\ HasRoom /\ jobs' = jobs \cup {r}
      /\ UNCHANGED <<hash, pri, arrival, pc, task, job, answers>>
  BY DEF Push, poolVars
<1>2. stage \in [Requests -> Stages] /\ answers[r] = <<>>
  BY <1>1 DEF TypeInv, TypeOK, IoTypeOK, TaskInv, StageInv
<1>3. \A t \in Threads, s \in Requests : WorksFor(t, s)' <=> WorksFor(t, s)
  BY <1>1 DEF WorksFor, Owning
<1>4. \A s \in Requests \ {r} :
         ExchangePhase(s)' = ExchangePhase(s) /\ ExchangeClaim(s)' = ExchangeClaim(s)
  BY <1>1, <1>2, <1>3, MapKept
<1>5. ~IsWorking(r) /\ ~IsWorking(r)'
  <2>1. \A t \in Threads : ~WorksFor(t, r)
    BY <1>1 DEF TaskInv, StartedInv, WorksFor, Owning
  <2> QED
    BY <1>3, <2>1 DEF IsWorking
<1>6. ExchangePhase(r) = "asked" /\ ExchangePhase(r)' = "waiting"
  <2>1. stage'[r] = "pushed" /\ answers'[r] = <<>>
    BY <1>1, <1>2
  <2> QED
    BY <1>1, <1>2, <1>5, <2>1 DEF ExchangePhase
<1>7. ExchangeClaim(r)' = ExchangeClaim(r)
  BY <1>5 DEF ExchangeClaim
<1>8. MappedPhase' = [MappedPhase EXCEPT ![r] = "waiting"]
  BY <1>4, <1>6 DEF MappedPhase
<1>9. MappedClaim' = MappedClaim
  BY <1>4, <1>7 DEF MappedClaim
<1>10. ~Exchange!Full
  <2>1. Exchange!Cardinality(jobs) = Cardinality(jobs)
    BY SameCardinality
  <2>2. Cardinality(jobs) \in Nat /\ RequestLimit \in Nat
    BY RequestSets, ConstantsAssumption DEF TypeInv, TypeOK, QueueTypeOK
  <2> QED
    BY <1>1, <2>1, <2>2 DEF HasRoom, Exchange!Full
<1> QED
  BY <1>1, <1>6, <1>8, <1>9, <1>10
     DEF Exchange!Deposit, Exchange!Goes, MappedPhase, MappedClaim

(* A thread that has not popped a job leaves a worker's place free.        *)
LEMMA PlaceFree ==
  ASSUME TaskInv, NEW t \in Threads, ~Owning(t)
  PROVE  Exchange!Cardinality(Exchange!Working) < NumDevices
<1> USE ConstantsAssumption
<1> DEFINE W == {r \in Requests : ExchangePhase(r) = "working"}
           f == [r \in W |-> CHOOSE u \in Threads : WorksFor(u, r)]
<1>1. Exchange!Working = W
  BY DEF Exchange!Working
<1>2. \A r \in W : IsWorking(r)
  BY DEF ExchangePhase
<1>3. \A r \in W : f[r] \in Threads /\ WorksFor(f[r], r)
  BY <1>2 DEF IsWorking
<1>4. \A r \in W : f[r] \in Threads \ {t} /\ task[f[r]] = r
  BY <1>3 DEF WorksFor
<1>5. f \in Injection(W, Threads \ {t})
  <2>1. f \in [W -> Threads \ {t}] /\ DOMAIN f = W
    BY <1>4
  <2>2. \A r, s \in W : f[r] = f[s] => r = s
    BY <1>4
  <2> HIDE DEF f, W
  <2> QED
    BY <2>1, <2>2 DEF Injection, IsInjective
<1>6. IsFiniteSet(Threads) /\ Cardinality(Threads) = NumDevices
  BY FS_Interval DEF Threads
<1>7. IsFiniteSet(Threads \ {t}) /\ Cardinality(Threads \ {t}) = NumDevices - 1
  BY <1>6, FS_RemoveElement
<1> HIDE DEF f
<1>8. Cardinality(W) <= NumDevices - 1
  BY <1>5, <1>7, FS_Injection
<1>9. Cardinality(W) \in Nat
  BY RequestSets
<1>10. Exchange!Cardinality(W) = Cardinality(W)
  BY SameCardinality
<1> QED
  BY <1>1, <1>8, <1>9, <1>10

(* Pop implements Claim.                                                   *)
LEMMA PopClaims ==
  ASSUME TypeInv, TaskInv, TaskInv', JobInv, IdInv, NEW t \in Threads, Pop(t)
  PROVE  \E j \in jobs : Exchange!Claim(task[t], j)
<1>1. PICK j \in jobs :
        IsTop(j) /\ job' = [job EXCEPT ![t] = j] /\ jobs' = jobs \ {j}
  BY DEF Pop, Without
<1>2. /\ pc[t] = "pop" /\ pc' = [pc EXCEPT ![t] = "scan"]
      /\ UNCHANGED <<stage, hash, pri, arrival, task, answers>>
  BY DEF Pop, ioVars
<1>3. /\ pc \in [Threads -> ThreadPcs] /\ job \in [Threads -> Requests \cup {None}]
  BY DEF TypeInv, TypeOK, PoolTypeOK
<1>4. PICK r \in Requests :
      /\ r = task[t] /\ stage[r] = "done" /\ answers[r] = <<>>
      /\ \A u \in Threads : pc[u] # "idle" /\ task[u] = r => u = t
  BY <1>2 DEF TaskInv, StartedInv, Unanswered
<1>5. ~Owning(t) /\ Owning(t)' /\ job'[t] = j
      /\ \A u \in Threads \ {t} : (Owning(u)' <=> Owning(u)) /\ job'[u] = job[u]
  BY <1>1, <1>2, <1>3 DEF Owning
<1>6. \A s \in Requests \ {r}, u \in Threads :
        /\ WorksFor(u, s)' <=> WorksFor(u, s)
        /\ WorksFor(u, s) => job'[u] = job[u]
  BY <1>2, <1>4, <1>5 DEF WorksFor
<1>7. \A s \in Requests \ {r} :
         ExchangePhase(s)' = ExchangePhase(s) /\ ExchangeClaim(s)' = ExchangeClaim(s)
  BY <1>2, <1>6, MapKept
<1>8. ~IsWorking(r)
  BY <1>4, <1>5 DEF IsWorking, WorksFor, Owning
<1>9. WorksFor(t, r)'
  BY <1>2, <1>4, <1>5 DEF WorksFor
<1>10. IsWorking(r)' /\ ExchangeClaim(r)' = j
  BY <1>4, <1>5, <1>9, ClaimWillBe
<1>11. ExchangePhase(r) = "waiting" /\ ExchangePhase(r)' = "working"
  BY <1>2, <1>4, <1>8, <1>10 DEF ExchangePhase
<1>12. MappedPhase' = [MappedPhase EXCEPT ![r] = "working"]
  BY <1>4, <1>7, <1>11 DEF MappedPhase
<1>13. MappedClaim' = [MappedClaim EXCEPT ![r] = j]
  BY <1>4, <1>7, <1>10 DEF MappedClaim
<1>14. Exchange!Cardinality(Exchange!Working) < NumDevices
  BY <1>5, PlaceFree
<1>15. Exchange!IsNext(j)
  BY <1>1, TopIsNext DEF Exchange!IsNext
<1>16. Exchange!Goes(r, "working")
  BY <1>12 DEF Exchange!Goes, MappedPhase
<1>17. [s \in Requests |-> ExchangePhase(s)][r] = "waiting"
  BY <1>4, <1>11
<1>18. Exchange!Claim(r, j)
  BY <1>1, <1>2, <1>13, <1>14, <1>15, <1>16, <1>17
     DEF Exchange!Claim, MappedClaim
<1> QED
  BY <1>1, <1>4, <1>18

(* The steps of a task that answer its request.                            *)
LEMMA TaskAnswered ==
  ASSUME TypeInv, TaskInv, TaskInv', NEW t \in Threads, Unanswered(t),
         NEW kind \in AnswerKinds, NEW j \in Requests \cup {None},
         Answer(task[t], kind, j), UNCHANGED stage,
         \/ EndTask(t)
         \/ /\ pc' = [pc EXCEPT ![t] = "release"] /\ pc[t] = "search"
            /\ UNCHANGED <<task, job>>
  PROVE  /\ Exchange!Answered(task[t], kind, j)
         /\ task[t] \in Requests
         /\ ExchangePhase(task[t]) = IF pc[t] = "pop" THEN "waiting" ELSE "working"
         /\ pc[t] # "pop" => ExchangeClaim(task[t]) = job[t]
<1> DEFINE r == task[t]
<1>1. /\ pc \in [Threads -> ThreadPcs] /\ job \in [Threads -> Requests \cup {None}]
      /\ task \in [Threads -> Requests \cup {None}] /\ AnswersOK
  BY DEF TypeInv, TypeOK, PoolTypeOK, AnswersOK
<1>2. /\ r \in Requests /\ stage[r] = "done" /\ answers[r] = <<>> /\ pc[t] # "idle"
      /\ \A u \in Threads : pc[u] # "idle" /\ task[u] = r => u = t
  BY DEF TaskInv, StartedInv, Unanswered
<1>3. \A s \in Requests \ {r} : answers'[s] = answers[s]
  BY <1>1, <1>2, AnswerEffect
<1>4. /\ \A u \in Threads \ {t} : /\ Owning(u)' <=> Owning(u)
                                  /\ job'[u] = job[u] /\ task'[u] = task[u]
      /\ ~Owning(t)' \/ task'[t] = r
  BY <1>1 DEF EndTask, Owning
<1>5. \A s \in Requests \ {r}, u \in Threads :
        /\ WorksFor(u, s)' <=> WorksFor(u, s)
        /\ WorksFor(u, s) => job'[u] = job[u]
  BY <1>3, <1>4 DEF WorksFor
<1>6. /\ MappedPhase' = [MappedPhase EXCEPT ![r] = "answered"]
      /\ MappedClaim' = [MappedClaim EXCEPT ![r] = None]
      /\ answers' = [answers EXCEPT ![r] = <<[kind |-> kind, job |-> j]>>]
  BY <1>2, <1>5, MapAnswered
<1>7. Exchange!Answered(r, kind, j)
  BY <1>6 DEF Exchange!Answered, Exchange!Goes, MappedPhase, MappedClaim
<1>8. WorksFor(t, r) <=> pc[t] # "pop"
  BY <1>2 DEF WorksFor, Owning
<1>9. IsWorking(r) <=> pc[t] # "pop"
  BY <1>2, <1>8 DEF IsWorking, WorksFor, Owning
<1>10. ExchangePhase(r) = IF pc[t] = "pop" THEN "waiting" ELSE "working"
  BY <1>2, <1>9 DEF ExchangePhase
<1>11. pc[t] # "pop" => ExchangeClaim(r) = job[t]
  BY <1>2, <1>8, ClaimIs
<1> QED
  BY <1>2, <1>7, <1>10, <1>11

(* work_cancel and DELETE implement Withdraw.                              *)
LEMMA RemovalWithdraws ==
  ASSUME TaskInv, TaskInv', NEW gone, gone # {}, RemoveJobs(gone)
  PROVE  Exchange!Withdraw(gone)
<1>1. /\ jobs' = jobs \ gone
      /\ UNCHANGED <<stage, hash, pri, arrival, pc, task, job, answers>>
  BY DEF RemoveJobs, ioVars, poolVars
<1>2. \A t \in Threads, s \in Requests : WorksFor(t, s)' <=> WorksFor(t, s)
  BY <1>1 DEF WorksFor, Owning
<1>3. \A r \in Requests :
         ExchangePhase(r)' = ExchangePhase(r) /\ ExchangeClaim(r)' = ExchangeClaim(r)
  BY <1>1, <1>2, MapKept
<1>4. MappedPhase' = MappedPhase /\ MappedClaim' = MappedClaim
  BY <1>3 DEF MappedPhase, MappedClaim
<1> QED
  BY <1>1, <1>4 DEF Exchange!Withdraw, MappedPhase, MappedClaim

(* A step of the pool is a step of the request it serves, or none.         *)
LEMMA PoolMaps ==
  ASSUME TypeInv, TaskInv, TaskInv', JobInv, IdInv,
         NEW t \in Threads, ThreadStep(t) \/ Fault(t)
  PROVE  Exchange!Next \/ UNCHANGED Exchange!vars
<1>0. /\ pc \in [Threads -> ThreadPcs] /\ job \in [Threads -> Requests \cup {None}]
      /\ task \in [Threads -> Requests \cup {None}]
  BY DEF TypeInv, TypeOK, PoolTypeOK
<1> USE DEF ioVars
<1>a. ASSUME UNCHANGED <<stage, hash, pri, arrival, jobs, answers>>,
             \A u \in Threads, r \in Requests :
                /\ WorksFor(u, r)' <=> WorksFor(u, r)
                /\ WorksFor(u, r) => job'[u] = job[u]
      PROVE  UNCHANGED Exchange!vars
  BY <1>a, MapStutters
<1>1. CASE Start(t)
  <2>1. /\ pc[t] = "idle" /\ pc' = [pc EXCEPT ![t] = "pop"]
        /\ task' = [task EXCEPT ![t] = Head(tasks)]
        /\ UNCHANGED <<stage, hash, pri, arrival, jobs, answers, job>>
    BY <1>1 DEF Start
  <2>2. \A u \in Threads, r \in Requests : WorksFor(u, r)' <=> WorksFor(u, r)
    BY <1>0, <2>1 DEF WorksFor, Owning
  <2> QED
    BY <2>1, <2>2, <1>a
<1>2. CASE Pop(t)
  <2>1. \E j \in jobs : Exchange!Claim(task[t], j)
    BY <1>2, PopClaims
  <2>2. task[t] \in Requests
    BY <1>2 DEF Pop, TaskInv, StartedInv
  <2> QED
    BY <2>1, <2>2 DEF Exchange!Next, Exchange!Serve
<1>3. CASE NoJobs(t)
  <2>1. /\ pc[t] = "pop" /\ jobs = {} /\ Answer(task[t], "nojobs", None) /\ EndTask(t)
        /\ UNCHANGED <<stage, hash, pri, arrival, jobs>>
    BY <1>3 DEF NoJobs
  <2>2. /\ Exchange!Answered(task[t], "nojobs", None) /\ task[t] \in Requests
        /\ ExchangePhase(task[t]) = "waiting"
    BY <2>1, TaskAnswered DEF Unanswered, AnswerKinds
  <2>3. Exchange!TurnAway(task[t])
    BY <2>1, <2>2 DEF Exchange!TurnAway
  <2> QED
    BY <2>2, <2>3 DEF Exchange!Next, Exchange!Serve
<1>4. CASE TryAcquire(t) \/ InsertActive(t)
  <2>1. /\ pc[t] \in {"scan", "insert"}
        /\ pc' = pc \/ \E c \in {"insert", "search"} : pc' = [pc EXCEPT ![t] = c]
        /\ UNCHANGED <<stage, hash, pri, arrival, jobs, answers, job, task>>
    BY <1>4 DEF TryAcquire, InsertActive
  <2>2. \A u \in Threads, r \in Requests : WorksFor(u, r)' <=> WorksFor(u, r)
    BY <1>0, <2>1 DEF WorksFor, Owning
  <2> QED
    BY <2>1, <2>2, <1>a
<1>5. CASE NoDevice(t) \/ Fault(t)
  <2>1. PICK kind \in {"nodevice", "fault"} : Answer(task[t], kind, None)
    BY <1>5 DEF NoDevice, Fault
  <2>2. /\ pc[t] \in {"scan", "search"} /\ EndTask(t)
        /\ UNCHANGED <<stage, hash, pri, arrival, jobs>>
    BY <1>5 DEF NoDevice, Fault, MayThrow
  <2>3. /\ Exchange!Answered(task[t], kind, None) /\ task[t] \in Requests
        /\ ExchangePhase(task[t]) = "working"
    BY <2>1, <2>2, TaskAnswered DEF Unanswered, AnswerKinds
  <2>4. Exchange!Abandon(task[t])
    BY <2>2, <2>3 DEF Exchange!Abandon
  <2> QED
    BY <2>3, <2>4 DEF Exchange!Next
<1>6. CASE Respond(t)
  <2>1. /\ pc[t] = "search" /\ Answer(task[t], "work", job[t])
        /\ pc' = [pc EXCEPT ![t] = "release"]
        /\ UNCHANGED <<stage, hash, pri, arrival, jobs, task, job>>
    BY <1>6 DEF Respond
  <2>2. /\ Exchange!Answered(task[t], "work", job[t]) /\ task[t] \in Requests
        /\ ExchangePhase(task[t]) = "working" /\ ExchangeClaim(task[t]) = job[t]
    BY <1>0, <2>1, TaskAnswered DEF Unanswered, AnswerKinds
  <2>3. Exchange!Deliver(task[t])
    BY <2>1, <2>2 DEF Exchange!Deliver
  <2> QED
    BY <2>2, <2>3 DEF Exchange!Next, Exchange!Serve
<1>7. CASE Release(t) \/ LockActive(t) \/ Retire(t)
  <2>1. /\ pc[t] \in {"release", "lock", "retire"}
        /\ \A u \in Threads \ {t} : /\ pc'[u] = pc[u] /\ task'[u] = task[u]
                                    /\ job'[u] = job[u]
        /\ ~Owning(t)' \/ task'[t] = task[t]
        /\ UNCHANGED <<stage, hash, pri, arrival, jobs, answers>>
    BY <1>0, <1>7 DEF Release, LockActive, Retire, EndTask, Owning
  <2>2. answers[task[t]] # <<>>
    BY <2>1 DEF TaskInv, StartedInv, Unanswered
  <2>3. \A u \in Threads, r \in Requests :
          /\ WorksFor(u, r)' <=> WorksFor(u, r)
          /\ WorksFor(u, r) => job'[u] = job[u]
    BY <2>1, <2>2 DEF WorksFor, Owning
  <2> QED
    BY <2>1, <2>3, <1>a
<1> QED
  BY <1>1, <1>2, <1>3, <1>4, <1>5, <1>6, <1>7 DEF ThreadStep

(* Every step of the work handler is a step of the exchange, or none.      *)
LEMMA StepMaps ==
  ASSUME TypeInv, TaskInv, TaskInv', JobInv, IdInv, [Next]_vars
  PROVE  Exchange!Next \/ UNCHANGED Exchange!vars
<1> USE DEF ioVars, poolVars
<1>a. ASSUME UNCHANGED <<stage, hash, pri, arrival, jobs, answers, pc, task, job>>
      PROVE  UNCHANGED Exchange!vars
  <2>1. \A u \in Threads, r \in Requests : WorksFor(u, r)' <=> WorksFor(u, r)
    BY <1>a DEF WorksFor, Owning
  <2> QED
    BY <1>a, <2>1, MapStutters
<1>1. ASSUME NEW r \in Requests, NEW h \in Hashes \cup {NoHash},
             NEW p \in Priorities, Begin(r, h, p)
      PROVE  Exchange!Next
  BY <1>1, BeginAsks DEF Exchange!Next
<1>2. ASSUME NEW r \in Requests, RequestStep(r)
      PROVE  Exchange!Next \/ UNCHANGED Exchange!vars
  <2>1. CASE Malformed(r) \/ Reject(r)
    BY <2>1, RefusalRefuses DEF Exchange!Next, Exchange!Serve
  <2>2. CASE Push(r)
    BY <2>2, PushDeposits DEF Exchange!Next, Exchange!Serve
  <2>3. CASE Post(r)
    <3>1. /\ stage[r] = "pushed" /\ stage' = [stage EXCEPT ![r] = "done"]
          /\ UNCHANGED <<hash, pri, arrival, jobs, answers, pc, task, job>>
      BY <2>3 DEF Post
    <3>2. \A s \in Requests : \/ stage'[s] = stage[s]
                              \/ {stage[s], stage'[s]} \subseteq {"pushed", "done"}
      BY <3>1 DEF TypeInv, TypeOK, IoTypeOK
    <3>3. \A u \in Threads, s \in Requests : WorksFor(u, s)' <=> WorksFor(u, s)
      BY <3>1 DEF WorksFor, Owning
    <3> QED
      BY <3>1, <3>2, <3>3, MapStutters
  <2> QED
    BY <1>2, <2>1, <2>2, <2>3 DEF RequestStep
<1>3. ASSUME NEW h \in Hashes, Cancel(h)
      PROVE  Exchange!Next
  <2>1. /\ {j \in jobs : hash[j] = h} # {}
        /\ RemoveJobs({j \in jobs : hash[j] = h})
    BY <1>3 DEF Cancel
  <2>2. Exchange!WithdrawHash(h)
    BY <2>1, RemovalWithdraws DEF Exchange!WithdrawHash
  <2> QED
    BY <2>2 DEF Exchange!Next
<1>4. CASE DeleteQueue
  <2>1. Exchange!WithdrawAll
    BY <1>4, RemovalWithdraws DEF DeleteQueue, Exchange!WithdrawAll
  <2> QED
    BY <2>1 DEF Exchange!Next
<1>5. ASSUME NEW q \in Readers, QueueLockJobs(q) \/ ReaderStep(q)
      PROVE  UNCHANGED Exchange!vars
  BY <1>5, <1>a DEF QueueLockJobs, ReaderStep, QueueLockActive,
     QueueLockCompleted, QueueCopy, QueueRespond
<1>6. ASSUME NEW t \in Threads, ThreadStep(t) \/ Fault(t)
      PROVE  Exchange!Next \/ UNCHANGED Exchange!vars
  BY <1>6, PoolMaps
<1>7. CASE Quiet \/ UNCHANGED vars
  BY <1>7, <1>a DEF Quiet, vars
<1> QED
  BY <1>1, <1>2, <1>3, <1>4, <1>5, <1>6, <1>7 DEF Next

(* The work handler keeps the promises of the exchange, whichever threads  *)
(* race, for any number of requests (fewer than there are job ids),        *)
(* devices and readers, and whatever is cancelled or fails.                *)
THEOREM WorkHandlerImplementsExchange ==
  ASSUME Cardinality(Requests) < IdMod
  PROVE  Spec => ImplementsExchange
<1>1. Init => IdInv
  BY IdInit
<1>2. TypeInv /\ IdInv /\ [Next]_vars => IdInv'
  BY IdStep
<1>3. Init => Exchange!Init
  BY MapInit
<1>4. TypeInv /\ TaskInv /\ TaskInv' /\ JobInv /\ IdInv /\ [Next]_vars
        => [Exchange!Next]_(Exchange!vars)
  BY StepMaps
<1> QED
  BY <1>1, <1>2, <1>3, <1>4, JobsAlways, PTL
     DEF Spec, ImplementsExchange, Exchange!Spec
=============================================================================
