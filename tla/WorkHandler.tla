---------------------------- MODULE WorkHandler ----------------------------
(***************************************************************************)
(* The work handler of nano-pow-server (src/src/workserver/work_handler).  *)
(*                                                                         *)
(* Web server threads ("io threads") run handle_request_async: a request   *)
(* for work takes a job id, pushes a job into a priority queue and posts a *)
(* task to a thread pool with one thread per device.  A task does not name *)
(* a job: it pops whichever job is on top, claims the first device whose   *)
(* busy flag it can set, generates work and answers the request that       *)
(* posted the task.                                                        *)
(*                                                                         *)
(* A job is identified with the request that created it; its fields are    *)
(* hash[r], pri[r] and id[r].  A handler step that runs inside one         *)
(* lock_guard is one action guarded by the mutex being free; a handler     *)
(* that holds a mutex across several steps owns it in a variable.          *)
(***************************************************************************)
EXTENDS Naturals, Sequences, FiniteSets

CONSTANTS
    Requests,        \* the work_generate requests of a behaviour
    Readers,         \* the GET /api/v1/work/queue requests of a behaviour
    Hashes,          \* root hashes
    NoHash,          \* a request without the mandatory hash field
    Priorities,      \* values of the optional priority field
    NumDevices,      \* config.devices.size (), also the size of the pool
    NumIoThreads,    \* handlers that can run at the same time
    RequestLimit,    \* config.server.request_limit
    CompletedCap,    \* capacity of completed_jobs (128 in the code)
    IdMod,           \* 2^32 in the code: job ids are unsigned
    AllowControl,    \* config.server.allow_control
    AllowPriority,   \* config.server.allow_prioritization
    MaxFaults,       \* bound: runtime errors raised during generation
    None             \* no request, no job, no lock owner

ASSUME ConstantsAssumption ==
    /\ IsFiniteSet(Requests)
    /\ NoHash \notin Hashes
    /\ Priorities \subseteq Nat
    /\ NumDevices \in Nat \ {0}
    /\ NumIoThreads \in Nat \ {0}
    /\ RequestLimit \in Nat
    /\ CompletedCap \in Nat \ {0}
    /\ IdMod \in Nat \ {0, 1}
    /\ AllowControl \in BOOLEAN
    /\ AllowPriority \in BOOLEAN
    /\ MaxFaults \in Nat
    /\ None \notin Requests
    /\ None \notin Readers
    /\ None \notin 1..NumDevices

Devices == 1..NumDevices
Threads == 1..NumDevices     \* pool (config.devices.size ())

VARIABLES
    stage,      \* where the io thread serving request r stands
    hash, pri, id,
    dispenser,  \* job::job_id_dispenser
    arrival,    \* history: how many requests were begun before r
    jobs,       \* the priority queue, as the set of its jobs
    removed,    \* history: jobs taken out by work_cancel or DELETE
    tasks,      \* tasks posted to the pool and not yet started
    pc,         \* where pool thread t stands
    task,       \* the request whose response handler t's task captured
    job,        \* the job t popped
    dev,        \* the device t tries next, or holds
    busy,       \* registered_device::busy
    active,     \* active_jobs
    completed,  \* completed_jobs
    answers,    \* the responses each request was given
    rpc,        \* where the queue request q stands
    queued,     \* jobs_l, q's copy of the queue
    jobsLock, activeLock, completedLock,
    faults      \* runtime errors raised so far

ioVars   == <<stage, hash, pri, id, dispenser, arrival>>
poolVars == <<pc, task, job, dev, busy>>
rpcVars  == <<rpc, queued>>
lockVars == <<jobsLock, activeLock, completedLock>>
histVars == <<active, completed>>
vars == <<ioVars, jobs, removed, tasks, poolVars, histVars, answers, rpcVars,
          lockVars, faults>>

Stages     == {"new", "parsed", "pushed", "done"}
ThreadPcs  == {"idle", "pop", "scan", "insert", "search", "release",
               "lock", "retire"}
ReaderPcs  == {"new", "jobs", "active", "completed", "copied", "done"}
AnswerKinds == {"work", "malformed", "limit", "nojobs", "nodevice", "fault"}
Answers    == [kind : AnswerKinds, job : Requests \cup {None}]

IoTypeOK ==
    /\ stage \in [Requests -> Stages]
    /\ hash \in [Requests -> Hashes \cup {NoHash}]
    /\ pri \in [Requests -> Nat]
    /\ id \in [Requests -> 0..(IdMod - 1)]
    /\ dispenser \in 0..(IdMod - 1)
    /\ arrival \in [Requests -> Nat]

QueueTypeOK ==
    /\ jobs \subseteq Requests
    /\ removed \subseteq Requests
    /\ tasks \in Seq(Requests)
    /\ active \subseteq Requests
    /\ completed \in Seq(Requests) /\ Len(completed) <= CompletedCap

PoolTypeOK ==
    /\ pc \in [Threads -> ThreadPcs]
    /\ task \in [Threads -> Requests \cup {None}]
    /\ job \in [Threads -> Requests \cup {None}]
    /\ dev \in [Threads -> 0..(NumDevices + 1)]
    /\ busy \in [Devices -> BOOLEAN]
    /\ faults \in 0..MaxFaults

ReportTypeOK ==
    /\ rpc \in [Readers -> ReaderPcs]
    /\ queued \in [Readers -> SUBSET Requests]
    /\ jobsLock \in Readers \cup {None}
    /\ activeLock \in Readers \cup Threads \cup {None}
    /\ completedLock \in Readers \cup {None}

(* The type of every variable; completed_jobs never exceeds its capacity.  *)
TypeOK ==
    /\ IoTypeOK
    /\ QueueTypeOK
    /\ PoolTypeOK
    /\ ReportTypeOK
    /\ answers \in [Requests -> Seq(Answers)]

Init ==
    /\ stage = [r \in Requests |-> "new"]
    /\ hash = [r \in Requests |-> NoHash]
    /\ pri = [r \in Requests |-> 0]
    /\ id = [r \in Requests |-> 0]
    /\ dispenser = 1
    /\ arrival = [r \in Requests |-> 0]
    /\ jobs = {}
    /\ removed = {}
    /\ tasks = <<>>
    /\ pc = [t \in Threads |-> "idle"]
    /\ task = [t \in Threads |-> None]
    /\ job = [t \in Threads |-> None]
    /\ dev = [t \in Threads |-> 0]
    /\ busy = [d \in Devices |-> FALSE]
    /\ active = {}
    /\ completed = <<>>
    /\ answers = [r \in Requests |-> <<>>]
    /\ rpc = [q \in Readers |-> "new"]
    /\ queued = [q \in Readers |-> {}]
    /\ jobsLock = None
    /\ activeLock = None
    /\ completedLock = None
    /\ faults = 0

(* response_handler (...) for the request whose handler or task runs. *)
Answer(r, kind, j) ==
    answers' = [answers EXCEPT ![r] = Append(@, [kind |-> kind, job |-> j])]

-----------------------------------------------------------------------------
(* The io threads: handle_request_async, and the queue endpoints. *)

(* The handlers now running: each occupies one io thread. *)
Running ==
    {r \in Requests : stage[r] \in {"parsed", "pushed"}}
        \cup {q \in Readers : rpc[q] \notin {"new", "done"}}

IoThreadFree == Cardinality(Running) < NumIoThreads

(* The body is parsed and `job job_l` takes the next id, before the hash   *)
(* field is even looked at.                                                *)
Begin(r, h, p) ==
    /\ stage[r] = "new"
    /\ IoThreadFree
    /\ stage' = [stage EXCEPT ![r] = "parsed"]
    /\ hash' = [hash EXCEPT ![r] = h]
    /\ pri' = [pri EXCEPT ![r] = IF AllowPriority THEN p ELSE 0]
    /\ id' = [id EXCEPT ![r] = dispenser]
    /\ dispenser' = (dispenser + 1) % IdMod
    /\ arrival' = [arrival EXCEPT
                    ![r] = Cardinality({k \in Requests : stage[k] # "new"})]
    /\ UNCHANGED <<jobs, removed, tasks, poolVars, histVars, answers, rpcVars,
                   lockVars, faults>>

(* A missing hash: the exception is reported to the client. *)
Malformed(r) ==
    /\ stage[r] = "parsed"
    /\ hash[r] = NoHash
    /\ stage' = [stage EXCEPT ![r] = "done"]
    /\ Answer(r, "malformed", None)
    /\ UNCHANGED <<hash, pri, id, dispenser, arrival, jobs, removed, tasks,
                   poolVars, histVars, rpcVars, lockVars, faults>>

(* Variant of HasRoom: off by one. *)
HasRoomForOneMore == Cardinality(jobs) <= RequestLimit

HasRoom == Cardinality(jobs) < RequestLimit

(* The limit check and the push, under jobs_mutex. *)
Push(r) ==
    /\ stage[r] = "parsed"
    /\ hash[r] # NoHash
    /\ jobsLock = None
    /\ HasRoom
    /\ jobs' = jobs \cup {r}
    /\ stage' = [stage EXCEPT ![r] = "pushed"]
    /\ UNCHANGED <<hash, pri, id, dispenser, arrival, removed, tasks, poolVars,
                   histVars, answers, rpcVars, lockVars, faults>>

(* "Work request limit exceeded" *)
Reject(r) ==
    /\ stage[r] = "parsed"
    /\ hash[r] # NoHash
    /\ jobsLock = None
    /\ ~HasRoom
    /\ stage' = [stage EXCEPT ![r] = "done"]
    /\ Answer(r, "limit", None)
    /\ UNCHANGED <<hash, pri, id, dispenser, arrival, jobs, removed, tasks,
                   poolVars, histVars, rpcVars, lockVars, faults>>

(* Variant of Posted: the pool is only woken for the first job of a queue. *)
PostedForFirst(r) == IF jobs = {r} THEN Append(tasks, r) ELSE tasks

Posted(r) == Append(tasks, r)

(* boost::asio::post (pool, ...): jobs_mutex is no longer held. *)
Post(r) ==
    /\ stage[r] = "pushed"
    /\ stage' = [stage EXCEPT ![r] = "done"]
    /\ tasks' = Posted(r)
    /\ UNCHANGED <<hash, pri, id, dispenser, arrival, jobs, removed, poolVars,
                   histVars, answers, rpcVars, lockVars, faults>>

(* remove_job: rebuilds the queue without the jobs for hash h. *)
RemoveJobs(gone) ==
    /\ jobsLock = None
    /\ IoThreadFree
    /\ jobs' = jobs \ gone
    /\ removed' = removed \cup gone
    /\ UNCHANGED <<ioVars, tasks, poolVars, histVars, answers, rpcVars,
                   lockVars, faults>>

(* work_cancel; when no job has the hash the handler only reports it. *)
Cancel(h) ==
    /\ \E j \in jobs : hash[j] = h
    /\ RemoveJobs({j \in jobs : hash[j] = h})

(* handle_queue_delete_request: drops the whole queue. *)
DeleteQueue ==
    /\ AllowControl
    /\ jobs # {}
    /\ RemoveJobs(jobs)

-----------------------------------------------------------------------------
(* handle_queue_request: jobs_mutex, active_jobs_mutex and                 *)
(* completed_jobs_mutex are taken in this order, the queue is copied,      *)
(* jobs_mutex is given back, and the report is written under the other two.*)

QueueLockJobs(q) ==
    /\ rpc[q] = "new"
    /\ IoThreadFree
    /\ jobsLock = None
    /\ jobsLock' = q
    /\ rpc' = [rpc EXCEPT ![q] = "jobs"]
    /\ UNCHANGED <<ioVars, jobs, removed, tasks, poolVars, histVars, answers,
                   queued, activeLock, completedLock, faults>>

QueueLockActive(q) ==
    /\ rpc[q] = "jobs"
    /\ activeLock = None
    /\ activeLock' = q
    /\ rpc' = [rpc EXCEPT ![q] = "active"]
    /\ UNCHANGED <<ioVars, jobs, removed, tasks, poolVars, histVars, answers,
                   queued, jobsLock, completedLock, faults>>

QueueLockCompleted(q) ==
    /\ rpc[q] = "active"
    /\ completedLock = None
    /\ completedLock' = q
    /\ rpc' = [rpc EXCEPT ![q] = "completed"]
    /\ UNCHANGED <<ioVars, jobs, removed, tasks, poolVars, histVars, answers,
                   queued, jobsLock, activeLock, faults>>

(* Variant of QueueCopy: without jobs_l.pop () its loop never ends.        *)
QueueCopyForever(q) == rpc[q] = "completed" /\ UNCHANGED vars

QueueCopy(q) ==
    /\ rpc[q] = "completed"
    /\ queued' = [queued EXCEPT ![q] = jobs]
    /\ jobsLock' = None
    /\ rpc' = [rpc EXCEPT ![q] = "copied"]
    /\ UNCHANGED <<ioVars, jobs, removed, tasks, poolVars, histVars, answers,
                   activeLock, completedLock, faults>>

(* The response is built from queued[q], active and completed. *)
QueueRespond(q) ==
    /\ rpc[q] = "copied"
    /\ queued' = [queued EXCEPT ![q] = {}]
    /\ activeLock' = None
    /\ completedLock' = None
    /\ rpc' = [rpc EXCEPT ![q] = "done"]
    /\ UNCHANGED <<ioVars, jobs, removed, tasks, poolVars, histVars, answers,
                   jobsLock, faults>>

-----------------------------------------------------------------------------
(* The pool threads: the lambda posted at the end of work_generate. *)

(* Variant of Before: the later job of a priority goes first. *)
BeforeLifo(j, k) ==
    \/ pri[j] > pri[k]
    \/ pri[j] = pri[k] /\ id[j] > id[k]

(* job::comparator: the higher priority, then the lower id, goes first. *)
Before(j, k) ==
    \/ pri[j] > pri[k]
    \/ pri[j] = pri[k] /\ id[j] < id[k]

IsTop(j) == j \in jobs /\ \A k \in jobs : ~Before(k, j)

(* active_jobs is a std::set under the same comparator. *)
SameKey(j, k) == pri[j] = pri[k] /\ id[j] = id[k]

(* The pool hands out posted tasks in the order they were posted. *)
Start(t) ==
    /\ pc[t] = "idle"
    /\ tasks # <<>>
    /\ task' = [task EXCEPT ![t] = Head(tasks)]
    /\ tasks' = Tail(tasks)
    /\ pc' = [pc EXCEPT ![t] = "pop"]
    /\ UNCHANGED <<ioVars, jobs, removed, job, dev, busy, histVars, answers,
                   rpcVars, lockVars, faults>>

(* Variant of Without: jobs.pop () is missing. *)
WithTop(j) == jobs

Without(j) == jobs \ {j}

(* The task of one request takes the top job, whoever asked for it. *)
Pop(t) ==
    /\ pc[t] = "pop"
    /\ jobsLock = None
    /\ \E j \in jobs :
         /\ IsTop(j)
         /\ job' = [job EXCEPT ![t] = j]
         /\ jobs' = Without(j)
    /\ pc' = [pc EXCEPT ![t] = "scan"]
    /\ dev' = [dev EXCEPT ![t] = 1]
    /\ UNCHANGED <<ioVars, removed, tasks, task, busy, histVars, answers,
                   rpcVars, lockVars, faults>>

(* A task ends: its frame, and the job in it, are gone. *)
EndTask(t) ==
    /\ pc' = [pc EXCEPT ![t] = "idle"]
    /\ task' = [task EXCEPT ![t] = None]
    /\ job' = [job EXCEPT ![t] = None]
    /\ dev' = [dev EXCEPT ![t] = 0]

(* "No jobs available" *)
NoJobs(t) ==
    /\ pc[t] = "pop"
    /\ jobsLock = None
    /\ jobs = {}
    /\ Answer(task[t], "nojobs", None)
    /\ EndTask(t)
    /\ UNCHANGED <<ioVars, jobs, removed, tasks, busy, histVars, rpcVars,
                   lockVars, faults>>

(* Variant of WasBusy: what exchange returns is not looked at. *)
NeverBusy(d) == FALSE

WasBusy(d) == busy[d]

(* One try_aquire of find_if: exchange the flag, go on if it was set. *)
TryAcquire(t) ==
    /\ pc[t] = "scan"
    /\ dev[t] <= NumDevices
    /\ busy' = [busy EXCEPT ![dev[t]] = TRUE]
    /\ IF WasBusy(dev[t])
         THEN dev' = [dev EXCEPT ![t] = @ + 1] /\ UNCHANGED pc
         ELSE pc' = [pc EXCEPT ![t] = "insert"] /\ UNCHANGED dev
    /\ UNCHANGED <<ioVars, jobs, removed, tasks, task, job, histVars, answers,
                   rpcVars, lockVars, faults>>

(* find_if reached devices.end (): "No available devices" is thrown. *)
NoDevice(t) ==
    /\ pc[t] = "scan"
    /\ dev[t] > NumDevices
    /\ Answer(task[t], "nodevice", None)
    /\ EndTask(t)
    /\ UNCHANGED <<ioVars, jobs, removed, tasks, busy, histVars, rpcVars,
                   lockVars, faults>>

(* Variant of MayInsert: active_jobs_mutex is not waited for. *)
MayInsertAnyway == TRUE

MayInsert == activeLock = None

InsertActive(t) ==
    /\ pc[t] = "insert"
    /\ MayInsert
    /\ active' = IF \E j \in active : SameKey(j, job[t])
                   THEN active ELSE active \cup {job[t]}
    /\ pc' = [pc EXCEPT ![t] = "search"]
    /\ UNCHANGED <<ioVars, jobs, removed, tasks, task, job, dev, busy,
                   completed, answers, rpcVars, lockVars, faults>>

(* Work for the popped job is found and sent to the task's request; the    *)
(* device is released only afterwards.                                     *)
Respond(t) ==
    /\ pc[t] = "search"
    /\ Answer(task[t], "work", job[t])
    /\ pc' = [pc EXCEPT ![t] = "release"]
    /\ UNCHANGED <<ioVars, jobs, removed, tasks, task, job, dev, busy,
                   histVars, rpcVars, lockVars, faults>>

(* Variant of MayThrow: what follows the response can throw as well. *)
MayThrowLate(t) == pc[t] \in {"search", "release"}

MayThrow(t) == pc[t] = "search"

(* std::random_device (or writing the response) throws: the catch block    *)
(* answers, and neither the device nor the active_jobs entry is given back.*)
Fault(t) ==
    /\ MayThrow(t)
    /\ faults < MaxFaults
    /\ faults' = faults + 1
    /\ Answer(task[t], "fault", None)
    /\ EndTask(t)
    /\ UNCHANGED <<ioVars, jobs, removed, tasks, busy, histVars, rpcVars,
                   lockVars>>

(* Variant of Released: the flag is read, not cleared. *)
ReleasedNot(d) == busy

Released(d) == [busy EXCEPT ![d] = FALSE]

Release(t) ==
    /\ pc[t] = "release"
    /\ busy' = Released(dev[t])
    /\ dev' = [dev EXCEPT ![t] = 0]
    /\ pc' = [pc EXCEPT ![t] = "lock"]
    /\ UNCHANGED <<ioVars, jobs, removed, tasks, task, job, histVars, answers,
                   rpcVars, lockVars, faults>>

LockActive(t) ==
    /\ pc[t] = "lock"
    /\ activeLock = None
    /\ activeLock' = t
    /\ pc' = [pc EXCEPT ![t] = "retire"]
    /\ UNCHANGED <<ioVars, jobs, removed, tasks, task, job, dev, busy,
                   histVars, answers, rpcVars, jobsLock, completedLock, faults>>

(* Variant of PushBack: an unbounded container. *)
PushBackUnbounded(buffer, j) == Append(buffer, j)

(* push_back on a boost::circular_buffer: the oldest entry gives way. *)
PushBack(buffer, j) ==
    IF Len(buffer) < CompletedCap
      THEN Append(buffer, j)
      ELSE Append(Tail(buffer), j)

(* Variant of Erased: the reference stays in active_jobs. *)
ErasedNot(j) == active

Erased(j) == {k \in active : ~SameKey(k, j)}

(* Both mutexes are held: erase by key, push_back, unlock on return. *)
Retire(t) ==
    /\ pc[t] = "retire"
    /\ completedLock = None
    /\ active' = Erased(job[t])
    /\ completed' = PushBack(completed, job[t])
    /\ activeLock' = None
    /\ EndTask(t)
    /\ UNCHANGED <<ioVars, jobs, removed, tasks, busy, answers, rpcVars,
                   jobsLock, completedLock, faults>>

-----------------------------------------------------------------------------
(* Every request was served and every thread is idle. *)
Quiet ==
    /\ \A r \in Requests : stage[r] = "done"
    /\ \A q \in Readers : rpc[q] = "done"
    /\ \A t \in Threads : pc[t] = "idle"
    /\ tasks = <<>>
    /\ UNCHANGED vars

RequestStep(r) == Malformed(r) \/ Push(r) \/ Reject(r) \/ Post(r)

ReaderStep(q) ==
    \/ QueueLockActive(q) \/ QueueLockCompleted(q)
    \/ QueueCopy(q) \/ QueueRespond(q)

ThreadStep(t) ==
    \/ Start(t) \/ Pop(t) \/ NoJobs(t) \/ TryAcquire(t) \/ NoDevice(t)
    \/ InsertActive(t) \/ Respond(t) \/ Release(t) \/ LockActive(t)
    \/ Retire(t)

Next ==
    \/ \E r \in Requests, h \in Hashes \cup {NoHash}, p \in Priorities :
          Begin(r, h, p)
    \/ \E r \in Requests : RequestStep(r)
    \/ \E h \in Hashes : Cancel(h)
    \/ DeleteQueue
    \/ \E q \in Readers : QueueLockJobs(q) \/ ReaderStep(q)
    \/ \E t \in Threads : ThreadStep(t) \/ Fault(t)
    \/ Quiet

Spec == Init /\ [][Next]_vars

(* A running thread is scheduled again; nothing obliges clients to send    *)
(* requests, nor the generation to fail.                                   *)
Fairness ==
    /\ \A r \in Requests : WF_vars(RequestStep(r))
    /\ \A q \in Readers : WF_vars(ReaderStep(q))
    /\ \A t \in Threads : WF_vars(ThreadStep(t))

FairSpec == Spec /\ Fairness

-----------------------------------------------------------------------------
(* Derived state. *)

(* Threads whose task holds a device. *)
Holding(t) == pc[t] \in {"insert", "search", "release"}

(* Threads whose frame owns a job popped from the queue. *)
Owning(t) == pc[t] \notin {"idle", "pop"}

(* Requests whose job was pushed and whose task has not popped one yet. *)
Waiting ==
    {r \in Requests :
        \/ stage[r] = "pushed"
        \/ \E i \in 1..Len(tasks) : tasks[i] = r
        \/ \E t \in Threads : pc[t] = "pop" /\ task[t] = r}

(* Requests answered "No jobs available". *)
TurnedAway ==
    {r \in Requests :
        \E i \in 1..Len(answers[r]) : answers[r][i].kind = "nojobs"}

(* r was answered with the work of job j. *)
GotWork(r, j) ==
    \E i \in 1..Len(answers[r]) : answers[r][i] = [kind |-> "work", job |-> j]

-----------------------------------------------------------------------------
(* Properties. *)

(* aquire_first_available_device, with the release after the response:     *)
(* no two pool threads ever generate on the same device, and the device of *)
(* a running generation is marked busy.                                    *)
DeviceExclusive ==
    \A t, u \in Threads :
        Holding(t) =>
            /\ busy[dev[t]]
            /\ Holding(u) /\ dev[u] = dev[t] => u = t

(* work_handler.cpp:221, "we know that a driver will be available whenever *)
(* the pool handler is called": a thread looking for a device has a free   *)
(* one at or after the place find_if has reached.                          *)
DriverAvailable ==
    \A t \in Threads :
        pc[t] = "scan" => \E d \in Devices : d >= dev[t] /\ ~busy[d]

(* handle_request_async: each accepted or refused request has its response *)
(* handler called at most once, on whichever thread gets there.            *)
AnsweredOnce == \A r \in Requests : Len(answers[r]) <= 1

(* A job is in one place only: queued, removed, in the frame of one pool   *)
(* thread, or delivered to one request.                                    *)
OneOwner ==
    /\ jobs \cap removed = {}
    /\ \A t \in Threads :
         Owning(t) =>
            /\ job[t] \notin jobs \cup removed
            /\ \A u \in Threads : Owning(u) /\ job[u] = job[t] => u = t
    /\ \A r \in Requests, j \in Requests :
         GotWork(r, j) =>
            /\ j \notin jobs \cup removed
            /\ \A s \in Requests : GotWork(s, j) => s = r

(* The queue and the posted tasks are separate, yet they balance: the      *)
(* tasks still to come are the jobs still queued plus those work_cancel    *)
(* and DELETE took away, less the requests already turned away for them.   *)
(* So no job is left in the queue without a task that will take it, and    *)
(* without cancels nobody is told "No jobs available".                     *)
TasksMatchJobs ==
    Cardinality(Waiting) + Cardinality(TurnedAway)
        = Cardinality(jobs) + Cardinality(removed)

(* The limit check and the push are one critical section: the queue never  *)
(* outgrows server.request_limit, whichever io threads race.               *)
QueueBounded == Cardinality(jobs) <= RequestLimit

(* work_handler.hpp:40, "it's a FIFO queue within each priority level": a  *)
(* popped job leaves no queued job of its priority that arrived earlier,   *)
(* and none of a higher priority.                                          *)
FifoWithinPriority ==
    [][\A t \in Threads : pc[t] = "pop" /\ pc'[t] = "scan" =>
          \A k \in jobs' :
             \/ pri[k] < pri[job'[t]]
             \/ pri[k] = pri[job'[t]] /\ arrival[k] > arrival[job'[t]]]_vars

(* handle_queue_request: the three lists of one report are taken under     *)
(* locks held together, so no job is listed twice.                         *)
ReportConsistent ==
    \A q \in Readers : rpc[q] = "copied" =>
        /\ queued[q] \cap active = {}
        /\ \A i \in 1..Len(completed) :
              completed[i] \notin queued[q] \cup active

(* active_jobs holds references to jobs in the frames of pool threads:     *)
(* each of them refers to a live frame of a task still running.            *)
ActiveAlive ==
    \A j \in active : \E t \in Threads : Owning(t) /\ job[t] = j

(* work_handler.cpp:152: the correlation id is there to match responses    *)
(* with requests; the work sent to a request is for the hash it asked for. *)
AnswerMatchesRequest ==
    \A r, j \in Requests : GotWork(r, j) => hash[j] = hash[r]

(* Every request an io thread starts to serve is answered.                 *)
EveryRequestAnswered ==
    \A r \in Requests : stage[r] = "parsed" ~> answers[r] # <<>>

(* A queued job does not stay queued: it is generated or removed.          *)
QueueDrains == \A r \in Requests : r \in jobs ~> r \notin jobs

(* A queue report that started is delivered: the three mutexes are always  *)
(* taken in one order, so the readers and the retiring threads never wait  *)
(* on each other.                                                          *)
ReportDelivered == \A q \in Readers : rpc[q] = "jobs" ~> rpc[q] = "done"
=============================================================================
