-------------------------- MODULE ServerLifecycle --------------------------
(***************************************************************************)
(* The life of the server process: main in nano_pow_server.cpp, which owns *)
(* the work handler and the web server; webserver::start, which spawns the *)
(* I/O threads, runs the io_context and joins; the listener; the           *)
(* destructors that run when start returns.  A client here is one          *)
(* connection that asks for work once; sessions and the work queue have    *)
(* modules of their own.                                                   *)
(*                                                                         *)
(* A handler of the io_context is one step of some thread inside run ().   *)
(* Using an object after its destructor is undefined: the process goes on  *)
(* or crashes.                                                             *)
(***************************************************************************)
EXTENDS Naturals, FiniteSets

CONSTANTS
    ThreadCounts,  \* values of config.server.threads
    SizeMod,       \* 2^64: size_t
    MaxThreads,    \* external: how many threads the system lets it spawn
    Clients,       \* connections
    PoolThreads,   \* threads of the work handler's pool
    AllowControl   \* config.server.allow_control

ASSUME LifecycleAssumption ==
    /\ ThreadCounts \subseteq Nat \ {0}
    /\ SizeMod \in Nat /\ \A n \in ThreadCounts : n < SizeMod
    /\ MaxThreads \in Nat /\ MaxThreads < SizeMod - 1
    /\ PoolThreads \in Nat \ {0}
    /\ AllowControl \in BOOLEAN

VARIABLES
    requested,    \* thread_count
    main,         \* where the main thread is
    left,         \* the counter of the loop that spawns threads
    spawned,      \* threads.size ()
    running,      \* spawned threads inside ioc.run ()
    sleeper,      \* who sleeps in listener::on_accept: "none", "main", "spawned"
    listener,     \* "listening", "unbound" (bind failed), "closed" (open failed)
    stopped,      \* ioc.stop () was called
    poolStopped,  \* pool.stop () was called
    serverAlive,  \* ws, its io_context included, is not destroyed
    queuesAlive,  \* nor are the queues and mutexes of work_handler
    conn,         \* the state of each client's connection and request
    signalled,    \* history: SIGINT or SIGTERM was handled
    deadSession,  \* history: a session was used after its io_context
    deadQueues    \* history: the handler's queues were used after them

vars == <<requested, main, left, spawned, running, sleeper, listener, stopped,
          poolStopped, serverAlive, queuesAlive, conn, signalled, deadSession,
          deadQueues>>

threadVars == <<requested, left, spawned, running, sleeper, listener>>
aliveVars  == <<poolStopped, serverAlive, queuesAlive>>
history    == <<signalled, deadSession, deadQueues>>

Ended == {"returned", "exited", "terminated"}

(* threads.capacity () after reserve (thread_count - 1). *)
Capacity(n) == n - 1

(* "auto i = threads.capacity () - 1", a size_t. *)
LoopStart(n) == (Capacity(n) + SizeMod - 1) % SizeMod

(* The listener is created and run, whatever open and bind returned. *)
Init ==
    /\ requested \in ThreadCounts
    /\ main = "spawn"
    /\ left = LoopStart(requested)
    /\ spawned = 0 /\ running = 0 /\ sleeper = "none"
    /\ listener \in {"listening", "unbound", "closed"}
    /\ stopped = FALSE /\ poolStopped = FALSE
    /\ serverAlive = TRUE /\ queuesAlive = TRUE
    /\ conn = [c \in Clients |-> "idle"]
    /\ signalled = FALSE /\ deadSession = FALSE /\ deadQueues = FALSE

-----------------------------------------------------------------------------
(* webserver::start: the loop that spawns threads. *)
Spawn ==
    /\ main = "spawn" /\ left > 0 /\ spawned < MaxThreads
    /\ left' = left - 1
    /\ spawned' = spawned + 1
    /\ running' = running + 1
    /\ UNCHANGED <<requested, main, sleeper, listener, stopped, conn, aliveVars,
                   history>>

(* A runtime_error leaves start: ws and then work_handler are destroyed on *)
(* the way to the handler in main, which returns EXIT_FAILURE.  The vector *)
(* of threads goes first, and with it the process if there are any: they   *)
(* are joinable.                                                           *)
Unwind ==
    IF spawned = 0 THEN main' = "destroyed" /\ serverAlive' = FALSE
                   ELSE main' = "terminated" /\ UNCHANGED serverAlive

(* The constructor of std::thread throws: sooner or later when the counter *)
(* has wrapped around.                                                     *)
SpawnFails ==
    /\ main = "spawn" /\ left > 0
    /\ Unwind
    /\ UNCHANGED <<stopped, conn, poolStopped, queuesAlive, threadVars, history>>

(* ... and ioc.run () on the main thread. *)
MainRun ==
    /\ main = "spawn" /\ left = 0
    /\ main' = "run"
    /\ UNCHANGED <<stopped, conn, threadVars, aliveVars, history>>

(* A spawned thread inside run () that does not sleep. *)
FreeThread == running > (IF sleeper = "spawned" THEN 1 ELSE 0)

(* Some thread can run the next handler of the io_context. *)
CanHandle ==
    /\ main \notin Ended
    /\ ~stopped
    /\ FreeThread \/ (main = "run" /\ sleeper # "main")

(* listener::on_accept: a new session, and the next accept. *)
OnAccept(c) ==
    /\ CanHandle /\ listener = "listening" /\ sleeper = "none"
    /\ conn[c] = "idle"
    /\ conn' = [conn EXCEPT ![c] = "connected"]
    /\ UNCHANGED <<main, stopped, threadVars, aliveVars, history>>

(* ... of a peer that is gone already: remote_endpoint () throws.  Nothing *)
(* catches that on a spawned thread; on the main thread it leaves start.   *)
OnAcceptGone ==
    /\ CanHandle /\ listener = "listening" /\ sleeper = "none"
    /\ Unwind
    /\ UNCHANGED <<stopped, conn, poolStopped, queuesAlive, threadVars, history>>

(* ... with an error: the thread sleeps for a second. *)
OnAcceptError ==
    /\ CanHandle /\ listener # "closed" /\ sleeper = "none"
    /\ \/ sleeper' = "main" /\ main = "run"
       \/ sleeper' = "spawned" /\ running > 0
    /\ UNCHANGED <<main, stopped, conn, requested, left, spawned, running,
                   listener, aliveVars, history>>

(* Variant of Awake: the accept is not issued again. *)
AwakeNot == UNCHANGED sleeper

Awake == sleeper' = "none"

(* The second is over: the next accept. *)
AcceptAgain ==
    /\ main \notin Ended /\ sleeper # "none"
    /\ Awake
    /\ UNCHANGED <<main, stopped, conn, requested, left, spawned, running,
                   listener, aliveVars, history>>

(* A work request is read: handle_request_async posts a task to the pool. *)
Request(c) ==
    /\ CanHandle /\ conn[c] = "connected"
    /\ conn' = [conn EXCEPT ![c] = "queued"]
    /\ UNCHANGED <<main, stopped, threadVars, aliveVars, history>>

(* A stop request: std::exit (0), from an I/O thread. *)
StopRequest(c) ==
    /\ CanHandle /\ conn[c] = "connected" /\ AllowControl
    /\ main' = "exited"
    /\ UNCHANGED <<stopped, conn, threadVars, aliveVars, history>>

(* The handler of SIGINT and SIGTERM; it is not installed again. *)
OnSignal ==
    /\ CanHandle /\ ~signalled
    /\ signalled' = TRUE
    /\ stopped' = TRUE
    /\ UNCHANGED <<main, conn, deadSession, deadQueues, threadVars, aliveVars>>

-----------------------------------------------------------------------------
(* ioc.run () returns, in a spawned thread or in main. *)
ThreadReturns ==
    /\ main \notin Ended /\ stopped /\ FreeThread
    /\ running' = running - 1
    /\ UNCHANGED <<main, requested, left, spawned, sleeper, listener, stopped,
                   conn, aliveVars, history>>

MainReturns ==
    /\ main = "run" /\ stopped /\ sleeper # "main"
    /\ main' = "join"
    /\ UNCHANGED <<stopped, conn, threadVars, aliveVars, history>>

(* Variant of Joined: start does not wait for its threads. *)
JoinedNot == TRUE

Joined == running = 0

(* t.join () for every thread; start returns and main destroys ws. *)
DestroyServer ==
    /\ main = "join" /\ Joined
    /\ main' = "destroyed"
    /\ serverAlive' = FALSE
    /\ UNCHANGED <<stopped, conn, poolStopped, queuesAlive, threadVars, history>>

(* ~work_handler: tasks that have not started never will. *)
StopPool ==
    /\ main = "destroyed"
    /\ main' = "poolStopped"
    /\ poolStopped' = TRUE
    /\ conn' = [c \in Clients |->
                  IF conn[c] = "queued" THEN "dropped" ELSE conn[c]]
    /\ UNCHANGED <<stopped, serverAlive, queuesAlive, threadVars, history>>

(* The members declared after pool are destroyed before it ... *)
DestroyQueues ==
    /\ main = "poolStopped"
    /\ main' = "poolJoin"
    /\ queuesAlive' = FALSE
    /\ UNCHANGED <<stopped, conn, poolStopped, serverAlive, threadVars, history>>

Tasks == {c \in Clients : conn[c] \in {"running", "responded"}}

(* Variant of PoolJoined: the destructor of the pool does not wait. *)
PoolJoinedNot == TRUE

PoolJoined == Tasks = {}

(* ... whose own destructor joins its threads; main returns. *)
JoinPool ==
    /\ main = "poolJoin" /\ PoolJoined
    /\ main' = "returned"
    /\ UNCHANGED <<stopped, conn, threadVars, aliveVars, history>>

-----------------------------------------------------------------------------
(* A pool thread starts a task. *)
TaskStart(c) ==
    /\ main \notin Ended /\ ~poolStopped
    /\ conn[c] = "queued" /\ Cardinality(Tasks) < PoolThreads
    /\ conn' = [conn EXCEPT ![c] = "running"]
    /\ UNCHANGED <<main, stopped, threadVars, aliveVars, history>>

(* The process goes on, or crashes if an object was used that is no more. *)
GoesOn(alive) == \/ UNCHANGED main
                 \/ ~alive /\ main' = "terminated"

(* response_handler: the session writes to its socket. *)
TaskRespond(c) ==
    /\ main \notin Ended
    /\ conn[c] = "running"
    /\ conn' = [conn EXCEPT ![c] = "responded"]
    /\ deadSession' = (deadSession \/ ~serverAlive)
    /\ GoesOn(serverAlive)
    /\ UNCHANGED <<stopped, signalled, deadQueues, threadVars, aliveVars>>

(* The end of the task: active_jobs and completed_jobs, with their mutexes. *)
TaskEnd(c) ==
    /\ main \notin Ended
    /\ conn[c] = "responded"
    /\ conn' = [conn EXCEPT ![c] = "done"]
    /\ deadQueues' = (deadQueues \/ ~queuesAlive)
    /\ GoesOn(queuesAlive)
    /\ UNCHANGED <<stopped, signalled, deadSession, threadVars, aliveVars>>

-----------------------------------------------------------------------------
(* The process is gone. *)
Gone == main \in Ended /\ UNCHANGED vars

MainStep ==
    \/ Spawn \/ SpawnFails \/ MainRun \/ MainReturns
    \/ DestroyServer \/ StopPool \/ DestroyQueues \/ JoinPool

Next ==
    \/ MainStep
    \/ \E c \in Clients :
         \/ OnAccept(c) \/ Request(c) \/ StopRequest(c)
         \/ TaskStart(c) \/ TaskRespond(c) \/ TaskEnd(c)
    \/ OnAcceptGone \/ OnAcceptError \/ AcceptAgain
    \/ OnSignal
    \/ ThreadReturns
    \/ Gone

Spec == Init /\ [][Next]_vars

(* Every thread keeps running, sleeps end, and the io_context takes its    *)
(* handlers in the order they became ready (strong fairness of Request).   *)
Fairness ==
    /\ WF_vars(MainStep)
    /\ WF_vars(ThreadReturns)
    /\ WF_vars(AcceptAgain)
    /\ \A c \in Clients :
         /\ SF_vars(Request(c))
         /\ WF_vars(TaskStart(c)) /\ WF_vars(TaskRespond(c))
         /\ WF_vars(TaskEnd(c))

FairSpec == Spec /\ Fairness

-----------------------------------------------------------------------------
(* Properties. *)

(* start returns, and the io_context is destroyed, only when no thread is  *)
(* inside run () any more.                                                 *)
IoThreadsGoneFirst == ~serverAlive => running = 0 /\ sleeper = "none"

(* A task that has started is not cut off by an orderly shutdown: it runs  *)
(* to its end, with its answer given, unless a stop request or a crash     *)
(* ends the process.                                                       *)
StartedTasksFinish ==
    \A c \in Clients :
        (conn[c] = "running") ~>
            (conn[c] = "done" \/ main \in {"exited", "terminated"})

(* A handled signal ends the process, whatever the threads are doing: a    *)
(* sleep in on_accept, tasks under way, threads not yet spawned, or none   *)
(* to be had any more.                                                     *)
ShutdownEnds == signalled ~> main \in Ended

(* A request on an accepted connection reaches the pool unless the server  *)
(* stops, even when errors of accept put the only I/O thread to sleep.     *)
RequestHandled ==
    \A c \in Clients :
        (conn[c] = "connected") ~>
            (conn[c] # "connected" \/ stopped \/ main \in Ended)

(* webserver.hpp:1003: SIGINT and SIGTERM "perform a clean shutdown": no   *)
(* task writes to a session whose io_context is destroyed, and none uses   *)
(* the queues and mutexes of a work handler that is being destroyed.       *)
CleanShutdown == signalled => ~deadSession /\ ~deadQueues
=============================================================================
