----------------------- MODULE ServerLifecycleProofs -----------------------
(***************************************************************************)
(* Machine-checked proof about ServerLifecycle, for any number of threads, *)
(* clients and pool threads: the io_context outlives every thread that     *)
(* runs it, the one asleep in on_accept included.                          *)
(***************************************************************************)
EXTENDS ServerLifecycle, TLAPS

(* A sleeping thread is one inside run (): a spawned one, not yet counted  *)
(* out, or the main thread, which leaves run () only when it wakes.        *)
SleeperInside ==
    /\ sleeper \in {"none", "main", "spawned"}
    /\ sleeper = "spawned" => running > 0
    /\ sleeper = "main" => main \in {"run"} \cup Ended

(* Past the destructor of ws the main thread is past start, too. *)
PastStart ==
    ~serverAlive => main \notin {"spawn", "run", "join"}

ThreadInv ==
    /\ running \in Nat /\ left \in Nat /\ spawned \in Nat
    /\ running <= spawned
    /\ SleeperInside
    /\ PastStart
    /\ IoThreadsGoneFirst

LEMMA ThreadInit == Init => ThreadInv
<1> SUFFICES ASSUME Init PROVE ThreadInv
  OBVIOUS
<1>1. running = 0 /\ spawned = 0 /\ sleeper = "none" /\ serverAlive
  BY DEF Init
<1>2. left \in Nat
  <2>1. requested \in Nat \ {0} /\ requested < SizeMod /\ SizeMod \in Nat
    BY LifecycleAssumption DEF Init
  <2>2. left = ((requested - 1) + SizeMod - 1) % SizeMod
    BY DEF Init, LoopStart, Capacity
  <2> QED
    BY <2>1, <2>2
<1> QED
  BY <1>1, <1>2 DEF ThreadInv, SleeperInside, PastStart, IoThreadsGoneFirst

(* A step that starts, ends or puts to sleep no thread: main only moves on *)
(* from where it is, and the server stays as it is.                        *)
LEMMA ThreadsKept ==
  ASSUME ThreadInv, UNCHANGED <<left, running, spawned, sleeper, serverAlive>>,
         main' = main \/ main' \in Ended
                      \/ (main = "spawn" /\ main' = "run")
                      \/ (main = "run" /\ main' = "join" /\ sleeper # "main")
                      \/ (main \in {"destroyed", "poolStopped", "poolJoin"}
                          /\ main' \in {"poolStopped", "poolJoin", "returned"})
  PROVE  ThreadInv'
<1>1. SleeperInside'
  BY DEF ThreadInv, SleeperInside, Ended
<1>2. PastStart'
  BY DEF ThreadInv, PastStart, Ended
<1> QED
  BY <1>1, <1>2 DEF ThreadInv, IoThreadsGoneFirst

(* An exception that leaves start destroys the server only if no thread    *)
(* was spawned, and finds the main thread awake.                           *)
LEMMA ThreadsUnwound ==
  ASSUME ThreadInv, Unwind, sleeper = "none",
         UNCHANGED <<left, running, spawned, sleeper>>
  PROVE  ThreadInv'
<1>1. CASE spawned = 0
  <2>1. main' = "destroyed" /\ running = 0
    BY <1>1 DEF Unwind, ThreadInv
  <2> QED
    BY <2>1 DEF ThreadInv, SleeperInside, PastStart, IoThreadsGoneFirst
<1>2. CASE spawned # 0
  BY <1>2, ThreadsKept DEF Unwind, Ended
<1> QED
  BY <1>1, <1>2

LEMMA ThreadStep == ThreadInv /\ [Next]_vars => ThreadInv'
<1> SUFFICES ASSUME ThreadInv, [Next]_vars PROVE ThreadInv'
  OBVIOUS
<1> USE DEF threadVars, aliveVars, history
<1>0. running \in Nat /\ left \in Nat /\ spawned \in Nat /\ running <= spawned
  BY DEF ThreadInv
<1>1. CASE Spawn
  <2>1. main = "spawn" /\ left > 0 /\ left' = left - 1 /\ running' = running + 1
        /\ spawned' = spawned + 1 /\ UNCHANGED <<main, sleeper, serverAlive>>
    BY <1>1 DEF Spawn
  <2>2. serverAlive
    BY <2>1 DEF ThreadInv, PastStart
  <2>3. running' \in Nat /\ running' > 0 /\ left' \in Nat /\ spawned' \in Nat
        /\ running' <= spawned'
    BY <1>0, <2>1
  <2> QED
    BY <2>1, <2>2, <2>3 DEF ThreadInv, SleeperInside, PastStart, IoThreadsGoneFirst
<1>2. CASE MainRun \/ MainReturns \/ StopPool \/ DestroyQueues \/ JoinPool
  BY <1>2, ThreadsKept DEF MainRun, MainReturns, StopPool, DestroyQueues, JoinPool, Ended
<1>3. CASE DestroyServer
  <2>1. main = "join" /\ running = 0 /\ main' = "destroyed" /\ ~serverAlive'
        /\ UNCHANGED <<left, running, spawned, sleeper>>
    BY <1>3 DEF DestroyServer, Joined
  <2>2. sleeper = "none"
    <3>1. ~(running > 0) /\ main \notin {"run"} \cup Ended
      BY <2>1 DEF Ended
    <3> QED
      BY <3>1 DEF ThreadInv, SleeperInside
  <2> QED
    BY <1>0, <2>1, <2>2 DEF ThreadInv, SleeperInside, PastStart, IoThreadsGoneFirst
<1>4. CASE OnAcceptError
  <2>1. CanHandle /\ (\/ sleeper' = "main" /\ main = "run"
                      \/ sleeper' = "spawned" /\ running > 0)
        /\ UNCHANGED <<main, left, running, spawned, serverAlive>>
    BY <1>4 DEF OnAcceptError
  <2>2. serverAlive
    <3>1. running > 0 \/ main = "run"
      BY <2>1
    <3> QED
      BY <3>1 DEF ThreadInv, PastStart, IoThreadsGoneFirst
  <2> QED
    BY <1>0, <2>1, <2>2 DEF ThreadInv, SleeperInside, PastStart, IoThreadsGoneFirst
<1>5. CASE AcceptAgain
  <2>1. sleeper' = "none" /\ UNCHANGED <<main, left, running, spawned, serverAlive>>
    BY <1>5 DEF AcceptAgain, Awake
  <2> QED
    BY <1>0, <2>1 DEF ThreadInv, SleeperInside, PastStart, IoThreadsGoneFirst
<1>6. CASE ThreadReturns
  <2>1. FreeThread /\ running' = running - 1
        /\ UNCHANGED <<main, left, spawned, sleeper, serverAlive>>
    BY <1>6 DEF ThreadReturns
  <2>2. running > 0 /\ (sleeper = "spawned" => running > 1)
    BY <1>0, <2>1 DEF FreeThread
  <2>3. running' \in Nat /\ (sleeper = "spawned" => running' > 0)
        /\ running' <= spawned
    BY <1>0, <2>1, <2>2
  <2>4. serverAlive
    BY <2>2 DEF ThreadInv, IoThreadsGoneFirst
  <2> QED
    BY <1>0, <2>1, <2>3, <2>4 DEF ThreadInv, SleeperInside, PastStart, IoThreadsGoneFirst
<1>7. ASSUME NEW c \in Clients, OnAccept(c) \/ Request(c) \/ StopRequest(c)
      PROVE  ThreadInv'
  BY <1>7, ThreadsKept DEF OnAccept, Request, StopRequest, Ended
<1>8. ASSUME NEW c \in Clients, TaskStart(c) \/ TaskRespond(c) \/ TaskEnd(c)
      PROVE  ThreadInv'
  BY <1>8, ThreadsKept DEF TaskStart, TaskRespond, TaskEnd, GoesOn, Ended
<1>9. CASE OnSignal
  BY <1>9, ThreadsKept DEF OnSignal, Ended
<1>10. CASE Gone \/ UNCHANGED vars
  BY <1>10, ThreadsKept DEF Gone, vars
<1>11. CASE SpawnFails
  <2>1. main = "spawn" /\ Unwind /\ UNCHANGED <<left, running, spawned, sleeper>>
    BY <1>11 DEF SpawnFails
  <2>2. CASE sleeper = "none"
    BY <2>1, <2>2, ThreadsUnwound
  <2>3. CASE sleeper # "none"
    <3>1. sleeper = "spawned" /\ running > 0
      BY <2>1, <2>3 DEF ThreadInv, SleeperInside, Ended
    <3>2. main' = "terminated" /\ UNCHANGED serverAlive
      BY <1>0, <2>1, <3>1 DEF Unwind
    <3> QED
      BY <2>1, <3>2, ThreadsKept DEF Ended
  <2> QED
    BY <2>2, <2>3
<1>12. CASE OnAcceptGone
  BY <1>12, ThreadsUnwound DEF OnAcceptGone
<1> QED
  BY <1>1, <1>2, <1>3, <1>4, <1>5, <1>6, <1>7, <1>8, <1>9, <1>10, <1>11, <1>12
     DEF Next, MainStep

(* When ws and its io_context are destroyed no thread is inside run () or  *)
(* asleep in on_accept (IoThreadsGoneFirst), whatever the thread count,    *)
(* and wherever a signal, a stop request or a crash finds the threads.     *)
THEOREM IoThreadsAlwaysGoneFirst == Spec => []IoThreadsGoneFirst
<1>1. ThreadInv => IoThreadsGoneFirst
  BY DEF ThreadInv
<1> QED
  BY <1>1, ThreadInit, ThreadStep, PTL DEF Spec
=============================================================================
