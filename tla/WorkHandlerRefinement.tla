----------------------- MODULE WorkHandlerRefinement -----------------------
(***************************************************************************)
(* WorkHandler implements WorkExchange.  A request works from the moment   *)
(* its task has popped a job until it is answered; pushing and posting,    *)
(* the search for a device, the books on active and completed jobs and the *)
(* mutexes are steps the exchange does not see.                            *)
(***************************************************************************)
EXTENDS WorkHandler

(* Thread t runs r's task, which has popped a job and not answered yet. *)
WorksFor(t, r) == task[t] = r /\ Owning(t) /\ answers[r] = <<>>

IsWorking(r) == \E t \in Threads : WorksFor(t, r)

ExchangePhase(r) ==
    CASE stage[r] = "new"    -> "new"
      [] answers[r] # <<>>   -> "answered"
      [] stage[r] = "parsed" -> "asked"
      [] OTHER -> IF IsWorking(r) THEN "working" ELSE "waiting"

ExchangeClaim(r) ==
    IF IsWorking(r) THEN job[CHOOSE t \in Threads : WorksFor(t, r)] ELSE None

Exchange == INSTANCE WorkExchange WITH
    Levels <- IF AllowPriority THEN Priorities ELSE {0},
    Limit <- RequestLimit,
    Workers <- NumDevices,
    AllowWithdrawAll <- AllowControl,
    phase <- [r \in Requests |-> ExchangePhase(r)],
    turn <- arrival,
    claim <- [r \in Requests |-> ExchangeClaim(r)]

(* handle_request_async promises the exchange: whichever threads race,     *)
(* every step of the work handler is a step of the exchange or none at     *)
(* all.  So no answer is given twice, no job is worked on twice or out of  *)
(* turn, none leaves the queue but to be worked on or withdrawn, and a     *)
(* request is refused or turned away only with a full or an empty queue.   *)
ImplementsExchange == Exchange!Spec
=============================================================================
