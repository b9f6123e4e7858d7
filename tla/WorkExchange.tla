---------------------------- MODULE WorkExchange ----------------------------
(***************************************************************************)
(* What the work handler promises, without threads, tasks, devices or      *)
(* locks: an exchange to which requests bring jobs and from which they     *)
(* take work.  A request that is let in leaves its job with the exchange   *)
(* and waits; it then claims the job whose turn it is, which need not be   *)
(* its own, and is answered with the work of that job.  Whoever withdraws  *)
(* jobs leaves some request without one.  Every request is answered once.  *)
(***************************************************************************)
EXTENDS Naturals, Sequences, FiniteSets

CONSTANTS
    Requests,
    Hashes, NoHash,
    Levels,          \* the priorities a job can have
    Limit,           \* jobs the exchange holds
    Workers,         \* requests that may work at the same time
    AllowWithdrawAll,
    None

VARIABLES
    phase,           \* "new", "asked", "waiting", "working" or "answered"
    hash, pri, turn, \* what a request asks for, and when it came
    jobs,            \* the jobs nobody has claimed
    claim,           \* the job a working request has claimed
    answers          \* the responses each request was given

vars == <<phase, hash, pri, turn, jobs, claim, answers>>

Init ==
    /\ phase = [r \in Requests |-> "new"]
    /\ hash = [r \in Requests |-> NoHash]
    /\ pri = [r \in Requests |-> 0]
    /\ turn = [r \in Requests |-> 0]
    /\ jobs = {}
    /\ claim = [r \in Requests |-> None]
    /\ answers = [r \in Requests |-> <<>>]

Goes(r, to) == phase' = [phase EXCEPT ![r] = to]

(* The one answer of a request. *)
Answered(r, kind, j) ==
    /\ Goes(r, "answered")
    /\ claim' = [claim EXCEPT ![r] = None]
    /\ answers' = [answers EXCEPT ![r] = <<[kind |-> kind, job |-> j]>>]

-----------------------------------------------------------------------------
Ask(r) ==
    /\ phase[r] = "new"
    /\ Goes(r, "asked")
    /\ \E h \in Hashes \cup {NoHash} : hash' = [hash EXCEPT ![r] = h]
    /\ \E p \in Levels : pri' = [pri EXCEPT ![r] = p]
    /\ turn' = [turn EXCEPT
                 ![r] = Cardinality({k \in Requests : phase[k] # "new"})]
    /\ UNCHANGED <<jobs, claim, answers>>

Full == Cardinality(jobs) >= Limit

(* Variant of Deposit: the request is let in, its job is lost. *)
DepositNothing(r) ==
    /\ phase[r] = "asked"
    /\ hash[r] # NoHash /\ ~Full
    /\ Goes(r, "waiting")
    /\ UNCHANGED <<hash, pri, turn, jobs, claim, answers>>

(* The job is left with the exchange. *)
Deposit(r) ==
    /\ phase[r] = "asked"
    /\ hash[r] # NoHash /\ ~Full
    /\ Goes(r, "waiting")
    /\ jobs' = jobs \cup {r}
    /\ UNCHANGED <<hash, pri, turn, claim, answers>>

(* A request is refused for one of two reasons only. *)
Refuse(r) ==
    /\ phase[r] = "asked"
    /\ \/ hash[r] = NoHash /\ Answered(r, "malformed", None)
       \/ hash[r] # NoHash /\ Full /\ Answered(r, "limit", None)
    /\ UNCHANGED <<hash, pri, turn, jobs>>

(* Jobs are withdrawn: those of one hash, or all of them. *)
Withdraw(gone) ==
    /\ gone # {}
    /\ jobs' = jobs \ gone
    /\ UNCHANGED <<phase, hash, pri, turn, claim, answers>>

(* Higher priorities first, and in the order of asking within one. *)
IsNext(j) ==
    \A k \in jobs \ {j} :
        \/ pri[j] > pri[k]
        \/ pri[j] = pri[k] /\ turn[j] < turn[k]

Working == {r \in Requests : phase[r] = "working"}

(* A waiting request claims the next job. *)
Claim(r, j) ==
    /\ phase[r] = "waiting"
    /\ Cardinality(Working) < Workers
    /\ j \in jobs /\ IsNext(j)
    /\ jobs' = jobs \ {j}
    /\ claim' = [claim EXCEPT ![r] = j]
    /\ Goes(r, "working")
    /\ UNCHANGED <<hash, pri, turn, answers>>

(* The work of the claimed job is delivered. *)
Deliver(r) ==
    /\ phase[r] = "working"
    /\ Answered(r, "work", claim[r])
    /\ UNCHANGED <<hash, pri, turn, jobs>>

(* The claimed job could not be worked on; it is lost. *)
Abandon(r) ==
    /\ phase[r] = "working"
    /\ \E kind \in {"nodevice", "fault"} : Answered(r, kind, None)
    /\ UNCHANGED <<hash, pri, turn, jobs>>

(* Nothing is left for a waiting request. *)
TurnAway(r) ==
    /\ phase[r] = "waiting"
    /\ jobs = {}
    /\ Answered(r, "nojobs", None)
    /\ UNCHANGED <<hash, pri, turn, jobs>>

-----------------------------------------------------------------------------
Serve(r) ==
    \/ Deposit(r) \/ Refuse(r)
    \/ \E j \in jobs : Claim(r, j)
    \/ Deliver(r) \/ TurnAway(r)

WithdrawHash(h) == Withdraw({j \in jobs : hash[j] = h})

WithdrawAll == AllowWithdrawAll /\ Withdraw(jobs)

Next ==
    \/ \E r \in Requests : Ask(r) \/ Serve(r) \/ Abandon(r)
    \/ \E h \in Hashes : WithdrawHash(h)
    \/ WithdrawAll

Spec == Init /\ [][Next]_vars
=============================================================================
