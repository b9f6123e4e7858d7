----------------------------- MODULE PowSearch -----------------------------
(***************************************************************************)
(* One generation of work: the difficulty a request asks for, the search   *)
(* loop of the pool task in work_handler.cpp, the u128 it leaves in        *)
(* job.result.work (util.hpp), the work, as a number, that the response    *)
(* prints and the multiplier it reports, as a fraction <<num, den>>.       *)
(*                                                                         *)
(* A request gives its difficulty as text, most significant digit first (a *)
(* byte is one digit here, and ByteMod stands for a character that is no   *)
(* digit), as a multiplier of the base difficulty, as both or not at all.  *)
(*                                                                         *)
(* Blake2b is external: digest[w] is the first word of the hash of         *)
(* work value w and the root, as a little-endian number (hash_le).         *)
(***************************************************************************)
EXTENDS Naturals, Sequences

CONSTANTS
    ByteMod,         \* 256
    WordBytes,       \* 8: a uint64_t
    BigBytes,        \* 16: a u128
    BaseDifficulty,  \* config.work.base_difficulty
    Requests,        \* [given, text, num, den]; num = 0 for no multiplier
    Digests,         \* the hash functions to search
    MaxIterations,   \* max_iterations, 10^10 in the code
    RestartEvery,    \* 10^8 in the code
    MockDelays,      \* values of config.work.mock_work_generation_delay
    MockWork,        \* u128 ("2feaeaa000000000")
    MockDifficulty   \* u128 ("0x2ffee0000000000")

(* The numbers of n bytes are those below Power[n]. *)
Power[n \in 0..BigBytes] == IF n = 0 THEN 1 ELSE Power[n - 1] * ByteMod

WordMod == Power[WordBytes]
MaxWord == WordMod - 1       \* UINT64_MAX
Words   == 0..MaxWord

ASSUME SizesAssumption ==
    /\ ByteMod \in Nat \ {0, 1}
    /\ WordBytes \in Nat \ {0}
    /\ BigBytes \in Nat /\ BigBytes >= WordBytes
    /\ MaxIterations \in Nat
    /\ RestartEvery \in Nat \ {0}
    /\ MockDelays \subseteq Nat

ASSUME InputsAssumption ==
    /\ BaseDifficulty \in 0..(Power[BigBytes] - 1)
    /\ \A r \in Requests :
          /\ r.given \in BOOLEAN /\ r.num \in Nat /\ r.den \in Nat \ {0}
          /\ \A i \in 1..Len(r.text) : r.text[i] \in 0..ByteMod
    /\ \A f \in Digests : f \in [Words -> Words]

-----------------------------------------------------------------------------
(* bytes[0], bytes[1], ... of a number; sequences count from 1. *)

(* memcpy of a uint64_t on a little-endian machine. *)
LittleEndian(n, size) == [i \in 1..size |-> (n \div Power[i - 1]) % ByteMod]

(* The number whose digits, most significant first, are s. *)
BigEndianNumber(s) ==
    LET upTo[i \in 0..Len(s)] ==
            IF i = 0 THEN 0 ELSE upTo[i - 1] * ByteMod + s[i]
    IN  upTo[Len(s)]

Reversed(s) == [i \in 1..Len(s) |-> s[Len(s) + 1 - i]]

(* Variant of ByteSwap: the bytes are left as they are. *)
ByteSwapNot(n) == n

(* The masks and shifts that reverse the bytes of hash_le. *)
ByteSwap(n) == BigEndianNumber(LittleEndian(n, WordBytes))

(* bigint::set: the least significant byte goes last. *)
Set(n) == Reversed(LittleEndian(n, BigBytes))

(* from_hex throws for an empty or too long text and for other characters. *)
IsHex(text) ==
    /\ Len(text) \in 1..BigBytes
    /\ \A i \in 1..Len(text) : text[i] < ByteMod

FromHex(text) == Set(BigEndianNumber(text))

Product(num, den) == (BaseDifficulty * num) \div den

(* Variant of FromMultiplier: the multiplier is made an integer. *)
FromMultiplierWhole(num, den) ==
    (BaseDifficulty * (num \div den)) % Power[BigBytes]

(* The product, truncated to an integer; of one that does not fit a u128   *)
(* the low digits stay.                                                    *)
FromMultiplier(num, den) ==
    Product(num, den) % Power[BigBytes]

(* By a base of 0 this is infinity. *)
ToMultiplier(d) == <<d, BaseDifficulty>>

(* A multiplier goes before the text, the text before the base. *)
RequestedDifficulty(r) ==
    IF r.num > 0 THEN FromMultiplier(r.num, r.den)
    ELSE IF r.given THEN BigEndianNumber(FromHex(r.text))
    ELSE BaseDifficulty

(* job.result.work: the first 8 bytes are work_value, the others zero. *)
WorkBytes(w) ==
    [i \in 1..BigBytes |->
        IF i <= WordBytes THEN LittleEndian(w, WordBytes)[i] ELSE 0]

(* Variant of FormatWork: bytes 0 to 7 are printed upwards. *)
FormatWorkUpwards(bytes) ==
    BigEndianNumber([i \in 1..WordBytes |-> bytes[i]])

(* "Format work as 8 bytes": bytes[7] down to bytes[0], as a number. *)
FormatWork(bytes) ==
    BigEndianNumber([i \in 1..WordBytes |-> bytes[WordBytes + 1 - i]])

(* Only the low 64 bits of the requested difficulty are used. *)
BaseDiff(d) == d % WordMod

Threshold(d) == IF BaseDiff(d) > 0 THEN MaxWord \div BaseDiff(d) ELSE 0

(* The difficulty a reversed hash amounts to. *)
ActualDiff(h) == IF h > 0 THEN MaxWord \div h ELSE MaxWord

-----------------------------------------------------------------------------
VARIABLES
    delay,           \* config.work.mock_work_generation_delay
    request,
    digest, target,  \* the root's hash function and job.request.difficulty
    pc,
    work,            \* work_value
    iterations,
    found,
    resultWork,      \* job.result.work.bytes
    resultDiff,      \* job.result.difficulty
    resultMult,      \* job.result.multiplier
    response         \* the number in the response's "work" field

vars == <<delay, request, digest, target, pc, work, iterations, found,
          resultWork, resultDiff, resultMult, response>>

Init ==
    /\ delay \in MockDelays
    /\ digest \in Digests
    /\ request \in Requests
    /\ target = 0
    /\ pc = "parse"
    /\ work \in Words             \* dis (gen)
    /\ iterations = 0
    /\ found = FALSE
    /\ resultWork = Set(0)
    /\ resultDiff = 0
    /\ resultMult = <<1, 1>>
    /\ response = 0

(* handle_request_async: the difficulty of the job, or an error. *)
Parse ==
    /\ pc = "parse"
    /\ IF request.given /\ ~IsHex(request.text)
         THEN pc' = "refused" /\ UNCHANGED target
         ELSE /\ target' = RequestedDifficulty(request)
              /\ pc' = IF delay = 0 THEN "search" ELSE "mock"
    /\ UNCHANGED <<delay, request, digest, work, iterations, found, resultWork,
                   resultDiff, resultMult, response>>

Reverse(w) == ByteSwap(digest[w])

Successor(w) == (w + 1) % WordMod

(* Variant of Advance: the counter is reset with the work value. *)
AdvanceForever ==
    /\ iterations' = (iterations + 1) % RestartEvery
    /\ IF iterations' = 0
         THEN work' \in Words
         ELSE work' = Successor(work)

(* work_value++ wraps; now and then it starts again from a random value. *)
Advance ==
    /\ iterations' = iterations + 1
    /\ IF iterations' % RestartEvery = 0
         THEN work' \in Words
         ELSE work' = Successor(work)

(* One turn of the loop. *)
Try ==
    /\ pc = "search"
    /\ ~found
    /\ iterations < MaxIterations
    /\ IF Reverse(work) < Threshold(target)
         THEN found' = TRUE /\ UNCHANGED <<work, iterations>>
         ELSE Advance /\ UNCHANGED found
    /\ UNCHANGED <<delay, request, digest, target, pc, resultWork, resultDiff,
                   resultMult, response>>

(* The loop is left: the result is filled in and the response written. *)
Finish ==
    /\ pc = "search"
    /\ found \/ ~(iterations < MaxIterations)
    /\ pc' = "done"
    /\ resultWork' = WorkBytes(work)
    /\ resultDiff' = IF found THEN ActualDiff(Reverse(work)) ELSE target
    /\ resultMult' = IF found THEN ToMultiplier(resultDiff') ELSE <<1, 1>>
    /\ response' = FormatWork(resultWork')
    /\ UNCHANGED <<delay, request, digest, target, work, iterations, found>>

(* The mock branch, for testing. *)
Mock ==
    /\ pc = "mock"
    /\ pc' = "done"
    /\ resultWork' = Set(MockWork)
    /\ resultDiff' = MockDifficulty
    /\ resultMult' = <<13847, 10000>>
    /\ response' = FormatWork(resultWork')
    /\ UNCHANGED <<delay, request, digest, target, work, iterations, found>>

Done == pc \in {"done", "refused"} /\ UNCHANGED vars

Next == Parse \/ Try \/ Finish \/ Mock \/ Done

Spec == Init /\ [][Next]_vars

(* The pool thread that searches keeps running. *)
FairSpec == Spec /\ WF_vars(Parse \/ Try \/ Finish \/ Mock)

-----------------------------------------------------------------------------
(* Properties. *)

(* The hash a client sees: bytes of the digest read most significant       *)
(* first, the same 64 bits whatever the machine's byte order.              *)
ClientHash(w) ==
    LET bytes == LittleEndian(digest[w], WordBytes)
    IN  BigEndianNumber(bytes)

(* work_handler.cpp:280: "Work is valid if: reversed_hash < threshold".    *)
(* The work printed in the response of a successful search is valid for    *)
(* the request (its low 64 bits), with the difficulty that is reported.    *)
FoundWorkIsValid ==
    pc = "done" /\ found =>
        /\ ClientHash(response) * BaseDiff(target) <= MaxWord
        /\ BaseDiff(target) # 0
        /\ resultDiff >= BaseDiff(target)
        /\ resultDiff = ActualDiff(ClientHash(response))

(* The difficulty asked for, before it is made a u128, fits 64 bits. *)
FitsWord ==
    IF request.num > 0 THEN Product(request.num, request.den) < WordMod
                       ELSE target < WordMod

(* What the client asked for is what it gets, if it fits 64 bits: found    *)
(* work has at least the difficulty spelled in the request, or, up to the  *)
(* truncation of the difficulty to an integer, at least its multiplier,    *)
(* by the multiplier the response reports.                                 *)
WorkMeetsRequest ==
    pc = "done" /\ found /\ FitsWord =>
        IF request.num > 0
          THEN (resultMult[1] + 1) * request.den > request.num * resultMult[2]
          ELSE request.given => resultMult[1] >= BigEndianNumber(request.text)

(* The search ends, whatever the difficulty, and a response is written.    *)
SearchEnds == <>(pc \in {"done", "refused"})

(* work_handler.cpp:279-281: the threshold is (2^64 - 1) / base_difficulty *)
(* of the request, so found work meets the difficulty requested, all 128   *)
(* bits of it (work.cpp:113 exercises difficulties up to 2^80).            *)
MeetsWholeDifficulty ==
    pc = "done" /\ found => resultDiff >= target
=============================================================================
