---------------------------- MODULE MCPowSearch ----------------------------
(* Instances of PowSearch for TLC: two-digit words.                        *)
EXTENDS PowSearch

(* Every affine map of the words, permutations and constants among them.   *)
AffineDigests ==
    {[w \in Words |-> (a * w + b) % WordMod] : a \in 0..4, b \in Words}

Text(digits) == [given |-> TRUE, text |-> digits, num |-> 0, den |-> 1]
Multiplier(n, d) == [given |-> FALSE, text |-> <<>>, num |-> n, den |-> d]

AllDigits(n) == [1..n -> 0..(ByteMod - 1)]
WholeTexts == {Text(t) : t \in AllDigits(BigBytes)}
OtherTexts ==
    {Text(t) : t \in AllDigits(1) \cup AllDigits(0)
                      \cup {<<1, ByteMod>>, <<0, 0, 0, 1>>}}
Multipliers ==
    {Multiplier(n, d) : n \in {0, 1, 3, 15}, d \in {1, 2, 8}}
Both == {[given |-> TRUE, text |-> <<1>>, num |-> 2, den |-> 1]}

AllRequests == WholeTexts \cup OtherTexts \cup Multipliers \cup Both
=============================================================================
