-------------------------- MODULE PowSearchProofs --------------------------
(***************************************************************************)
(* Machine-checked proofs about PowSearch, for every size of a byte, a     *)
(* word and a u128, every hash function and every request: the work in the *)
(* response is the work that was found, it is valid, and it has at least   *)
(* the difficulty the client asked for.                                    *)
(***************************************************************************)
EXTENDS PowSearch, WellFoundedInduction, TLAPS

(* Induction over the numbers, by the least element of a set of them. *)
LEMMA LeastElement ==
  ASSUME NEW S, S \subseteq Nat, S # {}
  PROVE  \E m \in S : \A k \in S : m <= k
<1> DEFINE Less == {p \in Nat \X Nat : p[1] < p[2]}
<1>1. IsWellFoundedOn(Less, Nat)
  BY NatLessThanWellFounded DEF OpToRel
<1>2. \E x \in S : \A y \in S : ~ (<<y, x>> \in Less)
  <2> HIDE DEF Less
  <2> QED
    BY <1>1, WFMin
<1>3. ASSUME NEW x \in S, NEW y \in S, ~ (<<y, x>> \in Less) PROVE x <= y
  BY <1>3
<1> QED
  BY <1>2, <1>3

(* A set that holds 0 and with each number the next one holds them all.    *)
LEMMA UpwardInduction ==
  ASSUME NEW S, NEW n \in Nat, 0 \in S, \A i \in 0..(n - 1) : i \in S => i + 1 \in S
  PROVE  0..n \subseteq S
<1>1. SUFFICES ASSUME (0..n) \ S # {} PROVE FALSE
  OBVIOUS
<1>2. PICK m \in (0..n) \ S : \A k \in (0..n) \ S : m <= k
  <2>1. (0..n) \ S \subseteq Nat
    OBVIOUS
  <2> QED
    BY <1>1, <2>1, LeastElement
<1>3. m - 1 \in 0..(n - 1) /\ m - 1 \in S
  BY <1>2
<1> QED
  BY <1>2, <1>3

(* f[i] is the number of the first i of n digits c, after base: Horner's   *)
(* scheme, which exists for every row of digits.                           *)
Horner(f, n, base, c) ==
    /\ f \in [0..n -> Nat]
    /\ f[0] = base
    /\ \A i \in 1..n : f[i] = f[i - 1] * ByteMod + c[i]

LEMMA HornerExists ==
  ASSUME NEW n \in Nat, NEW base \in Nat, NEW c, \A i \in 1..n : c[i] \in Nat
  PROVE  \E f : Horner(f, n, base, c)
<1> DEFINE S == {m \in Nat : \E f : Horner(f, m, base, c)}
<1>1. 0 \in S
  <2>1. Horner([i \in 0..0 |-> base], 0, base, c)
    BY DEF Horner
  <2> QED
    BY <2>1
<1>2. ASSUME NEW m \in 0..(n - 1), m \in S PROVE m + 1 \in S
  <2>1. PICK f : Horner(f, m, base, c)
    BY <1>2
  <2> DEFINE next == f[m] * ByteMod + c[m + 1]
  <2> DEFINE g == [i \in 0..(m + 1) |-> IF i <= m THEN f[i] ELSE next]
  <2>2. f \in [0..m -> Nat] /\ next \in Nat
    <3>1. f \in [0..m -> Nat] /\ c[m + 1] \in Nat
      BY <2>1 DEF Horner
    <3>2. f[m] * ByteMod \in Nat
      BY <3>1, SizesAssumption
    <3> QED
      BY <3>1, <3>2
  <2>3. g \in [0..(m + 1) -> Nat]
    <3> HIDE DEF next
    <3> QED
      BY <2>2
  <2>4. (\A i \in 0..m : g[i] = f[i]) /\ g[m + 1] = next
    <3> HIDE DEF next
    <3> QED
      OBVIOUS
  <2>5. \A i \in 1..(m + 1) : i \in 1..m \/ i = m + 1
    OBVIOUS
  <2>6. (m + 1) - 1 = m /\ \A i \in 1..m : i \in 0..m /\ i - 1 \in 0..m
    OBVIOUS
  <2>7. 0 \in 0..m /\ m \in 0..m
    OBVIOUS
  <2> HIDE DEF g
  <2>8. Horner(g, m + 1, base, c)
    BY <2>1, <2>3, <2>4, <2>5, <2>6, <2>7 DEF Horner
  <2> QED
    BY <2>8
<1>3. 0..n \subseteq S
  <2> HIDE DEF S
  <2> QED
    BY <1>1, <1>2, UpwardInduction
<1>4. n \in S
  <2> HIDE DEF S
  <2> QED
    BY <1>3
<1> QED
  BY <1>4

(* The powers of a byte. *)
LEMMA PowerDef ==
  /\ Power \in [0..BigBytes -> Nat]
  /\ Power[0] = 1
  /\ \A i \in 1..BigBytes : Power[i] = Power[i - 1] * ByteMod
<1> DEFINE Body(g) == [n \in 0..BigBytes |-> IF n = 0 THEN 1 ELSE g[n - 1] * ByteMod]
<1>1. PICK f \in [0..BigBytes -> Nat] :
        f[0] = 1 /\ \A i \in 1..BigBytes : f[i] = f[i - 1] * ByteMod
  <2> DEFINE zeros == [i \in 1..BigBytes |-> 0]
  <2>1. BigBytes \in Nat /\ \A i \in 1..BigBytes : zeros[i] = 0
    BY SizesAssumption
  <2> HIDE DEF zeros
  <2>2. PICK f : Horner(f, BigBytes, 1, zeros)
    BY <2>1, HornerExists
  <2>3. ASSUME NEW i \in 1..BigBytes PROVE f[i] = f[i - 1] * ByteMod
    <3>1. f[i - 1] \in Nat
      BY <2>2, SizesAssumption DEF Horner
    <3>2. f[i - 1] * ByteMod \in Nat
      BY <3>1, SizesAssumption
    <3>3. f[i] = f[i - 1] * ByteMod + zeros[i]
      BY <2>2 DEF Horner
    <3> QED
      BY <2>1, <3>2, <3>3
  <2> QED
    BY <2>2, <2>3 DEF Horner
<1>2. f = Body(f)
  <2>1. ASSUME NEW i \in 0..BigBytes PROVE f[i] = Body(f)[i]
    BY <1>1, SizesAssumption
  <2> QED
    BY <2>1
<1>3. Power = CHOOSE g : g = Body(g)
  BY DEF Power
<1>4. Power = Body(Power)
  <2> HIDE DEF Body
  <2> QED
    BY <1>2, <1>3
<1>5. /\ DOMAIN Power = 0..BigBytes
      /\ Power[0] = 1
      /\ \A i \in 1..BigBytes : Power[i] = Power[i - 1] * ByteMod
  <2> DEFINE h == Power
  <2> HIDE DEF h
  <2>1. h = [n \in 0..BigBytes |-> IF n = 0 THEN 1 ELSE h[n - 1] * ByteMod]
    BY <1>4 DEF h
  <2>2. DOMAIN h = 0..BigBytes
    BY <2>1
  <2>3. \A i \in 0..BigBytes : h[i] = IF i = 0 THEN 1 ELSE h[i - 1] * ByteMod
    BY <2>1, Zenon
  <2> QED
    BY <2>2, <2>3, SizesAssumption DEF h
<1>6. 0..BigBytes \subseteq {i \in 0..BigBytes : Power[i] \in Nat}
  <2> DEFINE S == {i \in 0..BigBytes : Power[i] \in Nat}
  <2>1. 0 \in S
    BY <1>5, SizesAssumption
  <2>2. ASSUME NEW i \in 0..(BigBytes - 1), i \in S PROVE i + 1 \in S
    BY <1>5, <2>2, SizesAssumption
  <2> HIDE DEF S
  <2>3. 0..BigBytes \subseteq S
    BY <2>1, <2>2, UpwardInduction, SizesAssumption
  <2> QED
    BY <2>3 DEF S
<1> QED
  BY <1>4, <1>5, <1>6

-----------------------------------------------------------------------------
(* Division. *)
LEMMA DivIdentity ==
  ASSUME NEW a \in Nat, NEW b \in Nat, b > 0
  PROVE  a = b * (a \div b) + (a % b)
OBVIOUS

LEMMA DivMod ==
  ASSUME NEW a \in Nat, NEW b \in Nat \ {0}
  PROVE  \E q \in Nat, r \in 0..(b - 1) : q = a \div b /\ r = a % b /\ a = q * b + r
<1>1. b \in Nat /\ b > 0
  OBVIOUS
<1>2. \A c, d \in Nat : d > 0 => c \div d \in Nat /\ c % d \in 0..(d - 1)
  OBVIOUS
<1>3. PICK q \in Nat, r \in 0..(b - 1) : q = a \div b /\ r = a % b
  BY <1>1, <1>2
<1>4. a = b * q + r
  BY <1>1, <1>3, DivIdentity
<1>5. b * q = q * b
  OBVIOUS
<1>6. a = q * b + r
  BY <1>4, <1>5
<1> QED
  BY <1>3, <1>6

LEMMA ProductBound ==
  ASSUME NEW x \in Nat, NEW y \in Nat, NEW b \in Nat, x <= y
  PROVE  x * b \in Nat /\ y * b \in Nat /\ x * b <= y * b
OBVIOUS

LEMMA DivUnique ==
  ASSUME NEW b \in Nat \ {0}, NEW q \in Nat, NEW r \in 0..(b - 1),
         NEW p \in Nat, NEW s \in 0..(b - 1), q * b + r = p * b + s
  PROVE  p = q
<1>1. ASSUME p < q PROVE FALSE
  <2>1. (p + 1) * b <= q * b
    BY <1>1, ProductBound
  <2>2. (p + 1) * b = p * b + b
    OBVIOUS
  <2>3. p * b \in Nat /\ q * b \in Nat
    BY ProductBound
  <2> QED
    BY <2>1, <2>2, <2>3
<1>2. ASSUME q < p PROVE FALSE
  <2>1. (q + 1) * b <= p * b
    BY <1>2, ProductBound
  <2>2. (q + 1) * b = q * b + b
    OBVIOUS
  <2>3. p * b \in Nat /\ q * b \in Nat
    BY ProductBound
  <2> QED
    BY <2>1, <2>2, <2>3
<1> QED
  BY <1>1, <1>2

(* Dividing twice is dividing by the product. *)
LEMMA DivTwice ==
  ASSUME NEW a \in Nat, NEW p \in Nat \ {0}, NEW b \in Nat \ {0}
  PROVE  a \div (p * b) = (a \div p) \div b
<1>1. PICK q \in Nat, r \in 0..(p - 1) : q = a \div p /\ a = q * p + r
  BY DivMod
<1>2. PICK u \in Nat, v \in 0..(b - 1) : u = q \div b /\ q = u * b + v
  BY DivMod
<1>3. p * b \in Nat \ {0}
  OBVIOUS
<1>4. a = u * (p * b) + (v * p + r)
  <2>1. q * p = (u * b + v) * p
    BY <1>2
  <2>2. (u * b + v) * p = u * (p * b) + v * p
    OBVIOUS
  <2>3. u * (p * b) \in Nat /\ v * p \in Nat /\ q * p \in Nat
    OBVIOUS
  <2> QED
    BY <1>1, <2>1, <2>2, <2>3
<1>5. v * p + r \in 0..(p * b - 1)
  <2>1. v * p <= (b - 1) * p
    BY ProductBound
  <2>2. (b - 1) * p = p * b - p
    OBVIOUS
  <2>3. v * p \in Nat
    OBVIOUS
  <2> QED
    BY <1>3, <2>1, <2>2, <2>3
<1>6. PICK c \in Nat, d \in 0..(p * b - 1) : c = a \div (p * b) /\ a = c * (p * b) + d
  BY <1>3, DivMod
<1>7. c = u
  BY <1>3, <1>4, <1>5, <1>6, DivUnique
<1> QED
  BY <1>1, <1>2, <1>6, <1>7

-----------------------------------------------------------------------------
(* Bytes and numbers. *)

(* BigEndianNumber computes the number of its digits from the left.        *)
LEMMA NumberDef ==
  ASSUME NEW s, Len(s) \in Nat, \A i \in 1..Len(s) : s[i] \in Nat
  PROVE  \E f : Horner(f, Len(s), 0, s) /\ BigEndianNumber(s) = f[Len(s)]
<1>1. PICK n \in Nat : n = Len(s)
  OBVIOUS
<1> DEFINE Body(g) == [i \in 0..n |-> IF i = 0 THEN 0 ELSE g[i - 1] * ByteMod + s[i]]
<1>2. PICK f : Horner(f, n, 0, s)
  BY <1>1, HornerExists
<1>3. f = Body(f)
  <2>1. f \in [0..n -> Nat] /\ DOMAIN f = DOMAIN Body(f)
    BY <1>2 DEF Horner
  <2>2. ASSUME NEW i \in 0..n PROVE f[i] = Body(f)[i]
    BY <1>2 DEF Horner
  <2> QED
    BY <2>1, <2>2
<1> DEFINE h == CHOOSE g : g = Body(g)
<1>4. BigEndianNumber(s) = h[n]
  BY <1>1 DEF BigEndianNumber
<1>5. h = Body(h)
  <2> HIDE DEF Body
  <2> QED
    BY <1>3
<1> HIDE DEF h
<1>6. \A i \in 0..n : h[i] = IF i = 0 THEN 0 ELSE h[i - 1] * ByteMod + s[i]
  BY <1>5, Zenon
<1> HIDE DEF Body
<1>7. 0..n \subseteq {i \in 0..n : h[i] = f[i]}
  <2> DEFINE S == {i \in 0..n : h[i] = f[i]}
  <2>1. 0 \in S
    BY <1>2, <1>6 DEF Horner
  <2>2. ASSUME NEW i \in 0..(n - 1), i \in S PROVE i + 1 \in S
    <3>1. i + 1 \in 0..n /\ i + 1 # 0 /\ i + 1 \in 1..n /\ (i + 1) - 1 = i
      OBVIOUS
    <3>2. h[i + 1] = h[i] * ByteMod + s[i + 1]
      BY <1>6, <3>1, Zenon
    <3>3. f[i + 1] = f[i] * ByteMod + s[i + 1]
      BY <1>2, <3>1, Zenon DEF Horner
    <3> QED
      BY <2>2, <3>1, <3>2, <3>3
  <2> HIDE DEF S
  <2>3. 0..n \subseteq S
    BY <2>1, <2>2, UpwardInduction
  <2> QED
    BY <2>3 DEF S
<1>8. h[n] = f[n]
  BY <1>7
<1> QED
  BY <1>1, <1>2, <1>4, <1>8

LEMMA PowerPositive ==
  \A i \in 0..BigBytes : Power[i] \in Nat \ {0}
<1> DEFINE S == {i \in 0..BigBytes : Power[i] \in Nat \ {0}}
<1>1. 0 \in S
  BY PowerDef, SizesAssumption
<1>2. ASSUME NEW i \in 0..(BigBytes - 1), i \in S PROVE i + 1 \in S
  <2>1. i + 1 \in 1..BigBytes /\ i + 1 \in 0..BigBytes /\ (i + 1) - 1 = i
    BY SizesAssumption
  <2>2. Power[i + 1] = Power[i] * ByteMod
    BY <2>1, PowerDef
  <2>3. \A a, b \in Nat \ {0} : a * b \in Nat \ {0}
    OBVIOUS
  <2> QED
    BY <1>2, <2>1, <2>2, <2>3, SizesAssumption
<1> HIDE DEF S
<1>3. 0..BigBytes \subseteq S
  BY <1>1, <1>2, UpwardInduction, SizesAssumption
<1> QED
  BY <1>3 DEF S

(* A number of fewer bytes is one of more. *)
LEMMA PowerGrows ==
  ASSUME NEW n \in 0..BigBytes
  PROVE  Power[n] <= Power[BigBytes]
<1> DEFINE S == {k \in Nat : n + k <= BigBytes => Power[n] <= Power[n + k]}
<1>1. 0 \in S
  BY PowerPositive
<1>2. ASSUME NEW k \in 0..(BigBytes - 1), k \in S PROVE k + 1 \in S
  <2>1. CASE n + (k + 1) <= BigBytes
    <3>1. n + k \in 0..BigBytes /\ n + (k + 1) \in 1..BigBytes /\ (n + (k + 1)) - 1 = n + k
      BY <2>1, SizesAssumption
    <3>2. Power[n + (k + 1)] = Power[n + k] * ByteMod
      BY <3>1, PowerDef
    <3>3. Power[n + k] \in Nat /\ Power[n] \in Nat
      BY <3>1, PowerPositive
    <3>4. Power[n + k] <= Power[n + k] * ByteMod
      <4>1. \A a, b \in Nat : b > 0 => a <= a * b
        OBVIOUS
      <4> QED
        BY <3>3, <4>1, SizesAssumption
    <3>5. Power[n] <= Power[n + k]
      BY <1>2, <3>1
    <3>6. Power[n + k] * ByteMod \in Nat
      BY <3>3, SizesAssumption
    <3> QED
      BY <3>2, <3>3, <3>4, <3>5, <3>6
  <2> QED
    BY <2>1
<1> HIDE DEF S
<1>3. 0..BigBytes \subseteq S
  BY <1>1, <1>2, UpwardInduction, SizesAssumption
<1>4. BigBytes - n \in S
  BY <1>3, SizesAssumption
<1> QED
  BY <1>4, SizesAssumption DEF S

(* The number of n digits is below the n-th power. *)
LEMMA NumberBound ==
  ASSUME NEW s, Len(s) \in 0..BigBytes, \A i \in 1..Len(s) : s[i] \in 0..(ByteMod - 1)
  PROVE  BigEndianNumber(s) \in 0..(Power[Len(s)] - 1)
<1>1. PICK n \in 0..BigBytes : n = Len(s)
  OBVIOUS
<1>2. n \in Nat /\ \A i \in 1..n : s[i] \in Nat
  BY <1>1, SizesAssumption
<1>3. PICK f : Horner(f, n, 0, s) /\ BigEndianNumber(s) = f[n]
  BY <1>1, <1>2, NumberDef
<1> DEFINE S == {i \in 0..n : f[i] \in 0..(Power[i] - 1)}
<1>4. 0 \in S
  BY <1>3, PowerDef DEF Horner
<1>5. ASSUME NEW i \in 0..(n - 1), i \in S PROVE i + 1 \in S
  <2>1. /\ i + 1 \in 0..n /\ i + 1 \in 1..n /\ (i + 1) - 1 = i
        /\ i \in 0..BigBytes /\ i + 1 \in 1..BigBytes
    BY SizesAssumption
  <2>2. f[i + 1] = f[i] * ByteMod + s[i + 1]
    BY <1>3, <2>1, Zenon DEF Horner
  <2>3. Power[i + 1] = Power[i] * ByteMod /\ Power[i] \in Nat \ {0}
    BY <2>1, PowerDef, PowerPositive
  <2>4. f[i] \in Nat /\ f[i] <= Power[i] - 1 /\ Power[i] - 1 \in Nat
    BY <1>5, <2>3
  <2>5. f[i] * ByteMod <= (Power[i] - 1) * ByteMod /\ f[i] * ByteMod \in Nat
    BY <2>4, ProductBound, SizesAssumption
  <2>6. (Power[i] - 1) * ByteMod = Power[i] * ByteMod - ByteMod
    BY <2>3, SizesAssumption
  <2>7. s[i + 1] \in 0..(ByteMod - 1) /\ Power[i] * ByteMod \in Nat
    BY <1>1, <2>1, <2>3, SizesAssumption
  <2>8. f[i + 1] \in 0..(Power[i + 1] - 1)
    <3>1. PICK x \in Nat, y \in Nat : x = f[i] * ByteMod /\ y = Power[i] * ByteMod
      BY <2>5, <2>7
    <3>2. x <= y - ByteMod
      BY <2>5, <2>6, <3>1
    <3>3. f[i + 1] = x + s[i + 1] /\ Power[i + 1] = y
      BY <2>2, <2>3, <3>1
    <3> QED
      BY <2>7, <3>2, <3>3, SizesAssumption
  <2> QED
    BY <2>1, <2>8
<1> HIDE DEF S
<1>6. 0..n \subseteq S
  BY <1>2, <1>4, <1>5, UpwardInduction
<1>7. n \in S
  BY <1>2, <1>6
<1> QED
  BY <1>1, <1>3, <1>7 DEF S

(* The digits of a number, the highest first, are the digits of that       *)
(* number: what one conversion writes the other reads.                     *)
LEMMA RoundTrip ==
  ASSUME NEW size \in 1..BigBytes, NEW w \in 0..(Power[size] - 1), NEW s,
         Len(s) = size,
         \A i \in 1..size : s[i] = (w \div Power[size - i]) % ByteMod
  PROVE  BigEndianNumber(s) = w
<1>0. size \in Nat /\ w \in Nat /\ ByteMod \in Nat \ {0}
  BY SizesAssumption, PowerPositive
<1>1. ASSUME NEW i \in 1..size
      PROVE  \E q, u \in Nat : /\ q = w \div Power[size - i]
                               /\ u = w \div Power[size - (i - 1)]
                               /\ q = u * ByteMod + s[i] /\ s[i] \in Nat
  <2>1. /\ size - i \in 0..BigBytes /\ size - (i - 1) \in 1..BigBytes
        /\ (size - (i - 1)) - 1 = size - i
    BY SizesAssumption
  <2>2. PICK p \in Nat \ {0} : p = Power[size - i]
    BY <2>1, PowerPositive
  <2>3. Power[size - (i - 1)] = p * ByteMod
    BY <2>1, <2>2, PowerDef
  <2>4. PICK q \in Nat : q = w \div p
    BY <1>0, <2>2, DivMod
  <2>5. w \div (p * ByteMod) = (w \div p) \div ByteMod
    BY <1>0, <2>2, DivTwice
  <2>6. PICK u \in Nat, r \in 0..(ByteMod - 1) :
          u = q \div ByteMod /\ r = q % ByteMod /\ q = u * ByteMod + r
    BY <1>0, DivMod
  <2>7. u = w \div Power[size - (i - 1)]
    BY <2>3, <2>4, <2>5, <2>6, Zenon
  <2>8. s[i] = r
    BY <2>2, <2>4, <2>6, Zenon
  <2>r. r \in Nat
    BY <1>0
  <2>9. s[i] \in Nat /\ q = u * ByteMod + s[i]
    BY <2>6, <2>8, <2>r, Zenon
  <2> QED
    BY <2>2, <2>4, <2>7, <2>9, Zenon
<1>2. \A i \in 1..size : s[i] \in Nat
  BY <1>1
<1>3. PICK f : Horner(f, size, 0, s) /\ BigEndianNumber(s) = f[size]
  BY <1>0, <1>2, NumberDef
<1> DEFINE S == {i \in 0..size : f[i] = w \div Power[size - i]}
<1>4. 0 \in S
  <2>1. PICK p \in Nat \ {0} : p = Power[size]
    BY PowerPositive, SizesAssumption
  <2>2. PICK q \in Nat, r \in 0..(p - 1) : q = w \div p /\ r = w % p /\ w = q * p + r
    BY <1>0, DivMod, Zenon
  <2>3. w \in 0..(p - 1) /\ 0 * p + w = q * p + r
    BY <1>0, <2>1, <2>2
  <2>4. q = 0
    BY <2>3, DivUnique
  <2>5. size - 0 = size /\ 0 \in 0..size
    BY <1>0
  <2>6. f[0] = 0
    BY <1>3 DEF Horner
  <2> QED
    BY <2>1, <2>2, <2>4, <2>5, <2>6, Zenon
<1>5. ASSUME NEW i \in 0..(size - 1), i \in S PROVE i + 1 \in S
  <2>1. i + 1 \in 0..size /\ i + 1 \in 1..size /\ (i + 1) - 1 = i
    OBVIOUS
  <2>2. f[i + 1] = f[i] * ByteMod + s[i + 1]
    BY <1>3, <2>1, Zenon DEF Horner
  <2>3. PICK q, u \in Nat : /\ q = w \div Power[size - (i + 1)]
                            /\ u = w \div Power[size - i]
                            /\ q = u * ByteMod + s[i + 1]
    BY <1>1, <2>1, Zenon
  <2>4. f[i] = u
    BY <1>5, <2>3, Zenon
  <2>5. f[i + 1] = q
    BY <2>2, <2>3, <2>4, Zenon
  <2> QED
    BY <2>1, <2>3, <2>5, Zenon
<1> HIDE DEF S
<1>6. 0..size \subseteq S
  BY <1>0, <1>4, <1>5, UpwardInduction
<1>7. size \in S
  BY <1>0, <1>6
<1>8. f[size] = w \div Power[0]
  <2>1. size - size = 0
    BY <1>0
  <2> QED
    BY <1>7, <2>1 DEF S
<1> QED
  BY <1>0, <1>3, <1>8, PowerDef

LEMMA WordSizes ==
  /\ WordBytes \in 1..BigBytes /\ BigBytes \in 1..BigBytes
  /\ WordMod = Power[WordBytes] /\ WordMod \in Nat \ {0}
  /\ ByteMod \in Nat \ {0}
<1>1. WordBytes \in 1..BigBytes /\ BigBytes \in 1..BigBytes /\ ByteMod \in Nat \ {0}
  BY SizesAssumption
<1>2. WordBytes \in 0..BigBytes
  BY SizesAssumption
<1> QED
  BY <1>1, <1>2, PowerPositive DEF WordMod

(* The bytes memcpy writes. *)
LEMMA Digits ==
  ASSUME NEW n \in Nat, NEW size \in 1..BigBytes
  PROVE  /\ Len(LittleEndian(n, size)) = size
         /\ \A i \in 1..size : /\ LittleEndian(n, size)[i] = (n \div Power[i - 1]) % ByteMod
                               /\ LittleEndian(n, size)[i] \in 0..(ByteMod - 1)
<1>1. size \in Nat
  BY SizesAssumption
<1>2. ASSUME NEW i \in 1..size PROVE (n \div Power[i - 1]) % ByteMod \in 0..(ByteMod - 1)
  <2>1. i - 1 \in 0..BigBytes
    BY SizesAssumption
  <2>2. PICK p \in Nat \ {0} : p = Power[i - 1]
    BY <2>1, PowerPositive
  <2>3. PICK q \in Nat : q = n \div p
    BY DivMod
  <2>4. q % ByteMod \in 0..(ByteMod - 1)
    BY DivMod, SizesAssumption
  <2> QED
    BY <2>2, <2>3, <2>4, Zenon
<1> DEFINE e == [i \in 1..size |-> (n \div Power[i - 1]) % ByteMod]
<1>3. \A i \in 1..size : e[i] = (n \div Power[i - 1]) % ByteMod
  BY Zenon
<1>4. e \in [1..size -> 0..(ByteMod - 1)]
  BY <1>2, Zenon
<1>5. Len(e) = size
  <2> HIDE DEF e
  <2> QED
    BY <1>1, <1>4
<1>6. LittleEndian(n, size) = e
  BY DEF LittleEndian
<1> HIDE DEF e
<1> QED
  BY <1>2, <1>3, <1>5, <1>6, Zenon

(* job.result.work and the response: byte 7 down to byte 0 of the first    *)
(* word of the u128 spell the work value.                                  *)
LEMMA PrintedWork ==
  ASSUME NEW w \in Words
  PROVE  FormatWork(WorkBytes(w)) = w
<1>1. w \in Nat /\ w \in 0..(Power[WordBytes] - 1)
  BY WordSizes DEF Words, MaxWord
<1> DEFINE b == WorkBytes(w)
<1> DEFINE s == [i \in 1..WordBytes |-> b[WordBytes + 1 - i]]
<1>2. ASSUME NEW i \in 1..WordBytes PROVE b[i] = (w \div Power[i - 1]) % ByteMod
  <2>1. i \in 1..BigBytes /\ i <= WordBytes
    BY SizesAssumption
  <2>2. b[i] = LittleEndian(w, WordBytes)[i]
    BY <2>1, Zenon DEF WorkBytes
  <2>3. LittleEndian(w, WordBytes)[i] = (w \div Power[i - 1]) % ByteMod
    BY <1>1, WordSizes, Digits
  <2> QED
    BY <2>2, <2>3
<1> HIDE DEF b
<1>3. ASSUME NEW i \in 1..WordBytes PROVE s[i] = (w \div Power[WordBytes - i]) % ByteMod
  <2>1. WordBytes + 1 - i \in 1..WordBytes /\ (WordBytes + 1 - i) - 1 = WordBytes - i
    BY SizesAssumption
  <2>2. s[i] = b[WordBytes + 1 - i]
    BY Zenon
  <2> QED
    BY <1>2, <2>1, <2>2, Zenon
<1>4. Len(s) = WordBytes
  BY SizesAssumption
<1>5. FormatWork(b) = BigEndianNumber(s)
  BY DEF FormatWork
<1> HIDE DEF s
<1>6. BigEndianNumber(s) = w
  BY <1>1, <1>3, <1>4, WordSizes, RoundTrip
<1> QED
  BY <1>5, <1>6 DEF b

(* bigint::set and bigint::number are inverse to each other. *)
LEMMA SetNumber ==
  ASSUME NEW n \in 0..(Power[BigBytes] - 1)
  PROVE  BigEndianNumber(Set(n)) = n
<1>1. n \in Nat
  BY WordSizes, PowerDef
<1> DEFINE b == LittleEndian(n, BigBytes)
<1>2. Len(b) = BigBytes /\ \A i \in 1..BigBytes : b[i] = (n \div Power[i - 1]) % ByteMod
  BY <1>1, WordSizes, Digits
<1> HIDE DEF b
<1> DEFINE s == [i \in 1..BigBytes |-> b[BigBytes + 1 - i]]
<1>3. ASSUME NEW i \in 1..BigBytes PROVE s[i] = (n \div Power[BigBytes - i]) % ByteMod
  <2>1. BigBytes + 1 - i \in 1..BigBytes /\ (BigBytes + 1 - i) - 1 = BigBytes - i
    BY SizesAssumption
  <2>2. s[i] = b[BigBytes + 1 - i]
    BY Zenon
  <2> QED
    BY <1>2, <2>1, <2>2, Zenon
<1>4. Len(s) = BigBytes
  BY SizesAssumption
<1>5. Set(n) = s
  BY <1>2, Zenon DEF Set, Reversed, b
<1> HIDE DEF s
<1>6. BigEndianNumber(s) = n
  BY <1>3, <1>4, WordSizes, RoundTrip
<1> QED
  BY <1>5, <1>6

(* from_hex gives the number the text spells. *)
LEMMA TextNumber ==
  ASSUME NEW text, IsHex(text), \A i \in 1..Len(text) : text[i] \in 0..ByteMod
  PROVE  /\ BigEndianNumber(text) \in Nat
         /\ BigEndianNumber(FromHex(text)) = BigEndianNumber(text)
<1>1. Len(text) \in 0..BigBytes
  BY DEF IsHex
<1>2. \A i \in 1..Len(text) : text[i] \in 0..(ByteMod - 1)
  BY SizesAssumption DEF IsHex
<1>3. PICK n : n = BigEndianNumber(text)
  OBVIOUS
<1>4. n \in 0..(Power[Len(text)] - 1)
  BY <1>1, <1>2, <1>3, NumberBound
<1>5. n \in 0..(Power[BigBytes] - 1) /\ n \in Nat
  <2>1. PICK m \in 0..BigBytes : m = Len(text)
    BY <1>1
  <2>2. Power[m] <= Power[BigBytes]
    BY PowerGrows
  <2>3. BigBytes \in 0..BigBytes
    BY SizesAssumption
  <2>4. Power[m] \in Nat /\ Power[BigBytes] \in Nat
    BY <2>3, PowerPositive
  <2> QED
    BY <1>4, <2>1, <2>2, <2>4
<1> QED
  BY <1>3, <1>5, SetNumber DEF FromHex

(* The hash a client compares is a word. *)
LEMMA HashIsWord ==
  ASSUME NEW n \in Words
  PROVE  ByteSwap(n) \in Words
<1>1. n \in Nat
  BY WordSizes DEF Words, MaxWord
<1> DEFINE b == LittleEndian(n, WordBytes)
<1>2. Len(b) = WordBytes /\ \A i \in 1..WordBytes : b[i] \in 0..(ByteMod - 1)
  BY <1>1, WordSizes, Digits
<1> HIDE DEF b
<1>3. Len(b) \in 0..BigBytes
  BY <1>2, SizesAssumption
<1>4. BigEndianNumber(b) \in 0..(Power[WordBytes] - 1)
  BY <1>2, <1>3, NumberBound
<1> QED
  BY <1>4 DEF ByteSwap, b, Words, MaxWord, WordMod

-----------------------------------------------------------------------------
(* The search. *)
Types ==
    /\ digest \in Digests /\ request \in Requests
    /\ work \in Words /\ target \in Nat /\ found \in BOOLEAN
    /\ pc \in {"parse", "search", "mock", "done", "refused"}

(* The job's difficulty is the one its request asks for, in a legal text.  *)
Asked ==
    pc \notin {"parse", "refused"} =>
        /\ target = RequestedDifficulty(request)
        /\ request.given => IsHex(request.text)

(* What was found is below the threshold, and stays the work value.        *)
Hit ==
    found => pc \in {"search", "done"} /\ Reverse(work) < Threshold(target)

(* The result and the response are about that work value.                  *)
Reported ==
    pc = "done" /\ found =>
        /\ response = work
        /\ resultDiff = ActualDiff(Reverse(work))
        /\ resultMult = <<resultDiff, BaseDifficulty>>

SearchInv == Types /\ Asked /\ Hit /\ Reported

LEMMA Inputs ==
  ASSUME NEW r \in Requests
  PROVE  /\ BaseDifficulty \in Nat
         /\ r.given \in BOOLEAN /\ r.num \in Nat /\ r.den \in Nat \ {0}
         /\ \A i \in 1..Len(r.text) : r.text[i] \in 0..ByteMod
<1>1. BaseDifficulty \in Nat
  BY InputsAssumption
<1> QED
  BY <1>1, InputsAssumption

LEMMA DifficultyIsNumber ==
  ASSUME NEW r \in Requests, r.given => IsHex(r.text)
  PROVE  RequestedDifficulty(r) \in Nat
<1>1. BaseDifficulty * r.num \in Nat
  BY Inputs
<1>2. Product(r.num, r.den) \in Nat
  BY <1>1, Inputs, DivMod DEF Product
<1>4. FromMultiplier(r.num, r.den) \in Nat
  <2>1. Power[BigBytes] \in Nat \ {0}
    BY PowerPositive, SizesAssumption
  <2> QED
    BY <1>2, <2>1, DivMod DEF FromMultiplier
<1>3. r.given => BigEndianNumber(FromHex(r.text)) \in Nat
  BY Inputs, TextNumber
<1> QED
  BY <1>3, <1>4, Inputs DEF RequestedDifficulty

LEMMA SearchInit == Init => SearchInv
<1> SUFFICES ASSUME Init PROVE SearchInv
  OBVIOUS
<1> QED
  BY DEF Init, SearchInv, Types, Asked, Hit, Reported

LEMMA SearchStep == SearchInv /\ [Next]_vars => SearchInv'
<1> SUFFICES ASSUME SearchInv, [Next]_vars PROVE SearchInv'
  OBVIOUS
<1> USE DEF SearchInv
<1>1. CASE Parse
  <2>1. CASE request.given /\ ~IsHex(request.text)
    BY <1>1, <2>1 DEF Parse, Types, Asked, Hit, Reported, Reverse
  <2>2. CASE ~(request.given /\ ~IsHex(request.text))
    <3>1. request.given => IsHex(request.text)
      BY <2>2, Inputs DEF Types
    <3>2. /\ pc = "parse" /\ target' = RequestedDifficulty(request)
          /\ pc' \in {"search", "mock"}
          /\ UNCHANGED <<request, digest, work, found>>
      BY <1>1, <2>2 DEF Parse
    <3>3. target' \in Nat
      BY <3>1, <3>2, DifficultyIsNumber DEF Types
    <3>4. ~found
      BY <3>2 DEF Hit
    <3>5. Types' /\ Hit' /\ Reported'
      BY <3>2, <3>3, <3>4 DEF Types, Hit, Reported
    <3>6. Asked'
      BY <3>1, <3>2 DEF Asked, RequestedDifficulty, FromMultiplier, Product, FromHex, IsHex
    <3> QED
      BY <3>5, <3>6
  <2> QED
    BY <2>1, <2>2
<1>2. CASE Try
  <2>1. /\ pc = "search" /\ ~found
        /\ UNCHANGED <<request, digest, target, pc>>
    BY <1>2 DEF Try
  <2>2. Asked' /\ Reported'
    BY <2>1 DEF Asked, Reported, RequestedDifficulty, FromMultiplier, Product, FromHex, IsHex
  <2>3. CASE Reverse(work) < Threshold(target)
    BY <1>2, <2>1, <2>2, <2>3 DEF Try, Types, Hit, Reverse, Threshold, BaseDiff
  <2>4. CASE ~(Reverse(work) < Threshold(target))
    <3>1. Advance /\ UNCHANGED found
      BY <1>2, <2>4 DEF Try
    <3>2. Successor(work) \in Words
      <4>1. work + 1 \in Nat
        BY WordSizes DEF Types, Words, MaxWord
      <4>2. (work + 1) % WordMod \in 0..(WordMod - 1)
        BY <4>1, WordSizes, DivMod
      <4> QED
        BY <4>2 DEF Successor, Words, MaxWord
    <3>3. work' \in Words
      BY <3>1, <3>2 DEF Advance
    <3> QED
      BY <2>1, <2>2, <3>1, <3>3 DEF Types, Hit
  <2> QED
    BY <2>3, <2>4
<1>3. CASE Finish
  <2>1. /\ pc = "search" /\ pc' = "done"
        /\ UNCHANGED <<delay, request, digest, target, work, iterations, found>>
    BY <1>3 DEF Finish
  <2>2. Types' /\ Asked' /\ Hit'
    BY <2>1 DEF Types, Asked, Hit, RequestedDifficulty, FromMultiplier, Product, FromHex, IsHex,
                Reverse, Threshold, BaseDiff
  <2>3. ASSUME found PROVE /\ response' = work
                           /\ resultDiff' = ActualDiff(Reverse(work))
                           /\ resultMult' = <<resultDiff', BaseDifficulty>>
    <3>1. response' = FormatWork(WorkBytes(work))
      BY <1>3 DEF Finish
    <3>2. response' = work
      BY <3>1, PrintedWork DEF Types
    <3> QED
      BY <1>3, <2>3, <3>2 DEF Finish, ToMultiplier
  <2>4. Reported'
    BY <2>1, <2>3 DEF Reported, Reverse, ActualDiff
  <2> QED
    BY <2>2, <2>4
<1>4. CASE Mock
  <2>1. /\ pc = "mock" /\ pc' = "done"
        /\ UNCHANGED <<request, digest, target, work, found>>
    BY <1>4 DEF Mock
  <2>2. ~found
    BY <2>1 DEF Hit
  <2> QED
    BY <2>1, <2>2 DEF Types, Asked, Hit, Reported, RequestedDifficulty, FromMultiplier, Product,
                      FromHex, IsHex
<1>5. CASE UNCHANGED vars
  BY <1>5 DEF vars, Types, Asked, Hit, Reported, RequestedDifficulty, FromMultiplier, Product,
              FromHex, IsHex, Reverse, Threshold, BaseDiff, ActualDiff
<1> QED
  BY <1>1, <1>2, <1>3, <1>4, <1>5 DEF Next, Done

LEMMA SearchAlways == Spec => []SearchInv
  BY SearchInit, SearchStep, PTL DEF Spec

-----------------------------------------------------------------------------
(* A hash below the threshold has the difficulty the threshold stands for. *)
LEMMA BelowThreshold ==
  ASSUME NEW t \in Nat, NEW h \in Words, h < Threshold(t)
  PROVE  /\ BaseDiff(t) \in Nat \ {0}
         /\ h * BaseDiff(t) <= MaxWord
         /\ ActualDiff(h) \in Nat /\ ActualDiff(h) >= BaseDiff(t)
<1>1. MaxWord \in Nat /\ h \in Nat /\ h <= MaxWord /\ WordMod \in Nat \ {0}
  BY WordSizes DEF Words, MaxWord
<1>2. PICK d \in 0..(WordMod - 1) : d = BaseDiff(t)
  BY <1>1, DivMod DEF BaseDiff
<1>3. d \in Nat \ {0} /\ Threshold(t) = MaxWord \div d
  BY <1>1, <1>2 DEF Threshold
<1>4. PICK q \in Nat, r \in 0..(d - 1) : q = MaxWord \div d /\ r = MaxWord % d /\ MaxWord = q * d + r
  BY <1>1, <1>3, DivMod, Zenon
<1>5. h <= q
  BY <1>1, <1>3, <1>4
<1>6. h * d <= MaxWord /\ h * d \in Nat
  <2>1. h * d <= q * d /\ h * d \in Nat /\ q * d \in Nat
    BY <1>1, <1>3, <1>5, ProductBound
  <2> QED
    BY <1>4, <2>1
<1>7. CASE h = 0
  BY <1>1, <1>2, <1>3, <1>6, <1>7 DEF ActualDiff, MaxWord
<1>8. CASE h > 0
  <2>1. PICK a \in Nat, s \in 0..(h - 1) : a = MaxWord \div h /\ s = MaxWord % h /\ MaxWord = a * h + s
    <3>1. h \in Nat \ {0}
      BY <1>1, <1>8
    <3> QED
      BY <1>1, <3>1, DivMod, Zenon
  <2>2. ActualDiff(h) = a
    BY <1>8, <2>1 DEF ActualDiff
  <2>3. ASSUME a < d PROVE FALSE
    <3>1. (a + 1) * h <= d * h /\ d * h \in Nat
      BY <1>1, <1>3, <2>3, ProductBound
    <3>2. (a + 1) * h = a * h + h /\ a * h \in Nat /\ d * h = h * d
      BY <1>1, <1>3
    <3> QED
      BY <1>1, <1>6, <2>1, <3>1, <3>2
  <2> QED
    BY <1>2, <1>3, <1>6, <2>2, <2>3
<1> QED
  BY <1>1, <1>7, <1>8

LEMMA FoundFacts ==
  ASSUME SearchInv, pc = "done", found
  PROVE  /\ response = work /\ Reverse(work) \in Words
         /\ Reverse(work) < Threshold(target)
         /\ resultDiff = ActualDiff(Reverse(work))
         /\ resultMult = <<resultDiff, BaseDifficulty>>
<1>1. digest \in [Words -> Words] /\ work \in Words
  BY InputsAssumption DEF SearchInv, Types
<1>2. Reverse(work) \in Words
  BY <1>1, HashIsWord DEF Reverse
<1> QED
  BY <1>2 DEF SearchInv, Hit, Reported

(* The work the response prints is the work that was found, and whoever    *)
(* hashes it finds it below the threshold of the request's low 64 bits,    *)
(* with the difficulty that is reported (FoundWorkIsValid): for any sizes  *)
(* of byte and word, any hash function and any way the search went.        *)
THEOREM PrintedWorkIsValid == Spec => []FoundWorkIsValid
<1>1. ASSUME SearchInv, pc = "done", found
      PROVE  /\ ClientHash(response) * BaseDiff(target) <= MaxWord
             /\ BaseDiff(target) # 0
             /\ resultDiff >= BaseDiff(target)
             /\ resultDiff = ActualDiff(ClientHash(response))
  <2>1. PICK h \in Words : h = Reverse(work)
    BY <1>1, FoundFacts
  <2>2. ClientHash(response) = h
    BY <1>1, <2>1, FoundFacts DEF ClientHash, Reverse, ByteSwap
  <2>3. target \in Nat /\ h < Threshold(target) /\ resultDiff = ActualDiff(h)
    BY <1>1, <2>1, FoundFacts DEF SearchInv, Types
  <2>4. /\ BaseDiff(target) # 0
        /\ h * BaseDiff(target) <= MaxWord
        /\ ActualDiff(h) >= BaseDiff(target)
    BY <2>3, BelowThreshold
  <2> QED
    BY <2>2, <2>3, <2>4
<1>2. SearchInv => FoundWorkIsValid
  BY <1>1 DEF FoundWorkIsValid
<1> QED
  BY <1>2, SearchAlways, PTL

(* A client whose difficulty fits a word gets work of at least the         *)
(* difficulty its text spells, or of at least its multiplier, up to the    *)
(* truncation to an integer (WorkMeetsRequest).                            *)
THEOREM RequestIsMet == Spec => []WorkMeetsRequest
<1>1. ASSUME SearchInv, pc = "done", found, FitsWord
      PROVE  IF request.num > 0
               THEN (resultMult[1] + 1) * request.den > request.num * resultMult[2]
               ELSE request.given => resultMult[1] >= BigEndianNumber(request.text)
  <2>1. target \in Nat /\ request \in Requests
    BY <1>1 DEF SearchInv, Types
  <2>2. PICK h \in Words : h = Reverse(work)
    BY <1>1, FoundFacts
  <2>3. h < Threshold(target) /\ resultDiff = ActualDiff(h)
        /\ resultMult[1] = resultDiff /\ resultMult[2] = BaseDifficulty
    BY <1>1, <2>2, FoundFacts
  <2>4. resultDiff \in Nat /\ resultDiff >= BaseDiff(target)
    BY <2>1, <2>3, BelowThreshold
  <2>5. /\ target = RequestedDifficulty(request)
        /\ request.given => IsHex(request.text)
    BY <1>1 DEF SearchInv, Asked
  <2>6. ASSUME request.num > 0
        PROVE  /\ target = Product(request.num, request.den)
               /\ target < WordMod
    <3>1. Product(request.num, request.den) \in Nat
      BY <2>1, Inputs, DivMod DEF Product
    <3>2. Product(request.num, request.den) < WordMod
      BY <1>1, <2>6 DEF FitsWord
    <3>3. WordMod <= Power[BigBytes] /\ WordMod \in Nat /\ Power[BigBytes] \in Nat \ {0}
      BY PowerPositive, PowerGrows, WordSizes, SizesAssumption DEF WordMod
    <3>4. Product(request.num, request.den) % Power[BigBytes]
              = Product(request.num, request.den)
      BY <3>1, <3>2, <3>3
    <3> QED
      BY <2>5, <2>6, <3>2, <3>4 DEF RequestedDifficulty, FromMultiplier
  <2>7. target < WordMod
    BY <1>1, <2>6 DEF FitsWord
  <2>8. BaseDiff(target) = target
    BY <2>1, <2>7, WordSizes DEF BaseDiff
  <2>9. CASE request.num > 0
    <3>1. PICK p \in Nat, d \in Nat \ {0} : p = BaseDifficulty * request.num /\ d = request.den
      BY <2>1, Inputs
    <3>2. PICK r \in 0..(d - 1) : r = p % d /\ p = target * d + r
      <4>1. target = p \div d
        BY <2>9, <2>6, <3>1 DEF Product
      <4>2. PICK q \in Nat, r \in 0..(d - 1) : q = p \div d /\ r = p % d /\ p = q * d + r
        BY <3>1, DivMod, Zenon
      <4> QED
        BY <4>1, <4>2, Zenon
    <3>3. (target + 1) * d <= (resultDiff + 1) * d
      BY <2>1, <2>4, <2>8, <3>1, ProductBound
    <3>4. (target + 1) * d = target * d + d /\ target * d \in Nat /\ (resultDiff + 1) * d \in Nat
      BY <2>1, <2>4, <3>1
    <3>5. (resultDiff + 1) * d > p
      BY <3>1, <3>2, <3>3, <3>4
    <3>6. request.num * BaseDifficulty = p
      BY <2>1, <3>1, Inputs
    <3> QED
      BY <2>3, <2>9, <3>1, <3>5, <3>6
  <2>10. CASE ~(request.num > 0)
    <3>1. ASSUME request.given PROVE resultDiff >= BigEndianNumber(request.text)
      <4>1. target = BigEndianNumber(FromHex(request.text))
        BY <2>5, <2>10, <3>1 DEF RequestedDifficulty
      <4>2. BigEndianNumber(FromHex(request.text)) = BigEndianNumber(request.text)
        BY <2>1, <2>5, <3>1, Inputs, TextNumber
      <4> QED
        BY <2>4, <2>8, <4>1, <4>2
    <3> QED
      BY <2>3, <2>10, <3>1
  <2> QED
    BY <2>9, <2>10
<1>2. SearchInv => WorkMeetsRequest
  BY <1>1 DEF WorkMeetsRequest
<1> QED
  BY <1>2, SearchAlways, PTL
=============================================================================
