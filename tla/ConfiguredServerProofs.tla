----------------------- MODULE ConfiguredServerProofs -----------------------
(***************************************************************************)
(* What the process makes of its configuration, for every command line,    *)
(* every file and every client: settings and devices are the ones written, *)
(* and the answers are the ones permitted.                                 *)
(***************************************************************************)
EXTENDS ConfiguredServer, FiniteSetTheorems, SequenceTheorems,
        WellFoundedInduction, TLAPS

-----------------------------------------------------------------------------
(* Paths. *)

LEMMA OneName ==
  ASSUME NEW S, NEW a \in S
  PROVE  <<a>> \in Seq(S) /\ Len(<<a>>) = 1 /\ <<a>>[1] = a
<1>1. <<a>> \in Seq(S)
  OBVIOUS
<1>2. Len(<<a>>) = 1
  OBVIOUS
<1>3. <<a>>[1] = a
  OBVIOUS
<1> QED
  BY <1>1, <1>2, <1>3

LEMMA TwoNames ==
  ASSUME NEW S, NEW a \in S, NEW b \in S
  PROVE  <<a, b>> \in Seq(S) /\ Len(<<a, b>>) = 2 /\ <<a, b>>[1] = a
         /\ <<a, b>>[2] = b
<1>1. <<a, b>> \in Seq(S)
  OBVIOUS
<1>2. Len(<<a, b>>) = 2
  OBVIOUS
<1>3. <<a, b>>[1] = a /\ <<a, b>>[2] = b
  OBVIOUS
<1> QED
  BY <1>1, <1>2, <1>3

LEMMA ThreeNames ==
  ASSUME NEW S, NEW a \in S, NEW b \in S, NEW c \in S
  PROVE  <<a, b, c>> \in Seq(S) /\ Len(<<a, b, c>>) = 3 /\ <<a, b, c>>[1] = a
         /\ <<a, b, c>>[2] = b /\ <<a, b, c>>[3] = c
<1>1. <<a, b, c>> \in Seq(S)
  OBVIOUS
<1>2. Len(<<a, b, c>>) = 3
  OBVIOUS
<1>3. <<a, b, c>>[1] = a /\ <<a, b, c>>[2] = b /\ <<a, b, c>>[3] = c
  OBVIOUS
<1> QED
  BY <1>1, <1>2, <1>3

LEMMA IsOneName ==
  ASSUME NEW S, NEW p \in Seq(S), Len(p) = 1
  PROVE  p[1] \in S /\ p = <<p[1]>>
<1>1. p[1] \in S
  BY ElementOfSeq
<1>2. PICK q \in Seq(S) : q = <<p[1]>> /\ Len(q) = 1 /\ q[1] = p[1]
  BY <1>1, OneName
<1>3. p = q
  <2>1. \A i \in 1..Len(p) : p[i] = q[i]
    BY <1>2
  <2> QED
    BY <2>1, <1>2, SeqEqual
<1> QED
  BY <1>1, <1>2, <1>3

LEMMA IsTwoNames ==
  ASSUME NEW S, NEW p \in Seq(S), Len(p) = 2
  PROVE  p[1] \in S /\ p[2] \in S /\ p = <<p[1], p[2]>>
<1>1. p[1] \in S /\ p[2] \in S
  BY ElementOfSeq
<1>2. PICK q \in Seq(S) : /\ q = <<p[1], p[2]>> /\ Len(q) = 2
                          /\ q[1] = p[1] /\ q[2] = p[2]
  BY <1>1, TwoNames
<1>3. p = q
  <2>1. \A i \in 1..Len(p) : p[i] = q[i]
    BY <1>2
  <2> QED
    BY <2>1, <1>2, SeqEqual
<1> QED
  BY <1>1, <1>2, <1>3

LEMMA IsThreeNames ==
  ASSUME NEW S, NEW a \in S, NEW b \in S, NEW c \in S, NEW p \in Seq(S),
         Len(p) = 3, p[1] = a, p[2] = b, p[3] = c
  PROVE  p = <<a, b, c>>
<1>1. PICK q : q = <<a, b, c>>
  OBVIOUS
<1>2. q \in Seq(S) /\ Len(q) = 3 /\ q[1] = a /\ q[2] = b /\ q[3] = c
  BY <1>1, ThreeNames
<1>3. \A i \in 1..Len(p) : p[i] = q[i]
  BY <1>2
<1> QED
  BY <1>1, <1>2, <1>3, SeqEqual

LEMMA FrontOf ==
  ASSUME NEW S, NEW p \in Seq(S), p # <<>>
  PROVE  /\ Front(p) \in Seq(S)
         /\ Len(Front(p)) = Len(p) - 1
         /\ \A i \in 1..(Len(p) - 1) : Front(p)[i] = p[i]
<1>1. Len(p) \in Nat /\ Len(p) > 0
  BY EmptySeq
<1>2. \A i \in 1..(Len(p) - 1) : p[i] \in S
  BY <1>1, ElementOfSeq
<1>3. PICK n \in Int : n = Len(p) - 1
  BY <1>1
<1>4. /\ SubSeq(p, 1, n) \in Seq(S)
      /\ Len(SubSeq(p, 1, n)) = IF 1 <= n THEN n - 1 + 1 ELSE 0
      /\ \A i \in 1..(n - 1 + 1) : SubSeq(p, 1, n)[i] = p[1 + i - 1]
  BY <1>2, <1>3, SubSeqProperties
<1>5. Front(p) = SubSeq(p, 1, n)
  BY <1>3 DEF Front
<1> QED
  BY <1>1, <1>3, <1>4, <1>5

-----------------------------------------------------------------------------
(* What the parser has made of the lines before pos, once the options and  *)
(* the file are read as one text.                                          *)
Sections == {"server", "work", "device", "admin"}

(* STRING; the provers have to be told that the literals belong to it.     *)
Names ==
    STRING \cup Sections
    \cup UNION {DOMAIN Keys[s] \cup DOMAIN Exported[s] : s \in Sections}

Paths == Seq(Names)

IsArray(s) == Exists(<<s>>) /\ tree[<<s>>] = "array"

Past == {"combining", "server", "work", "device", "admin", "constructed",
         "serving"}

ParserTypes ==
    /\ overrides \in CommandLines /\ file \in Files \cup {ExportDocumented}
    /\ tree = [p \in DOMAIN tree |-> tree[p]]
    /\ DOMAIN tree \in SUBSET (Paths \ {<<>>})
    /\ pos \in Nat \ {0} /\ pos <= Len(Combined) + 1
    /\ stage # "combining" => pos = Len(Combined) + 1

(* The headers before pos are in the tree ... *)
HeadersInv ==
    \A i \in 1..(pos - 1) :
        IsHeader(Combined[i]) =>
            /\ Exists(Combined[i].at)
            /\ tree[Combined[i].at] \in {"table", "array"}
            /\ Combined[i].form = "array" => tree[Combined[i].at] = "array"

(* ... and the last of them leads to the current table. *)
CurrentInv ==
    \/ Scope(Combined, pos) = <<>> /\ cur = <<>>
    \/ \E s \in Names :
          /\ Scope(Combined, pos) = <<s>> /\ Exists(<<s>>)
          /\ \/ tree[<<s>>] = "table" /\ cur = <<s>>
             \/ tree[<<s>>] = "array" /\ \E x \in Names : cur = <<s, x>>

(* What is below a section is below a table or an array. *)
ParentInv ==
    \A s, k \in Names :
        Exists(<<s, k>>) => Exists(<<s>>) /\ tree[<<s>>] \in {"table", "array"}

(* A section is there if and only if a line is about it. *)
SectionsInv ==
    \A s \in Names :
        Exists(<<s>>) <=>
            \E i \in 1..(pos - 1) :
                Place(Combined, i) # <<>> /\ Head(Place(Combined, i)) = s

FirstMention(i, s, k) ==
    /\ i \in Mentions(Combined, s, k)
    /\ \A j \in Mentions(Combined, s, k) : i <= j

(* A key of a section is what its first line says. *)
KeysInv ==
    \A s, k \in Names :
        ~IsArray(s) =>
            IF Exists(<<s, k>>)
              THEN \E i \in 1..(pos - 1) :
                      FirstMention(i, s, k) /\ tree[<<s, k>>] = Said(Combined, i)
              ELSE \A i \in 1..(pos - 1) : i \notin Mentions(Combined, s, k)

Listed(s, n) ==
    {i \in 1..n : Combined[i].form = "array" /\ Combined[i].at = <<s>>}

(* An array has one element for each of its headers. *)
ElementsInv ==
    \A s \in Names :
        IsArray(s) =>
            /\ Listed(s, pos - 1) # {}
            /\ Children(<<s>>) =
                  {<<s, ToString(m)>> : m \in 1..Cardinality(Listed(s, pos - 1))}

(* [s] and [[s]] both lead to the last element of an array.               *)
LastElementInv ==
    \A s \in Names :
        Scope(Combined, pos) = <<s>> /\ IsArray(s) =>
            cur = <<s, ToString(Cardinality(Listed(s, pos - 1)))>>

(* Line i is about key k of element m.                                     *)
AboutElement(i, s, k, m) ==
    i \in Mentions(Combined, s, k) /\ Cardinality(Listed(s, i)) = m

FirstAbout(i, s, k, m) ==
    /\ AboutElement(i, s, k, m)
    /\ \A j \in 1..Len(Combined) : AboutElement(j, s, k, m) => i <= j

(* A key of an element is what the first line about it says, be there an   *)
(* array yet or not.                                                       *)
ElementKeysInv ==
    \A s, k \in Names :
        (Exists(<<s>>) => tree[<<s>>] # "table") =>
            \A m \in 1..Len(Combined) :
                IF Exists(<<s, ToString(m), k>>)
                  THEN \E i \in 1..(pos - 1) :
                          /\ FirstAbout(i, s, k, m)
                          /\ tree[<<s, ToString(m), k>>] = Said(Combined, i)
                  ELSE \A i \in 1..(pos - 1) : ~AboutElement(i, s, k, m)

ParserInv ==
    /\ ParserTypes /\ HeadersInv /\ CurrentInv /\ ParentInv /\ SectionsInv
    /\ KeysInv /\ ElementsInv /\ LastElementInv /\ ElementKeysInv

-----------------------------------------------------------------------------
(* What the constructor has made of the tree. *)

(* The stages after a section is read. *)
AfterRead ==
    [server |-> {"work", "device", "admin", "constructed", "serving"},
     work   |-> {"device", "admin", "constructed", "serving"},
     admin  |-> {"constructed", "serving"}]

SettingsInv ==
    /\ settings = [s \in Singles |-> settings[s]]
    /\ \A s \in Singles :
          stage \in AfterRead[s] =>
              settings[s] = ReadTable(<<s>>, s) /\ ~Dangling(s)

Devices ==
    IF Exists(<<"device">>)
      THEN [i \in 1..Len(Tables("device")) |->
              ReadTable(Tables("device")[i], "device")]
      ELSE <<>>

DevicesInv ==
    stage \in {"admin", "constructed", "serving"} =>
        Accepted("device") /\ devices = Devices

(* Whoever has an answer has one from a server that served. *)
Answers ==
    /\ answered.kind # "none" => stage \in {"serving", "exited"}
    /\ PermissionsRespected /\ WorkReachable

TextTypes ==
    overrides \in CommandLines /\ file \in Files \cup {ExportDocumented}

ServerInv ==
    /\ TextTypes
    /\ stage \in Past \cup {"options", "validating", "failed", "crashed", "exited"}
    /\ stage \in Past => ParserInv
    /\ SettingsInv /\ DevicesInv /\ Answers

-----------------------------------------------------------------------------
(* Scopes and insertions. *)

LEMMA ScopeFirst ==
  ASSUME NEW lines
  PROVE  Scope(lines, 1) = <<>>
  BY DEF Scope

LEMMA ScopeNext ==
  ASSUME NEW lines, NEW n \in Nat, n > 0
  PROVE  Scope(lines, n + 1) =
            IF IsHeader(lines[n]) THEN lines[n].at ELSE Scope(lines, n)
<1> DEFINE Above(i) == {h \in 1..(i - 1) : IsHeader(lines[h])}
           Nearest(H) == CHOOSE h \in H : \A g \in H : g <= h
<1>1. \A i : Scope(lines, i) = IF Above(i) = {} THEN <<>> ELSE lines[Nearest(Above(i))].at
  BY DEF Scope
<1>2. CASE IsHeader(lines[n])
  <2>1. n \in Above(n + 1) /\ \A g \in Above(n + 1) : g \in Int /\ g <= n
    BY <1>2
  <2>2. PICK H : H = Above(n + 1)
    OBVIOUS
  <2>3. Nearest(H) = n
    <3>1. \A h \in H : (\A g \in H : g <= h) => h = n
      BY <2>1, <2>2
    <3>2. n \in H /\ \A g \in H : g <= n
      BY <2>1, <2>2
    <3>3. \E h \in H : \A g \in H : g <= h
      BY <3>2
    <3>4. Nearest(H) \in H /\ \A g \in H : g <= Nearest(H)
      BY <3>3
    <3> QED
      BY <3>1, <3>4
  <2> QED
    BY <1>1, <1>2, <2>1, <2>2, <2>3
<1>3. CASE ~IsHeader(lines[n])
  <2>1. Above(n + 1) = Above(n)
    BY <1>3
  <2> HIDE DEF Above, Nearest
  <2> QED
    BY <1>1, <1>3, <2>1
<1> QED
  BY <1>2, <1>3

LEMMA Inserted ==
  ASSUME NEW t, NEW p, NEW v
  PROVE  /\ Insert(t, p, v) = [q \in DOMAIN Insert(t, p, v) |-> Insert(t, p, v)[q]]
         /\ DOMAIN Insert(t, p, v) = DOMAIN t \cup {p}
         /\ \A q \in DOMAIN t : Insert(t, p, v)[q] = t[q]
         /\ p \notin DOMAIN t => Insert(t, p, v)[p] = v
  BY DEF Insert

(* The paths the parser puts together.                                     *)
LEMMA WithOne ==
  ASSUME NEW S, NEW c \in Seq(S), NEW k \in S
  PROVE  /\ c \o <<k>> \in Seq(S) /\ Len(c \o <<k>>) = Len(c) + 1
         /\ \A i \in 1..Len(c) : (c \o <<k>>)[i] = c[i]
         /\ (c \o <<k>>)[Len(c) + 1] = k
<1>1. PICK a \in Seq(S) : a = <<k>> /\ Len(a) = 1 /\ a[1] = k
  <2>1. <<k>> \in Seq(S) /\ Len(<<k>>) = 1 /\ <<k>>[1] = k
    BY OneName
  <2> QED
    BY <2>1, Zenon
<1>2. PICK n \in Nat : n = Len(c)
  BY LenProperties
<1>3. PICK p : p = c \o a
  OBVIOUS
<1>4. /\ p \in Seq(S) /\ Len(p) = Len(c) + Len(a)
      /\ \A i \in 1..(Len(c) + Len(a)) :
            p[i] = IF i <= Len(c) THEN c[i] ELSE a[i - Len(c)]
  BY <1>3, ConcatProperties
<1>5. /\ Len(p) = n + 1
      /\ \A i \in 1..(n + 1) : p[i] = IF i <= n THEN c[i] ELSE a[i - n]
  BY <1>1, <1>2, <1>4
<1>6. \A i \in 1..n : p[i] = c[i]
  BY <1>5
<1>7. p[n + 1] = a[1]
  <2>1. n + 1 \in 1..(n + 1) /\ ~(n + 1 <= n) /\ n + 1 - n = 1
    OBVIOUS
  <2> QED
    BY <1>5, <2>1
<1> QED
  BY <1>1, <1>2, <1>3, <1>4, <1>5, <1>6, <1>7

LEMMA WithTwo ==
  ASSUME NEW S, NEW c \in Seq(S), NEW k \in S, NEW j \in S
  PROVE  /\ c \o <<k, j>> \in Seq(S) /\ Len(c \o <<k, j>>) = Len(c) + 2
         /\ \A i \in 1..Len(c) : (c \o <<k, j>>)[i] = c[i]
         /\ (c \o <<k, j>>)[Len(c) + 1] = k /\ (c \o <<k, j>>)[Len(c) + 2] = j
<1>1. PICK a \in Seq(S) : a = <<k, j>> /\ Len(a) = 2 /\ a[1] = k /\ a[2] = j
  <2>1. <<k, j>> \in Seq(S) /\ Len(<<k, j>>) = 2 /\ <<k, j>>[1] = k
        /\ <<k, j>>[2] = j
    BY TwoNames
  <2> QED
    BY <2>1, Zenon
<1>2. PICK n \in Nat : n = Len(c)
  BY LenProperties
<1>3. PICK p : p = c \o a
  OBVIOUS
<1>4. /\ p \in Seq(S) /\ Len(p) = Len(c) + Len(a)
      /\ \A i \in 1..(Len(c) + Len(a)) :
            p[i] = IF i <= Len(c) THEN c[i] ELSE a[i - Len(c)]
  BY <1>3, ConcatProperties
<1>5. /\ Len(p) = n + 2
      /\ \A i \in 1..(n + 2) : p[i] = IF i <= n THEN c[i] ELSE a[i - n]
  BY <1>1, <1>2, <1>4
<1>6. \A i \in 1..n : p[i] = c[i]
  BY <1>5
<1>7. p[n + 1] = a[1] /\ p[n + 2] = a[2]
  <2>1. n + 1 \in 1..(n + 2) /\ ~(n + 1 <= n) /\ n + 1 - n = 1
    OBVIOUS
  <2>2. n + 2 \in 1..(n + 2) /\ ~(n + 2 <= n) /\ n + 2 - n = 2
    OBVIOUS
  <2> QED
    BY <1>5, <2>1, <2>2
<1> QED
  BY <1>1, <1>2, <1>3, <1>4, <1>5, <1>6, <1>7

(* The table a plain key is stored in, and the one of a dotted key.        *)
LEMMA PlainTable ==
  ASSUME NEW S, NEW c \in Seq(S), NEW k \in S
  PROVE  Front(c \o <<k>>) = c
<1>1. PICK n \in Nat : n = Len(c)
  BY LenProperties
<1>2. PICK p \in Seq(S) : /\ p = c \o <<k>> /\ Len(p) = n + 1
                          /\ \A i \in 1..n : p[i] = c[i]
  <2>1. /\ c \o <<k>> \in Seq(S) /\ Len(c \o <<k>>) = Len(c) + 1
        /\ \A i \in 1..Len(c) : (c \o <<k>>)[i] = c[i]
    BY WithOne
  <2> QED
    BY <1>1, <2>1, Zenon
<1>3. p # <<>>
  BY <1>2, EmptySeq
<1>4. PICK f : f = Front(p)
  OBVIOUS
<1>5. f \in Seq(S) /\ Len(f) = Len(p) - 1 /\ \A i \in 1..(Len(p) - 1) : f[i] = p[i]
  BY <1>3, <1>4, FrontOf
<1>6. Len(f) = n /\ \A i \in 1..n : f[i] = c[i]
  BY <1>2, <1>5
<1>7. f = c
  BY <1>1, <1>5, <1>6, SeqEqual
<1> QED
  BY <1>2, <1>4, <1>7

LEMMA DottedTable ==
  ASSUME NEW S, NEW c \in Seq(S), NEW k \in S, NEW j \in S
  PROVE  Front(c \o <<k, j>>) = c \o <<k>>
<1>1. PICK n \in Nat : n = Len(c)
  BY LenProperties
<1>2. PICK p \in Seq(S) : /\ p = c \o <<k, j>> /\ Len(p) = n + 2
                          /\ \A i \in 1..n : p[i] = c[i]
                          /\ p[n + 1] = k
  <2>1. /\ c \o <<k, j>> \in Seq(S) /\ Len(c \o <<k, j>>) = Len(c) + 2
        /\ \A i \in 1..Len(c) : (c \o <<k, j>>)[i] = c[i]
        /\ (c \o <<k, j>>)[Len(c) + 1] = k
    BY WithTwo
  <2> QED
    BY <1>1, <2>1, Zenon
<1>3. PICK q \in Seq(S) : /\ q = c \o <<k>> /\ Len(q) = n + 1
                          /\ \A i \in 1..n : q[i] = c[i]
                          /\ q[n + 1] = k
  <2>1. /\ c \o <<k>> \in Seq(S) /\ Len(c \o <<k>>) = Len(c) + 1
        /\ \A i \in 1..Len(c) : (c \o <<k>>)[i] = c[i]
        /\ (c \o <<k>>)[Len(c) + 1] = k
    BY WithOne
  <2> QED
    BY <1>1, <2>1, Zenon
<1>4. p # <<>>
  BY <1>2, EmptySeq
<1>5. PICK f : f = Front(p)
  OBVIOUS
<1>6. f \in Seq(S) /\ Len(f) = Len(p) - 1 /\ \A i \in 1..(Len(p) - 1) : f[i] = p[i]
  BY <1>4, <1>5, FrontOf
<1>7. Len(f) = n + 1 /\ \A i \in 1..(n + 1) : f[i] = p[i]
  <2>1. Len(p) - 1 = n + 1
    BY <1>2
  <2> QED
    BY <1>6, <2>1, Zenon
<1>8. \A i \in 1..(n + 1) : f[i] = q[i]
  <2>1. \A i \in 1..(n + 1) : i \in 1..n \/ i = n + 1
    OBVIOUS
  <2> QED
    BY <1>2, <1>3, <1>7, <2>1
<1>9. f = q
  <2>1. Len(f) = Len(q) /\ \A i \in 1..Len(f) : f[i] = q[i]
    BY <1>3, <1>7, <1>8
  <2> QED
    BY <1>6, <2>1, SeqEqual
<1> QED
  BY <1>2, <1>3, <1>5, <1>9

LEMMA KeyOfSection ==
  ASSUME NEW S, NEW s \in S, NEW k \in S
  PROVE  <<s>> \o <<k>> = <<s, k>>
<1>1. PICK c \in Seq(S) : c = <<s>> /\ Len(c) = 1 /\ c[1] = s
  <2>1. <<s>> \in Seq(S) /\ Len(<<s>>) = 1 /\ <<s>>[1] = s
    BY OneName
  <2> QED
    BY <2>1, Zenon
<1>2. PICK p : p = c \o <<k>>
  OBVIOUS
<1>3. /\ p \in Seq(S) /\ Len(p) = Len(c) + 1
      /\ \A i \in 1..Len(c) : p[i] = c[i]
      /\ p[Len(c) + 1] = k
  BY <1>2, WithOne
<1>4. Len(p) = 2 /\ p[1] = s /\ p[2] = k
  BY <1>1, <1>3
<1>5. p = <<s, k>>
  BY <1>3, <1>4, IsTwoNames
<1> QED
  BY <1>1, <1>2, <1>5

(* A path below an element of an array is a long one.                      *)
LEMMA KeyOfElement ==
  ASSUME NEW S, NEW s \in S, NEW x \in S, NEW k \in S
  PROVE  /\ <<s, x>> \o <<k>> \in Seq(S) /\ Len(<<s, x>> \o <<k>>) > 2
         /\ <<s, x>> \o <<k>> = <<s, x, k>>
<1>1. PICK c \in Seq(S) : c = <<s, x>> /\ Len(c) = 2 /\ c[1] = s /\ c[2] = x
  <2>1. <<s, x>> \in Seq(S) /\ Len(<<s, x>>) = 2 /\ <<s, x>>[1] = s
        /\ <<s, x>>[2] = x
    BY TwoNames
  <2> QED
    BY <2>1, Zenon
<1>2. PICK p : p = c \o <<k>>
  OBVIOUS
<1>3. /\ p \in Seq(S) /\ Len(p) = Len(c) + 1
      /\ \A i \in 1..Len(c) : p[i] = c[i]
      /\ p[Len(c) + 1] = k
  BY <1>2, WithOne
<1>4. Len(p) = 3 /\ Len(p) > 2 /\ p[1] = s /\ p[2] = x /\ p[3] = k
  BY <1>1, <1>3
<1>5. p = <<s, x, k>>
  BY <1>3, <1>4, IsThreeNames
<1> QED
  BY <1>1, <1>2, <1>3, <1>4, <1>5, Zenon

LEMMA DottedOfElement ==
  ASSUME NEW S, NEW s \in S, NEW x \in S, NEW k \in S, NEW j \in S
  PROVE  /\ <<s, x>> \o <<k, j>> \in Seq(S) /\ Len(<<s, x>> \o <<k, j>>) = 4
         /\ Len(<<s, x>> \o <<k, j>>) > 2
<1>1. PICK c \in Seq(S) : c = <<s, x>> /\ Len(c) = 2
  <2>1. <<s, x>> \in Seq(S) /\ Len(<<s, x>>) = 2
    BY TwoNames
  <2> QED
    BY <2>1, Zenon
<1>2. PICK p : p = c \o <<k, j>>
  OBVIOUS
<1>3. p \in Seq(S) /\ Len(p) = Len(c) + 2
  BY <1>2, WithTwo
<1>4. Len(p) = 4 /\ Len(p) > 2
  BY <1>1, <1>3
<1> QED
  BY <1>1, <1>2, <1>3, <1>4

-----------------------------------------------------------------------------
(* What one insertion, or two, do to sections and to their keys: the tree  *)
(* keeps what it has and gets, unless they are there, the sections in T as *)
(* v, or the keys in K as v.                                               *)
Grown(t, u) ==
    /\ u = [q \in DOMAIN u |-> u[q]]
    /\ DOMAIN u \in SUBSET (Paths \ {<<>>})
    /\ DOMAIN t \in SUBSET DOMAIN u
    /\ \A q \in DOMAIN t : u[q] = t[q]

NewTop(t, u, T, v) ==
    \A r \in Names :
        /\ <<r>> \in DOMAIN u <=> <<r>> \in DOMAIN t \/ r \in T
        /\ r \in T /\ <<r>> \notin DOMAIN t => u[<<r>>] = v

NewKey(t, u, K, v) ==
    \A r, k \in Names :
        /\ <<r, k>> \in DOMAIN u <=> <<r, k>> \in DOMAIN t \/ <<r, k>> \in K
        /\ <<r, k>> \in K /\ <<r, k>> \notin DOMAIN t => u[<<r, k>>] = v

LEMMA InsertGrows ==
  ASSUME NEW t, DOMAIN t \in SUBSET (Paths \ {<<>>}),
         NEW p \in Paths \ {<<>>}, NEW v
  PROVE  Grown(t, Insert(t, p, v))
<1>1. /\ DOMAIN Insert(t, p, v) = DOMAIN t \cup {p}
      /\ \A q \in DOMAIN t : Insert(t, p, v)[q] = t[q]
  BY DEF Insert
<1>2. /\ DOMAIN Insert(t, p, v) \in SUBSET (Paths \ {<<>>})
      /\ DOMAIN t \in SUBSET DOMAIN Insert(t, p, v)
  BY <1>1
<1>3. Insert(t, p, v) = [q \in DOMAIN Insert(t, p, v) |-> Insert(t, p, v)[q]]
  BY DEF Insert
<1> QED
  BY <1>1, <1>2, <1>3, Zenon DEF Grown

LEMMA InsertTop ==
  ASSUME NEW t, NEW s \in Names, NEW v, NEW w
  PROVE  /\ NewTop(t, Insert(t, <<s>>, v), {s}, v)
         /\ NewKey(t, Insert(t, <<s>>, v), {}, w)
<1>1. PICK u : u = Insert(t, <<s>>, v)
  OBVIOUS
<1>2. DOMAIN u = DOMAIN t \cup {<<s>>} /\ (<<s>> \notin DOMAIN t => u[<<s>>] = v)
  BY <1>1, Inserted
<1>3. \A r \in Names : <<r>> = <<s>> <=> r = s
  OBVIOUS
<1>4. \A r, k \in Names : <<r, k>> # <<s>>
  OBVIOUS
<1> QED
  BY <1>1, <1>2, <1>3, <1>4 DEF NewTop, NewKey

LEMMA InsertKey ==
  ASSUME NEW t, NEW s \in Names, NEW x \in Names, NEW v, NEW w
  PROVE  /\ NewTop(t, Insert(t, <<s, x>>, v), {}, w)
         /\ NewKey(t, Insert(t, <<s, x>>, v), {<<s, x>>}, v)
<1>1. PICK u : u = Insert(t, <<s, x>>, v)
  OBVIOUS
<1>2. /\ DOMAIN u = DOMAIN t \cup {<<s, x>>}
      /\ <<s, x>> \notin DOMAIN t => u[<<s, x>>] = v
  BY <1>1, Inserted
<1>3. \A r \in Names : <<r>> # <<s, x>>
  OBVIOUS
<1>4. NewTop(t, u, {}, w)
  BY <1>2, <1>3 DEF NewTop
<1>5. NewKey(t, u, {<<s, x>>}, v)
  BY <1>2 DEF NewKey
<1> QED
  BY <1>1, <1>4, <1>5

LEMMA LongPath ==
  ASSUME NEW S, NEW p \in Seq(S), Len(p) > 2, NEW r \in S, NEW k \in S
  PROVE  <<r>> # p /\ <<r, k>> # p
<1>1. Len(p) # 1 /\ Len(p) # 2
  <2>1. PICK n \in Nat : n = Len(p)
    BY LenProperties
  <2>2. n > 2
    BY <2>1
  <2>3. n # 1 /\ n # 2
    BY <2>2
  <2> QED
    BY <2>1, <2>3, Zenon
<1>2. Len(<<r>>) = 1
  BY OneName
<1>3. Len(<<r, k>>) = 2
  BY TwoNames
<1>4. <<r>> # p
  BY <1>1, <1>2, Zenon
<1>5. <<r, k>> # p
  BY <1>1, <1>3, Zenon
<1> QED
  BY <1>4, <1>5

LEMMA InsertDeep ==
  ASSUME NEW t, NEW p \in Paths, Len(p) > 2, NEW v, NEW w
  PROVE  /\ NewTop(t, Insert(t, p, v), {}, w)
         /\ NewKey(t, Insert(t, p, v), {}, w)
<1>1. PICK u : u = Insert(t, p, v)
  OBVIOUS
<1>2. DOMAIN u = DOMAIN t \cup {p}
  BY <1>1, Inserted
<1>3. \A r \in Names : <<r>> # p
  BY LongPath DEF Paths
<1>4. \A r, k \in Names : <<r, k>> # p
  BY LongPath DEF Paths
<1> QED
  BY <1>1, <1>2, <1>3, <1>4 DEF NewTop, NewKey

(* One insertion after another.                                            *)
LEMMA GrownTwice ==
  ASSUME NEW t, NEW u, NEW w, Grown(t, u), Grown(u, w)
  PROVE  Grown(t, w)
  BY DEF Grown

LEMMA TopThenNone ==
  ASSUME NEW t, NEW u, NEW w, NEW T, NEW v, NEW any,
         NewTop(t, u, T, v), NewTop(u, w, {}, any), Grown(u, w)
  PROVE  NewTop(t, w, T, v)
  BY DEF NewTop, Grown

LEMMA NoneThenKey ==
  ASSUME NEW t, NEW u, NEW w, NEW K, NEW v, NEW any,
         NewKey(t, u, {}, any), NewKey(u, w, K, v), Grown(t, u)
  PROVE  NewKey(t, w, K, v)
  BY DEF NewKey, Grown

LEMMA KeyThenNone ==
  ASSUME NEW t, NEW u, NEW w, NEW K, NEW v, NEW any,
         NewKey(t, u, K, v), NewKey(u, w, {}, any), Grown(u, w)
  PROVE  NewKey(t, w, K, v)
  BY DEF NewKey, Grown

-----------------------------------------------------------------------------
(* What each kind of line adds to the tree. *)
TreeTypes == DOMAIN tree \in SUBSET (Paths \ {<<>>})

Adds(T, v, K, w) ==
    Grown(tree, tree') /\ NewTop(tree, tree', T, v) /\ NewKey(tree, tree', K, w)

LEMMA ShortPaths ==
  ASSUME NEW s \in Names, NEW k \in Names
  PROVE  /\ <<s>> \in Paths \ {<<>>} /\ Len(<<s>>) = 1 /\ <<s>>[1] = s
         /\ <<s, k>> \in Paths \ {<<>>} /\ Len(<<s, k>>) = 2
         /\ <<s, k>>[1] = s /\ <<s, k>>[2] = k
<1>1. <<s>> \in Seq(Names) /\ Len(<<s>>) = 1 /\ <<s>>[1] = s
  BY OneName
<1>2. /\ <<s, k>> \in Seq(Names) /\ Len(<<s, k>>) = 2
      /\ <<s, k>>[1] = s /\ <<s, k>>[2] = k
  BY TwoNames
<1>3. Len(<<>>) = 0
  BY EmptySeq
<1>4. <<s>> # <<>> /\ <<s, k>> # <<>>
  OBVIOUS
<1> QED
  BY <1>1, <1>2, <1>4 DEF Paths

LEMMA TableAdds ==
  ASSUME TreeTypes, NEW s \in Names, OpenTable(<<s>>)
  PROVE  Adds({s}, "table", {}, "table")
<1>1. tree' = Insert(tree, <<s>>, "table")
  BY DEF OpenTable
<1>2. Grown(tree, tree')
  BY <1>1, ShortPaths, InsertGrows DEF TreeTypes
<1> QED
  BY <1>1, <1>2, InsertTop DEF Adds

LEMMA ArrayAdds ==
  ASSUME TreeTypes, NEW s \in Names, NEW x \in Names, Element(<<s>>) = <<s, x>>,
         OpenArray(<<s>>)
  PROVE  Adds({s}, "array", {<<s, x>>}, "table")
<1>1. PICK u : u = Insert(tree, <<s>>, "array")
  OBVIOUS
<1>2. tree' = Insert(u, <<s, x>>, "table")
  BY <1>1 DEF OpenArray
<1>3. Grown(tree, u)
  BY <1>1, ShortPaths, InsertGrows DEF TreeTypes
<1>4. DOMAIN u \in SUBSET (Paths \ {<<>>})
  BY <1>3 DEF Grown
<1>5. Grown(u, tree')
  BY <1>2, <1>4, ShortPaths, InsertGrows
<1>6. NewTop(tree, u, {s}, "array") /\ NewKey(tree, u, {}, "table")
  BY <1>1, InsertTop
<1>7. NewTop(u, tree', {}, "array") /\ NewKey(u, tree', {<<s, x>>}, "table")
  BY <1>2, InsertKey
<1>8. Grown(tree, tree')
  BY <1>3, <1>5, GrownTwice
<1>9. NewTop(tree, tree', {s}, "array")
  BY <1>5, <1>6, <1>7, TopThenNone
<1>10. NewKey(tree, tree', {<<s, x>>}, "table")
  BY <1>3, <1>6, <1>7, NoneThenKey
<1> QED
  BY <1>8, <1>9, <1>10 DEF Adds

(* A key outside of every section is a section of its own to the reader.   *)
LEMMA TopKeyAdds ==
  ASSUME TreeTypes, cur = <<>>, NEW line, NEW a \in Names, line.at = <<a>>,
         StoreKey(line)
  PROVE  Adds({a}, line.val, {}, "table")
<1>1. Target(line) = <<a>> /\ Front(<<a>>) = <<>>
  <2>1. <<>> \in Seq(Names) /\ <<a>> \in Seq(Names)
    BY EmptySeq, OneName
  <2>2. <<>> \o <<a>> = <<a>>
    BY <2>1, ConcatEmptySeq
  <2>3. Front(<<>> \o <<a>>) = <<>>
    BY <2>1, PlainTable
  <2> QED
    BY <2>2, <2>3 DEF Target
<1>2. Table(line) = cur
  BY <1>1 DEF Table
<1>3. tree' = Insert(tree, <<a>>, line.val)
  BY <1>1, <1>2 DEF StoreKey
<1>4. Grown(tree, tree')
  BY <1>3, ShortPaths, InsertGrows DEF TreeTypes
<1> QED
  BY <1>3, <1>4, InsertTop DEF Adds

LEMMA TopDottedAdds ==
  ASSUME TreeTypes, cur = <<>>, NEW line, NEW a \in Names, NEW b \in Names,
         line.at = <<a, b>>, StoreKey(line)
  PROVE  /\ Table(line) = <<a>> /\ Target(line) = <<a, b>>
         /\ Adds({a}, "table", {<<a, b>>}, line.val)
<1>1. Target(line) = <<a, b>> /\ Front(<<a, b>>) = <<a>>
  <2>1. <<>> \in Seq(Names) /\ <<a>> \in Seq(Names) /\ <<a, b>> \in Seq(Names)
    BY EmptySeq, OneName, TwoNames
  <2>2. <<>> \o <<a>> = <<a>> /\ <<>> \o <<a, b>> = <<a, b>>
    BY <2>1, ConcatEmptySeq
  <2>3. Front(<<>> \o <<a, b>>) = <<>> \o <<a>>
    BY <2>1, DottedTable
  <2> QED
    BY <2>2, <2>3 DEF Target
<1>2. Table(line) = <<a>> /\ <<a>> # cur
  BY <1>1 DEF Table
<1>3. PICK u : u = Insert(tree, <<a>>, "table")
  OBVIOUS
<1>4. tree' = Insert(u, <<a, b>>, line.val)
  BY <1>1, <1>2, <1>3 DEF StoreKey
<1>5. Grown(tree, u)
  BY <1>3, ShortPaths, InsertGrows DEF TreeTypes
<1>6. DOMAIN u \in SUBSET (Paths \ {<<>>})
  BY <1>5 DEF Grown
<1>7. Grown(u, tree')
  BY <1>4, <1>6, ShortPaths, InsertGrows
<1>8. NewTop(tree, u, {a}, "table") /\ NewKey(tree, u, {}, "table")
  BY <1>3, InsertTop
<1>9. NewTop(u, tree', {}, "table") /\ NewKey(u, tree', {<<a, b>>}, line.val)
  BY <1>4, InsertKey
<1>10. Grown(tree, tree')
  BY <1>5, <1>7, GrownTwice
<1>11. NewTop(tree, tree', {a}, "table")
  BY <1>7, <1>8, <1>9, TopThenNone
<1>12. NewKey(tree, tree', {<<a, b>>}, line.val)
  BY <1>5, <1>8, <1>9, NoneThenKey
<1> QED
  BY <1>1, <1>2, <1>10, <1>11, <1>12 DEF Adds

LEMMA SectionKeyAdds ==
  ASSUME TreeTypes, NEW s \in Names, cur = <<s>>, NEW line, NEW k \in Names,
         line.at = <<k>>, StoreKey(line)
  PROVE  Adds({}, "table", {<<s, k>>}, line.val)
<1>1. Target(line) = <<s, k>> /\ Front(<<s, k>>) = <<s>>
  <2>1. <<s>> \in Seq(Names)
    BY OneName
  <2>2. Front(<<s>> \o <<k>>) = <<s>>
    BY <2>1, PlainTable
  <2> QED
    BY <2>2, KeyOfSection DEF Target
<1>2. Table(line) = cur
  BY <1>1 DEF Table
<1>3. tree' = Insert(tree, <<s, k>>, line.val)
  BY <1>1, <1>2 DEF StoreKey
<1>4. Grown(tree, tree')
  BY <1>3, ShortPaths, InsertGrows DEF TreeTypes
<1> QED
  BY <1>3, <1>4, InsertKey DEF Adds

LEMMA SectionDottedAdds ==
  ASSUME TreeTypes, NEW s \in Names, cur = <<s>>, NEW line, NEW k \in Names,
         NEW j \in Names, line.at = <<k, j>>, StoreKey(line)
  PROVE  /\ Table(line) = <<s, k>>
         /\ Adds({}, "table", {<<s, k>>}, "table")
<1>1. PICK p \in Paths : /\ Target(line) = p /\ p # <<>> /\ Len(p) > 2
                         /\ Front(p) = <<s, k>> /\ <<s, k>> # cur
  <2>1. PICK p \in Seq(Names) :
          p = <<s>> \o <<k, j>> /\ Len(p) > 2 /\ Front(p) = <<s, k>>
    <3>1. PICK c \in Seq(Names) : c = <<s>> /\ Len(c) = 1
      <4>1. <<s>> \in Seq(Names) /\ Len(<<s>>) = 1
        BY OneName
      <4> QED
        BY <4>1, Zenon
    <3>2. PICK p : p = c \o <<k, j>>
      OBVIOUS
    <3>3. p \in Seq(Names) /\ Len(p) = Len(c) + 2
      BY <3>2, WithTwo
    <3>4. Len(p) > 2
      BY <3>1, <3>3
    <3>5. Front(p) = c \o <<k>>
      BY <3>2, DottedTable
    <3>6. c \o <<k>> = <<s, k>>
      BY <3>1, KeyOfSection
    <3> QED
      BY <3>1, <3>2, <3>3, <3>4, <3>5, <3>6, Zenon
  <2>2. p # <<>>
    BY <2>1, EmptySeq
  <2>3. <<s, k>> # cur
    OBVIOUS
  <2>4. Target(line) = p
    BY <2>1 DEF Target
  <2> QED
    BY <2>1, <2>2, <2>3, <2>4 DEF Paths
<1>2. Table(line) = <<s, k>>
  BY <1>1 DEF Table
<1>3. PICK u : u = Insert(tree, <<s, k>>, "table")
  OBVIOUS
<1>4. tree' = Insert(u, p, line.val)
  BY <1>1, <1>2, <1>3 DEF StoreKey
<1>5. Grown(tree, u)
  BY <1>3, ShortPaths, InsertGrows DEF TreeTypes
<1>6. DOMAIN u \in SUBSET (Paths \ {<<>>})
  BY <1>5 DEF Grown
<1>7. Grown(u, tree')
  BY <1>1, <1>4, <1>6, InsertGrows
<1>8. NewTop(tree, u, {}, "table") /\ NewKey(tree, u, {<<s, k>>}, "table")
  BY <1>3, InsertKey
<1>9. NewTop(u, tree', {}, "table") /\ NewKey(u, tree', {}, "table")
  BY <1>1, <1>4, InsertDeep
<1>10. Grown(tree, tree')
  BY <1>5, <1>7, GrownTwice
<1>11. NewTop(tree, tree', {}, "table")
  BY <1>7, <1>8, <1>9, TopThenNone
<1>12. NewKey(tree, tree', {<<s, k>>}, "table")
  BY <1>7, <1>8, <1>9, KeyThenNone
<1> QED
  BY <1>2, <1>10, <1>11, <1>12 DEF Adds

(* A key of an element of an array.                                        *)
LEMMA ElementKeyAdds ==
  ASSUME TreeTypes, NEW s \in Names, NEW x \in Names, cur = <<s, x>>, NEW line,
         NEW k \in Names, NEW j \in Names, line.at \in {<<k>>, <<k, j>>},
         StoreKey(line)
  PROVE  Adds({}, "table", {}, "table")
<1>0. <<s, x>> \in Seq(Names)
  BY TwoNames
<1>1. CASE line.at = <<k>>
  <2>1. PICK p \in Seq(Names) : p = <<s, x>> \o <<k>> /\ Len(p) > 2
    <3>1. <<s, x>> \o <<k>> \in Seq(Names) /\ Len(<<s, x>> \o <<k>>) > 2
      BY KeyOfElement
    <3> QED
      BY <3>1, Zenon
  <2>2. p # <<>>
    BY <2>1, EmptySeq
  <2>3. Table(line) = cur /\ Target(line) = p
    BY <1>0, <1>1, <2>1, PlainTable DEF Table, Target
  <2>4. tree' = Insert(tree, p, line.val)
    BY <2>3 DEF StoreKey
  <2>5. Grown(tree, tree')
    BY <2>2, <2>4, InsertGrows DEF TreeTypes, Paths
  <2>6. NewTop(tree, tree', {}, "table") /\ NewKey(tree, tree', {}, "table")
    BY <2>1, <2>4, InsertDeep DEF Paths
  <2> QED
    BY <2>5, <2>6 DEF Adds
<1>2. CASE line.at = <<k, j>>
  <2>1. PICK f \in Seq(Names) : f = <<s, x>> \o <<k>> /\ Len(f) > 2
    <3>1. <<s, x>> \o <<k>> \in Seq(Names) /\ Len(<<s, x>> \o <<k>>) > 2
      BY KeyOfElement
    <3> QED
      BY <3>1, Zenon
  <2>2. PICK p \in Seq(Names) : p = <<s, x>> \o <<k, j>> /\ Len(p) > 2
    <3>1. <<s, x>> \o <<k, j>> \in Seq(Names) /\ Len(<<s, x>> \o <<k, j>>) > 2
      BY DottedOfElement
    <3> QED
      BY <3>1, Zenon
  <2>3. p # <<>> /\ f # <<>>
    BY <2>1, <2>2, EmptySeq
  <2>4. f # cur
    BY <2>1, LongPath
  <2>5. Table(line) = f /\ Target(line) = p
    <3>1. Front(<<s, x>> \o <<k, j>>) = <<s, x>> \o <<k>>
      BY <1>0, DottedTable
    <3>2. Target(line) = p
      BY <1>2, <2>2 DEF Target
    <3> QED
      BY <2>1, <2>2, <3>1, <3>2 DEF Table
  <2>6. PICK u : u = Insert(tree, f, "table")
    OBVIOUS
  <2>7. tree' = Insert(u, p, line.val)
    BY <2>4, <2>5, <2>6 DEF StoreKey
  <2>8. Grown(tree, u)
    BY <2>3, <2>6, InsertGrows DEF TreeTypes, Paths
  <2>9. DOMAIN u \in SUBSET (Paths \ {<<>>})
    BY <2>8 DEF Grown
  <2>10. Grown(u, tree')
    BY <2>3, <2>7, <2>9, InsertGrows DEF Paths
  <2>11. NewTop(tree, u, {}, "table") /\ NewKey(tree, u, {}, "table")
    BY <2>1, <2>6, InsertDeep DEF Paths
  <2>12. NewTop(u, tree', {}, "table") /\ NewKey(u, tree', {}, "table")
    BY <2>2, <2>7, InsertDeep DEF Paths
  <2>13. Grown(tree, tree')
    BY <2>8, <2>10, GrownTwice
  <2>14. NewTop(tree, tree', {}, "table")
    BY <2>10, <2>11, <2>12, TopThenNone
  <2>15. NewKey(tree, tree', {}, "table")
    BY <2>10, <2>11, <2>12, KeyThenNone
  <2> QED
    BY <2>13, <2>14, <2>15 DEF Adds
<1> QED
  BY <1>1, <1>2

-----------------------------------------------------------------------------
(* The lines: those of the file --generate_config writes, and those of the *)
(* options followed by the file.                                           *)
LEMMA ListsAll ==
  ASSUME NEW S, IsFiniteSet(S)
  PROVE  SetToSeq(S) \in Seq(S)
<1>1. PICK n \in Nat : n = Cardinality(S)
  BY FS_CardinalityType
<1>2. PICK f \in Bijection(1..n, S) : TRUE
  BY <1>1, FS_CardinalityType DEF ExistsBijection
<1>3. f \in [1..n -> S] /\ IsInjective(f)
  BY <1>2 DEF Bijection, Injection, IsInjective
<1>4. SetToSeq(S) = CHOOSE g \in [1..n -> S] : IsInjective(g)
  BY <1>1 DEF SetToSeq
<1>5. SetToSeq(S) \in [1..n -> S]
  BY <1>3, <1>4
<1> QED
  BY <1>5, SeqDef

LEMMA ExportedKeys ==
  /\ DOMAIN Exported["server"] =
        {"bind", "port", "threads", "request_limit", "allow_prioritization",
         "allow_control", "log_to_stderr"}
  /\ DOMAIN Exported["work"] = {"base_difficulty", "mock_work_generation_delay"}
  /\ DOMAIN Exported["admin"] = {"path", "enable", "allow_remote"}
  /\ DOMAIN Exported["device"] =
        {"type", "device_id", "platform_id", "memory", "threads"}
<1>1. /\ Exported["server"] = Defaults["server"]
      /\ Exported["work"] = Defaults["work"]
      /\ Exported["admin"] = Defaults["admin"]
  BY DEF Exported, Defaults
<1>2. DOMAIN Defaults["server"] =
        {"bind", "port", "threads", "request_limit", "allow_prioritization",
         "allow_control", "log_to_stderr"}
  BY DEF Defaults
<1>3. DOMAIN Defaults["work"] = {"base_difficulty", "mock_work_generation_delay"}
  BY DEF Defaults
<1>4. DOMAIN Defaults["admin"] = {"path", "enable", "allow_remote"}
  BY DEF Defaults
<1>5. DOMAIN Exported["device"] =
        {"type", "device_id", "platform_id", "memory", "threads"}
  BY DEF Exported, Defaults
<1> QED
  BY <1>1, <1>2, <1>3, <1>4, <1>5, Zenon

LEMMA DefaultValues ==
  /\ \A j \in DOMAIN Defaults["server"] : Defaults["server"][j] \in Literals
  /\ \A j \in DOMAIN Defaults["work"] : Defaults["work"][j] \in Literals
  /\ \A j \in DOMAIN Defaults["admin"] : Defaults["admin"][j] \in Literals
  BY DEF Defaults, Literals, Flags, Texts, Addresses, Numbers, Accepts

LEMMA ExportedValues ==
  ASSUME NEW s \in Sections,
         NEW k \in DOMAIN Exported[s]
  PROVE  Exported[s][k] \in Literals
<1>1. /\ Exported["server"] = Defaults["server"]
      /\ Exported["work"] = Defaults["work"]
      /\ Exported["admin"] = Defaults["admin"]
  BY DEF Exported, Defaults
<1>2. \A j \in DOMAIN Exported["device"] : Exported["device"][j] \in Literals
  BY DEF Exported, Defaults, Literals, Flags, Texts, Addresses, Numbers, Accepts
<1>3. /\ \A j \in DOMAIN Exported["server"] : Exported["server"][j] \in Literals
      /\ \A j \in DOMAIN Exported["work"] : Exported["work"][j] \in Literals
      /\ \A j \in DOMAIN Exported["admin"] : Exported["admin"][j] \in Literals
  BY <1>1, DefaultValues, Zenon
<1>4. s = "server" \/ s = "work" \/ s = "admin" \/ s = "device"
  BY DEF Sections
<1> QED
  <2>1. CASE s = "server"
    BY <1>3, <2>1
  <2>2. CASE s = "work"
    BY <1>3, <2>2
  <2>3. CASE s = "admin"
    BY <1>3, <2>3
  <2>4. CASE s = "device"
    BY <1>2, <2>4
  <2> QED
    BY <1>4, <2>1, <2>2, <2>3, <2>4

LEMMA SettingsFinite ==
  ASSUME NEW s \in Sections
  PROVE  IsFiniteSet({Setting(k, Exported[s][k]) : k \in DOMAIN Exported[s]})
<1>1. DOMAIN Exported[s] \in SUBSET
        {"bind", "port", "threads", "request_limit", "allow_prioritization",
         "allow_control", "log_to_stderr", "base_difficulty",
         "mock_work_generation_delay", "path", "enable", "allow_remote",
         "type", "device_id", "platform_id", "memory"}
  BY ExportedKeys DEF Sections
<1>2. IsFiniteSet(DOMAIN Exported[s])
  <2> DEFINE F1 == {"bind", "port", "threads", "request_limit"}
             F2 == {"allow_prioritization", "allow_control", "log_to_stderr",
                    "base_difficulty"}
             F3 == {"mock_work_generation_delay", "path", "enable", "allow_remote"}
             F4 == {"type", "device_id", "platform_id", "memory"}
  <2>0. \A a, b, c, d : IsFiniteSet({a, b, c, d})
    <3> SUFFICES ASSUME NEW a, NEW b, NEW c, NEW d PROVE IsFiniteSet({a, b, c, d})
      OBVIOUS
    <3>1. IsFiniteSet({a} \cup {b})
      BY FS_Singleton, FS_Union
    <3>2. IsFiniteSet({c} \cup {d})
      BY FS_Singleton, FS_Union
    <3>3. IsFiniteSet(({a} \cup {b}) \cup ({c} \cup {d}))
      BY <3>1, <3>2, FS_Union
    <3>4. ({a} \cup {b}) \cup ({c} \cup {d}) = {a, b, c, d}
      OBVIOUS
    <3> QED
      BY <3>3, <3>4
  <2>1. IsFiniteSet(F1) /\ IsFiniteSet(F2) /\ IsFiniteSet(F3) /\ IsFiniteSet(F4)
    BY <2>0
  <2>2. DOMAIN Exported[s] \in SUBSET ((F1 \cup F2) \cup (F3 \cup F4))
    BY <1>1
  <2> HIDE DEF F1, F2, F3, F4
  <2>3. IsFiniteSet(F1 \cup F2) /\ IsFiniteSet(F3 \cup F4)
    BY <2>1, FS_Union
  <2>4. IsFiniteSet((F1 \cup F2) \cup (F3 \cup F4))
    BY <2>3, FS_Union
  <2> QED
    BY <2>2, <2>4, FS_Subset
<1> DEFINE D == DOMAIN Exported[s]
           S == {Setting(k, Exported[s][k]) : k \in D}
           f == [k \in D |-> Setting(k, Exported[s][k])]
<1>3. f \in Surjection(D, S)
  BY DEF Surjection
<1> HIDE DEF f
<1>4. IsFiniteSet(S)
  BY <1>2, <1>3, FS_Surjection
<1> QED
  BY <1>4

(* Lines as the theorems see them.                                         *)
Rows ==
    [form : {"table", "array", "key", "comment", "garbage"},
     at : Paths, val : Literals \cup {"table"}]

Rowed(row) ==
    /\ IsHeader(row) => Len(row.at) = 1
    /\ row.form = "key" => Len(row.at) \in {1, 2} /\ row.val \in Literals

(* A section is written as its header and lines that are keys.             *)
LEMMA WrittenLines ==
  ASSUME NEW s \in Sections
  PROVE  \E keys \in Seq({row \in Rows : row.form = "key" /\ Rowed(row)}) :
            Written(s) = <<Header(s)>> \o keys
<1> DEFINE S == {Setting(k, Exported[s][k]) : k \in DOMAIN Exported[s]}
           R == {row \in Rows : row.form = "key" /\ Rowed(row)}
<1>1. SetToSeq(S) \in Seq(S)
  BY SettingsFinite, ListsAll
<1>2. ASSUME NEW k \in DOMAIN Exported[s]
      PROVE  Setting(k, Exported[s][k]) \in R
  <2>1. k \in Names /\ Exported[s][k] \in Literals
    BY ExportedValues DEF Names
  <2>2. PICK p \in Paths : p = <<k>> /\ Len(p) = 1
    <3>1. <<k>> \in Seq(Names) /\ Len(<<k>>) = 1
      BY <2>1, OneName
    <3> QED
      BY <3>1, Zenon DEF Paths
  <2>3. PICK v \in Literals : v = Exported[s][k]
    BY <2>1
  <2>4. Setting(k, Exported[s][k]) = [form |-> "key", at |-> p, val |-> v]
    BY <2>2, <2>3, Zenon DEF Setting
  <2>5. [form |-> "key", at |-> p, val |-> v] \in R
    BY <2>2 DEF Rows, Rowed, IsHeader
  <2> QED
    BY <2>4, <2>5, Zenon
<1>3. S \subseteq R
  BY <1>2
<1>4. SetToSeq(S) \in Seq(R)
  BY <1>1, <1>3, SeqMonotonic
<1> QED
  BY <1>4 DEF Written

WrittenRows == {row \in Rows : row.form \in {"table", "key"} /\ Rowed(row)}

LEMMA HeaderRow ==
  ASSUME NEW s \in Sections
  PROVE  Header(s) \in WrittenRows
<1>1. s \in Names
  BY DEF Names
<1>2. PICK p \in Paths : p = <<s>> /\ Len(p) = 1
  <2>1. <<s>> \in Seq(Names) /\ Len(<<s>>) = 1
    BY <1>1, OneName
  <2> QED
    BY <2>1, Zenon DEF Paths
<1>3. Header(s) = [form |-> "table", at |-> p, val |-> "table"]
  BY <1>2, Zenon DEF Header
<1>4. [form |-> "table", at |-> p, val |-> "table"] \in WrittenRows
  BY <1>2 DEF WrittenRows, Rows, Rowed, IsHeader
<1> QED
  BY <1>3, <1>4, Zenon

LEMMA WrittenStarts ==
  ASSUME NEW s \in Sections
  PROVE  /\ Written(s) \in Seq(WrittenRows)
         /\ Len(Written(s)) > 0 /\ Written(s)[1] = Header(s)
<1> DEFINE R == {row \in Rows : row.form = "key" /\ Rowed(row)}
<1>1. PICK keys \in Seq(R) : Written(s) = <<Header(s)>> \o keys
  BY WrittenLines
<1>2. R \subseteq WrittenRows
  BY DEF WrittenRows
<1>3. keys \in Seq(WrittenRows)
  BY <1>1, <1>2, SeqMonotonic
<1>4. PICK h \in Seq(WrittenRows) : h = <<Header(s)>> /\ Len(h) = 1 /\ h[1] = Header(s)
  <2>1. /\ <<Header(s)>> \in Seq(WrittenRows) /\ Len(<<Header(s)>>) = 1
        /\ <<Header(s)>>[1] = Header(s)
    BY HeaderRow, OneName
  <2> QED
    BY <2>1, Zenon
<1>5. PICK n \in Nat : n = Len(keys)
  BY <1>3, LenProperties
<1>6. PICK w : w = h \o keys
  OBVIOUS
<1>7. /\ w \in Seq(WrittenRows) /\ Len(w) = Len(h) + Len(keys)
      /\ \A i \in 1..(Len(h) + Len(keys)) :
            w[i] = IF i <= Len(h) THEN h[i] ELSE keys[i - Len(h)]
  BY <1>3, <1>6, ConcatProperties
<1>8. Len(w) > 0 /\ w[1] = h[1]
  BY <1>4, <1>5, <1>7
<1> QED
  BY <1>1, <1>4, <1>6, <1>7, <1>8

LEMMA AllWrittenShape ==
  /\ AllWritten \in Seq(WrittenRows)
  /\ \E i \in 1..Len(AllWritten) : AllWritten[i] = Header("device")
<1>1. PICK s \in Seq(WrittenRows) : s = Written("server")
  BY WrittenStarts DEF Sections
<1>2. PICK w \in Seq(WrittenRows) : w = Written("work")
  BY WrittenStarts DEF Sections
<1>3. PICK d \in Seq(WrittenRows) :
        d = Written("device") /\ Len(d) > 0 /\ d[1] = Header("device")
  <2>1. "device" \in Sections
    BY DEF Sections
  <2>2. /\ Written("device") \in Seq(WrittenRows) /\ Len(Written("device")) > 0
        /\ Written("device")[1] = Header("device")
    BY <2>1, WrittenStarts
  <2> QED
    BY <2>2, Zenon
<1>4. PICK a \in Seq(WrittenRows) : a = Written("admin")
  BY WrittenStarts DEF Sections
<1>5. PICK u : u = s \o w
  OBVIOUS
<1>6. u \in Seq(WrittenRows)
  BY <1>5, ConcatProperties
<1>7. PICK v : v = u \o d
  OBVIOUS
<1>8. PICK n \in Nat, m \in Nat : n = Len(u) /\ m = Len(d) /\ m > 0
  BY <1>3, <1>6, LenProperties
<1>9. /\ v \in Seq(WrittenRows) /\ Len(v) = Len(u) + Len(d)
      /\ \A i \in 1..(Len(u) + Len(d)) :
            v[i] = IF i <= Len(u) THEN u[i] ELSE d[i - Len(u)]
  BY <1>6, <1>7, ConcatProperties
<1>10. n + 1 \in 1..Len(v) /\ v[n + 1] = Header("device")
  <2>1. /\ n + 1 \in 1..(n + m) /\ ~(n + 1 <= n) /\ n + 1 - n = 1
        /\ Len(v) = n + m
    BY <1>8, <1>9
  <2>2. \A i \in 1..(n + m) : v[i] = IF i <= n THEN u[i] ELSE d[i - n]
    BY <1>8, <1>9, Zenon
  <2>3. v[n + 1] = d[1]
    BY <2>1, <2>2
  <2> QED
    BY <1>3, <2>1, <2>3
<1>11. PICK all : all = v \o a
  OBVIOUS
<1>v. v \in Seq(WrittenRows)
  BY <1>9
<1>12. /\ all \in Seq(WrittenRows) /\ Len(all) = Len(v) + Len(a)
       /\ \A i \in 1..(Len(v) + Len(a)) :
             all[i] = IF i <= Len(v) THEN v[i] ELSE a[i - Len(v)]
  BY <1>v, <1>11, ConcatProperties
<1>13. PICK k \in Nat, l \in Nat : k = Len(v) /\ l = Len(a)
  BY <1>9, LenProperties
<1>14. n + 1 \in 1..Len(all) /\ all[n + 1] = v[n + 1]
  BY <1>10, <1>12, <1>13
<1>15. AllWritten = all
  BY <1>1, <1>2, <1>3, <1>4, <1>5, <1>7, <1>11, Zenon DEF AllWritten
<1> QED
  BY <1>10, <1>12, <1>14, <1>15, Zenon

(* The generated file has headers, one of a device, and comments.          *)
LEMMA ExportShape ==
  /\ ExportDocumented \in Seq(Rows)
  /\ \A i \in 1..Len(ExportDocumented) :
        /\ Rowed(ExportDocumented[i])
        /\ ExportDocumented[i].form \in {"table", "comment"}
  /\ \E i \in 1..Len(ExportDocumented) : ExportDocumented[i] = Header("device")
<1>1. PICK w \in Seq(WrittenRows) : w = AllWritten
  BY AllWrittenShape
<1>2. PICK n \in Nat : n = Len(w) /\ \A i \in 1..n : w[i] \in WrittenRows
  BY LenProperties, ElementOfSeq
<1>3. PICK e : e = [i \in 1..n |-> IF Survives(w[i]) THEN w[i] ELSE Comment]
  OBVIOUS
<1>4. Comment \in Rows /\ Rowed(Comment) /\ Comment.form = "comment"
  <2>1. PICK p \in Paths : p = <<>>
    BY EmptySeq DEF Paths
  <2>2. Comment = [form |-> "comment", at |-> p, val |-> "table"]
    BY <2>1 DEF Comment
  <2>3. [form |-> "comment", at |-> p, val |-> "table"] \in Rows
    BY DEF Rows
  <2> QED
    BY <2>2, <2>3 DEF Rowed, IsHeader
<1>5. ASSUME NEW i \in 1..n
      PROVE  /\ e[i] \in Rows /\ Rowed(e[i]) /\ e[i].form \in {"table", "comment"}
             /\ w[i].form = "table" => e[i] = w[i]
  <2>1. w[i] \in Rows /\ Rowed(w[i])
    BY <1>2 DEF WrittenRows
  <2>2. e[i] = IF w[i].form = "table" THEN w[i] ELSE Comment
    BY <1>3 DEF Survives
  <2> QED
    BY <1>4, <2>1, <2>2
<1>6. e \in [1..n -> Rows]
  BY <1>3, <1>5
<1>7. e \in Seq(Rows) /\ Len(e) = n
  BY <1>6, SeqDef
<1>8. PICK i \in 1..n : w[i] = Header("device")
  BY <1>1, <1>2, AllWrittenShape
<1>9. e[i] = Header("device")
  <2>1. Header("device").form = "table"
    BY DEF Header
  <2> QED
    BY <1>5, <1>8, <2>1
<1>10. ExportDocumented = e
  <2>1. n = Len(AllWritten)
    BY <1>1, <1>2
  <2>2. e = [k \in 1..Len(AllWritten) |->
               IF Survives(AllWritten[k]) THEN AllWritten[k] ELSE Comment]
    BY <1>1, <1>3, <2>1, Zenon
  <2> QED
    BY <2>2, Zenon DEF ExportDocumented
<1> QED
  BY <1>5, <1>7, <1>9, <1>10

LEMMA TextRows ==
  ASSUME NEW text \in CommandLines \cup Files \cup {ExportDocumented}
  PROVE  text \in Seq(Rows) /\ \A i \in 1..Len(text) : Rowed(text[i])
<1>1. CASE text = ExportDocumented
  BY <1>1, ExportShape
<1>2. CASE text \in CommandLines \cup Files
  <2>1. WellFormed(text)
    BY <1>2, LinesAssumption
  <2>2. \A i \in 1..Len(text) : Rowed(text[i])
    BY <2>1 DEF WellFormed, Rowed
  <2>3. Line \subseteq Rows
    <3>1. STRING \subseteq Names
      BY DEF Names
    <3>2. Seq(STRING) \subseteq Paths
      BY <3>1, SeqMonotonic DEF Paths
    <3> QED
      BY <3>2 DEF Line, Rows
  <2>4. text \in Seq(Rows)
    BY <2>1, <2>3, SeqMonotonic DEF WellFormed
  <2> QED
    BY <2>2, <2>4
<1> QED
  BY <1>1, <1>2

LEMMA CombinedRows ==
  ASSUME TextTypes
  PROVE  /\ overrides \in Seq(Rows) /\ file \in Seq(Rows) /\ Combined \in Seq(Rows)
         /\ Len(Combined) = Len(overrides) + Len(file)
         /\ \A i \in 1..Len(Combined) :
               Combined[i] = IF i <= Len(overrides) THEN overrides[i]
                                                    ELSE file[i - Len(overrides)]
<1>1. overrides \in Seq(Rows) /\ file \in Seq(Rows)
  BY TextRows DEF TextTypes
<1> QED
  BY <1>1, ConcatProperties DEF Combined

(* A line is a header of one name, a key of one or two, or says nothing.   *)
IsKeyRow(row) ==
    /\ row.form = "key" /\ row.val \in Literals
    /\ \/ \E k \in Names : row.at = <<k>>
       \/ \E k, j \in Names : row.at = <<k, j>>

LEMMA RowKinds ==
  ASSUME NEW row \in Rows, Rowed(row)
  PROVE  \/ IsHeader(row) /\ \E s \in Names : row.at = <<s>>
         \/ IsKeyRow(row)
         \/ row.form \in {"comment", "garbage"}
<1>1. PICK p \in Seq(Names) : p = row.at
  BY DEF Rows, Paths
<1>2. CASE IsHeader(row)
  <2>1. Len(p) = 1
    BY <1>1, <1>2 DEF Rowed
  <2>2. p[1] \in Names /\ p = <<p[1]>>
    BY <2>1, IsOneName
  <2> QED
    BY <1>1, <1>2, <2>2
<1>3. CASE row.form = "key" /\ Len(p) = 1
  <2>1. p[1] \in Names /\ p = <<p[1]>>
    BY <1>3, IsOneName
  <2>2. \E k \in Names : row.at = <<k>>
    BY <1>1, <2>1
  <2> QED
    BY <1>3, <2>2 DEF IsKeyRow, Rowed
<1>4. CASE row.form = "key" /\ Len(p) = 2
  <2>1. p[1] \in Names /\ p[2] \in Names /\ p = <<p[1], p[2]>>
    BY <1>4, IsTwoNames
  <2>2. \E k, j \in Names : row.at = <<k, j>>
    BY <1>1, <2>1
  <2> QED
    BY <1>4, <2>2 DEF IsKeyRow, Rowed
<1>5. row.form = "key" => Len(p) \in {1, 2}
  BY <1>1 DEF Rowed
<1> QED
  BY <1>2, <1>3, <1>4, <1>5 DEF Rows, IsHeader

LEMMA CombinedKinds ==
  ASSUME TextTypes, NEW i \in 1..Len(Combined)
  PROVE  /\ Combined[i] \in Rows
         /\ \/ /\ IsHeader(Combined[i])
               /\ \E s \in Names : Combined[i].at = <<s>>
            \/ IsKeyRow(Combined[i])
            \/ Combined[i].form \in {"comment", "garbage"}
<1>1. PICK row : row = Combined[i]
  OBVIOUS
<1>2. row \in Rows
  BY <1>1, CombinedRows, ElementOfSeq
<1>3. Rowed(row)
  <2>1. /\ \A k \in 1..Len(overrides) : Rowed(overrides[k])
        /\ \A k \in 1..Len(file) : Rowed(file[k])
    BY TextRows DEF TextTypes
  <2>2. PICK n \in Nat, m \in Nat : n = Len(overrides) /\ m = Len(file)
    BY CombinedRows, LenProperties
  <2>3. /\ i \in 1..(n + m)
        /\ row = IF i <= n THEN overrides[i] ELSE file[i - n]
    BY <1>1, <2>2, CombinedRows
  <2>4. CASE i <= n
    BY <2>1, <2>2, <2>3, <2>4
  <2>5. CASE ~(i <= n)
    <3>1. i - n \in 1..m
      BY <2>3, <2>5
    <3> QED
      BY <2>1, <2>2, <2>3, <2>5, <3>1
  <2> QED
    BY <2>4, <2>5
<1> QED
  BY <1>1, <1>2, <1>3, RowKinds

LEMMA NamesOfElements ==
  ASSUME TextTypes, NEW i \in 1..Len(Combined)
  PROVE  /\ ToString(i) \in Names
         /\ \A j \in 1..Len(Combined) : ToString(i) = ToString(j) => i = j
<1>1. PICK n : n = Len(overrides) + Len(file)
  OBVIOUS
<1>2. \A k, j \in 1..n :
         ToString(k) \in STRING /\ (ToString(k) = ToString(j) => k = j)
  BY <1>1, NamesAssumption DEF TextTypes
<1>3. n = Len(Combined)
  BY <1>1, CombinedRows
<1> QED
  BY <1>2, <1>3 DEF Names

-----------------------------------------------------------------------------
(* What a line is about. *)
Heads(lines, i, s) == Place(lines, i) # <<>> /\ Head(Place(lines, i)) = s

LEMMA AboutSection ==
  ASSUME NEW lines, NEW i \in 1..Len(lines), NEW a \in Names,
         Place(lines, i) = <<a>>
  PROVE  /\ \A s \in Names : Heads(lines, i, s) <=> s = a
         /\ \A s, k \in Names : i \notin Mentions(lines, s, k)
<1>1. <<a>> # <<>> /\ Head(<<a>>) = a
  OBVIOUS
<1>2. Len(<<a>>) = 1
  BY OneName
<1>3. ~(Len(Place(lines, i)) >= 2)
  BY <1>2
<1> QED
  BY <1>1, <1>3 DEF Heads, Mentions

LEMMA AboutKey ==
  ASSUME NEW lines, NEW i \in 1..Len(lines), NEW a \in Names, NEW b \in Names,
         Place(lines, i) = <<a, b>>
  PROVE  /\ \A s \in Names : Heads(lines, i, s) <=> s = a
         /\ \A s, k \in Names : i \in Mentions(lines, s, k) <=> s = a /\ k = b
         /\ Said(lines, i) = lines[i].val
<1>1. <<a, b>> # <<>> /\ Head(<<a, b>>) = a
  OBVIOUS
<1>2. PICK p : p = <<a, b>> /\ Len(p) = 2 /\ p[1] = a /\ p[2] = b
  <2>1. Len(<<a, b>>) = 2 /\ <<a, b>>[1] = a /\ <<a, b>>[2] = b
    BY TwoNames
  <2> QED
    BY <2>1, Zenon
<1>3. Place(lines, i) = p /\ Len(p) >= 2
  BY <1>2
<1>4. \A s \in Names : Heads(lines, i, s) <=> s = a
  BY <1>1 DEF Heads
<1>5. \A s, k \in Names : i \in Mentions(lines, s, k) <=> s = a /\ k = b
  BY <1>2, <1>3 DEF Mentions
<1>6. Said(lines, i) = lines[i].val
  BY <1>2, <1>3, Zenon DEF Said
<1> QED
  BY <1>4, <1>5, <1>6

LEMMA HeadIsFirst ==
  ASSUME NEW S, NEW p \in Seq(S), p # <<>>
  PROVE  Head(p) = p[1]
<1>1. PICK n \in Nat : n = Len(p) /\ n > 0
  BY EmptySeq, LenProperties
<1>2. 1 \in 1..Len(p) /\ Len(p) \in 1..Len(p)
  BY <1>1
<1>3. Head(SubSeq(p, 1, Len(p))) = p[1]
  BY <1>2, HeadTailOfSubSeq
<1> QED
  BY <1>3, SubSeqFull

LEMMA AboutBelow ==
  ASSUME NEW lines, NEW i \in 1..Len(lines), NEW a \in Names, NEW b \in Names,
         NEW c \in Names, Place(lines, i) = <<a>> \o <<b, c>>
  PROVE  /\ \A s \in Names : Heads(lines, i, s) <=> s = a
         /\ \A s, k \in Names : i \in Mentions(lines, s, k) <=> s = a /\ k = b
         /\ Said(lines, i) = "table"
<1>1. PICK h \in Seq(Names) : h = <<a>> /\ Len(h) = 1 /\ h[1] = a
  <2>1. <<a>> \in Seq(Names) /\ Len(<<a>>) = 1 /\ <<a>>[1] = a
    BY OneName
  <2> QED
    BY <2>1, Zenon
<1>2. PICK p : p = h \o <<b, c>>
  OBVIOUS
<1>3. /\ p \in Seq(Names) /\ Len(p) = Len(h) + 2
      /\ \A k \in 1..Len(h) : p[k] = h[k]
      /\ p[Len(h) + 1] = b
  BY <1>2, WithTwo
<1>4. Len(p) = 3 /\ p[1] = a /\ p[2] = b
  BY <1>1, <1>3
<1>5. Place(lines, i) = p
  BY <1>1, <1>2
<1>6. p # <<>> /\ Head(p) = a
  <2>1. p # <<>>
    <3>1. Len(<<>>) = 0
      BY EmptySeq
    <3>2. Len(p) # 0
      BY <1>4
    <3> QED
      BY <3>1, <3>2, Zenon
  <2>2. Head(p) = p[1]
    <3>1. p \in Seq(Names)
      BY <1>3
    <3> QED
      BY <2>1, <3>1, HeadIsFirst
  <2> QED
    BY <1>4, <2>1, <2>2
<1>7. \A s \in Names : Heads(lines, i, s) <=> s = a
  BY <1>5, <1>6 DEF Heads
<1>8. \A s, k \in Names : i \in Mentions(lines, s, k) <=> s = a /\ k = b
  <2>1. Len(p) >= 2
    BY <1>4
  <2> QED
    BY <1>4, <1>5, <2>1 DEF Mentions
<1>9. Said(lines, i) = "table"
  <2>1. Len(p) # 2
    BY <1>4
  <2> QED
    BY <1>5, <2>1 DEF Said
<1> QED
  BY <1>7, <1>8, <1>9

LEMMA AboutNothing ==
  ASSUME NEW lines, NEW i \in 1..Len(lines), Place(lines, i) = <<>>
  PROVE  /\ \A s \in Names : ~Heads(lines, i, s)
         /\ \A s, k \in Names : i \notin Mentions(lines, s, k)
<1>1. ~(Len(Place(lines, i)) >= 2)
  BY EmptySeq
<1> QED
  BY <1>1 DEF Heads, Mentions

(* Where a line is, in terms of what it says and of its scope.             *)
LEMMA PlaceOf ==
  ASSUME NEW lines, NEW i
  PROVE  /\ IsHeader(lines[i]) => Place(lines, i) = lines[i].at
         /\ lines[i].form = "key" => Place(lines, i) = Scope(lines, i) \o lines[i].at
         /\ lines[i].form \in {"comment", "garbage"} => Place(lines, i) = <<>>
  BY DEF Place, IsHeader

-----------------------------------------------------------------------------
(* One line of the combined text: what it adds, and what it is about.      *)
Row == Combined[pos]

LineFacts(T, v, K, w) ==
    /\ Adds(T, v, K, w)
    /\ \A r, k \in Names :
          <<r, k>> \in K =>
              <<r>> \in DOMAIN tree' /\ tree'[<<r>>] \in {"table", "array"}
    /\ \A r \in Names :
          /\ r \in T => Heads(Combined, pos, r)
          /\ Heads(Combined, pos, r) => <<r>> \in DOMAIN tree'
    /\ \A r, k \in Names :
          ~(<<r>> \in DOMAIN tree' /\ tree'[<<r>>] = "array") =>
              /\ <<r, k>> \in K <=> pos \in Mentions(Combined, r, k)
              /\ <<r, k>> \in K => w = Said(Combined, pos)
    /\ IsHeader(Row) =>
          /\ Row.at \in DOMAIN tree' /\ tree'[Row.at] \in {"table", "array"}
          /\ Row.form = "array" => tree'[Row.at] = "array"
    /\ \A r \in Names :
          /\ <<r>> \in DOMAIN tree' /\ tree'[<<r>>] = "array"
          /\ ~(Row.form = "array" /\ Row.at = <<r>>)
          => /\ <<r>> \in DOMAIN tree /\ tree[<<r>>] = "array"
             /\ \A k \in Names : <<r, k>> \notin K
    /\ \A r \in Names :
          Row.form = "array" /\ Row.at = <<r>> =>
              /\ K = {<<r, ToString(Cardinality(Children(<<r>>)) + 1)>>}
              /\ <<r>> \in DOMAIN tree => tree[<<r>>] = "array"

(* The step reads one line of the combined text.                           *)
LineStep == TextTypes /\ stage = "combining" /\ ParserInv /\ ParseLine

LEMMA StepTypes ==
  ASSUME LineStep
  PROVE  /\ TreeTypes /\ pos \in 1..Len(Combined) /\ Legal(Row) /\ MayRepeat
         /\ \/ Row.form = "table" /\ OpenTable(Row.at)
            \/ Row.form = "array" /\ OpenArray(Row.at)
            \/ Row.form = "key" /\ StoreKey(Row)
            \/ Row.form = "comment" /\ UNCHANGED <<tree, cur>>
         /\ pos' = pos + 1 /\ Combined' = Combined /\ stage' = "combining"
         /\ UNCHANGED <<overrides, file, settings, devices>>
<1>1. Lines = Combined /\ Combined' = Combined
  BY DEF LineStep, ParseLine, Lines, Combined
<1>2. pos \in 1..Len(Combined)
  <2>1. PICK n \in Nat : n = Len(Combined)
    BY CombinedRows, LenProperties DEF LineStep
  <2> QED
    BY <1>1, <2>1 DEF LineStep, ParseLine, ParserInv, ParserTypes
<1>3. TreeTypes
  BY DEF LineStep, ParserInv, ParserTypes, TreeTypes
<1>4. MayRepeat
  BY DEF LineStep, MayRepeat
<1>5. /\ Legal(Row)
      /\ \/ Row.form = "table" /\ OpenTable(Row.at)
         \/ Row.form = "array" /\ OpenArray(Row.at)
         \/ Row.form = "key" /\ StoreKey(Row)
         \/ Row.form = "comment" /\ UNCHANGED <<tree, cur>>
  BY <1>1, Zenon DEF LineStep, ParseLine, Row
<1> QED
  BY <1>1, <1>2, <1>3, <1>4, <1>5 DEF LineStep, ParseLine

(* The scope after the line.                                               *)
LEMMA ScopeAfter ==
  ASSUME LineStep
  PROVE  /\ IsHeader(Row) => Scope(Combined, pos + 1) = Row.at
         /\ ~IsHeader(Row) => Scope(Combined, pos + 1) = Scope(Combined, pos)
<1>1. pos \in Nat /\ pos > 0
  BY DEF LineStep, ParserInv, ParserTypes
<1> QED
  BY <1>1, ScopeNext DEF Row

(* [s]                                                                     *)
LEMMA TableLine ==
  ASSUME LineStep, Row.form = "table"
  PROVE  \E s \in Names : LineFacts({s}, "table", {}, "table")
<1>1. PICK s \in Names : Row.at = <<s>>
  BY StepTypes, CombinedKinds DEF LineStep, Row, IsHeader, IsKeyRow
<1>2. OpenTable(<<s>>) /\ TreeTypes /\ pos \in 1..Len(Combined)
  BY <1>1, StepTypes
<1>3. Adds({s}, "table", {}, "table")
  BY <1>2, TableAdds
<1>4. /\ \A r \in Names : <<r>> \in DOMAIN tree' <=> <<r>> \in DOMAIN tree \/ r = s
      /\ <<s>> \notin DOMAIN tree => tree'[<<s>>] = "table"
      /\ \A q \in DOMAIN tree : tree'[q] = tree[q]
  BY <1>3 DEF Adds, NewTop, Grown
<1>5. <<s>> \in DOMAIN tree => tree[<<s>>] \in {"table", "array"}
  BY <1>1, StepTypes DEF Legal, Exists
<1>6. IsHeader(Row) /\ Place(Combined, pos) = <<s>>
  BY <1>1, PlaceOf DEF IsHeader, Row
<1>7. /\ \A r \in Names : Heads(Combined, pos, r) <=> r = s
      /\ \A r, k \in Names : pos \notin Mentions(Combined, r, k)
  BY <1>2, <1>6, AboutSection
<1>8. \A r \in Names : <<r>> = <<s>> <=> r = s
  OBVIOUS
<1> QED
  BY <1>1, <1>3, <1>4, <1>5, <1>6, <1>7, <1>8 DEF LineFacts

-----------------------------------------------------------------------------
(* The children of a section, and the elements of an array.                *)
LEMMA ChildrenOf ==
  ASSUME NEW t, DOMAIN t \in SUBSET (Paths \ {<<>>}), NEW s \in Names,
         NEW q \in DOMAIN t
  PROVE  q # <<>> /\ Front(q) = <<s>> <=> \E k \in Names : q = <<s, k>>
<1>1. q \in Seq(Names) /\ q # <<>>
  BY DEF Paths
<1>2. ASSUME Front(q) = <<s>>
      PROVE  \E k \in Names : q = <<s, k>>
  <2>1. PICK h : h = <<s>> /\ Len(h) = 1 /\ h[1] = s
    <3>1. Len(<<s>>) = 1 /\ <<s>>[1] = s
      BY OneName
    <3> QED
      BY <3>1, Zenon
  <2>2. PICK n \in Nat : n = Len(q)
    BY <1>1, LenProperties
  <2>3. PICK f : f = Front(q)
    OBVIOUS
  <2>4. Len(f) = n - 1 /\ \A i \in 1..(n - 1) : f[i] = q[i]
    BY <1>1, <2>2, <2>3, FrontOf
  <2>5. f = h
    BY <1>2, <2>1, <2>3
  <2>6. n = 2 /\ q[1] = s
    BY <2>1, <2>4, <2>5
  <2>7. q[1] \in Names /\ q[2] \in Names /\ q = <<q[1], q[2]>>
    BY <1>1, <2>2, <2>6, IsTwoNames
  <2> QED
    BY <2>6, <2>7
<1>3. ASSUME NEW k \in Names, q = <<s, k>>
      PROVE  Front(q) = <<s>>
  <2>1. <<s>> \in Seq(Names)
    BY OneName
  <2>2. Front(<<s>> \o <<k>>) = <<s>>
    BY <2>1, PlainTable
  <2>3. <<s>> \o <<k>> = <<s, k>>
    BY KeyOfSection
  <2> QED
    BY <1>3, <2>2, <2>3
<1> QED
  BY <1>1, <1>2, <1>3

LEMMA ListedFinite ==
  ASSUME NEW s, NEW n \in Nat
  PROVE  /\ IsFiniteSet(Listed(s, n)) /\ Cardinality(Listed(s, n)) \in Nat
         /\ Cardinality(Listed(s, n)) <= n
         /\ Listed(s, n) # {} => Cardinality(Listed(s, n)) > 0
<1>1. 1 \in Int /\ n \in Int
  OBVIOUS
<1>2. IsFiniteSet(1..n) /\ Cardinality(1..n) = IF 1 > n THEN 0 ELSE n - 1 + 1
  BY <1>1, FS_Interval
<1>3. Cardinality(1..n) = n
  BY <1>2
<1>4. Listed(s, n) \subseteq 1..n
  BY DEF Listed
<1>5. IsFiniteSet(Listed(s, n)) /\ Cardinality(Listed(s, n)) <= Cardinality(1..n)
  BY <1>2, <1>4, FS_Subset
<1>6. Cardinality(Listed(s, n)) \in Nat
  BY <1>5, FS_CardinalityType
<1>7. Listed(s, n) # {} => Cardinality(Listed(s, n)) # 0
  BY <1>5, FS_EmptySet
<1> QED
  BY <1>3, <1>5, <1>6, <1>7

(* As many elements as there are names of them.                            *)
LEMMA ElementsCount ==
  ASSUME TextTypes, NEW s \in Names, NEW c \in Nat, c <= Len(Combined)
  PROVE  /\ IsFiniteSet({<<s, ToString(m)>> : m \in 1..c})
         /\ Cardinality({<<s, ToString(m)>> : m \in 1..c}) = c
<1> DEFINE E == {<<s, ToString(m)>> : m \in 1..c}
           f == [m \in 1..c |-> <<s, ToString(m)>>]
<1>1. PICK n \in Nat : n = Len(Combined)
  BY CombinedRows, LenProperties
<1>2. \A m \in 1..c : m \in 1..Len(Combined)
  BY <1>1
<1>3. \A m, l \in 1..c : ToString(m) = ToString(l) => m = l
  BY <1>2, NamesOfElements
<1>4. \A m, l \in 1..c : f[m] = f[l] => m = l
  BY <1>3
<1>5. f \in [1..c -> E]
  OBVIOUS
<1>6. \A e \in E : \E m \in 1..c : f[m] = e
  OBVIOUS
<1>7. f \in Bijection(1..c, E)
  BY <1>4, <1>5, <1>6 DEF Bijection, Injection, Surjection, IsInjective
<1>8. 1 \in Int /\ c \in Int
  OBVIOUS
<1>9. IsFiniteSet(1..c) /\ Cardinality(1..c) = IF 1 > c THEN 0 ELSE c - 1 + 1
  BY <1>8, FS_Interval
<1>10. Cardinality(1..c) = c
  BY <1>9
<1> HIDE DEF f, E
<1>11. IsFiniteSet(E) /\ Cardinality(E) = Cardinality(1..c)
  <2>1. ExistsBijection(1..c, E)
    BY <1>7 DEF ExistsBijection
  <2> QED
    BY <1>9, <2>1, FS_Bijection
<1> QED
  BY <1>10, <1>11 DEF E

LEMMA LiteralsPlain ==
  ASSUME NEW v \in Literals
  PROVE  v # "table" /\ v # "array"
  BY DEF Literals, Flags, Texts, Addresses, Numbers, Accepts

LEMMA Appended ==
  ASSUME NEW S, NEW s \in S, NEW x \in S
  PROVE  Append(<<s>>, x) = <<s, x>>
<1>1. PICK c \in Seq(S) : c = <<s>> /\ Len(c) = 1 /\ c[1] = s
  <2>1. <<s>> \in Seq(S) /\ Len(<<s>>) = 1 /\ <<s>>[1] = s
    BY OneName
  <2> QED
    BY <2>1, Zenon
<1>2. PICK p : p = Append(c, x)
  OBVIOUS
<1>3. /\ p \in Seq(S) /\ Len(p) = Len(c) + 1
      /\ \A i \in 1..Len(c) : p[i] = c[i]
      /\ p[Len(c) + 1] = x
  BY <1>2, AppendProperties
<1>4. Len(p) = 2 /\ p[1] = s /\ p[2] = x
  BY <1>1, <1>3
<1>5. p = <<s, x>>
  BY <1>3, <1>4, IsTwoNames
<1> QED
  BY <1>1, <1>2, <1>5

LEMMA AppendedTwice ==
  ASSUME NEW S, NEW s \in S, NEW x \in S, NEW k \in S
  PROVE  Append(<<s, x>>, k) = <<s, x, k>>
<1>1. PICK c \in Seq(S) : c = <<s, x>> /\ Len(c) = 2 /\ c[1] = s /\ c[2] = x
  <2>1. <<s, x>> \in Seq(S) /\ Len(<<s, x>>) = 2 /\ <<s, x>>[1] = s
        /\ <<s, x>>[2] = x
    BY TwoNames
  <2> QED
    BY <2>1, Zenon
<1>2. PICK p : p = Append(c, k)
  OBVIOUS
<1>3. /\ p \in Seq(S) /\ Len(p) = Len(c) + 1
      /\ \A i \in 1..Len(c) : p[i] = c[i]
      /\ p[Len(c) + 1] = k
  BY <1>2, AppendProperties
<1>4. Len(p) = 3 /\ p[1] = s /\ p[2] = x /\ p[3] = k
  BY <1>1, <1>3
<1>5. p = <<s, x, k>>
  BY <1>3, <1>4, IsThreeNames
<1> QED
  BY <1>1, <1>2, <1>5

(* An array of the tree, and the name its next element gets.               *)
LEMMA ArrayOf ==
  ASSUME TextTypes, ParserInv, NEW s \in Names, IsArray(s)
  PROVE  /\ Cardinality(Children(<<s>>)) = Cardinality(Listed(s, pos - 1))
         /\ Cardinality(Children(<<s>>)) \in 1..Len(Combined)
         /\ Cardinality(Children(<<s>>)) < pos
         /\ LastTable(<<s>>) = <<s, ToString(Cardinality(Children(<<s>>)))>>
<1>1. PICK n \in Nat, p \in Nat : n = Len(Combined) /\ p = pos /\ 0 < p /\ p <= n + 1
  <2>1. PICK n \in Nat : n = Len(Combined)
    BY CombinedRows, LenProperties
  <2> QED
    BY <2>1 DEF ParserInv, ParserTypes
<1>2. PICK c : c = Cardinality(Listed(s, p - 1))
  OBVIOUS
<1>3. /\ Listed(s, p - 1) # {}
      /\ Children(<<s>>) = {<<s, ToString(m)>> : m \in 1..c}
  BY <1>1, <1>2 DEF ParserInv, ElementsInv
<1>4. c \in Nat /\ c <= p - 1 /\ c > 0
  <2>1. p - 1 \in Nat
    BY <1>1
  <2> QED
    BY <1>2, <1>3, <2>1, ListedFinite
<1>5. Cardinality(Children(<<s>>)) = c
  <2>1. c <= Len(Combined)
    BY <1>1, <1>4
  <2> QED
    BY <1>3, <1>4, <2>1, ElementsCount
<1>6. c \in 1..n /\ c < p
  BY <1>1, <1>4
<1>7. LastTable(<<s>>) = <<s, ToString(c)>>
  <2>1. LastTable(<<s>>) = Append(<<s>>, ToString(c))
    BY <1>5 DEF LastTable, IsArray
  <2>2. ToString(c) \in Names
    BY <1>1, <1>6, NamesOfElements
  <2> QED
    BY <2>1, <2>2, Appended
<1> QED
  BY <1>1, <1>2, <1>5, <1>6, <1>7

LEMMA NextElement ==
  ASSUME LineStep, NEW s \in Names, Row.form = "array", Row.at = <<s>>
  PROVE  /\ Exists(<<s>>) => IsArray(s)
         /\ ~Exists(<<s>>) => Children(<<s>>) = {}
         /\ ToString(Cardinality(Children(<<s>>)) + 1) \in Names
         /\ Element(<<s>>) = <<s, ToString(Cardinality(Children(<<s>>)) + 1)>>
<1>1. Exists(<<s>>) => IsArray(s)
  BY StepTypes DEF Legal, IsArray
<1>2. ~Exists(<<s>>) => Children(<<s>>) = {}
  <2> SUFFICES ASSUME ~Exists(<<s>>), NEW q \in Children(<<s>>) PROVE FALSE
    OBVIOUS
  <2>1. q \in DOMAIN tree /\ q # <<>> /\ Front(q) = <<s>>
    BY DEF Children
  <2>2. PICK k \in Names : q = <<s, k>>
    BY <2>1, StepTypes, ChildrenOf DEF TreeTypes
  <2> QED
    BY <2>1, <2>2 DEF LineStep, ParserInv, ParentInv, Exists
<1>3. PICK c : c = Cardinality(Children(<<s>>))
  OBVIOUS
<1>4. PICK n \in Nat, p \in Nat : n = Len(Combined) /\ p = pos /\ 0 < p /\ p <= n
  <2>1. PICK n \in Nat : n = Len(Combined)
    BY CombinedRows, LenProperties DEF LineStep
  <2> QED
    BY <2>1, StepTypes DEF ParserInv, ParserTypes
<1>5. c + 1 \in 1..n
  <2>1. CASE Exists(<<s>>)
    <3>1. c \in 1..Len(Combined) /\ c < pos
      BY <1>1, <1>3, <2>1, ArrayOf DEF LineStep
    <3> QED
      BY <1>4, <3>1
  <2>2. CASE ~Exists(<<s>>)
    <3>1. c = 0
      BY <1>2, <1>3, <2>2, FS_EmptySet
    <3> QED
      BY <1>4, <3>1
  <2> QED
    BY <2>1, <2>2
<1>6. ToString(c + 1) \in Names
  BY <1>4, <1>5, NamesOfElements DEF LineStep
<1>7. Element(<<s>>) = <<s, ToString(c + 1)>>
  BY <1>3, <1>6, Appended DEF Element
<1> QED
  BY <1>1, <1>2, <1>3, <1>6, <1>7

(* [[s]]                                                                   *)
LEMMA ArrayLine ==
  ASSUME LineStep, Row.form = "array"
  PROVE  \E s \in Names, x \in Names : LineFacts({s}, "array", {<<s, x>>}, "table")
<1>1. PICK s \in Names : Row.at = <<s>>
  BY StepTypes, CombinedKinds DEF LineStep, Row, IsHeader, IsKeyRow
<1>2. PICK x \in Names : /\ x = ToString(Cardinality(Children(<<s>>)) + 1)
                         /\ Element(<<s>>) = <<s, x>>
                         /\ Exists(<<s>>) => tree[<<s>>] = "array"
  BY <1>1, NextElement DEF IsArray
<1>3. OpenArray(<<s>>) /\ TreeTypes /\ pos \in 1..Len(Combined)
  BY <1>1, StepTypes
<1>4. Adds({s}, "array", {<<s, x>>}, "table")
  BY <1>2, <1>3, ArrayAdds
<1>5. /\ \A r \in Names : <<r>> \in DOMAIN tree' <=> <<r>> \in DOMAIN tree \/ r = s
      /\ <<s>> \notin DOMAIN tree => tree'[<<s>>] = "array"
      /\ \A q \in DOMAIN tree : tree'[q] = tree[q]
  BY <1>4 DEF Adds, NewTop, Grown
<1>6. IsHeader(Row) /\ Place(Combined, pos) = <<s>>
  BY <1>1, PlaceOf DEF IsHeader, Row
<1>7. /\ \A r \in Names : Heads(Combined, pos, r) <=> r = s
      /\ \A r, k \in Names : pos \notin Mentions(Combined, r, k)
  BY <1>3, <1>6, AboutSection
<1>8. \A r \in Names : <<r>> = <<s>> <=> r = s
  OBVIOUS
<1>9. <<s>> \in DOMAIN tree' /\ tree'[<<s>>] = "array"
  BY <1>2, <1>5 DEF Exists
<1>10. \A r, k \in Names : <<r, k>> \in {<<s, x>>} => r = s
  OBVIOUS
<1>11. /\ \A r, k \in Names :
             <<r, k>> \in {<<s, x>>} =>
                 <<r>> \in DOMAIN tree' /\ tree'[<<r>>] \in {"table", "array"}
       /\ \A r, k \in Names :
             ~(<<r>> \in DOMAIN tree' /\ tree'[<<r>>] = "array") =>
                 /\ <<r, k>> \in {<<s, x>>} <=> pos \in Mentions(Combined, r, k)
                 /\ <<r, k>> \in {<<s, x>>} => "table" = Said(Combined, pos)
  BY <1>7, <1>9, <1>10
<1>12. \A r \in Names :
          /\ <<r>> \in DOMAIN tree' /\ tree'[<<r>>] = "array"
          /\ ~(Row.form = "array" /\ Row.at = <<r>>)
          => /\ <<r>> \in DOMAIN tree /\ tree[<<r>>] = "array"
             /\ \A k \in Names : <<r, k>> \notin {<<s, x>>}
  BY <1>1, <1>5, <1>8, <1>10
<1>13. \A r \in Names :
          Row.form = "array" /\ Row.at = <<r>> =>
              /\ {<<s, x>>} = {<<r, ToString(Cardinality(Children(<<r>>)) + 1)>>}
              /\ <<r>> \in DOMAIN tree => tree[<<r>>] = "array"
  BY <1>1, <1>2, <1>8 DEF Exists
<1>14. \A r \in Names :
          /\ r \in {s} => Heads(Combined, pos, r)
          /\ Heads(Combined, pos, r) => <<r>> \in DOMAIN tree'
  BY <1>7, <1>9
<1>15. IsHeader(Row) =>
          /\ Row.at \in DOMAIN tree' /\ tree'[Row.at] \in {"table", "array"}
          /\ Row.form = "array" => tree'[Row.at] = "array"
  BY <1>1, <1>9
<1>16. LineFacts({s}, "array", {<<s, x>>}, "table")
  BY <1>4, <1>11, <1>12, <1>13, <1>14, <1>15 DEF LineFacts
<1> QED
  BY <1>16

(* a = value, above every header                                           *)
LEMMA TopKeyLine ==
  ASSUME LineStep, IsKeyRow(Row), NEW a \in Names, Row.at = <<a>>,
         Scope(Combined, pos) = <<>>, cur = <<>>
  PROVE  LineFacts({a}, Row.val, {}, "table")
<1>1. /\ StoreKey(Row) /\ TreeTypes /\ pos \in 1..Len(Combined)
      /\ Row.form = "key" /\ Row.val # "array" /\ ~IsHeader(Row)
  BY StepTypes, LiteralsPlain DEF IsKeyRow, IsHeader
<1>2. Adds({a}, Row.val, {}, "table")
  BY <1>1, TopKeyAdds
<1>3. /\ \A r \in Names : <<r>> \in DOMAIN tree' <=> <<r>> \in DOMAIN tree \/ r = a
      /\ <<a>> \notin DOMAIN tree => tree'[<<a>>] = Row.val
      /\ \A q \in DOMAIN tree : tree'[q] = tree[q]
  BY <1>2 DEF Adds, NewTop, Grown
<1>4. Place(Combined, pos) = <<a>>
  <2>1. Place(Combined, pos) = <<>> \o <<a>>
    BY <1>1, PlaceOf DEF Row
  <2>2. <<a>> \in Seq(Names)
    BY OneName
  <2>3. <<>> \o <<a>> = <<a>>
    BY <2>2, ConcatEmptySeq
  <2> QED
    BY <2>1, <2>3
<1>5. /\ \A r \in Names : Heads(Combined, pos, r) <=> r = a
      /\ \A r, k \in Names : pos \notin Mentions(Combined, r, k)
  BY <1>1, <1>4, AboutSection
<1>6. \A r \in Names :
          <<r>> \in DOMAIN tree' /\ tree'[<<r>>] = "array"
          => <<r>> \in DOMAIN tree /\ tree[<<r>>] = "array"
  <2> SUFFICES ASSUME NEW r \in Names, <<r>> \in DOMAIN tree', tree'[<<r>>] = "array"
               PROVE  <<r>> \in DOMAIN tree /\ tree[<<r>>] = "array"
    OBVIOUS
  <2>1. CASE r = a /\ <<a>> \notin DOMAIN tree
    BY <1>1, <1>3, <2>1
  <2>2. CASE <<r>> \in DOMAIN tree
    BY <1>3, <2>2
  <2> QED
    BY <1>3, <2>1, <2>2
<1> QED
  BY <1>1, <1>2, <1>3, <1>5, <1>6 DEF LineFacts

(* a.b = value, above every header                                         *)
LEMMA TopDottedLine ==
  ASSUME LineStep, IsKeyRow(Row), NEW a \in Names, NEW b \in Names,
         Row.at = <<a, b>>, Scope(Combined, pos) = <<>>, cur = <<>>
  PROVE  LineFacts({a}, "table", {<<a, b>>}, Row.val)
<1>1. /\ StoreKey(Row) /\ TreeTypes /\ pos \in 1..Len(Combined) /\ Legal(Row)
      /\ Row.form = "key" /\ ~IsHeader(Row)
  BY StepTypes DEF IsKeyRow, IsHeader
<1>2. Table(Row) = <<a>> /\ Adds({a}, "table", {<<a, b>>}, Row.val)
  BY <1>1, TopDottedAdds
<1>3. <<a>> \in DOMAIN tree => tree[<<a>>] = "table"
  BY <1>1, <1>2 DEF Legal, Exists
<1>4. /\ \A r \in Names : <<r>> \in DOMAIN tree' <=> <<r>> \in DOMAIN tree \/ r = a
      /\ <<a>> \notin DOMAIN tree => tree'[<<a>>] = "table"
      /\ \A q \in DOMAIN tree : tree'[q] = tree[q]
  BY <1>2 DEF Adds, NewTop, Grown
<1>5. Place(Combined, pos) = <<a, b>>
  <2>1. Place(Combined, pos) = <<>> \o <<a, b>>
    BY <1>1, PlaceOf DEF Row
  <2>2. <<a, b>> \in Seq(Names)
    BY TwoNames
  <2>3. <<>> \o <<a, b>> = <<a, b>>
    BY <2>2, ConcatEmptySeq
  <2> QED
    BY <2>1, <2>3
<1>6. /\ \A r \in Names : Heads(Combined, pos, r) <=> r = a
      /\ \A r, k \in Names : pos \in Mentions(Combined, r, k) <=> r = a /\ k = b
      /\ Said(Combined, pos) = Row.val
  BY <1>1, <1>5, AboutKey DEF Row
<1>7. <<a>> \in DOMAIN tree' /\ tree'[<<a>>] = "table"
  BY <1>3, <1>4
<1>8. \A r, k \in Names : <<r, k>> \in {<<a, b>>} <=> r = a /\ k = b
  OBVIOUS
<1>9. \A r \in Names :
          <<r>> \in DOMAIN tree' /\ tree'[<<r>>] = "array" =>
              /\ <<r>> \in DOMAIN tree /\ tree[<<r>>] = "array"
              /\ \A k \in Names : <<r, k>> \notin {<<a, b>>}
  <2> SUFFICES ASSUME NEW r \in Names, <<r>> \in DOMAIN tree', tree'[<<r>>] = "array"
               PROVE  /\ <<r>> \in DOMAIN tree /\ tree[<<r>>] = "array"
                      /\ \A k \in Names : <<r, k>> \notin {<<a, b>>}
    OBVIOUS
  <2>1. r # a
    BY <1>7
  <2> QED
    BY <1>4, <1>8, <2>1
<1>10. /\ \A r, k \in Names :
             <<r, k>> \in {<<a, b>>} =>
                 <<r>> \in DOMAIN tree' /\ tree'[<<r>>] \in {"table", "array"}
       /\ \A r, k \in Names :
             ~(<<r>> \in DOMAIN tree' /\ tree'[<<r>>] = "array") =>
                 /\ <<r, k>> \in {<<a, b>>} <=> pos \in Mentions(Combined, r, k)
                 /\ <<r, k>> \in {<<a, b>>} => Row.val = Said(Combined, pos)
  BY <1>6, <1>7, <1>8
<1>11. \A r \in Names :
          /\ r \in {a} => Heads(Combined, pos, r)
          /\ Heads(Combined, pos, r) => <<r>> \in DOMAIN tree'
  BY <1>6, <1>7
<1> QED
  BY <1>1, <1>2, <1>9, <1>10, <1>11 DEF LineFacts

(* A key below [s]: what it adds to the section.                           *)
LEMMA SectionLine ==
  ASSUME LineStep, IsKeyRow(Row), NEW s \in Names, NEW k \in Names, NEW w,
         Exists(<<s>>), tree[<<s>>] = "table",
         Adds({}, "table", {<<s, k>>}, w),
         \A r \in Names : Heads(Combined, pos, r) <=> r = s,
         \A r, j \in Names : pos \in Mentions(Combined, r, j) <=> r = s /\ j = k,
         Said(Combined, pos) = w
  PROVE  LineFacts({}, "table", {<<s, k>>}, w)
<1>1. Row.form = "key" /\ ~IsHeader(Row)
  BY DEF IsKeyRow, IsHeader
<1>2. /\ \A r \in Names : <<r>> \in DOMAIN tree' <=> <<r>> \in DOMAIN tree
      /\ \A q \in DOMAIN tree : tree'[q] = tree[q]
  BY DEF Adds, NewTop, Grown
<1>3. <<s>> \in DOMAIN tree' /\ tree'[<<s>>] = "table"
  BY <1>2 DEF Exists
<1>4. \A r, j \in Names : <<r, j>> \in {<<s, k>>} <=> r = s /\ j = k
  OBVIOUS
<1>5. \A r \in Names :
          <<r>> \in DOMAIN tree' /\ tree'[<<r>>] = "array" =>
              /\ <<r>> \in DOMAIN tree /\ tree[<<r>>] = "array"
              /\ \A j \in Names : <<r, j>> \notin {<<s, k>>}
  <2> SUFFICES ASSUME NEW r \in Names, <<r>> \in DOMAIN tree', tree'[<<r>>] = "array"
               PROVE  /\ <<r>> \in DOMAIN tree /\ tree[<<r>>] = "array"
                      /\ \A j \in Names : <<r, j>> \notin {<<s, k>>}
    OBVIOUS
  <2>1. r # s
    BY <1>3
  <2> QED
    BY <1>2, <1>4, <2>1
<1>6. /\ \A r, j \in Names :
             <<r, j>> \in {<<s, k>>} =>
                 <<r>> \in DOMAIN tree' /\ tree'[<<r>>] \in {"table", "array"}
      /\ \A r, j \in Names :
             ~(<<r>> \in DOMAIN tree' /\ tree'[<<r>>] = "array") =>
                 /\ <<r, j>> \in {<<s, k>>} <=> pos \in Mentions(Combined, r, j)
                 /\ <<r, j>> \in {<<s, k>>} => w = Said(Combined, pos)
  BY <1>3, <1>4
<1>7. \A r \in Names :
          /\ r \in {} => Heads(Combined, pos, r)
          /\ Heads(Combined, pos, r) => <<r>> \in DOMAIN tree'
  BY <1>3
<1> QED
  BY <1>1, <1>5, <1>6, <1>7 DEF LineFacts

LEMMA SectionKeyLine ==
  ASSUME LineStep, IsKeyRow(Row), NEW s \in Names, Scope(Combined, pos) = <<s>>,
         Exists(<<s>>), tree[<<s>>] = "table", cur = <<s>>
  PROVE  \E k \in Names : \E w : LineFacts({}, "table", {<<s, k>>}, w)
<1>1. /\ StoreKey(Row) /\ TreeTypes /\ pos \in 1..Len(Combined)
  BY StepTypes DEF IsKeyRow
<1>2. Place(Combined, pos) = <<s>> \o Row.at
  BY PlaceOf DEF Row, IsKeyRow
<1>3. ASSUME NEW k \in Names, Row.at = <<k>>
      PROVE  LineFacts({}, "table", {<<s, k>>}, Row.val)
  <2>1. Adds({}, "table", {<<s, k>>}, Row.val)
    BY <1>1, <1>3, SectionKeyAdds
  <2>2. Place(Combined, pos) = <<s, k>>
    BY <1>2, <1>3, KeyOfSection
  <2>3. /\ \A r \in Names : Heads(Combined, pos, r) <=> r = s
        /\ \A r, j \in Names : pos \in Mentions(Combined, r, j) <=> r = s /\ j = k
        /\ Said(Combined, pos) = Row.val
    BY <1>1, <2>2, AboutKey DEF Row
  <2> QED
    BY <2>1, <2>3, SectionLine
<1>4. ASSUME NEW k \in Names, NEW i \in Names, Row.at = <<k, i>>
      PROVE  LineFacts({}, "table", {<<s, k>>}, "table")
  <2>1. Adds({}, "table", {<<s, k>>}, "table")
    BY <1>1, <1>4, SectionDottedAdds
  <2>2. Place(Combined, pos) = <<s>> \o <<k, i>>
    BY <1>2, <1>4
  <2>3. /\ \A r \in Names : Heads(Combined, pos, r) <=> r = s
        /\ \A r, j \in Names : pos \in Mentions(Combined, r, j) <=> r = s /\ j = k
        /\ Said(Combined, pos) = "table"
    BY <1>1, <2>2, AboutBelow
  <2> QED
    BY <2>1, <2>3, SectionLine
<1> QED
  BY <1>3, <1>4 DEF IsKeyRow

(* A key below [[s]]                                                       *)
LEMMA ElementLine ==
  ASSUME LineStep, IsKeyRow(Row), NEW s \in Names, NEW x \in Names,
         Scope(Combined, pos) = <<s>>,
         Exists(<<s>>), tree[<<s>>] = "array", cur = <<s, x>>
  PROVE  LineFacts({}, "table", {}, "table")
<1>1. /\ StoreKey(Row) /\ TreeTypes /\ pos \in 1..Len(Combined)
      /\ Row.form = "key" /\ ~IsHeader(Row)
  BY StepTypes DEF IsKeyRow, IsHeader
<1>2. Place(Combined, pos) = <<s>> \o Row.at
  BY PlaceOf DEF Row, IsKeyRow
<1>3. PICK k \in Names, j \in Names : Row.at \in {<<k>>, <<k, j>>}
  BY DEF IsKeyRow
<1>4. Adds({}, "table", {}, "table")
  BY <1>1, <1>3, ElementKeyAdds
<1>5. /\ \A r \in Names : Heads(Combined, pos, r) <=> r = s
      /\ \A r, i \in Names : pos \in Mentions(Combined, r, i) => r = s
  <2>1. CASE Row.at = <<k>>
    <3>1. Place(Combined, pos) = <<s, k>>
      BY <1>2, <2>1, KeyOfSection
    <3> QED
      BY <1>1, <3>1, AboutKey
  <2>2. CASE Row.at = <<k, j>>
    <3>1. Place(Combined, pos) = <<s>> \o <<k, j>>
      BY <1>2, <2>2
    <3> QED
      BY <1>1, <3>1, AboutBelow
  <2> QED
    BY <1>3, <2>1, <2>2
<1>6. /\ \A r \in Names : <<r>> \in DOMAIN tree' <=> <<r>> \in DOMAIN tree
      /\ \A q \in DOMAIN tree : tree'[q] = tree[q]
  BY <1>4 DEF Adds, NewTop, Grown
<1>7. <<s>> \in DOMAIN tree' /\ tree'[<<s>>] = "array"
  BY <1>6 DEF Exists
<1>8. \A r, i \in Names :
         ~(<<r>> \in DOMAIN tree' /\ tree'[<<r>>] = "array") =>
            pos \notin Mentions(Combined, r, i)
  BY <1>5, <1>7
<1> QED
  BY <1>1, <1>4, <1>5, <1>6, <1>7, <1>8 DEF LineFacts

(* # ...                                                                   *)
LEMMA CommentLine ==
  ASSUME LineStep, Row.form = "comment"
  PROVE  LineFacts({}, "table", {}, "table")
<1>1. tree' = tree /\ cur' = cur /\ pos \in 1..Len(Combined) /\ ~IsHeader(Row)
  BY StepTypes DEF IsHeader
<1>2. Place(Combined, pos) = <<>>
  BY PlaceOf DEF Row
<1>3. /\ \A s \in Names : ~Heads(Combined, pos, s)
      /\ \A s, k \in Names : pos \notin Mentions(Combined, s, k)
  BY <1>1, <1>2, AboutNothing
<1>4. Adds({}, "table", {}, "table")
  BY <1>1 DEF Adds, Grown, NewTop, NewKey, LineStep, ParserInv, ParserTypes
<1> QED
  BY <1>1, <1>3, <1>4 DEF LineFacts

LEMMA EveryLine ==
  ASSUME LineStep
  PROVE  \E T, v, K, w : LineFacts(T, v, K, w)
<1>1. CASE Row.form = "table"
  BY <1>1, TableLine
<1>2. CASE Row.form = "array"
  BY <1>2, ArrayLine
<1>3. CASE Row.form = "comment"
  BY <1>3, CommentLine
<1>4. CASE Row.form = "key"
  <2>1. IsKeyRow(Row)
    BY <1>4, StepTypes, CombinedKinds DEF LineStep, Row, IsHeader
  <2>2. CASE Scope(Combined, pos) = <<>> /\ cur = <<>>
    <3>1. ASSUME NEW a \in Names, Row.at = <<a>>
          PROVE  \E T, v, K, w : LineFacts(T, v, K, w)
      BY <2>1, <2>2, <3>1, TopKeyLine
    <3>2. ASSUME NEW a \in Names, NEW b \in Names, Row.at = <<a, b>>
          PROVE  \E T, v, K, w : LineFacts(T, v, K, w)
      BY <2>1, <2>2, <3>2, TopDottedLine
    <3> QED
      BY <2>1, <3>1, <3>2 DEF IsKeyRow
  <2>3. ASSUME NEW s \in Names, Scope(Combined, pos) = <<s>>, Exists(<<s>>),
               tree[<<s>>] = "table", cur = <<s>>
        PROVE  \E T, v, K, w : LineFacts(T, v, K, w)
    BY <2>1, <2>3, SectionKeyLine
  <2>4. ASSUME NEW s \in Names, NEW x \in Names, Scope(Combined, pos) = <<s>>,
               Exists(<<s>>), tree[<<s>>] = "array", cur = <<s, x>>
        PROVE  \E T, v, K, w : LineFacts(T, v, K, w)
    BY <2>1, <2>4, ElementLine
  <2>5. CurrentInv
    BY DEF LineStep, ParserInv
  <2> QED
    BY <2>2, <2>3, <2>4, <2>5 DEF CurrentInv
<1> QED
  BY <1>1, <1>2, <1>3, <1>4, StepTypes

-----------------------------------------------------------------------------
(* A line of the combined text keeps each part of the invariant.           *)
LEMMA CurrentStep ==
  ASSUME LineStep
  PROVE  CurrentInv'
<1>0. Combined' = Combined /\ pos' = pos + 1
  BY StepTypes
<1>1. PICK T, v, K, w : LineFacts(T, v, K, w)
  BY EveryLine
<1>2. /\ \A q \in DOMAIN tree : q \in DOMAIN tree' /\ tree'[q] = tree[q]
  BY <1>1 DEF LineFacts, Adds, Grown
<1>3. CASE Row.form = "table"
  <2>1. PICK s \in Names : Row.at = <<s>>
    BY <1>3, StepTypes, CombinedKinds DEF LineStep, Row, IsHeader, IsKeyRow
  <2>2. Scope(Combined, pos + 1) = <<s>>
    BY <1>3, <2>1, ScopeAfter DEF IsHeader
  <2>3. <<s>> \in DOMAIN tree' /\ tree'[<<s>>] \in {"table", "array"}
    BY <1>1, <1>3, <2>1 DEF LineFacts, IsHeader
  <2>4. OpenTable(<<s>>)
    BY <1>3, <2>1, StepTypes
  <2>5. CASE IsArray(s)
    <3>1. PICK c : c = Cardinality(Children(<<s>>))
      OBVIOUS
    <3>2. LastTable(<<s>>) = <<s, ToString(c)>> /\ c \in 1..Len(Combined)
      BY <2>5, <3>1, ArrayOf DEF LineStep
    <3>3. ToString(c) \in Names
      BY <3>2, NamesOfElements DEF LineStep
    <3>4. cur' = <<s, ToString(c)>>
      BY <2>4, <2>5, <3>2 DEF OpenTable, IsArray
    <3>5. tree'[<<s>>] = "array"
      BY <1>2, <2>5 DEF IsArray, Exists
    <3> QED
      BY <1>0, <2>2, <2>3, <3>3, <3>4, <3>5 DEF CurrentInv, Exists
  <2>6. CASE Exists(<<s>>) /\ tree[<<s>>] = "table"
    <3>1. cur' = <<s>>
      BY <2>4, <2>6 DEF OpenTable, LastTable
    <3>2. tree'[<<s>>] = "table"
      BY <1>2, <2>6 DEF Exists
    <3> QED
      BY <1>0, <2>2, <2>3, <3>1, <3>2 DEF CurrentInv, Exists
  <2>7. CASE ~Exists(<<s>>)
    <3>1. cur' = <<s>>
      BY <2>4, <2>7 DEF OpenTable
    <3>2. tree'[<<s>>] = "table"
      BY <2>4, <2>7, Inserted DEF OpenTable, Exists
    <3> QED
      BY <1>0, <2>2, <2>3, <3>1, <3>2 DEF CurrentInv, Exists
  <2>8. Exists(<<s>>) => tree[<<s>>] \in {"table", "array"}
    BY <1>3, <2>1, StepTypes DEF Legal
  <2> QED
    BY <2>5, <2>6, <2>7, <2>8 DEF IsArray
<1>4. CASE Row.form = "array"
  <2>1. PICK s \in Names : Row.at = <<s>>
    BY <1>4, StepTypes, CombinedKinds DEF LineStep, Row, IsHeader, IsKeyRow
  <2>2. Scope(Combined, pos + 1) = <<s>>
    BY <1>4, <2>1, ScopeAfter DEF IsHeader
  <2>3. <<s>> \in DOMAIN tree' /\ tree'[<<s>>] = "array"
    BY <1>1, <1>4, <2>1 DEF LineFacts, IsHeader
  <2>4. OpenArray(<<s>>)
    BY <1>4, <2>1, StepTypes
  <2>5. PICK x \in Names : Element(<<s>>) = <<s, x>>
    BY <1>4, <2>1, NextElement
  <2>6. cur' = <<s, x>>
    BY <2>4, <2>5 DEF OpenArray
  <2> QED
    BY <1>0, <2>2, <2>3, <2>6 DEF CurrentInv, Exists
<1>5. CASE Row.form \in {"key", "comment"}
  <2>1. cur' = cur
    BY <1>5, StepTypes DEF StoreKey
  <2>2. Scope(Combined, pos + 1) = Scope(Combined, pos)
    BY <1>5, ScopeAfter DEF IsHeader
  <2>3. CurrentInv
    BY DEF LineStep, ParserInv
  <2>4. CASE Scope(Combined, pos) = <<>> /\ cur = <<>>
    BY <1>0, <2>1, <2>2, <2>4 DEF CurrentInv
  <2>5. ASSUME NEW s \in Names, Scope(Combined, pos) = <<s>>, Exists(<<s>>),
               \/ tree[<<s>>] = "table" /\ cur = <<s>>
               \/ tree[<<s>>] = "array" /\ \E x \in Names : cur = <<s, x>>
        PROVE  CurrentInv'
    BY <1>0, <1>2, <2>1, <2>2, <2>5 DEF CurrentInv, Exists
  <2> QED
    BY <2>3, <2>4, <2>5 DEF CurrentInv
<1> QED
  BY <1>3, <1>4, <1>5, StepTypes

LEMMA TypesStep ==
  ASSUME LineStep
  PROVE  ParserTypes'
<1>1. PICK T, v, K, w : LineFacts(T, v, K, w)
  BY EveryLine
<1>2. /\ tree' = [q \in DOMAIN tree' |-> tree'[q]]
      /\ DOMAIN tree' \in SUBSET (Paths \ {<<>>})
  BY <1>1 DEF LineFacts, Adds, Grown
<1>3. overrides' \in CommandLines /\ file' \in Files \cup {ExportDocumented}
  BY StepTypes DEF LineStep, TextTypes
<1>4. PICK n \in Nat : n = Len(Combined)
  BY CombinedRows, LenProperties DEF LineStep
<1>5. pos' \in Nat \ {0} /\ pos' <= Len(Combined') + 1
  BY <1>4, StepTypes
<1>6. stage' = "combining"
  BY StepTypes
<1> QED
  BY <1>2, <1>3, <1>5, <1>6 DEF ParserTypes

LEMMA HeadersStep ==
  ASSUME LineStep
  PROVE  HeadersInv'
<1>1. PICK T, v, K, w : LineFacts(T, v, K, w)
  BY EveryLine
<1>2. \A q \in DOMAIN tree : q \in DOMAIN tree' /\ tree'[q] = tree[q]
  BY <1>1 DEF LineFacts, Adds, Grown
<1>3. /\ IsHeader(Combined[pos]) =>
            /\ Combined[pos].at \in DOMAIN tree'
            /\ tree'[Combined[pos].at] \in {"table", "array"}
            /\ Combined[pos].form = "array" => tree'[Combined[pos].at] = "array"
  BY <1>1 DEF LineFacts, Row
<1>4. HeadersInv
  BY DEF LineStep, ParserInv
<1>5. Combined' = Combined /\ pos' = pos + 1 /\ pos \in Nat \ {0}
  BY StepTypes DEF LineStep, ParserInv, ParserTypes
<1>6. \A i \in 1..(pos' - 1) : i \in 1..(pos - 1) \/ i = pos
  BY <1>5
<1>7. SUFFICES ASSUME NEW i \in 1..(pos' - 1), IsHeader(Combined[i])
               PROVE  /\ Combined[i].at \in DOMAIN tree'
                      /\ tree'[Combined[i].at] \in {"table", "array"}
                      /\ Combined[i].form = "array" => tree'[Combined[i].at] = "array"
  BY <1>5, Zenon DEF HeadersInv, Exists, IsHeader
<1>8. CASE i \in 1..(pos - 1)
  BY <1>2, <1>4, <1>7, <1>8 DEF HeadersInv, Exists
<1>9. CASE i = pos
  BY <1>3, <1>7, <1>9
<1> QED
  BY <1>6, <1>8, <1>9

LEMMA ParentStep ==
  ASSUME LineStep
  PROVE  ParentInv'
<1>1. PICK T, v, K, w : LineFacts(T, v, K, w)
  BY EveryLine
<1>2. /\ \A q \in DOMAIN tree : q \in DOMAIN tree' /\ tree'[q] = tree[q]
      /\ \A r, k \in Names :
            /\ <<r, k>> \in DOMAIN tree' => <<r, k>> \in DOMAIN tree \/ <<r, k>> \in K
            /\ <<r, k>> \in K =>
                  <<r>> \in DOMAIN tree' /\ tree'[<<r>>] \in {"table", "array"}
  BY <1>1 DEF LineFacts, Adds, Grown, NewKey
<1>3. \A r, k \in Names :
        <<r, k>> \in DOMAIN tree =>
            <<r>> \in DOMAIN tree /\ tree[<<r>>] \in {"table", "array"}
  BY DEF LineStep, ParserInv, ParentInv, Exists
<1>4. \A r, k \in Names :
        <<r, k>> \in DOMAIN tree' =>
            <<r>> \in DOMAIN tree' /\ tree'[<<r>>] \in {"table", "array"}
  BY <1>2, <1>3
<1> QED
  BY <1>4 DEF ParentInv, Exists

LEMMA SectionsStep ==
  ASSUME LineStep
  PROVE  SectionsInv'
<1>1. PICK T, v, K, w : LineFacts(T, v, K, w)
  BY EveryLine
<1>2. \A r \in Names :
        <<r>> \in DOMAIN tree' <=> <<r>> \in DOMAIN tree \/ Heads(Combined, pos, r)
  BY <1>1 DEF LineFacts, Adds, NewTop
<1>3. \A r \in Names :
        <<r>> \in DOMAIN tree <=> \E i \in 1..(pos - 1) : Heads(Combined, i, r)
  BY DEF LineStep, ParserInv, SectionsInv, Exists, Heads
<1>4. Combined' = Combined /\ pos' = pos + 1 /\ pos \in Nat \ {0}
  BY StepTypes DEF LineStep, ParserInv, ParserTypes
<1>5. \A i : i \in 1..(pos' - 1) <=> i \in 1..(pos - 1) \/ i = pos
  BY <1>4
<1>6. \A r \in Names :
        <<r>> \in DOMAIN tree' <=> \E i \in 1..(pos' - 1) : Heads(Combined', i, r)
  BY <1>2, <1>3, <1>4, <1>5
<1> QED
  BY <1>6 DEF SectionsInv, Exists, Heads

LEMMA KeysStep ==
  ASSUME LineStep
  PROVE  KeysInv'
<1>1. PICK T, v, K, w : LineFacts(T, v, K, w)
  BY EveryLine
<1>2. Combined' = Combined /\ pos' = pos + 1 /\ pos \in Nat \ {0}
  BY StepTypes DEF LineStep, ParserInv, ParserTypes
<1>3. \A q \in DOMAIN tree : q \in DOMAIN tree' /\ tree'[q] = tree[q]
  BY <1>1 DEF LineFacts, Adds, Grown
<1>4. SUFFICES ASSUME NEW s \in Names, NEW k \in Names,
                      ~(<<s>> \in DOMAIN tree' /\ tree'[<<s>>] = "array")
               PROVE  IF <<s, k>> \in DOMAIN tree'
                        THEN \E i \in 1..pos :
                                FirstMention(i, s, k)
                                /\ tree'[<<s, k>>] = Said(Combined, i)
                        ELSE \A i \in 1..pos : i \notin Mentions(Combined, s, k)
  <2>1. pos' - 1 = pos
    BY <1>2
  <2>2. ASSUME \A s, k \in Names :
                  ~(<<s>> \in DOMAIN tree' /\ tree'[<<s>>] = "array") =>
                     IF <<s, k>> \in DOMAIN tree'
                       THEN \E i \in 1..pos :
                               FirstMention(i, s, k)
                               /\ tree'[<<s, k>>] = Said(Combined, i)
                       ELSE \A i \in 1..pos : i \notin Mentions(Combined, s, k)
        PROVE  KeysInv'
    BY <1>2, <2>1, <2>2, Zenon DEF KeysInv, IsArray, Exists, FirstMention
  <2> QED
    BY <2>2, Zenon
<1>5. /\ <<s, k>> \in DOMAIN tree' <=> <<s, k>> \in DOMAIN tree \/ <<s, k>> \in K
      /\ <<s, k>> \in K /\ <<s, k>> \notin DOMAIN tree => tree'[<<s, k>>] = w
      /\ <<s, k>> \in K <=> pos \in Mentions(Combined, s, k)
      /\ <<s, k>> \in K => w = Said(Combined, pos)
  BY <1>1, <1>4 DEF LineFacts, Adds, NewKey
<1>6. ~IsArray(s)
  BY <1>3, <1>4 DEF IsArray, Exists
<1>7. IF <<s, k>> \in DOMAIN tree
        THEN \E i \in 1..(pos - 1) :
                FirstMention(i, s, k) /\ tree[<<s, k>>] = Said(Combined, i)
        ELSE \A i \in 1..(pos - 1) : i \notin Mentions(Combined, s, k)
  <2>1. KeysInv
    BY DEF LineStep, ParserInv
  <2> QED
    BY <1>6, <2>1, Zenon DEF KeysInv, Exists
<1>8. \A i : i \in 1..pos <=> i \in 1..(pos - 1) \/ i = pos
  BY <1>2
<1>9. CASE <<s, k>> \in DOMAIN tree
  BY <1>3, <1>7, <1>8, <1>9
<1>10. CASE <<s, k>> \notin DOMAIN tree /\ <<s, k>> \in K
  <2>1. FirstMention(pos, s, k)
    <3>1. \A j \in Mentions(Combined, s, k) : j \in Nat /\ j > 0
      BY DEF Mentions
    <3>2. \A j \in Mentions(Combined, s, k) : j \notin 1..(pos - 1)
      BY <1>7, <1>10
    <3>3. \A j \in Mentions(Combined, s, k) : pos <= j
      BY <1>2, <3>1, <3>2
    <3> QED
      BY <1>5, <1>10, <3>3 DEF FirstMention
  <2> QED
    BY <1>5, <1>8, <1>10, <2>1
<1>11. CASE <<s, k>> \notin DOMAIN tree /\ <<s, k>> \notin K
  BY <1>5, <1>7, <1>8, <1>11
<1> QED
  BY <1>9, <1>10, <1>11

LEMMA ChildrenStep ==
  ASSUME LineStep, NEW T, NEW v, NEW K, NEW w, LineFacts(T, v, K, w),
         NEW s \in Names
  PROVE  \A q : q \in Children(<<s>>)' <=>
                   q \in Children(<<s>>) \/ \E k \in Names : q = <<s, k>> /\ q \in K
<1>1. /\ DOMAIN tree \in SUBSET (Paths \ {<<>>})
      /\ DOMAIN tree' \in SUBSET (Paths \ {<<>>})
  BY StepTypes DEF LineFacts, Adds, Grown, TreeTypes
<1>2. \A q : q \in Children(<<s>>) <=> q \in DOMAIN tree /\ \E k \in Names : q = <<s, k>>
  BY <1>1, ChildrenOf DEF Children
<1>3. \A q : q \in Children(<<s>>)' <=> q \in DOMAIN tree' /\ \E k \in Names : q = <<s, k>>
  <2>1. \A q \in DOMAIN tree' : q # <<>> /\ Front(q) = <<s>> <=>
                                  \E k \in Names : q = <<s, k>>
    BY <1>1, ChildrenOf
  <2> QED
    BY <2>1 DEF Children
<1>4. \A k \in Names : <<s, k>> \in DOMAIN tree' <=>
                          <<s, k>> \in DOMAIN tree \/ <<s, k>> \in K
  BY DEF LineFacts, Adds, NewKey
<1> QED
  BY <1>2, <1>3, <1>4

LEMMA ListedStep ==
  ASSUME NEW s, NEW n \in Nat, n > 0
  PROVE  Listed(s, n) = Listed(s, n - 1) \cup
            (IF Combined[n].form = "array" /\ Combined[n].at = <<s>> THEN {n} ELSE {})
<1>1. \A i : i \in 1..n <=> i \in 1..(n - 1) \/ i = n
  OBVIOUS
<1> QED
  BY <1>1 DEF Listed

(* One more header is one more element.                                    *)
LEMMA ListedMore ==
  ASSUME LineStep, NEW s \in Names, Row.form = "array", Row.at = <<s>>
  PROVE  /\ Cardinality(Children(<<s>>)) = Cardinality(Listed(s, pos - 1))
         /\ Children(<<s>>) =
               {<<s, ToString(m)>> : m \in 1..Cardinality(Listed(s, pos - 1))}
         /\ Listed(s, pos) # {}
         /\ Cardinality(Listed(s, pos)) = Cardinality(Listed(s, pos - 1)) + 1
<1>1. pos \in Nat /\ pos > 0 /\ pos - 1 \in Nat
  BY DEF LineStep, ParserInv, ParserTypes
<1>2. PICK c : c = Cardinality(Listed(s, pos - 1))
  OBVIOUS
<1>3. IsFiniteSet(Listed(s, pos - 1)) /\ c \in Nat
  BY <1>1, <1>2, ListedFinite
<1>4. Cardinality(Children(<<s>>)) = c /\ Children(<<s>>) = {<<s, ToString(m)>> : m \in 1..c}
  <2>1. CASE IsArray(s)
    <3>1. Children(<<s>>) = {<<s, ToString(m)>> : m \in 1..c}
      BY <1>2, <2>1, Zenon DEF LineStep, ParserInv, ElementsInv
    <3> QED
      BY <1>2, <2>1, <3>1, ArrayOf DEF LineStep
  <2>2. CASE ~IsArray(s)
    <3>1. ~Exists(<<s>>) /\ Children(<<s>>) = {}
      BY <2>2, NextElement
    <3>2. Listed(s, pos - 1) = {}
      BY <3>1 DEF LineStep, ParserInv, HeadersInv, Listed, IsHeader
    <3>3. c = 0
      BY <1>2, <3>2, FS_EmptySet
    <3>4. Cardinality(Children(<<s>>)) = 0
      BY <3>1, FS_EmptySet
    <3>5. {<<s, ToString(m)>> : m \in 1..0} = {}
      OBVIOUS
    <3> QED
      BY <3>1, <3>3, <3>4, <3>5
  <2> QED
    BY <2>1, <2>2
<1>5. Listed(s, pos) = Listed(s, pos - 1) \cup {pos} /\ pos \notin Listed(s, pos - 1)
  <2>1. pos \notin 1..(pos - 1)
    BY <1>1
  <2>2. Listed(s, pos) = Listed(s, pos - 1) \cup {pos}
    BY <1>1, ListedStep DEF Row
  <2> QED
    BY <2>1, <2>2 DEF Listed
<1>6. Cardinality(Listed(s, pos)) = c + 1
  BY <1>2, <1>3, <1>5, FS_AddElement
<1>7. Listed(s, pos) # {}
  BY <1>5
<1> QED
  BY <1>2, <1>4, <1>6, <1>7, Zenon

LEMMA ListedSame ==
  ASSUME LineStep, NEW s \in Names, ~(Row.form = "array" /\ Row.at = <<s>>)
  PROVE  Listed(s, pos) = Listed(s, pos - 1)
<1>1. pos \in Nat /\ pos > 0
  BY DEF LineStep, ParserInv, ParserTypes
<1>2. Listed(s, pos) = Listed(s, pos - 1) \cup {}
  BY <1>1, ListedStep DEF Row
<1> QED
  BY <1>2

LEMMA ElementsStep ==
  ASSUME LineStep
  PROVE  ElementsInv'
<1>1. PICK T, v, K, w : LineFacts(T, v, K, w)
  BY EveryLine
<1>2. Combined' = Combined /\ pos' = pos + 1 /\ pos \in Nat /\ pos > 0 /\ pos - 1 \in Nat
  BY StepTypes DEF LineStep, ParserInv, ParserTypes
<1>3. \A s \in Names : Listed(s, pos - 1)' = Listed(s, pos)
  <2>1. pos' - 1 = pos
    BY <1>2
  <2> QED
    BY <1>2, <2>1 DEF Listed
<1>4. SUFFICES ASSUME NEW s \in Names, <<s>> \in DOMAIN tree', tree'[<<s>>] = "array"
               PROVE  /\ Listed(s, pos) # {}
                      /\ Children(<<s>>)' =
                            {<<s, ToString(m)>> : m \in 1..Cardinality(Listed(s, pos))}
  BY <1>3, Zenon DEF ElementsInv, IsArray, Exists
<1>5. PICK c : c = Cardinality(Listed(s, pos - 1))
  OBVIOUS
<1>6. IsFiniteSet(Listed(s, pos - 1)) /\ c \in Nat
  BY <1>2, <1>5, ListedFinite
<1>7. \A q : q \in Children(<<s>>)' <=>
                q \in Children(<<s>>) \/ \E k \in Names : q = <<s, k>> /\ q \in K
  BY <1>1, ChildrenStep
<1>8. IsArray(s) => /\ Listed(s, pos - 1) # {}
                    /\ Children(<<s>>) = {<<s, ToString(m)>> : m \in 1..c}
  BY <1>5, Zenon DEF LineStep, ParserInv, ElementsInv
<1>9. CASE Row.form = "array" /\ Row.at = <<s>>
  <2>1. /\ K = {<<s, ToString(Cardinality(Children(<<s>>)) + 1)>>}
        /\ ToString(Cardinality(Children(<<s>>)) + 1) \in Names
    BY <1>1, <1>9, NextElement DEF LineFacts
  <2>2. Cardinality(Children(<<s>>)) = c /\ Children(<<s>>) = {<<s, ToString(m)>> : m \in 1..c}
    BY <1>5, <1>9, ListedMore, Zenon
  <2>3. Listed(s, pos) # {} /\ Cardinality(Listed(s, pos)) = c + 1
    BY <1>5, <1>9, ListedMore, Zenon
  <2>5. \A q : q \in Children(<<s>>)' <=> \E m \in 1..(c + 1) : q = <<s, ToString(m)>>
    <3>1. \A m : m \in 1..(c + 1) <=> m \in 1..c \/ m = c + 1
      BY <1>6
    <3>2. \A q : q \in Children(<<s>>)' <=>
                    q \in Children(<<s>>) \/ q = <<s, ToString(c + 1)>>
      BY <1>7, <2>1, <2>2
    <3> QED
      BY <2>2, <3>1, <3>2
  <2>6. Children(<<s>>)' = {<<s, ToString(m)>> : m \in 1..(c + 1)}
    BY <2>5, Zenon
  <2> QED
    BY <2>3, <2>6, Zenon
<1>10. CASE ~(Row.form = "array" /\ Row.at = <<s>>)
  <2>1. IsArray(s) /\ \A k \in Names : <<s, k>> \notin K
    BY <1>1, <1>4, <1>10 DEF LineFacts, IsArray, Exists
  <2>2. \A q : q \in Children(<<s>>)' <=> q \in Children(<<s>>)
    BY <1>7, <2>1
  <2>3. Children(<<s>>)' = Children(<<s>>)
    BY <2>2, Zenon
  <2>4. Listed(s, pos) = Listed(s, pos - 1)
    BY <1>10, ListedSame
  <2> QED
    BY <1>5, <1>8, <2>1, <2>3, <2>4, Zenon
<1> QED
  BY <1>9, <1>10

(* What a line adds below the elements of arrays: nothing, or a key of the *)
(* current one.                                                            *)
LEMMA StoredOnly ==
  ASSUME NEW line, StoreKey(line)
  PROVE  /\ \A q \in DOMAIN tree' :
                q \in DOMAIN tree \/ q = Table(line) \/ q = Target(line)
         /\ DOMAIN tree \in SUBSET DOMAIN tree'
<1>1. CASE Table(line) = cur
  <2>1. tree' = Insert(tree, Target(line), line.val)
    BY <1>1 DEF StoreKey
  <2>2. DOMAIN tree' = DOMAIN tree \cup {Target(line)}
    BY <2>1, Inserted, Zenon
  <2> QED
    BY <2>2
<1>2. CASE Table(line) # cur
  <2>1. PICK u : u = Insert(tree, Table(line), "table")
    OBVIOUS
  <2>2. tree' = Insert(u, Target(line), line.val)
    BY <1>2, <2>1 DEF StoreKey
  <2>3. DOMAIN u = DOMAIN tree \cup {Table(line)}
    BY <2>1, Inserted, Zenon
  <2>4. DOMAIN tree' = DOMAIN u \cup {Target(line)}
    BY <2>2, Inserted, Zenon
  <2> QED
    BY <2>3, <2>4
<1> QED
  BY <1>1, <1>2

LEMMA ShortNotBelow ==
  ASSUME NEW a \in Names, NEW b \in Names, NEW c \in Names,
         NEW s \in Names, NEW k \in Names
  PROVE  <<a, b, c>> # <<>> /\ <<a, b, c>> # <<s>> /\ <<a, b, c>> # <<s, k>>
  OBVIOUS

LEMMA SectionTarget ==
  ASSUME NEW s \in Names, cur = <<s>>, NEW line, NEW k \in Names, NEW j \in Names,
         line.at \in {<<k>>, <<k, j>>}, NEW a \in Names, NEW b \in Names,
         NEW c \in Names
  PROVE  <<a, b, c>> # Table(line) /\ (<<a, b, c>> = Target(line) => a = s)
<1>1. <<s>> \in Seq(Names)
  BY OneName
<1>2. CASE line.at = <<k>>
  <2>1. Target(line) = <<s, k>>
    BY <1>2, KeyOfSection DEF Target
  <2>2. Table(line) = <<s>>
    BY <1>1, <1>2, PlainTable DEF Table, Target
  <2>3. <<a, b, c>> # <<s>> /\ <<a, b, c>> # <<s, k>>
    OBVIOUS
  <2> QED
    BY <2>1, <2>2, <2>3, Zenon
<1>3. CASE line.at = <<k, j>>
  <2>1. Table(line) = <<s, k>>
    <3>1. Front(<<s>> \o <<k, j>>) = <<s>> \o <<k>>
      BY <1>1, DottedTable
    <3>2. <<s>> \o <<k>> = <<s, k>>
      BY KeyOfSection
    <3> QED
      BY <1>3, <3>1, <3>2, Zenon DEF Table, Target
  <2>2. PICK p : p = Target(line) /\ p = <<s>> \o <<k, j>>
    BY <1>3 DEF Target
  <2>3. p[1] = s
    <3>1. PICK h \in Seq(Names) : h = <<s>> /\ Len(h) = 1 /\ h[1] = s
      <4>1. <<s>> \in Seq(Names) /\ Len(<<s>>) = 1 /\ <<s>>[1] = s
        BY OneName
      <4> QED
        BY <4>1, Zenon
    <3>2. p = h \o <<k, j>>
      BY <2>2, <3>1
    <3>3. \A i \in 1..Len(h) : p[i] = h[i]
      BY <3>2, WithTwo
    <3> QED
      BY <3>1, <3>3
  <2>4. <<a, b, c>>[1] = a
    BY ThreeNames
  <2> QED
    BY <2>1, <2>2, <2>3, <2>4, ShortNotBelow
<1> QED
  BY <1>2, <1>3

LEMMA ElementTarget ==
  ASSUME NEW s \in Names, NEW x \in Names, cur = <<s, x>>, NEW line,
         NEW k \in Names, NEW j \in Names
  PROVE  /\ line.at = <<k>> => Target(line) = <<s, x, k>> /\ Table(line) = cur
         /\ line.at = <<k, j>> =>
               /\ Table(line) = <<s, x, k>> /\ Table(line) # cur
               /\ \A a, b, c \in Names : <<a, b, c>> # Target(line)
<1>1. <<s, x>> \in Seq(Names)
  BY TwoNames
<1>2. CASE line.at = <<k>>
  <2>1. Target(line) = <<s, x, k>>
    BY <1>2, KeyOfElement DEF Target
  <2>2. Table(line) = cur
    BY <1>1, <1>2, PlainTable DEF Table, Target
  <2>3. <<k>> # <<k, j>>
    OBVIOUS
  <2> QED
    BY <1>2, <2>1, <2>2, <2>3
<1>3. CASE line.at = <<k, j>>
  <2>1. Front(<<s, x>> \o <<k, j>>) = <<s, x>> \o <<k>>
    BY <1>1, DottedTable
  <2>2. Table(line) = <<s, x, k>>
    BY <1>3, <2>1, KeyOfElement DEF Table, Target
  <2>3. Table(line) # cur
    BY <2>2, ShortNotBelow
  <2>4. Len(Target(line)) = 4
    BY <1>3, DottedOfElement DEF Target
  <2>5. \A a, b, c \in Names : <<a, b, c>> # Target(line)
    <3>1. \A a, b, c \in Names : Len(<<a, b, c>>) = 3
      BY ThreeNames
    <3> QED
      BY <2>4, <3>1
  <2>6. <<k>> # <<k, j>>
    OBVIOUS
  <2> QED
    BY <1>3, <2>2, <2>3, <2>5, <2>6
<1> QED
  BY <1>2, <1>3

(* A line adds nothing below s and is not about a key of s, or it is about *)
(* key k of the current element of s, and makes it w unless it is there.   *)
Quiet(s) ==
    /\ \A x, k \in Names : <<s, x, k>> \in DOMAIN tree' => <<s, x, k>> \in DOMAIN tree
    /\ \A k \in Names : pos \notin Mentions(Combined, s, k)

Speaks(s, x, k, w) ==
    /\ \A y, j \in Names :
          <<s, y, j>> \in DOMAIN tree' <=>
              <<s, y, j>> \in DOMAIN tree \/ (y = x /\ j = k)
    /\ <<s, x, k>> \notin DOMAIN tree => tree'[<<s, x, k>>] = w
    /\ \A j \in Names : pos \in Mentions(Combined, s, j) <=> j = k
    /\ Said(Combined, pos) = w

LEMMA HeaderQuiet ==
  ASSUME LineStep, IsHeader(Row) \/ Row.form = "comment", NEW s \in Names
  PROVE  Quiet(s)
<1>1. pos \in 1..Len(Combined)
  BY StepTypes
<1>2. CASE Row.form = "comment"
  <2>1. tree' = tree
    BY <1>2, StepTypes
  <2>2. Place(Combined, pos) = <<>>
    BY <1>2, PlaceOf DEF Row
  <2>3. \A k \in Names : pos \notin Mentions(Combined, s, k)
    BY <1>1, <2>2, AboutNothing
  <2> QED
    BY <2>1, <2>3 DEF Quiet
<1>3. ASSUME IsHeader(Row)
      PROVE  Quiet(s)
  <2>1. PICK r \in Names : Row.at = <<r>>
    BY <1>3, StepTypes, CombinedKinds DEF LineStep, Row, IsHeader, IsKeyRow
  <2>2. \A k \in Names : pos \notin Mentions(Combined, s, k)
    <3>1. Place(Combined, pos) = <<r>>
      BY <1>3, <2>1, PlaceOf DEF Row
    <3> QED
      BY <1>1, <3>1, AboutSection
  <2>3. CASE Row.form = "table"
    <3>1. tree' = Insert(tree, <<r>>, "table")
      BY <2>1, <2>3, StepTypes DEF OpenTable
    <3>2. DOMAIN tree' = DOMAIN tree \cup {<<r>>}
      BY <3>1, Inserted, Zenon
    <3>3. \A x, k \in Names : <<s, x, k>> # <<r>>
      BY ShortNotBelow
    <3> QED
      BY <2>2, <3>2, <3>3 DEF Quiet
  <2>4. CASE Row.form = "array"
    <3>1. PICK y \in Names : Element(<<r>>) = <<r, y>>
      BY <2>1, <2>4, NextElement
    <3>2. PICK u : u = Insert(tree, <<r>>, "array")
      OBVIOUS
    <3>3. tree' = Insert(u, <<r, y>>, "table")
      BY <2>1, <2>4, <3>1, <3>2, StepTypes DEF OpenArray
    <3>4. DOMAIN u = DOMAIN tree \cup {<<r>>}
      BY <3>2, Inserted, Zenon
    <3>5. DOMAIN tree' = DOMAIN u \cup {<<r, y>>}
      BY <3>3, Inserted, Zenon
    <3>6. \A x, k \in Names : <<s, x, k>> # <<r>> /\ <<s, x, k>> # <<r, y>>
      BY ShortNotBelow
    <3> QED
      BY <2>2, <3>4, <3>5, <3>6 DEF Quiet
  <2> QED
    BY <1>3, <2>3, <2>4 DEF IsHeader
<1> QED
  BY <1>2, <1>3

LEMMA TopQuiet ==
  ASSUME LineStep, IsKeyRow(Row), Scope(Combined, pos) = <<>>, cur = <<>>,
         NEW s \in Names, <<s>> \in DOMAIN tree' => tree'[<<s>>] # "table"
  PROVE  Quiet(s)
<1>1. /\ StoreKey(Row) /\ TreeTypes /\ pos \in 1..Len(Combined) /\ Legal(Row)
      /\ Row.form = "key"
  BY StepTypes DEF IsKeyRow
<1>2. Place(Combined, pos) = <<>> \o Row.at
  BY <1>1, PlaceOf DEF Row
<1>3. \A q \in DOMAIN tree' : q \in DOMAIN tree \/ q = Table(Row) \/ q = Target(Row)
  BY <1>1, StoredOnly
<1>4. ASSUME NEW a \in Names, Row.at = <<a>>
      PROVE  Quiet(s)
  <2>1. <<a>> \in Seq(Names)
    BY OneName
  <2>2. <<>> \o <<a>> = <<a>> /\ <<>> \in Seq(Names)
    BY <2>1, ConcatEmptySeq, EmptySeq
  <2>3. Target(Row) = <<a>>
    BY <1>4, <2>2 DEF Target
  <2>4. Table(Row) = <<>>
    <3>1. Front(<<>> \o <<a>>) = <<>>
      BY <2>2, PlainTable
    <3> QED
      BY <1>4, <3>1 DEF Table, Target
  <2>5. \A x, k \in Names : <<s, x, k>> # <<a>> /\ <<s, x, k>> # <<>>
    BY ShortNotBelow
  <2>6. \A k \in Names : pos \notin Mentions(Combined, s, k)
    BY <1>1, <1>2, <1>4, <2>2, AboutSection
  <2> QED
    BY <1>3, <2>3, <2>4, <2>5, <2>6 DEF Quiet
<1>5. ASSUME NEW a \in Names, NEW b \in Names, Row.at = <<a, b>>
      PROVE  Quiet(s)
  <2>1. /\ Table(Row) = <<a>> /\ Target(Row) = <<a, b>>
        /\ Adds({a}, "table", {<<a, b>>}, Row.val)
    BY <1>1, <1>5, TopDottedAdds
  <2>2. <<a>> \in DOMAIN tree => tree[<<a>>] = "table"
    BY <1>1, <2>1 DEF Legal, Exists
  <2>3. /\ <<a>> \in DOMAIN tree' /\ (<<a>> \notin DOMAIN tree => tree'[<<a>>] = "table")
        /\ \A q \in DOMAIN tree : tree'[q] = tree[q]
    BY <2>1 DEF Adds, NewTop, Grown
  <2>4. s # a
    BY <2>2, <2>3
  <2>5. <<a, b>> \in Seq(Names)
    BY TwoNames
  <2>6. Place(Combined, pos) = <<a, b>>
    BY <1>2, <1>5, <2>5, ConcatEmptySeq
  <2>7. \A k \in Names : pos \notin Mentions(Combined, s, k)
    BY <1>1, <2>4, <2>6, AboutKey
  <2>8. \A x, k \in Names : <<s, x, k>> # <<a>> /\ <<s, x, k>> # <<a, b>>
    BY ShortNotBelow
  <2> QED
    BY <1>3, <2>1, <2>7, <2>8 DEF Quiet
<1> QED
  BY <1>4, <1>5 DEF IsKeyRow

(* What a key below [r] or [[r]] is about.                                 *)
LEMMA AboutScope ==
  ASSUME LineStep, IsKeyRow(Row), NEW r \in Names, Scope(Combined, pos) = <<r>>,
         NEW k \in Names, NEW j \in Names
  PROVE  /\ Row.at = <<k>> =>
               /\ \A s, i \in Names : pos \in Mentions(Combined, s, i) <=> s = r /\ i = k
               /\ Said(Combined, pos) = Row.val
         /\ Row.at = <<k, j>> =>
               /\ \A s, i \in Names : pos \in Mentions(Combined, s, i) <=> s = r /\ i = k
               /\ Said(Combined, pos) = "table"
<1>1. pos \in 1..Len(Combined) /\ Place(Combined, pos) = <<r>> \o Row.at
  BY StepTypes, PlaceOf DEF Row, IsKeyRow
<1>2. ASSUME Row.at = <<k>>
      PROVE  /\ \A s, i \in Names : pos \in Mentions(Combined, s, i) <=> s = r /\ i = k
             /\ Said(Combined, pos) = Row.val
  <2>1. Place(Combined, pos) = <<r, k>>
    BY <1>1, <1>2, KeyOfSection
  <2> QED
    BY <1>1, <2>1, AboutKey DEF Row
<1>3. ASSUME Row.at = <<k, j>>
      PROVE  /\ \A s, i \in Names : pos \in Mentions(Combined, s, i) <=> s = r /\ i = k
             /\ Said(Combined, pos) = "table"
  <2>1. Place(Combined, pos) = <<r>> \o <<k, j>>
    BY <1>1, <1>3
  <2> QED
    BY <1>1, <2>1, AboutBelow
<1> QED
  BY <1>2, <1>3

LEMMA SectionQuiet ==
  ASSUME LineStep, IsKeyRow(Row), NEW r \in Names, Scope(Combined, pos) = <<r>>,
         Exists(<<r>>), tree[<<r>>] = "table", cur = <<r>>,
         NEW s \in Names, <<s>> \in DOMAIN tree' => tree'[<<s>>] # "table"
  PROVE  Quiet(s)
<1>1. PICK k \in Names, j \in Names : Row.at \in {<<k>>, <<k, j>>}
  BY DEF IsKeyRow
<1>2. s # r
  <2>1. PICK T, v, K, w : LineFacts(T, v, K, w)
    BY EveryLine
  <2>2. <<r>> \in DOMAIN tree' /\ tree'[<<r>>] = "table"
    BY <2>1 DEF LineFacts, Adds, Grown, Exists
  <2> QED
    BY <2>2
<1>3. \A i \in Names : pos \notin Mentions(Combined, s, i)
  BY <1>1, <1>2, AboutScope
<1>4. \A q \in DOMAIN tree' : q \in DOMAIN tree \/ q = Table(Row) \/ q = Target(Row)
  BY StepTypes, StoredOnly DEF IsKeyRow
<1>5. \A x, i \in Names : <<s, x, i>> # Table(Row) /\ <<s, x, i>> # Target(Row)
  BY <1>1, <1>2, SectionTarget
<1> QED
  BY <1>3, <1>4, <1>5 DEF Quiet

LEMMA ElementSpeaks ==
  ASSUME LineStep, IsKeyRow(Row), NEW r \in Names, NEW x \in Names,
         Scope(Combined, pos) = <<r>>, cur = <<r, x>>
  PROVE  /\ \A s \in Names : s # r => Quiet(s)
         /\ \E k \in Names : \E w : Speaks(r, x, k, w)
<1>1. StoreKey(Row)
  BY StepTypes DEF IsKeyRow
<1>2. ASSUME NEW k \in Names, Row.at = <<k>>
      PROVE  /\ \A s \in Names : s # r => Quiet(s)
             /\ Speaks(r, x, k, Row.val)
  <2>1. Target(Row) = <<r, x, k>> /\ Table(Row) = cur
    BY <1>2, ElementTarget
  <2>2. tree' = Insert(tree, <<r, x, k>>, Row.val)
    BY <1>1, <2>1 DEF StoreKey
  <2>3. /\ DOMAIN tree' = DOMAIN tree \cup {<<r, x, k>>}
        /\ <<r, x, k>> \notin DOMAIN tree => tree'[<<r, x, k>>] = Row.val
    BY <2>2, Inserted, Zenon
  <2>4. /\ \A s, i \in Names : pos \in Mentions(Combined, s, i) <=> s = r /\ i = k
        /\ Said(Combined, pos) = Row.val
    BY <1>2, AboutScope
  <2>5. \A s, y, i \in Names : <<s, y, i>> = <<r, x, k>> <=> s = r /\ y = x /\ i = k
    OBVIOUS
  <2> QED
    BY <2>3, <2>4, <2>5 DEF Quiet, Speaks
<1>3. ASSUME NEW k \in Names, NEW j \in Names, Row.at = <<k, j>>
      PROVE  /\ \A s \in Names : s # r => Quiet(s)
             /\ Speaks(r, x, k, "table")
  <2>1. /\ Table(Row) = <<r, x, k>> /\ Table(Row) # cur
        /\ \A a, b, c \in Names : <<a, b, c>> # Target(Row)
    BY <1>3, ElementTarget
  <2>2. PICK u : u = Insert(tree, <<r, x, k>>, "table")
    OBVIOUS
  <2>3. tree' = Insert(u, Target(Row), Row.val)
    BY <1>1, <2>1, <2>2 DEF StoreKey
  <2>4. /\ DOMAIN u = DOMAIN tree \cup {<<r, x, k>>}
        /\ <<r, x, k>> \notin DOMAIN tree => u[<<r, x, k>>] = "table"
    BY <2>2, Inserted, Zenon
  <2>5. /\ DOMAIN tree' = DOMAIN u \cup {Target(Row)}
        /\ \A q \in DOMAIN u : tree'[q] = u[q]
    BY <2>3 DEF Insert
  <2>6. /\ \A s, i \in Names : pos \in Mentions(Combined, s, i) <=> s = r /\ i = k
        /\ Said(Combined, pos) = "table"
    BY <1>3, AboutScope
  <2>7. \A s, y, i \in Names : <<s, y, i>> = <<r, x, k>> <=> s = r /\ y = x /\ i = k
    OBVIOUS
  <2>8. /\ \A s, y, i \in Names :
              <<s, y, i>> \in DOMAIN tree' <=>
                  <<s, y, i>> \in DOMAIN tree \/ (s = r /\ y = x /\ i = k)
        /\ <<r, x, k>> \notin DOMAIN tree => tree'[<<r, x, k>>] = "table"
    BY <2>1, <2>4, <2>5, <2>7
  <2> QED
    BY <2>6, <2>8 DEF Quiet, Speaks
<1> QED
  BY <1>2, <1>3 DEF IsKeyRow

LEMMA BelowStep ==
  ASSUME LineStep, NEW s \in Names, <<s>> \in DOMAIN tree' => tree'[<<s>>] # "table"
  PROVE  \/ Quiet(s)
         \/ /\ ~IsHeader(Row) /\ Scope(Combined, pos) = <<s>> /\ IsArray(s)
            /\ \E x \in Names, k \in Names : \E w : cur = <<s, x>> /\ Speaks(s, x, k, w)
<1>1. CASE Row.form # "key"
  BY <1>1, StepTypes, HeaderQuiet DEF IsHeader
<1>2. CASE Row.form = "key"
  <2>1. IsKeyRow(Row) /\ ~IsHeader(Row)
    BY <1>2, StepTypes, CombinedKinds DEF LineStep, Row, IsHeader
  <2>2. CASE Scope(Combined, pos) = <<>> /\ cur = <<>>
    BY <2>1, <2>2, TopQuiet
  <2>3. ASSUME NEW r \in Names, Scope(Combined, pos) = <<r>>, Exists(<<r>>),
               tree[<<r>>] = "table", cur = <<r>>
        PROVE  Quiet(s)
    BY <2>1, <2>3, SectionQuiet
  <2>4. ASSUME NEW r \in Names, NEW x \in Names, Scope(Combined, pos) = <<r>>,
               Exists(<<r>>), tree[<<r>>] = "array", cur = <<r, x>>
        PROVE  \/ Quiet(s)
               \/ /\ Scope(Combined, pos) = <<s>> /\ IsArray(s) /\ cur = <<s, x>>
                  /\ \E k \in Names : \E w : Speaks(s, x, k, w)
    <3>1. /\ \A t \in Names : t # r => Quiet(t)
          /\ \E k \in Names : \E w : Speaks(r, x, k, w)
      BY <2>1, <2>4, ElementSpeaks
    <3>2. CASE s = r
      BY <2>4, <3>1, <3>2 DEF IsArray
    <3> QED
      BY <3>1, <3>2
  <2>5. CurrentInv
    BY DEF LineStep, ParserInv
  <2> QED
    BY <2>1, <2>2, <2>3, <2>4, <2>5 DEF CurrentInv
<1> QED
  BY <1>1, <1>2

LEMMA LastElementStep ==
  ASSUME LineStep
  PROVE  LastElementInv'
<1>1. PICK T, v, K, w : LineFacts(T, v, K, w)
  BY EveryLine
<1>2. Combined' = Combined /\ pos' = pos + 1 /\ pos' - 1 = pos
  BY StepTypes DEF LineStep, ParserInv, ParserTypes
<1>3. \A s : Listed(s, pos - 1)' = Listed(s, pos)
  BY <1>2 DEF Listed
<1>4. SUFFICES ASSUME NEW s \in Names, Scope(Combined, pos + 1) = <<s>>,
                      <<s>> \in DOMAIN tree', tree'[<<s>>] = "array"
               PROVE  cur' = <<s, ToString(Cardinality(Listed(s, pos)))>>
  BY <1>2, <1>3, Zenon DEF LastElementInv, IsArray, Exists
<1>5. CASE IsHeader(Row)
  <2>1. Row.at = <<s>>
    BY <1>4, <1>5, ScopeAfter
  <2>2. CASE Row.form = "array"
    <3>1. cur' = <<s, ToString(Cardinality(Children(<<s>>)) + 1)>>
      BY <2>1, <2>2, StepTypes, NextElement DEF OpenArray
    <3> QED
      BY <2>1, <2>2, <3>1, ListedMore, Zenon
  <2>3. CASE Row.form = "table"
    <3>1. IsArray(s)
      BY <1>1, <1>4, <2>3 DEF LineFacts, IsArray, Exists
    <3>2. cur' = LastTable(<<s>>)
      BY <2>1, <2>3, <3>1, StepTypes DEF OpenTable, IsArray
    <3>3. Listed(s, pos) = Listed(s, pos - 1)
      BY <2>3, ListedSame
    <3> QED
      BY <3>1, <3>2, <3>3, ArrayOf DEF LineStep
  <2> QED
    BY <1>5, <2>2, <2>3 DEF IsHeader
<1>6. CASE ~IsHeader(Row)
  <2>1. Scope(Combined, pos) = <<s>> /\ cur' = cur
    BY <1>4, <1>6, ScopeAfter, StepTypes DEF IsHeader, StoreKey
  <2>2. IsArray(s)
    BY <1>1, <1>4, <1>6 DEF LineFacts, IsArray, Exists, IsHeader
  <2>3. Listed(s, pos) = Listed(s, pos - 1)
    BY <1>6, ListedSame DEF IsHeader
  <2>4. cur = <<s, ToString(Cardinality(Listed(s, pos - 1)))>>
    BY <2>1, <2>2, Zenon DEF LineStep, ParserInv, LastElementInv
  <2> QED
    BY <2>1, <2>3, <2>4, Zenon
<1> QED
  BY <1>5, <1>6

(* What the line adds for key k of element m of s is what it says of it.   *)
LEMMA ElementSaid ==
  ASSUME LineStep, NEW s \in Names, <<s>> \in DOMAIN tree' => tree'[<<s>>] # "table",
         NEW k \in Names, NEW m \in 1..Len(Combined)
  PROVE  /\ <<s, ToString(m), k>> \in DOMAIN tree' =>
               <<s, ToString(m), k>> \in DOMAIN tree \/ AboutElement(pos, s, k, m)
         /\ AboutElement(pos, s, k, m) =>
               /\ <<s, ToString(m), k>> \in DOMAIN tree'
               /\ <<s, ToString(m), k>> \notin DOMAIN tree =>
                     tree'[<<s, ToString(m), k>>] = Said(Combined, pos)
<1>1. ToString(m) \in Names
  BY NamesOfElements DEF LineStep
<1>2. CASE Quiet(s)
  BY <1>1, <1>2 DEF Quiet, AboutElement
<1>3. ASSUME ~IsHeader(Row), Scope(Combined, pos) = <<s>>, IsArray(s),
             NEW x \in Names, NEW i \in Names, NEW w, cur = <<s, x>>,
             Speaks(s, x, i, w)
      PROVE  /\ <<s, ToString(m), k>> \in DOMAIN tree' =>
                   <<s, ToString(m), k>> \in DOMAIN tree \/ AboutElement(pos, s, k, m)
             /\ AboutElement(pos, s, k, m) =>
                   /\ <<s, ToString(m), k>> \in DOMAIN tree'
                   /\ <<s, ToString(m), k>> \notin DOMAIN tree =>
                         tree'[<<s, ToString(m), k>>] = Said(Combined, pos)
  <2>1. PICK c : c = Cardinality(Listed(s, pos))
    OBVIOUS
  <2>2. c = Cardinality(Listed(s, pos - 1))
    BY <1>3, <2>1, ListedSame DEF IsHeader
  <2>3. c \in 1..Len(Combined)
    BY <1>3, <2>2, ArrayOf DEF LineStep
  <2>4. x = ToString(c)
    <3>1. cur = <<s, ToString(c)>>
      BY <1>3, <2>2, Zenon DEF LineStep, ParserInv, LastElementInv
    <3> QED
      BY <1>3, <3>1
  <2>5. ToString(m) = x <=> m = c
    BY <2>3, <2>4, NamesOfElements DEF LineStep
  <2>6. AboutElement(pos, s, k, m) <=> k = i /\ m = c
    BY <1>3, <2>1 DEF Speaks, AboutElement
  <2> QED
    BY <1>1, <1>3, <2>5, <2>6 DEF Speaks
<1> QED
  BY <1>2, <1>3, BelowStep

LEMMA AboutKept ==
  ASSUME Combined' = Combined
  PROVE  /\ \A i, s, k, m : AboutElement(i, s, k, m)' <=> AboutElement(i, s, k, m)
         /\ \A i, s, k, m : FirstAbout(i, s, k, m)' <=> FirstAbout(i, s, k, m)
<1>1. \A s, n : Listed(s, n)' = Listed(s, n)
  BY DEF Listed
<1>2. \A i, s, k, m : AboutElement(i, s, k, m)' <=> AboutElement(i, s, k, m)
  BY <1>1, Zenon DEF AboutElement
<1>3. \A i, s, k, m : FirstAbout(i, s, k, m)' <=> FirstAbout(i, s, k, m)
  BY <1>2, Zenon DEF FirstAbout
<1> QED
  BY <1>2, <1>3

LEMMA ElementKeysStep ==
  ASSUME LineStep
  PROVE  ElementKeysInv'
<1>1. PICK T, v, K, w : LineFacts(T, v, K, w)
  BY EveryLine
<1>2. Combined' = Combined /\ pos' - 1 = pos /\ pos \in Nat \ {0}
  BY StepTypes DEF LineStep, ParserInv, ParserTypes
<1>3. \A q \in DOMAIN tree : q \in DOMAIN tree' /\ tree'[q] = tree[q]
  BY <1>1 DEF LineFacts, Adds, Grown
<1>4. SUFFICES ASSUME NEW s \in Names, NEW k \in Names,
                      <<s>> \in DOMAIN tree' => tree'[<<s>>] # "table",
                      NEW m \in 1..Len(Combined)
               PROVE  IF <<s, ToString(m), k>> \in DOMAIN tree'
                        THEN \E i \in 1..pos :
                                /\ FirstAbout(i, s, k, m)
                                /\ tree'[<<s, ToString(m), k>>] = Said(Combined, i)
                        ELSE \A i \in 1..pos : ~AboutElement(i, s, k, m)
  <2>1. ASSUME \A s, k \in Names :
                  (<<s>> \in DOMAIN tree' => tree'[<<s>>] # "table") =>
                    \A m \in 1..Len(Combined) :
                      IF <<s, ToString(m), k>> \in DOMAIN tree'
                        THEN \E i \in 1..pos :
                                /\ FirstAbout(i, s, k, m)
                                /\ tree'[<<s, ToString(m), k>>] = Said(Combined, i)
                        ELSE \A i \in 1..pos : ~AboutElement(i, s, k, m)
        PROVE  ElementKeysInv'
    BY <1>2, <2>1, AboutKept, Zenon DEF ElementKeysInv, Exists
  <2> QED
    BY <2>1, Zenon
<1>5. PICK p : p = <<s, ToString(m), k>>
  OBVIOUS
<1>6. /\ p \in DOMAIN tree' => p \in DOMAIN tree \/ AboutElement(pos, s, k, m)
      /\ AboutElement(pos, s, k, m) =>
            /\ p \in DOMAIN tree'
            /\ p \notin DOMAIN tree => tree'[p] = Said(Combined, pos)
  BY <1>4, <1>5, ElementSaid
<1>7. Exists(<<s>>) => tree[<<s>>] # "table"
  BY <1>3, <1>4 DEF Exists
<1>8. IF p \in DOMAIN tree
        THEN \E i \in 1..(pos - 1) :
                FirstAbout(i, s, k, m) /\ tree[p] = Said(Combined, i)
        ELSE \A i \in 1..(pos - 1) : ~AboutElement(i, s, k, m)
  <2>1. ElementKeysInv
    BY DEF LineStep, ParserInv
  <2> QED
    BY <1>5, <1>7, <2>1, Zenon DEF ElementKeysInv, Exists
<1>9. \A i : i \in 1..pos <=> i \in 1..(pos - 1) \/ i = pos
  BY <1>2
<1>10. IF p \in DOMAIN tree'
         THEN \E i \in 1..pos :
                 FirstAbout(i, s, k, m) /\ tree'[p] = Said(Combined, i)
         ELSE \A i \in 1..pos : ~AboutElement(i, s, k, m)
  <2>1. CASE p \in DOMAIN tree
    BY <1>3, <1>8, <1>9, <2>1
  <2>2. CASE p \notin DOMAIN tree /\ AboutElement(pos, s, k, m)
    <3>1. \A j \in 1..Len(Combined) : AboutElement(j, s, k, m) => pos <= j
      <4>1. \A j \in 1..Len(Combined) : AboutElement(j, s, k, m) => j \notin 1..(pos - 1)
        BY <1>8, <2>2
      <4> QED
        BY <1>2, <4>1
    <3>2. FirstAbout(pos, s, k, m)
      BY <2>2, <3>1 DEF FirstAbout
    <3> QED
      BY <1>6, <1>9, <2>2, <3>2
  <2>3. CASE p \notin DOMAIN tree /\ ~AboutElement(pos, s, k, m)
    BY <1>6, <1>8, <1>9, <2>3
  <2> QED
    BY <2>1, <2>2, <2>3
<1> QED
  BY <1>5, <1>10, Zenon

LEMMA LineKeeps ==
  ASSUME LineStep
  PROVE  ParserInv'
  BY TypesStep, HeadersStep, CurrentStep, ParentStep, SectionsStep, KeysStep,
     ElementsStep, LastElementStep, ElementKeysStep, Zenon DEF ParserInv

(* Nothing is read yet.                                                    *)
Fresh == TextTypes /\ stage = "combining" /\ pos = 1 /\ tree = Empty /\ cur = <<>>

LEMMA ParserStarts == Fresh => ParserInv
<1> SUFFICES ASSUME TextTypes, stage = "combining", pos = 1, tree = Empty, cur = <<>>
             PROVE  ParserInv
  BY DEF Fresh
<1>1. tree = [p \in DOMAIN tree |-> tree[p]] /\ DOMAIN tree = {}
  BY DEF Empty
<1>2. PICK n \in Nat : n = Len(Combined)
  BY CombinedRows, LenProperties
<1>3. ParserTypes
  BY <1>1, <1>2 DEF ParserTypes, TextTypes
<1>4. \A i : i \notin 1..(pos - 1)
  OBVIOUS
<1>5. HeadersInv /\ SectionsInv /\ KeysInv
  BY <1>1, <1>4 DEF HeadersInv, SectionsInv, KeysInv, Exists
<1>6. ParentInv /\ ElementsInv
  BY <1>1 DEF ParentInv, ElementsInv, IsArray, Exists
<1>7. CurrentInv
  BY ScopeFirst DEF CurrentInv
<1>8. LastElementInv /\ ElementKeysInv
  BY <1>1, <1>4 DEF LastElementInv, ElementKeysInv, IsArray, Exists
<1> QED
  BY <1>3, <1>5, <1>6, <1>7, <1>8 DEF ParserInv

-----------------------------------------------------------------------------
(* The two texts as one: a line keeps its place, unless the last header of *)
(* the options governs keys of the file.                                   *)
LEMMA Upward ==
  ASSUME NEW S, NEW n \in Nat, 0 \in S, \A i \in 0..(n - 1) : i \in S => i + 1 \in S
  PROVE  \A i \in 0..n : i \in S
<1> DEFINE Less == {p \in Nat \X Nat : p[1] < p[2]}
           M == (0..n) \ S
<1>1. IsWellFoundedOn(Less, Nat)
  BY NatLessThanWellFounded DEF OpToRel
<1>2. SUFFICES ASSUME M # {} PROVE FALSE
  OBVIOUS
<1>3. M \subseteq Nat
  OBVIOUS
<1>4. \E x \in M : \A y \in M : ~ (<<y, x>> \in Less)
  <2> HIDE DEF Less, M
  <2> QED
    BY <1>1, <1>2, <1>3, WFMin
<1>5. PICK m \in M : \A k \in M : m <= k
  <2>1. ASSUME NEW x \in M, NEW y \in M, ~ (<<y, x>> \in Less) PROVE x <= y
    BY <2>1
  <2> HIDE DEF Less, M
  <2> QED
    BY <1>4, <2>1
<1>6. m - 1 \in 0..(n - 1) /\ m - 1 \in S
  BY <1>5
<1> QED
  BY <1>5, <1>6

LEMMA OptionScopes ==
  ASSUME TextTypes, NEW i \in 1..(Len(overrides) + 1)
  PROVE  Scope(Combined, i) = Scope(overrides, i)
<1>1. PICK n \in Nat, m \in Nat : n = Len(overrides) /\ m = Len(file)
  BY CombinedRows, LenProperties
<1>2. \A h \in 1..n : Combined[h] = overrides[h]
  <2> SUFFICES ASSUME NEW h \in 1..n PROVE Combined[h] = overrides[h]
    OBVIOUS
  <2>1. h \in 1..(n + m) /\ h <= n
    OBVIOUS
  <2>2. h \in 1..Len(Combined) /\ h <= Len(overrides)
    BY <1>1, <2>1, CombinedRows
  <2> QED
    BY <2>2, CombinedRows
<1> DEFINE S == {h \in Nat : Scope(Combined, h + 1) = Scope(overrides, h + 1)}
<1>3. 0 \in S
  BY ScopeFirst
<1>4. ASSUME NEW h \in 0..(n - 1), h \in S
      PROVE  h + 1 \in S
  <2>1. h + 1 \in Nat /\ h + 1 > 0 /\ h + 1 \in 1..n
    BY <1>1
  <2>2. Combined[h + 1] = overrides[h + 1]
    BY <1>2, <2>1
  <2>3. Scope(Combined, (h + 1) + 1) = Scope(overrides, (h + 1) + 1)
    BY <1>4, <2>1, <2>2, ScopeNext
  <2> QED
    BY <2>1, <2>3
<1>5. \A h \in 0..n : h \in S
  <2> HIDE DEF S
  <2> QED
    BY <1>3, <1>4, Upward
<1>6. i - 1 \in 0..n /\ (i - 1) + 1 = i
  BY <1>1
<1> QED
  BY <1>5, <1>6

LEMMA FileScopes ==
  ASSUME TextTypes, NEW j \in 1..(Len(file) + 1)
  PROVE  Scope(Combined, Len(overrides) + j) =
            IF Scope(file, j) # <<>> THEN Scope(file, j)
                                     ELSE Scope(overrides, Len(overrides) + 1)
<1>1. PICK n \in Nat, m \in Nat : n = Len(overrides) /\ m = Len(file)
  BY CombinedRows, LenProperties
<1>2. \A h \in 1..m : Combined[n + h] = file[h] /\ (IsHeader(file[h]) => file[h].at # <<>>)
  <2> SUFFICES ASSUME NEW h \in 1..m
               PROVE  Combined[n + h] = file[h] /\ (IsHeader(file[h]) => file[h].at # <<>>)
    OBVIOUS
  <2>1. n + h \in 1..Len(Combined) /\ ~(n + h <= n) /\ (n + h) - n = h
    BY <1>1, CombinedRows
  <2>2. Combined[n + h] = file[h]
    BY <1>1, <2>1, CombinedRows
  <2>3. IsHeader(Combined[n + h]) => \E s \in Names : Combined[n + h].at = <<s>>
    BY <2>1, CombinedKinds DEF IsHeader, IsKeyRow
  <2>4. IsHeader(file[h]) => \E s \in Names : file[h].at = <<s>>
    BY <2>2, <2>3, Zenon
  <2>5. \A s : <<s>> # <<>>
    OBVIOUS
  <2> QED
    BY <2>2, <2>4, <2>5, Zenon
<1>3. PICK top : top = Scope(overrides, n + 1)
  OBVIOUS
<1> DEFINE S == {h \in Nat : Scope(Combined, n + h + 1) =
                                IF Scope(file, h + 1) # <<>> THEN Scope(file, h + 1)
                                                             ELSE top}
<1>4. 0 \in S
  <2>1. Scope(file, 0 + 1) = <<>>
    BY ScopeFirst
  <2>2. n + 1 \in 1..(Len(overrides) + 1) /\ n + 0 + 1 = n + 1
    BY <1>1
  <2>3. Scope(Combined, n + 0 + 1) = top
    BY <1>3, <2>2, OptionScopes
  <2> QED
    BY <2>1, <2>3
<1>5. ASSUME NEW h \in 0..(m - 1), h \in S
      PROVE  h + 1 \in S
  <2>1. /\ h + 1 \in Nat /\ h + 1 > 0 /\ h + 1 \in 1..m
        /\ n + h + 1 \in Nat /\ n + h + 1 > 0 /\ n + h + 1 = n + (h + 1)
    BY <1>1
  <2>2. Combined[n + h + 1] = file[h + 1]
    BY <1>2, <2>1
  <2>3. Scope(file, (h + 1) + 1) =
          IF IsHeader(file[h + 1]) THEN file[h + 1].at ELSE Scope(file, h + 1)
    BY <2>1, ScopeNext
  <2>4. Scope(Combined, (n + h + 1) + 1) =
          IF IsHeader(file[h + 1]) THEN file[h + 1].at ELSE Scope(Combined, n + h + 1)
    BY <2>1, <2>2, ScopeNext
  <2>5. IsHeader(file[h + 1]) => file[h + 1].at # <<>>
    BY <1>2, <2>1
  <2>6. (n + h + 1) + 1 = n + (h + 1) + 1
    BY <2>1
  <2>7. Scope(Combined, n + h + 1) =
          IF Scope(file, h + 1) # <<>> THEN Scope(file, h + 1) ELSE top
    BY <1>5
  <2>8. Scope(Combined, n + (h + 1) + 1) =
          IF Scope(file, (h + 1) + 1) # <<>> THEN Scope(file, (h + 1) + 1) ELSE top
    BY <2>3, <2>4, <2>5, <2>6, <2>7
  <2> QED
    BY <2>1, <2>8
<1>6. \A h \in 0..m : h \in S
  <2> HIDE DEF S
  <2> QED
    BY <1>4, <1>5, Upward
<1>7. j - 1 \in 0..m /\ (j - 1) + 1 = j /\ n + (j - 1) + 1 = n + j
  BY <1>1
<1>8. Scope(Combined, n + j) = IF Scope(file, j) # <<>> THEN Scope(file, j) ELSE top
  BY <1>6, <1>7
<1> QED
  BY <1>1, <1>3, <1>8

(* A file that begins with a header has every key below one.               *)
LEMMA HeadedFile ==
  ASSUME TextTypes, file # <<>>, IsHeader(file[1]), NEW j \in 2..(Len(file) + 1)
  PROVE  Scope(file, j) # <<>>
<1>1. PICK m \in Nat : m = Len(file)
  BY CombinedRows, LenProperties
<1>2. \A h \in 1..m : IsHeader(file[h]) => file[h].at # <<>>
  <2> SUFFICES ASSUME NEW h \in 1..m, IsHeader(file[h]) PROVE file[h].at # <<>>
    OBVIOUS
  <2>1. file[h] \in Rows /\ Rowed(file[h])
    BY <1>1, CombinedRows, TextRows, ElementOfSeq DEF TextTypes
  <2>2. \E s \in Names : file[h].at = <<s>>
    BY <2>1, RowKinds DEF IsHeader, IsKeyRow
  <2> QED
    BY <2>2
<1> DEFINE S == {h \in Nat : h > 0 => Scope(file, h + 1) # <<>>}
<1>3. 0 \in S
  OBVIOUS
<1>4. ASSUME NEW h \in 0..(m - 1), h \in S
      PROVE  h + 1 \in S
  <2>1. h + 1 \in Nat /\ h + 1 > 0 /\ h + 1 \in 1..m
    BY <1>1
  <2>2. Scope(file, (h + 1) + 1) =
          IF IsHeader(file[h + 1]) THEN file[h + 1].at ELSE Scope(file, h + 1)
    BY <2>1, ScopeNext
  <2>3. CASE h = 0
    BY <1>2, <2>1, <2>2, <2>3
  <2>4. CASE h > 0
    BY <1>2, <1>4, <2>1, <2>2, <2>4
  <2> QED
    BY <2>3, <2>4
<1>5. \A h \in 0..m : h \in S
  <2> HIDE DEF S
  <2> QED
    BY <1>3, <1>4, Upward
<1>6. j - 1 \in 0..m /\ j - 1 > 0 /\ (j - 1) + 1 = j
  BY <1>1
<1> QED
  BY <1>5, <1>6

LEMMA OptionPlaces ==
  ASSUME TextTypes, NEW i \in 1..Len(overrides)
  PROVE  /\ i \in 1..Len(Combined) /\ Combined[i] = overrides[i]
         /\ Place(Combined, i) = Place(overrides, i)
<1>1. PICK n \in Nat, m \in Nat : n = Len(overrides) /\ m = Len(file)
  BY CombinedRows, LenProperties
<1>2. i \in 1..(n + m) /\ i <= n /\ i \in 1..(n + 1)
  BY <1>1
<1>3. i \in 1..Len(Combined) /\ Combined[i] = overrides[i]
  BY <1>1, <1>2, CombinedRows
<1>4. Scope(Combined, i) = Scope(overrides, i)
  BY <1>1, <1>2, OptionScopes
<1>5. Place(Combined, i) = Place(overrides, i)
  BY <1>3, <1>4, Zenon DEF Place
<1> QED
  BY <1>3, <1>5

LEMMA FilePlaces ==
  ASSUME TextTypes, Separate, NEW j \in 1..Len(file)
  PROVE  /\ Len(overrides) + j \in 1..Len(Combined)
         /\ Combined[Len(overrides) + j] = file[j]
         /\ Place(Combined, Len(overrides) + j) = Place(file, j)
<1>1. PICK n \in Nat, m \in Nat : n = Len(overrides) /\ m = Len(file)
  BY CombinedRows, LenProperties
<1>2. n + j \in 1..(n + m) /\ ~(n + j <= n) /\ (n + j) - n = j /\ j \in 1..(m + 1)
  BY <1>1
<1>3. n + j \in 1..Len(Combined) /\ Combined[n + j] = file[j]
  BY <1>1, <1>2, CombinedRows
<1>4. Scope(Combined, n + j) =
         IF Scope(file, j) # <<>> THEN Scope(file, j) ELSE Scope(overrides, n + 1)
  BY <1>1, <1>2, FileScopes
<1>5. file # <<>>
  <2>1. Len(file) # 0
    BY <1>1
  <2> QED
    BY <2>1, EmptySeq
<1>6. ASSUME IsHeader(file[j])
      PROVE  Place(Combined, n + j) = Place(file, j)
  <2>1. Place(file, j) = file[j].at
    BY <1>6, PlaceOf
  <2>2. Place(Combined, n + j) = Combined[n + j].at
    BY <1>3, <1>6, PlaceOf
  <2> QED
    BY <1>3, <2>1, <2>2
<1>7. ASSUME ~IsHeader(file[j])
      PROVE  Place(Combined, n + j) = Place(file, j)
  <2>1. Scope(Combined, n + j) = Scope(file, j)
    <3>1. CASE \A i \in 1..Len(overrides) : ~IsHeader(overrides[i])
      <4>1. \A h \in 1..((n + 1) - 1) : ~IsHeader(overrides[h])
        BY <1>1, <3>1
      <4>2. {h \in 1..((n + 1) - 1) : IsHeader(overrides[h])} = {}
        BY <4>1
      <4>3. Scope(overrides, n + 1) = <<>>
        BY <4>2 DEF Scope
      <4> QED
        BY <1>4, <4>3
    <3>2. CASE IsHeader(file[1])
      <4>1. j # 1
        BY <1>7, <3>2
      <4>2. j \in 2..(Len(file) + 1)
        BY <1>1, <4>1
      <4>3. Scope(file, j) # <<>>
        BY <1>5, <3>2, <4>2, HeadedFile
      <4> QED
        BY <1>4, <4>3
    <3> QED
      BY <1>5, <3>1, <3>2 DEF Separate
  <2> QED
    BY <1>3, <2>1, Zenon DEF Place
<1>8. Place(Combined, n + j) = Place(file, j)
  BY <1>6, <1>7
<1> QED
  BY <1>1, <1>3, <1>8

(* What a text says is what its first line about the key says.             *)
LEMMA SaysFirst ==
  ASSUME NEW lines, NEW s, NEW k, NEW i \in Mentions(lines, s, k),
         \A j \in Mentions(lines, s, k) : i <= j
  PROVE  Says(lines, s, k) = Said(lines, i)
<1>1. PICK M : M = Mentions(lines, s, k)
  OBVIOUS
<1>2. \A j \in M : j \in Int
  BY <1>1 DEF Mentions
<1>3. \A h \in M : (\A j \in M : h <= j) => h = i
  BY <1>1, <1>2
<1>4. (CHOOSE h \in M : \A j \in M : h <= j) = i
  <2>1. \E h \in M : \A j \in M : h <= j
    BY <1>1
  <2> QED
    BY <1>3, <2>1
<1>5. M # {}
  BY <1>1
<1> QED
  BY <1>1, <1>4, <1>5, Zenon DEF Says

LEMMA SaysNone ==
  ASSUME NEW lines, NEW s, NEW k, Mentions(lines, s, k) = {}
  PROVE  Says(lines, s, k) = None
  BY DEF Says

LEMMA SaidIsMore ==
  ASSUME NEW lines, NEW i, lines[i] \in Rows
  PROVE  Said(lines, i) # None
<1>1. lines[i].val # None
  BY DEF Rows, None, Literals, Flags, Texts, Addresses, Numbers, Accepts
<1>2. "table" # None
  BY DEF None
<1> QED
  BY <1>1, <1>2 DEF Said

(* The options come first, and then the file.                              *)
LEMMA MeantIsFirst ==
  ASSUME TextTypes, Separate, NEW s, NEW k
  PROVE  /\ \A i : FirstMention(i, s, k) => Meant(s, k) = Said(Combined, i)
         /\ (\A i \in 1..Len(Combined) : i \notin Mentions(Combined, s, k))
               => Meant(s, k) = None
<1>1. PICK n \in Nat, m \in Nat :
         n = Len(overrides) /\ m = Len(file) /\ Len(Combined) = n + m
  BY CombinedRows, LenProperties
<1>2. ASSUME NEW i \in 1..n
      PROVE  /\ i \in Mentions(overrides, s, k) <=> i \in Mentions(Combined, s, k)
             /\ Said(overrides, i) = Said(Combined, i)
  <2>1. /\ i \in 1..Len(Combined) /\ Combined[i] = overrides[i]
        /\ Place(Combined, i) = Place(overrides, i)
    BY <1>1, OptionPlaces
  <2>2. i \in Mentions(overrides, s, k) <=> i \in Mentions(Combined, s, k)
    BY <1>1, <2>1 DEF Mentions
  <2>3. Said(overrides, i) = Said(Combined, i)
    BY <2>1, Zenon DEF Said
  <2> QED
    BY <2>2, <2>3
<1>3. ASSUME NEW j \in 1..m
      PROVE  /\ j \in Mentions(file, s, k) <=> n + j \in Mentions(Combined, s, k)
             /\ Said(file, j) = Said(Combined, n + j)
  <2>1. /\ n + j \in 1..Len(Combined) /\ Combined[n + j] = file[j]
        /\ Place(Combined, n + j) = Place(file, j)
    BY <1>1, FilePlaces
  <2>2. j \in Mentions(file, s, k) <=> n + j \in Mentions(Combined, s, k)
    BY <1>1, <2>1 DEF Mentions
  <2>3. Said(file, j) = Said(Combined, n + j)
    BY <2>1, Zenon DEF Said
  <2> QED
    BY <2>2, <2>3
<1>4. /\ \A i \in Mentions(overrides, s, k) : i \in 1..n
      /\ \A j \in Mentions(file, s, k) : j \in 1..m
      /\ \A i \in Mentions(Combined, s, k) : i \in 1..(n + m)
  BY <1>1 DEF Mentions
<1>5. ASSUME NEW i, FirstMention(i, s, k)
      PROVE  Meant(s, k) = Said(Combined, i)
  <2>1. i \in Mentions(Combined, s, k) /\ \A j \in Mentions(Combined, s, k) : i <= j
    BY <1>5 DEF FirstMention
  <2>2. i \in 1..(n + m)
    BY <1>4, <2>1
  <2>3. CASE i <= n
    <3>1. i \in 1..n
      BY <2>2, <2>3
    <3>2. i \in Mentions(overrides, s, k)
      BY <1>2, <2>1, <3>1
    <3>3. \A j \in Mentions(overrides, s, k) : i <= j
      BY <1>2, <1>4, <2>1
    <3>4. Says(overrides, s, k) = Said(Combined, i)
      BY <1>2, <3>1, <3>2, <3>3, SaysFirst
    <3>5. Combined[i] \in Rows
      BY <1>1, <2>2, CombinedKinds
    <3>6. Said(Combined, i) # None
      BY <3>5, SaidIsMore
    <3> QED
      BY <3>4, <3>6 DEF Meant
  <2>4. CASE ~(i <= n)
    <3>1. Mentions(overrides, s, k) = {}
      <4>1. ASSUME NEW h \in Mentions(overrides, s, k) PROVE FALSE
        <5>1. h \in 1..n /\ h \in Mentions(Combined, s, k)
          BY <1>2, <1>4
        <5>2. i <= h
          BY <2>1, <5>1
        <5> QED
          BY <2>2, <2>4, <5>1, <5>2
      <4> QED
        BY <4>1
    <3>2. PICK j \in 1..m : n + j = i
      <4>1. i - n \in 1..m /\ n + (i - n) = i
        BY <2>2, <2>4
      <4> QED
        BY <4>1
    <3>3. j \in Mentions(file, s, k)
      BY <1>3, <2>1, <3>2
    <3>4. \A h \in Mentions(file, s, k) : j <= h
      <4>1. ASSUME NEW h \in Mentions(file, s, k) PROVE j <= h
        <5>1. h \in 1..m /\ n + h \in Mentions(Combined, s, k)
          BY <1>3, <1>4
        <5>2. i <= n + h
          BY <2>1, <5>1
        <5> QED
          BY <3>2, <5>1, <5>2
      <4> QED
        BY <4>1
    <3>5. Says(file, s, k) = Said(Combined, i)
      BY <1>3, <3>2, <3>3, <3>4, SaysFirst
    <3>6. Says(overrides, s, k) = None
      BY <3>1, SaysNone
    <3> QED
      BY <3>5, <3>6 DEF Meant
  <2> QED
    BY <2>3, <2>4
<1>6. ASSUME \A i \in 1..Len(Combined) : i \notin Mentions(Combined, s, k)
      PROVE  Meant(s, k) = None
  <2>1. \A i : i \notin Mentions(Combined, s, k)
    BY <1>1, <1>4, <1>6
  <2>2. Mentions(overrides, s, k) = {}
    BY <1>2, <1>4, <2>1
  <2>3. Mentions(file, s, k) = {}
    BY <1>3, <1>4, <2>1
  <2> QED
    BY <2>2, <2>3, SaysNone DEF Meant
<1> QED
  BY <1>5, <1>6

-----------------------------------------------------------------------------
(* What the constructor reads in the tree of a text that is parsed.        *)
Parsed == TextTypes /\ ParserInv /\ stage # "combining"

LEMMA ParsedAll ==
  ASSUME Parsed
  PROVE  Len(Combined) \in Nat /\ pos - 1 = Len(Combined)
<1>1. Len(Combined) \in Nat
  BY CombinedRows, LenProperties DEF Parsed
<1>2. pos = Len(Combined) + 1
  BY DEF Parsed, ParserInv, ParserTypes
<1> QED
  BY <1>1, <1>2

LEMMA KeyNames ==
  ASSUME NEW s \in Sections, NEW k \in DOMAIN Keys[s]
  PROVE  s \in Names /\ k \in Names
  BY DEF Names

LEMMA KeyTypes ==
  ASSUME NEW s \in Sections, NEW k \in DOMAIN Keys[s]
  PROVE  Keys[s][k] \in {"bool", "string", "u16", "u32", "u64"}
<1>1. s = "server" \/ s = "work" \/ s = "admin" \/ s = "device"
  BY DEF Sections
<1>2. \A j \in DOMAIN Keys["server"] : Keys["server"][j] \in {"bool", "string", "u16", "u32"}
  BY DEF Keys
<1>3. \A j \in DOMAIN Keys["work"] : Keys["work"][j] \in {"string", "u16"}
  BY DEF Keys
<1>4. \A j \in DOMAIN Keys["admin"] : Keys["admin"][j] \in {"bool", "string"}
  BY DEF Keys
<1>5. \A j \in DOMAIN Keys["device"] : Keys["device"][j] \in {"string", "u64"}
  BY DEF Keys
<1>6. CASE s = "server"
  BY <1>2, <1>6
<1>7. CASE s = "work"
  BY <1>3, <1>7
<1>8. CASE s = "admin"
  BY <1>4, <1>8
<1>9. CASE s = "device"
  BY <1>5, <1>9
<1> QED
  BY <1>1, <1>6, <1>7, <1>8, <1>9

LEMMA NoneUnaccepted ==
  ASSUME NEW type \in {"bool", "string", "u16", "u32", "u64"}
  PROVE  None \notin Accepts[type]
<1>1. CASE type = "bool"
  BY <1>1 DEF Accepts, Flags, None
<1>2. CASE type = "string"
  BY <1>2 DEF Accepts, Texts, Addresses, None
<1>3. CASE type = "u16"
  BY <1>3 DEF Accepts, None
<1>4. CASE type = "u32"
  BY <1>4 DEF Accepts, None
<1>5. CASE type = "u64"
  BY <1>5 DEF Accepts, None
<1> QED
  BY <1>1, <1>2, <1>3, <1>4, <1>5

LEMMA ReadKey ==
  ASSUME NEW s \in Sections, NEW k \in DOMAIN Keys[s]
  PROVE  ReadTable(<<s>>, s)[k] =
            IF Exists(<<s, k>>) /\ tree[<<s, k>>] \in Accepts[Keys[s][k]]
              THEN tree[<<s, k>>] ELSE Defaults[s][k]
<1>1. Append(<<s>>, k) = <<s, k>>
  BY KeyNames, Appended
<1> QED
  BY <1>1, Zenon DEF ReadTable

LEMMA SettingRead ==
  ASSUME Parsed, Separate, NEW s \in Sections, ~IsArray(s), NEW k \in DOMAIN Keys[s]
  PROVE  ReadTable(<<s>>, s)[k] =
            IF Meant(s, k) \in Accepts[Keys[s][k]] THEN Meant(s, k)
                                                  ELSE Defaults[s][k]
<1>1. s \in Names /\ k \in Names
  BY KeyNames
<1>2. IF Exists(<<s, k>>)
        THEN \E i \in 1..(pos - 1) :
                FirstMention(i, s, k) /\ tree[<<s, k>>] = Said(Combined, i)
        ELSE \A i \in 1..(pos - 1) : i \notin Mentions(Combined, s, k)
  BY <1>1, Zenon DEF Parsed, ParserInv, KeysInv
<1>3. TextTypes
  BY DEF Parsed
<1>4. CASE Exists(<<s, k>>)
  <2>1. tree[<<s, k>>] = Meant(s, k)
    BY <1>2, <1>3, <1>4, MeantIsFirst
  <2> QED
    BY <1>4, <2>1, ReadKey
<1>5. CASE ~Exists(<<s, k>>)
  <2>1. \A i \in 1..Len(Combined) : i \notin Mentions(Combined, s, k)
    BY <1>2, <1>5, ParsedAll
  <2>2. Meant(s, k) = None
    BY <1>3, <2>1, MeantIsFirst
  <2>3. None \notin Accepts[Keys[s][k]]
    BY KeyTypes, NoneUnaccepted
  <2> QED
    BY <1>5, <2>2, <2>3, ReadKey
<1> QED
  BY <1>4, <1>5

LEMMA FunctionLength ==
  ASSUME NEW n \in Nat, NEW f, DOMAIN f = 1..n, f = [i \in 1..n |-> f[i]]
  PROVE  Len(f) = n
<1> DEFINE S == {f[i] : i \in 1..n}
<1>1. f \in [1..n -> S]
  OBVIOUS
<1>2. f \in Seq(S)
  BY <1>1, SeqDef
<1>3. DOMAIN f = 1..Len(f) /\ Len(f) \in Nat
  BY <1>2, LenProperties
<1> QED
  BY <1>3

(* The devices are one for each [[device]], or the only one.               *)
LEMMA DeviceTables ==
  ASSUME Parsed
  PROVE  /\ IsArray("device") =>
               /\ Listed("device", Len(Combined)) # {}
               /\ Len(Tables("device")) = Cardinality(Listed("device", Len(Combined)))
         /\ ~IsArray("device") =>
               /\ Listed("device", Len(Combined)) = {}
               /\ Tables("device") = << <<"device">> >> /\ Len(Tables("device")) = 1
         /\ Len(Tables("device")) \in Nat
         /\ Exists(<<"device">>) <=> NamesDevice(Combined)
<1>1. PICK s \in Names : s = "device"
  BY DEF Names, Sections
<1>2. TextTypes /\ ParserInv /\ pos - 1 = Len(Combined) /\ Len(Combined) \in Nat
  BY ParsedAll DEF Parsed
<1>3. PICK t : t = Tables(s)
  OBVIOUS
<1>4. ASSUME IsArray(s)
      PROVE  /\ Listed(s, Len(Combined)) # {}
             /\ Len(t) = Cardinality(Listed(s, Len(Combined))) /\ Len(t) \in Nat
  <2>1. PICK c : c = Cardinality(Children(<<s>>))
    OBVIOUS
  <2>2. /\ c = Cardinality(Listed(s, Len(Combined))) /\ c \in Nat
        /\ Listed(s, Len(Combined)) # {}
    <3>1. c = Cardinality(Listed(s, pos - 1)) /\ c \in 1..Len(Combined)
      BY <1>2, <1>4, <2>1, ArrayOf
    <3>2. Listed(s, pos - 1) # {}
      BY <1>2, <1>4 DEF ParserInv, ElementsInv
    <3> QED
      BY <1>2, <3>1, <3>2
  <2>3. t = [i \in 1..c |-> <<s, ToString(i)>>]
    BY <1>3, <1>4, <2>1, Zenon DEF Tables, IsArray
  <2>4. DOMAIN t = 1..c /\ t = [i \in 1..c |-> t[i]]
    BY <2>3
  <2>5. Len(t) = c
    BY <2>2, <2>4, FunctionLength
  <2> QED
    BY <2>2, <2>5
<1>5. ASSUME ~IsArray(s)
      PROVE  Listed(s, Len(Combined)) = {} /\ t = << <<s>> >> /\ Len(t) = 1
  <2>1. Listed(s, Len(Combined)) = {}
    BY <1>2, <1>5 DEF ParserInv, HeadersInv, Listed, IsHeader, IsArray, Exists
  <2>2. t = << <<s>> >>
    BY <1>3, <1>5, Zenon DEF Tables, IsArray
  <2>3. Len(t) = 1
    BY <2>2
  <2> QED
    BY <2>1, <2>2, <2>3
<1>6. Exists(<<s>>) <=> \E i \in 1..Len(Combined) :
                           Place(Combined, i) # <<>> /\ Head(Place(Combined, i)) = s
  BY <1>2 DEF ParserInv, SectionsInv
<1> QED
  BY <1>1, <1>3, <1>4, <1>5, <1>6 DEF NamesDevice

LEMMA DevicesRead ==
  ASSUME Parsed
  PROVE  /\ Exists(<<"device">>) =>
               /\ Len(Devices) = Len(Tables("device"))
               /\ \A i \in 1..Len(Devices) :
                     Devices[i] = ReadTable(Tables("device")[i], "device")
         /\ ~Exists(<<"device">>) => Devices = <<>> /\ Len(Devices) = 0
<1>1. PICK n \in Nat : n = Len(Tables("device"))
  BY DeviceTables
<1>2. CASE Exists(<<"device">>)
  <2>1. PICK d : d = Devices
    OBVIOUS
  <2>2. d = [i \in 1..n |-> ReadTable(Tables("device")[i], "device")]
    BY <1>1, <1>2, <2>1, Zenon DEF Devices
  <2>3. /\ DOMAIN d = 1..n /\ d = [i \in 1..n |-> d[i]]
        /\ \A i \in 1..n : d[i] = ReadTable(Tables("device")[i], "device")
    BY <2>2
  <2>4. Len(d) = n
    BY <2>3, FunctionLength
  <2> QED
    BY <1>1, <1>2, <2>1, <2>3, <2>4
<1>3. CASE ~Exists(<<"device">>)
  <2>1. Devices = <<>>
    BY <1>3 DEF Devices
  <2> QED
    BY <1>3, <2>1, EmptySeq
<1> QED
  BY <1>2, <1>3

-----------------------------------------------------------------------------
(* The properties follow from the invariant.                               *)
LEMMA ConstructedParsed ==
  ASSUME ServerInv, Constructed
  PROVE  /\ stage \in {"constructed", "serving"} /\ Parsed
         /\ settings = [s \in Singles |-> settings[s]]
         /\ \A s \in Singles : settings[s] = ReadTable(<<s>>, s) /\ ~IsArray(s)
         /\ Accepted("device") /\ devices = Devices
<1>1. stage \in {"constructed", "serving"}
  BY DEF ServerInv, Constructed, Past, After
<1>2. Parsed
  BY <1>1 DEF ServerInv, Past, Parsed
<1>3. \A s \in Singles : stage \in AfterRead[s]
  BY <1>1 DEF Singles, AfterRead
<1>4. \A s \in Singles : ~Dangling(s) => ~IsArray(s)
  BY DEF Dangling, IsArray
<1> QED
  BY <1>1, <1>2, <1>3, <1>4 DEF ServerInv, SettingsInv, DevicesInv

LEMMA SettingsFollow ==
  ServerInv => SettingsAsWritten
<1>1. SUFFICES ASSUME ServerInv, Constructed, Separate, NEW s \in Singles,
                      NEW k \in DOMAIN Keys[s]
               PROVE  settings[s][k] =
                         IF Meant(s, k) \in Accepts[Keys[s][k]]
                           THEN Meant(s, k) ELSE Defaults[s][k]
  BY DEF SettingsAsWritten
<1>2. s \in Sections
  BY DEF Singles, Sections
<1>3. Parsed /\ ~IsArray(s) /\ settings[s] = ReadTable(<<s>>, s)
  BY <1>1, ConstructedParsed
<1> QED
  BY <1>1, <1>2, <1>3, SettingRead

(* What a text wrote of a device is what its first line about it says.     *)
LEMMA WroteFirst ==
  ASSUME NEW k \in Names, NEW n, "device" \in Names
  PROVE  /\ \A i : FirstAbout(i, "device", k, n) => Wrote(Combined, n, k) = Said(Combined, i)
         /\ (\A i \in 1..Len(Combined) : ~AboutElement(i, "device", k, n))
               => Wrote(Combined, n, k) = None
<1> DEFINE M == {i \in Mentions(Combined, "device", k) : DeviceEntry(Combined, i) = n}
<1>2. \A i : DeviceEntry(Combined, i) = Cardinality(Listed("device", i))
  BY DEF DeviceEntry, Listed
<1>3. \A i : i \in M <=> i \in 1..Len(Combined) /\ AboutElement(i, "device", k, n)
  BY <1>2 DEF AboutElement, Mentions
<1>4. Wrote(Combined, n, k) =
        IF M = {} THEN None
        ELSE Said(Combined, CHOOSE i \in M : \A j \in M : i <= j)
  BY Zenon DEF Wrote
<1> HIDE DEF M
<1>5. ASSUME NEW i, FirstAbout(i, "device", k, n)
      PROVE  Wrote(Combined, n, k) = Said(Combined, i)
  <2>1. i \in M /\ \A j \in M : i <= j /\ j \in Int
    BY <1>3, <1>5 DEF FirstAbout, AboutElement, Mentions
  <2>2. \A h \in M : (\A j \in M : h <= j) => h = i
    BY <2>1
  <2>3. (CHOOSE h \in M : \A j \in M : h <= j) = i
    BY <2>1, <2>2
  <2>4. M # {}
    BY <2>1
  <2> QED
    BY <1>4, <2>3, <2>4, Zenon
<1>6. ASSUME \A i \in 1..Len(Combined) : ~AboutElement(i, "device", k, n)
      PROVE  Wrote(Combined, n, k) = None
  <2>1. M = {}
    BY <1>3, <1>6
  <2> QED
    BY <1>4, <2>1, Zenon
<1> QED
  BY <1>5, <1>6

(* What the constructor reads at path p has what is at p, or the default.  *)
DeviceKey(p, k) ==
    IF Exists(p) /\ tree[p] \in Accepts[Keys["device"][k]]
      THEN tree[p] ELSE Defaults["device"][k]

WroteKey(n, k) ==
    IF Wrote(Combined, n, k) \in Accepts[Keys["device"][k]]
      THEN Wrote(Combined, n, k) ELSE Defaults["device"][k]

LEMMA DeviceKeyWrote ==
  ASSUME Parsed, NEW k \in DOMAIN Keys["device"], NEW n, NEW p,
         IF Exists(p)
           THEN \E i \in 1..(pos - 1) :
                   FirstAbout(i, "device", k, n) /\ tree[p] = Said(Combined, i)
           ELSE \A i \in 1..(pos - 1) : ~AboutElement(i, "device", k, n)
  PROVE  DeviceKey(p, k) = WroteKey(n, k)
<1>1. "device" \in Sections
  BY DEF Sections
<1>2. "device" \in Names /\ k \in Names
  BY <1>1, KeyNames
<1>3. CASE Exists(p)
  <2>1. tree[p] = Wrote(Combined, n, k)
    BY <1>2, <1>3, WroteFirst
  <2> QED
    BY <1>3, <2>1, Zenon DEF DeviceKey, WroteKey
<1>4. CASE ~Exists(p)
  <2>1. \A i \in 1..Len(Combined) : ~AboutElement(i, "device", k, n)
    BY <1>4, ParsedAll
  <2>2. Wrote(Combined, n, k) = None
    BY <1>2, <2>1, WroteFirst
  <2>3. None \notin Accepts[Keys["device"][k]]
    BY <1>1, KeyTypes, NoneUnaccepted
  <2> QED
    BY <1>4, <2>2, <2>3, Zenon DEF DeviceKey, WroteKey
<1> QED
  BY <1>3, <1>4

(* An element of [[device]] ...                                            *)
LEMMA ElementRead ==
  ASSUME Parsed, IsArray("device"), NEW m \in 1..Len(Combined),
         NEW k \in DOMAIN Keys["device"]
  PROVE  ReadTable(<<"device", ToString(m)>>, "device")[k] = WroteKey(m, k)
<1>1. "device" \in Sections
  BY DEF Sections
<1>2. PICK s \in Names : s = "device" /\ k \in Names
  BY <1>1, KeyNames
<1>3. PICK x \in Names : x = ToString(m)
  BY NamesOfElements DEF Parsed
<1>4. IF Exists(<<s, x, k>>)
        THEN \E i \in 1..(pos - 1) :
                FirstAbout(i, s, k, m) /\ tree[<<s, x, k>>] = Said(Combined, i)
        ELSE \A i \in 1..(pos - 1) : ~AboutElement(i, s, k, m)
  <2>1. ElementKeysInv
    BY DEF Parsed, ParserInv
  <2>2. Exists(<<s>>) => tree[<<s>>] # "table"
    BY <1>2 DEF IsArray
  <2> QED
    BY <1>2, <1>3, <2>1, <2>2, Zenon DEF ElementKeysInv
<1>5. PICK p : p = <<s, x, k>>
  OBVIOUS
<1>6. Append(<<s, x>>, k) = p
  BY <1>2, <1>5, AppendedTwice
<1>7. DeviceKey(p, k) = WroteKey(m, k)
  BY <1>2, <1>4, <1>5, DeviceKeyWrote
<1>8. ReadTable(<<s, x>>, "device")[k] = DeviceKey(p, k)
  BY <1>6, Zenon DEF ReadTable, DeviceKey
<1> QED
  BY <1>2, <1>3, <1>7, <1>8, Zenon

(* ... and the [device] of a text without [[device]].                      *)
LEMMA SingleRead ==
  ASSUME Parsed, ~IsArray("device"), NEW k \in DOMAIN Keys["device"]
  PROVE  ReadTable(<<"device">>, "device")[k] = WroteKey(0, k)
<1>1. "device" \in Sections
  BY DEF Sections
<1>2. PICK s \in Names : s = "device" /\ k \in Names
  BY <1>1, KeyNames
<1>3. \A i \in 1..Len(Combined) : Cardinality(Listed(s, i)) = 0
  <2>1. Listed(s, Len(Combined)) = {}
    BY <1>2, DeviceTables
  <2>2. \A i \in 1..Len(Combined) : Listed(s, i) = {}
    BY <2>1, ParsedAll DEF Listed
  <2> QED
    BY <2>2, FS_EmptySet
<1>4. \A i : i \in Mentions(Combined, s, k) <=> AboutElement(i, s, k, 0)
  <2>1. \A i \in Mentions(Combined, s, k) : i \in 1..Len(Combined)
    BY DEF Mentions
  <2> QED
    BY <1>3, <2>1 DEF AboutElement
<1>5. \A i : FirstMention(i, s, k) => FirstAbout(i, s, k, 0)
  BY <1>4 DEF FirstMention, FirstAbout
<1>6. PICK p : p = <<s, k>>
  OBVIOUS
<1>7. IF Exists(p)
        THEN \E i \in 1..(pos - 1) : FirstMention(i, s, k) /\ tree[p] = Said(Combined, i)
        ELSE \A i \in 1..(pos - 1) : i \notin Mentions(Combined, s, k)
  BY <1>2, <1>6, Zenon DEF Parsed, ParserInv, KeysInv
<1>8. IF Exists(p)
        THEN \E i \in 1..(pos - 1) : FirstAbout(i, s, k, 0) /\ tree[p] = Said(Combined, i)
        ELSE \A i \in 1..(pos - 1) : ~AboutElement(i, s, k, 0)
  BY <1>4, <1>5, <1>7
<1>9. DeviceKey(p, k) = WroteKey(0, k)
  BY <1>2, <1>8, DeviceKeyWrote
<1>10. Append(<<s>>, k) = p
  BY <1>2, <1>6, Appended
<1>11. ReadTable(<<s>>, "device")[k] = DeviceKey(p, k)
  BY <1>10, Zenon DEF ReadTable, DeviceKey
<1> QED
  BY <1>2, <1>9, <1>11, Zenon

LEMMA DevicesFollow ==
  ServerInv => DevicesAsListed
<1>1. SUFFICES ASSUME ServerInv, Constructed PROVE DevicesAsListed
  BY DEF DevicesAsListed
<1>2. Parsed /\ Accepted("device") /\ devices = Devices
  BY <1>1, ConstructedParsed
<1>3. PICK n : n = DeviceEntry(Combined, Len(Combined))
  OBVIOUS
<1>4. PICK L : L = Listed("device", Len(Combined)) /\ n = Cardinality(L)
  BY <1>3 DEF DeviceEntry, Listed
<1>5. Len(Combined) \in Nat
  BY <1>2, ParsedAll
<1>6. n \in Nat /\ n <= Len(Combined) /\ (n > 0 <=> L # {})
  <2>1. n \in Nat /\ n <= Len(Combined) /\ (L # {} => n > 0)
    BY <1>4, <1>5, ListedFinite
  <2>2. L = {} => n = 0
    BY <1>4, FS_EmptySet
  <2> QED
    BY <2>1, <2>2
<1>7. IsArray("device") <=> n > 0
  BY <1>2, <1>4, <1>6, DeviceTables
<1>8. Len(devices) = IF n > 0 THEN n ELSE IF NamesDevice(Combined) THEN 1 ELSE 0
  <2>1. CASE IsArray("device")
    BY <1>2, <1>4, <1>7, <2>1, DeviceTables, DevicesRead DEF IsArray
  <2>2. CASE ~IsArray("device")
    BY <1>2, <1>7, <2>2, DeviceTables, DevicesRead
  <2> QED
    BY <2>1, <2>2
<1>9. ASSUME NEW d \in 1..Len(devices)
      PROVE  /\ devices[d].type \in {"cpu", "gpu"}
             /\ \A k \in DOMAIN Keys["device"] :
                   devices[d][k] = WroteKey(IF n > 0 THEN d ELSE 0, k)
  <2>1. Exists(<<"device">>)
    <3>1. ~Exists(<<"device">>) => Len(devices) = 0
      BY <1>2, DevicesRead
    <3> QED
      BY <3>1
  <2>2. d \in 1..Len(Tables("device"))
    BY <1>2, <2>1, DevicesRead
  <2>3. devices[d] = ReadTable(Tables("device")[d], "device")
    BY <1>2, <2>1, DevicesRead
  <2>4. Valid("device", devices[d])
    BY <1>2, <2>2, <2>3 DEF Accepted, Readable
  <2>5. ASSUME NEW k \in DOMAIN Keys["device"]
        PROVE  devices[d][k] = WroteKey(IF n > 0 THEN d ELSE 0, k)
    <3>1. CASE n > 0
      <4>1. IsArray("device") /\ d \in 1..n
        BY <1>7, <1>8, <3>1
      <4>2. d \in 1..Len(Combined)
        BY <1>5, <1>6, <4>1
      <4>3. Tables("device")[d] = <<"device", ToString(d)>>
        <5>1. PICK t, c : /\ t = Tables("device") /\ c = Cardinality(Children(<<"device">>))
          OBVIOUS
        <5>2. t = [i \in 1..c |-> <<"device", ToString(i)>>]
          BY <4>1, <5>1, Zenon DEF Tables, IsArray
        <5>3. c = n
          <6>1. PICK s \in Names : s = "device"
            BY DEF Names, Sections
          <6>2. TextTypes /\ ParserInv /\ pos - 1 = Len(Combined)
            BY <1>2, ParsedAll DEF Parsed
          <6>3. c = Cardinality(Listed(s, pos - 1))
            BY <4>1, <5>1, <6>1, <6>2, ArrayOf
          <6> QED
            BY <1>4, <6>1, <6>2, <6>3
        <5> QED
          BY <4>1, <5>1, <5>2, <5>3
      <4>4. ReadTable(<<"device", ToString(d)>>, "device")[k] = WroteKey(d, k)
        BY <1>2, <4>1, <4>2, ElementRead
      <4> QED
        BY <2>3, <3>1, <4>3, <4>4, Zenon
    <3>2. CASE ~(n > 0)
      <4>1. ~IsArray("device") /\ d = 1
        BY <1>7, <1>8, <3>2
      <4>2. Tables("device") = << <<"device">> >>
        BY <1>2, <4>1, DeviceTables
      <4>3. Tables("device")[1] = <<"device">>
        BY <4>2
      <4>4. ReadTable(<<"device">>, "device")[k] = WroteKey(0, k)
        BY <1>2, <4>1, SingleRead
      <4> QED
        BY <2>3, <3>2, <4>1, <4>3, <4>4, Zenon
    <3> QED
      BY <3>1, <3>2
  <2> QED
    BY <2>4, <2>5 DEF Valid
<1>10. ASSUME NEW lines, lines = overrides \o file
       PROVE  /\ Len(devices) = IF DeviceEntry(lines, Len(lines)) > 0
                                 THEN DeviceEntry(lines, Len(lines))
                                 ELSE IF NamesDevice(lines) THEN 1 ELSE 0
              /\ \A d \in 1..Len(devices) :
                    /\ devices[d].type \in {"cpu", "gpu"}
                    /\ \A k \in DOMAIN Keys.device :
                          LET wrote == Wrote(lines, IF DeviceEntry(lines, Len(lines)) > 0
                                                      THEN d ELSE 0, k)
                          IN devices[d][k] =
                                IF wrote \in Accepts[Keys.device[k]]
                                  THEN wrote ELSE Defaults.device[k]
  <2>1. lines = Combined
    BY <1>10 DEF Combined
  <2> QED
    BY <1>3, <1>8, <1>9, <2>1, Zenon DEF WroteKey
<1> QED
  BY <1>10, Zenon DEF DevicesAsListed

LEMMA DefaultsOfKeys ==
  ASSUME NEW s \in Sections
  PROVE  Defaults[s] = [k \in DOMAIN Keys[s] |-> Defaults[s][k]]
<1>1. s = "server" \/ s = "work" \/ s = "admin" \/ s = "device"
  BY DEF Sections
<1>2. Defaults["server"] = [k \in DOMAIN Keys["server"] |-> Defaults["server"][k]]
  BY DEF Defaults, Keys
<1>3. Defaults["work"] = [k \in DOMAIN Keys["work"] |-> Defaults["work"][k]]
  BY DEF Defaults, Keys
<1>4. Defaults["admin"] = [k \in DOMAIN Keys["admin"] |-> Defaults["admin"][k]]
  BY DEF Defaults, Keys
<1>5. Defaults["device"] = [k \in DOMAIN Keys["device"] |-> Defaults["device"][k]]
  BY DEF Defaults, Keys
<1> QED
  BY <1>1, <1>2, <1>3, <1>4, <1>5, Zenon

LEMMA GeneratedFollows ==
  ServerInv => GeneratedFileIsDefault
<1>1. SUFFICES ASSUME ServerInv, Constructed, file = ExportDocumented, overrides = <<>>
               PROVE  /\ settings = [s \in Singles |-> Defaults[s]]
                      /\ devices = <<Defaults["device"]>>
  BY DEF GeneratedFileIsDefault
<1>2. Parsed /\ TextTypes /\ ParserInv /\ pos - 1 = Len(Combined) /\ Len(Combined) \in Nat
  BY <1>1, ConstructedParsed, ParsedAll DEF Parsed
<1>3. Combined = ExportDocumented
  BY <1>1, ExportShape, ConcatEmptySeq DEF Combined
<1>4. \A i \in 1..Len(Combined) :
         Rowed(Combined[i]) /\ Combined[i].form \in {"table", "comment"}
  BY <1>3, ExportShape
<1>5. ASSUME NEW s, NEW k, NEW i \in 1..Len(Combined)
      PROVE  i \notin Mentions(Combined, s, k)
  <2>1. CASE Combined[i].form = "table"
    <3>1. Place(Combined, i) = Combined[i].at
      BY <2>1, PlaceOf DEF IsHeader
    <3>2. Len(Combined[i].at) = 1
      BY <1>4, <2>1 DEF Rowed, IsHeader
    <3>3. ~(Len(Place(Combined, i)) >= 2)
      BY <3>1, <3>2
    <3> QED
      BY <3>3 DEF Mentions
  <2>2. CASE Combined[i].form = "comment"
    <3>1. Place(Combined, i) = <<>>
      BY <2>2, PlaceOf
    <3>2. ~(Len(Place(Combined, i)) >= 2)
      BY <3>1, EmptySeq
    <3> QED
      BY <3>2 DEF Mentions
  <2> QED
    BY <1>4, <2>1, <2>2
<1>6. ASSUME NEW s \in Names
      PROVE  ~IsArray(s)
  <2>1. Listed(s, pos - 1) = {}
    BY <1>2, <1>4 DEF Listed
  <2> QED
    BY <1>2, <2>1 DEF ParserInv, ElementsInv
<1>7. ASSUME NEW s \in Sections
      PROVE  ReadTable(<<s>>, s) = Defaults[s]
  <2>1. ASSUME NEW k \in DOMAIN Keys[s]
        PROVE  ReadTable(<<s>>, s)[k] = Defaults[s][k]
    <3>1. s \in Names /\ k \in Names /\ ~IsArray(s)
      BY <1>6, KeyNames
    <3>2. Exists(<<s, k>>) => \E i \in 1..(pos - 1) : FirstMention(i, s, k)
      BY <1>2, <3>1, Zenon DEF ParserInv, KeysInv
    <3>3. ~Exists(<<s, k>>)
      BY <1>2, <1>5, <3>2 DEF FirstMention
    <3> QED
      BY <3>3, ReadKey
  <2>2. ReadTable(<<s>>, s) = [k \in DOMAIN Keys[s] |-> ReadTable(<<s>>, s)[k]]
    BY DEF ReadTable
  <2>3. [k \in DOMAIN Keys[s] |-> ReadTable(<<s>>, s)[k]]
          = [k \in DOMAIN Keys[s] |-> Defaults[s][k]]
    BY <2>1, Zenon
  <2> QED
    BY <2>2, <2>3, DefaultsOfKeys, Zenon
<1>8. settings = [s \in Singles |-> Defaults[s]]
  <2>1. /\ settings = [s \in Singles |-> settings[s]]
        /\ \A s \in Singles : settings[s] = ReadTable(<<s>>, s)
    BY <1>1, ConstructedParsed
  <2>2. \A s \in Singles : s \in Sections
    BY DEF Singles, Sections
  <2>3. \A s \in Singles : settings[s] = Defaults[s]
    BY <1>7, <2>1, <2>2
  <2>4. [s \in Singles |-> settings[s]] = [s \in Singles |-> Defaults[s]]
    BY <2>3, Zenon
  <2> QED
    BY <2>1, <2>4, Zenon
<1>9. Exists(<<"device">>)
  <2>1. PICK i \in 1..Len(Combined) : Combined[i] = Header("device")
    BY <1>3, ExportShape
  <2>2. Header("device").form = "table" /\ Header("device").at = <<"device">>
    BY DEF Header
  <2>3. IsHeader(Combined[i]) /\ Combined[i].at = <<"device">>
    BY <2>1, <2>2 DEF IsHeader
  <2> QED
    BY <1>2, <2>3 DEF ParserInv, HeadersInv
<1>10. devices = <<Defaults["device"]>>
  <2>1. "device" \in Names /\ "device" \in Sections
    BY DEF Names, Sections
  <2>2. ~IsArray("device")
    BY <1>6, <2>1
  <2>3. Tables("device") = << <<"device">> >> /\ Len(Tables("device")) = 1
    BY <1>2, <2>2, DeviceTables
  <2>4. devices = [i \in 1..Len(Tables("device")) |->
                     ReadTable(Tables("device")[i], "device")]
    <3>1. devices = Devices
      BY <1>1, ConstructedParsed
    <3> QED
      BY <1>9, <3>1, Zenon DEF Devices
  <2>5. devices = [i \in 1..1 |-> ReadTable(<< <<"device">> >>[i], "device")]
    BY <2>3, <2>4, Zenon
  <2>6. \A i \in 1..1 : << <<"device">> >>[i] = <<"device">>
    OBVIOUS
  <2>7. devices = [i \in 1..1 |-> Defaults["device"]]
    <3>1. \A i \in 1..1 : ReadTable(<< <<"device">> >>[i], "device") = Defaults["device"]
      BY <1>7, <2>1, <2>6, Zenon
    <3> QED
      BY <2>5, <3>1, Zenon
  <2>8. PICK d : d = Defaults["device"]
    OBVIOUS
  <2>9. [i \in 1..1 |-> d] = <<d>>
    OBVIOUS
  <2> QED
    BY <2>7, <2>8, <2>9
<1> QED
  BY <1>8, <1>10

-----------------------------------------------------------------------------
(* What a request is answered under what configuration.                    *)
LEMMA HandlersAnswer ==
  ASSUME NEW req, IsEndpoint(req)
  PROVE  (CHOOSE h \in Handlers(req) : TRUE) \in
            {"work", "queue", "clear", "ping", "stop", "version"}
<1>1. PICK H : H = Handlers(req)
  OBVIOUS
<1>2. H # {}
  BY <1>1 DEF IsEndpoint
<1>3. (CHOOSE h \in H : TRUE) \in H
  BY <1>2
<1>4. \A e \in Endpoints : e[3] \in {"work", "queue", "clear", "ping", "stop", "version"}
  BY DEF Endpoints
<1>5. \A h \in H : \E e \in Endpoints : h = e[3]
  BY <1>1 DEF Handlers
<1> QED
  BY <1>1, <1>3, <1>4, <1>5

PageAnswers == {"page", "head", "not found", "server error"}

LEMMA PagesAnswered ==
  ASSUME NEW req, NEW conf, NEW opened, NEW index,
         Answer(req, conf, opened, index) \in PageAnswers
  PROVE  Served(req, conf)
<1> USE DEF PageAnswers
<1>1. CASE req.upgrade
  BY <1>1 DEF Answer, Upgrade
<1>2. CASE ~req.upgrade /\ Illegal(req)
  BY <1>2 DEF Answer
<1>3. CASE ~req.upgrade /\ ~Illegal(req) /\ IsEndpoint(req)
  <2>1. PICK h : h = CHOOSE e \in Handlers(req) : TRUE
    OBVIOUS
  <2>2. h \in {"work", "queue", "clear", "ping", "stop", "version"}
    BY <1>3, <2>1, HandlersAnswer
  <2>3. Answer(req, conf, opened, index) = Endpoint(h, conf)
    BY <1>3, <2>1 DEF Answer
  <2> QED
    BY <2>2, <2>3 DEF Endpoint
<1>4. CASE ~req.upgrade /\ ~Illegal(req) /\ ~IsEndpoint(req) /\ ~Served(req, conf)
  BY <1>4 DEF Answer
<1> QED
  BY <1>1, <1>2, <1>3, <1>4

LEMMA ControlAnswered ==
  ASSUME NEW req, NEW conf, NEW opened, NEW index,
         Answer(req, conf, opened, index) \in {"clear", "stop"},
         opened \in {"ok", "missing", "error"}, index \in {"ok", "missing", "error"}
  PROVE  conf.control
<1>1. CASE req.upgrade
  BY <1>1 DEF Answer, Upgrade
<1>2. CASE ~req.upgrade /\ Illegal(req)
  BY <1>2 DEF Answer
<1>3. CASE ~req.upgrade /\ ~Illegal(req) /\ IsEndpoint(req)
  <2>1. PICK h : h = CHOOSE e \in Handlers(req) : TRUE
    OBVIOUS
  <2>2. h \in {"work", "queue", "clear", "ping", "stop", "version"}
    BY <1>3, <2>1, HandlersAnswer
  <2>3. Answer(req, conf, opened, index) = Endpoint(h, conf)
    BY <1>3, <2>1 DEF Answer
  <2>4. Endpoint(h, conf) \in {"clear", "stop"}
    BY <2>3
  <2>5. h \in {"clear", "stop"} /\ ~conf.control => Endpoint(h, conf) = "refused"
    BY DEF Endpoint
  <2>6. h \notin {"clear", "stop"} => Endpoint(h, conf) \in {"no device", h}
    BY DEF Endpoint
  <2> QED
    BY <2>2, <2>4, <2>5, <2>6
<1>4. CASE ~req.upgrade /\ ~Illegal(req) /\ ~IsEndpoint(req) /\ ~Served(req, conf)
  BY <1>4 DEF Answer
<1>5. CASE ~req.upgrade /\ ~Illegal(req) /\ ~IsEndpoint(req) /\ Served(req, conf)
  BY <1>5 DEF Answer, Page
<1> QED
  BY <1>1, <1>2, <1>3, <1>4, <1>5

LEMMA WorkAnswered ==
  ASSUME NEW req \in WorkRequests, NEW conf, NEW opened, NEW index
  PROVE  Answer(req, conf, opened, index) =
            IF conf.devices = 0 THEN "no device" ELSE "work"
<1>1. /\ req.verb = "post" /\ ~req.query /\ ~req.upgrade
      /\ req.path = "/" \/ req.path = "/api/v1/work"
  BY DEF WorkRequests
<1>2. ~Illegal(req)
  BY <1>1 DEF Illegal
<1>3. Handlers(req) = {"work"}
  <2>1. \A e \in Endpoints : e[1] = "post" => e[3] = "work"
    BY DEF Endpoints
  <2>2. \A h \in Handlers(req) : h = "work"
    BY <1>1, <2>1 DEF Handlers
  <2>3. PICK e \in Endpoints : e[1] = "post" /\ e[2] = req.path
    BY <1>1 DEF Endpoints
  <2>4. Matches(req, e[2])
    BY <1>1, <2>3 DEF Matches
  <2>5. e[3] \in Handlers(req)
    BY <1>1, <2>3, <2>4 DEF Handlers
  <2> QED
    BY <2>2, <2>5
<1>4. IsEndpoint(req) /\ (CHOOSE h \in Handlers(req) : TRUE) = "work"
  BY <1>3 DEF IsEndpoint
<1>5. Answer(req, conf, opened, index) = Endpoint("work", conf)
  BY <1>1, <1>2, <1>4 DEF Answer
<1> QED
  BY <1>5 DEF Endpoint

-----------------------------------------------------------------------------
(* The invariant is inductive.                                             *)
LEMMA ParserStartsNext == Fresh' => ParserInv'
  BY ParserStarts, PTL

LEMMA ParserKept ==
  ASSUME ParserInv, UNCHANGED <<overrides, file, pos, tree, cur>>,
         stage' # "combining" => pos = Len(Combined) + 1
  PROVE  ParserInv'
<1>1. Combined' = Combined /\ tree' = tree /\ pos' = pos /\ cur' = cur
  BY DEF Combined
<1>2. ParserTypes'
  BY <1>1 DEF ParserInv, ParserTypes
<1>3. HeadersInv'
  BY <1>1 DEF ParserInv, HeadersInv, Exists
<1>4. CurrentInv'
  BY <1>1 DEF ParserInv, CurrentInv, Exists
<1>5. ParentInv'
  BY <1>1 DEF ParserInv, ParentInv, Exists
<1>6. SectionsInv'
  BY <1>1, Zenon DEF ParserInv, SectionsInv, Exists
<1>7. KeysInv'
  BY <1>1, Zenon DEF ParserInv, KeysInv, Exists, IsArray, FirstMention
<1>8. ElementsInv'
  BY <1>1, Zenon DEF ParserInv, ElementsInv, Exists, IsArray, Listed, Children
<1>9. LastElementInv'
  BY <1>1, Zenon DEF ParserInv, LastElementInv, Exists, IsArray, Listed
<1>10. ElementKeysInv'
  BY <1>1, AboutKept, Zenon DEF ParserInv, ElementKeysInv, Exists
<1> QED
  BY <1>2, <1>3, <1>4, <1>5, <1>6, <1>7, <1>8, <1>9, <1>10 DEF ParserInv

LEMMA ReadKept ==
  ASSUME tree' = tree
  PROVE  /\ \A s : ReadTable(<<s>>, s)' = ReadTable(<<s>>, s)
         /\ \A s : Dangling(s)' <=> Dangling(s)
         /\ Devices' = Devices /\ (Accepted("device")' <=> Accepted("device"))
<1>1. \A t, s : ReadTable(t, s)' = ReadTable(t, s)
  BY Zenon DEF ReadTable, Exists
<1>2. \A s : Dangling(s)' <=> Dangling(s)
  BY Zenon DEF Dangling, Exists
<1>3. \A s : Tables(s)' = Tables(s)
  BY Zenon DEF Tables, Exists, Children
<1>4. Devices' = Devices
  BY <1>1, <1>3, Zenon DEF Devices, Exists
<1>5. \A t, s : OutOfRange(t, s)' <=> OutOfRange(t, s)
  BY Zenon DEF OutOfRange, Exists
<1>6. \A t, s : Readable(t, s)' <=> Readable(t, s)
  BY <1>1, <1>5, Zenon DEF Readable
<1>7. Accepted("device")' <=> Accepted("device")
  BY <1>2, <1>3, <1>6, Zenon DEF Accepted, Exists
<1> QED
  BY <1>1, <1>2, <1>4, <1>7

(* Sections that are read stay as they are read.                           *)
LEMMA SettingsKept ==
  ASSUME SettingsInv, settings' = settings,
         \A s \in Singles : stage' \in AfterRead[s] => stage \in AfterRead[s] /\ tree' = tree
  PROVE  SettingsInv'
<1>1. settings' = [s \in Singles |-> settings'[s]]
  BY DEF SettingsInv
<1>2. ASSUME NEW s \in Singles, stage' \in AfterRead[s]
      PROVE  settings'[s] = ReadTable(<<s>>, s)' /\ ~Dangling(s)'
  <2>1. stage \in AfterRead[s] /\ tree' = tree
    BY <1>2
  <2> QED
    BY <2>1, ReadKept DEF SettingsInv
<1> QED
  BY <1>1, <1>2 DEF SettingsInv

LEMMA DevicesKept ==
  ASSUME DevicesInv, devices' = devices,
         stage' \in {"admin", "constructed", "serving"} =>
            stage \in {"admin", "constructed", "serving"} /\ tree' = tree
  PROVE  DevicesInv'
<1>1. CASE stage' \in {"admin", "constructed", "serving"}
  BY <1>1, ReadKept DEF DevicesInv
<1>2. CASE stage' \notin {"admin", "constructed", "serving"}
  BY <1>2 DEF DevicesInv
<1> QED
  BY <1>1, <1>2

(* Answers that were right stay right.                                     *)
LEMMA AnswersKept ==
  ASSUME Answers, answered' = answered,
         \/ answered.kind = "none"
         \/ UNCHANGED <<overrides, file>> /\ stage' \in {"serving", "exited"}
  PROVE  Answers'
<1>1. CASE answered.kind = "none"
  BY <1>1 DEF Answers, PermissionsRespected, WorkReachable
<1>2. CASE UNCHANGED <<overrides, file>> /\ stage' \in {"serving", "exited"}
  <2>1. Separate' <=> Separate
    BY <1>2, Zenon DEF Separate
  <2>2. \A s, k : Meant(s, k)' = Meant(s, k)
    BY <1>2, Zenon DEF Meant
  <2>3. PermissionsRespected'
    BY <2>1, <2>2, Zenon DEF Answers, PermissionsRespected
  <2>4. WorkReachable'
    BY <1>2, Zenon DEF Answers, WorkReachable
  <2> QED
    BY <1>2, <2>3, <2>4 DEF Answers
<1> QED
  BY <1>1, <1>2

LEMMA InitHolds ==
  Init => ServerInv
<1> SUFFICES ASSUME Init PROVE ServerInv
  OBVIOUS
<1>1. /\ TextTypes /\ stage = "options" /\ answered.kind = "none"
      /\ settings = [s \in Singles |-> Defaults[s]]
  BY DEF Init, ConfigInit, TextTypes, Idle
<1>2. SettingsInv
  <2>1. settings = [s \in Singles |-> settings[s]]
    BY <1>1
  <2>2. \A s \in Singles : stage \notin AfterRead[s]
    BY <1>1 DEF Singles, AfterRead
  <2> QED
    BY <2>1, <2>2 DEF SettingsInv
<1>3. DevicesInv
  BY <1>1 DEF DevicesInv
<1>4. PermissionsRespected /\ WorkReachable
  BY <1>1 DEF PermissionsRespected, WorkReachable
<1>5. stage \notin Past
  BY <1>1 DEF Past
<1> QED
  BY <1>1, <1>2, <1>3, <1>4, <1>5 DEF ServerInv, Answers

(* main before the configuration is read.                                  *)
LEMMA OptionsStep ==
  ASSUME ServerInv, GenerateConfig \/ Help \/ ReadConfig, UNCHANGED answered
  PROVE  ServerInv'
<1>1. /\ stage = "options" /\ stage' \in {"options", "exited", "validating"}
      /\ UNCHANGED <<overrides, pos, tree, cur, settings, devices, answered>>
      /\ file' \in {file, ExportDocumented}
  BY DEF GenerateConfig, Help, ReadConfig
<1>2. TextTypes'
  <2>1. ExportDocumented' = ExportDocumented
    BY DEF ExportDocumented, AllWritten
  <2> QED
    BY <1>1, <2>1 DEF ServerInv, TextTypes
<1>3. stage' \notin Past
  BY <1>1 DEF Past
<1>4. SettingsInv'
  <2>1. \A s \in Singles : stage' \notin AfterRead[s]
    BY <1>1 DEF Singles, AfterRead
  <2> QED
    BY <1>1, <2>1, SettingsKept DEF ServerInv
<1>5. DevicesInv'
  BY <1>1 DEF DevicesInv
<1>6. Answers'
  <2>1. answered.kind = "none"
    BY <1>1 DEF ServerInv, Answers
  <2> QED
    BY <1>1, <2>1, AnswersKept DEF ServerInv
<1> QED
  BY <1>1, <1>2, <1>3, <1>4, <1>5, <1>6 DEF ServerInv

(* The parser.                                                             *)
LEMMA ParserStep ==
  ASSUME ServerInv, ParseLine \/ ParseError \/ ParseEnd, UNCHANGED answered
  PROVE  ServerInv'
<1>1. /\ stage \in {"validating", "combining"}
      /\ stage' \in {"validating", "combining", "server", "failed"}
      /\ UNCHANGED <<overrides, file, settings, devices, answered>>
  BY DEF ParseLine, ParseError, ParseEnd, Parsing
<1>2. TextTypes /\ TextTypes'
  <2>1. ExportDocumented' = ExportDocumented
    BY DEF ExportDocumented, AllWritten
  <2> QED
    BY <1>1, <2>1 DEF ServerInv, TextTypes
<1>3. stage' \in Past => ParserInv'
  <2>1. CASE ParseLine /\ stage = "combining"
    <3>1. LineStep
      BY <1>2, <2>1 DEF ServerInv, LineStep, Past
    <3> QED
      BY <3>1, LineKeeps
  <2>2. CASE ParseLine /\ stage = "validating"
    BY <2>2 DEF ParseLine, Past
  <2>3. CASE ParseError
    BY <2>3 DEF ParseError, Past
  <2>4. CASE ParseEnd /\ stage = "validating"
    <3>1. Fresh'
      BY <1>2, <2>4 DEF Fresh, ParseEnd, Empty
    <3> QED
      BY <3>1, ParserStartsNext
  <2>5. CASE ParseEnd /\ stage = "combining"
    <3>1. ParserInv /\ pos > Len(Combined) /\ UNCHANGED <<overrides, file, pos, tree, cur>>
      BY <1>1, <2>5 DEF ServerInv, ParseEnd, Lines, Past
    <3>2. pos = Len(Combined) + 1
      <4>1. PICK n \in Nat : n = Len(Combined)
        BY <1>2, CombinedRows, LenProperties
      <4> QED
        BY <3>1, <4>1 DEF ParserInv, ParserTypes
    <3> QED
      BY <3>1, <3>2, ParserKept
  <2> QED
    BY <1>1, <2>1, <2>2, <2>3, <2>4, <2>5
<1>4. SettingsInv'
  <2>1. \A s \in Singles : stage' \notin AfterRead[s]
    BY <1>1 DEF Singles, AfterRead
  <2> QED
    BY <1>1, <2>1, SettingsKept DEF ServerInv
<1>5. DevicesInv'
  BY <1>1 DEF DevicesInv
<1>6. Answers'
  <2>1. answered.kind = "none"
    BY <1>1 DEF ServerInv, Answers
  <2> QED
    BY <1>1, <2>1, AnswersKept DEF ServerInv
<1> QED
  BY <1>1, <1>2, <1>3, <1>4, <1>5, <1>6 DEF ServerInv, Past

(* From the tree to the server: the text and the tree stay what they are.  *)
LEMMA TreeStep ==
  ASSUME ServerInv, UNCHANGED <<overrides, file, pos, tree, cur>>, stage \in Past,
         stage # "combining", stage' \in Past \cup {"failed", "crashed", "exited"},
         SettingsInv', DevicesInv', Answers'
  PROVE  ServerInv'
<1>1. TextTypes'
  <2>1. ExportDocumented' = ExportDocumented
    BY DEF ExportDocumented, AllWritten
  <2> QED
    BY <2>1 DEF ServerInv, TextTypes
<1>2. ParserInv'
  <2>1. ParserInv /\ pos = Len(Combined) + 1
    BY DEF ServerInv, ParserInv, ParserTypes
  <2> QED
    BY <2>1, ParserKept
<1> QED
  BY <1>1, <1>2 DEF ServerInv

(* The constructor of config.                                              *)
LEMMA SectionStep ==
  ASSUME ServerInv, NEW s \in Singles, ReadSection(s), UNCHANGED answered
  PROVE  ServerInv'
<1>1. /\ stage = s /\ Accepted(s) /\ stage' = After[s]
      /\ settings' = [settings EXCEPT ![s] = ReadTable(<<s>>, s)]
      /\ UNCHANGED <<overrides, file, pos, tree, cur, devices, answered>>
  BY DEF ReadSection
<1>2. \/ s = "server" /\ stage' = "work"
      \/ s = "work" /\ stage' = "device"
      \/ s = "admin" /\ stage' = "constructed"
  BY <1>1 DEF Singles, After
<1>3. SettingsInv'
  <2>1. settings = [r \in Singles |-> settings[r]]
    BY DEF ServerInv, SettingsInv
  <2>2. /\ settings' = [r \in Singles |-> settings'[r]]
        /\ settings'[s] = ReadTable(<<s>>, s)
        /\ \A r \in Singles : r # s => settings'[r] = settings[r]
    BY <1>1, <2>1
  <2>3. ASSUME NEW r \in Singles, stage' \in AfterRead[r]
        PROVE  settings'[r] = ReadTable(<<r>>, r)' /\ ~Dangling(r)'
    <3>1. CASE r = s
      BY <1>1, <2>2, <3>1, ReadKept DEF Accepted
    <3>2. CASE r # s
      <4>1. stage \in AfterRead[r]
        BY <1>1, <1>2, <2>3, <3>2 DEF Singles, AfterRead
      <4> QED
        BY <1>1, <2>2, <3>2, <4>1, ReadKept DEF ServerInv, SettingsInv
    <3> QED
      BY <3>1, <3>2
  <2> QED
    BY <2>2, <2>3 DEF SettingsInv
<1>4. DevicesInv'
  BY <1>1, <1>2, DevicesKept DEF ServerInv
<1>5. Answers'
  <2>1. answered.kind = "none"
    BY <1>1, <1>2 DEF ServerInv, Answers
  <2> QED
    BY <1>1, <2>1, AnswersKept DEF ServerInv
<1>6. stage \in Past /\ stage # "combining" /\ stage' \in Past
  BY <1>1, <1>2 DEF Past
<1> QED
  BY <1>1, <1>3, <1>4, <1>5, <1>6, TreeStep

LEMMA DevicesStep ==
  ASSUME ServerInv, ReadDevices, UNCHANGED answered
  PROVE  ServerInv'
<1>1. /\ stage = "device" /\ Accepted("device") /\ stage' = "admin"
      /\ devices' = Devices
      /\ UNCHANGED <<overrides, file, pos, tree, cur, settings, answered>>
  BY DEF ReadDevices, After, Devices
<1>2. SettingsInv'
  <2>1. \A r \in Singles : stage' \in AfterRead[r] => stage \in AfterRead[r]
    BY <1>1 DEF Singles, AfterRead
  <2> QED
    BY <1>1, <2>1, SettingsKept DEF ServerInv
<1>3. DevicesInv'
  BY <1>1, ReadKept DEF DevicesInv
<1>4. Answers'
  <2>1. answered.kind = "none"
    BY <1>1 DEF ServerInv, Answers
  <2> QED
    BY <1>1, <2>1, AnswersKept DEF ServerInv
<1>5. stage \in Past /\ stage # "combining" /\ stage' \in Past
  BY <1>1 DEF Past
<1> QED
  BY <1>1, <1>2, <1>3, <1>4, <1>5, TreeStep

LEMMA ErrorStep ==
  ASSUME ServerInv, ReadError, UNCHANGED answered
  PROVE  ServerInv'
<1>1. /\ stage \in {"server", "work", "device", "admin"}
      /\ stage' \in {"failed", "crashed"}
      /\ UNCHANGED <<overrides, file, pos, tree, cur, settings, devices, answered>>
  BY DEF ReadError, After
<1>2. SettingsInv'
  <2>1. \A r \in Singles : stage' \notin AfterRead[r]
    BY <1>1 DEF Singles, AfterRead
  <2> QED
    BY <1>1, <2>1, SettingsKept DEF ServerInv
<1>3. DevicesInv'
  BY <1>1 DEF DevicesInv
<1>4. Answers'
  <2>1. answered.kind = "none"
    BY <1>1 DEF ServerInv, Answers
  <2> QED
    BY <1>1, <2>1, AnswersKept DEF ServerInv
<1>5. stage \in Past /\ stage # "combining"
  BY <1>1 DEF Past
<1> QED
  BY <1>1, <1>2, <1>3, <1>4, <1>5, TreeStep

LEMMA StartStep ==
  ASSUME ServerInv, Start
  PROVE  ServerInv'
<1>1. /\ stage = "constructed" /\ stage' \in {"serving", "failed"}
      /\ UNCHANGED <<overrides, file, pos, tree, cur, settings, devices, answered>>
  BY DEF Start
<1>2. SettingsInv'
  <2>1. \A r \in Singles : stage' \in AfterRead[r] => stage \in AfterRead[r]
    BY <1>1 DEF Singles, AfterRead
  <2> QED
    BY <1>1, <2>1, SettingsKept DEF ServerInv
<1>3. DevicesInv'
  BY <1>1, DevicesKept DEF ServerInv
<1>4. Answers'
  <2>1. answered.kind = "none"
    BY <1>1 DEF ServerInv, Answers
  <2> QED
    BY <1>1, <2>1, AnswersKept DEF ServerInv
<1>5. stage \in Past /\ stage # "combining" /\ stage' \in Past \cup {"failed"}
  BY <1>1 DEF Past
<1> QED
  BY <1>1, <1>2, <1>3, <1>4, <1>5, TreeStep

(* A request is answered as the operator wrote.                            *)
LEMMA HandleStep ==
  ASSUME ServerInv, NEW req \in Clients, Handle(req)
  PROVE  ServerInv'
<1>1. /\ stage = "serving" /\ stage' \in {"serving", "exited"}
      /\ UNCHANGED <<overrides, file, pos, tree, cur, settings, devices>>
  BY DEF Handle
<1>2. PICK opened \in {"ok", "missing", "error"}, index \in {"ok", "missing", "error"} :
         answered' = [req |-> req, kind |-> Answer(req, WebConf, opened, index)]
  BY DEF Handle
<1>3. PICK a : /\ a = Answer(req, WebConf, opened, index)
               /\ answered'.req = req /\ answered'.kind = a
  BY <1>2
<1>4. Constructed
  BY <1>1 DEF Constructed, After
<1>5. Parsed /\ devices = Devices
  BY <1>4, ConstructedParsed
<1>6. ASSUME Separate, a \in {"page", "head", "not found", "server error"}
      PROVE  /\ Meant("admin", "enable") = "true"
             /\ req.loopback \/ Meant("admin", "allow_remote") = "true"
  <2>0. PICK conf : conf = WebConf
    OBVIOUS
  <2>1. Served(req, conf)
    <3>1. Answer(req, conf, opened, index) \in PageAnswers
      BY <1>3, <1>6, <2>0 DEF PageAnswers
    <3> QED
      BY <3>1, PagesAnswered
  <2>2. /\ settings.admin.enable = "true"
        /\ settings.admin.allow_remote = "true" \/ req.loopback
    BY <2>0, <2>1 DEF Served, WebConf
  <2>3. /\ "admin" \in Singles
        /\ "enable" \in DOMAIN Keys["admin"] /\ "allow_remote" \in DOMAIN Keys["admin"]
    BY DEF Singles, Keys
  <2>4. SettingsAsWritten
    BY SettingsFollow
  <2>5. /\ Defaults["admin"]["enable"] # "true"
        /\ Defaults["admin"]["allow_remote"] # "true"
    BY DEF Defaults
  <2>6. settings["admin"]["enable"] =
           IF Meant("admin", "enable") \in Accepts[Keys["admin"]["enable"]]
             THEN Meant("admin", "enable") ELSE Defaults["admin"]["enable"]
    BY <1>4, <1>6, <2>3, <2>4, Zenon DEF SettingsAsWritten
  <2>7. settings["admin"]["allow_remote"] =
           IF Meant("admin", "allow_remote") \in Accepts[Keys["admin"]["allow_remote"]]
             THEN Meant("admin", "allow_remote") ELSE Defaults["admin"]["allow_remote"]
    BY <1>4, <1>6, <2>3, <2>4, Zenon DEF SettingsAsWritten
  <2>8. Meant("admin", "enable") = "true"
    BY <2>2, <2>5, <2>6
  <2>9. settings.admin.allow_remote = "true" => Meant("admin", "allow_remote") = "true"
    BY <2>5, <2>7
  <2> QED
    BY <2>2, <2>8, <2>9, Zenon
<1>7. ASSUME Separate, a \in {"clear", "stop"}
      PROVE  Meant("server", "allow_control") = "true"
  <2>1. WebConf.control
    BY <1>3, <1>7, ControlAnswered
  <2>2. settings.server.allow_control = "true"
    BY <2>1 DEF WebConf
  <2>3. "server" \in Singles /\ "allow_control" \in DOMAIN Keys["server"]
    BY DEF Singles, Keys
  <2>4. SettingsAsWritten
    BY SettingsFollow
  <2>5. Defaults["server"]["allow_control"] # "true"
    BY DEF Defaults
  <2>6. settings["server"]["allow_control"] =
           IF Meant("server", "allow_control") \in Accepts[Keys["server"]["allow_control"]]
             THEN Meant("server", "allow_control")
             ELSE Defaults["server"]["allow_control"]
    BY <1>4, <1>7, <2>3, <2>4, Zenon DEF SettingsAsWritten
  <2> QED
    BY <2>2, <2>5, <2>6
<1>8. ASSUME req \in WorkRequests
      PROVE  a = IF NamesDevice(Combined) THEN "work" ELSE "no device"
  <2>1. a = IF WebConf.devices = 0 THEN "no device" ELSE "work"
    BY <1>3, <1>8, WorkAnswered
  <2>2. WebConf.devices = Len(Devices)
    BY <1>5 DEF WebConf
  <2>3. Len(Devices) = 0 <=> ~NamesDevice(Combined)
    <3>1. CASE ~Exists(<<"device">>)
      BY <1>5, <3>1, DeviceTables, DevicesRead
    <3>2. CASE Exists(<<"device">>)
      <4>1. Len(Tables("device")) # 0
        <5>1. CASE IsArray("device")
          <6>1. Len(Combined) \in Nat
            BY <1>5, ParsedAll
          <6>2. /\ Listed("device", Len(Combined)) # {} =>
                      Cardinality(Listed("device", Len(Combined))) > 0
                /\ Cardinality(Listed("device", Len(Combined))) \in Nat
            BY <6>1, ListedFinite
          <6> QED
            BY <1>5, <5>1, <6>2, DeviceTables
        <5>2. CASE ~IsArray("device")
          BY <1>5, <5>2, DeviceTables
        <5> QED
          BY <5>1, <5>2
      <4> QED
        BY <1>5, <3>2, <4>1, DeviceTables, DevicesRead
    <3> QED
      BY <3>1, <3>2
  <2> QED
    BY <2>1, <2>2, <2>3
<1>9. PermissionsRespected'
  <2>1. Separate' <=> Separate
    BY <1>1, Zenon DEF Separate
  <2>2. \A s, k : Meant(s, k)' = Meant(s, k)
    BY <1>1, Zenon DEF Meant
  <2> QED
    BY <1>3, <1>6, <1>7, <2>1, <2>2, Zenon DEF PermissionsRespected
<1>10. WorkReachable'
  <2>1. (overrides \o file)' = Combined
    BY <1>1 DEF Combined
  <2> QED
    BY <1>3, <1>8, <2>1, Zenon DEF WorkReachable
<1>11. Answers'
  BY <1>1, <1>9, <1>10 DEF Answers
<1>12. SettingsInv'
  <2>1. \A r \in Singles : stage' \in AfterRead[r] => stage \in AfterRead[r]
    BY <1>1 DEF Singles, AfterRead
  <2> QED
    BY <1>1, <2>1, SettingsKept DEF ServerInv
<1>13. DevicesInv'
  BY <1>1, DevicesKept DEF ServerInv
<1>14. stage \in Past /\ stage # "combining" /\ stage' \in Past \cup {"exited"}
  BY <1>1 DEF Past
<1> QED
  BY <1>1, <1>11, <1>12, <1>13, <1>14, TreeStep

LEMMA StutterStep ==
  ASSUME ServerInv, UNCHANGED vars
  PROVE  ServerInv'
<1>1. UNCHANGED <<overrides, file, stage, pos, tree, cur, settings, devices, answered>>
  BY DEF vars, cVars
<1>2. TextTypes'
  <2>1. ExportDocumented' = ExportDocumented
    BY DEF ExportDocumented, AllWritten
  <2> QED
    BY <1>1, <2>1 DEF ServerInv, TextTypes
<1>3. stage' \in Past => ParserInv'
  <2>1. ParserInv => (stage' # "combining" => pos = Len(Combined) + 1)
    BY <1>1 DEF ParserInv, ParserTypes
  <2> QED
    BY <1>1, <2>1, ParserKept DEF ServerInv
<1>4. SettingsInv' /\ DevicesInv'
  BY <1>1, SettingsKept, DevicesKept DEF ServerInv
<1>5. Answers'
  <2>1. answered.kind = "none" \/ stage' \in {"serving", "exited"}
    BY <1>1 DEF ServerInv, Answers
  <2> QED
    BY <1>1, <2>1, AnswersKept DEF ServerInv
<1> QED
  BY <1>1, <1>2, <1>3, <1>4, <1>5 DEF ServerInv

LEMMA NextHolds ==
  ASSUME ServerInv, [Next]_vars
  PROVE  ServerInv'
<1>1. ASSUME ConfigNext, UNCHANGED answered
      PROVE  ServerInv'
  BY <1>1, OptionsStep, ParserStep, SectionStep, DevicesStep, ErrorStep DEF ConfigNext
<1>2. CASE Start
  BY <1>2, StartStep
<1>3. ASSUME NEW req \in Clients, Handle(req)
      PROVE  ServerInv'
  BY <1>3, HandleStep
<1>4. CASE Ended \/ UNCHANGED vars
  BY <1>4, StutterStep DEF Ended
<1> QED
  BY <1>1, <1>2, <1>3, <1>4 DEF Next

(* The parser, the constructor and the server keep to the text, whatever   *)
(* the options, the file and the clients are.                              *)
THEOREM ServerInvariant == Spec => []ServerInv
<1>1. Init => ServerInv
  BY InitHolds
<1>2. ServerInv /\ [Next]_vars => ServerInv'
  BY NextHolds
<1> QED
  BY <1>1, <1>2, PTL DEF Spec

-----------------------------------------------------------------------------
(* nano_pow_server.cpp:28, --config "takes precedence over any values in   *)
(* the configuration file": for every command line and every file, each    *)
(* setting has the value written first for it, if that is one of its type, *)
(* and otherwise its default.                                              *)
THEOREM SettingsWritten == Spec => []SettingsAsWritten
  BY ServerInvariant, SettingsFollow, PTL

(* config.hpp:144, "a single [device] entry, as well as a TOML table array *)
(* of [[device]] entries": of options and a file that do not run into each *)
(* other and do not mix the two forms, there are as many devices as are    *)
(* listed, each with the values first written for it and of a known type.  *)
THEOREM DevicesListed == Spec => []DevicesAsListed
  BY ServerInvariant, DevicesFollow, PTL

(* nano_pow_server.cpp:29, "commented defaults": the file that             *)
(* --generate_config writes gives every setting its default, and a default *)
(* device.                                                                 *)
THEOREM GeneratedIsDefault == Spec => []GeneratedFileIsDefault
  BY ServerInvariant, GeneratedFollows, PTL

(* config.hpp:193 and config.hpp:200: no client gets a page, clears the    *)
(* queue or stops the process unless the operator wrote that it may.       *)
THEOREM PermissionsHold == Spec => []PermissionsRespected
<1>1. ServerInv => PermissionsRespected
  BY DEF ServerInv, Answers
<1> QED
  BY <1>1, ServerInvariant, PTL

(* POST / and POST /api/v1/work reach the work handler under every         *)
(* configuration, and work is generated if a device is named.              *)
THEOREM WorkIsReachable == Spec => []WorkReachable
<1>1. ServerInv => WorkReachable
  BY DEF ServerInv, Answers
<1> QED
  BY <1>1, ServerInvariant, PTL
=============================================================================
