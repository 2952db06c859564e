---------------------------- MODULE Scanner_proofs ---------------------------
(* What holds of the tokens of every text, however long, and of every set of   *)
(* words (TextsAssumption).                                                      *)
EXTENDS ScannerProperties, FiniteSetTheorems, SequenceTheorems,
        WellFoundedInduction, TLAPS

------------------------------------------------------------------------------
(* Induction over the places of a list, and functions defined along it.        *)

LEMMA SmallestIndex ==
  ASSUME NEW S, S \subseteq Nat, S /= {}
  PROVE  \E i \in S : \A j \in S : i <= j
<1>1. PICK i \in S : \A j \in S : <<j, i>> \notin OpToRel(<, Nat)
  BY NatLessThanWellFounded, WFMin
<1>2. \A j \in S : ~(j < i) BY <1>1 DEF OpToRel
<1>3. \A j \in S : i <= j BY <1>2
<1> QED BY <1>3

(* What holds of 0 and of each number whose predecessor it holds of.           *)
LEMMA UpTo ==
  ASSUME NEW N \in Nat, NEW S, 0 \in S, \A k \in 1..N : k - 1 \in S => k \in S
  PROVE  0..N \subseteq S
<1> DEFINE B == {k \in 0..N : k \notin S}
<1>1. SUFFICES ASSUME B /= {} PROVE FALSE OBVIOUS
<1>2. PICK k \in B : \A j \in B : k <= j
  <2>1. B \subseteq Nat OBVIOUS
  <2> HIDE DEF B
  <2> QED BY <1>1, <2>1, SmallestIndex
<1>3. k \in 1..N /\ k - 1 \in 0..N /\ k - 1 \notin B BY <1>2
<1> QED BY <1>2, <1>3

Recursive(f, N, b, D) == f[0] = b /\ \A i \in 1..N : f[i] = D[i][f[i - 1]]

LEMMA RecursiveFunction ==
  ASSUME NEW N \in Nat, NEW V, NEW b \in V, NEW D \in [1..N -> [V -> V]]
  PROVE  \E f \in [0..N -> V] : Recursive(f, N, b, D)
<1> DEFINE Follows(f, k) == \A i \in 0..k : f[i] = IF i = 0 THEN b ELSE D[i][f[i - 1]]
           S == {k \in 0..N : \E f \in [0..k -> V] : Follows(f, k)}
<1>1. 0 \in S
  <2> DEFINE g == [i \in 0..0 |-> b]
  <2>1. g \in [0..0 -> V] /\ Follows(g, 0) OBVIOUS
  <2> HIDE DEF g
  <2>2. 0 \in 0..N /\ \E f \in [0..0 -> V] : Follows(f, 0) BY <2>1
  <2> QED BY <2>2
<1>2. ASSUME NEW k \in 1..N, k - 1 \in S PROVE k \in S
  <2>1. PICK f \in [0..k - 1 -> V] : Follows(f, k - 1) BY <1>2
  <2> DEFINE g == [i \in 0..k |-> IF i = k THEN D[k][f[k - 1]] ELSE f[i]]
  <2>2. k - 1 \in 0..k - 1 /\ f[k - 1] \in V BY <2>1
  <2>3. D[k][f[k - 1]] \in V BY <2>2
  <2>4. g \in [0..k -> V]
    <3> SUFFICES ASSUME NEW i \in 0..k PROVE (IF i = k THEN D[k][f[k - 1]] ELSE f[i]) \in V OBVIOUS
    <3>1. i /= k => i \in 0..k - 1 OBVIOUS
    <3> QED BY <3>1, <2>1, <2>3
  <2>5. Follows(g, k)
    <3> SUFFICES ASSUME NEW i \in 0..k
                 PROVE  g[i] = IF i = 0 THEN b ELSE D[i][g[i - 1]]
      OBVIOUS
    <3>1. CASE i = k
      <4>1. g[i] = D[k][f[k - 1]] /\ i /= 0 BY <3>1
      <4>2. g[k - 1] = f[k - 1] BY <2>2
      <4> QED BY <3>1, <4>1, <4>2
    <3>2. CASE i /= k
      <4>1. i \in 0..k - 1 /\ g[i] = f[i] BY <3>2
      <4>2. i /= 0 => i - 1 \in 0..k /\ i - 1 /= k /\ g[i - 1] = f[i - 1] BY <4>1
      <4> HIDE DEF g
      <4> QED BY <2>1, <4>1, <4>2
    <3> QED BY <3>1, <3>2
  <2> HIDE DEF g
  <2> QED BY <2>4, <2>5
<1>3. 0..N \subseteq S
  <2> HIDE DEF S
  <2> QED BY <1>1, <1>2, UpTo
<1>4. PICK f \in [0..N -> V] : Follows(f, N) BY <1>3
<1>5. f[0] = b /\ \A i \in 1..N : f[i] = D[i][f[i - 1]]
  <2>1. 0 \in 0..N /\ \A i \in 1..N : i \in 0..N /\ i /= 0 OBVIOUS
  <2> QED BY <1>4, <2>1
<1> QED BY <1>5 DEF Recursive

------------------------------------------------------------------------------
(* Lists of tokens. *)

TokenTypes ==
  UNION {Symbols, {s[3] : s \in DoubledSymbols}, typing_keywords, matlab_keywords, classdef_keywords,
         {"identifier", "op_end", "end_type", "function_type", "number", "string", "char", "newline",
          "@T", "null"}}

Tok == [type : TokenTypes, at : Nat, upto : Nat]

LEMMA TokenMade ==
  ASSUME NEW type, NEW p, NEW q
  PROVE  /\ Token(type, p, q).type = type /\ Token(type, p, q).at = p /\ Token(type, p, q).upto = q
         /\ type \in TokenTypes /\ p \in Nat /\ q \in Nat => Token(type, p, q) \in Tok
BY DEF Token, Tok

LEMMA TokenFields ==
  ASSUME NEW t \in Tok
  PROVE  t.type \in TokenTypes /\ t.at \in Nat /\ t.upto \in Nat
BY DEF Tok

LEMMA Comma == "," \in TokenTypes /\ "null" \in TokenTypes
BY DEF TokenTypes, Symbols

LEMMA Appended ==
  ASSUME NEW list \in Seq(Tok), NEW t \in Tok
  PROVE  /\ Append(list, t) \in Seq(Tok) /\ Len(Append(list, t)) = Len(list) + 1
         /\ \A i \in 1..Len(list) : Append(list, t)[i] = list[i]
         /\ Append(list, t)[Len(list) + 1] = t /\ Len(list) \in Nat
BY AppendProperties, LenProperties

LEMMA InsertBehindIs ==
  ASSUME NEW list \in Seq(Tok), NEW p \in 1..Len(list)
  PROVE  LET comma == Token(",", list[p].upto, list[p].upto)
             r == InsertBehind(list, p)
         IN  /\ r \in Seq(Tok) /\ Len(r) = Len(list) + 1
             /\ \A q \in 1..p : r[q] = list[q]
             /\ r[p + 1] = comma
             /\ \A q \in p + 1..Len(list) : r[q + 1] = list[q]
<1> DEFINE comma == Token(",", list[p].upto, list[p].upto)
           n == Len(list)
           a == SubSeq(list, 1, p)
           b == SubSeq(list, p + 1, n)
           one == <<comma>>
           c == a \o one
           r == c \o b
<1>1. n \in Nat /\ p \in Nat /\ 1 <= p /\ p <= n BY LenProperties
<1>2. \A i \in 1..n : list[i] \in Tok BY ElementOfSeq
<1>3. comma \in Tok
  <2>1. list[p] \in Tok BY <1>1, <1>2
  <2> QED BY <2>1, TokenMade, TokenFields, Comma
<1> HIDE DEF comma
<1>4. one \in Seq(Tok) /\ Len(one) = 1 /\ one[1] = comma BY <1>3
<1>5. InsertBehind(list, p) = r BY DEF InsertBehind, comma
<1> HIDE DEF n
<1>6. a \in Seq(Tok) /\ Len(a) = p /\ \A q \in 1..p : a[q] = list[q]
  <2>1. \A i \in 1..p : list[i] \in Tok /\ 1 + i - 1 = i BY <1>1, <1>2
  <2>2. 1 \in Int /\ p \in Int BY <1>1
  <2>3. /\ a \in Seq(Tok) /\ Len(a) = IF 1 <= p THEN p - 1 + 1 ELSE 0
        /\ \A i \in 1..p - 1 + 1 : a[i] = list[1 + i - 1]
    BY <2>1, <2>2, SubSeqProperties
  <2> HIDE DEF b, a, one, c, r
  <2>4. p - 1 + 1 = p /\ (IF 1 <= p THEN p - 1 + 1 ELSE 0) = p BY <1>1
  <2> QED BY <2>1, <2>3, <2>4
<1>7. b \in Seq(Tok) /\ Len(b) = n - p /\ \A i \in 1..n - p : b[i] = list[p + i]
  <2>1. \A i \in p + 1..n : list[i] \in Tok BY <1>1, <1>2
  <2>2. p + 1 \in Int /\ n \in Int BY <1>1
  <2>3. /\ b \in Seq(Tok) /\ Len(b) = IF p + 1 <= n THEN n - (p + 1) + 1 ELSE 0
        /\ \A i \in 1..n - (p + 1) + 1 : b[i] = list[p + 1 + i - 1]
    BY <2>1, <2>2, SubSeqProperties
  <2> HIDE DEF b, a, one, c, r
  <2>4. n - (p + 1) + 1 = n - p /\ \A i \in 1..n - p : p + 1 + i - 1 = p + i BY <1>1
  <2>5. (IF p + 1 <= n THEN n - (p + 1) + 1 ELSE 0) = n - p BY <1>1
  <2> QED BY <2>3, <2>4, <2>5
<1> HIDE DEF a, b, one
<1>8. /\ c \in Seq(Tok) /\ Len(c) = p + 1
      /\ \A i \in 1..p + 1 : c[i] = IF i <= p THEN a[i] ELSE one[i - p]
  <2>1. /\ c \in Seq(Tok) /\ Len(c) = Len(a) + Len(one)
        /\ \A i \in 1..Len(a) + Len(one) : c[i] = IF i <= Len(a) THEN a[i] ELSE one[i - Len(a)]
    BY <1>4, <1>6, ConcatProperties
  <2> QED BY <2>1, <1>4, <1>6
<1> HIDE DEF c
<1>9. (\A q \in 1..p : c[q] = list[q]) /\ c[p + 1] = comma BY <1>1, <1>4, <1>6, <1>8
<1>10. /\ r \in Seq(Tok) /\ Len(r) = n + 1
       /\ \A i \in 1..n + 1 : r[i] = IF i <= p + 1 THEN c[i] ELSE b[i - (p + 1)]
  <2>1. /\ r \in Seq(Tok) /\ Len(r) = Len(c) + Len(b)
        /\ \A i \in 1..Len(c) + Len(b) : r[i] = IF i <= Len(c) THEN c[i] ELSE b[i - Len(c)]
    BY <1>7, <1>8, ConcatProperties
  <2>2. Len(c) + Len(b) = n + 1 /\ Len(c) = p + 1 BY <1>1, <1>7, <1>8
  <2> QED BY <2>1, <2>2
<1> HIDE DEF r
<1>11. (\A q \in 1..p : r[q] = list[q]) /\ r[p + 1] = comma BY <1>1, <1>9, <1>10
<1>12. ASSUME NEW q \in p + 1..n PROVE r[q + 1] = list[q]
  <2>1. q + 1 \in 1..n + 1 /\ ~(q + 1 <= p + 1) /\ q + 1 - (p + 1) = q - p BY <1>1
  <2>2. q - p \in 1..n - p /\ p + (q - p) = q BY <1>1
  <2> QED BY <2>1, <2>2, <1>7, <1>10
<1> QED BY <1>5, <1>10, <1>11, <1>12 DEF comma, n

LEMMA OpenIs ==
  ASSUME NEW list \in Seq(Tok)
  PROVE  /\ Open(list) \in [0..Len(list) -> Int] /\ Open(list)[0] = 0
         /\ \A i \in 1..Len(list) : Open(list)[i] = OpenBehind(list, i, Open(list)[i - 1])
<1> DEFINE N == Len(list)
           D == [i \in 1..N |-> [x \in Int |-> OpenBehind(list, i, x)]]
<1>1. N \in Nat /\ 0 \in Int BY LenProperties
<1>2. \A i, x : x \in Int => OpenBehind(list, i, x) \in Int BY DEF OpenBehind
<1>3. D \in [1..N -> [Int -> Int]] BY <1>2
<1>4. \A i \in 1..N : \A x \in Int : D[i][x] = OpenBehind(list, i, x) OBVIOUS
<1> HIDE DEF D
<1>5. PICK f \in [0..N -> Int] : f[0] = 0 /\ \A i \in 1..N : f[i] = D[i][f[i - 1]]
  <2> HIDE DEF N
  <2>1. \E f \in [0..N -> Int] : Recursive(f, N, 0, D) BY <1>1, <1>3, RecursiveFunction
  <2> QED BY <2>1 DEF Recursive
<1>6. \A i \in 1..N : f[i] = OpenBehind(list, i, f[i - 1])
  <2> SUFFICES ASSUME NEW i \in 1..N PROVE f[i] = OpenBehind(list, i, f[i - 1]) OBVIOUS
  <2>1. i - 1 \in 0..N BY <1>1
  <2> QED BY <2>1, <1>4, <1>5
<1>7. f = [i \in 0..N |-> IF i = 0 THEN 0 ELSE OpenBehind(list, i, f[i - 1])]
  <2>1. \A i \in 0..N : i /= 0 => i \in 1..N OBVIOUS
  <2>2. \A i \in 0..N : f[i] = IF i = 0 THEN 0 ELSE OpenBehind(list, i, f[i - 1])
    BY <2>1, <1>5, <1>6
  <2> QED BY <2>2
<1>8. Open(list) = [i \in 0..N |-> IF i = 0 THEN 0 ELSE OpenBehind(list, i, Open(list)[i - 1])]
  BY <1>7 DEF Open
<1>9. \A i \in 0..N : Open(list)[i] = IF i = 0 THEN 0 ELSE OpenBehind(list, i, Open(list)[i - 1])
  BY <1>8
<1>10. 0..N \subseteq {i \in 0..N : Open(list)[i] \in Int}
  <2> DEFINE S == {i \in 0..N : Open(list)[i] \in Int}
  <2>1. 0 \in S BY <1>1, <1>9
  <2>2. ASSUME NEW k \in 1..N, k - 1 \in S PROVE k \in S
    <3>1. k \in 0..N /\ k /= 0 OBVIOUS
    <3>2. Open(list)[k] = OpenBehind(list, k, Open(list)[k - 1]) BY <3>1, <1>9
    <3> QED BY <3>1, <3>2, <2>2, <1>2
  <2> HIDE DEF S
  <2>3. 0..N \subseteq S BY <1>1, <2>1, <2>2, UpTo
  <2> QED BY <2>3 DEF S
<1>11. Open(list) \in [0..N -> Int]
  <2>1. \A i \in 0..N : Open(list)[i] \in Int BY <1>10
  <2>2. DOMAIN Open(list) = 0..N /\ Open(list) = [i \in 0..N |-> Open(list)[i]] BY <1>8
  <2> QED BY <2>1, <2>2
<1>12. \A i \in 1..N : i \in 0..N /\ i /= 0 OBVIOUS
<1> QED BY <1>1, <1>9, <1>11, <1>12

------------------------------------------------------------------------------
(* Where the tokens of a list are once commas stand behind some of them.       *)

Before(S, i) == Cardinality({j \in S : j < i})
Place(S, i) == i + Before(S, i)
CommaBehind(t) == Token(",", t.upto, t.upto)

LEMMA BeforeStep ==
  ASSUME NEW n \in Nat, NEW S, S \subseteq 1..n, NEW i \in Int
  PROVE  /\ Before(S, i) \in Nat /\ Before(S, i + 1) = Before(S, i) + IF i \in S THEN 1 ELSE 0
         /\ Before(S, 1) = 0
<1> DEFINE A == {j \in S : j < i}
           B == {j \in S : j < i + 1}
<1>1. IsFiniteSet(S)
  <2>1. IsFiniteSet(1..n) BY FS_Interval
  <2> QED BY <2>1, FS_Subset
<1>2. IsFiniteSet(A) /\ A \subseteq S BY <1>1, FS_Subset
<1>3. Cardinality(A) \in Nat BY <1>2, FS_CardinalityType
<1>0. \A j \in S : j \in Int /\ 1 <= j /\ ~(j < 1) OBVIOUS
<1>5. {j \in S : j < 1} = {} BY <1>0
<1>4. CASE i \in S
  <2>0. \A j \in S : j < i + 1 <=> j < i \/ j = i BY <1>0
  <2>2. i \notin A /\ i \in B BY <1>4
  <2>4. A \subseteq B BY <2>0
  <2>3. \A j \in B : j \in A \/ j = i BY <2>0
  <2>1. B = A \cup {i} /\ i \notin A
    <3> HIDE DEF A, B
    <3> QED BY <2>2, <2>3, <2>4
  <2>6. Cardinality(A \cup {i}) = Cardinality(A) + 1 BY <2>1, <1>2, FS_AddElement
  <2>5. Cardinality(B) = Cardinality(A) + 1 BY <2>1, <2>6
  <2> QED BY <2>5, <1>3, <1>4, <1>5, FS_EmptySet DEF Before
<1>6. CASE i \notin S
  <2>0. \A j \in S : j < i + 1 <=> j < i BY <1>0, <1>6
  <2>1. B = A BY <2>0
  <2> QED BY <2>1, <1>3, <1>5, <1>6, FS_EmptySet DEF Before
<1>7. Before(S, 1) = 0 BY <1>5, FS_EmptySet DEF Before
<1> QED BY <1>4, <1>6, <1>7

LEMMA PlaceRises ==
  ASSUME NEW n \in Nat, NEW S, S \subseteq 1..n, NEW i \in Nat, NEW j \in Nat, i < j
  PROVE  /\ Before(S, i) <= Before(S, j)
         /\ Place(S, i) + (IF i \in S THEN 1 ELSE 0) < Place(S, j)
         /\ Place(S, i) \in Nat /\ Place(S, j) \in Nat
<1>1. ASSUME NEW k \in Nat
      PROVE  Before(S, k) \in Nat /\ Before(S, k + 1) = Before(S, k) + IF k \in S THEN 1 ELSE 0
  <2>1. k \in Int OBVIOUS
  <2> QED BY <2>1, BeforeStep
<1>2. \A k \in 0..j : k > i => Before(S, i + 1) <= Before(S, k)
  <2> DEFINE Q == {k \in 0..j : k > i => Before(S, i + 1) <= Before(S, k)}
  <2>1. 0 \in Q OBVIOUS
  <2>2. ASSUME NEW k \in 1..j, k - 1 \in Q PROVE k \in Q
    <3>1. k - 1 \in Nat /\ k - 1 + 1 = k /\ k \in 0..j OBVIOUS
    <3>2. Before(S, k) >= Before(S, k - 1) /\ Before(S, k) \in Nat BY <3>1, <1>1
    <3>3. CASE k - 1 > i
      <4>1. Before(S, i + 1) <= Before(S, k - 1) BY <2>2, <3>3
      <4>2. Before(S, i + 1) \in Nat /\ Before(S, k - 1) \in Nat BY <1>1, <3>1
      <4> QED BY <4>1, <4>2, <3>1, <3>2
    <3>4. CASE k - 1 = i
      <4>1. Before(S, i + 1) = Before(S, k) /\ k \in Nat BY <3>1, <3>4
      <4>2. Before(S, k) <= Before(S, k) BY <3>2
      <4> QED BY <3>1, <4>1, <4>2
    <3>5. CASE k - 1 < i BY <3>1, <3>5
    <3> QED BY <3>3, <3>4, <3>5
  <2> HIDE DEF Q
  <2>3. 0..j \subseteq Q BY <2>1, <2>2, UpTo
  <2> QED BY <2>3 DEF Q
<1>3. Before(S, i + 1) <= Before(S, j) BY <1>2
<1>4. /\ Before(S, i) \in Nat /\ Before(S, j) \in Nat
      /\ Before(S, i + 1) = Before(S, i) + IF i \in S THEN 1 ELSE 0
  BY <1>1
<1> QED BY <1>3, <1>4 DEF Place

(* The first k of a list's tokens have got their commas. *)
Stage(s, list, S, k) ==
  /\ s \in Seq(Tok) /\ Len(s) = Len(list) + Before(S, k + 1)
  /\ \A i \in 1..Len(list) : i <= k => s[Place(S, i)] = list[i]
  /\ \A i \in 1..Len(list) : i > k => s[i + Before(S, k + 1)] = list[i]
  /\ \A i \in S : i <= k => s[Place(S, i) + 1] = CommaBehind(list[i])

Spread(s, list, S) == Stage(s, list, S, Len(list))

LEMMA StageStep ==
  ASSUME NEW list \in Seq(Tok), NEW S, S \subseteq 1..Len(list), NEW k \in 1..Len(list),
         NEW s, Stage(s, list, S, k - 1)
  PROVE  /\ Place(S, k) \in 1..Len(s)
         /\ Stage(IF k \in S THEN InsertBehind(s, Place(S, k)) ELSE s, list, S, k)
<1> DEFINE n == Len(list)
           p == Place(S, k)
           r == InsertBehind(s, p)
<1>1. n \in Nat /\ k \in Nat /\ 1 <= k /\ k <= n BY LenProperties
<1>2. ASSUME NEW i \in Nat
      PROVE  Before(S, i) \in Nat /\ Before(S, i + 1) = Before(S, i) + IF i \in S THEN 1 ELSE 0
  <2>1. i \in Int OBVIOUS
  <2> QED BY <1>1, <2>1, BeforeStep
<1>3. \A i, j \in Nat : i < j =>
        /\ Place(S, i) + (IF i \in S THEN 1 ELSE 0) < Place(S, j)
        /\ Before(S, i) <= Before(S, j) /\ Place(S, i) \in Nat /\ Place(S, j) \in Nat
  BY <1>1, PlaceRises
<1>4. k - 1 + 1 = k OBVIOUS
<1>5. /\ s \in Seq(Tok) /\ Len(s) = n + Before(S, k)
      /\ \A i \in 1..n : i <= k - 1 => s[Place(S, i)] = list[i]
      /\ \A i \in 1..n : i > k - 1 => s[i + Before(S, k)] = list[i]
      /\ \A i \in S : i <= k - 1 => s[Place(S, i) + 1] = CommaBehind(list[i])
  BY <1>4 DEF Stage
<1> HIDE DEF n
<1>6. p \in 1..Len(s) /\ p = k + Before(S, k) /\ Before(S, k) \in Nat
  <2>1. p = k + Before(S, k) BY DEF Place
  <2>2. Before(S, k) \in Nat BY <1>1, <1>2
  <2> HIDE DEF p
  <2> QED BY <2>1, <2>2, <1>1, <1>5
<1>7. s[p] = list[k] BY <1>1, <1>5, <1>6
<1>8. CASE k \notin S
  <2>1. Before(S, k + 1) = Before(S, k) BY <1>1, <1>2, <1>8
  <2>2. \A i \in 1..n : i <= k => s[Place(S, i)] = list[i]
    <3>1. \A i \in 1..n : i <= k /\ i /= k => i <= k - 1 BY <1>1
    <3> QED BY <3>1, <1>5, <1>7
  <2>3. \A i \in S : i <= k => i <= k - 1 BY <1>1, <1>8 DEF n
  <2>4. \A i \in 1..n : i > k => i > k - 1 BY <1>1
  <2> QED BY <2>1, <2>2, <2>3, <2>4, <1>5, <1>6, <1>8 DEF Stage, n
<1>9. CASE k \in S
  <2> HIDE DEF p
  <2>1. /\ r \in Seq(Tok) /\ Len(r) = Len(s) + 1
        /\ \A q \in 1..p : r[q] = s[q]
        /\ r[p + 1] = CommaBehind(s[p])
        /\ \A q \in p + 1..Len(s) : r[q + 1] = s[q]
    BY <1>5, <1>6, InsertBehindIs DEF CommaBehind
  <2> HIDE DEF r
  <2>2. Before(S, k + 1) = Before(S, k) + 1 BY <1>1, <1>2, <1>9
  <2>3. ASSUME NEW i \in 1..n, i <= k PROVE r[Place(S, i)] = list[i]
    <3>1. CASE i = k BY <3>1, <1>6, <1>7, <2>1 DEF p
    <3>2. CASE i /= k
      <4>1. i <= k - 1 /\ i < k /\ i \in Nat BY <1>1, <2>3, <3>2
      <4>2. Place(S, i) < p /\ Place(S, i) \in Nat
        <5>1. Place(S, i) + (IF i \in S THEN 1 ELSE 0) < p /\ Place(S, i) \in Nat
          BY <4>1, <1>1, <1>3 DEF p
        <5> QED BY <5>1, <1>6
      <4>3. Before(S, i) \in Nat /\ i >= 1 BY <4>1, <1>2
      <4>5. Place(S, i) >= 1 BY <4>1, <4>3 DEF Place
      <4>4. Place(S, i) \in 1..p BY <4>2, <4>5, <1>6
      <4> QED BY <4>1, <4>4, <1>5, <2>1
    <3> QED BY <3>1, <3>2
  <2>4. ASSUME NEW i \in 1..n, i > k PROVE r[i + Before(S, k + 1)] = list[i]
    <3>1. i + Before(S, k) \in p + 1..Len(s) BY <1>1, <1>5, <1>6, <2>4
    <3>2. r[i + Before(S, k) + 1] = s[i + Before(S, k)] BY <3>1, <2>1
    <3>3. i + Before(S, k) + 1 = i + Before(S, k + 1) BY <2>2, <1>6
    <3>4. i > k - 1 BY <1>1, <2>4
    <3> QED BY <3>2, <3>3, <3>4, <1>5
  <2>5. ASSUME NEW i \in S, i <= k PROVE r[Place(S, i) + 1] = CommaBehind(list[i])
    <3>1. CASE i = k BY <3>1, <1>7, <2>1 DEF p
    <3>2. CASE i /= k
      <4>1. i <= k - 1 /\ i < k /\ i \in Nat BY <1>1, <2>5, <3>2
      <4>2. Place(S, i) + 1 < p /\ Place(S, i) \in Nat BY <4>1, <1>1, <1>3, <2>5 DEF p
      <4>3. Place(S, i) + 1 \in 1..p BY <4>2, <1>6
      <4> QED BY <4>1, <4>3, <1>5, <2>1, <2>5
    <3> QED BY <3>1, <3>2
  <2>6. Len(r) = n + Before(S, k + 1) BY <2>1, <2>2, <1>1, <1>5, <1>6
  <2>7. Stage(r, list, S, k) BY <2>1, <2>3, <2>4, <2>5, <2>6 DEF Stage, n
  <2> QED BY <2>7, <1>6, <1>9 DEF r, p
<1> QED BY <1>6, <1>8, <1>9

InsertAt(list, S, x, i) == IF i \in S THEN InsertBehind(x, Place(S, i)) ELSE x

LEMMA InsertedIs ==
  ASSUME NEW list \in Seq(Tok), NEW S, S \subseteq 1..Len(list)
  PROVE  \E f : /\ f = [i \in 0..Len(list) |-> IF i = 0 THEN list ELSE InsertAt(list, S, f[i - 1], i)]
                /\ Inserted(list, S) = f[Len(list)]
<1> DEFINE N == Len(list)
           D == [i \in 1..N |-> [x \in Seq(Tok) |->
                   IF Place(S, i) \in 1..Len(x) THEN InsertAt(list, S, x, i) ELSE x]]
           Equation(f) == f = [i \in 0..N |-> IF i = 0 THEN list ELSE InsertAt(list, S, f[i - 1], i)]
<1>1. N \in Nat /\ list \in Seq(Tok) /\ 0 \notin S BY LenProperties
<1>2. D \in [1..N -> [Seq(Tok) -> Seq(Tok)]]
  <2> SUFFICES ASSUME NEW i \in 1..N, NEW x \in Seq(Tok), Place(S, i) \in 1..Len(x)
               PROVE  InsertAt(list, S, x, i) \in Seq(Tok)
    OBVIOUS
  <2> QED BY InsertBehindIs DEF InsertAt
<1>3. \A i \in 1..N : \A x \in Seq(Tok) :
        D[i][x] = IF Place(S, i) \in 1..Len(x) THEN InsertAt(list, S, x, i) ELSE x
  OBVIOUS
<1> HIDE DEF D
<1>4. PICK f \in [0..N -> Seq(Tok)] : f[0] = list /\ \A i \in 1..N : f[i] = D[i][f[i - 1]]
  <2> HIDE DEF N
  <2>1. \E f \in [0..N -> Seq(Tok)] : Recursive(f, N, list, D) BY <1>1, <1>2, RecursiveFunction
  <2> QED BY <2>1 DEF Recursive
<1>5. 0..N \subseteq {k \in 0..N : Stage(f[k], list, S, k)}
  <2> DEFINE A == {k \in 0..N : Stage(f[k], list, S, k)}
  <2>1. 0 \in A
    <3>0. 0 + 1 = 1 /\ 1 \in Int OBVIOUS
    <3>1. Before(S, 0 + 1) = 0 /\ 0 \in 0..N
      <4>1. Before(S, 1) = 0 BY <1>1, <3>0, BeforeStep
      <4> QED BY <4>1, <3>0, <1>1
    <3>2. \A i \in 1..N : i > 0 /\ ~(i <= 0) /\ i + 0 = i OBVIOUS
    <3>3. \A i \in S : ~(i <= 0) OBVIOUS
    <3> QED BY <1>1, <1>4, <3>1, <3>2, <3>3 DEF Stage
  <2>2. ASSUME NEW k \in 1..N, k - 1 \in A PROVE k \in A
    <3>1. k - 1 \in 0..N /\ k \in 0..N /\ Stage(f[k - 1], list, S, k - 1) BY <2>2
    <3>2. /\ Place(S, k) \in 1..Len(f[k - 1])
          /\ Stage(InsertAt(list, S, f[k - 1], k), list, S, k)
      BY <3>1, StageStep DEF InsertAt
    <3>3. f[k] = InsertAt(list, S, f[k - 1], k) BY <3>1, <3>2, <1>3, <1>4
    <3> QED BY <3>1, <3>2, <3>3
  <2> HIDE DEF A
  <2> QED BY <1>1, <2>1, <2>2, UpTo
<1>6. ASSUME NEW i \in 1..N PROVE f[i] = InsertAt(list, S, f[i - 1], i)
  <2>1. i - 1 \in 0..N BY <1>1
  <2>2. Stage(f[i - 1], list, S, i - 1) BY <2>1, <1>5
  <2>3. Place(S, i) \in 1..Len(f[i - 1]) BY <2>2, StageStep
  <2> QED BY <2>1, <2>3, <1>3, <1>4
<1>7. Equation(f)
  <2>1. \A i \in 0..N : i /= 0 => i \in 1..N OBVIOUS
  <2>2. \A i \in 0..N : f[i] = IF i = 0 THEN list ELSE InsertAt(list, S, f[i - 1], i)
    BY <2>1, <1>4, <1>6
  <2> QED BY <2>2
<1> DEFINE g == InsertedUpTo(list, S)
<1>8. g = [i \in 0..N |-> CASE i = 0 -> list
                            [] i \in S -> InsertBehind(g[i - 1], i + Cardinality({j \in S : j < i}))
                            [] OTHER -> g[i - 1]]
  <2>1. f = [i \in 0..N |-> CASE i = 0 -> list
                              [] i \in S -> InsertBehind(f[i - 1], i + Cardinality({j \in S : j < i}))
                              [] OTHER -> f[i - 1]]
    BY <1>1, <1>7 DEF InsertAt, Place, Before
  <2> QED BY <2>1 DEF InsertedUpTo
<1> HIDE DEF g
<1>9. Equation(g) BY <1>1, <1>8 DEF InsertAt, Place, Before
<1>10. Inserted(list, S) = g[N] BY DEF Inserted, g
<1> QED BY <1>9, <1>10

(* Each token is where its place is, and the commas are behind theirs.         *)
LEMMA InsertedSpreads ==
  ASSUME NEW list \in Seq(Tok), NEW S, S \subseteq 1..Len(list)
  PROVE  Spread(Inserted(list, S), list, S)
<1> DEFINE N == Len(list)
<1>1. PICK f : /\ f = [i \in 0..N |-> IF i = 0 THEN list ELSE InsertAt(list, S, f[i - 1], i)]
               /\ Inserted(list, S) = f[N]
  BY InsertedIs
<1>2. N \in Nat BY LenProperties
<1>3. \A i \in 0..N : f[i] = IF i = 0 THEN list ELSE InsertAt(list, S, f[i - 1], i) BY <1>1
<1> DEFINE A == {k \in 0..N : Stage(f[k], list, S, k)}
<1>4. 0 \in A
  <2>0. 0 + 1 = 1 /\ 1 \in Int OBVIOUS
  <2>1. Before(S, 0 + 1) = 0 /\ 0 \in 0..N
    <3>1. Before(S, 1) = 0 BY <1>2, <2>0, BeforeStep
    <3> QED BY <3>1, <2>0, <1>2
  <2>2. \A i \in 1..N : i > 0 /\ ~(i <= 0) /\ i + 0 = i OBVIOUS
  <2>3. \A i \in S : ~(i <= 0) OBVIOUS
  <2>4. f[0] = list BY <2>1, <1>3
  <2> QED BY <1>2, <2>1, <2>2, <2>3, <2>4 DEF Stage
<1>5. ASSUME NEW k \in 1..N, k - 1 \in A PROVE k \in A
  <2>1. k - 1 \in 0..N /\ k \in 0..N /\ k /= 0 /\ Stage(f[k - 1], list, S, k - 1) BY <1>5
  <2>2. Stage(InsertAt(list, S, f[k - 1], k), list, S, k) BY <2>1, StageStep DEF InsertAt
  <2> QED BY <2>1, <2>2, <1>3
<1> HIDE DEF A
<1>6. N \in A
  <2>1. 0..N \subseteq A BY <1>2, <1>4, <1>5, UpTo
  <2> QED BY <2>1, <1>2
<1> QED BY <1>1, <1>6 DEF Spread, A

(* Every token of the result is one of the list's or a comma.                   *)
HasPlace(list, S, q) ==
  (\E i \in 1..Len(list) : q = Place(S, i)) \/ (\E i \in S : q = Place(S, i) + 1)

LEMMA Places ==
  ASSUME NEW list \in Seq(Tok), NEW S, S \subseteq 1..Len(list), NEW s, Spread(s, list, S),
         NEW q \in 1..Len(s)
  PROVE  HasPlace(list, S, q)
<1> DEFINE N == Len(list)
           Hit(p) == \/ \E i \in 1..N : p = Place(S, i)
                     \/ \E i \in S : p = Place(S, i) + 1
           A == {k \in 0..N : \A p \in 1..k + Before(S, k + 1) : Hit(p)}
<1>1. N \in Nat BY LenProperties
<1>2. ASSUME NEW i \in Nat
      PROVE  Before(S, i) \in Nat /\ Before(S, i + 1) = Before(S, i) + IF i \in S THEN 1 ELSE 0
  <2>1. i \in Int OBVIOUS
  <2> QED BY <1>1, <2>1, BeforeStep
<1>3. 0 \in A
  <2>0. 0 + 1 = 1 /\ 1 \in Int OBVIOUS
  <2>1. Before(S, 0 + 1) = 0 /\ 0 \in 0..N
    <3>1. Before(S, 1) = 0 BY <1>1, <2>0, BeforeStep
    <3> QED BY <3>1, <2>0, <1>1
  <2>2. 1..0 + Before(S, 0 + 1) = {} BY <2>1
  <2> HIDE DEF Hit
  <2> QED BY <2>1, <2>2
<1>4. ASSUME NEW k \in 1..N, k - 1 \in A PROVE k \in A
  <2>1. k - 1 + 1 = k /\ k \in Nat /\ k \in 0..N OBVIOUS
  <2>2. \A p \in 1..k - 1 + Before(S, k) : Hit(p) BY <2>1, <1>4
  <2>3. /\ Before(S, k) \in Nat /\ Place(S, k) = k + Before(S, k)
        /\ Before(S, k + 1) = Before(S, k) + IF k \in S THEN 1 ELSE 0
    BY <2>1, <1>2 DEF Place
  <2>4. Hit(Place(S, k)) OBVIOUS
  <2>5. k \in S => Hit(Place(S, k) + 1) OBVIOUS
  <2> HIDE DEF Hit
  <2>6. ASSUME NEW p \in 1..k + Before(S, k + 1) PROVE Hit(p)
    <3>1. CASE p \in 1..k - 1 + Before(S, k) BY <3>1, <2>2
    <3>2. CASE p = k + Before(S, k) BY <3>2, <2>3, <2>4
    <3>3. CASE ~(p <= k + Before(S, k))
      <4>1. k \in S /\ p = k + Before(S, k) + 1 BY <3>3, <2>1, <2>3
      <4> QED BY <4>1, <2>3, <2>5
    <3>4. p <= k + Before(S, k) => p \in 1..k - 1 + Before(S, k) \/ p = k + Before(S, k)
      BY <2>1, <2>3
    <3> QED BY <3>1, <3>2, <3>3, <3>4
  <2> QED BY <2>1, <2>6
<1>5. N \in A
  <2> HIDE DEF A
  <2>1. 0..N \subseteq A BY <1>1, <1>3, <1>4, UpTo
  <2> QED BY <2>1, <1>1
<1>6. Len(s) = N + Before(S, N + 1) BY DEF Spread, Stage
<1> QED BY <1>5, <1>6 DEF HasPlace

------------------------------------------------------------------------------
(* The positions in a text. *)

LEMMA SkipIs ==
  ASSUME text \in Seq(Units), NEW set, NEW p \in Nat, p >= 1
  PROVE  /\ Skip(p, set) \in 1..Len(text) + 1
         /\ p <= Len(text) + 1 => Skip(p, set) >= p
         /\ p <= Len(text) /\ Char(p) \in set => Skip(p, set) >= p + 1
         /\ \A o \in p..Skip(p, set) - 1 : Char(o) \in set
         /\ Skip(p, set) <= Len(text) => Char(Skip(p, set)) \notin set
<1> DEFINE L == Len(text)
           In(q) == q <= L /\ Char(q) \in set
           c == CHOOSE beyond : beyond = [q \in p..Len(text) + 1 |->
                                            IF q <= Len(text) /\ Char(q) \in set THEN beyond[q + 1] ELSE q]
           Least(q, r) == r \in q..L + 1 /\ ~In(r) /\ \A o \in q..r - 1 : In(o)
           g == [q \in p..L + 1 |-> CHOOSE r \in q..L + 1 : Least(q, r)]
<1>1. L \in Nat /\ DOMAIN text = 1..L BY LenProperties
<1>2. Skip(p, set) = IF p <= L THEN c[p] ELSE L + 1 BY DEF Skip, has_next
<1>3. ~In(L + 1) BY <1>1
<1>4. ASSUME NEW q \in p..L + 1 PROVE \E r \in q..L + 1 : Least(q, r)
  <2> DEFINE A == {r \in q..L + 1 : ~In(r)}
  <2> HIDE DEF In
  <2>1. A \subseteq Nat /\ L + 1 \in A BY <1>1, <1>3
  <2>2. PICK r \in A : \A o \in A : r <= o
    <3> HIDE DEF A
    <3> QED BY <2>1, SmallestIndex
  <2>3. \A o \in q..r - 1 : o \in q..L + 1 /\ ~(r <= o) BY <1>1, <2>2
  <2>4. Least(q, r) BY <2>2, <2>3
  <2> QED BY <2>2, <2>4
<1>5. \A q \in p..L + 1 : Least(q, g[q]) /\ g[q] \in q..L + 1
  <2> SUFFICES ASSUME NEW q \in p..L + 1 PROVE Least(q, g[q]) /\ g[q] \in q..L + 1 OBVIOUS
  <2>1. \E r \in q..L + 1 : Least(q, r) BY <1>4
  <2>2. g[q] = CHOOSE r \in q..L + 1 : Least(q, r) OBVIOUS
  <2> HIDE DEF g, Least
  <2> QED BY <2>1, <2>2
<1>6. \A q \in p..L + 1 : g[q] = IF In(q) THEN g[q + 1] ELSE q
  <2> SUFFICES ASSUME NEW q \in p..L + 1 PROVE g[q] = IF In(q) THEN g[q + 1] ELSE q OBVIOUS
  <2>1. Least(q, g[q]) BY <1>5
  <2> HIDE DEF g
  <2>2. CASE ~In(q)
    <3> HIDE DEF In
    <3>1. ~(g[q] > q)
      <4> SUFFICES ASSUME g[q] > q PROVE FALSE OBVIOUS
      <4>1. q \in q..g[q] - 1 BY <1>1, <2>1
      <4> QED BY <4>1, <2>1, <2>2
    <3> QED BY <3>1, <2>1, <2>2, <1>1
  <2>3. CASE In(q)
    <3>1. q /= L + 1 BY <2>3, <1>3
    <3> HIDE DEF In
    <3>2. q + 1 \in p..L + 1 BY <3>1, <1>1
    <3>3. Least(q + 1, g[q + 1]) BY <3>2, <1>5
    <3>4. g[q] /= q BY <2>1, <2>3
    <3> DEFINE a == g[q]
               b == g[q + 1]
    <3>5. a \in q + 1..L + 1 /\ b \in q + 1..L + 1 BY <2>1, <3>3, <3>4, <1>1
    <3>6. ~(a < b)
      <4> SUFFICES ASSUME a < b PROVE FALSE OBVIOUS
      <4>1. a \in q + 1..b - 1 BY <3>5, <1>1
      <4> QED BY <4>1, <3>3, <2>1
    <3>7. ~(b < a)
      <4> SUFFICES ASSUME b < a PROVE FALSE OBVIOUS
      <4>1. b \in q..a - 1 BY <3>5, <1>1
      <4> QED BY <4>1, <3>3, <2>1
    <3> QED BY <3>5, <3>6, <3>7, <2>3, <1>1
  <2> QED BY <2>2, <2>3
<1>7. g = [q \in p..L + 1 |-> IF In(q) THEN g[q + 1] ELSE q]
  <2>1. g = [q \in p..L + 1 |-> g[q]] OBVIOUS
  <2> HIDE DEF In, g
  <2> QED BY <1>6, <2>1
<1>8. c = [q \in p..L + 1 |-> IF In(q) THEN c[q + 1] ELSE q]
  <2> HIDE DEF g
  <2> QED BY <1>7
<1>9. \A q \in p..L + 1 : c[q] = IF In(q) THEN c[q + 1] ELSE q
  <2> HIDE DEF c, In
  <2> QED BY <1>8
<1> HIDE DEF c, g, In
<1>10. CASE p <= L + 1
  <2> DEFINE M == L + 1 - p
             A == {k \in 0..M : Least(L + 1 - k, c[L + 1 - k])}
  <2>1. M \in Nat BY <1>1, <1>10
  <2>2. 0 \in A
    <3>1. L + 1 \in p..L + 1 /\ L + 1 - 0 = L + 1 BY <1>1, <1>10
    <3>2. c[L + 1] = L + 1 BY <3>1, <1>3, <1>9
    <3> QED BY <3>1, <3>2, <2>1, <1>1, <1>3
  <2>3. ASSUME NEW k \in 1..M, k - 1 \in A PROVE k \in A
    <3> DEFINE q == L + 1 - k
    <3>1. q \in p..L + 1 /\ L + 1 - (k - 1) = q + 1 /\ k \in 0..M
      BY <2>1, <1>1, <1>10
    <3>2. Least(q + 1, c[q + 1]) BY <2>3, <3>1
    <3>3. c[q] = IF In(q) THEN c[q + 1] ELSE q BY <3>1, <1>9
    <3> HIDE DEF q
    <3>4. Least(q, c[q])
      <4>1. CASE In(q)
        <5>1. c[q] = c[q + 1] BY <4>1, <3>3
        <5> DEFINE r == c[q + 1]
        <5>2. r \in q + 1..L + 1 /\ ~In(r) /\ \A o \in q + 1..r - 1 : In(o) BY <3>2
        <5> HIDE DEF r
        <5>3. \A o \in q..r - 1 : o = q \/ o \in q + 1..r - 1 BY <5>2, <3>1, <1>1
        <5>4. Least(q, r) BY <5>2, <5>3, <4>1, <3>1, <1>1
        <5> QED BY <5>1, <5>4 DEF r
      <4>2. CASE ~In(q)
        <5>1. c[q] = q BY <4>2, <3>3
        <5>2. Least(q, q) BY <4>2, <3>1, <1>1
        <5> QED BY <5>1, <5>2
      <4> QED BY <4>1, <4>2
    <3> QED BY <3>1, <3>4 DEF q
  <2> HIDE DEF A, M
  <2>4. 0..M \subseteq A BY <2>1, <2>2, <2>3, UpTo
  <2>5. Least(p, c[p])
    <3>1. M \in 0..M /\ L + 1 - M = p BY <2>1, <1>1 DEF M
    <3> QED BY <3>1, <2>4 DEF A
  <2> DEFINE r == c[p]
  <2>6. r \in p..L + 1 /\ ~In(r) /\ \A o \in p..r - 1 : In(o) BY <2>5
  <2>7. Skip(p, set) = r BY <1>1, <1>2, <2>6, <1>10
  <2> HIDE DEF r
  <2>8. p <= L /\ Char(p) \in set => r /= p BY <2>6 DEF In
  <2>9. r <= L => Char(r) \notin set BY <2>6 DEF In
  <2>10. \A o \in p..r - 1 : Char(o) \in set BY <2>6 DEF In
  <2> QED BY <2>6, <2>7, <2>8, <2>9, <2>10, <1>1, <1>10
<1>11. CASE ~(p <= L + 1) BY <1>1, <1>2, <1>11
<1> QED BY <1>10, <1>11

LEMMA LiteralEndIs ==
  ASSUME text \in Seq(Units), NEW terminator, terminator /= "null",
         NEW from \in Nat, from >= 1, from <= Len(text) + 1
  PROVE  /\ literal_end(from, terminator) \in from..Len(text) + 1
         /\ literal_end(from, terminator) <= Len(text) => Char(literal_end(from, terminator)) = terminator
<1> DEFINE L == Len(text)
           two(p) == Char(p) = terminator /\ Char(p + 1) = terminator
           StopsAt(f) == f = [p \in from..L + 1 |->
                             IF two(p) THEN f[p + 2]
                             ELSE IF Char(p) /= terminator /\ p <= L THEN f[p + 1] ELSE p]
           c == CHOOSE stop : stop = [p \in from..Len(text) + 1 |->
                  CASE Char(p) = terminator /\ Char(p + 1) = terminator -> stop[p + 2]
                    [] Char(p) = terminator /\ Char(p + 1) /= terminator -> p
                    [] Char(p) /= terminator /\ has_next(p) -> stop[p + 1]
                    [] OTHER -> p]
           N == L + 1 - from
           V == [{0, 1} -> Int]
           pair(a, b) == [k \in {0, 1} |-> IF k = 0 THEN a ELSE b]
           first == pair(L + 1, 0)
           D == [i \in 1..N |-> [x \in V |->
                  pair(IF two(L + 1 - i) THEN x[1]
                       ELSE IF Char(L + 1 - i) /= terminator THEN x[0] ELSE L + 1 - i, x[0])]]
<1>1. L \in Nat /\ N \in Nat /\ DOMAIN text = 1..L BY LenProperties
<1>2. literal_end(from, terminator) = c[from] BY DEF literal_end
<1>3. \A p \in Nat : p >= L + 1 => Char(p) = "null" BY <1>1 DEF Char
<1>4. \A a, b \in Int : pair(a, b) \in V /\ pair(a, b)[0] = a /\ pair(a, b)[1] = b OBVIOUS
<1>5. \A x \in V : x[0] \in Int /\ x[1] \in Int OBVIOUS
<1>6. PICK f : f \in [0..N -> V] /\ Recursive(f, N, first, D)
  <2>1. first \in V BY <1>1, <1>4
  <2>2. D \in [1..N -> [V -> V]]
    <3> SUFFICES ASSUME NEW i \in 1..N, NEW x \in V
                 PROVE  pair(IF two(L + 1 - i) THEN x[1]
                             ELSE IF Char(L + 1 - i) /= terminator THEN x[0] ELSE L + 1 - i, x[0]) \in V
      OBVIOUS
    <3> HIDE DEF V, pair
    <3>1. L + 1 - i \in Int BY <1>1
    <3> QED BY <3>1, <1>4, <1>5
  <2> HIDE DEF N, V, D, first
  <2> QED BY <1>1, <2>1, <2>2, RecursiveFunction
<1>7. f[0][0] = L + 1
  <2>1. f[0] = first BY <1>6 DEF Recursive
  <2> QED BY <2>1, <1>1, <1>4
<1>8. ASSUME NEW i \in 1..N
      PROVE  /\ f[i][0] = IF two(L + 1 - i) THEN f[i - 1][1]
                          ELSE IF Char(L + 1 - i) /= terminator THEN f[i - 1][0] ELSE L + 1 - i
             /\ f[i][1] = f[i - 1][0]
  <2>1. f[i - 1] \in V
    <3>1. i - 1 \in 0..N BY <1>1
    <3> QED BY <3>1, <1>6
  <2>2. f[i] = D[i][f[i - 1]] BY <1>6 DEF Recursive
  <2> DEFINE x == f[i - 1]
             a == IF two(L + 1 - i) THEN x[1]
                  ELSE IF Char(L + 1 - i) /= terminator THEN x[0] ELSE L + 1 - i
  <2>3. D[i][x] = pair(a, x[0]) BY <2>1
  <2>4. a \in Int /\ x[0] \in Int
    <3>1. L + 1 - i \in Int BY <1>1
    <3> HIDE DEF V
    <3> QED BY <2>1, <3>1, <1>5
  <2> HIDE DEF pair, D, V
  <2>5. f[i] = pair(a, x[0]) BY <2>2, <2>3
  <2>6. f[i][0] = a /\ f[i][1] = x[0]
    <3> HIDE DEF a, x
    <3> QED BY <2>4, <2>5, <1>4
  <2> QED BY <2>6
<1> HIDE DEF D, V, pair, first
<1> DEFINE g == [q \in from..L + 1 |-> f[L + 1 - q][0]]
<1>9. StopsAt(g)
  <2> SUFFICES ASSUME NEW p \in from..L + 1
               PROVE  g[p] = IF two(p) THEN g[p + 2]
                             ELSE IF Char(p) /= terminator /\ p <= L THEN g[p + 1] ELSE p
    OBVIOUS
  <2>1. CASE p = L + 1
    <3>1. ~two(p) /\ ~(p <= L) BY <2>1, <1>1, <1>3
    <3>2. g[p] = L + 1 BY <2>1, <1>1, <1>7
    <3> HIDE DEF g, two
    <3> QED BY <3>1, <3>2, <2>1
  <2>2. CASE p /= L + 1
    <3> DEFINE i == L + 1 - p
    <3>1. i \in 1..N /\ L + 1 - i = p /\ p <= L /\ p \in Nat BY <2>2, <1>1
    <3>2. g[p] = f[i][0] BY <1>1
    <3>3. p + 1 \in from..L + 1 /\ L + 1 - (p + 1) = i - 1 BY <3>1, <1>1
    <3>4. g[p + 1] = f[i - 1][0] BY <3>3
    <3>5. ASSUME two(p) PROVE g[p + 2] = f[i - 1][1]
      <4>1. ~(p + 1 >= L + 1) BY <3>1, <3>5, <1>1, <1>3
      <4>2. p + 2 \in from..L + 1 /\ L + 1 - (p + 2) = i - 2 /\ i - 1 \in 1..N /\ i - 1 - 1 = i - 2
        BY <3>1, <4>1, <1>1
      <4>3. g[p + 2] = f[i - 2][0] BY <4>2
      <4> HIDE DEF i, g
      <4> QED BY <4>2, <4>3, <1>8
    <3> HIDE DEF i, g
    <3>6. f[i][0] = IF two(p) THEN f[i - 1][1] ELSE IF Char(p) /= terminator THEN f[i - 1][0] ELSE p
      BY <3>1, <1>8
    <3> QED BY <3>1, <3>2, <3>4, <3>5, <3>6
  <2> QED BY <2>1, <2>2
<1>10. \A h : StopsAt(h) <=>
         h = [p \in from..Len(text) + 1 |->
                CASE Char(p) = terminator /\ Char(p + 1) = terminator -> h[p + 2]
                  [] Char(p) = terminator /\ Char(p + 1) /= terminator -> p
                  [] Char(p) /= terminator /\ has_next(p) -> h[p + 1]
                  [] OTHER -> p]
  BY DEF has_next
<1>11. StopsAt(c)
  <2>1. g = [p \in from..Len(text) + 1 |->
               CASE Char(p) = terminator /\ Char(p + 1) = terminator -> g[p + 2]
                 [] Char(p) = terminator /\ Char(p + 1) /= terminator -> p
                 [] Char(p) /= terminator /\ has_next(p) -> g[p + 1]
                 [] OTHER -> p]
    BY <1>9, <1>10
  <2> HIDE DEF g
  <2>2. c = [p \in from..Len(text) + 1 |->
               CASE Char(p) = terminator /\ Char(p + 1) = terminator -> c[p + 2]
                 [] Char(p) = terminator /\ Char(p + 1) /= terminator -> p
                 [] Char(p) /= terminator /\ has_next(p) -> c[p + 1]
                 [] OTHER -> p]
    BY <2>1
  <2> HIDE DEF c, StopsAt
  <2> QED BY <2>2, <1>10
<1> HIDE DEF g, c
<1>12. \A p \in from..L + 1 :
         c[p] = IF two(p) THEN c[p + 2] ELSE IF Char(p) /= terminator /\ p <= L THEN c[p + 1] ELSE p
  BY <1>11
<1> DEFINE Stops(q) == q <= L => Char(q) = terminator
           A == {k \in 0..N : \A i \in 0..k : c[L + 1 - i] \in L + 1 - i..L + 1 /\ Stops(c[L + 1 - i])}
<1>13. 0 \in A
  <2>1. L + 1 \in from..L + 1 /\ ~two(L + 1) /\ ~(L + 1 <= L) BY <1>1, <1>3
  <2>2. c[L + 1] = L + 1
    <3> HIDE DEF two
    <3> QED BY <2>1, <1>12
  <2>3. \A i \in 0..0 : i = 0 /\ L + 1 - i = L + 1 BY <1>1
  <2>4. Stops(c[L + 1]) BY <2>2, <1>1
  <2> HIDE DEF Stops
  <2> QED BY <2>2, <2>3, <2>4, <1>1
<1>14. ASSUME NEW k \in 1..N, k - 1 \in A PROVE k \in A
  <2> DEFINE p == L + 1 - k
  <2>1. p \in from..L + 1 /\ p <= L /\ p \in Nat /\ k \in 0..N BY <1>1
  <2>2. \A i \in 0..k - 1 : c[L + 1 - i] \in L + 1 - i..L + 1 /\ Stops(c[L + 1 - i]) BY <1>14
  <2> HIDE DEF Stops
  <2>3. c[p + 1] \in p + 1..L + 1 /\ Stops(c[p + 1])
    <3>1. k - 1 \in 0..k - 1 /\ L + 1 - (k - 1) = p + 1 BY <1>1
    <3> HIDE DEF p
    <3> QED BY <3>1, <2>2
  <2>4. ASSUME two(p) PROVE c[p + 2] \in p + 2..L + 1 /\ Stops(c[p + 2])
    <3>1. ~(p + 1 >= L + 1) BY <2>1, <2>4, <1>1, <1>3
    <3>2. k - 2 \in 0..k - 1 /\ L + 1 - (k - 2) = p + 2 BY <3>1, <1>1
    <3> HIDE DEF p
    <3> QED BY <3>2, <2>2
  <2>5. c[p] \in p..L + 1 /\ Stops(c[p])
    <3>0. Char(p) = terminator => Stops(p) BY DEF Stops
    <3> HIDE DEF p, two
    <3>1. CASE two(p)
      <4>1. c[p] = c[p + 2] BY <3>1, <2>1, <1>12
      <4> QED BY <4>1, <3>1, <2>1, <2>4, <1>1
    <3>2. CASE ~two(p)
      <4>1. c[p] = IF Char(p) /= terminator /\ p <= L THEN c[p + 1] ELSE p BY <3>2, <2>1, <1>12
      <4> QED BY <4>1, <3>0, <2>1, <2>3, <1>1
    <3> QED BY <3>1, <3>2
  <2>6. \A i \in 0..k : i \in 0..k - 1 \/ i = k OBVIOUS
  <2>7. \A i \in 0..k : c[L + 1 - i] \in L + 1 - i..L + 1 /\ Stops(c[L + 1 - i])
    <3> SUFFICES ASSUME NEW i \in 0..k PROVE c[L + 1 - i] \in L + 1 - i..L + 1 /\ Stops(c[L + 1 - i]) OBVIOUS
    <3> QED BY <2>2, <2>5, <2>6
  <2> QED BY <2>1, <2>7
<1> HIDE DEF A
<1>15. N \in A
  <2>1. 0..N \subseteq A BY <1>1, <1>13, <1>14, UpTo
  <2> QED BY <2>1, <1>1
<1>16. c[L + 1 - N] \in L + 1 - N..L + 1 /\ Stops(c[L + 1 - N])
  <2>1. N \in 0..N BY <1>1
  <2> QED BY <2>1, <1>15 DEF A
<1>17. L + 1 - N = from BY <1>1
<1>18. c[from] \in from..L + 1 /\ Stops(c[from]) BY <1>16, <1>17
<1> QED BY <1>2, <1>18

------------------------------------------------------------------------------
(* What a word is taken for. *)

Opened == is_end_terminated \cup typing_end_terminated
AnyKeyword == matlab_keywords \cup typing_keywords
CodeType(c) == IF c = "end" /\ (\E g \in {"(", "{"} : depth[g] > 0) THEN "op_end" ELSE c

IsWord(w, type, block, k) == w.error = "" /\ w.type = type /\ w.block = block /\ w.keywords = k

WordSays(w, c, line, block) ==
  LET within == line \/ block > 0
      counted == register_keyword(keywords, CodeType(c))
  IN  \/ IsWord(w, "identifier", block, keywords)
      \/ ~within /\ c \in matlab_keywords \cup classdef_keywords /\ ~counted.extraneous
           /\ IsWord(w, CodeType(c), block, counted)
      \/ (~within \/ line) /\ w.error /= "" /\ w.keywords = keywords /\ w.block \in {block, block - 1}
      \/ within /\ c = "end" /\ block > 0 /\ IsWord(w, "end_type", block - 1, keywords)
      \/ within /\ c = "function" /\ IsWord(w, "function_type", block, keywords)
      \/ within /\ ~line /\ c \in Opened \ {"end", "function"} /\ IsWord(w, c, block + 1, keywords)
      \/ within /\ c \in AnyKeyword \ (Opened \cup {"end", "function"}) /\ IsWord(w, c, block, keywords)

LEMMA WordIs ==
  ASSUME text \in Seq(Units), NEW p \in DOMAIN text, text[p] \in Letters,
         NEW line \in BOOLEAN, NEW block \in Int
  PROVE  /\ Word(p, line, block).upto \in p + 1..Len(text) + 1
         /\ Word(p, line, block).upto = Skip(p, Letters \cup Digits)
         /\ WordSays(Word(p, line, block), text[p], line, block)
<1> DEFINE q == Skip(p, Letters \cup Digits)
           lexeme == IF q = p + 1 THEN text[p] ELSE "x"
           within == line \/ block > 0
           is_keyword == /\ p = 1 \/ text[p - 1] /= "."
                         /\ \/ lexeme \in matlab_keywords
                            \/ within /\ lexeme \in typing_keywords
                            \/ ~within /\ parent_is_classdef(keywords) /\ lexeme \in classdef_keywords
           opens == lexeme \in (is_end_terminated \cup typing_end_terminated) \ {"function"}
           in_group == \E g \in {"(", "{"} : depth[g] > 0
           result == [type |-> lexeme, upto |-> q, block |-> block, keywords |-> keywords, error |-> ""]
           code_type == IF lexeme = "end" /\ in_group THEN "op_end" ELSE lexeme
           counted == register_keyword(keywords, code_type)
           w == Word(p, line, block)
           c == text[p]
           identifier == [result EXCEPT !.type = "identifier"]
           extraneous == [result EXCEPT !.error = "extraneous end"]
           code == [result EXCEPT !.type = code_type, !.keywords = counted]
           unbalanced_end == [result EXCEPT !.block = @ - 1, !.error = "unbalanced annotation end"]
           end_type == [result EXCEPT !.block = @ - 1, !.type = "end_type"]
           function_type == [result EXCEPT !.type = "function_type"]
           refused == [result EXCEPT !.error = "end-terminated annotation"]
           block_type == [result EXCEPT !.block = @ + 1]
           in_code == IF counted.extraneous THEN extraneous ELSE code
           in_annotation ==
             CASE lexeme = "end" /\ block <= 0 -> unbalanced_end
               [] lexeme = "end" /\ block > 0 -> end_type
               [] lexeme = "function" -> function_type
               [] opens /\ line -> refused
               [] opens /\ ~line -> block_type
               [] OTHER -> result
<1>1. w = IF ~is_keyword THEN identifier ELSE IF within THEN in_annotation ELSE in_code
  BY DEF Word, WordAs
<1>2. q \in p + 1..Len(text) + 1
  <2>1. Len(text) \in Nat /\ DOMAIN text = 1..Len(text) BY LenProperties
  <2>2. p \in Nat /\ p >= 1 /\ p <= Len(text) /\ Char(p) \in Letters \cup Digits BY <2>1 DEF Char
  <2>3. /\ Skip(p, Letters \cup Digits) \in 1..Len(text) + 1
        /\ Skip(p, Letters \cup Digits) >= p + 1
    BY <2>2, SkipIs
  <2> QED BY <2>1, <2>2, <2>3
<1>3. is_keyword => lexeme = c /\ c \in AnyKeyword \cup classdef_keywords
  <2>1. is_keyword => lexeme \in AnyKeyword \cup classdef_keywords BY DEF AnyKeyword
  <2>2. "x" \notin AnyKeyword \cup classdef_keywords
    BY DEF AnyKeyword, matlab_keywords, typing_keywords, classdef_keywords
  <2> HIDE DEF is_keyword, q
  <2> QED BY <2>1, <2>2
<1>4. is_keyword /\ ~within => c \in matlab_keywords \cup classdef_keywords BY <1>3
<1>5. is_keyword /\ within => c \in AnyKeyword BY <1>3 DEF AnyKeyword
<1>6. lexeme = c => code_type = CodeType(c) BY DEF CodeType
<1>7. /\ IsWord(identifier, "identifier", block, keywords) /\ IsWord(code, code_type, block, counted)
      /\ extraneous.error /= "" /\ extraneous.keywords = keywords /\ extraneous.block = block
      /\ refused.error /= "" /\ refused.keywords = keywords /\ refused.block = block
      /\ unbalanced_end.error /= "" /\ unbalanced_end.keywords = keywords
      /\ unbalanced_end.block = block - 1
      /\ IsWord(end_type, "end_type", block - 1, keywords)
      /\ IsWord(function_type, "function_type", block, keywords)
      /\ IsWord(block_type, lexeme, block + 1, keywords) /\ IsWord(result, lexeme, block, keywords)
  <2> HIDE DEF code_type, counted, lexeme, q
  <2> QED BY DEF IsWord
<1>12. /\ identifier.upto = q /\ extraneous.upto = q /\ code.upto = q /\ unbalanced_end.upto = q
       /\ end_type.upto = q /\ function_type.upto = q /\ refused.upto = q /\ block_type.upto = q
       /\ result.upto = q
  <2> HIDE DEF code_type, counted, lexeme, q
  <2> QED OBVIOUS
<1> HIDE DEF q, lexeme, is_keyword, in_group, code_type, w, c, result, identifier, extraneous, code,
             unbalanced_end, end_type, function_type, refused, block_type, opens, within,
             in_annotation, in_code
<1>8. w.upto = q
  <2> HIDE DEF counted
  <2>1. in_code.upto = q BY <1>12 DEF in_code
  <2>2. in_annotation.upto = q BY <1>12 DEF in_annotation
  <2> QED BY <1>1, <1>12, <2>1, <2>2
<1>13. SUFFICES WordSays(w, c, line, block) BY <1>2, <1>8 DEF w, c, q
<1>9. CASE ~is_keyword
  <2> HIDE DEF counted
  <2>1. w = identifier BY <1>1, <1>9
  <2>2. IsWord(w, "identifier", block, keywords) BY <2>1, <1>7
  <2> QED BY <1>2, <1>8, <2>2 DEF WordSays, w, c
<1>10. CASE is_keyword /\ ~within
  <2>1. counted = register_keyword(keywords, CodeType(c)) /\ code_type = CodeType(c)
    BY <1>3, <1>6, <1>10
  <2> HIDE DEF counted
  <2>2. CASE counted.extraneous
    <3>1. w = extraneous BY <1>1, <1>10, <2>2 DEF in_code
    <3>2. w.error /= "" /\ w.keywords = keywords /\ w.block = block BY <3>1, <1>7
    <3>3. ~within BY <1>10
    <3> QED BY <1>2, <1>8, <3>2, <3>3 DEF WordSays, w, c, within
  <2>3. CASE ~counted.extraneous
    <3>1. w = code BY <1>1, <1>10, <2>3 DEF in_code
    <3>2. IsWord(w, CodeType(c), block, counted) BY <3>1, <2>1, <1>7
    <3>3. ~within /\ c \in matlab_keywords \cup classdef_keywords BY <1>4, <1>10
    <3> QED BY <1>2, <1>8, <2>1, <2>3, <3>2, <3>3 DEF WordSays, w, c, within
  <2> QED BY <2>2, <2>3
<1>11. CASE is_keyword /\ within
  <2> HIDE DEF counted
  <2>1. lexeme = c /\ c \in AnyKeyword BY <1>3, <1>5, <1>11
  <2>2. \/ lexeme = "end" /\ block <= 0 /\ w = unbalanced_end
        \/ lexeme = "end" /\ ~(block <= 0) /\ w = end_type
        \/ lexeme = "function" /\ w = function_type
        \/ opens /\ line /\ w = refused
        \/ opens /\ ~line /\ w = block_type
        \/ lexeme \notin {"end", "function"} /\ ~opens /\ w = result
    BY <1>1, <1>11 DEF in_annotation
  <2>3. (opens <=> c \in Opened \ {"function"}) /\ "end" \notin Opened
    BY <2>1 DEF Opened, opens, is_end_terminated, typing_end_terminated, classdef_keywords
  <2>0. within <=> line \/ block > 0 BY DEF within
  <2>4. CASE lexeme = "end" /\ block <= 0 /\ w = unbalanced_end
    <3>1. w.error /= "" /\ w.keywords = keywords /\ w.block = block - 1 BY <2>4, <1>7
    <3>2. line BY <1>11, <2>4, <2>0
    <3> QED BY <1>2, <1>8, <3>1, <3>2 DEF WordSays, w, c, within
  <2>5. CASE lexeme = "end" /\ ~(block <= 0) /\ w = end_type
    <3>1. IsWord(w, "end_type", block - 1, keywords) /\ block > 0
      <4>1. block > 0 BY <2>5
      <4> QED BY <4>1, <2>5, <1>7
    <3> QED BY <1>2, <1>8, <1>11, <2>1, <2>5, <3>1 DEF WordSays, w, c, within
  <2>6. CASE lexeme = "function" /\ w = function_type
    <3>1. IsWord(w, "function_type", block, keywords) BY <2>6, <1>7
    <3> QED BY <1>2, <1>8, <1>11, <2>1, <2>6, <3>1 DEF WordSays, w, c, within
  <2>7. CASE opens /\ line /\ w = refused
    <3>1. w.error /= "" /\ w.keywords = keywords /\ w.block = block BY <2>7, <1>7
    <3> QED BY <1>2, <1>8, <2>7, <3>1 DEF WordSays, w, c, within
  <2>8. CASE opens /\ ~line /\ w = block_type
    <3>1. IsWord(w, c, block + 1, keywords) BY <2>1, <2>8, <1>7
    <3>2. c \in Opened \ {"end", "function"} BY <2>1, <2>3, <2>8
    <3> QED BY <1>2, <1>8, <1>11, <2>8, <3>1, <3>2 DEF WordSays, w, c, within
  <2>9. CASE lexeme \notin {"end", "function"} /\ ~opens /\ w = result
    <3>1. IsWord(w, c, block, keywords) BY <2>1, <2>9, <1>7
    <3>2. c \in AnyKeyword \ (Opened \cup {"end", "function"}) BY <2>1, <2>3, <2>9
    <3> QED BY <1>2, <1>8, <1>11, <3>1, <3>2 DEF WordSays, w, c, within
  <2> QED BY <2>2, <2>4, <2>5, <2>6, <2>7, <2>8, <2>9
<1> QED BY <1>9, <1>10, <1>11

------------------------------------------------------------------------------
(* What the steps of the scanner do, one kind of step at a time.               *)

Keywords == [types : Seq(is_end_terminated), seen : SUBSET is_end_terminated, extraneous : {FALSE}]

Shape ==
  /\ text \in Seq(Units) /\ tokens \in Seq(Tok)
  /\ pos \in 1..Len(text) + 1
  /\ line_annotation \in BOOLEAN /\ unbalanced \in BOOLEAN
  /\ comment_depth \in Nat /\ annotation_depth \in Int
  /\ depth \in [Opening -> Int]
  /\ keywords \in Keywords
  /\ status \in {"scanning", "scanned", "failed"}

Adds(type, p, q) ==
  /\ tokens' = Append(tokens, Token(type, p, q)) /\ errors' = errors
  /\ type \in TokenTypes /\ p \in Nat /\ q \in Nat /\ pos <= p /\ p <= q /\ q <= pos'

Quiet == UNCHANGED <<tokens, errors, line_annotation, annotation_depth, depth, keywords>>

Fails ==
  /\ errors' /= {} /\ UNCHANGED <<tokens, line_annotation, keywords>>
  /\ annotation_depth' \in {annotation_depth, annotation_depth - 1}
  /\ depth' \in [Opening -> Int]

AddsSymbol ==
  /\ \E type \in Symbols \cup {s[3] : s \in DoubledSymbols} :
       Adds(type, pos, pos') /\ pos < pos' /\ depth' = Grouped(type)
  /\ UNCHANGED <<line_annotation, annotation_depth, keywords>>

AddsLiteral ==
  /\ \E type \in {"number", "string", "char"}, p \in Nat, q \in Nat : Adds(type, p, q)
  /\ UNCHANGED <<line_annotation, annotation_depth, depth, keywords>>

AddsNewLine ==
  /\ Adds(IF line_annotation THEN "end_type" ELSE "newline", pos, pos')
  /\ Char(pos) = "newline" /\ line_annotation' = FALSE
  /\ UNCHANGED <<annotation_depth, depth, keywords>>

AddsWord ==
  /\ \E w \in {Word(pos, line_annotation, annotation_depth)} :
       /\ pos \in DOMAIN text /\ WordSays(w, text[pos], line_annotation, annotation_depth)
       /\ w.error = "" /\ Adds(w.type, pos, w.upto)
       /\ annotation_depth' = w.block /\ keywords' = w.keywords
  /\ UNCHANGED <<line_annotation, depth>>

(* An annotation, and with it the word of its first line.                       *)
AddsAnnotation ==
  /\ ~is_within_type_annotation /\ UNCHANGED <<errors, depth>>
  /\ \E p \in Nat : \E macro \in {Append(tokens, Token("@T", p, p + 2))} :
       /\ pos <= p /\ p + 2 <= pos'
       /\ \/ /\ line_annotation' = TRUE /\ tokens' = macro
             /\ UNCHANGED <<annotation_depth, keywords>>
          \/ \E q \in p + 2..pos' : \E w \in {Word(q, FALSE, annotation_depth + 1)} :
               /\ q \in DOMAIN text /\ WordSays(w, text[q], FALSE, annotation_depth + 1)
               /\ w.upto = pos'
               /\ line_annotation' = (w.error = "" /\ w.type /= "begin")
               /\ annotation_depth' = w.block - 1 /\ keywords' = w.keywords
               /\ tokens' = IF w.error = "" THEN Append(macro, Token(w.type, q, w.upto)) ELSE macro

Steps ==
  /\ pos' \in pos..Len(text) + 1 /\ comment_depth' \in Nat /\ unbalanced' \in BOOLEAN
  /\ Quiet \/ Fails \/ AddsSymbol \/ AddsLiteral \/ AddsNewLine \/ AddsWord \/ AddsAnnotation

LEMMA CharIs ==
  ASSUME text \in Seq(Units)
  PROVE  /\ Len(text) \in Nat /\ DOMAIN text = 1..Len(text)
         /\ \A p : Char(p) /= "null" => p \in 1..Len(text) /\ Char(p) = text[p]
BY LenProperties DEF Char

LEMMA WordTyped ==
  ASSUME NEW w, NEW c, NEW line \in BOOLEAN, NEW block \in Int, WordSays(w, c, line, block),
         keywords \in Keywords
  PROVE  /\ w.block \in block - 1..block + 1 /\ w.keywords \in Keywords
         /\ w.error = "" => w.type \in TokenTypes
<1>1. \A type : register_keyword(keywords, type).extraneous \/ register_keyword(keywords, type) \in Keywords
  <2> SUFFICES ASSUME NEW type, ~register_keyword(keywords, type).extraneous
               PROVE  register_keyword(keywords, type) \in Keywords
    OBVIOUS
  <2>1. /\ keywords.types \in Seq(is_end_terminated) /\ keywords.seen \in SUBSET is_end_terminated
        /\ keywords.extraneous = FALSE
        /\ keywords = [types |-> keywords.types, seen |-> keywords.seen, extraneous |-> keywords.extraneous]
    BY DEF Keywords
  <2>2. CASE type = "end"
    <3>1. register_keyword(keywords, type) = pop_keyword(keywords)
      BY <2>2 DEF register_keyword, is_end_terminated, classdef_keywords
    <3>2. CASE keywords.types = <<>>
      <4>1. pop_keyword(keywords).extraneous = TRUE BY <2>1, <3>2 DEF pop_keyword
      <4> QED BY <3>1, <4>1
    <3>3. CASE keywords.types /= <<>>
      <4> DEFINE top == SubSeq(keywords.types, 1, Len(keywords.types) - 1)
      <4>1. pop_keyword(keywords) = [keywords EXCEPT !.types = top] BY <3>3 DEF pop_keyword
      <4>2. top \in Seq(is_end_terminated)
        <5>1. Len(keywords.types) \in Nat BY <2>1, LenProperties
        <5>2. \A i \in 1..Len(keywords.types) - 1 : keywords.types[i] \in is_end_terminated
          <6>1. \A i \in 1..Len(keywords.types) : keywords.types[i] \in is_end_terminated
            BY <2>1, ElementOfSeq
          <6> QED BY <5>1, <6>1
        <5> QED BY <5>1, <5>2, SubSeqProperties
      <4> HIDE DEF top
      <4> QED BY <3>1, <4>1, <4>2, <2>1 DEF Keywords
    <3> QED BY <3>2, <3>3
  <2>3. CASE type /= "end" /\ type \in is_end_terminated
    <3>1. register_keyword(keywords, type) =
            [keywords EXCEPT !.types = Append(@, type), !.seen = @ \cup {type}]
      BY <2>3 DEF register_keyword
    <3>2. Append(keywords.types, type) \in Seq(is_end_terminated) BY <2>1, <2>3, AppendProperties
    <3>3. keywords.seen \cup {type} \in SUBSET is_end_terminated BY <2>1, <2>3
    <3> QED BY <3>1, <3>2, <3>3, <2>1 DEF Keywords
  <2>4. CASE type /= "end" /\ type \notin is_end_terminated BY <2>4 DEF register_keyword
  <2> QED BY <2>2, <2>3, <2>4
<1>2. /\ matlab_keywords \subseteq TokenTypes /\ classdef_keywords \subseteq TokenTypes
      /\ typing_keywords \subseteq TokenTypes /\ {"identifier", "op_end", "end_type", "function_type"} \subseteq TokenTypes
  BY DEF TokenTypes
<1>3. Opened \subseteq TokenTypes
  <2>1. Opened \subseteq matlab_keywords \cup classdef_keywords \cup typing_keywords
    BY DEF Opened, is_end_terminated, typing_end_terminated, matlab_keywords, classdef_keywords, typing_keywords
  <2> QED BY <2>1, <1>2
<1>4. "end" \in TokenTypes BY DEF TokenTypes, matlab_keywords
<1>0. /\ block \in block - 1..block + 1 /\ block - 1 \in block - 1..block + 1
      /\ block + 1 \in block - 1..block + 1
  OBVIOUS
<1> DEFINE range == block - 1..block + 1
<1> HIDE DEF range
<1>12. SUFFICES w.block \in range /\ w.keywords \in Keywords /\ (w.error = "" => w.type \in TokenTypes)
  BY DEF range
<1>13. block \in range /\ block - 1 \in range /\ block + 1 \in range BY <1>0 DEF range
<1> USE DEF IsWord
<1>5. CASE IsWord(w, "identifier", block, keywords) BY <1>5, <1>2, <1>13
<1>6. CASE /\ c \in matlab_keywords \cup classdef_keywords
           /\ ~register_keyword(keywords, CodeType(c)).extraneous
           /\ IsWord(w, CodeType(c), block, register_keyword(keywords, CodeType(c)))
  <2>1. CodeType(c) \in TokenTypes BY <1>6, <1>2 DEF CodeType
  <2>2. register_keyword(keywords, CodeType(c)) \in Keywords BY <1>1, <1>6
  <2> QED BY <2>1, <2>2, <1>6, <1>13
<1>7. CASE w.error /= "" /\ w.keywords = keywords /\ w.block \in {block, block - 1} BY <1>7, <1>13
<1>8. CASE IsWord(w, "end_type", block - 1, keywords) BY <1>8, <1>2, <1>13
<1>9. CASE IsWord(w, "function_type", block, keywords) BY <1>9, <1>2, <1>13
<1>10. CASE c \in Opened \ {"end", "function"} /\ IsWord(w, c, block + 1, keywords) BY <1>10, <1>3, <1>13
<1>11. CASE c \in AnyKeyword \ (Opened \cup {"end", "function"}) /\ IsWord(w, c, block, keywords)
  BY <1>11, <1>2, <1>13 DEF AnyKeyword
<1> QED BY <1>5, <1>6, <1>7, <1>8, <1>9, <1>10, <1>11 DEF WordSays

LEMMA Refused ==
  ASSUME NEW w, NEW c, NEW line \in BOOLEAN, NEW block, WordSays(w, c, line, block), w.error /= ""
  PROVE  w.keywords = keywords /\ w.block \in {block, block - 1} /\ (line \/ ~(block > 0))
BY DEF WordSays, IsWord

LEMMA ScanSteps ==
  ASSUME Shape, Scan
  PROVE  Steps
<1> DEFINE L == Len(text)
<1>1. /\ L \in Nat /\ DOMAIN text = 1..L /\ pos \in 1..L /\ pos \in Nat
      /\ \A p : Char(p) /= "null" => p \in 1..L /\ Char(p) = text[p]
  BY CharIs DEF Shape, Scan, has_next
<1>2. /\ text \in Seq(Units) /\ tokens \in Seq(Tok) /\ line_annotation \in BOOLEAN
      /\ unbalanced \in BOOLEAN /\ comment_depth \in Nat /\ annotation_depth \in Int
      /\ depth \in [Opening -> Int] /\ keywords \in Keywords
  BY DEF Shape
<1>3. /\ "null" \notin Letters \cup Digits /\ "null" \notin Blank \cup {"newline"}
      /\ "null" \notin Blank /\ "null" \notin Digits
  BY TextsAssumption DEF NoLetters, Digits, Blank
<1> HIDE DEF L
<1>13. ASSUME NEW p \in 1..L PROVE p \in Nat /\ p >= 1 /\ p <= L /\ p + 1 \in 1..L + 1 /\ p \in 1..L + 1
  BY <1>1
<1>4. ASSUME NEW set, NEW p \in 1..L + 1 PROVE Skip(p, set) \in p..L + 1
  <2>1. p \in Nat /\ p >= 1 /\ p <= L + 1 BY <1>1
  <2>2. Skip(p, set) \in 1..L + 1 /\ Skip(p, set) >= p BY <1>2, <2>1, SkipIs DEF L
  <2> QED BY <1>1, <2>1, <2>2
<1>5. CASE Comment
  <2> DEFINE brace == Char(pos + 1)
             blank == consume_whitespace_to_new_line(IF brace \in {"{", "}"} THEN pos + 2 ELSE pos + 1)
             starts == brace = "{" /\ AtLineEnd(blank) /\ has_next(blank)
             ends == brace = "}" /\ comment_depth > 0 /\ AtLineEnd(blank)
             q == IF starts \/ ends THEN consume_whitespace(blank) ELSE blank
  <2>1. /\ comment_depth' = IF starts THEN comment_depth + 1 ELSE IF ends THEN comment_depth - 1 ELSE comment_depth
        /\ \/ /\ ends /\ annotation_depth > 0
              /\ Fail("annotation beyond its comment block", q)
              /\ UNCHANGED <<tokens, line_annotation, annotation_depth, keywords>>
           \/ /\ ~ends /\ is_annotation(q) /\ is_within_type_annotation
              /\ Fail("nested annotation", q)
              /\ UNCHANGED <<tokens, line_annotation, annotation_depth, keywords>>
           \/ /\ ~ends /\ is_annotation(q) /\ ~is_within_type_annotation
              /\ Annotation(q, starts)
              /\ UNCHANGED errors
           \/ /\ IF ends THEN annotation_depth <= 0 ELSE ~is_annotation(q)
              /\ pos' = IF starts \/ ends THEN q ELSE consume_to_new_line(q)
              /\ UNCHANGED <<tokens, errors, line_annotation, annotation_depth, keywords>>
        /\ UNCHANGED <<depth, unbalanced>>
    BY <1>5 DEF Comment, CommentAs
  <2>2. blank \in pos + 1..L + 1
    <3> DEFINE p == IF brace \in {"{", "}"} THEN pos + 2 ELSE pos + 1
    <3>0. Char(pos + 1) /= "null" => pos + 1 \in 1..L BY <1>1
    <3>1. p \in pos + 1..L + 1
      <4>1. brace \in {"{", "}"} => pos + 1 \in 1..L BY <3>0
      <4>2. CASE brace \in {"{", "}"}
        <5>1. p = pos + 2 BY <4>2
        <5>2. pos + 1 \in 1..L BY <4>1, <4>2
        <5>3. pos + 2 \in pos + 1..L + 1 BY <5>2, <1>1
        <5> QED BY <5>1, <5>3
      <4>3. CASE brace \notin {"{", "}"}
        <5>1. p = pos + 1 BY <4>3
        <5> HIDE DEF p
        <5> QED BY <5>1, <1>1
      <4> QED BY <4>2, <4>3
    <3>3. blank = Skip(p, Blank) BY DEF consume_whitespace_to_new_line
    <3> HIDE DEF p, blank
    <3>4. p \in 1..L + 1 BY <3>1, <1>1
    <3>5. Skip(p, Blank) \in p..L + 1 BY <3>4, <1>3, <1>4
    <3> QED BY <3>1, <3>3, <3>4, <3>5, <1>1
  <2> HIDE DEF blank
  <2>3. q \in pos + 1..L + 1
    <3>1. consume_whitespace(blank) = Skip(blank, Blank \cup {"newline"}) BY DEF consume_whitespace
    <3>2. blank \in 1..L + 1 BY <2>2, <1>1
    <3>3. Skip(blank, Blank \cup {"newline"}) \in blank..L + 1 BY <3>2, <1>3, <1>4
    <3>4. Skip(blank, Blank \cup {"newline"}) \in pos + 1..L + 1 BY <3>2, <3>3, <2>2, <1>1
    <3> HIDE DEF starts, ends
    <3> QED BY <3>1, <3>4, <2>2
  <2> HIDE DEF q, starts, ends, brace
  <2>4. comment_depth' \in Nat /\ unbalanced' \in BOOLEAN
    <3>1. ends => comment_depth > 0 BY DEF ends
    <3>2. comment_depth' = IF starts THEN comment_depth + 1 ELSE IF ends THEN comment_depth - 1 ELSE comment_depth
      BY <2>1
    <3>3. unbalanced' = unbalanced BY <2>1
    <3> QED BY <3>1, <3>2, <3>3, <1>2
  <2>5. CASE Annotation(q, starts) /\ is_annotation(q) /\ ~is_within_type_annotation /\ UNCHANGED errors
    <3> DEFINE p == IF starts THEN consume_whitespace_to_new_line(q + 2) ELSE q + 2
               word == Word(p, FALSE, annotation_depth + 1)
               macro == Append(tokens, Token("@T", q, q + 2))
    <3>1. q \in Nat /\ q >= pos /\ q + 2 <= L
      <4>1. Char(q + 2) /= "null" BY <2>5, <1>3 DEF is_annotation
      <4> QED BY <4>1, <2>3, <1>1
    <3>2. p \in q + 2..L + 1
      <4>1. Skip(q + 2, Blank) \in q + 2..L + 1
        <5>1. q + 2 \in 1..L + 1 BY <3>1, <1>1
        <5> QED BY <5>1, <1>3, <1>4
      <4> QED BY <4>1, <3>1, <1>1 DEF consume_whitespace_to_new_line
    <3>3. \/ /\ starts /\ Char(p) \in Letters
             /\ pos' = word.upto
             /\ annotation_depth' = word.block - 1
             /\ keywords' = word.keywords
             /\ line_annotation' = (word.error = "" /\ word.type /= "begin")
             /\ tokens' = IF word.error = "" THEN Append(macro, Token(word.type, p, word.upto)) ELSE macro
          \/ /\ pos' = p /\ line_annotation' = TRUE /\ tokens' = macro
             /\ UNCHANGED <<annotation_depth, keywords>>
      BY <2>5 DEF Annotation
    <3> HIDE DEF p
    <3>4. CASE /\ pos' = p /\ line_annotation' = TRUE /\ tokens' = macro
               /\ UNCHANGED <<annotation_depth, keywords>>
      <4>1. pos' \in pos..L + 1 /\ q + 2 <= pos' BY <3>1, <3>2, <3>4, <1>1
      <4>2. AddsAnnotation BY <2>1, <2>5, <3>1, <3>4, <4>1 DEF AddsAnnotation
      <4> QED BY <4>1, <4>2, <2>4 DEF Steps, L
    <3>5. CASE /\ Char(p) \in Letters
               /\ pos' = word.upto
               /\ annotation_depth' = word.block - 1
               /\ keywords' = word.keywords
               /\ line_annotation' = (word.error = "" /\ word.type /= "begin")
               /\ tokens' = IF word.error = "" THEN Append(macro, Token(word.type, p, word.upto)) ELSE macro
      <4>1. p \in DOMAIN text /\ text[p] \in Letters
        <5>1. Char(p) /= "null" BY <3>5, <1>3
        <5> QED BY <5>1, <3>5, <1>1
      <4>2. annotation_depth + 1 \in Int BY <1>2
      <4>3. word.upto \in p + 1..L + 1 /\ WordSays(word, text[p], FALSE, annotation_depth + 1)
        BY <4>1, <4>2, <1>2, WordIs DEF L
      <4>4. pos' \in pos..L + 1 /\ q + 2 <= pos' /\ p \in q + 2..pos'
        <5>1. pos' \in p + 1..L + 1 BY <4>3, <3>5
        <5> QED BY <5>1, <3>1, <3>2, <1>1
      <4>5. AddsAnnotation
        <5> HIDE DEF word
        <5>1. \E w \in {word} :
               /\ p \in DOMAIN text /\ WordSays(w, text[p], FALSE, annotation_depth + 1)
               /\ w.upto = pos'
               /\ line_annotation' = (w.error = "" /\ w.type /= "begin")
               /\ annotation_depth' = w.block - 1 /\ keywords' = w.keywords
               /\ tokens' = IF w.error = "" THEN Append(macro, Token(w.type, p, w.upto)) ELSE macro
          BY <3>5, <4>1, <4>3
        <5>2. q \in Nat /\ pos <= q /\ q + 2 <= pos' BY <3>1, <4>4, <1>1
        <5> HIDE DEF macro
        <5>3. \E m \in {macro} : m = macro OBVIOUS
        <5> QED BY <5>1, <5>2, <4>4, <2>1, <2>5 DEF AddsAnnotation, word, macro
      <4> QED BY <4>4, <4>5, <2>4 DEF Steps, L
    <3> QED BY <3>3, <3>4, <3>5
  <2>6. CASE /\ pos' = IF starts \/ ends THEN q ELSE consume_to_new_line(q)
             /\ UNCHANGED <<tokens, errors, line_annotation, annotation_depth, keywords>>
    <3>1. consume_to_new_line(q) \in q..L + 1
      <4>1. q \in 1..L + 1 BY <2>3, <1>1
      <4> QED BY <4>1, <1>3, <1>4 DEF consume_to_new_line
    <3>2. pos' \in pos..L + 1 BY <3>1, <2>3, <2>6, <1>1
    <3>3. Quiet BY <2>1, <2>6 DEF Quiet
    <3> QED BY <3>2, <3>3, <2>4 DEF Steps, L
  <2>7. CASE /\ \E message \in {"annotation beyond its comment block", "nested annotation"} : Fail(message, q)
             /\ UNCHANGED <<tokens, line_annotation, annotation_depth, keywords>>
    <3>0. pos' = q BY <2>7 DEF Fail
    <3>1. pos' \in pos..L + 1 BY <3>0, <2>3, <1>1
    <3>2. Fails BY <2>1, <2>7, <1>2 DEF Fails, Fail
    <3> QED BY <3>1, <3>2, <2>4 DEF Steps, L
  <2> QED BY <2>1, <2>5, <2>6, <2>7
<1>6. CASE InsideComment \/ Nothing
  <2>1. pos' = pos + 1 /\ comment_depth' = comment_depth /\ unbalanced' = unbalanced /\ Quiet
    BY <1>6 DEF InsideComment, Nothing, Quiet
  <2> QED BY <2>1, <1>1, <1>2 DEF Steps, L
<1>7. CASE Ellipsis
  <2> DEFINE q == consume_to_new_line(pos + 3)
  <2>1. pos + 2 <= L BY <1>1, <1>7 DEF Ellipsis
  <2>2. q \in pos + 3..L + 1
    <3>1. pos + 3 \in 1..L + 1 BY <2>1, <1>1
    <3> QED BY <3>1, <1>3, <1>4 DEF consume_to_new_line
  <2>3. pos' = IF Char(q) = "newline" THEN q + 1 ELSE q BY <1>7 DEF Ellipsis
  <2> HIDE DEF q
  <2>4. Char(q) = "newline" => q <= L BY <1>1
  <2>5. pos' \in pos..L + 1 BY <2>2, <2>3, <2>4, <1>1
  <2>6. comment_depth' = comment_depth /\ unbalanced' = unbalanced /\ Quiet BY <1>7 DEF Ellipsis, Quiet
  <2> QED BY <2>5, <2>6, <1>2 DEF Steps, L
<1>8. CASE IdentifierOrKeyword
  <2> DEFINE w == Word(pos, line_annotation, annotation_depth)
  <2>1. pos \in DOMAIN text /\ text[pos] \in Letters
    <3>1. Char(pos) \in Letters BY <1>8 DEF IdentifierOrKeyword
    <3>2. Char(pos) /= "null" BY <3>1, <1>3
    <3> QED BY <3>1, <3>2, <1>1
  <2>2. w.upto \in pos + 1..L + 1 /\ WordSays(w, text[pos], line_annotation, annotation_depth)
    BY <2>1, <1>2, WordIs DEF L
  <2>3. /\ annotation_depth' = w.block /\ keywords' = w.keywords
        /\ \/ w.error = "" /\ Emit(w.type, pos, w.upto) /\ UNCHANGED errors
           \/ w.error /= "" /\ Fail(w.error, w.upto) /\ UNCHANGED tokens
        /\ UNCHANGED <<line_annotation, comment_depth, depth, unbalanced>>
    BY <1>8 DEF IdentifierOrKeyword
  <2> HIDE DEF w
  <2>4. pos' = w.upto BY <2>3 DEF Emit, Fail
  <2>5. pos' \in pos..L + 1 BY <2>2, <2>4, <1>1
  <2>6. CASE w.error = "" /\ Emit(w.type, pos, w.upto) /\ UNCHANGED errors
    <3>1. w.type \in TokenTypes BY <2>2, <2>6, <1>2, WordTyped
    <3>2. w.upto \in Nat /\ pos <= w.upto /\ pos <= pos /\ w.upto <= pos' BY <2>2, <2>4, <1>1
    <3>3. Adds(w.type, pos, w.upto) BY <3>1, <3>2, <2>6, <1>1 DEF Adds, Emit
    <3>4. AddsWord BY <3>3, <2>1, <2>2, <2>3, <2>6 DEF AddsWord, w
    <3> QED BY <3>4, <2>3, <2>5, <1>2 DEF Steps, L
  <2>7. CASE w.error /= "" /\ Fail(w.error, w.upto) /\ UNCHANGED tokens
    <3>1. w.keywords = keywords /\ w.block \in {annotation_depth, annotation_depth - 1}
      BY <2>2, <2>7, <1>2, Refused
    <3>2. Fails BY <3>1, <2>3, <2>7, <1>2 DEF Fails, Fail
    <3> QED BY <3>2, <2>3, <2>5, <1>2 DEF Steps, L
  <2> QED BY <2>3, <2>6, <2>7
<1>9. CASE NumberLiteral
  <2> DEFINE q == Skip(pos, Digits)
             dotted == IF Char(q) = "." THEN Skip(q + 1, Digits) ELSE q
             signed == IF Char(dotted + 1) \in {"+", "-"} THEN 2 ELSE 1
             exponent == IF Char(dotted) = "e"
                         THEN Skip(IF dotted + signed > L THEN L + 1 ELSE dotted + signed, Digits)
                         ELSE dotted
             n == number_literal_end(pos)
  <2>1. n = IF Char(exponent) = "i" THEN exponent + 1 ELSE exponent BY DEF number_literal_end, L
  <2>2. \A p \in 1..L + 1 : Skip(p, Digits) \in p..L + 1
    <3> SUFFICES ASSUME NEW p \in 1..L + 1 PROVE Skip(p, Digits) \in p..L + 1 OBVIOUS
    <3> QED BY <1>3, <1>4
  <2>3. q \in pos..L + 1 BY <2>2, <1>1
  <2>4. dotted \in pos..L + 1
    <3>1. Char(q) = "." => q + 1 \in 1..L + 1 BY <2>3, <1>1
    <3> HIDE DEF q
    <3> QED BY <3>1, <2>2, <2>3, <1>1
  <2>5. signed \in {1, 2} OBVIOUS
  <2> HIDE DEF dotted, signed
  <2>6. exponent \in pos..L + 1
    <3> DEFINE e == IF dotted + signed > L THEN L + 1 ELSE dotted + signed
    <3>1. e \in pos..L + 1 BY <2>4, <2>5, <1>1
    <3> HIDE DEF e
    <3>2. Skip(e, Digits) \in pos..L + 1
      <4>1. e \in 1..L + 1 BY <3>1, <1>1
      <4> QED BY <4>1, <3>1, <2>2, <1>1
    <3> QED BY <3>2, <2>4 DEF e
  <2> HIDE DEF exponent
  <2>7. n \in pos..L + 1
    <3>1. Char(exponent) = "i" => exponent <= L BY <1>1
    <3> HIDE DEF n
    <3> QED BY <3>1, <2>1, <2>6, <1>1
  <2>8. "number" \in TokenTypes BY DEF TokenTypes
  <2>9. Emit("number", pos, n) /\ UNCHANGED <<errors, line_annotation, comment_depth, annotation_depth, depth, unbalanced, keywords>>
    BY <1>9 DEF NumberLiteral
  <2> HIDE DEF n
  <2>10. Adds("number", pos, n) BY <2>7, <2>8, <2>9, <1>1 DEF Emit, Adds
  <2>11. n \in Nat BY <2>7, <1>1
  <2>12. AddsLiteral BY <2>9, <2>10, <2>11, <1>1 DEF AddsLiteral
  <2> QED BY <2>7, <2>9, <2>12, <1>2 DEF Steps, Emit, L
<1>10. CASE StringLiteral \/ CharLiteral
  <2>1. PICK type \in {"string", "char"} : Literal(type) BY <1>10 DEF StringLiteral, CharLiteral
  <2> DEFINE stop == literal_end(pos + 1, text[pos])
  <2>2. text[pos] /= "null"
    <3>1. Char(pos) /= "null" BY <1>10 DEF StringLiteral, CharLiteral
    <3> QED BY <3>1, <1>1
  <2>3. stop \in pos + 1..L + 1
    <3>1. pos + 1 \in Nat /\ pos + 1 >= 1 /\ pos + 1 <= L + 1 BY <1>1
    <3> QED BY <3>1, <2>2, <1>2, LiteralEndIs DEF L
  <2>4. /\ \/ /\ has_next(stop)
              /\ tokens' = Append(tokens, Token(type, pos + 1, stop))
              /\ pos' = stop + 1
              /\ UNCHANGED errors
           \/ ~has_next(stop) /\ Fail("unterminated literal", stop) /\ UNCHANGED tokens
        /\ UNCHANGED <<line_annotation, comment_depth, annotation_depth, depth, unbalanced, keywords>>
    BY <2>1 DEF Literal
  <2> HIDE DEF stop
  <2>5. CASE /\ has_next(stop)
             /\ tokens' = Append(tokens, Token(type, pos + 1, stop))
             /\ pos' = stop + 1
             /\ UNCHANGED errors
    <3>1. stop <= L BY <2>5 DEF has_next, L
    <3>2. pos' \in pos..L + 1 /\ stop \in Nat /\ pos + 1 \in Nat /\ pos <= pos + 1 /\ pos + 1 <= stop /\ stop <= pos'
      BY <3>1, <2>3, <2>5, <1>1
    <3>3. type \in TokenTypes /\ type \in {"number", "string", "char"} BY DEF TokenTypes
    <3>4. Adds(type, pos + 1, stop) BY <3>2, <3>3, <2>5 DEF Adds
    <3>5. AddsLiteral BY <3>2, <3>3, <3>4, <2>4 DEF AddsLiteral
    <3> QED BY <3>2, <3>5, <2>4, <1>2 DEF Steps, L
  <2>6. CASE Fail("unterminated literal", stop) /\ UNCHANGED tokens
    <3>0. pos' = stop BY <2>6 DEF Fail
    <3>1. pos' \in pos..L + 1 BY <3>0, <2>3, <1>1
    <3>2. Fails BY <2>4, <2>6, <1>2 DEF Fails, Fail
    <3> QED BY <3>1, <3>2, <2>4, <1>2 DEF Steps, L
  <2> QED BY <2>4, <2>5, <2>6
<1>11. CASE NewLine
  <2> DEFINE type == IF line_annotation THEN "end_type" ELSE "newline"
  <2>1. /\ Char(pos) = "newline" /\ Emit(type, pos, pos + 1) /\ line_annotation' = FALSE
        /\ UNCHANGED <<errors, comment_depth, annotation_depth, depth, unbalanced, keywords>>
    BY <1>11 DEF NewLine
  <2>2. type \in TokenTypes BY DEF TokenTypes
  <2> HIDE DEF type
  <2>3. pos' = pos + 1 /\ tokens' = Append(tokens, Token(type, pos, pos + 1)) BY <2>1 DEF Emit
  <2>4. Adds(type, pos, pos') BY <2>1, <2>2, <2>3, <1>1 DEF Adds
  <2>5. AddsNewLine BY <2>1, <2>4 DEF AddsNewLine, type
  <2> QED BY <2>1, <2>3, <2>5, <1>1, <1>2 DEF Steps, L
<1>12. CASE Symbol
  <2> DEFINE c == Char(pos)
             two == Doubled(pos) /= {}
             q == IF two THEN pos + 2 ELSE pos + 1
             grouped == Grouped(c)
             type == IF two THEN (CHOOSE s \in Doubled(pos) : TRUE)[3] ELSE c
  <2>1. /\ c \in Symbols /\ depth' = grouped
        /\ \/ Fail("unbalanced grouping", q) /\ UNCHANGED tokens /\ unbalanced' = TRUE
           \/ Emit(type, pos, q) /\ UNCHANGED <<errors, unbalanced>>
        /\ UNCHANGED <<line_annotation, annotation_depth, keywords, comment_depth>>
    BY <1>12 DEF Symbol
  <2>2. ASSUME two
        PROVE  /\ type \in {s[3] : s \in DoubledSymbols} /\ Grouped(type) = depth /\ grouped = depth
               /\ pos + 1 <= L
    <3> DEFINE s == CHOOSE s \in Doubled(pos) : TRUE
    <3>1. s \in Doubled(pos) BY <2>2
    <3>2. type = s[3] BY <2>2
    <3>3. s \in DoubledSymbols /\ s[1] = c /\ s[2] = Char(pos + 1)
      <4> HIDE DEF s
      <4> QED BY <3>1 DEF Doubled
    <3> HIDE DEF s, type
    <3>4. /\ \A t \in DoubledSymbols : t[1] \notin Opening \cup {")", "]", "}"}
          /\ \A t \in DoubledSymbols : t[3] \notin Opening \cup {")", "]", "}"}
          /\ \A t \in DoubledSymbols : t[2] /= "null"
      BY DEF DoubledSymbols, Opening
    <3>5. DOMAIN Closing = {")", "]", "}"} BY DEF Closing
    <3>6. Grouped(type) = depth /\ grouped = depth BY <3>2, <3>3, <3>4, <3>5 DEF Grouped
    <3>8. Char(pos + 1) /= "null" BY <3>3, <3>4
    <3>7. pos + 1 <= L
      <4>1. pos + 1 \in 1..L BY <3>8, <1>1
      <4> QED BY <4>1, <1>1
    <3> QED BY <3>2, <3>3, <3>6, <3>7
  <2>3. ~two => type = c OBVIOUS
  <2>4. grouped \in [Opening -> Int]
    <3>1. DOMAIN Closing = {")", "]", "}"} /\ \A d \in DOMAIN Closing : Closing[d] \in Opening
      BY DEF Closing, Opening
    <3>2. c \in Opening => [depth EXCEPT ![c] = @ + 1] \in [Opening -> Int] BY <1>2
    <3>4. \A g \in Opening : [depth EXCEPT ![g] = @ - 1] \in [Opening -> Int] BY <1>2
    <3>3. c \in DOMAIN Closing => [depth EXCEPT ![Closing[c]] = @ - 1] \in [Opening -> Int]
      <4> HIDE DEF c
      <4> QED BY <3>1, <3>4
    <3> HIDE DEF c
    <3> QED BY <3>2, <3>3, <1>2 DEF Grouped
  <2> HIDE DEF c, two, grouped, type
  <2>5. q \in pos + 1..L + 1 BY <2>2, <1>1
  <2> HIDE DEF q
  <2>6. CASE Fail("unbalanced grouping", q) /\ UNCHANGED tokens /\ unbalanced' = TRUE
    <3>0. pos' = q BY <2>6 DEF Fail
    <3>1. pos' \in pos..L + 1 BY <3>0, <2>5, <1>1
    <3>2. Fails BY <2>1, <2>4, <2>6, <1>2 DEF Fails, Fail
    <3> QED BY <3>1, <3>2, <2>1, <2>6, <1>2 DEF Steps, L
  <2>7. CASE Emit(type, pos, q) /\ UNCHANGED <<errors, unbalanced>>
    <3>1. pos' = q /\ pos' \in pos..L + 1 /\ pos < pos' BY <2>5, <2>7, <1>1 DEF Emit
    <3>2. type \in Symbols \cup {s[3] : s \in DoubledSymbols} BY <2>1, <2>2, <2>3
    <3>3. type \in TokenTypes BY <3>2 DEF TokenTypes
    <3>4. depth' = Grouped(type) BY <2>1, <2>2, <2>3 DEF grouped
    <3>5. q \in Nat BY <2>5, <1>1
    <3>6. Adds(type, pos, pos') BY <3>1, <3>3, <3>5, <2>7, <1>1 DEF Adds, Emit
    <3>7. AddsSymbol BY <3>1, <3>2, <3>4, <3>6, <2>1 DEF AddsSymbol
    <3> QED BY <3>1, <3>7, <2>1, <2>7, <1>2 DEF Steps, L
  <2> QED BY <2>1, <2>6, <2>7
<1> QED BY <1>5, <1>6, <1>7, <1>8, <1>9, <1>10, <1>11, <1>12 DEF Scan, Code

------------------------------------------------------------------------------
(* Annotations are open for as long as the scanner's depths say.               *)

Ordered(list, p) ==
  /\ \A i \in 1..Len(list) : list[i].at <= list[i].upto /\ list[i].upto <= p
  /\ \A i \in 1..Len(list) - 1 : list[i].upto <= list[i + 1].at
  /\ \A i \in 1..Len(list) : list[i].type = "," => list[i].at < list[i].upto

LineOpen(line) == IF line THEN 1 ELSE 0

BalancedAt(list, d, line) ==
  /\ d >= 0 /\ Open(list)[Len(list)] = d + LineOpen(line)
  /\ \A i \in 1..Len(list) : Open(list)[i] >= 0 /\ (list[i].type = "@T" => Open(list)[i - 1] = 0)
  /\ \A i \in 1..Len(list) : i = Len(list) /\ list[i].type = "@T" => line

Balanced ==
  errors = {} /\ ~BeginsWithEnd(tokens) => BalancedAt(tokens, annotation_depth, line_annotation)

LEMMA OpenAgrees ==
  ASSUME NEW l \in Seq(Tok), NEW m \in Seq(Tok), NEW k \in Nat, k <= Len(l), k <= Len(m),
         \A i \in 1..k : l[i] = m[i],
         \A i \in 1..k : l[i].type = "@T" => (TypeAt(l, i + 1) = "begin" <=> TypeAt(m, i + 1) = "begin")
  PROVE  \A i \in 0..k : Open(l)[i] = Open(m)[i]
<1> DEFINE A == {i \in 0..k : Open(l)[i] = Open(m)[i]}
<1>1. Len(l) \in Nat /\ Len(m) \in Nat BY LenProperties
<1>2. 0 \in A BY OpenIs
<1>3. ASSUME NEW i \in 1..k, i - 1 \in A PROVE i \in A
  <2>1. i \in 1..Len(l) /\ i \in 1..Len(m) /\ i \in 0..k BY <1>1
  <2>2. /\ Open(l)[i] = OpenBehind(l, i, Open(l)[i - 1])
        /\ Open(m)[i] = OpenBehind(m, i, Open(m)[i - 1])
    BY <2>1, OpenIs
  <2>3. Open(l)[i - 1] = Open(m)[i - 1] BY <1>3
  <2>4. l[i].type = m[i].type OBVIOUS
  <2>5. Opens(l, i) <=> Opens(m, i) BY <2>4 DEF Opens
  <2>6. \A x : OpenBehind(l, i, x) = OpenBehind(m, i, x) BY <2>4, <2>5 DEF OpenBehind
  <2> QED BY <2>1, <2>2, <2>3, <2>6
<1> HIDE DEF A
<1>4. 0..k \subseteq A BY <1>2, <1>3, UpTo
<1> QED BY <1>4 DEF A

NewOpen(type, o) ==
  IF type \in {"@T", "begin"} THEN o + 1
  ELSE IF type = "end_type" THEN o - 1
  ELSE IF type \in Opened /\ o > 0 THEN o + 1 ELSE o

LEMMA BeginIs == "begin" \in Opened /\ "@T" \notin Opened /\ "end_type" \notin Opened /\ "end" \notin Opened
BY DEF Opened, is_end_terminated, typing_end_terminated, classdef_keywords

LEMMA OpenAppended ==
  ASSUME NEW list \in Seq(Tok), NEW t \in Tok,
         \A i \in 1..Len(list) : i = Len(list) /\ list[i].type = "@T" => t.type /= "begin"
  PROVE  /\ \A i \in 0..Len(list) : Open(Append(list, t))[i] = Open(list)[i]
         /\ Open(Append(list, t))[Len(list) + 1] = NewOpen(t.type, Open(list)[Len(list)])
<1> DEFINE n == Len(list)
           m == Append(list, t)
<1>1. /\ m \in Seq(Tok) /\ Len(m) = n + 1 /\ n \in Nat /\ m[n + 1] = t
      /\ \A i \in 1..n : m[i] = list[i]
  BY Appended
<1>2. DOMAIN list = 1..n /\ DOMAIN m = 1..n + 1 BY <1>1, LenProperties
<1> HIDE DEF n, m
<1>3. ASSUME NEW i \in 1..n, list[i].type = "@T"
      PROVE  TypeAt(list, i + 1) = "begin" <=> TypeAt(m, i + 1) = "begin"
  <2>1. CASE i = n
    <3>1. i + 1 \notin DOMAIN list /\ i + 1 \in DOMAIN m /\ m[i + 1] = t BY <2>1, <1>1, <1>2
    <3>2. t.type /= "begin" BY <1>3, <2>1 DEF n
    <3> QED BY <3>1, <3>2 DEF TypeAt
  <2>2. CASE i /= n
    <3>1. i + 1 \in DOMAIN list /\ i + 1 \in DOMAIN m /\ i + 1 \in 1..n BY <2>2, <1>1, <1>2
    <3> QED BY <3>1, <1>1 DEF TypeAt
  <2> QED BY <2>1, <2>2
<1>4. \A i \in 0..n : Open(m)[i] = Open(list)[i]
  <2>1. n <= Len(list) /\ n <= Len(m) BY <1>1 DEF n
  <2> QED BY <1>1, <1>3, <2>1, OpenAgrees
<1>5. Open(m)[n + 1] = OpenBehind(m, n + 1, Open(m)[n])
  <2>1. n + 1 \in 1..Len(m) /\ n + 1 - 1 = n BY <1>1
  <2> QED BY <1>1, <2>1, OpenIs
<1>6. TypeAt(m, n + 1 + 1) = "null"
  <2>1. n + 1 + 1 \notin DOMAIN m BY <1>1, <1>2
  <2> QED BY <2>1 DEF TypeAt
<1>7. Opens(m, n + 1) <=> t.type \in {"@T", "begin"} BY <1>1, <1>6 DEF Opens
<1>8. \A x : OpenBehind(m, n + 1, x) = NewOpen(t.type, x)
  BY <1>1, <1>7, BeginIs DEF OpenBehind, NewOpen, Opened
<1>9. n \in 0..n BY <1>1
<1> QED BY <1>4, <1>5, <1>8, <1>9 DEF n, m

LEMMA BalancedAppended ==
  ASSUME NEW list \in Seq(Tok), NEW t \in Tok, NEW d, NEW line, BalancedAt(list, d, line),
         NEW d2, NEW line2, d2 >= 0,
         NewOpen(t.type, Open(list)[Len(list)]) = d2 + LineOpen(line2), d2 + LineOpen(line2) >= 0,
         t.type = "begin" => ~line,
         t.type = "@T" => Open(list)[Len(list)] = 0 /\ line2
  PROVE  BalancedAt(Append(list, t), d2, line2)
<1> DEFINE n == Len(list)
           m == Append(list, t)
<1>1. /\ m \in Seq(Tok) /\ Len(m) = n + 1 /\ n \in Nat /\ m[n + 1] = t
      /\ \A i \in 1..n : m[i] = list[i]
  BY Appended
<1>2. /\ \A i \in 0..n : Open(m)[i] = Open(list)[i]
      /\ Open(m)[n + 1] = NewOpen(t.type, Open(list)[n])
  BY OpenAppended DEF BalancedAt
<1> HIDE DEF m
<1>3. /\ \A i \in 1..n : Open(list)[i] >= 0 /\ (list[i].type = "@T" => Open(list)[i - 1] = 0)
  BY DEF BalancedAt
<1> HIDE DEF n
<1>4. \A i \in 1..n : i \in 0..n /\ i - 1 \in 0..n BY <1>1
<1>5. \A i \in 1..n : Open(m)[i] >= 0 /\ (m[i].type = "@T" => Open(m)[i - 1] = 0)
  BY <1>1, <1>2, <1>3, <1>4
<1>6. n + 1 - 1 = n /\ n \in 0..n /\ Open(m)[n] = Open(list)[n] BY <1>1, <1>2
<1>7. Open(m)[n + 1] >= 0 /\ (m[n + 1].type = "@T" => Open(m)[n] = 0)
  BY <1>1, <1>2, <1>6 DEF n
<1>8. \A i \in 1..n + 1 : i \in 1..n \/ i = n + 1 BY <1>1
<1>9. ASSUME NEW i \in 1..n + 1
      PROVE  Open(m)[i] >= 0 /\ (m[i].type = "@T" => Open(m)[i - 1] = 0)
  <2>1. CASE i \in 1..n BY <2>1, <1>5
  <2>2. CASE i = n + 1
    <3>1. i - 1 = n BY <2>2, <1>1
    <3>2. Open(m)[i] = Open(m)[n + 1] /\ m[i] = m[n + 1] BY <2>2
    <3>3. Open(m)[i - 1] = Open(m)[n] BY <3>1
    <3> QED BY <3>2, <3>3, <1>7
  <2> QED BY <2>1, <2>2, <1>8
<1>10. \A i \in 1..n + 1 : i = n + 1 /\ m[i].type = "@T" => line2 BY <1>1
<1>11. Open(m)[n + 1] = d2 + LineOpen(line2) BY <1>2 DEF n
<1> QED BY <1>1, <1>9, <1>10, <1>11 DEF BalancedAt, m

LEMMA StillBeginsWithEnd ==
  ASSUME NEW list \in Seq(Tok), NEW t \in Tok, BeginsWithEnd(list)
  PROVE  BeginsWithEnd(Append(list, t))
<1>1. /\ Len(Append(list, t)) = Len(list) + 1 /\ Len(list) \in Nat
      /\ \A i \in 1..Len(list) : Append(list, t)[i] = list[i]
  BY Appended
<1>2. PICK i \in 2..Len(list) : list[i - 1].type = "@T" /\ Char(list[i].at) = "end" BY DEF BeginsWithEnd
<1>3. i \in 2..Len(list) + 1 /\ i - 1 \in 1..Len(list) /\ i \in 1..Len(list) BY <1>1
<1> QED BY <1>1, <1>2, <1>3 DEF BeginsWithEnd

LEMMA BeginsWithEndIs ==
  ASSUME text' = text
  PROVE  (\E i \in 2..Len(tokens) : tokens[i - 1].type = "@T" /\ Char(tokens[i].at) = "end")'
           <=> BeginsWithEnd(tokens')
BY DEF BeginsWithEnd, Char

(* An annotation whose block is begun by its first word.                        *)
LEMMA BalancedBegun ==
  ASSUME NEW list \in Seq(Tok), BalancedAt(list, 0, FALSE),
         NEW macro \in Tok, macro.type = "@T", NEW t \in Tok, t.type = "begin"
  PROVE  BalancedAt(Append(Append(list, macro), t), 1, FALSE)
<1> DEFINE n == Len(list)
           m == Append(list, macro)
           l == Append(m, t)
<1>1. /\ m \in Seq(Tok) /\ Len(m) = n + 1 /\ n \in Nat /\ m[n + 1] = macro
      /\ \A i \in 1..n : m[i] = list[i]
  BY Appended
<1>2. l \in Seq(Tok) /\ Len(l) = Len(m) + 1 /\ l[Len(m) + 1] = t /\ \A i \in 1..Len(m) : l[i] = m[i]
  BY <1>1, Appended
<1>3. /\ \A i \in 1..n : Open(list)[i] >= 0 /\ (list[i].type = "@T" => Open(list)[i - 1] = 0)
      /\ \A i \in 1..n : i = n => list[i].type /= "@T"
      /\ Open(list)[n] = 0
  BY DEF BalancedAt, LineOpen
<1> HIDE DEF m, l
<1>4. Len(l) = n + 2 /\ l[n + 1] = macro /\ l[n + 2] = t /\ \A i \in 1..n : l[i] = list[i]
  <2>1. n + 1 + 1 = n + 2 /\ n + 1 \in 1..n + 1 /\ \A i \in 1..n : i \in 1..n + 1 BY <1>1
  <2> QED BY <2>1, <1>1, <1>2
<1>5. DOMAIN list = 1..n /\ DOMAIN l = 1..n + 2 BY <1>2, <1>4, LenProperties
<1> HIDE DEF n
<1>6. \A i \in 0..n : Open(l)[i] = Open(list)[i]
  <2>1. ASSUME NEW i \in 1..n, list[i].type = "@T"
        PROVE  TypeAt(list, i + 1) = "begin" <=> TypeAt(l, i + 1) = "begin"
    <3>1. i /= n BY <2>1, <1>3
    <3>2. i + 1 \in 1..n /\ i + 1 \in 1..n + 2 BY <3>1, <1>1
    <3> QED BY <3>2, <1>4, <1>5 DEF TypeAt
  <2>2. n <= Len(list) /\ n <= Len(l) BY <1>1, <1>4 DEF n
  <2> QED BY <2>1, <2>2, <1>1, <1>2, <1>4, OpenAgrees
<1>7. Open(l)[n + 1] = 0 /\ Open(l)[n] = 0
  <2>1. n + 1 \in 1..Len(l) /\ n + 1 - 1 = n /\ n \in 0..n BY <1>1, <1>4
  <2>2. Open(l)[n + 1] = OpenBehind(l, n + 1, Open(l)[n]) BY <2>1, <1>2, OpenIs
  <2>3. TypeAt(l, n + 1 + 1) = "begin"
    <3>1. n + 1 + 1 = n + 2 /\ n + 2 \in 1..n + 2 BY <1>1
    <3> QED BY <3>1, <1>4, <1>5 DEF TypeAt
  <2>4. ~Opens(l, n + 1) BY <2>3, <1>4 DEF Opens
  <2>5. \A x : OpenBehind(l, n + 1, x) = x BY <2>4, <1>4, BeginIs DEF OpenBehind, Opened
  <2> QED BY <2>1, <2>2, <2>5, <1>3, <1>6
<1>8. Open(l)[n + 2] = 1
  <2>1. n + 2 \in 1..Len(l) /\ n + 2 - 1 = n + 1 BY <1>1, <1>4
  <2>5. \A i, j : i \in 1..Len(l) /\ i - 1 = j => Open(l)[i] = OpenBehind(l, i, Open(l)[j])
    BY <1>2, OpenIs
  <2>2. Open(l)[n + 2] = OpenBehind(l, n + 2, Open(l)[n + 1])
    <3> DEFINE i == n + 2
               j == n + 1
    <3>1. i \in 1..Len(l) /\ i - 1 = j BY <1>1, <1>4
    <3> HIDE DEF i, j
    <3>2. Open(l)[i] = OpenBehind(l, i, Open(l)[j]) BY <3>1, <2>5
    <3> QED BY <3>2 DEF i, j
  <2>3. Opens(l, n + 2) BY <1>4 DEF Opens
  <2>4. \A x : OpenBehind(l, n + 2, x) = x + 1 BY <2>3, <1>4 DEF OpenBehind
  <2> QED BY <2>2, <2>4, <1>7
<1>9. ASSUME NEW i \in 1..n + 2
      PROVE  Open(l)[i] >= 0 /\ (l[i].type = "@T" => Open(l)[i - 1] = 0)
  <2>1. CASE i \in 1..n
    <3>1. i \in 0..n /\ i - 1 \in 0..n BY <2>1, <1>1
    <3> QED BY <2>1, <3>1, <1>3, <1>4, <1>6
  <2>2. CASE i = n + 1
    <3>1. i - 1 = n BY <2>2, <1>1
    <3>2. Open(l)[i] = Open(l)[n + 1] /\ Open(l)[i - 1] = Open(l)[n] BY <2>2, <3>1
    <3> QED BY <3>2, <1>7
  <2>3. CASE i = n + 2
    <3>1. Open(l)[i] = Open(l)[n + 2] /\ l[i] = l[n + 2] BY <2>3
    <3> QED BY <3>1, <1>4, <1>8
  <2> QED BY <2>1, <2>2, <2>3, <1>1
<1>10. \A i \in 1..n + 2 : i = n + 2 => l[i].type /= "@T" BY <1>4
<1> QED BY <1>4, <1>8, <1>9, <1>10 DEF BalancedAt, LineOpen, m, l

LEMMA SymbolsAre ==
  \A type \in Symbols \cup {s[3] : s \in DoubledSymbols} :
    /\ type \notin Opened \cup {"@T", "begin", "end_type", "end", "op_end"}
    /\ type \notin {"identifier", "number", "string", "char", "newline", "null"}
<1> DEFINE Others == {"@T", "begin", "end_type", "end", "op_end", "identifier", "number", "string", "char",
                      "newline", "null"}
<1>1. Symbols \cap Opened = {}
  BY DEF Opened, is_end_terminated, typing_end_terminated, classdef_keywords, Symbols
<1>2. Symbols \cap Others = {} BY DEF Symbols
<1>3. \A s \in DoubledSymbols : s[3] \notin Opened
  BY DEF Opened, is_end_terminated, typing_end_terminated, classdef_keywords, DoubledSymbols
<1>4. \A s \in DoubledSymbols : s[3] \notin Others BY DEF DoubledSymbols
<1> QED BY <1>1, <1>2, <1>3, <1>4

LEMMA BalancedKept ==
  ASSUME Shape, Balanced, Steps, text' = text
  PROVE  Balanced'
<1> DEFINE n == Len(tokens)
           o == Open(tokens)[Len(tokens)]
<1>1. SUFFICES ASSUME errors' = {}, ~BeginsWithEnd(tokens')
               PROVE  BalancedAt(tokens', annotation_depth', line_annotation')
  BY BeginsWithEndIs DEF Balanced, BeginsWithEnd
<1>2. /\ tokens \in Seq(Tok) /\ line_annotation \in BOOLEAN /\ annotation_depth \in Int
      /\ keywords \in Keywords /\ text \in Seq(Units) /\ pos \in Nat
  <2>1. Len(text) \in Nat BY LenProperties DEF Shape
  <2> QED BY <2>1 DEF Shape
<1>3. ASSUME errors = {}, ~BeginsWithEnd(tokens)
      PROVE  /\ BalancedAt(tokens, annotation_depth, line_annotation)
             /\ annotation_depth \in Nat /\ o = annotation_depth + LineOpen(line_annotation)
             /\ LineOpen(line_annotation) \in {0, 1} /\ o \in Nat
  <2>1. BalancedAt(tokens, annotation_depth, line_annotation) BY <1>3 DEF Balanced
  <2>2. annotation_depth \in Nat /\ o = annotation_depth + LineOpen(line_annotation)
    BY <2>1, <1>2 DEF BalancedAt
  <2>3. LineOpen(line_annotation) \in {0, 1} BY DEF LineOpen
  <2> HIDE DEF o
  <2> QED BY <2>1, <2>2, <2>3
<1>4. ASSUME NEW type, NEW p, NEW q, Adds(type, p, q)
      PROVE  /\ errors = {} /\ ~BeginsWithEnd(tokens) /\ Token(type, p, q) \in Tok
             /\ Token(type, p, q).type = type /\ tokens' = Append(tokens, Token(type, p, q))
  <2>1. errors = {} BY <1>1, <1>4 DEF Adds
  <2>2. Token(type, p, q) \in Tok /\ Token(type, p, q).type = type BY <1>4, TokenMade DEF Adds
  <2>3. tokens' = Append(tokens, Token(type, p, q)) BY <1>4 DEF Adds
  <2>4. ~BeginsWithEnd(tokens) BY <1>1, <1>2, <2>2, <2>3, StillBeginsWithEnd
  <2> QED BY <2>1, <2>2, <2>3, <2>4
<1> HIDE DEF o, n
(* What is neither @T nor begin keeps to the depths or changes both.            *)
<1>5. ASSUME NEW type, NEW p, NEW q, Adds(type, p, q), NEW d2, NEW line2, d2 \in Nat,
             NewOpen(type, o) = d2 + LineOpen(line2), type = "begin" => ~line_annotation, type /= "@T"
      PROVE  BalancedAt(tokens', d2, line2)
  <2>1. /\ Token(type, p, q) \in Tok /\ Token(type, p, q).type = type
        /\ tokens' = Append(tokens, Token(type, p, q))
        /\ BalancedAt(tokens, annotation_depth, line_annotation)
    BY <1>3, <1>4, <1>5
  <2>2. LineOpen(line2) \in {0, 1} BY DEF LineOpen
  <2>3. d2 >= 0 /\ d2 + LineOpen(line2) >= 0 BY <1>5, <2>2
  <2> QED BY <1>2, <1>5, <2>1, <2>3, BalancedAppended DEF o
<1>6. ASSUME NEW type, type \notin Opened \cup {"@T", "end_type"} PROVE NewOpen(type, o) = o
  BY <1>6, BeginIs DEF NewOpen
<1>7. CASE Quiet
  <2>1. BeginsWithEnd(tokens') <=> BeginsWithEnd(tokens) BY <1>7 DEF Quiet
  <2> QED BY <1>1, <1>3, <1>7, <2>1 DEF Quiet
<1>8. CASE Fails BY <1>1, <1>8 DEF Fails
<1>9. CASE AddsSymbol
  <2>1. PICK type \in Symbols \cup {s[3] : s \in DoubledSymbols} : Adds(type, pos, pos')
    BY <1>9 DEF AddsSymbol
  <2>2. type \notin Opened \cup {"@T", "end_type"} BY SymbolsAre
  <2>3. annotation_depth' = annotation_depth /\ line_annotation' = line_annotation BY <1>9 DEF AddsSymbol
  <2>4. type \notin {"@T", "begin"} BY <2>2, BeginIs
  <2> QED BY <2>1, <2>2, <2>3, <2>4, <1>3, <1>4, <1>5, <1>6
<1>10. CASE AddsLiteral
  <2>1. PICK type \in {"number", "string", "char"}, p \in Nat, q \in Nat : Adds(type, p, q)
    BY <1>10 DEF AddsLiteral
  <2>2. type \notin Opened \cup {"@T", "end_type"}
    BY DEF Opened, is_end_terminated, typing_end_terminated, classdef_keywords
  <2>3. annotation_depth' = annotation_depth /\ line_annotation' = line_annotation BY <1>10 DEF AddsLiteral
  <2>4. type \notin {"@T", "begin"} BY <2>2, BeginIs
  <2> QED BY <2>1, <2>2, <2>3, <2>4, <1>3, <1>4, <1>5, <1>6
<1>11. CASE AddsNewLine
  <2> DEFINE type == IF line_annotation THEN "end_type" ELSE "newline"
  <2>1. Adds(type, pos, pos') /\ annotation_depth' = annotation_depth /\ line_annotation' = FALSE
    BY <1>11 DEF AddsNewLine
  <2>2. type \notin {"@T", "begin"} OBVIOUS
  <2>3. NewOpen(type, o) = annotation_depth + LineOpen(FALSE)
    <3>1. annotation_depth \in Nat /\ o = annotation_depth + LineOpen(line_annotation)
      BY <2>1, <1>3, <1>4
    <3>2. CASE line_annotation
      <4>1. o = annotation_depth + 1 /\ type = "end_type" BY <3>1, <3>2 DEF LineOpen
      <4>2. NewOpen(type, o) = o - 1 BY <4>1 DEF NewOpen
      <4> QED BY <4>1, <4>2, <3>1 DEF LineOpen
    <3>3. CASE ~line_annotation
      <4>1. type = "newline" BY <3>3
      <4>2. "newline" \notin Opened \cup {"@T", "end_type"}
        BY DEF Opened, is_end_terminated, typing_end_terminated, classdef_keywords
      <4>3. NewOpen(type, o) = o BY <4>1, <4>2, <1>6
      <4> QED BY <4>3, <3>1, <3>3 DEF LineOpen
    <3> QED BY <3>2, <3>3
  <2> HIDE DEF type
  <2>4. annotation_depth \in Nat BY <2>1, <1>3, <1>4
  <2> QED BY <2>1, <2>2, <2>3, <2>4, <1>5
<1>12. CASE AddsWord
  <2> DEFINE c == text[pos]
             within == line_annotation \/ annotation_depth > 0
  <2>1. PICK w : /\ WordSays(w, c, line_annotation, annotation_depth)
                 /\ w.error = "" /\ Adds(w.type, pos, w.upto)
                 /\ annotation_depth' = w.block /\ keywords' = w.keywords
                 /\ line_annotation' = line_annotation
    BY <1>12 DEF AddsWord
  <2>2. /\ annotation_depth \in Nat /\ o = annotation_depth + LineOpen(line_annotation) /\ o \in Nat
    BY <2>1, <1>3, <1>4
  <2>3. (o > 0 <=> within) BY <2>2, <1>2 DEF LineOpen
  <2> HIDE DEF within
  <2>4. ASSUME NEW type, w.type = type, type \notin Opened \cup {"@T", "end_type"}, w.block = annotation_depth
        PROVE  BalancedAt(tokens', annotation_depth', line_annotation')
    <3>1. type \notin {"@T", "begin"} BY <2>4, BeginIs
    <3> QED BY <2>1, <2>2, <2>4, <3>1, <1>5, <1>6
  <2>5. {"identifier", "function_type", "op_end", "end"} \cap (Opened \cup {"@T", "end_type"}) = {}
    BY DEF Opened, is_end_terminated, typing_end_terminated, classdef_keywords
  <2>6. CASE IsWord(w, "identifier", annotation_depth, keywords) BY <2>4, <2>5, <2>6 DEF IsWord
  <2>7. CASE /\ ~within /\ c \in matlab_keywords \cup classdef_keywords
             /\ w.type = CodeType(c) /\ w.block = annotation_depth
    <3>1. CodeType(c) \in matlab_keywords \cup classdef_keywords \cup {"op_end"} BY <2>7 DEF CodeType
    <3>2. w.type \notin {"@T", "begin", "end_type"}
      BY <3>1, <2>7 DEF matlab_keywords, classdef_keywords
    <3>3. NewOpen(w.type, o) = o BY <3>2, <2>3, <2>7 DEF NewOpen
    <3> QED BY <3>2, <3>3, <2>1, <2>2, <2>7, <1>5
  <2>8. CASE annotation_depth > 0 /\ IsWord(w, "end_type", annotation_depth - 1, keywords)
    <3>1. NewOpen("end_type", o) = o - 1 BY DEF NewOpen
    <3>2. annotation_depth - 1 \in Nat BY <2>2, <2>8
    <3>3. o - 1 = annotation_depth - 1 + LineOpen(line_annotation)
      <4>1. LineOpen(line_annotation) \in {0, 1} BY DEF LineOpen
      <4> QED BY <4>1, <2>2
    <3> QED BY <3>1, <3>2, <3>3, <2>1, <2>8, <1>5 DEF IsWord
  <2>9. CASE IsWord(w, "function_type", annotation_depth, keywords) BY <2>4, <2>5, <2>9 DEF IsWord
  <2>10. CASE /\ within /\ ~line_annotation /\ c \in Opened \ {"end", "function"}
              /\ IsWord(w, c, annotation_depth + 1, keywords)
    <3>1. c \notin {"@T", "end_type"} BY <2>10, BeginIs
    <3>2. NewOpen(c, o) = o + 1 BY <3>1, <2>3, <2>10 DEF NewOpen
    <3>3. o + 1 = annotation_depth + 1 + LineOpen(line_annotation)
      <4>1. LineOpen(line_annotation) \in {0, 1} BY DEF LineOpen
      <4> QED BY <4>1, <2>2
    <3>4. annotation_depth + 1 \in Nat BY <2>2
    <3> HIDE DEF c
    <3> QED BY <3>1, <3>2, <3>3, <3>4, <2>1, <2>10, <1>5 DEF IsWord
  <2>11. CASE c \in AnyKeyword \ (Opened \cup {"end", "function"}) /\ IsWord(w, c, annotation_depth, keywords)
    <3>1. c \notin {"@T", "end_type"} BY <2>11 DEF AnyKeyword, matlab_keywords, typing_keywords
    <3>2. w.type = c /\ c \notin Opened \cup {"@T", "end_type"} /\ w.block = annotation_depth
      BY <2>11, <3>1 DEF IsWord
    <3> HIDE DEF c
    <3> QED BY <3>2, <2>4
  <2>12. w.error = "" => ~(w.error /= "") OBVIOUS
  <2> HIDE DEF c
  <2> QED BY <2>1, <2>6, <2>7, <2>8, <2>9, <2>10, <2>11 DEF WordSays, IsWord, within
<1>13. CASE AddsAnnotation
  <2>1. /\ errors = {} /\ ~line_annotation /\ ~(annotation_depth > 0)
    BY <1>1, <1>13 DEF AddsAnnotation, is_within_type_annotation
  <2>2. PICK p \in Nat :
          LET macro == Append(tokens, Token("@T", p, p + 2))
          IN  \/ line_annotation' = TRUE /\ tokens' = macro /\ annotation_depth' = annotation_depth
              \/ \E q \in p + 2..pos' : \E w :
                   /\ WordSays(w, text[q], FALSE, annotation_depth + 1)
                   /\ q \in DOMAIN text /\ w.upto = pos'
                   /\ line_annotation' = (w.error = "" /\ w.type /= "begin")
                   /\ annotation_depth' = w.block - 1
                   /\ tokens' = IF w.error = "" THEN Append(macro, Token(w.type, q, w.upto)) ELSE macro
    BY <1>13 DEF AddsAnnotation
  <2> DEFINE sign == Token("@T", p, p + 2)
             macro == Append(tokens, sign)
  <2>3. sign \in Tok /\ sign.type = "@T"
    <3>1. "@T" \in TokenTypes /\ p + 2 \in Nat BY DEF TokenTypes
    <3> QED BY <3>1, TokenMade
  <2> HIDE DEF sign
  <2>4. macro \in Seq(Tok) /\ Len(macro) = n + 1 /\ macro[n + 1] = sign /\ n \in Nat
    BY <2>3, <1>2, Appended DEF n
  <2>5. ~BeginsWithEnd(tokens)
    <3>1. BeginsWithEnd(tokens) => BeginsWithEnd(macro) BY <1>2, <2>3, StillBeginsWithEnd
    <3>2. tokens' = macro => ~BeginsWithEnd(macro) BY <1>1
    <3>3. ASSUME NEW t \in Tok, tokens' = Append(macro, t) PROVE ~BeginsWithEnd(macro)
      BY <1>1, <2>4, <3>3, StillBeginsWithEnd
    <3>4. ASSUME NEW q \in p + 2..pos', NEW w, WordSays(w, text[q], FALSE, annotation_depth + 1), w.upto = pos',
                 w.error = "", tokens' = Append(macro, Token(w.type, q, w.upto))
          PROVE  ~BeginsWithEnd(macro)
      <4>1. annotation_depth + 1 \in Int /\ FALSE \in BOOLEAN BY <1>2
      <4>2. w.type \in TokenTypes BY <4>1, <3>4, <1>2, WordTyped
      <4>3. q \in Nat /\ w.upto \in Nat
        <5>1. pos' \in Nat
          <6>1. Len(text) \in Nat BY <1>2, LenProperties
          <6> QED BY <6>1, <1>2 DEF Steps
        <5>2. q \in Nat BY <5>1
        <5> QED BY <5>1, <5>2, <3>4
      <4>4. Token(w.type, q, w.upto) \in Tok BY <4>2, <4>3, TokenMade
      <4> QED BY <3>3, <3>4, <4>4
    <3> QED BY <2>2, <3>1, <3>2, <3>4 DEF sign
  <2>6. /\ BalancedAt(tokens, annotation_depth, line_annotation) /\ annotation_depth = 0 /\ o = 0
    BY <2>1, <2>5, <1>3 DEF LineOpen
  <2>7. BalancedAt(macro, 0, TRUE) /\ Open(macro)[Len(macro)] = 1
    <3>1. NewOpen(sign.type, o) = 0 + LineOpen(TRUE) /\ 0 + LineOpen(TRUE) >= 0 /\ 0 >= 0
      BY <2>3, <2>6 DEF NewOpen, LineOpen
    <3>2. (sign.type = "begin" => ~line_annotation) /\ (sign.type = "@T" => o = 0 /\ TRUE) BY <2>3, <2>6
    <3>3. BalancedAt(macro, 0, TRUE)
      <4>1. BalancedAt(tokens, annotation_depth, line_annotation) BY <2>6
      <4> HIDE DEF macro
      <4> QED BY <4>1, <3>1, <3>2, <2>3, <1>2, BalancedAppended DEF o, macro
    <3> QED BY <3>3 DEF BalancedAt, LineOpen
  <2>8. CASE line_annotation' = TRUE /\ tokens' = macro /\ annotation_depth' = annotation_depth
    BY <2>6, <2>7, <2>8
  <2>9. ASSUME NEW q \in p + 2..pos', NEW w,
               WordSays(w, text[q], FALSE, annotation_depth + 1), q \in DOMAIN text, w.upto = pos',
               line_annotation' = (w.error = "" /\ w.type /= "begin"),
               annotation_depth' = w.block - 1,
               tokens' = IF w.error = "" THEN Append(macro, Token(w.type, q, w.upto)) ELSE macro
        PROVE  BalancedAt(tokens', annotation_depth', line_annotation')
    <3> DEFINE c == text[q]
               t == Token(w.type, q, w.upto)
    <3>1. annotation_depth + 1 = 1 /\ 1 > 0 /\ 1 \in Int /\ FALSE \in BOOLEAN BY <2>6
    <3>2. WordSays(w, c, FALSE, 1) BY <2>9, <3>1
    <3>3. w.error = "" BY <3>1, <3>2, Refused
    <3>4. w.type \in TokenTypes BY <3>1, <3>2, <3>3, <1>2, WordTyped
    <3>5. t \in Tok /\ t.type = w.type /\ t.at = q
      <4>1. q \in Nat /\ w.upto \in Nat
        <5>1. pos' \in Nat
          <6>1. Len(text) \in Nat BY <1>2, LenProperties
          <6> QED BY <6>1, <1>2 DEF Steps
        <5>2. q \in Nat BY <5>1
        <5> QED BY <5>1, <5>2, <2>9
      <4> QED BY <4>1, <3>4, TokenMade
    <3>6. tokens' = Append(macro, t) BY <2>9, <3>3
    <3>15. annotation_depth' = w.block - 1 /\ line_annotation' = (w.error = "" /\ w.type /= "begin") BY <2>9
    <3>16. /\ w.block = 1 => annotation_depth' = 0
           /\ w.block = 2 => annotation_depth' = 1
           /\ w.error = "" /\ w.type /= "begin" => line_annotation' = TRUE
           /\ w.type = "begin" => line_annotation' = FALSE
      <4>1. 1 - 1 = 0 /\ 2 - 1 = 1 OBVIOUS
      <4>2. w.block = 1 => annotation_depth' = 0 BY <3>15, <4>1
      <4>3. w.block = 2 => annotation_depth' = 1 BY <3>15, <4>1
      <4>4. w.error = "" /\ w.type /= "begin" => line_annotation' = TRUE BY <3>15
      <4>5. w.type = "begin" => line_annotation' = FALSE BY <3>15
      <4> QED BY <4>2, <4>3, <4>4, <4>5
    <3> HIDE DEF t, macro
    <3>7. c /= "end"
      <4> SUFFICES ASSUME c = "end" PROVE FALSE OBVIOUS
      <4>1. /\ Len(tokens') = n + 2 /\ tokens'[n + 1] = sign /\ tokens'[n + 2] = t
        <5>1. /\ Len(Append(macro, t)) = Len(macro) + 1 /\ Append(macro, t)[Len(macro) + 1] = t
              /\ \A i \in 1..Len(macro) : Append(macro, t)[i] = macro[i]
          BY <2>4, <3>5, Appended
        <5>2. n + 1 + 1 = n + 2 /\ n + 1 \in 1..n + 1 BY <2>4
        <5> QED BY <5>1, <5>2, <2>4, <3>6
      <4>2. Char(q) = "end" BY <2>9 DEF Char
      <4> DEFINE i == n + 2
                 j == n + 1
      <4>3. i \in 2..n + 2 /\ i - 1 = j BY <2>4
      <4>4. tokens'[j].type = "@T" /\ Char(tokens'[i].at) = "end" /\ i \in 2..Len(tokens')
        BY <4>1, <4>2, <4>3, <2>3, <3>5
      <4> HIDE DEF i, j
      <4>5. BeginsWithEnd(tokens') BY <4>3, <4>4 DEF BeginsWithEnd
      <4> QED BY <4>5, <1>1
    <3>8. ASSUME NEW type, w.type = type, type \notin Opened \cup {"@T", "end_type"}, w.block = 1
          PROVE  BalancedAt(tokens', annotation_depth', line_annotation')
      <4>1. type \notin {"@T", "begin"} BY <3>8, BeginIs
      <4>2. NewOpen(t.type, Open(macro)[Len(macro)]) = 0 + LineOpen(TRUE) /\ 0 + LineOpen(TRUE) >= 0 /\ 0 >= 0
        BY <3>5, <3>8, <2>7, BeginIs DEF NewOpen, LineOpen
      <4>5. t.type \notin {"@T", "begin"} BY <4>1, <3>5, <3>8
      <4>3. BalancedAt(Append(macro, t), 0, TRUE)
        BY <4>2, <4>5, <3>5, <2>4, <2>7, BalancedAppended
      <4>4. line_annotation' = TRUE /\ annotation_depth' = 0 BY <4>1, <3>3, <3>8, <3>16
      <4> QED BY <4>3, <4>4, <3>6
    <3>9. {"identifier", "function_type"} \cap (Opened \cup {"@T", "end_type"}) = {}
      BY DEF Opened, is_end_terminated, typing_end_terminated, classdef_keywords
    <3>10. CASE IsWord(w, "identifier", 1, keywords) BY <3>8, <3>9, <3>10 DEF IsWord
    <3>11. CASE IsWord(w, "function_type", 1, keywords) BY <3>8, <3>9, <3>11 DEF IsWord
    <3>12. CASE c \in Opened \ {"end", "function"} /\ IsWord(w, c, 2, keywords)
      <4>1. c \notin {"@T", "end_type"} /\ w.type = c /\ w.block = 2 BY <3>12, BeginIs DEF IsWord
      <4>2. annotation_depth' = 1 BY <4>1, <3>16
      <4>3. CASE c = "begin"
        <5>1. line_annotation' = FALSE BY <4>1, <4>3, <3>16
        <5>2. BalancedAt(tokens, 0, FALSE)
          <6>1. line_annotation = FALSE BY <2>1, <1>2
          <6> QED BY <6>1, <2>6
        <5>3. BalancedAt(Append(macro, t), 1, FALSE)
          BY <5>2, <4>1, <4>3, <3>5, <2>3, <1>2, BalancedBegun DEF macro
        <5> QED BY <5>1, <5>3, <4>2, <3>6
      <4>4. CASE c /= "begin"
        <5>1. line_annotation' = TRUE BY <4>1, <4>4, <3>3, <3>16
        <5>2. NewOpen(t.type, Open(macro)[Len(macro)]) = 1 + LineOpen(TRUE) /\ 1 + LineOpen(TRUE) >= 0 /\ 1 >= 0
          <6>1. c \in Opened /\ c \notin {"@T", "begin"} /\ c /= "end_type" /\ t.type = c
            BY <3>5, <3>12, <4>1, <4>4
          <6> HIDE DEF c
          <6> QED BY <6>1, <2>7 DEF NewOpen, LineOpen
        <5>3. BalancedAt(Append(macro, t), 1, TRUE)
          <6>1. t.type \notin {"@T", "begin"} BY <4>1, <4>4, <3>5
          <6> HIDE DEF c
          <6> QED BY <5>2, <6>1, <3>5, <2>4, <2>7, BalancedAppended
        <5> QED BY <5>1, <5>3, <4>2, <3>6
      <4> QED BY <4>3, <4>4
    <3>13. CASE c \in AnyKeyword \ (Opened \cup {"end", "function"}) /\ IsWord(w, c, 1, keywords)
      <4>1. c \notin {"@T", "end_type"} BY <3>13 DEF AnyKeyword, matlab_keywords, typing_keywords
      <4>2. w.type = c /\ c \notin Opened \cup {"@T", "end_type"} /\ w.block = 1
        BY <3>13, <4>1 DEF IsWord
      <4> HIDE DEF c
      <4> QED BY <4>2, <3>8
    <3>14. 1 + 1 = 2 /\ (FALSE \/ 1 > 0) /\ ~(~(FALSE \/ 1 > 0) \/ FALSE) OBVIOUS
    <3> HIDE DEF c
    <3> QED BY <3>2, <3>3, <3>7, <3>10, <3>11, <3>12, <3>13, <3>14 DEF WordSays
  <2> QED BY <2>2, <2>8, <2>9 DEF sign
<1> QED BY <1>7, <1>8, <1>9, <1>10, <1>11, <1>12, <1>13 DEF Steps

------------------------------------------------------------------------------
(* The state keeps its shape, and the tokens the order of the text.            *)

WordTypes ==
  UNION {AnyKeyword, classdef_keywords, {"identifier", "op_end", "end_type", "function_type"}}

LEMMA WordTypesAre ==
  /\ WordTypes \cap (Symbols \cup {s[3] : s \in DoubledSymbols}) = {}
  /\ WordTypes \cap {"number", "string", "char", "newline", "null", "@T", ","} = {}
  /\ Opened \subseteq WordTypes /\ is_end_terminated \subseteq WordTypes
<1>1. WordTypes \cap Symbols = {}
  <2>1. matlab_keywords \cap Symbols = {} BY DEF matlab_keywords, Symbols
  <2>2. typing_keywords \cap Symbols = {} BY DEF typing_keywords, Symbols
  <2>3. classdef_keywords \cap Symbols = {} BY DEF classdef_keywords, Symbols
  <2>4. {"identifier", "op_end", "end_type", "function_type"} \cap Symbols = {} BY DEF Symbols
  <2> QED BY <2>1, <2>2, <2>3, <2>4 DEF WordTypes, AnyKeyword
<1>2. \A s \in DoubledSymbols : s[3] \notin WordTypes
  BY DEF WordTypes, AnyKeyword, matlab_keywords, typing_keywords, classdef_keywords, DoubledSymbols
<1>3. WordTypes \cap {"number", "string", "char", "newline", "null", "@T", ","} = {}
  BY DEF WordTypes, AnyKeyword, matlab_keywords, typing_keywords, classdef_keywords
<1>4. Opened \subseteq WordTypes /\ is_end_terminated \subseteq WordTypes
  BY DEF Opened, is_end_terminated, typing_end_terminated, WordTypes, AnyKeyword, matlab_keywords,
         typing_keywords, classdef_keywords
<1> QED BY <1>1, <1>2, <1>3, <1>4

LEMMA WordTypeIs ==
  ASSUME NEW w, NEW c, NEW line \in BOOLEAN, NEW block \in Int, WordSays(w, c, line, block), w.error = ""
  PROVE  w.type \in WordTypes
<1> USE DEF IsWord
<1>1. /\ matlab_keywords \subseteq WordTypes /\ classdef_keywords \subseteq WordTypes
      /\ AnyKeyword \subseteq WordTypes
      /\ {"identifier", "op_end", "end_type", "function_type"} \subseteq WordTypes
  BY DEF WordTypes, AnyKeyword
<1>2. CASE w.type \in {"identifier", "end_type", "function_type"} BY <1>1, <1>2
<1>3. CASE c \in matlab_keywords \cup classdef_keywords /\ w.type = CodeType(c)
  BY <1>1, <1>3 DEF CodeType
<1>4. CASE c \in Opened /\ w.type = c BY <1>4, WordTypesAre
<1>5. CASE c \in AnyKeyword /\ w.type = c BY <1>1, <1>5
<1> QED BY <1>2, <1>3, <1>4, <1>5 DEF WordSays

LEMMA AnnotationAdds ==
  ASSUME Shape, pos' \in pos..Len(text) + 1, AddsAnnotation
  PROVE  /\ keywords' \in Keywords /\ annotation_depth' \in Int /\ line_annotation' \in BOOLEAN
         /\ annotation_depth >= 0 => keywords' = keywords
         /\ \E sign \in Tok :
              /\ sign.type = "@T" /\ pos <= sign.at /\ sign.at <= sign.upto /\ sign.upto <= pos'
              /\ \/ tokens' = Append(tokens, sign)
                 \/ \E t \in Tok : /\ tokens' = Append(Append(tokens, sign), t) /\ t.type \in WordTypes
                                   /\ sign.upto <= t.at /\ t.at <= t.upto /\ t.upto <= pos'
                                   /\ annotation_depth >= 0 => t.type \notin {"end", "op_end"}
<1>1. /\ tokens \in Seq(Tok) /\ line_annotation \in BOOLEAN /\ annotation_depth \in Int
      /\ keywords \in Keywords /\ text \in Seq(Units) /\ pos \in Nat /\ pos' \in Nat
  <2>1. Len(text) \in Nat BY LenProperties DEF Shape
  <2>2. pos \in Nat BY <2>1 DEF Shape
  <2> QED BY <2>1, <2>2 DEF Shape
<1>2. PICK p \in Nat :
        /\ pos <= p /\ p + 2 <= pos'
        /\ LET macro == Append(tokens, Token("@T", p, p + 2))
           IN  \/ /\ line_annotation' = TRUE /\ tokens' = macro
                  /\ annotation_depth' = annotation_depth /\ keywords' = keywords
               \/ \E q \in p + 2..pos' : \E w :
                    /\ WordSays(w, text[q], FALSE, annotation_depth + 1) /\ w.upto = pos'
                    /\ line_annotation' = (w.error = "" /\ w.type /= "begin")
                    /\ annotation_depth' = w.block - 1 /\ keywords' = w.keywords
                    /\ tokens' = IF w.error = "" THEN Append(macro, Token(w.type, q, w.upto)) ELSE macro
  BY DEF AddsAnnotation
<1> DEFINE sign == Token("@T", p, p + 2)
           macro == Append(tokens, sign)
<1>3. /\ sign \in Tok /\ sign.type = "@T" /\ sign.at = p /\ sign.upto = p + 2
      /\ pos <= sign.at /\ sign.at <= sign.upto /\ sign.upto <= pos'
  <2>1. "@T" \in TokenTypes /\ p + 2 \in Nat BY DEF TokenTypes
  <2>2. /\ sign \in Tok /\ sign.type = "@T" /\ sign.at = p /\ sign.upto = p + 2 BY <2>1, TokenMade
  <2>3. pos <= p /\ p <= p + 2 /\ p + 2 <= pos'
    <3>1. p <= p + 2 OBVIOUS
    <3> QED BY <3>1, <1>2
  <2> HIDE DEF sign
  <2> QED BY <2>2, <2>3
<1> HIDE DEF sign
<1>4. CASE /\ line_annotation' = TRUE /\ tokens' = macro
           /\ annotation_depth' = annotation_depth /\ keywords' = keywords
  BY <1>1, <1>3, <1>4
<1>5. ASSUME NEW q \in p + 2..pos', NEW w,
             WordSays(w, text[q], FALSE, annotation_depth + 1), w.upto = pos',
             line_annotation' = (w.error = "" /\ w.type /= "begin"),
             annotation_depth' = w.block - 1, keywords' = w.keywords,
             tokens' = IF w.error = "" THEN Append(macro, Token(w.type, q, w.upto)) ELSE macro
      PROVE  /\ keywords' \in Keywords /\ annotation_depth' \in Int /\ line_annotation' \in BOOLEAN
             /\ annotation_depth >= 0 => keywords' = keywords
             /\ \/ tokens' = macro
                \/ \E t \in Tok : /\ tokens' = Append(macro, t) /\ t.type \in WordTypes
                                  /\ sign.upto <= t.at /\ t.at <= t.upto /\ t.upto <= pos'
                                  /\ annotation_depth >= 0 => t.type \notin {"end", "op_end"}
  <2> DEFINE block == annotation_depth + 1
             c == text[q]
  <2>1. block \in Int /\ FALSE \in BOOLEAN BY <1>1
  <2>2. WordSays(w, c, FALSE, block) BY <1>5
  <2> HIDE DEF block, c
  <2>3. /\ w.block \in block - 1..block + 1 /\ w.keywords \in Keywords
        /\ w.error = "" => w.type \in TokenTypes
    BY <2>1, <2>2, <1>1, WordTyped
  <2>4. annotation_depth' \in Int
    <3>1. w.block \in Int
      <4>1. \A x \in block - 1..block + 1 : x \in Int BY <2>1
      <4> QED BY <4>1, <2>3
    <3>2. w.block - 1 \in Int BY <3>1
    <3> QED BY <3>2, <1>5
  <2>5. annotation_depth >= 0 => block > 0 BY <1>1 DEF block
  <2>6. ASSUME block > 0 PROVE w.keywords = keywords /\ w.type \notin {"end", "op_end"} /\ w.error = ""
    <3>1. w.error = "" BY <2>1, <2>2, <2>6, Refused
    <3>2. "end" \notin Opened BY BeginIs
    <3>3. "op_end" \notin Opened \cup AnyKeyword
      BY DEF Opened, is_end_terminated, typing_end_terminated, classdef_keywords, AnyKeyword,
             matlab_keywords, typing_keywords
    <3> QED BY <3>1, <3>2, <3>3, <2>2, <2>6 DEF WordSays, IsWord
  <2>7. CASE w.error /= "" BY <2>3, <2>4, <2>5, <2>6, <2>7, <1>5
  <2>8. CASE w.error = ""
    <3> DEFINE t == Token(w.type, q, w.upto)
    <3>1. q \in Nat /\ p + 2 <= q /\ q <= pos'
      <4>1. p + 2 \in Nat /\ pos' \in Nat BY <1>1
      <4> QED BY <4>1
    <3>2. t \in Tok /\ t.type = w.type /\ t.at = q /\ t.upto = pos'
      <4>1. w.type \in TokenTypes /\ q \in Nat /\ w.upto \in Nat /\ w.upto = pos'
        BY <3>1, <2>3, <2>8, <1>1, <1>5
      <4> QED BY <4>1, TokenMade
    <3>3. w.type \in WordTypes BY <2>1, <2>2, <2>8, WordTypeIs
    <3>4. tokens' = Append(macro, t) BY <1>5, <2>8
    <3>5. pos' <= pos' BY <1>1
    <3> HIDE DEF t, macro
    <3>6. sign.upto <= t.at /\ t.at <= t.upto /\ t.upto <= pos' BY <3>1, <3>2, <3>5, <1>3
    <3>7. annotation_depth >= 0 => t.type \notin {"end", "op_end"} BY <3>2, <2>5, <2>6
    <3>8. line_annotation' \in BOOLEAN BY <1>5
    <3>9. keywords' \in Keywords /\ (annotation_depth >= 0 => keywords' = keywords) BY <2>3, <2>5, <2>6, <1>5
    <3>10. t \in Tok /\ t.type \in WordTypes BY <3>2, <3>3
    <3> QED BY <3>4, <3>6, <3>7, <3>8, <3>9, <3>10, <2>4
  <2> QED BY <2>7, <2>8
<1>6. CASE \E q \in p + 2..pos' : \E w :
             /\ WordSays(w, text[q], FALSE, annotation_depth + 1) /\ w.upto = pos'
             /\ line_annotation' = (w.error = "" /\ w.type /= "begin")
             /\ annotation_depth' = w.block - 1 /\ keywords' = w.keywords
             /\ tokens' = IF w.error = "" THEN Append(macro, Token(w.type, q, w.upto)) ELSE macro
  <2>1. /\ keywords' \in Keywords /\ annotation_depth' \in Int /\ line_annotation' \in BOOLEAN
        /\ annotation_depth >= 0 => keywords' = keywords
        /\ \/ tokens' = macro
           \/ \E t \in Tok : /\ tokens' = Append(macro, t) /\ t.type \in WordTypes
                             /\ sign.upto <= t.at /\ t.at <= t.upto /\ t.upto <= pos'
                             /\ annotation_depth >= 0 => t.type \notin {"end", "op_end"}
    BY <1>5, <1>6
  <2> QED BY <2>1, <1>3
<1> QED BY <1>2, <1>4, <1>6 DEF sign

Follows(t, p, q) == p <= t.at /\ t.at <= t.upto /\ t.upto <= q /\ (t.type = "," => t.at < t.upto)

InOrder(t, q) == t.at <= t.upto /\ t.upto <= q /\ (t.type = "," => t.at < t.upto)

LEMMA InOrderLater ==
  ASSUME NEW t \in Tok, NEW p \in Nat, NEW q \in Nat, NEW u \in Tok
  PROVE  /\ p <= q /\ InOrder(t, p) => InOrder(t, q)
         /\ Follows(t, p, q) => InOrder(t, q)
         /\ InOrder(u, p) /\ Follows(t, p, q) => InOrder(u, q) /\ u.upto <= t.at
<1> DEFINE a == t.at
           b == t.upto
           c == u.upto
<1>1. a \in Nat /\ b \in Nat /\ c \in Nat BY TokenFields
<1>2. \A x \in Nat : x <= p /\ p <= q => x <= q OBVIOUS
<1>3. InOrder(t, p) => b <= p BY DEF InOrder
<1>4. p <= q /\ InOrder(t, p) => b <= q
  <2> HIDE DEF b
  <2> QED BY <1>1, <1>2, <1>3
<1>5. InOrder(u, p) => c <= p BY DEF InOrder
<1>6. Follows(t, p, q) => p <= a /\ a <= b /\ b <= q BY DEF Follows
<1>7. InOrder(u, p) /\ Follows(t, p, q) => c <= q /\ c <= a
  <2> HIDE DEF a, b, c
  <2> QED BY <1>1, <1>5, <1>6
<1>8. p <= q /\ InOrder(t, p) => InOrder(t, q) BY <1>4 DEF InOrder
<1>9. Follows(t, p, q) => InOrder(t, q) BY DEF InOrder, Follows
<1>10. InOrder(u, p) /\ Follows(t, p, q) => InOrder(u, q) BY <1>7 DEF InOrder
<1> QED BY <1>7, <1>8, <1>9, <1>10

LEMMA OrderedAs ==
  ASSUME NEW list, NEW p
  PROVE  Ordered(list, p) <=> /\ \A i \in 1..Len(list) : InOrder(list[i], p)
                              /\ \A i \in 1..Len(list) - 1 : list[i].upto <= list[i + 1].at
BY DEF Ordered, InOrder

LEMMA OrderedAppended ==
  ASSUME NEW list \in Seq(Tok), NEW t \in Tok, NEW p \in Nat, NEW q \in Nat, Ordered(list, p),
         Follows(t, p, q)
  PROVE  Ordered(Append(list, t), q)
<1> DEFINE n == Len(list)
           m == Append(list, t)
<1>1. /\ Len(m) = n + 1 /\ n \in Nat /\ m[n + 1] = t /\ \A i \in 1..n : m[i] = list[i] BY Appended
<1>2. \A i \in 1..n : list[i] \in Tok BY ElementOfSeq
<1>4. /\ \A i \in 1..n : InOrder(list[i], p)
      /\ \A i \in 1..n - 1 : list[i].upto <= list[i + 1].at
  BY OrderedAs
<1> HIDE DEF n, m
<1>5. ASSUME NEW i \in 1..n + 1 PROVE InOrder(m[i], q)
  <2>1. CASE i \in 1..n
    <3>1. m[i] = list[i] /\ InOrder(list[i], q) BY <2>1, <1>1, <1>2, <1>4, InOrderLater
    <3> QED BY <3>1
  <2>2. CASE i = n + 1
    <3>1. m[i] = t BY <2>2, <1>1
    <3> QED BY <3>1, InOrderLater
  <2> QED BY <2>1, <2>2, <1>1
<1>6. ASSUME NEW i \in 1..n PROVE m[i].upto <= m[i + 1].at
  <2>1. m[i] = list[i] BY <1>1
  <2>2. CASE i = n
    <3>1. m[i + 1] = t BY <2>2, <1>1
    <3>2. list[i].upto <= t.at BY <1>2, <1>4, InOrderLater
    <3> QED BY <2>1, <3>1, <3>2
  <2>3. CASE i /= n
    <3>1. i \in 1..n - 1 /\ i + 1 \in 1..n BY <2>3, <1>1
    <3> QED BY <2>1, <3>1, <1>1, <1>4
  <2> QED BY <2>2, <2>3
<1>7. Len(m) - 1 = n BY <1>1
<1>8. \A i \in 1..Len(m) : InOrder(m[i], q) BY <1>1, <1>5
<1>9. \A i \in 1..Len(m) - 1 : m[i].upto <= m[i + 1].at BY <1>6, <1>7
<1> QED BY <1>8, <1>9, OrderedAs DEF m

LEMMA OrderedLater ==
  ASSUME NEW list \in Seq(Tok), NEW p \in Nat, NEW q \in Nat, Ordered(list, p), p <= q
  PROVE  Ordered(list, q)
<1>1. \A i \in 1..Len(list) : list[i] \in Tok /\ InOrder(list[i], p) BY ElementOfSeq, OrderedAs
<1>2. \A i \in 1..Len(list) : InOrder(list[i], q) BY <1>1, InOrderLater
<1> QED BY <1>2, OrderedAs

LEMMA ShapeKept ==
  ASSUME Shape, Ordered(tokens, pos), Steps, text' = text, status' = status
  PROVE  Shape' /\ Ordered(tokens', pos')
<1>1. /\ tokens \in Seq(Tok) /\ line_annotation \in BOOLEAN /\ annotation_depth \in Int
      /\ keywords \in Keywords /\ text \in Seq(Units) /\ depth \in [Opening -> Int]
      /\ pos \in Nat /\ pos' \in Nat /\ pos <= pos' /\ status' \in {"scanning", "scanned", "failed"}
  <2>1. Len(text) \in Nat BY LenProperties DEF Shape
  <2>2. pos \in Nat BY <2>1 DEF Shape
  <2> QED BY <2>1, <2>2 DEF Shape, Steps
<1>2. /\ pos' \in pos..Len(text) + 1 /\ pos' \in 1..Len(text') + 1 /\ comment_depth' \in Nat
      /\ unbalanced' \in BOOLEAN /\ text' \in Seq(Units)
  <2>1. Len(text) \in Nat BY LenProperties DEF Shape
  <2> QED BY <2>1, <1>1 DEF Steps, Shape
<1>3. SUFFICES /\ tokens' \in Seq(Tok) /\ Ordered(tokens', pos') /\ depth' \in [Opening -> Int]
               /\ line_annotation' \in BOOLEAN /\ annotation_depth' \in Int /\ keywords' \in Keywords
  BY <1>1, <1>2 DEF Shape
<1>4. ASSUME NEW type, NEW p, NEW q, Adds(type, p, q), type = "," => p < q
      PROVE  tokens' \in Seq(Tok) /\ Ordered(tokens', pos')
  <2> DEFINE t == Token(type, p, q)
  <2>0. type \in TokenTypes /\ p \in Nat /\ q \in Nat BY <1>4 DEF Adds
  <2>1. t \in Tok /\ t.type = type /\ t.at = p /\ t.upto = q BY <2>0, TokenMade
  <2>2. tokens' = Append(tokens, t) /\ pos <= p /\ p <= q /\ q <= pos' BY <1>4 DEF Adds
  <2> HIDE DEF t
  <2>3. tokens' \in Seq(Tok) BY <2>1, <2>2, <1>1, Appended
  <2>4. Follows(t, pos, pos') BY <2>1, <2>2, <1>4 DEF Follows
  <2> QED BY <2>1, <2>2, <2>3, <2>4, <1>1, OrderedAppended
<1>5. CASE Quiet BY <1>1, <1>5, OrderedLater DEF Quiet
<1>6. CASE Fails BY <1>1, <1>6, OrderedLater DEF Fails
<1>7. CASE AddsSymbol
  <2>1. PICK type \in Symbols \cup {s[3] : s \in DoubledSymbols} :
          Adds(type, pos, pos') /\ pos < pos' /\ depth' = Grouped(type)
    BY <1>7 DEF AddsSymbol
  <2>2. Grouped(type) \in [Opening -> Int]
    <3>1. DOMAIN Closing = {")", "]", "}"} /\ \A d \in DOMAIN Closing : Closing[d] \in Opening
      BY DEF Closing, Opening
    <3>2. type \in Opening => [depth EXCEPT ![type] = @ + 1] \in [Opening -> Int] BY <1>1
    <3>3. \A g \in Opening : [depth EXCEPT ![g] = @ - 1] \in [Opening -> Int] BY <1>1
    <3>4. type \in DOMAIN Closing => [depth EXCEPT ![Closing[type]] = @ - 1] \in [Opening -> Int]
      BY <3>1, <3>3
    <3> QED BY <3>2, <3>4, <1>1 DEF Grouped
  <2> QED BY <2>1, <2>2, <1>1, <1>4, <1>7 DEF AddsSymbol
<1>8. CASE AddsLiteral
  <2>1. PICK type \in {"number", "string", "char"}, p \in Nat, q \in Nat : Adds(type, p, q)
    BY <1>8 DEF AddsLiteral
  <2> QED BY <2>1, <1>1, <1>4, <1>8 DEF AddsLiteral
<1>9. CASE AddsNewLine
  <2>1. PICK type \in {"end_type", "newline"} : Adds(type, pos, pos') BY <1>9 DEF AddsNewLine
  <2> QED BY <2>1, <1>1, <1>4, <1>9 DEF AddsNewLine
<1>10. CASE AddsWord
  <2>1. PICK w : /\ WordSays(w, text[pos], line_annotation, annotation_depth)
                 /\ w.error = "" /\ Adds(w.type, pos, w.upto)
                 /\ annotation_depth' = w.block /\ keywords' = w.keywords
                 /\ line_annotation' = line_annotation /\ depth' = depth
    BY <1>10 DEF AddsWord
  <2>2. /\ w.block \in annotation_depth - 1..annotation_depth + 1 /\ w.keywords \in Keywords
    BY <2>1, <1>1, WordTyped
  <2>3. w.type \in WordTypes BY <2>1, <1>1, WordTypeIs
  <2>4. w.type /= "," BY <2>3, WordTypesAre
  <2>5. annotation_depth' \in Int
    <3>1. w.block \in Int
      <4>1. \A x \in annotation_depth - 1..annotation_depth + 1 : x \in Int BY <1>1
      <4> QED BY <4>1, <2>2
    <3> QED BY <3>1, <2>1
  <2> QED BY <2>1, <2>2, <2>4, <2>5, <1>1, <1>4
<1>11. CASE AddsAnnotation
  <2>1. keywords' \in Keywords /\ annotation_depth' \in Int /\ line_annotation' \in BOOLEAN
    BY <1>2, <1>11, AnnotationAdds
  <2>2. PICK sign \in Tok :
          /\ sign.type = "@T" /\ pos <= sign.at /\ sign.at <= sign.upto /\ sign.upto <= pos'
          /\ \/ tokens' = Append(tokens, sign)
             \/ \E t \in Tok : /\ tokens' = Append(Append(tokens, sign), t) /\ t.type \in WordTypes
                               /\ sign.upto <= t.at /\ t.at <= t.upto /\ t.upto <= pos'
    BY <1>2, <1>11, AnnotationAdds
  <2>3. depth' = depth BY <1>11 DEF AddsAnnotation
  <2>4. sign.upto \in Nat BY TokenFields
  <2>5. /\ Append(tokens, sign) \in Seq(Tok)
        /\ Ordered(Append(tokens, sign), sign.upto) /\ Ordered(Append(tokens, sign), pos')
    <3>1. sign.upto <= sign.upto BY <2>4
    <3>2. Append(tokens, sign) \in Seq(Tok) BY <1>1, Appended
    <3>4. Follows(sign, pos, sign.upto) BY <3>1, <2>2 DEF Follows
    <3>3. Ordered(Append(tokens, sign), sign.upto) BY <3>4, <2>4, <1>1, OrderedAppended
    <3> QED BY <3>2, <3>3, <2>2, <2>4, <1>1, OrderedLater
  <2>6. CASE tokens' = Append(tokens, sign) BY <2>1, <2>3, <2>5, <2>6, <1>1
  <2>7. ASSUME NEW t \in Tok, tokens' = Append(Append(tokens, sign), t), t.type \in WordTypes,
               sign.upto <= t.at, t.at <= t.upto, t.upto <= pos'
        PROVE  tokens' \in Seq(Tok) /\ Ordered(tokens', pos')
    <3>1. t.type /= "," BY <2>7, WordTypesAre
    <3>2. tokens' \in Seq(Tok) BY <2>5, <2>7, Appended
    <3>3. Follows(t, sign.upto, pos') BY <3>1, <2>7 DEF Follows
    <3> QED BY <3>2, <3>3, <2>4, <2>5, <2>7, <1>1, OrderedAppended
  <2> QED BY <2>1, <2>2, <2>3, <2>6, <2>7, <1>1
<1> QED BY <1>5, <1>6, <1>7, <1>8, <1>9, <1>10, <1>11 DEF Steps

------------------------------------------------------------------------------
(* The end of a text: one more token, and the commas.                           *)

(* The tokens a comma may stand behind. *)
Separated == Operands \cup DOMAIN Closing \cup {"'", ".'"}

Commas(list, S) == S \subseteq 1..Len(list) /\ \A i \in S : list[i].type \in Separated

LEMMA SeparatedIs ==
  /\ Separated \cap (Opened \cup {"@T", "begin", "end_type", "null", "end", "@"}) = {}
  /\ "," \notin Separated \cup Opened \cup {"@T", "begin", "end_type", "null"}
  /\ "null" \notin Opened \cup {"@T", "begin", "end_type"}
BY DEF Separated, Operands, Closing, Opened, is_end_terminated, typing_end_terminated, classdef_keywords

Placed(s, list, S) ==
  /\ s \in Seq(Tok) /\ Len(list) \in Nat /\ Len(s) \in Nat
  /\ \A i \in 1..Len(list) : Place(S, i) \in 1..Len(s) /\ s[Place(S, i)] = list[i]
  /\ \A i \in 1..Len(list) : i = 1 => Place(S, i) = 1
  /\ \A i \in S : Place(S, i) + 1 \in 1..Len(s) /\ s[Place(S, i) + 1] = CommaBehind(list[i])
  /\ \A i \in 1..Len(list), j \in 1..Len(list) :
       j = i + 1 => Place(S, j) = Place(S, i) + IF i \in S THEN 2 ELSE 1
  /\ \A i \in 1..Len(list) :
       i = Len(list) => Len(s) = Place(S, i) + IF i \in S THEN 1 ELSE 0

LEMMA PlaceSteps ==
  ASSUME NEW list \in Seq(Tok), NEW S, S \subseteq 1..Len(list), NEW s, Spread(s, list, S)
  PROVE  Placed(s, list, S)
<1> DEFINE N == Len(list)
           L == Len(s)
<1>1. N \in Nat /\ L \in Nat /\ s \in Seq(Tok) /\ L = N + Before(S, N + 1)
  BY LenProperties DEF Spread, Stage
<1>2. ASSUME NEW i \in Nat
      PROVE  Before(S, i) \in Nat /\ Before(S, i + 1) = Before(S, i) + IF i \in S THEN 1 ELSE 0
  <2>1. i \in Int OBVIOUS
  <2> QED BY <1>1, <2>1, BeforeStep
<1>3. \A i \in 1..N : i <= N BY <1>1
<1>4. \A i \in 1..N : s[Place(S, i)] = list[i] BY <1>3 DEF Spread, Stage
<1>5. \A i \in S : s[Place(S, i) + 1] = CommaBehind(list[i]) BY <1>3 DEF Spread, Stage
<1>6. ASSUME NEW i \in 1..N, NEW j \in 1..N, j = i + 1
      PROVE  Place(S, j) = Place(S, i) + IF i \in S THEN 2 ELSE 1
  <2>1. i \in Nat /\ i \in Int BY <1>1
  <2>2. Before(S, i) \in Nat /\ Before(S, j) = Before(S, i) + IF i \in S THEN 1 ELSE 0
    BY <2>1, <1>2, <1>6
  <2> QED BY <2>1, <2>2, <1>6 DEF Place
<1>7. ASSUME NEW i \in 1..N
      PROVE  /\ Place(S, i) \in Nat /\ Place(S, i) >= 1
             /\ Place(S, i) + (IF i \in S THEN 1 ELSE 0) <= L
             /\ i = N => L = Place(S, i) + IF i \in S THEN 1 ELSE 0
  <2>1. i \in Nat /\ i >= 1 /\ i <= N /\ N + 1 \in Nat BY <1>1
  <2>2. Before(S, i) \in Nat /\ Before(S, N) \in Nat BY <2>1, <1>1, <1>2
  <2>3. Place(S, i) \in Nat /\ Place(S, i) >= 1 BY <2>1, <2>2 DEF Place
  <2> DEFINE M == N + 1
  <2>10. M \in Nat /\ i < M /\ M = N + 1 BY <2>1, <1>1
  <2>11. L = N + Before(S, M) BY <1>1
  <2>4. Place(S, M) = L + 1
    <3> HIDE DEF M, L
    <3>1. Before(S, M) \in Nat BY <2>10, <1>2
    <3>2. Place(S, M) = M + Before(S, M) BY DEF Place
    <3> HIDE DEF N
    <3> QED BY <3>1, <3>2, <2>10, <2>11, <1>1
  <2>5. Place(S, i) + (IF i \in S THEN 1 ELSE 0) < Place(S, M)
    <3> HIDE DEF M
    <3> QED BY <2>1, <2>10, <1>1, PlaceRises
  <2>6. Before(S, N + 1) = Before(S, N) + IF N \in S THEN 1 ELSE 0 BY <1>1, <1>2
  <2>7. i = N => L = Place(S, i) + IF i \in S THEN 1 ELSE 0 BY <2>2, <2>6, <1>1 DEF Place
  <2> DEFINE p == Place(S, i)
             e == IF i \in S THEN 1 ELSE 0
  <2>8. p + e < L + 1 /\ p \in Nat /\ e \in Nat BY <2>3, <2>4, <2>5
  <2>9. p + e <= L
    <3> HIDE DEF p, e
    <3> QED BY <2>8, <1>1
  <2> QED BY <2>3, <2>7, <2>9
<1>8. ASSUME NEW i \in 1..N, i = 1 PROVE Place(S, i) = 1
  <2>1. Before(S, 1) = 0
    <3>1. 1 \in Int OBVIOUS
    <3> QED BY <3>1, <1>1, BeforeStep
  <2> QED BY <2>1, <1>8 DEF Place
<1>9. \A i \in 1..N : Place(S, i) \in 1..L
  <2> SUFFICES ASSUME NEW i \in 1..N PROVE Place(S, i) \in 1..L OBVIOUS
  <2> DEFINE p == Place(S, i)
             e == IF i \in S THEN 1 ELSE 0
  <2>1. p \in Nat /\ p >= 1 /\ p + e <= L /\ e \in Nat BY <1>7
  <2> HIDE DEF p, e
  <2>2. p \in 1..L BY <2>1, <1>1
  <2> QED BY <2>2 DEF p
<1>10. \A i \in S : Place(S, i) + 1 \in 1..L
  <2> SUFFICES ASSUME NEW i \in S PROVE Place(S, i) + 1 \in 1..L OBVIOUS
  <2> DEFINE p == Place(S, i)
  <2>1. p \in Nat /\ p >= 1 /\ p + 1 <= L BY <1>7
  <2> HIDE DEF p
  <2>2. p + 1 \in 1..L BY <2>1, <1>1
  <2> QED BY <2>2 DEF p
<1>11. \A i \in 1..N, j \in 1..N : j = i + 1 => Place(S, j) = Place(S, i) + IF i \in S THEN 2 ELSE 1
  BY <1>6
<1>12. \A i \in 1..N : i = N => L = Place(S, i) + IF i \in S THEN 1 ELSE 0 BY <1>7
<1>13. \A i \in 1..N : i = 1 => Place(S, i) = 1 BY <1>8
<1>14. /\ \A i \in 1..N : Place(S, i) \in 1..L /\ s[Place(S, i)] = list[i]
       /\ \A i \in S : Place(S, i) + 1 \in 1..L /\ s[Place(S, i) + 1] = CommaBehind(list[i])
  BY <1>4, <1>5, <1>9, <1>10
<1> HIDE DEF N, L
<1> QED BY <1>1, <1>11, <1>12, <1>13, <1>14 DEF Placed, N, L

(* Commas open and close nothing, and no annotation begins behind one.          *)
LEMMA OpenSpread ==
  ASSUME NEW list \in Seq(Tok), NEW S, Commas(list, S), NEW s, Spread(s, list, S)
  PROVE  /\ \A i \in 1..Len(list) : /\ Open(s)[Place(S, i)] = Open(list)[i]
                                    /\ Open(s)[Place(S, i) - 1] = Open(list)[i - 1]
         /\ \A i \in S : Open(s)[Place(S, i) + 1] = Open(list)[i]
<1> DEFINE N == Len(list)
           Width(i) == IF i \in S THEN 1 ELSE 0
           A == {k \in 0..N : k /= 0 => /\ Open(s)[Place(S, k)] = Open(list)[k]
                                        /\ Open(s)[Place(S, k) - 1] = Open(list)[k - 1]
                                        /\ Open(s)[Place(S, k) + Width(k)] = Open(list)[k]}
<1>1. /\ S \subseteq 1..N /\ N \in Nat /\ s \in Seq(Tok) /\ Len(s) \in Nat
      /\ \A i \in S : list[i].type \in Separated
  <2>1. S \subseteq 1..Len(list) /\ \A i \in S : list[i].type \in Separated BY DEF Commas
  <2>2. Placed(s, list, S) BY <2>1, PlaceSteps
  <2> QED BY <2>1, <2>2 DEF Placed
<1>2. /\ \A i \in 1..N : Place(S, i) \in 1..Len(s) /\ s[Place(S, i)] = list[i]
      /\ \A i \in 1..N : i = 1 => Place(S, i) = 1
      /\ \A i \in S : /\ Place(S, i) + 1 \in 1..Len(s)
                      /\ s[Place(S, i) + 1] = CommaBehind(list[i])
      /\ \A i \in 1..N, j \in 1..N :
           j = i + 1 => Place(S, j) = Place(S, i) + IF i \in S THEN 2 ELSE 1
      /\ \A i \in 1..N : i = N => Len(s) = Place(S, i) + IF i \in S THEN 1 ELSE 0
  <2> HIDE DEF A
  <2>1. Placed(s, list, S) BY <1>1, PlaceSteps
  <2> QED BY <2>1 DEF Placed
<1>3. /\ Open(s)[0] = 0 /\ Open(list)[0] = 0
      /\ \A q \in 1..Len(s) : Open(s)[q] = OpenBehind(s, q, Open(s)[q - 1])
      /\ \A i \in 1..N : Open(list)[i] = OpenBehind(list, i, Open(list)[i - 1])
  BY <1>1, OpenIs
<1>4. DOMAIN list = 1..N /\ DOMAIN s = 1..Len(s) BY <1>1, LenProperties
<1> HIDE DEF N
<1>5. ASSUME NEW k \in 1..N PROVE Opens(s, Place(S, k)) <=> Opens(list, k)
  <2> DEFINE p == Place(S, k)
             j == k + 1
  <2>1. p \in 1..Len(s) /\ s[p] = list[k] BY <1>2
  <2>2. ASSUME list[k].type = "@T" PROVE TypeAt(s, p + 1) = TypeAt(list, k + 1)
    <3>1. k \notin S BY <2>2, <1>1, SeparatedIs
    <3>2. CASE k = N
      <4>1. Len(s) = p BY <3>1, <3>2, <1>2
      <4>2. p + 1 \notin DOMAIN s /\ k + 1 \notin DOMAIN list
        <5> HIDE DEF p
        <5> QED BY <4>1, <3>2, <1>1, <1>4
      <4> QED BY <4>2 DEF TypeAt
    <3>3. CASE k /= N
      <4>1. j \in 1..N /\ j = k + 1 BY <3>3, <1>1
      <4> HIDE DEF j
      <4>2. Place(S, j) = p + 1 BY <4>1, <3>1, <1>2
      <4>3. p + 1 \in DOMAIN s /\ k + 1 \in DOMAIN list /\ s[p + 1] = list[k + 1]
        <5>1. Place(S, j) \in 1..Len(s) /\ s[Place(S, j)] = list[j] BY <4>1, <1>2
        <5> QED BY <5>1, <4>1, <4>2, <1>4
      <4> QED BY <4>3 DEF TypeAt
    <3> QED BY <3>2, <3>3
  <2> HIDE DEF p
  <2> QED BY <2>1, <2>2 DEF Opens, p
<1>6. ASSUME NEW k \in 1..N, Open(s)[Place(S, k) - 1] = Open(list)[k - 1] PROVE k \in A
  <2> DEFINE p == Place(S, k)
  <2>1. p \in 1..Len(s) /\ s[p] = list[k] /\ (Opens(s, p) <=> Opens(list, k)) BY <1>2, <1>5
  <2>2. \A x : OpenBehind(s, p, x) = OpenBehind(list, k, x) BY <2>1 DEF OpenBehind
  <2>3. Open(s)[p] = Open(list)[k]
    <3> HIDE DEF p
    <3>1. Open(s)[p] = OpenBehind(s, p, Open(s)[p - 1]) BY <2>1, <1>3
    <3>2. Open(s)[p - 1] = Open(list)[k - 1] BY <1>6 DEF p
    <3> QED BY <3>1, <3>2, <2>2, <1>3
  <2>4. ASSUME k \in S PROVE Open(s)[p + 1] = Open(list)[k]
    <3> DEFINE q == p + 1
    <3>1. q \in 1..Len(s) /\ s[q].type = ","
      <4>1. q \in 1..Len(s) /\ s[q] = CommaBehind(list[k]) BY <2>4, <1>2
      <4>2. CommaBehind(list[k]).type = "," BY DEF CommaBehind, Token
      <4> QED BY <4>1, <4>2
    <3>2. q - 1 = p BY <2>1, <1>1
    <3> HIDE DEF p, q
    <3>3. ~Opens(s, q) BY <3>1 DEF Opens
    <3>4. \A x : OpenBehind(s, q, x) = x BY <3>1, <3>3, SeparatedIs DEF OpenBehind, Opened
    <3>5. Open(s)[q] = Open(s)[p] BY <3>1, <3>2, <3>4, <1>3
    <3> QED BY <3>5, <2>3 DEF q
  <2>5. p + 0 = p BY <2>1, <1>1
  <2>6. Open(s)[p + Width(k)] = Open(list)[k] BY <2>3, <2>4, <2>5
  <2>7. k \in 0..N BY <1>1
  <2> QED BY <2>3, <2>6, <2>7, <1>6
<1>7. ASSUME NEW k \in 1..N, k - 1 \in A PROVE k \in A
  <2>1. CASE k = 1
    <3>1. Place(S, k) - 1 = 0 /\ k - 1 = 0 BY <2>1, <1>2
    <3>2. Open(s)[Place(S, k) - 1] = Open(list)[k - 1] BY <3>1, <1>3
    <3> HIDE DEF A
    <3> QED BY <3>2, <1>6
  <2>2. CASE k /= 1
    <3> DEFINE i == k - 1
    <3>1. i \in 1..N /\ k = i + 1 /\ i /= 0 BY <2>2, <1>1
    <3>2. i \in A BY <1>7
    <3> HIDE DEF i
    <3>3. Open(s)[Place(S, i) + Width(i)] = Open(list)[i] BY <3>1, <3>2
    <3>4. Place(S, k) = Place(S, i) + (IF i \in S THEN 2 ELSE 1) BY <3>1, <1>2
    <3>5. Place(S, k) - 1 = Place(S, i) + Width(i)
      <4>1. Place(S, i) \in Int BY <3>1, <1>1, <1>2
      <4> QED BY <4>1, <3>4
    <3>6. Open(s)[Place(S, k) - 1] = Open(list)[k - 1] BY <3>3, <3>5 DEF i
    <3> HIDE DEF A
    <3> QED BY <3>6, <1>6
  <2> QED BY <2>1, <2>2
<1>8. 0 \in A BY <1>1
<1>9. 0..N \subseteq A
  <2> HIDE DEF A
  <2> QED BY <1>1, <1>7, <1>8, UpTo
<1>10. \A k \in 1..N : k \in A /\ k /= 0 BY <1>9
<1>11. \A k \in S : k \in 1..N /\ Width(k) = 1 BY <1>1
<1> QED BY <1>10, <1>11 DEF N

LEMMA BeginsWithEndSpread ==
  ASSUME NEW list \in Seq(Tok), NEW S, Commas(list, S), NEW s, Spread(s, list, S), BeginsWithEnd(list)
  PROVE  BeginsWithEnd(s)
<1>1. PICK i \in 2..Len(list) : list[i - 1].type = "@T" /\ Char(list[i].at) = "end" BY DEF BeginsWithEnd
<1> DEFINE j == i - 1
           p == Place(S, j)
<1>2. S \subseteq 1..Len(list) /\ Placed(s, list, S) /\ Len(list) \in Nat /\ Len(s) \in Nat
  <2>1. S \subseteq 1..Len(list) BY DEF Commas
  <2>2. Placed(s, list, S) BY <2>1, PlaceSteps
  <2> QED BY <2>1, <2>2 DEF Placed
<1>3. j \in 1..Len(list) /\ i \in 1..Len(list) /\ i = j + 1 BY <1>1, <1>2
<1>4. list[j].type = "@T" /\ j \notin S BY <1>1, <1>3, SeparatedIs DEF Commas
<1> HIDE DEF j
<1>5. /\ p \in 1..Len(s) /\ s[p] = list[j]
      /\ Place(S, i) \in 1..Len(s) /\ s[Place(S, i)] = list[i]
      /\ Place(S, i) = p + 1
  <2>1. \A k \in 1..Len(list) : Place(S, k) \in 1..Len(s) /\ s[Place(S, k)] = list[k]
    BY <1>2 DEF Placed
  <2>2. \A k \in 1..Len(list), l \in 1..Len(list) :
          l = k + 1 => Place(S, l) = Place(S, k) + IF k \in S THEN 2 ELSE 1
    BY <1>2 DEF Placed
  <2>3. Place(S, i) = Place(S, j) + IF j \in S THEN 2 ELSE 1 BY <2>2, <1>3
  <2> QED BY <2>1, <2>3, <1>3, <1>4
<1> HIDE DEF p
<1> DEFINE q == Place(S, i)
<1>6. q \in 2..Len(s) /\ q - 1 = p
  <2>1. q \in 1..Len(s) /\ q = p + 1 BY <1>5
  <2> HIDE DEF q
  <2> QED BY <2>1, <1>2, <1>5
<1>7. s[q - 1].type = "@T" /\ Char(s[q].at) = "end" BY <1>1, <1>4, <1>5, <1>6
<1> HIDE DEF q
<1> QED BY <1>6, <1>7 DEF BeginsWithEnd

(* In the order of the text, but for the commas, which are nowhere.             *)
Rising(list, p) ==
  /\ \A i \in 1..Len(list) : list[i].at <= list[i].upto /\ list[i].upto <= p
  /\ \A i \in 1..Len(list) - 1 : list[i].upto <= list[i + 1].at

LEMMA RisingSpread ==
  ASSUME NEW list \in Seq(Tok), NEW S, S \subseteq 1..Len(list), Len(list) \notin S,
         NEW s, Spread(s, list, S), NEW p \in Nat, Rising(list, p)
  PROVE  Rising(s, p) /\ s \in Seq(Tok)
<1> DEFINE N == Len(list)
           L == Len(s)
<1>1. Placed(s, list, S) BY PlaceSteps
<1>2. N \in Nat /\ L \in Nat /\ s \in Seq(Tok) BY <1>1 DEF Placed
<1>3. /\ \A i \in 1..N : Place(S, i) \in 1..L /\ s[Place(S, i)] = list[i]
      /\ \A i \in S : Place(S, i) + 1 \in 1..L /\ s[Place(S, i) + 1] = CommaBehind(list[i])
      /\ \A i \in 1..N, j \in 1..N :
           j = i + 1 => Place(S, j) = Place(S, i) + IF i \in S THEN 2 ELSE 1
      /\ \A i \in 1..N : i = N => L = Place(S, i) + IF i \in S THEN 1 ELSE 0
  BY <1>1 DEF Placed
<1>4. ASSUME NEW i \in 1..N
      PROVE  /\ list[i].at <= list[i].upto /\ list[i].upto <= p /\ list[i].upto \in Nat
             /\ CommaBehind(list[i]).at = list[i].upto /\ CommaBehind(list[i]).upto = list[i].upto
  <2>1. list[i] \in Tok BY ElementOfSeq
  <2>2. list[i].upto \in Nat BY <2>1, TokenFields
  <2>3. CommaBehind(list[i]).at = list[i].upto /\ CommaBehind(list[i]).upto = list[i].upto
    BY DEF CommaBehind, Token
  <2> QED BY <2>2, <2>3 DEF Rising
<1>5. \A i, j : i \in 1..N - 1 /\ j = i + 1 => list[i].upto <= list[j].at BY DEF Rising
<1>6. ASSUME NEW q \in 1..L
      PROVE  (\E i \in 1..N : q = Place(S, i)) \/ (\E i \in S : q = Place(S, i) + 1)
  <2>1. HasPlace(list, S, q) BY Places
  <2> QED BY <2>1 DEF HasPlace
<1>7. S \subseteq 1..N /\ N \notin S OBVIOUS
<1> HIDE DEF N, L
<1>8. ASSUME NEW q \in 1..L PROVE s[q].at <= s[q].upto /\ s[q].upto <= p
  <2>1. CASE \E i \in 1..N : q = Place(S, i) BY <2>1, <1>3, <1>4
  <2>2. CASE \E i \in S : q = Place(S, i) + 1
    <3>1. PICK i \in S : q = Place(S, i) + 1 BY <2>2
    <3>2. i \in 1..N /\ s[q] = CommaBehind(list[i]) BY <3>1, <1>3, <1>7
    <3>3. s[q].at = list[i].upto /\ s[q].upto = list[i].upto /\ list[i].upto <= p /\ list[i].upto \in Nat
      BY <3>2, <1>4
    <3> QED BY <3>3
  <2> QED BY <2>1, <2>2, <1>6
<1>9. ASSUME NEW q \in 1..L - 1 PROVE s[q].upto <= s[q + 1].at
  <2>1. q \in 1..L /\ q /= L /\ q \in Nat BY <1>2
  <2>2. CASE \E i \in 1..N : q = Place(S, i)
    <3>1. PICK i \in 1..N : q = Place(S, i) BY <2>2
    <3>2. s[q] = list[i] BY <3>1, <1>3
    <3>3. CASE i \in S
      <4>1. s[q + 1] = CommaBehind(list[i]) BY <3>1, <3>3, <1>3
      <4>2. s[q + 1].at = list[i].upto /\ list[i].upto \in Nat BY <4>1, <1>4
      <4>3. s[q].upto = list[i].upto BY <3>2
      <4> DEFINE a == s[q].upto
                 b == s[q + 1].at
      <4>4. a = b /\ a \in Nat BY <4>2, <4>3
      <4> HIDE DEF a, b
      <4>5. a <= b BY <4>4
      <4> QED BY <4>5 DEF a, b
    <3>4. CASE i \notin S
      <4>1. i /= N
        <5>1. i = N => L = q + 0 BY <3>1, <3>4, <1>3
        <5> QED BY <5>1, <2>1
      <4> DEFINE j == i + 1
      <4>2. j \in 1..N /\ i \in 1..N - 1 /\ j = i + 1 BY <4>1, <1>2
      <4> HIDE DEF j
      <4>3. Place(S, j) = q + 1 BY <4>2, <3>1, <3>4, <1>3
      <4>4. s[q + 1] = list[j] BY <4>2, <4>3, <1>3
      <4> QED BY <3>2, <4>2, <4>4, <1>5
    <3> QED BY <3>3, <3>4
  <2>3. CASE \E i \in S : q = Place(S, i) + 1
    <3>1. PICK i \in S : q = Place(S, i) + 1 BY <2>3
    <3> DEFINE j == i + 1
    <3>2. i \in 1..N - 1 /\ j \in 1..N /\ j = i + 1 /\ i \in 1..N
      <4>1. i \in 1..N /\ i /= N BY <1>7
      <4> QED BY <4>1, <1>2
    <3> HIDE DEF j
    <3>3. Place(S, j) = Place(S, i) + 2 /\ Place(S, i) \in Nat BY <3>2, <1>2, <1>3
    <3>4. Place(S, j) = q + 1 BY <3>1, <3>3
    <3>5. s[q + 1] = list[j] /\ s[q] = CommaBehind(list[i]) BY <3>1, <3>2, <3>4, <1>3
    <3>6. s[q].upto = list[i].upto BY <3>2, <3>5, <1>4
    <3> QED BY <3>2, <3>5, <3>6, <1>5
  <2> QED BY <2>1, <2>2, <2>3, <1>6
<1> QED BY <1>2, <1>8, <1>9 DEF Rising, L

(* insert_implicit_expr_delimiters puts a comma behind operands only.           *)
LEMMA InsertionsAre ==
  ASSUME NEW list \in Seq(Tok), NEW n \in Nat, n = Len(list), n > 0, list[n].type = "null"
  PROVE  Commas(list, Insertions(list)) /\ n \notin Insertions(list)
<1>1. DOMAIN list = 1..n BY LenProperties
<1>2. ASSUME NEW i \in Insertions(list)
      PROVE  i \in 1..n /\ list[i].type \in Separated /\ (i = n => list[i].type = ")")
  <2>1. /\ i \in 1..n
        /\ \/ list[i].type = ")"
           \/ i < Len(list) /\ can_insert_comma_between(list[i], list[i + 1])
    BY <1>1 DEF Insertions
  <2>2. CASE list[i].type = ")"
    <3>1. ")" \in Separated BY DEF Separated, Closing
    <3> QED BY <2>1, <2>2, <3>1
  <2>3. CASE i < Len(list) /\ can_insert_comma_between(list[i], list[i + 1])
    <3>1. list[i].type \in Separated BY <2>3 DEF can_insert_comma_between, Separated
    <3> QED BY <2>1, <2>3, <3>1
  <2> QED BY <2>1, <2>2, <2>3
<1>3. n \notin Insertions(list) BY <1>2
<1> QED BY <1>2, <1>3 DEF Commas

(* What ends a text: its tokens and the null token, and commas among them if    *)
(* the text is accepted.                                                         *)
Listed(list) == list = Append(tokens, Token("null", Len(text) + 1, Len(text) + 1))

Ended ==
  /\ ~has_next(pos)
  /\ \E list : \E S :
       /\ Listed(list) /\ S = Insertions(list) /\ status' \in {"scanned", "failed"}
       /\ status' = "scanned" => errors = {} /\ ~Unopened(list) /\ tokens' = Inserted(list, S)
       /\ status' = "failed" => tokens' = list
  /\ UNCHANGED <<pos, errors, line_annotation, comment_depth, annotation_depth, depth, unbalanced, keywords>>

LEMMA EndIs == ASSUME EndOfText PROVE Ended
<1>1. PICK list, S : /\ Listed(list) /\ S = Insertions(list)
                     /\ IF errors = {} /\ ~Unopened(list)
                        THEN status' = "scanned" /\ tokens' = Inserted(list, S)
                        ELSE status' = "failed" /\ tokens' = list
  BY DEF EndOfText, Listed
<1>2. /\ status' \in {"scanned", "failed"}
      /\ status' = "scanned" => errors = {} /\ ~Unopened(list) /\ tokens' = Inserted(list, S)
      /\ status' = "failed" => tokens' = list
  BY <1>1
<1>3. \E l : \E T :
       /\ Listed(l) /\ T = Insertions(l) /\ status' \in {"scanned", "failed"}
       /\ status' = "scanned" => errors = {} /\ ~Unopened(l) /\ tokens' = Inserted(l, T)
       /\ status' = "failed" => tokens' = l
  BY <1>1, <1>2
<1> QED BY <1>3 DEF EndOfText, Ended

LEMMA ListedIs ==
  ASSUME Shape, Ordered(tokens, pos), ~has_next(pos), NEW list, Listed(list)
  PROVE  /\ list \in Seq(Tok) /\ Len(list) = Len(tokens) + 1 /\ Len(list) \in Nat /\ Len(tokens) \in Nat
         /\ list[Len(list)].type = "null" /\ \A i \in 1..Len(tokens) : list[i] = tokens[i]
         /\ Ordered(list, Len(text) + 1) /\ Rising(list, Len(text) + 1) /\ Len(text) + 1 \in Nat
         /\ Commas(list, Insertions(list)) /\ Len(list) \notin Insertions(list)
         /\ Spread(Inserted(list, Insertions(list)), list, Insertions(list))
<1> DEFINE e == Len(text) + 1
           t == Token("null", e, e)
<1>1. tokens \in Seq(Tok) /\ text \in Seq(Units) /\ pos \in 1..e /\ list = Append(tokens, t)
  BY DEF Shape, Listed
<1>2. e \in Nat /\ pos = e /\ pos \in Nat
  <2>1. Len(text) \in Nat BY <1>1, LenProperties
  <2>2. ~(pos <= Len(text)) BY DEF has_next
  <2> QED BY <1>1, <2>1, <2>2
<1>3. t \in Tok /\ t.type = "null" /\ t.at = e /\ t.upto = e
  <2> HIDE DEF e
  <2>1. "null" \in TokenTypes BY Comma
  <2> QED BY <2>1, <1>2, TokenMade
<1> HIDE DEF e, t
<1>4. /\ list \in Seq(Tok) /\ Len(list) = Len(tokens) + 1 /\ Len(tokens) \in Nat
      /\ list[Len(tokens) + 1] = t /\ \A i \in 1..Len(tokens) : list[i] = tokens[i]
  BY <1>1, <1>3, Appended
<1>5. Len(list) \in Nat /\ Len(list) > 0 /\ list[Len(list)].type = "null" BY <1>3, <1>4
<1>6. Ordered(list, e)
  <2>1. Follows(t, pos, e)
    <3>1. e <= e BY <1>2
    <3> QED BY <3>1, <1>2, <1>3 DEF Follows
  <2> QED BY <2>1, <1>1, <1>2, <1>3, OrderedAppended
<1>7. Rising(list, e) BY <1>6 DEF Ordered, Rising
<1>8. Commas(list, Insertions(list)) /\ Len(list) \notin Insertions(list) BY <1>4, <1>5, InsertionsAre
<1>9. Spread(Inserted(list, Insertions(list)), list, Insertions(list))
  <2>1. Insertions(list) \subseteq 1..Len(list) BY <1>8 DEF Commas
  <2> QED BY <2>1, <1>4, InsertedSpreads
<1> QED BY <1>2, <1>4, <1>5, <1>6, <1>7, <1>8, <1>9 DEF e

(* In a list that is balanced every annotation ends before the next begins.     *)
Nests(list) ==
  \A i \in 1..Len(list) : Open(list)[i] >= 0 /\ (list[i].type = "@T" => Open(list)[i - 1] = 0)

LEMMA ListedNests ==
  ASSUME Shape, Ordered(tokens, pos), ~has_next(pos), NEW list, Listed(list),
         Balanced, errors = {}, ~BeginsWithEnd(list)
  PROVE  BalancedAt(list, annotation_depth, line_annotation) /\ Nests(list)
<1> DEFINE t == Token("null", Len(text) + 1, Len(text) + 1)
           d == annotation_depth
           o == Open(tokens)[Len(tokens)]
<1>1. tokens \in Seq(Tok) /\ list = Append(tokens, t) /\ d \in Int BY DEF Shape, Listed
<1>2. Len(text) + 1 \in Nat BY ListedIs
<1>3. t \in Tok /\ t.type = "null"
  <2> DEFINE e == Len(text) + 1
  <2>1. "null" \in TokenTypes /\ e \in Nat BY <1>2, Comma
  <2> HIDE DEF e
  <2>2. Token("null", e, e) \in Tok /\ Token("null", e, e).type = "null" BY <2>1, TokenMade
  <2> QED BY <2>2 DEF e
<1> HIDE DEF t
<1>4. ~BeginsWithEnd(tokens) BY <1>1, <1>3, StillBeginsWithEnd
<1>5. BalancedAt(tokens, d, line_annotation) BY <1>4 DEF Balanced
<1>6. d >= 0 /\ o = d + LineOpen(line_annotation) BY <1>5 DEF BalancedAt
<1>7. LineOpen(line_annotation) \in {0, 1} BY DEF LineOpen
<1>8. d + LineOpen(line_annotation) >= 0
  <2> HIDE DEF d
  <2> QED BY <1>1, <1>6, <1>7
<1>9. NewOpen(t.type, o) = o BY <1>3, SeparatedIs DEF NewOpen
<1>10. t.type \notin {"begin", "@T"} BY <1>3
<1> HIDE DEF o, d
<1>11. BalancedAt(list, d, line_annotation) BY <1>1, <1>3, <1>5, <1>6, <1>8, <1>9, <1>10, BalancedAppended DEF o
<1> QED BY <1>11 DEF BalancedAt, Nests, d

LEMMA NestsSpread ==
  ASSUME NEW list \in Seq(Tok), NEW S, Commas(list, S), NEW s, Spread(s, list, S), Nests(list)
  PROVE  Nests(s)
<1> SUFFICES ASSUME NEW q \in 1..Len(s)
             PROVE  Open(s)[q] >= 0 /\ (s[q].type = "@T" => Open(s)[q - 1] = 0)
  BY DEF Nests
<1>1. S \subseteq 1..Len(list) BY DEF Commas
<1>2. Placed(s, list, S) /\ HasPlace(list, S, q) BY <1>1, PlaceSteps, Places
<1>3. /\ \A i \in 1..Len(list) : /\ Open(s)[Place(S, i)] = Open(list)[i]
                                 /\ Open(s)[Place(S, i) - 1] = Open(list)[i - 1]
      /\ \A i \in S : Open(s)[Place(S, i) + 1] = Open(list)[i]
  BY OpenSpread
<1>4. CASE \E i \in 1..Len(list) : q = Place(S, i)
  <2>1. PICK i \in 1..Len(list) : q = Place(S, i) BY <1>4
  <2>2. s[q] = list[i] /\ Open(s)[q] = Open(list)[i] /\ Open(s)[q - 1] = Open(list)[i - 1]
    BY <2>1, <1>2, <1>3 DEF Placed
  <2> QED BY <2>2 DEF Nests
<1>5. CASE \E i \in S : q = Place(S, i) + 1
  <2>1. PICK i \in S : q = Place(S, i) + 1 BY <1>5
  <2>2. s[q] = CommaBehind(list[i]) /\ Open(s)[q] = Open(list)[i] BY <2>1, <1>2, <1>3 DEF Placed
  <2>3. CommaBehind(list[i]).type = "," BY DEF CommaBehind, Token
  <2>4. i \in 1..Len(list) /\ s[q].type /= "@T" BY <2>2, <2>3, <1>1
  <2> QED BY <2>2, <2>4 DEF Nests
<1> QED BY <1>2, <1>4, <1>5 DEF HasPlace

LEMMA EndShapes ==
  ASSUME Shape, Ordered(tokens, pos), Ended, text' = text
  PROVE  Shape' /\ Rising(tokens', Len(text) + 1)
<1>1. PICK list, S :
       /\ Listed(list) /\ S = Insertions(list) /\ status' \in {"scanned", "failed"}
       /\ status' = "scanned" => errors = {} /\ ~Unopened(list) /\ tokens' = Inserted(list, S)
       /\ status' = "failed" => tokens' = list
  BY DEF Ended
<1>2. /\ list \in Seq(Tok) /\ Rising(list, Len(text) + 1) /\ Len(text) + 1 \in Nat
      /\ Commas(list, S) /\ Len(list) \notin S /\ Spread(Inserted(list, S), list, S)
  BY <1>1, ListedIs DEF Ended
<1>3. S \subseteq 1..Len(list) BY <1>2 DEF Commas
<1>4. Rising(Inserted(list, S), Len(text) + 1) /\ Inserted(list, S) \in Seq(Tok)
  BY <1>2, <1>3, RisingSpread
<1>5. tokens' \in Seq(Tok) /\ Rising(tokens', Len(text) + 1) BY <1>1, <1>2, <1>4
<1>6. Shape' BY <1>1, <1>5 DEF Shape, Ended
<1> QED BY <1>5, <1>6

LEMMA NestsIs ==
  ASSUME Shape', text' = text, status' = "scanned" /\ ~BeginsWithEnd(tokens') => Nests(tokens')
  PROVE  AnnotationsNest'
<1>1. DOMAIN tokens' = 1..Len(tokens') BY LenProperties DEF Shape
<1>2. (~BeginsWithEnd(tokens))' => ~BeginsWithEnd(tokens') BY DEF BeginsWithEnd, Char
<1>3. status' = "scanned" /\ ~BeginsWithEnd(tokens') =>
        \A i \in DOMAIN tokens' :
          Open(tokens')[i] >= 0 /\ (tokens'[i].type = "@T" => Open(tokens')[i - 1] = 0)
  BY <1>1 DEF Nests
<1> QED BY <1>2, <1>3 DEF AnnotationsNest, Scanned

LEMMA EndNests ==
  ASSUME Shape, Ordered(tokens, pos), Balanced, Ended, text' = text
  PROVE  AnnotationsNest'
<1>1. SUFFICES ASSUME status' = "scanned", ~BeginsWithEnd(tokens') PROVE Nests(tokens')
  BY EndShapes, NestsIs
<1>2. PICK list, S :
       Listed(list) /\ S = Insertions(list) /\ errors = {} /\ ~Unopened(list) /\ tokens' = Inserted(list, S)
  BY <1>1 DEF Ended
<1>3. list \in Seq(Tok) /\ Commas(list, S) /\ Spread(tokens', list, S) BY <1>2, ListedIs DEF Ended
<1>4. ~BeginsWithEnd(list) BY <1>1, <1>3, BeginsWithEndSpread
<1>5. Nests(list) BY <1>2, <1>4, ListedNests DEF Ended
<1> QED BY <1>3, <1>5, NestsSpread

ScanInv ==
  /\ Shape /\ AnnotationsEnd
  /\ status = "scanning" => Ordered(tokens, pos) /\ Balanced

LEMMA RisingIs == ASSUME Shape, Rising(tokens, Len(text) + 1) PROVE TypeOK
<1>1. DOMAIN tokens = 1..Len(tokens) BY LenProperties DEF Shape
<1> QED BY <1>1 DEF Shape, Rising, TypeOK

LEMMA ScanInvInit == Init => ScanInv
<1> SUFFICES ASSUME Init PROVE ScanInv OBVIOUS
<1>1. text \in Seq(Units) /\ Len(text) \in Nat BY TextsAssumption, LenProperties DEF Init
<1>2. NoKeywords \in Keywords BY DEF NoKeywords, Keywords
<1>3. tokens \in Seq(Tok) /\ Len(tokens) = 0 /\ tokens = <<>> BY DEF Init
<1>4. Shape
  <2>1. pos = 1 /\ 1 \in 1..Len(text) + 1 BY <1>1 DEF Init
  <2>2. depth \in [Opening -> Int] BY DEF Init
  <2>3. 0 \in Nat /\ 0 \in Int OBVIOUS
  <2> QED BY <1>1, <1>2, <1>3, <2>1, <2>2, <2>3 DEF Init, Shape
<1>5. \A i \in 1..0 : FALSE OBVIOUS
<1>6. \A i \in 1..0 - 1 : FALSE OBVIOUS
<1>7. Ordered(tokens, pos) /\ Rising(tokens, Len(text) + 1) BY <1>3, <1>5, <1>6 DEF Ordered, Rising
<1>8. Open(tokens)[0] = 0 BY <1>3, OpenIs
<1>9. BalancedAt(tokens, annotation_depth, line_annotation)
  BY <1>3, <1>5, <1>8 DEF BalancedAt, LineOpen, Init
<1> QED BY <1>4, <1>7, <1>9, RisingIs DEF ScanInv, AnnotationsEnd, AnnotationsNest, Scanned, Balanced, Init

LEMMA ScanInvNext == ScanInv /\ [Next]_vars => ScanInv'
<1> SUFFICES ASSUME ScanInv, [Next]_vars PROVE ScanInv' OBVIOUS
<1>1. CASE UNCHANGED vars
  BY <1>1 DEF vars, ScanInv, Shape, AnnotationsEnd, TypeOK, AnnotationsNest, Scanned, BeginsWithEnd, Char,
              Balanced
<1>2. ASSUME Scan, text' = text PROVE ScanInv'
  <2>1. status = "scanning" /\ status' = status BY <1>2 DEF Scan
  <2>2. Shape /\ Ordered(tokens, pos) /\ Balanced BY <2>1 DEF ScanInv
  <2>3. Steps BY <2>2, <1>2, ScanSteps
  <2>4. Shape' /\ Ordered(tokens', pos') BY <2>1, <2>2, <2>3, <1>2, ShapeKept
  <2>5. Balanced' BY <2>2, <2>3, <1>2, BalancedKept
  <2>6. Rising(tokens', Len(text') + 1)
    <3>1. pos' \in 1..Len(text') + 1 /\ tokens' \in Seq(Tok) /\ Len(text') \in Nat
      BY <2>4, LenProperties DEF Shape
    <3>2. pos' \in Nat /\ Len(text') + 1 \in Nat /\ pos' <= Len(text') + 1 BY <3>1
    <3>3. Ordered(tokens', Len(text') + 1) BY <3>1, <3>2, <2>4, OrderedLater
    <3> QED BY <3>3 DEF Ordered, Rising
  <2>7. TypeOK'
    <3>1. DOMAIN tokens' = 1..Len(tokens') BY <2>4, LenProperties DEF Shape
    <3> QED BY <3>1, <2>4, <2>6 DEF Shape, Rising, TypeOK
  <2>8. AnnotationsNest' BY <2>1 DEF AnnotationsNest, Scanned
  <2> QED BY <2>4, <2>5, <2>7, <2>8 DEF ScanInv, AnnotationsEnd
<1>3. ASSUME EndOfText, status = "scanning", text' = text PROVE ScanInv'
  <2>1. Shape /\ Ordered(tokens, pos) /\ Balanced BY <1>3 DEF ScanInv
  <2>2. Ended BY <1>3, EndIs
  <2>3. Shape' /\ Rising(tokens', Len(text) + 1) /\ AnnotationsNest' BY <2>1, <2>2, <1>3, EndShapes, EndNests
  <2>4. TypeOK'
    <3>1. DOMAIN tokens' = 1..Len(tokens') BY <2>3, LenProperties DEF Shape
    <3> QED BY <3>1, <2>3, <1>3 DEF Shape, Rising, TypeOK
  <2>5. status' /= "scanning" BY <2>2 DEF Ended
  <2> QED BY <2>3, <2>4, <2>5 DEF ScanInv, AnnotationsEnd
<1> QED BY <1>1, <1>2, <1>3 DEF Next

(* Annotations end as often as they begin: in every text that is accepted, each *)
(* annotation is closed before the next begins, and no end_type is left over,   *)
(* whatever the nesting of comment blocks, begins and lines (scan.cpp:419-447,  *)
(* 462-472).                                                                     *)
THEOREM EveryAnnotationEnds == Spec => []AnnotationsEnd
<1>1. ScanInv => AnnotationsEnd BY DEF ScanInv
<1> QED BY <1>1, ScanInvInit, ScanInvNext, PTL DEF Spec

------------------------------------------------------------------------------
(* The commas are where the text implies them, and nowhere else.               *)

Delta(list, i, opening, closing) ==
  CASE list[i].type = opening -> 1 [] list[i].type = closing -> -1 [] OTHER -> 0

LEMMA NestingIs ==
  ASSUME NEW list \in Seq(Tok), NEW opening, NEW closing, opening /= closing
  PROVE  /\ Nesting(list, opening, closing) \in [0..Len(list) -> Int]
         /\ Nesting(list, opening, closing)[0] = 0
         /\ \A i \in 1..Len(list) :
              Nesting(list, opening, closing)[i]
                = Nesting(list, opening, closing)[i - 1] + Delta(list, i, opening, closing)
<1> DEFINE N == Len(list)
           D == [i \in 1..N |-> [x \in Int |-> x + Delta(list, i, opening, closing)]]
           n == Nesting(list, opening, closing)
<1>1. N \in Nat /\ 0 \in Int BY LenProperties
<1>0. \A i : Delta(list, i, opening, closing) \in Int BY DEF Delta
<1>2. \A i, x : x \in Int => x + Delta(list, i, opening, closing) \in Int BY <1>0
<1>3. D \in [1..N -> [Int -> Int]] BY <1>2
<1>4. \A i \in 1..N : \A x \in Int : D[i][x] = x + Delta(list, i, opening, closing) OBVIOUS
<1> HIDE DEF D
<1>5. PICK f \in [0..N -> Int] : f[0] = 0 /\ \A i \in 1..N : f[i] = D[i][f[i - 1]]
  <2> HIDE DEF N, n
  <2>1. \E f \in [0..N -> Int] : Recursive(f, N, 0, D) BY <1>1, <1>3, RecursiveFunction
  <2> QED BY <2>1 DEF Recursive
<1>6. \A i \in 1..N : f[i] = f[i - 1] + Delta(list, i, opening, closing)
  <2> SUFFICES ASSUME NEW i \in 1..N PROVE f[i] = f[i - 1] + Delta(list, i, opening, closing) OBVIOUS
  <2>1. i - 1 \in 0..N BY <1>1
  <2> QED BY <2>1, <1>4, <1>5
<1>7. f = [i \in 0..N |-> IF i = 0 THEN 0 ELSE f[i - 1] + Delta(list, i, opening, closing)]
  <2>1. \A i \in 0..N : i /= 0 => i \in 1..N OBVIOUS
  <2>2. \A i \in 0..N : f[i] = IF i = 0 THEN 0 ELSE f[i - 1] + Delta(list, i, opening, closing)
    BY <2>1, <1>5, <1>6
  <2> QED BY <2>2
<1>8. n = [i \in 0..N |-> IF i = 0 THEN 0 ELSE n[i - 1] + Delta(list, i, opening, closing)]
  BY <1>7 DEF Nesting, Delta
<1> HIDE DEF n
<1>9. \A i \in 0..N : n[i] = IF i = 0 THEN 0 ELSE n[i - 1] + Delta(list, i, opening, closing)
  BY <1>8
<1>10. 0..N \subseteq {i \in 0..N : n[i] \in Int}
  <2> DEFINE S == {i \in 0..N : n[i] \in Int}
  <2>1. 0 \in S BY <1>1, <1>9
  <2>2. ASSUME NEW k \in 1..N, k - 1 \in S PROVE k \in S
    <3>1. k \in 0..N /\ k /= 0 OBVIOUS
    <3>2. n[k] = n[k - 1] + Delta(list, k, opening, closing) BY <3>1, <1>9
    <3> QED BY <3>1, <3>2, <2>2, <1>2
  <2> HIDE DEF S
  <2>3. 0..N \subseteq S BY <1>1, <2>1, <2>2, UpTo
  <2> QED BY <2>3 DEF S
<1>11. n \in [0..N -> Int]
  <2>1. \A i \in 0..N : n[i] \in Int BY <1>10
  <2>2. DOMAIN n = 0..N /\ n = [i \in 0..N |-> n[i]] BY <1>8
  <2> QED BY <2>1, <2>2
<1>12. \A i \in 1..N : i \in 0..N /\ i /= 0 OBVIOUS
<1>13. n[0] = 0 /\ \A i \in 1..N : n[i] = n[i - 1] + Delta(list, i, opening, closing)
  BY <1>1, <1>9, <1>12
<1> QED BY <1>11, <1>13 DEF n

AwaitAt(list, i, before) ==
  IF TypeAt(list, i) = "@" /\ TypeAt(list, i + 1) = "(" THEN TRUE
  ELSE IF TypeAt(list, i) = ")" THEN FALSE ELSE before

LEMMA AwaitsIs ==
  ASSUME NEW list \in Seq(Tok)
  PROVE  /\ AwaitsInputs(list) \in [0..Len(list) -> BOOLEAN] /\ AwaitsInputs(list)[0] = FALSE
         /\ \A i \in 1..Len(list) : AwaitsInputs(list)[i] = AwaitAt(list, i, AwaitsInputs(list)[i - 1])
<1> DEFINE N == Len(list)
           D == [i \in 1..N |-> [x \in BOOLEAN |-> AwaitAt(list, i, x)]]
           w == AwaitsInputs(list)
<1>1. N \in Nat /\ FALSE \in BOOLEAN /\ DOMAIN list = 1..N BY LenProperties
<1>2. \A i : \A x \in BOOLEAN : AwaitAt(list, i, x) \in BOOLEAN BY DEF AwaitAt
<1>3. D \in [1..N -> [BOOLEAN -> BOOLEAN]] BY <1>2
<1>4. \A i \in 1..N : \A x \in BOOLEAN : D[i][x] = AwaitAt(list, i, x) OBVIOUS
<1> HIDE DEF D
<1>5. PICK f \in [0..N -> BOOLEAN] : f[0] = FALSE /\ \A i \in 1..N : f[i] = D[i][f[i - 1]]
  <2> HIDE DEF N, w
  <2>1. \E f \in [0..N -> BOOLEAN] : Recursive(f, N, FALSE, D) BY <1>1, <1>3, RecursiveFunction
  <2> QED BY <2>1 DEF Recursive
<1>6. \A i \in 1..N : f[i] = AwaitAt(list, i, f[i - 1])
  <2> SUFFICES ASSUME NEW i \in 1..N PROVE f[i] = AwaitAt(list, i, f[i - 1]) OBVIOUS
  <2>1. i - 1 \in 0..N BY <1>1
  <2> QED BY <2>1, <1>4, <1>5
<1>14. TypeAt(list, 0) = "null"
  <2>1. 0 \notin DOMAIN list BY <1>1
  <2> QED BY <2>1 DEF TypeAt
<1> DEFINE Case(g, i) == CASE i = 0 -> FALSE
                           [] TypeAt(list, i) = "@" /\ TypeAt(list, i + 1) = "(" -> TRUE
                           [] TypeAt(list, i) = ")" -> FALSE
                           [] OTHER -> g[i - 1]
           If(g, i) == IF i = 0 THEN FALSE ELSE AwaitAt(list, i, g[i - 1])
<1>15. \A g, i : Case(g, i) = If(g, i)
  <2> SUFFICES ASSUME NEW g, NEW i PROVE Case(g, i) = If(g, i) OBVIOUS
  <2>1. CASE i = 0 BY <2>1, <1>14
  <2>2. CASE i /= 0 BY <2>2 DEF AwaitAt
  <2> QED BY <2>1, <2>2
<1>7. f = [i \in 0..N |-> If(f, i)]
  <2>1. \A i \in 0..N : i /= 0 => i \in 1..N OBVIOUS
  <2>2. \A i \in 0..N : f[i] = If(f, i) BY <2>1, <1>5, <1>6
  <2> HIDE DEF If
  <2> QED BY <2>2
<1>16. f = [i \in 0..N |-> Case(f, i)]
  <2> HIDE DEF If, Case
  <2> QED BY <1>7, <1>15
<1>17. w = [i \in 0..N |-> Case(w, i)] BY <1>16 DEF AwaitsInputs
<1> HIDE DEF w
<1>9. \A i \in 0..N : w[i] = If(w, i)
  <2> HIDE DEF If, Case
  <2>1. \A i \in 0..N : w[i] = Case(w, i) BY <1>17
  <2> QED BY <2>1, <1>15
<1>10. 0..N \subseteq {i \in 0..N : w[i] \in BOOLEAN}
  <2> DEFINE S == {i \in 0..N : w[i] \in BOOLEAN}
  <2>1. 0 \in S BY <1>1, <1>9
  <2>2. ASSUME NEW k \in 1..N, k - 1 \in S PROVE k \in S
    <3>1. k \in 0..N /\ k /= 0 OBVIOUS
    <3>2. w[k] = AwaitAt(list, k, w[k - 1]) BY <3>1, <1>9
    <3>3. w[k] \in BOOLEAN BY <3>2, <2>2, <1>2
    <3> QED BY <3>1, <3>3
  <2> HIDE DEF S
  <2>3. 0..N \subseteq S BY <1>1, <2>1, <2>2, UpTo
  <2> QED BY <2>3 DEF S
<1>11. w \in [0..N -> BOOLEAN]
  <2>1. \A i \in 0..N : w[i] \in BOOLEAN BY <1>10
  <2>2. DOMAIN w = 0..N /\ w = [i \in 0..N |-> w[i]]
    <3> HIDE DEF Case
    <3> QED BY <1>17
  <2> QED BY <2>1, <2>2
<1>12. \A i \in 1..N : i \in 0..N /\ i /= 0 OBVIOUS
<1>13. w[0] = FALSE /\ \A i \in 1..N : w[i] = AwaitAt(list, i, w[i - 1])
  BY <1>1, <1>9, <1>12
<1> QED BY <1>11, <1>13 DEF w

(* Inputs are awaited from an "@(" to the next ")".                             *)
BeginsInputs(list, j) == TypeAt(list, j) = "@" /\ TypeAt(list, j + 1) = "("

Awaited(list, i) ==
  \E j \in 1..i : BeginsInputs(list, j) /\ \A k \in j..i : list[k].type /= ")"

LEMMA AwaitsWhen ==
  ASSUME NEW list \in Seq(Tok)
  PROVE  \A i \in 0..Len(list) : AwaitsInputs(list)[i] <=> Awaited(list, i)
<1> DEFINE N == Len(list)
           w == AwaitsInputs(list)
           A == {i \in 0..N : w[i] <=> Awaited(list, i)}
<1>1. N \in Nat /\ DOMAIN list = 1..N BY LenProperties
<1>2. /\ w \in [0..N -> BOOLEAN] /\ w[0] = FALSE
      /\ \A i \in 1..N : w[i] = AwaitAt(list, i, w[i - 1])
  BY AwaitsIs
<1>3. \A i \in 1..N : TypeAt(list, i) = list[i].type BY <1>1 DEF TypeAt
<1> HIDE DEF N, w
<1>4. 0 \in A
  <2>1. \A j \in 1..0 : FALSE OBVIOUS
  <2>2. ~Awaited(list, 0) BY <2>1 DEF Awaited
  <2> QED BY <2>2, <1>1, <1>2
<1>5. ASSUME NEW i \in 1..N, i - 1 \in A PROVE i \in A
  <2>1. i - 1 \in 0..N /\ i \in 0..N /\ i \in Nat BY <1>1
  <2>2. w[i - 1] <=> Awaited(list, i - 1) BY <1>5
  <2>3. w[i] = AwaitAt(list, i, w[i - 1]) BY <1>2
  <2>4. CASE BeginsInputs(list, i)
    <3>1. w[i] = TRUE BY <2>3, <2>4 DEF AwaitAt, BeginsInputs
    <3>2. \A k \in i..i : k = i BY <2>1
    <3>3. list[i].type /= ")" BY <2>4, <1>3 DEF BeginsInputs
    <3>4. i \in 1..i BY <2>1
    <3>5. Awaited(list, i) BY <2>4, <3>2, <3>3, <3>4 DEF Awaited
    <3> QED BY <3>1, <3>5, <2>1
  <2>5. CASE list[i].type = ")"
    <3>1. w[i] = FALSE BY <2>3, <2>5, <1>3 DEF AwaitAt
    <3>2. \A j \in 1..i : i \in j..i BY <2>1
    <3>3. ~Awaited(list, i) BY <2>5, <3>2 DEF Awaited
    <3> QED BY <3>1, <3>3, <2>1
  <2>6. CASE ~BeginsInputs(list, i) /\ list[i].type /= ")"
    <3>1. w[i] = w[i - 1] BY <2>3, <2>6, <1>3 DEF AwaitAt, BeginsInputs
    <3>2. ASSUME Awaited(list, i - 1) PROVE Awaited(list, i)
      <4>1. PICK j \in 1..i - 1 : BeginsInputs(list, j) /\ \A k \in j..i - 1 : list[k].type /= ")"
        BY <3>2 DEF Awaited
      <4>2. \A k \in j..i : k = i \/ k \in j..i - 1 BY <2>1
      <4>3. j \in 1..i BY <2>1
      <4> QED BY <2>6, <4>1, <4>2, <4>3 DEF Awaited
    <3>3. ASSUME Awaited(list, i) PROVE Awaited(list, i - 1)
      <4>1. PICK j \in 1..i : BeginsInputs(list, j) /\ \A k \in j..i : list[k].type /= ")"
        BY <3>3 DEF Awaited
      <4>2. j /= i BY <4>1, <2>6
      <4>3. j \in 1..i - 1 /\ \A k \in j..i - 1 : k \in j..i BY <2>1, <4>2
      <4> QED BY <4>1, <4>3 DEF Awaited
    <3> QED BY <3>1, <3>2, <3>3, <2>1, <2>2
  <2> QED BY <2>4, <2>5, <2>6
<1>6. 0..N \subseteq A
  <2> HIDE DEF A
  <2> QED BY <1>1, <1>4, <1>5, UpTo
<1> QED BY <1>6 DEF N, w

(* How many tokens of some types there are up to a token. *)
Typed(list, T) == {j \in 1..Len(list) : list[j].type \in T}
Count(list, T, i) == Before(Typed(list, T), i + 1)

LEMMA CountIs ==
  ASSUME NEW list \in Seq(Tok), NEW T
  PROVE  /\ \A i \in 0..Len(list) : Count(list, T, i) \in Nat
         /\ Count(list, T, 0) = 0
         /\ \A i \in 1..Len(list) : \A j : j = i - 1 =>
              Count(list, T, i) = Count(list, T, j) + IF list[i].type \in T THEN 1 ELSE 0
<1> DEFINE N == Len(list)
           S == Typed(list, T)
<1>1. N \in Nat BY LenProperties
<1>2. S \subseteq 1..N BY DEF Typed
<1>3. \A i \in 1..N : i \in S <=> list[i].type \in T BY DEF Typed
<1> HIDE DEF S, N
<1>4. ASSUME NEW i \in Int
      PROVE  Before(S, i) \in Nat /\ Before(S, i + 1) = Before(S, i) + IF i \in S THEN 1 ELSE 0
  BY <1>1, <1>2, BeforeStep
<1>5. Before(S, 1) = 0
  <2>1. 1 \in Int OBVIOUS
  <2> QED BY <1>1, <1>2, <2>1, BeforeStep
<1>6. ASSUME NEW i \in 1..N, NEW j, j = i - 1
      PROVE  Count(list, T, i) = Count(list, T, j) + IF list[i].type \in T THEN 1 ELSE 0
  <2>1. j + 1 = i /\ i \in Int BY <1>1, <1>6
  <2>2. Before(S, i + 1) = Before(S, i) + IF i \in S THEN 1 ELSE 0 BY <2>1, <1>4
  <2> QED BY <2>1, <2>2, <1>3 DEF Count, S
<1>7. \A i \in 0..N : i + 1 \in Int BY <1>1
<1>8. \A i \in 0..N : Count(list, T, i) \in Nat BY <1>4, <1>7 DEF Count, S
<1>9. 0 + 1 = 1 OBVIOUS
<1> QED BY <1>5, <1>6, <1>8, <1>9 DEF Count, S, N

(* The scanner counts brackets and braces apart; of which more are open is the *)
(* same question if neither is ever closed before it was opened.                *)
Opener == {"[", "{"}
Closer == {"]", "}"}
Bracket(list) == Nesting(list, "[", "]")
Brace(list) == Nesting(list, "{", "}")
BracketDelta(list, i) == Delta(list, i, "[", "]")
BraceDelta(list, i) == Delta(list, i, "{", "}")
Weight(p, q) == IF p THEN 1 ELSE IF q THEN -1 ELSE 0
One(p) == IF p THEN 1 ELSE 0

LEMMA DeltasAre ==
  ASSUME NEW list, NEW i
  PROVE  /\ BracketDelta(list, i) + BraceDelta(list, i)
              = One(list[i].type \in Opener) - One(list[i].type \in Closer)
         /\ BracketDelta(list, i) \in Int /\ BraceDelta(list, i) \in Int
<1> DEFINE t == list[i].type
           a == t = "["
           b == t = "]"
           c == t = "{"
           d == t = "}"
           x == BracketDelta(list, i)
           y == BraceDelta(list, i)
           u == t \in Opener
           v == t \in Closer
<1>1. (u <=> a \/ c) /\ (v <=> b \/ d) BY DEF Opener, Closer
<1>2. ~(a /\ b) /\ ~(a /\ c) /\ ~(a /\ d) /\ ~(b /\ c) /\ ~(b /\ d) /\ ~(c /\ d) OBVIOUS
<1>3. x = Weight(a, b)
  <2>1. x = CASE a -> 1 [] b -> -1 [] OTHER -> 0 BY DEF BracketDelta, Delta
  <2>2. ~(a /\ b) BY <1>2
  <2> HIDE DEF a, b, x
  <2> QED BY <2>1, <2>2 DEF Weight
<1>4. y = Weight(c, d)
  <2>1. y = CASE c -> 1 [] d -> -1 [] OTHER -> 0 BY DEF BraceDelta, Delta
  <2>2. ~(c /\ d) BY <1>2
  <2> HIDE DEF c, d, y
  <2> QED BY <2>1, <2>2 DEF Weight
<1>5. a \in BOOLEAN /\ b \in BOOLEAN /\ c \in BOOLEAN /\ d \in BOOLEAN /\ u \in BOOLEAN /\ v \in BOOLEAN
  OBVIOUS
<1> HIDE DEF a, b, c, d, x, y, u, v
<1>6. x + y = One(u) - One(v) /\ x \in Int /\ y \in Int
  <2>1. CASE a BY <2>1, <1>1, <1>2, <1>3, <1>4, <1>5 DEF Weight, One
  <2>2. CASE b BY <2>2, <1>1, <1>2, <1>3, <1>4, <1>5 DEF Weight, One
  <2>3. CASE c BY <2>3, <1>1, <1>2, <1>3, <1>4, <1>5 DEF Weight, One
  <2>4. CASE d BY <2>4, <1>1, <1>2, <1>3, <1>4, <1>5 DEF Weight, One
  <2>5. CASE ~a /\ ~b /\ ~c /\ ~d BY <2>5, <1>1, <1>3, <1>4, <1>5 DEF Weight, One
  <2> QED BY <2>1, <2>2, <2>3, <2>4, <2>5
<1> QED BY <1>6 DEF x, y, u, v

LEMMA BracketIs ==
  ASSUME NEW list \in Seq(Tok)
  PROVE  /\ Bracket(list)[0] = 0 /\ \A i \in 0..Len(list) : Bracket(list)[i] \in Int
         /\ \A i \in 1..Len(list) : \A j : j = i - 1 =>
              Bracket(list)[i] = Bracket(list)[j] + BracketDelta(list, i)
<1> DEFINE a == Bracket(list)
<1>1. "[" /= "]" OBVIOUS
<1>2. /\ a \in [0..Len(list) -> Int] /\ a[0] = 0
      /\ \A i \in 1..Len(list) : a[i] = a[i - 1] + BracketDelta(list, i)
  BY <1>1, NestingIs DEF Bracket, BracketDelta
<1> HIDE DEF a
<1> QED BY <1>2 DEF a

LEMMA BraceIs ==
  ASSUME NEW list \in Seq(Tok)
  PROVE  /\ Brace(list)[0] = 0 /\ \A i \in 0..Len(list) : Brace(list)[i] \in Int
         /\ \A i \in 1..Len(list) : \A j : j = i - 1 =>
              Brace(list)[i] = Brace(list)[j] + BraceDelta(list, i)
<1> DEFINE a == Brace(list)
           open == "{"
           shut == "}"
<1>1. open /= shut OBVIOUS
<1>3. a = Nesting(list, open, shut) /\ \A i : BraceDelta(list, i) = Delta(list, i, open, shut)
  BY DEF Brace, BraceDelta
<1> HIDE DEF a, open, shut
<1>2. /\ a \in [0..Len(list) -> Int] /\ a[0] = 0
      /\ \A i \in 1..Len(list) : a[i] = a[i - 1] + BraceDelta(list, i)
  BY <1>1, <1>3, NestingIs
<1> QED BY <1>2 DEF a

LEMMA NestingCounts ==
  ASSUME NEW list \in Seq(Tok)
  PROVE  \A i \in 0..Len(list) :
           Bracket(list)[i] + Brace(list)[i] = Count(list, Opener, i) - Count(list, Closer, i)
<1> DEFINE N == Len(list)
           a == Bracket(list)
           b == Brace(list)
           c(i) == Count(list, Opener, i)
           d(i) == Count(list, Closer, i)
           A == {i \in 0..N : a[i] + b[i] = c(i) - d(i)}
<1>1. N \in Nat BY LenProperties
<1>2. a[0] = 0 /\ b[0] = 0 /\ \A i \in 0..N : a[i] \in Int /\ b[i] \in Int BY BracketIs, BraceIs
<1>3. /\ \A i \in 1..N : \A j : j = i - 1 => a[i] = a[j] + BracketDelta(list, i)
      /\ \A i \in 1..N : \A j : j = i - 1 => b[i] = b[j] + BraceDelta(list, i)
  BY BracketIs, BraceIs
<1>4. c(0) = 0 /\ d(0) = 0 /\ \A i \in 0..N : c(i) \in Nat /\ d(i) \in Nat BY CountIs
<1>5. /\ \A i \in 1..N : \A j : j = i - 1 => c(i) = c(j) + One(list[i].type \in Opener)
      /\ \A i \in 1..N : \A j : j = i - 1 => d(i) = d(j) + One(list[i].type \in Closer)
  BY CountIs DEF One
<1> HIDE DEF N, a, b, c, d
<1>6. 0 \in A
  <2>1. 0 \in 0..N BY <1>1
  <2> QED BY <2>1, <1>2, <1>4
<1>7. ASSUME NEW i \in 1..N, i - 1 \in A PROVE i \in A
  <2> DEFINE j == i - 1
             x == BracketDelta(list, i)
             y == BraceDelta(list, i)
             u == One(list[i].type \in Opener)
             v == One(list[i].type \in Closer)
  <2>1. j \in 0..N /\ i \in 0..N /\ j = i - 1 BY <1>1
  <2>2. x + y = u - v /\ x \in Int /\ y \in Int BY DeltasAre
  <2>8. u \in Int /\ v \in Int BY DEF One
  <2>3. a[j] + b[j] = c(j) - d(j) BY <1>7
  <2>4. a[i] = a[j] + x /\ b[i] = b[j] + y BY <1>3
  <2>5. c(i) = c(j) + u /\ d(i) = d(j) + v BY <1>5
  <2> HIDE DEF x, y, u, v, j
  <2>6. a[j] \in Int /\ b[j] \in Int /\ c(j) \in Int /\ d(j) \in Int BY <2>1, <1>2, <1>4
  <2> DEFINE aj == a[j]
             bj == b[j]
             cj == c(j)
             dj == d(j)
             ai == a[i]
             bi == b[i]
             ci == c(i)
             di == d(i)
  <2>9. aj \in Int /\ bj \in Int /\ cj \in Int /\ dj \in Int /\ aj + bj = cj - dj BY <2>3, <2>6
  <2>10. ai = aj + x /\ bi = bj + y /\ ci = cj + u /\ di = dj + v BY <2>4, <2>5
  <2>11. ai + bi = ci - di
    <3> HIDE DEF aj, bj, cj, dj, ai, bi, ci, di
    <3> QED BY <2>2, <2>8, <2>9, <2>10
  <2>7. a[i] + b[i] = c(i) - d(i) BY <2>11
  <2> QED BY <2>1, <2>7
<1>8. 0..N \subseteq A
  <2> HIDE DEF A
  <2> QED BY <1>1, <1>6, <1>7, UpTo
<1> QED BY <1>8 DEF N, a, b, c, d

NoComma(T) == "," \notin T
CountsKept(s, list, S, T) == \A i \in 1..Len(list) : Count(s, T, Place(S, i)) = Count(list, T, i)

LEMMA CountSpread ==
  ASSUME NEW list \in Seq(Tok), NEW S, S \subseteq 1..Len(list), NEW s, Spread(s, list, S),
         NEW T, NoComma(T)
  PROVE  CountsKept(s, list, S, T)
<1> DEFINE N == Len(list)
           Width(i) == IF i \in S THEN 1 ELSE 0
           A == {k \in 0..N : k /= 0 => /\ Count(s, T, Place(S, k)) = Count(list, T, k)
                                        /\ Count(s, T, Place(S, k) + Width(k)) = Count(list, T, k)}
<1>1. Placed(s, list, S) BY PlaceSteps
<1>2. s \in Seq(Tok) /\ N \in Nat /\ Len(s) \in Nat BY <1>1 DEF Placed
<1>10. /\ \A i \in 1..N : Place(S, i) \in 1..Len(s) /\ s[Place(S, i)] = list[i]
       /\ \A i \in S : Place(S, i) + 1 \in 1..Len(s) /\ s[Place(S, i) + 1] = CommaBehind(list[i])
  BY <1>1 DEF Placed
<1>11. \A i \in 1..N : i = 1 => Place(S, i) = 1 BY <1>1 DEF Placed
<1>12. \A i \in 1..N, j \in 1..N : j = i + 1 => Place(S, j) = Place(S, i) + IF i \in S THEN 2 ELSE 1
  BY <1>1 DEF Placed
<1>13. \A q \in 0..Len(s) : Count(s, T, q) \in Nat BY <1>2, CountIs
<1>14. Count(s, T, 0) = 0 /\ Count(list, T, 0) = 0 BY <1>2, CountIs
<1>3. /\ \A q \in 1..Len(s) : \A p : p = q - 1 =>
           Count(s, T, q) = Count(s, T, p) + IF s[q].type \in T THEN 1 ELSE 0
      /\ \A i \in 1..N : \A j : j = i - 1 =>
           Count(list, T, i) = Count(list, T, j) + IF list[i].type \in T THEN 1 ELSE 0
  BY <1>2, CountIs
<1>4. S \subseteq 1..N OBVIOUS
<1> HIDE DEF N
<1>5. ASSUME NEW k \in 1..N, Count(s, T, Place(S, k) - 1) = Count(list, T, k - 1) PROVE k \in A
  <2> DEFINE p == Place(S, k)
             o == p - 1
  <2>1. p \in 1..Len(s) /\ s[p] = list[k] /\ o = p - 1 BY <1>10
  <2>2. Count(s, T, p) = Count(list, T, k)
    <3> DEFINE l == k - 1
               e == IF s[p].type \in T THEN 1 ELSE 0
    <3>1. Count(s, T, o) = Count(list, T, l) BY <1>5
    <3>2. s[p].type = list[k].type BY <2>1
    <3>3. Count(list, T, k) = Count(list, T, l) + e BY <3>2, <1>3
    <3>4. Count(s, T, p) = Count(s, T, o) + e
      <4> HIDE DEF p, o
      <4> QED BY <2>1, <1>3
    <3> HIDE DEF e, l, p, o
    <3> QED BY <3>1, <3>3, <3>4
  <2>3. ASSUME k \in S PROVE Count(s, T, p + 1) = Count(s, T, p)
    <3> DEFINE q == p + 1
    <3>1. q \in 1..Len(s) /\ s[q] = CommaBehind(list[k]) BY <2>3, <1>10
    <3>3. s[q].type \notin T
      <4>1. CommaBehind(list[k]).type = "," BY DEF CommaBehind, Token
      <4> QED BY <3>1, <4>1 DEF NoComma
    <3>4. p = q - 1 /\ p \in 0..Len(s) BY <2>1, <1>2
    <3> HIDE DEF p, q, o
    <3>5. Count(s, T, q) = Count(s, T, p) + 0 BY <3>1, <3>3, <3>4, <1>3
    <3>6. Count(s, T, p) \in Nat BY <3>4, <1>13
    <3>7. Count(s, T, q) = Count(s, T, p)
      <4> DEFINE x == Count(s, T, p)
                 y == Count(s, T, q)
      <4>1. y = x + 0 /\ x \in Nat BY <3>5, <3>6
      <4> HIDE DEF x, y
      <4>2. y = x BY <4>1
      <4> QED BY <4>2 DEF x, y
    <3> QED BY <3>7 DEF q
  <2>4. p + 0 = p BY <2>1, <1>2
  <2>5. Count(s, T, p + Width(k)) = Count(list, T, k) BY <2>2, <2>3, <2>4
  <2>6. k \in 0..N BY <1>2
  <2> QED BY <2>2, <2>5, <2>6
<1>6. ASSUME NEW k \in 1..N, k - 1 \in A PROVE k \in A
  <2>1. CASE k = 1
    <3>1. Place(S, k) - 1 = 0 /\ k - 1 = 0 BY <2>1, <1>11
    <3>2. Count(s, T, Place(S, k) - 1) = Count(list, T, k - 1) BY <3>1, <1>14
    <3> HIDE DEF A
    <3> QED BY <3>2, <1>5
  <2>2. CASE k /= 1
    <3> DEFINE i == k - 1
    <3>1. i \in 1..N /\ k = i + 1 /\ i /= 0 BY <2>2, <1>2
    <3>2. i \in A BY <1>6
    <3> HIDE DEF i
    <3>3. Count(s, T, Place(S, i) + Width(i)) = Count(list, T, i) BY <3>1, <3>2
    <3>4. Place(S, k) = Place(S, i) + (IF i \in S THEN 2 ELSE 1) BY <3>1, <1>12
    <3>5. Place(S, k) - 1 = Place(S, i) + Width(i)
      <4>1. Place(S, i) \in Int BY <3>1, <1>2, <1>10
      <4> QED BY <4>1, <3>4
    <3>6. Count(s, T, Place(S, k) - 1) = Count(list, T, k - 1) BY <3>3, <3>5 DEF i
    <3> HIDE DEF A
    <3> QED BY <3>6, <1>5
  <2> QED BY <2>1, <2>2
<1>7. 0 \in A
  <2>1. 0 \in 0..N BY <1>2
  <2> QED BY <2>1
<1>8. 0..N \subseteq A
  <2> HIDE DEF A
  <2> QED BY <1>2, <1>6, <1>7, UpTo
<1>9. \A k \in 1..N : k \in A /\ k /= 0 BY <1>8
<1> QED BY <1>9 DEF N, CountsKept

LEMMA PlaceOrder ==
  ASSUME NEW n \in Nat, NEW S, S \subseteq 1..n, NEW i \in Nat, NEW j \in Nat
  PROVE  i < j <=> Place(S, i) < Place(S, j)
<1>0. ASSUME NEW k \in Nat, NEW l \in Nat, k < l PROVE Place(S, k) < Place(S, l)
  <2> DEFINE p == Place(S, k)
             q == Place(S, l)
             e == IF k \in S THEN 1 ELSE 0
  <2>1. p + e < q /\ p \in Nat /\ q \in Nat BY <1>0, PlaceRises
  <2>2. e \in Nat OBVIOUS
  <2> HIDE DEF p, q, e
  <2>3. p < q BY <2>1, <2>2
  <2> QED BY <2>3 DEF p, q
<1>1. \A k \in Nat : Place(S, k) \in Nat
  <2> SUFFICES ASSUME NEW k \in Nat PROVE Place(S, k) \in Nat OBVIOUS
  <2>1. k + 1 \in Nat /\ k < k + 1 OBVIOUS
  <2> QED BY <2>1, PlaceRises
<1>2. CASE i < j BY <1>2, <1>0
<1>3. CASE i = j BY <1>3, <1>1
<1>4. CASE j < i
  <2>1. Place(S, j) < Place(S, i) BY <1>4, <1>0
  <2>2. Place(S, j) \in Nat /\ Place(S, i) \in Nat BY <1>1
  <2> QED BY <1>4, <2>1, <2>2
<1> QED BY <1>2, <1>3, <1>4

(* What is written is what was in the list, and the rest is implied.            *)
KeepsPlaces(s, list, S) ==
  /\ Written(s) = {Place(S, i) : i \in 1..Len(list)}
  /\ \A i \in S : Implied(s, Place(S, i) + 1)
  /\ \A i \in 1..Len(list) : ~Implied(s, Place(S, i))

LEMMA WrittenAre ==
  ASSUME NEW list \in Seq(Tok), NEW e, Ordered(list, e),
         NEW S, S \subseteq 1..Len(list), NEW s, Spread(s, list, S)
  PROVE  KeepsPlaces(s, list, S)
<1>1. Placed(s, list, S) BY PlaceSteps
<1>2. s \in Seq(Tok) /\ Len(s) \in Nat BY <1>1 DEF Placed
<1>3. DOMAIN s = 1..Len(s) BY <1>2, LenProperties
<1>4. ASSUME NEW i \in S PROVE Implied(s, Place(S, i) + 1)
  <2>1. s[Place(S, i) + 1] = CommaBehind(list[i]) BY <1>1 DEF Placed
  <2>2. /\ CommaBehind(list[i]).type = "," /\ CommaBehind(list[i]).at = list[i].upto
        /\ CommaBehind(list[i]).upto = list[i].upto
    BY DEF CommaBehind, Token
  <2> QED BY <2>1, <2>2 DEF Implied
<1>5. ASSUME NEW i \in 1..Len(list) PROVE ~Implied(s, Place(S, i))
  <2>1. s[Place(S, i)] = list[i] BY <1>1 DEF Placed
  <2>2. list[i].type = "," => list[i].at < list[i].upto BY DEF Ordered
  <2>3. list[i].at \in Nat /\ list[i].upto \in Nat
    <3>1. list[i] \in Tok BY ElementOfSeq
    <3> QED BY <3>1, TokenFields
  <2> DEFINE a == list[i].at
             b == list[i].upto
  <2>4. a < b => a /= b
    <3>1. a \in Nat /\ b \in Nat BY <2>3
    <3> HIDE DEF a, b
    <3> QED BY <3>1
  <2> QED BY <2>1, <2>2, <2>4 DEF Implied
<1>6. ASSUME NEW q \in 1..Len(s) PROVE ~Implied(s, q) <=> \E i \in 1..Len(list) : q = Place(S, i)
  <2>1. HasPlace(list, S, q) BY Places
  <2> QED BY <2>1, <1>4, <1>5 DEF HasPlace
<1>7. \A i \in 1..Len(list) : Place(S, i) \in 1..Len(s) BY <1>1 DEF Placed
<1>8. Written(s) = {Place(S, i) : i \in 1..Len(list)} BY <1>3, <1>6, <1>7 DEF Written
<1> QED BY <1>4, <1>5, <1>8 DEF KeepsPlaces

NextPlaced(s, S, a, b) == NextWritten(s, Place(S, a)) = Place(S, b)

LEMMA NextIs ==
  ASSUME NEW list \in Seq(Tok), NEW e, Ordered(list, e),
         NEW S, S \subseteq 1..Len(list), NEW s, Spread(s, list, S),
         NEW a \in 1..Len(list), NEW b \in 1..Len(list), b = a + 1
  PROVE  NextPlaced(s, S, a, b)
<1> DEFINE p == Place(S, a)
           q == Place(S, b)
           W == Written(s)
           Next_(j) == j > p /\ \A k \in p + 1..j - 1 : k \notin W
<1>1. Placed(s, list, S) BY PlaceSteps
<1>2. q = p + (IF a \in S THEN 2 ELSE 1) BY <1>1 DEF Placed
<1>3. p \in Nat /\ q \in Nat /\ W \subseteq Nat
  <2>1. Len(s) \in Nat /\ p \in 1..Len(s) /\ q \in 1..Len(s) /\ s \in Seq(Tok) BY <1>1 DEF Placed
  <2>2. DOMAIN s = 1..Len(s) BY <2>1, LenProperties
  <2> HIDE DEF p, q
  <2> QED BY <2>1, <2>2 DEF Written
<1>0. KeepsPlaces(s, list, S) BY WrittenAre
<1>4. q \in W BY <1>0 DEF KeepsPlaces
<1>5. a \in S => p + 1 \notin W
  <2>1. a \in S => Implied(s, p + 1) BY <1>0 DEF KeepsPlaces
  <2> QED BY <2>1 DEF Written
<1> HIDE DEF p, q, W
<1>6. Next_(q)
  <2>1. CASE a \in S
    <3>1. q = p + 2 BY <2>1, <1>2
    <3>2. \A k \in p + 1..q - 1 : k = p + 1 BY <3>1, <1>3
    <3> QED BY <2>1, <3>1, <3>2, <1>3, <1>5
  <2>2. CASE a \notin S
    <3>1. q = p + 1 BY <2>2, <1>2
    <3>2. \A k \in p + 1..q - 1 : FALSE BY <3>1, <1>3
    <3> QED BY <3>1, <3>2, <1>3
  <2> QED BY <2>1, <2>2
<1>7. ASSUME NEW j \in W, Next_(j) PROVE j = q
  <2>1. j \in Nat /\ j > p BY <1>3, <1>7
  <2>2. ~(j > q)
    <3>1. SUFFICES ASSUME j > q PROVE FALSE OBVIOUS
    <3>2. q \in p + 1..j - 1 BY <3>1, <2>1, <1>3, <1>6
    <3> QED BY <3>2, <1>4, <1>7
  <2>3. ~(j < q)
    <3>1. SUFFICES ASSUME j < q PROVE FALSE OBVIOUS
    <3>2. j \in p + 1..q - 1 BY <3>1, <2>1, <1>3
    <3> QED BY <3>2, <1>6, <1>7
  <2> QED BY <2>1, <2>2, <2>3, <1>3
<1>8. NextWritten(s, p) = CHOOSE j \in W : Next_(j) BY DEF NextWritten, W
<1>9. (CHOOSE j \in W : Next_(j)) = q
  <2> HIDE DEF Next_
  <2> QED BY <1>4, <1>6, <1>7
<1> QED BY <1>8, <1>9 DEF p, q, NextPlaced

LEMMA InputsAre ==
  ASSUME NEW list \in Seq(Tok), NEW e, Ordered(list, e),
         NEW S, Commas(list, S), NEW s, Spread(s, list, S), NEW a \in 1..Len(list)
  PROVE  BehindInputs(s, Place(S, a)) <=> list[a].type = ")" /\ Awaited(list, a - 1)
<1> DEFINE N == Len(list)
           p == Place(S, a)
<1>1. S \subseteq 1..N /\ \A i \in S : list[i].type /= "@"
  <2>1. \A i \in S : list[i].type \in Separated BY DEF Commas
  <2>2. "@" \notin Separated BY SeparatedIs
  <2> QED BY <2>1, <2>2 DEF Commas
<1>2. Placed(s, list, S) BY <1>1, PlaceSteps
<1>3. N \in Nat /\ Len(s) \in Nat /\ DOMAIN list = 1..N /\ \A i \in 1..N : i \in Nat
  <2>1. N \in Nat /\ DOMAIN list = 1..N BY LenProperties
  <2>2. Len(s) \in Nat BY <1>2 DEF Placed
  <2>3. \A i \in 1..N : i \in Nat
    <3> HIDE DEF N
    <3> QED BY <2>1
  <2> QED BY <2>1, <2>2, <2>3
<1>4. /\ \A i \in 1..N : Place(S, i) \in 1..Len(s) /\ s[Place(S, i)] = list[i]
      /\ \A i \in 1..N, j \in 1..N : j = i + 1 => Place(S, j) = Place(S, i) + IF i \in S THEN 2 ELSE 1
  BY <1>2 DEF Placed
<1>5. \A i, j \in Nat : i < j <=> Place(S, i) < Place(S, j) BY <1>1, <1>3, PlaceOrder
<1>6. Written(s) = {Place(S, i) : i \in 1..N}
  <2>1. KeepsPlaces(s, list, S) BY <1>1, WrittenAre
  <2> QED BY <2>1 DEF KeepsPlaces
<1>7. ASSUME NEW j \in 1..N, j < a, list[j].type = "@"
      PROVE  j + 1 \in 1..N /\ s[Place(S, j) + 1] = list[j + 1] /\ TypeAt(list, j + 1) = list[j + 1].type
             /\ TypeAt(list, j) = "@"
  <2> DEFINE k == j + 1
  <2>1. k \in 1..N /\ k = j + 1 BY <1>3, <1>7
  <2> HIDE DEF k
  <2>2. j \notin S BY <1>1, <1>7
  <2>3. Place(S, k) = Place(S, j) + 1 BY <2>1, <2>2, <1>4
  <2>4. s[Place(S, j) + 1] = list[k] BY <2>1, <2>3, <1>4
  <2>5. TypeAt(list, k) = list[k].type /\ TypeAt(list, j) = "@" BY <2>1, <1>3, <1>7 DEF TypeAt
  <2> QED BY <2>1, <2>4, <2>5 DEF k
<1>8. ASSUME NEW j \in 1..N, j < a
      PROVE  (\A k \in Place(S, j)..p - 1 : s[k].type /= ")") <=> (\A k \in j..a - 1 : list[k].type /= ")")
  <2>1. ASSUME \A k \in Place(S, j)..p - 1 : s[k].type /= ")", NEW k \in j..a - 1
        PROVE  list[k].type /= ")"
    <3>1. k \in 1..N /\ k \in Nat /\ k < a /\ ~(k < j) /\ a \in Nat /\ j \in Nat BY <1>3
    <3>2. Place(S, k) < p /\ ~(Place(S, k) < Place(S, j)) BY <3>1, <1>5
    <3>3. Place(S, k) \in Nat /\ Place(S, j) \in Nat /\ p \in Nat BY <3>1, <1>3, <1>4
    <3> DEFINE x == Place(S, k)
               y == Place(S, j)
    <3>4. x \in y..p - 1
      <4> HIDE DEF x, y, p
      <4>1. x < p /\ ~(x < y) /\ x \in Nat /\ y \in Nat /\ p \in Nat BY <3>2, <3>3 DEF x, y
      <4> QED BY <4>1
    <3> QED BY <3>1, <3>4, <2>1, <1>4
  <2>2. ASSUME \A k \in j..a - 1 : list[k].type /= ")", NEW k \in Place(S, j)..p - 1
        PROVE  s[k].type /= ")"
    <3>1. Place(S, j) \in 1..Len(s) /\ p \in 1..Len(s) BY <1>4
    <3>2. k \in 1..Len(s) /\ ~(k < Place(S, j)) /\ k < p
      <4> DEFINE y == Place(S, j)
      <4>1. y \in 1..Len(s) /\ p \in 1..Len(s) /\ k \in y..p - 1 BY <3>1
      <4> HIDE DEF y, p
      <4>2. k \in 1..Len(s) /\ ~(k < y) /\ k < p BY <4>1, <1>3
      <4> QED BY <4>2 DEF y
    <3>3. HasPlace(list, S, k) BY <3>2, <1>1, Places
    <3>4. CASE \E i \in 1..N : k = Place(S, i)
      <4>1. PICK i \in 1..N : k = Place(S, i) BY <3>4
      <4>2. i \in Nat /\ a \in Nat /\ j \in Nat BY <1>3
      <4>3. ~(i < j) /\ i < a BY <4>1, <4>2, <3>2, <1>5
      <4>4. i \in j..a - 1 BY <4>2, <4>3
      <4>5. s[k] = list[i] BY <4>1, <1>4
      <4> QED BY <4>4, <4>5, <2>2
    <3>5. CASE \E i \in S : k = Place(S, i) + 1
      <4>1. PICK i \in S : k = Place(S, i) + 1 BY <3>5
      <4>2. s[k] = CommaBehind(list[i]) BY <4>1, <1>2 DEF Placed
      <4>3. CommaBehind(list[i]).type = "," BY DEF CommaBehind, Token
      <4>4. "," /= ")" OBVIOUS
      <4> QED BY <4>2, <4>3, <4>4
    <3> QED BY <3>3, <3>4, <3>5 DEF HasPlace
  <2> QED BY <2>1, <2>2
<1>9. s[p] = list[a] /\ a \in Nat BY <1>3, <1>4
<1>10. ASSUME BehindInputs(s, p) PROVE Awaited(list, a - 1)
  <2>1. PICK q \in Written(s) : /\ q < p /\ s[q].type = "@" /\ s[q + 1].type = "("
                                /\ \A k \in q..p - 1 : s[k].type /= ")"
    BY <1>10 DEF BehindInputs
  <2>2. PICK j \in 1..N : q = Place(S, j) BY <1>6
  <2>3. j < a BY <2>1, <2>2, <1>3, <1>5
  <2>4. list[j].type = "@" BY <2>1, <2>2, <1>4
  <2>5. BeginsInputs(list, j) BY <2>1, <2>2, <2>3, <2>4, <1>7 DEF BeginsInputs
  <2>6. \A k \in j..a - 1 : list[k].type /= ")" BY <2>1, <2>2, <2>3, <1>8
  <2>7. j \in 1..a - 1 BY <2>3, <1>3
  <2> QED BY <2>5, <2>6, <2>7 DEF Awaited
<1>11. ASSUME Awaited(list, a - 1), list[a].type = ")" PROVE BehindInputs(s, p)
  <2>1. PICK j \in 1..a - 1 : BeginsInputs(list, j) /\ \A k \in j..a - 1 : list[k].type /= ")"
    BY <1>11 DEF Awaited
  <2>2. j \in 1..N /\ j < a /\ j \in Nat BY <1>3
  <2>3. list[j].type = "@" BY <2>1, <2>2, <1>3 DEF BeginsInputs, TypeAt
  <2>4. s[Place(S, j) + 1].type = "(" BY <2>1, <2>2, <2>3, <1>7 DEF BeginsInputs
  <2>5. Place(S, j) \in Written(s) /\ s[Place(S, j)] = list[j] BY <2>2, <1>4, <1>6
  <2>6. Place(S, j) < p BY <2>2, <1>5, <1>9
  <2>7. \A k \in Place(S, j)..p - 1 : s[k].type /= ")" BY <2>1, <2>2, <1>8
  <2> QED BY <2>3, <2>4, <2>5, <2>6, <2>7, <1>9, <1>11 DEF BehindInputs
<1>12. BehindInputs(s, p) => list[a].type = ")" BY <1>9 DEF BehindInputs
<1> QED BY <1>10, <1>11, <1>12

(* Brackets and braces are counted alike before and behind the insertion.       *)
LEMMA MatrixIs ==
  ASSUME NEW list \in Seq(Tok), NEW e, Ordered(list, e),
         NEW S, S \subseteq 1..Len(list), NEW s, Spread(s, list, S), NEW a \in 1..Len(list)
  PROVE  InMatrix(s, Place(S, a)) <=> Count(list, Opener, a) > Count(list, Closer, a)
<1> DEFINE p == Place(S, a)
<1>1. Placed(s, list, S) BY PlaceSteps
<1>2. p \in 1..Len(s) /\ s \in Seq(Tok) /\ Len(s) \in Nat BY <1>1 DEF Placed
<1>3. Opener = {"[", "{"} /\ Closer = {"]", "}"} BY DEF Opener, Closer
<1>4. NoComma(Opener) /\ NoComma(Closer)
  <2>1. "," \notin Opener BY DEF Opener
  <2>2. "," \notin Closer BY DEF Closer
  <2> QED BY <2>1, <2>2 DEF NoComma
<1>5. \A i \in 1..Len(s) : s[i].type \in Opener \cup Closer => i \in Written(s)
  <2> SUFFICES ASSUME NEW i \in 1..Len(s), s[i].type \in Opener \cup Closer PROVE i \in Written(s)
    OBVIOUS
  <2>1. s[i].type /= "," BY <1>4 DEF NoComma
  <2>2. DOMAIN s = 1..Len(s) BY <1>2, LenProperties
  <2> QED BY <2>1, <2>2 DEF Written, Implied
<1>6. Written(s) \subseteq 1..Len(s)
  <2>2. DOMAIN s = 1..Len(s) BY <1>2, LenProperties
  <2> QED BY <2>2 DEF Written
<1>7. p \in Nat /\ \A j \in 1..Len(s) : j <= p <=> j < p + 1
  <2> HIDE DEF p
  <2> QED BY <1>2
<1> HIDE DEF p
<1>8. {j \in Written(s) : j <= p /\ s[j].type \in Opener} = {j \in Typed(s, Opener) : j < p + 1}
  BY <1>5, <1>6, <1>7 DEF Typed
<1>9. {j \in Written(s) : j <= p /\ s[j].type \in Closer} = {j \in Typed(s, Closer) : j < p + 1}
  BY <1>5, <1>6, <1>7 DEF Typed
<1>10. /\ Cardinality({j \in Written(s) : j <= p /\ s[j].type \in Opener}) = Count(s, Opener, p)
       /\ Cardinality({j \in Written(s) : j <= p /\ s[j].type \in Closer}) = Count(s, Closer, p)
  BY <1>8, <1>9 DEF Count, Before
<1>11. InMatrix(s, p) <=> Count(s, Opener, p) > Count(s, Closer, p) BY <1>3, <1>10 DEF InMatrix
<1>12. CountsKept(s, list, S, Opener) /\ CountsKept(s, list, S, Closer)
  <2>1. CountsKept(s, list, S, Opener) BY <1>4, CountSpread
  <2>2. CountsKept(s, list, S, Closer) BY <1>4, CountSpread
  <2> QED BY <2>1, <2>2
<1>13. Count(s, Opener, p) = Count(list, Opener, a) /\ Count(s, Closer, p) = Count(list, Closer, a)
  BY <1>12 DEF CountsKept, p
<1> QED BY <1>11, <1>13 DEF p

Closed(list) == \A i \in 1..Len(list) : Bracket(list)[i] >= 0 /\ Brace(list)[i] >= 0

LEMMA ClosedIs == ASSUME NEW list \in Seq(Tok), ~Unopened(list) PROVE Closed(list)
<1>1. DOMAIN list = 1..Len(list) /\ Len(list) \in Nat BY LenProperties
<1>2. SUFFICES ASSUME NEW i \in 1..Len(list) PROVE Bracket(list)[i] >= 0 /\ Brace(list)[i] >= 0
  BY DEF Closed
<1>3. ~(Bracket(list)[i] < 0) /\ ~(Brace(list)[i] < 0) BY <1>1 DEF Unopened, Bracket, Brace
<1>4. i \in 0..Len(list) BY <1>1
<1> DEFINE a == Bracket(list)[i]
           b == Brace(list)[i]
<1>5. a \in Int /\ b \in Int BY <1>4, BracketIs, BraceIs
<1>6. ~(a < 0) /\ ~(b < 0) BY <1>3
<1> HIDE DEF a, b
<1>7. a >= 0 /\ b >= 0 BY <1>5, <1>6
<1> QED BY <1>7 DEF a, b

LEMMA EitherOpen ==
  ASSUME NEW list \in Seq(Tok), Closed(list), NEW i \in 1..Len(list)
  PROVE  Bracket(list)[i] > 0 \/ Brace(list)[i] > 0 <=> Count(list, Opener, i) > Count(list, Closer, i)
<1> DEFINE a == Bracket(list)[i]
           b == Brace(list)[i]
           c == Count(list, Opener, i)
           d == Count(list, Closer, i)
<1>1. i \in 0..Len(list)
  <2>1. Len(list) \in Nat BY LenProperties
  <2> QED BY <2>1
<1>2. a \in Int /\ b \in Int BY <1>1, BracketIs, BraceIs
<1>3. a >= 0 /\ b >= 0 BY DEF Closed
<1>4. c \in Nat /\ d \in Nat BY <1>1, CountIs
<1>5. a + b = c - d BY <1>1, NestingCounts
<1> HIDE DEF a, b, c, d
<1>6. a > 0 \/ b > 0 <=> c > d BY <1>2, <1>3, <1>4, <1>5
<1> QED BY <1>6 DEF a, b, c, d

LEMMA SidesAre ==
  ASSUME NEW list \in Seq(Tok), NEW e, Ordered(list, e),
         NEW S, S \subseteq 1..Len(list), NEW s, Spread(s, list, S),
         NEW a \in 1..Len(list), NEW b \in 1..Len(list), b = a + 1
  PROVE  SideBySide(s, Place(S, a)) <=> can_insert_comma_between(list[a], list[b])
<1>1. Placed(s, list, S) BY PlaceSteps
<1>2. s[Place(S, a)] = list[a] /\ s[Place(S, b)] = list[b] BY <1>1 DEF Placed
<1>3. NextWritten(s, Place(S, a)) = Place(S, b)
  <2>1. NextPlaced(s, S, a, b) BY NextIs
  <2> QED BY <2>1 DEF NextPlaced
<1>4. Opening = {"(", "[", "{"} /\ DOMAIN Closing = {")", "]", "}"} BY DEF Opening, Closing
<1>5. Operands \cup {")", "]", "}", "'", ".'"} = Operands \cup DOMAIN Closing \cup {"'", ".'"}
  <2>1. {")", "]", "}", "'", ".'"} = {")", "]", "}"} \cup {"'", ".'"} OBVIOUS
  <2> QED BY <2>1, <1>4
<1> DEFINE x == list[a]
           y == list[b]
           n == s[NextWritten(s, Place(S, a))]
           m == s[Place(S, a)]
<1>6. n = y /\ m = x BY <1>2, <1>3
<1>7. SideBySide(s, Place(S, a)) <=>
        /\ m.type \in Operands \cup {")", "]", "}", "'", ".'"}
        /\ n.type \in Operands \cup {"(", "[", "{"} /\ n.at > m.upto
  BY DEF SideBySide
<1> HIDE DEF x, y, n, m
<1>8. can_insert_comma_between(x, y) <=>
        /\ x.type \in Operands \cup {")", "]", "}", "'", ".'"}
        /\ y.type \in Operands \cup {"(", "[", "{"} /\ y.at > x.upto
  BY <1>4, <1>5 DEF can_insert_comma_between
<1> QED BY <1>6, <1>7, <1>8 DEF x, y

LEMMA InsertionIs ==
  ASSUME NEW list \in Seq(Tok), NEW a \in 1..Len(list), a /= Len(list)
  PROVE  a \in Insertions(list) <=>
           \/ list[a].type = ")" /\ AwaitsInputs(list)[a - 1]
           \/ /\ Bracket(list)[a] > 0 \/ Brace(list)[a] > 0
              /\ can_insert_comma_between(list[a], list[a + 1])
<1> DEFINE N == Len(list)
<1>0. N \in Nat BY LenProperties
<1>1. DOMAIN list = 1..Len(list) BY LenProperties
<1>2. a < N
  <2>1. a \in 1..N /\ a /= N OBVIOUS
  <2> HIDE DEF N
  <2> QED BY <1>0, <2>1
<1> QED BY <1>1, <1>2 DEF Insertions, Bracket, Brace

LEMMA DelimitedSpread ==
  ASSUME NEW list \in Seq(Tok), NEW e, Ordered(list, e), ~Unopened(list),
         NEW S, S = Insertions(list), Commas(list, S), Len(list) \notin S, Len(list) > 0,
         NEW s, Spread(s, list, S)
  PROVE  Delimited(s)
<1> DEFINE N == Len(list)
<1>1. S \subseteq 1..N BY DEF Commas
<1>2. Placed(s, list, S) BY <1>1, PlaceSteps
<1>3. N \in Nat /\ Len(s) \in Nat
  <2>1. N \in Nat BY LenProperties
  <2>2. Len(s) \in Nat BY <1>2 DEF Placed
  <2> QED BY <2>1, <2>2
<1>4. /\ Written(s) = {Place(S, i) : i \in 1..N}
      /\ \A i \in S : Implied(s, Place(S, i) + 1)
      /\ \A i \in 1..N : ~Implied(s, Place(S, i))
  <2>1. KeepsPlaces(s, list, S) BY <1>1, WrittenAre
  <2> QED BY <2>1 DEF KeepsPlaces
<1>5. \A i \in 1..N, j \in 1..N : j = i + 1 => Place(S, j) = Place(S, i) + IF i \in S THEN 2 ELSE 1
  BY <1>2 DEF Placed
<1>6. \A i \in 1..N : i = N => Place(S, i) = Len(s)
  BY <1>2 DEF Placed
<1>7. SUFFICES ASSUME NEW a \in 1..N, a /= N
               PROVE  Implied(s, Place(S, a) + 1) <=>
                        \/ BehindInputs(s, Place(S, a))
                        \/ InMatrix(s, Place(S, a)) /\ SideBySide(s, Place(S, a))
  <2> SUFFICES ASSUME NEW q \in Written(s) \ {Len(s)}
               PROVE  Implied(s, q + 1) <=> BehindInputs(s, q) \/ (InMatrix(s, q) /\ SideBySide(s, q))
    BY DEF Delimited
  <2>1. PICK i \in 1..N : q = Place(S, i) BY <1>4
  <2>2. i /= N BY <2>1, <1>6
  <2> QED BY <2>1, <2>2, <1>7
<1> DEFINE b == a + 1
<1>8. b \in 1..N /\ b = a + 1 /\ a - 1 \in 0..N
  <2> HIDE DEF N
  <2> QED BY <1>3, <1>7
<1> HIDE DEF b
<1>9. Implied(s, Place(S, a) + 1) <=> a \in S
  <2>1. CASE a \in S BY <2>1, <1>4
  <2>2. CASE a \notin S
    <3>1. Place(S, b) = Place(S, a) + 1 BY <2>2, <1>5, <1>8
    <3>2. ~Implied(s, Place(S, b)) BY <1>4, <1>8
    <3> QED BY <2>2, <3>1, <3>2
  <2> QED BY <2>1, <2>2
<1>10. a \in S <=>
         \/ list[a].type = ")" /\ AwaitsInputs(list)[a - 1]
         \/ (Bracket(list)[a] > 0 \/ Brace(list)[a] > 0) /\ can_insert_comma_between(list[a], list[b])
  BY <1>7, <1>8, InsertionIs
<1>11. BehindInputs(s, Place(S, a)) <=> list[a].type = ")" /\ AwaitsInputs(list)[a - 1]
  <2>1. BehindInputs(s, Place(S, a)) <=> list[a].type = ")" /\ Awaited(list, a - 1) BY InputsAre
  <2>2. AwaitsInputs(list)[a - 1] <=> Awaited(list, a - 1) BY <1>8, AwaitsWhen
  <2> QED BY <2>1, <2>2
<1>12. InMatrix(s, Place(S, a)) <=> Bracket(list)[a] > 0 \/ Brace(list)[a] > 0
  BY <1>1, MatrixIs, ClosedIs, EitherOpen
<1>13. SideBySide(s, Place(S, a)) <=> can_insert_comma_between(list[a], list[b])
  BY <1>1, <1>8, SidesAre
<1> QED BY <1>9, <1>10, <1>11, <1>12, <1>13

LEMMA DelimitedIs == ASSUME status' = "scanned" => Delimited(tokens') PROVE DelimitersInserted'
<1>1. Delimited(tokens') => Delimited(tokens)'
  BY DEF Delimited, Implied, Written, NextWritten, BehindInputs, InMatrix, SideBySide
<1> QED BY <1>1 DEF DelimitersInserted, Scanned

LEMMA EndDelimits ==
  ASSUME Shape, Ordered(tokens, pos), Ended, text' = text
  PROVE  DelimitersInserted'
<1>1. SUFFICES ASSUME status' = "scanned" PROVE Delimited(tokens')
  BY DelimitedIs
<1>2. PICK list, S :
       Listed(list) /\ S = Insertions(list) /\ errors = {} /\ ~Unopened(list) /\ tokens' = Inserted(list, S)
  BY <1>1 DEF Ended
<1>3. /\ list \in Seq(Tok) /\ Len(list) = Len(tokens) + 1 /\ Len(tokens) \in Nat
      /\ Commas(list, S) /\ Len(list) \notin S /\ Ordered(list, Len(text) + 1) /\ Spread(tokens', list, S)
  BY <1>2, ListedIs DEF Ended
<1>4. Len(list) > 0 BY <1>3
<1> QED BY <1>2, <1>3, <1>4, DelimitedSpread

LEMMA DelimitedNext == ScanInv /\ DelimitersInserted /\ [Next]_vars => DelimitersInserted'
<1> SUFFICES ASSUME ScanInv, DelimitersInserted, [Next]_vars PROVE DelimitersInserted' OBVIOUS
<1>1. CASE UNCHANGED vars
  <2>1. tokens' = tokens /\ status' = status BY <1>1 DEF vars
  <2>2. status' = "scanned" => Delimited(tokens') BY <2>1 DEF DelimitersInserted, Scanned
  <2> QED BY <2>2, DelimitedIs
<1>2. CASE Scan /\ text' = text
  <2>1. status' /= "scanned" BY <1>2 DEF Scan
  <2> QED BY <2>1 DEF DelimitersInserted, Scanned
<1>3. CASE EndOfText /\ status = "scanning" /\ text' = text
  <2>1. Shape /\ Ordered(tokens, pos) /\ Ended BY <1>3, EndIs DEF ScanInv
  <2> QED BY <2>1, <1>3, EndDelimits
<1> QED BY <1>1, <1>2, <1>3 DEF Next

(* A comma is implied behind a token of a text that is accepted if and only if  *)
(* operands stand side by side there in a matrix or a cell, or the inputs of an *)
(* anonymous function end there, however many commas were put in before         *)
(* (token_manipulation.cpp:20-106).                                              *)
THEOREM DelimitersAreImplied == Spec => []DelimitersInserted
<1>1. Init => DelimitersInserted BY DEF Init, DelimitersInserted, Scanned
<1> QED BY <1>1, DelimitedNext, ScanInvInit, ScanInvNext, PTL DEF Spec

------------------------------------------------------------------------------
(* Every end is taken for what it ends.                                         *)

(* The keywords without an end, and how many more keywords than ends there are *)
(* from one of them to a token.                                                  *)
Left(O, E) == {i \in O : \A j \in E : j > i => Within(O, i, j) /= Within(E, i, j)}
Excess(O, E, i, n) == Within(O, i, n) - Within(E, i, n)

Windows(X, i, n, m) ==
  /\ Within(X, i, n) \in Nat /\ Within(X, i, m) = Within(X, i, n)
  /\ \A j \in 1..n : Within(X \cup {m}, i, j) = Within(X, i, j)
  /\ i <= m => Within(X \cup {m}, i, m) = Within(X, i, n) + 1
  /\ i > n => Within(X, i, n) = 0

LEMMA WithinIs ==
  ASSUME NEW n \in Nat, NEW X, X \subseteq 1..n, NEW m, m = n + 1, NEW i \in Nat
  PROVE  Windows(X, i, n, m)
<1> DEFINE A == {k \in X : k >= i /\ k <= n}
<1>1. IsFiniteSet(A) /\ m \notin A
  <2>1. IsFiniteSet(1..n) BY FS_Interval
  <2>2. A \subseteq 1..n OBVIOUS
  <2>3. m \notin 1..n OBVIOUS
  <2> QED BY <2>1, <2>2, <2>3, FS_Subset
<1>2. Cardinality(A) \in Nat BY <1>1, FS_CardinalityType
<1>3. \A k \in X : k \in Int /\ k <= n /\ k <= m /\ k /= m OBVIOUS
<1>4. {k \in X : k >= i /\ k <= m} = A BY <1>3
<1>5. ASSUME NEW j \in 1..n
      PROVE  {k \in X \cup {m} : k >= i /\ k <= j} = {k \in X : k >= i /\ k <= j}
  <2>1. ~(m <= j) OBVIOUS
  <2> QED BY <2>1
<1>6. ASSUME i <= m PROVE Cardinality({k \in X \cup {m} : k >= i /\ k <= m}) = Cardinality(A) + 1
  <2>1. {k \in X \cup {m} : k >= i /\ k <= m} = A \cup {m}
    <3>1. m >= i /\ m <= m BY <1>6
    <3>2. {k \in X \cup {m} : k >= i /\ k <= m} = {k \in X : k >= i /\ k <= m} \cup {m} BY <3>1
    <3> QED BY <3>2, <1>4
  <2>2. Cardinality(A \cup {m}) = Cardinality(A) + 1
    <3> HIDE DEF A
    <3> QED BY <1>1, FS_AddElement
  <2> QED BY <2>1, <2>2
<1>7. ASSUME i > n PROVE Cardinality(A) = 0
  <2>0. \A k \in X : ~(k >= i /\ k <= n) BY <1>3, <1>7
  <2>1. A = {} BY <2>0
  <2> QED BY <2>1, FS_EmptySet
<1> QED BY <1>2, <1>4, <1>5, <1>6, <1>7 DEF Within, Windows

LEMMA LeftKept ==
  ASSUME NEW n \in Nat, NEW O, O \subseteq 1..n, NEW E, E \subseteq 1..n, NEW m, m = n + 1
  PROVE  \A i \in O : Excess(O, E, i, n) \in Int /\ Excess(O, E, i, m) = Excess(O, E, i, n)
<1> SUFFICES ASSUME NEW i \in O
             PROVE  Excess(O, E, i, n) \in Int /\ Excess(O, E, i, m) = Excess(O, E, i, n)
  OBVIOUS
<1>1. i \in Nat OBVIOUS
<1>0. Windows(O, i, n, m) /\ Windows(E, i, n, m)
  <2>1. Windows(O, i, n, m) BY <1>1, WithinIs
  <2>2. Windows(E, i, n, m) BY <1>1, WithinIs
  <2> QED BY <2>1, <2>2
<1>2. /\ Within(O, i, n) \in Nat /\ Within(O, i, m) = Within(O, i, n)
      /\ Within(E, i, n) \in Nat /\ Within(E, i, m) = Within(E, i, n)
  BY <1>0 DEF Windows
<1> QED BY <1>2 DEF Excess

Pushed(O, E, n, m) ==
  /\ Left(O \cup {m}, E) = Left(O, E) \cup {m}
  /\ \A i \in O : Excess(O \cup {m}, E, i, m) = Excess(O, E, i, n) + 1
  /\ Excess(O \cup {m}, E, m, m) = 1

LEMMA LeftPushed ==
  ASSUME NEW n \in Nat, NEW O, O \subseteq 1..n, NEW E, E \subseteq 1..n, NEW m, m = n + 1
  PROVE  Pushed(O, E, n, m)
<1> DEFINE P == O \cup {m}
<1>1. m \in Nat /\ ~(m \in 1..n) /\ \A i \in O : i \in Nat /\ i <= m OBVIOUS
<1>2. \A j \in E : j \in 1..n /\ ~(j > m) OBVIOUS
<1>3. ASSUME NEW i \in P, NEW j \in E PROVE Within(P, i, j) = Within(O, i, j)
  <2>1. i \in Nat /\ j \in 1..n BY <1>1, <1>2
  <2>2. Windows(O, i, n, m) BY <2>1, WithinIs
  <2> QED BY <2>1, <2>2 DEF Windows
<1>4. ASSUME NEW i \in P PROVE i \in Left(P, E) <=> i \in Left(O, E) \/ i = m
  <2>1. CASE i = m BY <2>1, <1>2 DEF Left
  <2>2. CASE i /= m
    <3>1. i \in O BY <2>2
    <3> QED BY <3>1, <2>2, <1>3 DEF Left
  <2> QED BY <2>1, <2>2
<1>5. Left(P, E) \subseteq P /\ Left(O, E) \subseteq P /\ m \in P BY DEF Left
<1> HIDE DEF P
<1>6. Left(P, E) = Left(O, E) \cup {m} BY <1>4, <1>5
<1>7. ASSUME NEW i \in O PROVE Excess(P, E, i, m) = Excess(O, E, i, n) + 1
  <2>1. i \in Nat /\ i <= m BY <1>1
  <2>2. /\ Within(O, i, n) \in Nat /\ Within(P, i, m) = Within(O, i, n) + 1
        /\ Within(E, i, n) \in Nat /\ Within(E, i, m) = Within(E, i, n)
    <3>1. Windows(O, i, n, m) BY <2>1, WithinIs
    <3>2. Windows(E, i, n, m) BY <2>1, WithinIs
    <3> QED BY <2>1, <3>1, <3>2 DEF Windows, P
  <2> QED BY <2>2 DEF Excess
<1>8. Excess(P, E, m, m) = 1
  <2>1. m > n /\ m <= m OBVIOUS
  <2>2. /\ Within(P, m, m) = Within(O, m, n) + 1 /\ Within(O, m, n) = 0
        /\ Within(E, m, m) = Within(E, m, n) /\ Within(E, m, n) = 0
    <3>1. Windows(O, m, n, m) BY <1>1, WithinIs
    <3>2. Windows(E, m, n, m) BY <1>1, WithinIs
    <3> QED BY <2>1, <3>1, <3>2 DEF Windows, P
  <2> QED BY <2>2 DEF Excess
<1> QED BY <1>6, <1>7, <1>8 DEF P, Pushed

Popped(O, E, n, m) ==
  /\ Left(O, E \cup {m}) = {i \in Left(O, E) : Excess(O, E, i, n) /= 1}
  /\ \A i \in O : Excess(O, E \cup {m}, i, m) = Excess(O, E, i, n) - 1

LEMMA LeftPopped ==
  ASSUME NEW n \in Nat, NEW O, O \subseteq 1..n, NEW E, E \subseteq 1..n, NEW m, m = n + 1
  PROVE  Popped(O, E, n, m)
<1> DEFINE F == E \cup {m}
<1>1. \A i \in O : i \in Nat /\ i <= m /\ m > i OBVIOUS
<1>2. ASSUME NEW i \in O
      PROVE  /\ \A j \in E : Within(F, i, j) = Within(E, i, j)
             /\ Within(O, i, m) = Within(O, i, n) /\ Within(F, i, m) = Within(E, i, n) + 1
             /\ Within(O, i, n) \in Nat /\ Within(E, i, n) \in Nat
  <2>1. i \in Nat /\ i <= m BY <1>1
  <2>4. Windows(O, i, n, m) BY <2>1, WithinIs
  <2>5. Windows(E, i, n, m) BY <2>1, WithinIs
  <2>2. Within(O, i, m) = Within(O, i, n) /\ Within(O, i, n) \in Nat BY <2>4 DEF Windows
  <2>3. /\ \A j \in 1..n : Within(F, i, j) = Within(E, i, j)
        /\ Within(F, i, m) = Within(E, i, n) + 1 /\ Within(E, i, n) \in Nat
    BY <2>1, <2>5 DEF Windows
  <2> QED BY <2>2, <2>3
<1>3. ASSUME NEW i \in O PROVE Within(O, i, m) /= Within(F, i, m) <=> Excess(O, E, i, n) /= 1
  <2> HIDE DEF F
  <2> QED BY <1>2 DEF Excess
<1>4. ASSUME NEW i \in O
      PROVE  i \in Left(O, F) <=> i \in Left(O, E) /\ Excess(O, E, i, n) /= 1
  <2>1. i \in Left(O, F) <=> \A j \in F : j > i => Within(O, i, j) /= Within(F, i, j) BY DEF Left
  <2>2. i \in Left(O, E) <=> \A j \in E : j > i => Within(O, i, j) /= Within(E, i, j) BY DEF Left
  <2>3. (\A j \in F : j > i => Within(O, i, j) /= Within(F, i, j)) <=>
          /\ \A j \in E : j > i => Within(O, i, j) /= Within(F, i, j)
          /\ Within(O, i, m) /= Within(F, i, m)
    <3>1. m > i BY <1>1
    <3> DEFINE Q(j) == j > i => Within(O, i, j) /= Within(F, i, j)
    <3>2. Q(m) <=> Within(O, i, m) /= Within(F, i, m) BY <3>1
    <3> HIDE DEF Q
    <3>3. (\A j \in F : Q(j)) <=> (\A j \in E : Q(j)) /\ Q(m) OBVIOUS
    <3> QED BY <3>2, <3>3 DEF Q
  <2> QED BY <2>1, <2>2, <2>3, <1>2, <1>3
<1>5. Left(O, F) \subseteq O /\ Left(O, E) \subseteq O BY DEF Left
<1>6. ASSUME NEW i \in O PROVE Excess(O, F, i, m) = Excess(O, E, i, n) - 1
  <2> HIDE DEF F
  <2> QED BY <1>2 DEF Excess
<1> HIDE DEF F
<1>7. Left(O, F) = {i \in Left(O, E) : Excess(O, E, i, n) /= 1} BY <1>4, <1>5
<1> QED BY <1>6, <1>7 DEF F, Popped


(* What of a list is code does not change when tokens are added.                *)
CodeAt(list, i) ==
  ~(Open(list)[i - 1] > 0 \/ list[i].type = "@T" \/ (i > 1 /\ list[i - 1].type = "@T"))

Of(list, T) == {i \in CodeTokens(list) : list[i].type \in T}

LEMMA CodeIs ==
  ASSUME NEW list \in Seq(Tok)
  PROVE  /\ CodeTokens(list) = {i \in 1..Len(list) : CodeAt(list, i)}
         /\ Openers(list) = Of(list, is_end_terminated) /\ Ends(list) = Of(list, {"end"})
         /\ \A T : Of(list, T) \subseteq 1..Len(list)
         /\ LeftOpen(list) = Left(Openers(list), Ends(list))
<1>1. DOMAIN list = 1..Len(list) BY LenProperties
<1>2. CodeTokens(list) = {i \in 1..Len(list) : CodeAt(list, i)} BY <1>1 DEF CodeTokens, InAnnotation, CodeAt
<1>3. Openers(list) = Of(list, is_end_terminated) BY DEF Openers, Of
<1>4. Ends(list) = Of(list, {"end"}) BY DEF Ends, Of
<1>5. \A T : Of(list, T) \subseteq 1..Len(list) BY <1>2 DEF Of
<1>6. LeftOpen(list) = Left(Openers(list), Ends(list)) BY DEF LeftOpen, Left
<1> QED BY <1>2, <1>3, <1>4, <1>5, <1>6

LEMMA CodeAgrees ==
  ASSUME NEW list \in Seq(Tok), NEW m \in Seq(Tok), NEW n, n = Len(list), n <= Len(m),
         \A i \in 1..n : m[i] = list[i]
  PROVE  \A i \in 1..n : CodeAt(m, i) <=> CodeAt(list, i)
<1> SUFFICES ASSUME NEW i \in 1..n PROVE CodeAt(m, i) <=> CodeAt(list, i) OBVIOUS
<1>1. n \in Nat /\ Len(m) \in Nat /\ DOMAIN list = 1..n /\ DOMAIN m = 1..Len(m) BY LenProperties
<1> DEFINE k == i - 1
<1>2. k \in Nat /\ k + 1 = i /\ k <= n /\ k <= Len(m) /\ k < n BY <1>1
<1>3. i > 1 => k \in 1..n BY <1>1
<1> HIDE DEF k
<1>4. ASSUME NEW j \in 1..k PROVE m[j] = list[j] /\ TypeAt(m, j + 1) = TypeAt(list, j + 1)
  <2>1. j \in 1..n /\ j + 1 \in 1..n /\ j + 1 \in 1..Len(m) BY <1>1, <1>2
  <2>2. m[j] = list[j] /\ m[j + 1] = list[j + 1] BY <2>1
  <2> QED BY <2>1, <2>2, <1>1 DEF TypeAt
<1>5. k <= Len(list) BY <1>2
<1>6. \A j \in 0..k : Open(list)[j] = Open(m)[j] BY <1>1, <1>2, <1>4, <1>5, OpenAgrees
<1>7. Open(list)[k] = Open(m)[k] BY <1>2, <1>6
<1> QED BY <1>3, <1>7 DEF CodeAt, k

(* Code, or not, behind a list.                                                  *)
Coded(list) == Open(list)[Len(list)] = 0 /\ \A i \in 1..Len(list) : i = Len(list) => list[i].type /= "@T"
Signed(list) == \E i \in 1..Len(list) : i = Len(list) /\ list[i].type = "@T"

LEMMA CodeNew ==
  ASSUME NEW list \in Seq(Tok), NEW t \in Tok, NEW m, m = Append(list, t), NEW n, n = Len(list) + 1
  PROVE  /\ t.type /= "@T" /\ Coded(list) => CodeAt(m, n)
         /\ Signed(list) \/ t.type = "@T" => ~CodeAt(m, n)
         /\ Open(list)[Len(list)] > 0 => ~CodeAt(m, n)
<1> DEFINE k == Len(list)
<1>1. /\ m \in Seq(Tok) /\ Len(m) = k + 1 /\ k \in Nat /\ m[k + 1] = t /\ m[n] = t /\ n = k + 1
      /\ \A i \in 1..k : m[i] = list[i]
  BY Appended
<1> HIDE DEF k
<1>2. n - 1 = k /\ (n > 1 => k \in 1..k) BY <1>1
<1>3. Signed(list) => n > 1 /\ m[k].type = "@T"
  <2>1. Signed(list) => k \in 1..k /\ list[k].type = "@T" BY DEF Signed, k
  <2> QED BY <2>1, <1>1
<1>4. Coded(list) => Open(list)[k] = 0 /\ (k \in 1..k => m[k].type /= "@T") BY <1>1 DEF Coded, k
<1>5. ~Signed(list) => Open(m)[k] = Open(list)[k]
  <2>1. SUFFICES ASSUME ~Signed(list) PROVE Open(m)[k] = Open(list)[k] OBVIOUS
  <2>2. \A i \in 0..k : Open(m)[i] = Open(list)[i] BY <2>1, OpenAppended DEF Signed, k
  <2>3. k \in 0..k BY <1>1
  <2> QED BY <2>2, <2>3
<1>6. Coded(list) => ~Signed(list) BY DEF Coded, Signed
<1>7. ~(0 > 0) OBVIOUS
<1>8. t.type /= "@T" /\ Coded(list) => CodeAt(m, n) BY <1>1, <1>2, <1>4, <1>5, <1>6, <1>7 DEF CodeAt
<1>9. Signed(list) \/ t.type = "@T" => ~CodeAt(m, n) BY <1>1, <1>2, <1>3 DEF CodeAt
<1>10. Open(list)[k] > 0 => ~CodeAt(m, n) BY <1>2, <1>5, <1>9 DEF CodeAt
<1> QED BY <1>8, <1>9, <1>10 DEF k

OfNext(list, t, m, n, T) ==
  /\ CodeAt(m, n) /\ t.type \in T => Of(m, T) = Of(list, T) \cup {n}
  /\ ~(CodeAt(m, n) /\ t.type \in T) => Of(m, T) = Of(list, T)

LEMMA OfAppended ==
  ASSUME NEW list \in Seq(Tok), NEW t \in Tok, NEW m, m = Append(list, t), NEW n, n = Len(list) + 1, NEW T
  PROVE  OfNext(list, t, m, n, T)
<1> DEFINE k == Len(list)
<1>1. /\ m \in Seq(Tok) /\ Len(m) = k + 1 /\ k \in Nat /\ m[k + 1] = t /\ n = k + 1
      /\ \A i \in 1..k : m[i] = list[i]
  BY Appended
<1>2. \A i \in 1..k : CodeAt(m, i) <=> CodeAt(list, i)
  <2>1. k <= Len(m) BY <1>1
  <2> QED BY <1>1, <2>1, CodeAgrees
<1>3. CodeTokens(m) = {i \in 1..n : CodeAt(m, i)} /\ CodeTokens(list) = {i \in 1..k : CodeAt(list, i)}
  BY <1>1, CodeIs
<1> HIDE DEF k
<1>4. \A i : i \in 1..n <=> i \in 1..k \/ i = n BY <1>1
<1>5. n \notin 1..k BY <1>1
<1>6. \A i : i \in Of(m, T) <=> i \in 1..n /\ CodeAt(m, i) /\ m[i].type \in T BY <1>3 DEF Of
<1>7. \A i : i \in Of(list, T) <=> i \in 1..k /\ CodeAt(list, i) /\ list[i].type \in T BY <1>3 DEF Of
<1>8. \A i : i \in Of(m, T) <=> i \in Of(list, T) \/ (i = n /\ CodeAt(m, n) /\ t.type \in T)
  BY <1>1, <1>2, <1>4, <1>5, <1>6, <1>7
<1> QED BY <1>8 DEF OfNext

(* The stack of keywords: each that is left open, by how many there are from it *)
(* to the end of the list.                                                       *)
HeldBy(list, types, i, k) ==
  /\ types[k] = list[i].type
  /\ Excess(Openers(list), Ends(list), i, Len(list)) = Len(types) - k + 1

OpenKeywords(list, types) ==
  /\ \A i \in LeftOpen(list) : \E k \in 1..Len(types) : HeldBy(list, types, i, k)
  /\ \A k \in 1..Len(types) : \E i \in LeftOpen(list) : HeldBy(list, types, i, k)

LEMMA Keeps ==
  ASSUME NEW list \in Seq(Tok), NEW t \in Tok, NEW m, m = Append(list, t), NEW types,
         OpenKeywords(list, types),
         \/ Signed(list) \/ Open(list)[Len(list)] > 0
         \/ t.type \notin is_end_terminated \cup {"end"}
  PROVE  OpenKeywords(m, types)
<1> DEFINE n == Len(list)
           p == n + 1
           O == Openers(list)
           E == Ends(list)
<1>1. m \in Seq(Tok) /\ Len(m) = p /\ n \in Nat /\ p = n + 1 /\ \A i \in 1..n : m[i] = list[i] BY Appended
<1>2. /\ O = Of(list, is_end_terminated) /\ E = Of(list, {"end"}) /\ O \subseteq 1..n /\ E \subseteq 1..n
      /\ LeftOpen(list) = Left(O, E)
  <2>1. \A T : Of(list, T) \subseteq 1..Len(list) BY CodeIs
  <2>2. O = Of(list, is_end_terminated) /\ E = Of(list, {"end"}) /\ LeftOpen(list) = Left(O, E) BY CodeIs
  <2> QED BY <2>1, <2>2
<1>3. /\ Openers(m) = Of(m, is_end_terminated) /\ Ends(m) = Of(m, {"end"})
      /\ LeftOpen(m) = Left(Openers(m), Ends(m))
  BY <1>1, CodeIs
<1>4. ~CodeAt(m, p) \/ t.type \notin is_end_terminated \cup {"end"} BY CodeNew
<1>5. Openers(m) = O
  <2>1. ~(CodeAt(m, p) /\ t.type \in is_end_terminated) BY <1>4
  <2>2. OfNext(list, t, m, p, is_end_terminated) BY OfAppended
  <2> QED BY <2>1, <2>2, <1>2, <1>3 DEF OfNext
<1>6. Ends(m) = E
  <2>1. ~(CodeAt(m, p) /\ t.type \in {"end"}) BY <1>4
  <2>2. OfNext(list, t, m, p, {"end"}) BY OfAppended
  <2> QED BY <2>1, <2>2, <1>2, <1>3 DEF OfNext
<1> HIDE DEF n, p, O, E
<1>7. \A i \in O : Excess(O, E, i, p) = Excess(O, E, i, n) BY <1>1, <1>2, LeftKept
<1>8. Left(O, E) \subseteq O BY DEF Left
<1>9. ASSUME NEW i \in Left(O, E), NEW k PROVE HeldBy(m, types, i, k) <=> HeldBy(list, types, i, k)
  <2>1. i \in O /\ i \in 1..n /\ m[i] = list[i] BY <1>1, <1>2, <1>8
  <2>2. Excess(O, E, i, p) = Excess(O, E, i, n) BY <2>1, <1>7
  <2> QED BY <2>1, <2>2, <1>1, <1>5, <1>6 DEF HeldBy, O, E, n
<1>10. LeftOpen(m) = Left(O, E) BY <1>3, <1>5, <1>6
<1> QED BY <1>2, <1>9, <1>10 DEF OpenKeywords

LEMMA Pushes ==
  ASSUME NEW list \in Seq(Tok), NEW t \in Tok, NEW m, m = Append(list, t),
         NEW types \in Seq(is_end_terminated), OpenKeywords(list, types),
         Coded(list), t.type \in is_end_terminated
  PROVE  OpenKeywords(m, Append(types, t.type))
<1> DEFINE n == Len(list)
           p == n + 1
           O == Openers(list)
           E == Ends(list)
           L == Len(types)
           more == Append(types, t.type)
<1>1. /\ m \in Seq(Tok) /\ Len(m) = p /\ n \in Nat /\ p = n + 1 /\ m[p] = t
      /\ \A i \in 1..n : m[i] = list[i]
  BY Appended
<1>2. /\ O = Of(list, is_end_terminated) /\ E = Of(list, {"end"}) /\ O \subseteq 1..n /\ E \subseteq 1..n
      /\ LeftOpen(list) = Left(O, E)
  <2>1. \A T : Of(list, T) \subseteq 1..Len(list) BY CodeIs
  <2>2. O = Of(list, is_end_terminated) /\ E = Of(list, {"end"}) /\ LeftOpen(list) = Left(O, E) BY CodeIs
  <2> QED BY <2>1, <2>2
<1>3. /\ Openers(m) = Of(m, is_end_terminated) /\ Ends(m) = Of(m, {"end"})
      /\ LeftOpen(m) = Left(Openers(m), Ends(m))
  BY <1>1, CodeIs
<1>4. CodeAt(m, p) /\ t.type /= "end"
  <2>1. "@T" \notin is_end_terminated /\ "end" \notin is_end_terminated
    BY DEF is_end_terminated, classdef_keywords
  <2> QED BY <2>1, CodeNew
<1>5. Openers(m) = O \cup {p}
  <2>1. OfNext(list, t, m, p, is_end_terminated) BY OfAppended
  <2> QED BY <2>1, <1>2, <1>3, <1>4 DEF OfNext
<1>6. Ends(m) = E
  <2>1. ~(CodeAt(m, p) /\ t.type \in {"end"}) BY <1>4
  <2>2. OfNext(list, t, m, p, {"end"}) BY OfAppended
  <2> QED BY <2>1, <2>2, <1>2, <1>3 DEF OfNext
<1>7. L \in Nat /\ Len(more) = L + 1 /\ more[L + 1] = t.type /\ \A k \in 1..L : more[k] = types[k]
  BY AppendProperties, LenProperties
<1> HIDE DEF n, p, O, E, more, L
<1>8. /\ Left(O \cup {p}, E) = Left(O, E) \cup {p} /\ Excess(O \cup {p}, E, p, p) = 1
      /\ \A i \in O : Excess(O \cup {p}, E, i, p) = Excess(O, E, i, n) + 1
  <2>1. Pushed(O, E, n, p) BY <1>1, <1>2, LeftPushed
  <2> QED BY <2>1 DEF Pushed
<1>9. \A i \in O : Excess(O, E, i, n) \in Int BY <1>1, <1>2, LeftKept
<1>10. LeftOpen(m) = Left(O, E) \cup {p} BY <1>3, <1>5, <1>6, <1>8
<1>11. Left(O, E) \subseteq O BY DEF Left
<1>12. ASSUME NEW i \in Left(O, E), NEW k \in 1..L, HeldBy(list, types, i, k) PROVE HeldBy(m, more, i, k)
  <2> DEFINE x == Excess(O, E, i, n)
             y == Excess(O \cup {p}, E, i, p)
  <2>1. i \in O /\ i \in 1..n /\ m[i] = list[i] BY <1>1, <1>2, <1>11
  <2>2. types[k] = list[i].type /\ x = L - k + 1 BY <1>12 DEF HeldBy, O, E, n, L
  <2>3. y = x + 1 BY <2>1, <1>8
  <2>4. y = L + 1 - k + 1
    <3> HIDE DEF x, y
    <3> QED BY <2>2, <2>3, <1>7
  <2>5. more[k] = m[i].type BY <2>1, <2>2, <1>7
  <2> QED BY <2>4, <2>5, <1>1, <1>5, <1>6, <1>7 DEF HeldBy
<1>13. HeldBy(m, more, p, L + 1)
  <2>1. 1 = L + 1 - (L + 1) + 1 BY <1>7
  <2> QED BY <2>1, <1>1, <1>5, <1>6, <1>7, <1>8 DEF HeldBy
<1>14. \A k : k \in 1..L + 1 <=> k \in 1..L \/ k = L + 1 BY <1>7
<1>15. /\ \A i \in Left(O, E) : \E k \in 1..L : HeldBy(list, types, i, k)
       /\ \A k \in 1..L : \E i \in Left(O, E) : HeldBy(list, types, i, k)
  BY <1>2 DEF OpenKeywords, L
<1>16. /\ \A i \in Left(O, E) \cup {p} : \E k \in 1..L + 1 : HeldBy(m, more, i, k)
       /\ \A k \in 1..L + 1 : \E i \in Left(O, E) \cup {p} : HeldBy(m, more, i, k)
  BY <1>12, <1>13, <1>14, <1>15
<1>17. OpenKeywords(m, more) BY <1>7, <1>10, <1>16 DEF OpenKeywords
<1> QED BY <1>17 DEF more

LEMMA Pops ==
  ASSUME NEW list \in Seq(Tok), NEW t \in Tok, NEW m, m = Append(list, t),
         NEW types \in Seq(is_end_terminated), OpenKeywords(list, types),
         Coded(list), t.type = "end", types /= <<>>
  PROVE  OpenKeywords(m, SubSeq(types, 1, Len(types) - 1))
<1> DEFINE n == Len(list)
           p == n + 1
           O == Openers(list)
           E == Ends(list)
           L == Len(types)
           fewer == SubSeq(types, 1, Len(types) - 1)
<1>1. /\ m \in Seq(Tok) /\ Len(m) = p /\ n \in Nat /\ p = n + 1 /\ m[p] = t
      /\ \A i \in 1..n : m[i] = list[i]
  BY Appended
<1>2. /\ O = Of(list, is_end_terminated) /\ E = Of(list, {"end"}) /\ O \subseteq 1..n /\ E \subseteq 1..n
      /\ LeftOpen(list) = Left(O, E)
  <2>1. \A T : Of(list, T) \subseteq 1..Len(list) BY CodeIs
  <2>2. O = Of(list, is_end_terminated) /\ E = Of(list, {"end"}) /\ LeftOpen(list) = Left(O, E) BY CodeIs
  <2> QED BY <2>1, <2>2
<1>3. /\ Openers(m) = Of(m, is_end_terminated) /\ Ends(m) = Of(m, {"end"})
      /\ LeftOpen(m) = Left(Openers(m), Ends(m))
  BY <1>1, CodeIs
<1>4. CodeAt(m, p) /\ t.type \notin is_end_terminated
  <2>1. "end" \notin is_end_terminated BY DEF is_end_terminated, classdef_keywords
  <2> QED BY <2>1, CodeNew
<1>5. Openers(m) = O
  <2>1. ~(CodeAt(m, p) /\ t.type \in is_end_terminated) BY <1>4
  <2>2. OfNext(list, t, m, p, is_end_terminated) BY OfAppended
  <2> QED BY <2>1, <2>2, <1>2, <1>3 DEF OfNext
<1>6. Ends(m) = E \cup {p}
  <2>1. t.type \in {"end"} OBVIOUS
  <2>2. OfNext(list, t, m, p, {"end"}) BY OfAppended
  <2> QED BY <2>1, <2>2, <1>2, <1>3, <1>4 DEF OfNext
<1>7. L \in Nat /\ L > 0 /\ Len(fewer) = L - 1 /\ \A k \in 1..L - 1 : fewer[k] = types[k]
  <2>1. L \in Nat BY LenProperties
  <2>2. L > 0 BY <2>1, EmptySeq
  <2>3. \A i \in 1..L - 1 : types[i] \in is_end_terminated /\ 1 + i - 1 = i
    <3>1. \A i \in 1..L : types[i] \in is_end_terminated BY ElementOfSeq
    <3> HIDE DEF L
    <3> QED BY <2>1, <3>1
  <2>4. /\ Len(fewer) = IF 1 <= L - 1 THEN L - 1 - 1 + 1 ELSE 0
        /\ \A i \in 1..L - 1 - 1 + 1 : fewer[i] = types[1 + i - 1]
    <3>1. 1 \in Int /\ L - 1 \in Int BY <2>1
    <3> QED BY <2>3, <3>1, SubSeqProperties
  <2> HIDE DEF L, fewer
  <2>5. L - 1 - 1 + 1 = L - 1 /\ (IF 1 <= L - 1 THEN L - 1 - 1 + 1 ELSE 0) = L - 1 BY <2>1, <2>2
  <2> QED BY <2>1, <2>2, <2>3, <2>4, <2>5
<1> HIDE DEF n, p, O, E, fewer, L
<1>8. /\ Left(O, E \cup {p}) = {i \in Left(O, E) : Excess(O, E, i, n) /= 1}
      /\ \A i \in O : Excess(O, E \cup {p}, i, p) = Excess(O, E, i, n) - 1
  <2>1. Popped(O, E, n, p) BY <1>1, <1>2, LeftPopped
  <2> QED BY <2>1 DEF Popped
<1>9. \A i \in O : Excess(O, E, i, n) \in Int BY <1>1, <1>2, LeftKept
<1> DEFINE rest == {i \in Left(O, E) : Excess(O, E, i, n) /= 1}
<1>10. LeftOpen(m) = rest BY <1>3, <1>5, <1>6, <1>8
<1>11. Left(O, E) \subseteq O BY DEF Left
<1>12. ASSUME NEW i \in Left(O, E), NEW k \in 1..L, HeldBy(list, types, i, k)
       PROVE  /\ k \in 1..L - 1 <=> i \in rest
              /\ k \in 1..L - 1 => HeldBy(m, fewer, i, k)
  <2> DEFINE x == Excess(O, E, i, n)
             y == Excess(O, E \cup {p}, i, p)
  <2>1. i \in O /\ i \in 1..n /\ m[i] = list[i] BY <1>1, <1>2, <1>11
  <2>2. types[k] = list[i].type /\ x = L - k + 1 BY <1>12 DEF HeldBy, O, E, n, L
  <2>3. y = x - 1 BY <2>1, <1>8
  <2>4. i \in rest <=> x /= 1 OBVIOUS
  <2>5. y = L - 1 - k + 1 /\ (k \in 1..L - 1 <=> x /= 1)
    <3> HIDE DEF x, y
    <3> QED BY <2>2, <2>3, <1>7
  <2>6. k \in 1..L - 1 => fewer[k] = m[i].type BY <2>1, <2>2, <1>7
  <2>7. k \in 1..L - 1 => HeldBy(m, fewer, i, k)
    BY <2>5, <2>6, <1>1, <1>5, <1>6, <1>7 DEF HeldBy
  <2> QED BY <2>4, <2>5, <2>7
<1>13. \A k \in 1..L - 1 : k \in 1..L BY <1>7
<1>14. /\ \A i \in Left(O, E) : \E k \in 1..L : HeldBy(list, types, i, k)
       /\ \A k \in 1..L : \E i \in Left(O, E) : HeldBy(list, types, i, k)
  BY <1>2 DEF OpenKeywords, L
<1>15. rest \subseteq Left(O, E) OBVIOUS
<1> HIDE DEF rest
<1>16. \A i \in rest : \E k \in 1..L - 1 : HeldBy(m, fewer, i, k) BY <1>12, <1>14, <1>15
<1>17. \A k \in 1..L - 1 : \E i \in rest : HeldBy(m, fewer, i, k) BY <1>12, <1>13, <1>14
<1>18. OpenKeywords(m, fewer) BY <1>7, <1>10, <1>16, <1>17 DEF OpenKeywords
<1> QED BY <1>18 DEF fewer


------------------------------------------------------------------------------
(* The depths of parentheses and braces are counts of the tokens.              *)

LParen == "("
RParen == ")"
LBrace == "{"
RBrace == "}"

DepthStep(d, d2, type) ==
  /\ d2[LParen] = d[LParen] + One(type = LParen) - One(type = RParen)
  /\ d2[LBrace] = d[LBrace] + One(type = LBrace) - One(type = RBrace)

LEMMA GroupsAre ==
  /\ LParen \in Opening /\ LBrace \in Opening /\ LParen /= LBrace
  /\ RParen \in DOMAIN Closing /\ RBrace \in DOMAIN Closing /\ RParen /= RBrace
  /\ \A c \in DOMAIN Closing : /\ c \notin Opening /\ Closing[c] \in Opening
                               /\ Closing[c] = LParen <=> c = RParen
                               /\ Closing[c] = LBrace <=> c = RBrace
<1>1. LParen \in Opening /\ LBrace \in Opening /\ LParen /= LBrace BY DEF LParen, LBrace, Opening
<1>2. DOMAIN Closing = {")", "]", "}"} BY DEF Closing
<1>3. RParen \in DOMAIN Closing /\ RBrace \in DOMAIN Closing /\ RParen /= RBrace
  BY <1>2 DEF RParen, RBrace
<1>4. Closing[")"] = "(" /\ Closing["]"] = "[" /\ Closing["}"] = "{" BY DEF Closing
<1>5. ASSUME NEW c \in DOMAIN Closing
      PROVE  /\ c \notin Opening /\ Closing[c] \in Opening
             /\ Closing[c] = LParen <=> c = RParen
             /\ Closing[c] = LBrace <=> c = RBrace
  <2>1. CASE c = ")" BY <2>1, <1>4 DEF LParen, RParen, LBrace, RBrace, Opening
  <2>2. CASE c = "]" BY <2>2, <1>4 DEF LParen, RParen, LBrace, RBrace, Opening
  <2>3. CASE c = "}" BY <2>3, <1>4 DEF LParen, RParen, LBrace, RBrace, Opening
  <2> QED BY <2>1, <2>2, <2>3, <1>2
<1> QED BY <1>1, <1>3, <1>5

LEMMA GroupedIs ==
  ASSUME depth \in [Opening -> Int], NEW type
  PROVE  DepthStep(depth, Grouped(type), type)
<1> DEFINE up == [depth EXCEPT ![type] = @ + 1]
           down == [depth EXCEPT ![Closing[type]] = @ - 1]
<1>1. LParen \in Opening /\ LBrace \in Opening BY GroupsAre
<1>2. depth[LParen] \in Int /\ depth[LBrace] \in Int BY <1>1
<1>3. CASE type \in Opening
  <2>1. Grouped(type) = up /\ type \notin DOMAIN Closing BY <1>3, GroupsAre DEF Grouped
  <2>2. type /= RParen /\ type /= RBrace BY <2>1, GroupsAre
  <2>3. \A g \in Opening : up[g] = IF g = type THEN depth[g] + 1 ELSE depth[g] BY <1>3
  <2> HIDE DEF up
  <2>4. /\ up[LParen] = IF LParen = type THEN depth[LParen] + 1 ELSE depth[LParen]
        /\ up[LBrace] = IF LBrace = type THEN depth[LBrace] + 1 ELSE depth[LBrace]
    BY <2>3, <1>1
  <2>5. DepthStep(depth, up, type) BY <2>2, <2>4, <1>2 DEF DepthStep, One
  <2> QED BY <2>1, <2>5
<1>4. CASE type \in DOMAIN Closing
  <2> DEFINE o == Closing[type]
  <2>1. Grouped(type) = down /\ type \notin Opening /\ o \in Opening BY <1>4, GroupsAre DEF Grouped
  <2>2. /\ type /= LParen /\ type /= LBrace
        /\ LParen = o <=> type = RParen
        /\ LBrace = o <=> type = RBrace
    BY <2>1, <1>4, GroupsAre
  <2>3. \A g \in Opening : down[g] = IF g = o THEN depth[g] - 1 ELSE depth[g] BY <2>1
  <2> HIDE DEF down, o
  <2>4. /\ down[LParen] = IF type = RParen THEN depth[LParen] - 1 ELSE depth[LParen]
        /\ down[LBrace] = IF type = RBrace THEN depth[LBrace] - 1 ELSE depth[LBrace]
    BY <2>2, <2>3, <1>1
  <2>5. DepthStep(depth, down, type) BY <2>2, <2>4, <1>2 DEF DepthStep, One
  <2> QED BY <2>1, <2>5
<1>5. CASE type \notin Opening /\ type \notin DOMAIN Closing
  <2>1. Grouped(type) = depth BY <1>5 DEF Grouped
  <2>2. type /= LParen /\ type /= RParen /\ type /= LBrace /\ type /= RBrace BY <1>5, GroupsAre
  <2>3. DepthStep(depth, depth, type) BY <2>2, <1>2 DEF DepthStep, One
  <2> QED BY <2>1, <2>3
<1> QED BY <1>3, <1>4, <1>5

LEMMA NotGrouped ==
  ASSUME depth \in [Opening -> Int], NEW type, type \notin Symbols
  PROVE  DepthStep(depth, depth, type)
<1>1. LParen \in Symbols /\ RParen \in Symbols /\ LBrace \in Symbols /\ RBrace \in Symbols
  BY DEF LParen, RParen, LBrace, RBrace, Symbols
<1>2. type /= LParen /\ type /= RParen /\ type /= LBrace /\ type /= RBrace BY <1>1
<1>3. depth[LParen] \in Int /\ depth[LBrace] \in Int BY GroupsAre
<1> QED BY <1>2, <1>3 DEF DepthStep, One

Depths(list, d) ==
  /\ d[LParen] = Count(list, {LParen}, Len(list)) - Count(list, {RParen}, Len(list))
  /\ d[LBrace] = Count(list, {LBrace}, Len(list)) - Count(list, {RBrace}, Len(list))

InGroup(list, i) ==
  \/ Count(list, {LParen}, i) > Count(list, {RParen}, i)
  \/ Count(list, {LBrace}, i) > Count(list, {RBrace}, i)

Subscripts(list) ==
  \A i \in 1..Len(list) : list[i].type \in {"end", "op_end"} => (InGroup(list, i) <=> list[i].type = "op_end")

(* An end is told by the depths when it is scanned.                             *)
EndTold(d, type) == type \in {"end", "op_end"} => (d[LParen] > 0 \/ d[LBrace] > 0 <=> type = "op_end")

CountNext(list, t, m, T) ==
  /\ \A i \in 0..Len(list) : Count(m, T, i) = Count(list, T, i)
  /\ Count(m, T, Len(m)) = Count(list, T, Len(list)) + One(t.type \in T)

LEMMA CountAppended ==
  ASSUME NEW list \in Seq(Tok), NEW t \in Tok, NEW m, m = Append(list, t), NEW T
  PROVE  CountNext(list, t, m, T)
<1> DEFINE n == Len(list)
<1>1. /\ m \in Seq(Tok) /\ Len(m) = n + 1 /\ n \in Nat /\ m[n + 1] = t
      /\ \A i \in 1..n : m[i] = list[i]
  BY Appended
<1> DEFINE X == Typed(list, T)
           Y == Typed(m, T)
<1> HIDE DEF n
<1>2. ASSUME NEW i \in 0..n PROVE {j \in Y : j < i + 1} = {j \in X : j < i + 1}
  <2>1. \A j : j \in X <=> j \in 1..n /\ list[j].type \in T BY DEF Typed, n
  <2>2. \A j : j \in Y <=> j \in 1..n + 1 /\ m[j].type \in T BY <1>1 DEF Typed
  <2>3. \A j \in 1..n + 1 : j < i + 1 => j \in 1..n BY <1>1
  <2>4. \A j \in 1..n : j \in 1..n + 1 BY <1>1
  <2> HIDE DEF X, Y
  <2>5. \A j : j \in Y /\ j < i + 1 <=> j \in X /\ j < i + 1 BY <1>1, <2>1, <2>2, <2>3, <2>4
  <2> QED BY <2>5
<1>3. \A i \in 0..n : Count(m, T, i) = Count(list, T, i) BY <1>2 DEF Count, Before
<1> DEFINE p == n + 1
<1>4. p \in 1..Len(m) /\ n = p - 1 /\ n \in 0..n /\ m[p] = t /\ Len(m) = p BY <1>1
<1>5. Count(m, T, p) = Count(m, T, n) + IF m[p].type \in T THEN 1 ELSE 0
  <2>1. \A i \in 1..Len(m) : \A j : j = i - 1 =>
          Count(m, T, i) = Count(m, T, j) + IF m[i].type \in T THEN 1 ELSE 0
    BY <1>1, CountIs
  <2> HIDE DEF p
  <2> QED BY <1>4, <2>1
<1> QED BY <1>3, <1>4, <1>5 DEF One, n, CountNext

LEMMA GroupsAppended ==
  ASSUME NEW list \in Seq(Tok), NEW t \in Tok, NEW m, m = Append(list, t), NEW d, NEW d2,
         Depths(list, d), Subscripts(list), DepthStep(d, d2, t.type), EndTold(d, t.type)
  PROVE  Depths(m, d2) /\ Subscripts(m)
<1> DEFINE n == Len(list)
<1>1. /\ m \in Seq(Tok) /\ Len(m) = n + 1 /\ n \in Nat /\ m[n + 1] = t
      /\ \A i \in 1..n : m[i] = list[i]
  BY Appended
<1>2. \A x : One(t.type \in {x}) = One(t.type = x) BY DEF One
<1>3. \A x : /\ \A i \in 0..n : Count(m, {x}, i) = Count(list, {x}, i)
             /\ Count(m, {x}, Len(m)) = Count(list, {x}, n) + One(t.type = x)
             /\ Count(list, {x}, n) \in Int
  <2> TAKE x
  <2> DEFINE T == {x}
  <2>4. One(t.type \in T) = One(t.type = x) BY <1>2
  <2> HIDE DEF T
  <2>1. /\ \A i \in 0..Len(list) : Count(m, T, i) = Count(list, T, i)
        /\ Count(m, T, Len(m)) = Count(list, T, Len(list)) + One(t.type \in T)
    <3>1. CountNext(list, t, m, T) BY CountAppended
    <3> QED BY <3>1 DEF CountNext
  <2>5. \A i \in 0..Len(list) : Count(list, T, i) \in Nat BY CountIs
  <2> HIDE DEF n
  <2>2. n \in 0..n /\ n = Len(list) BY <1>1 DEF n
  <2>3. Count(list, T, n) \in Int BY <2>2, <2>5
  <2> QED BY <2>1, <2>2, <2>3, <2>4 DEF T
<1> DEFINE a(x) == Count(list, {x}, n)
           b(x) == Count(m, {x}, Len(m))
           e(x) == One(t.type = x)
<1>4. \A x : b(x) = a(x) + e(x) /\ a(x) \in Int /\ e(x) \in Int
  <2>1. \A x : e(x) \in Int BY DEF One
  <2>2. \A x : b(x) = a(x) + e(x) /\ a(x) \in Int BY <1>3
  <2> QED BY <2>1, <2>2
<1>5. d[LParen] = a(LParen) - a(RParen) /\ d[LBrace] = a(LBrace) - a(RBrace) BY DEF Depths
<1>6. d2[LParen] = d[LParen] + e(LParen) - e(RParen) /\ d2[LBrace] = d[LBrace] + e(LBrace) - e(RBrace)
  BY DEF DepthStep
<1>7. d2[LParen] = b(LParen) - b(RParen) /\ d2[LBrace] = b(LBrace) - b(RBrace)
  <2> HIDE DEF a, b, e
  <2>1. ASSUME NEW x, NEW y, NEW u, NEW v, u = a(x) - a(y), v = u + e(x) - e(y) PROVE v = b(x) - b(y)
    <3> DEFINE ax == a(x)
               ay == a(y)
               ex == e(x)
               ey == e(y)
               bx == b(x)
               by == b(y)
    <3>1. ax \in Int /\ ay \in Int /\ ex \in Int /\ ey \in Int /\ bx = ax + ex /\ by = ay + ey BY <1>4
    <3>2. u = ax - ay /\ v = u + ex - ey BY <2>1
    <3> HIDE DEF ax, ay, ex, ey, bx, by
    <3>3. v = bx - by BY <3>1, <3>2
    <3> QED BY <3>3 DEF bx, by
  <2>2. d2[LParen] = b(LParen) - b(RParen) BY <2>1, <1>5, <1>6
  <2>3. d2[LBrace] = b(LBrace) - b(RBrace) BY <2>1, <1>5, <1>6
  <2> QED BY <2>2, <2>3
<1>8. Depths(m, d2) BY <1>7 DEF Depths
<1>9. ASSUME NEW i \in 1..n PROVE m[i].type \in {"end", "op_end"} => (InGroup(m, i) <=> m[i].type = "op_end")
  <2>1. i \in 0..n /\ m[i] = list[i] BY <1>1
  <2>2. InGroup(m, i) <=> InGroup(list, i) BY <2>1, <1>3 DEF InGroup
  <2> QED BY <2>1, <2>2 DEF Subscripts
<1>10. ASSUME t.type \in {"end", "op_end"} PROVE InGroup(m, n + 1) <=> t.type = "op_end"
  <2>0. {"end", "op_end"} \cap Symbols = {} BY DEF Symbols
  <2>1. t.type \notin {LParen, RParen, LBrace, RBrace}
    <3>1. {LParen, RParen, LBrace, RBrace} \subseteq Symbols BY DEF LParen, RParen, LBrace, RBrace, Symbols
    <3> QED BY <3>1, <2>0, <1>10
  <2>2. \A x \in {LParen, RParen, LBrace, RBrace} : b(x) = a(x)
    <3> SUFFICES ASSUME NEW x \in {LParen, RParen, LBrace, RBrace} PROVE b(x) = a(x) OBVIOUS
    <3>1. e(x) = 0 BY <2>1 DEF One
    <3> HIDE DEF a, b, e
    <3> DEFINE ax == a(x)
               bx == b(x)
               ex == e(x)
    <3>2. ax \in Int /\ bx = ax + ex /\ ex = 0 BY <3>1, <1>4
    <3> HIDE DEF ax, bx, ex
    <3>3. bx = ax BY <3>2
    <3> QED BY <3>3 DEF ax, bx
  <2>3. InGroup(m, n + 1) <=> b(LParen) > b(RParen) \/ b(LBrace) > b(RBrace) BY <1>1 DEF InGroup
  <2> HIDE DEF a, b, e
  <2>4. InGroup(m, n + 1) <=> a(LParen) > a(RParen) \/ a(LBrace) > a(RBrace) BY <2>2, <2>3
  <2>5. ASSUME NEW x, NEW y PROVE a(x) > a(y) <=> a(x) - a(y) > 0
    <3> DEFINE ax == a(x)
               ay == a(y)
    <3>1. ax \in Int /\ ay \in Int BY <1>4
    <3> HIDE DEF ax, ay
    <3>2. ax > ay <=> ax - ay > 0 BY <3>1
    <3> QED BY <3>2 DEF ax, ay
  <2>6. InGroup(m, n + 1) <=> d[LParen] > 0 \/ d[LBrace] > 0 BY <2>4, <2>5, <1>5
  <2> QED BY <2>6, <1>10 DEF EndTold
<1> HIDE DEF n
<1>11. Subscripts(m)
  <2> SUFFICES ASSUME NEW i \in 1..n + 1
               PROVE  m[i].type \in {"end", "op_end"} => (InGroup(m, i) <=> m[i].type = "op_end")
    BY <1>1 DEF Subscripts
  <2>1. CASE i \in 1..n BY <2>1, <1>9
  <2>2. CASE i = n + 1
    <3>1. m[i] = t BY <2>2, <1>1
    <3> QED BY <3>1, <2>2, <1>10
  <2> QED BY <2>1, <2>2, <1>1
<1> QED BY <1>8, <1>11


------------------------------------------------------------------------------
(* What the steps of the scanner do with keywords and ends.                    *)

KeywordsHeld(list, k) ==
  OpenKeywords(list, k.types) /\ \A i \in 1..Len(k.types) : k.types[i] \in k.seen

KeywordsStep(list, type, k, k2) ==
  \/ k2 = k /\ (Signed(list) \/ Open(list)[Len(list)] > 0 \/ type \notin is_end_terminated \cup {"end"})
  \/ Coded(list) /\ k2 = register_keyword(k, type) /\ ~k2.extraneous

LEMMA HeldAppended ==
  ASSUME NEW list \in Seq(Tok), NEW t \in Tok, NEW m, m = Append(list, t), NEW k \in Keywords, NEW k2,
         KeywordsHeld(list, k), KeywordsStep(list, t.type, k, k2)
  PROVE  KeywordsHeld(m, k2)
<1> DEFINE types == k.types
           L == Len(types)
<1>1. /\ types \in Seq(is_end_terminated) /\ k.seen \in SUBSET is_end_terminated /\ k.extraneous = FALSE
      /\ k = [types |-> k.types, seen |-> k.seen, extraneous |-> k.extraneous]
  BY DEF Keywords
<1>2. L \in Nat BY <1>1, LenProperties
<1>3. OpenKeywords(list, types) /\ \A i \in 1..L : types[i] \in k.seen BY DEF KeywordsHeld
<1>4. CASE k2 = k /\ (Signed(list) \/ Open(list)[Len(list)] > 0 \/ t.type \notin is_end_terminated \cup {"end"})
  <2>1. OpenKeywords(m, types) BY <1>3, <1>4, Keeps
  <2> QED BY <2>1, <1>3, <1>4 DEF KeywordsHeld
<1>5. CASE Coded(list) /\ k2 = register_keyword(k, t.type) /\ ~k2.extraneous
  <2>0. "end" \notin is_end_terminated BY DEF is_end_terminated, classdef_keywords
  <2>1. CASE t.type = "end"
    <3>1. k2 = pop_keyword(k) BY <1>5, <2>0, <2>1 DEF register_keyword
    <3>2. types /= <<>>
      <4> SUFFICES ASSUME types = <<>> PROVE FALSE OBVIOUS
      <4>1. k2 = [k EXCEPT !.extraneous = TRUE] BY <3>1 DEF pop_keyword
      <4>2. k2.extraneous = TRUE BY <4>1, <1>1
      <4> QED BY <4>2, <1>5
    <3> DEFINE fewer == SubSeq(types, 1, L - 1)
    <3>3. k2.types = fewer /\ k2.seen = k.seen
      <4>1. k2 = [k EXCEPT !.types = fewer] BY <3>1, <3>2 DEF pop_keyword
      <4> HIDE DEF fewer
      <4> QED BY <4>1, <1>1
    <3>4. OpenKeywords(m, fewer) BY <1>1, <1>3, <1>5, <2>1, <3>2, Pops
    <3>5. L > 0 BY <1>1, <1>2, <3>2, EmptySeq
    <3>6. \A i \in 1..Len(fewer) : fewer[i] \in k.seen
      <4>1. \A i \in 1..L - 1 : types[i] \in k.seen /\ 1 + i - 1 = i
        <5> HIDE DEF L
        <5> QED BY <1>2, <1>3
      <4>2. 1 \in Int /\ L - 1 \in Int BY <1>2
      <4>3. /\ Len(fewer) = IF 1 <= L - 1 THEN L - 1 - 1 + 1 ELSE 0
            /\ \A i \in 1..L - 1 - 1 + 1 : fewer[i] = types[1 + i - 1]
        BY <4>1, <4>2, SubSeqProperties
      <4> HIDE DEF fewer, L
      <4>4. L - 1 - 1 + 1 = L - 1 /\ (IF 1 <= L - 1 THEN L - 1 - 1 + 1 ELSE 0) = L - 1 BY <1>2, <3>5
      <4> QED BY <4>1, <4>3, <4>4
    <3> HIDE DEF fewer
    <3> QED BY <3>3, <3>4, <3>6 DEF KeywordsHeld
  <2>2. CASE t.type \in is_end_terminated
    <3> DEFINE more == Append(types, t.type)
    <3>1. k2 = [k EXCEPT !.types = Append(@, t.type), !.seen = @ \cup {t.type}]
      BY <1>5, <2>0, <2>2 DEF register_keyword
    <3>2. k2.types = more /\ k2.seen = k.seen \cup {t.type} BY <3>1, <1>1
    <3>3. OpenKeywords(m, more) BY <1>1, <1>3, <1>5, <2>2, Pushes
    <3>4. Len(more) = L + 1 /\ more[L + 1] = t.type /\ \A i \in 1..L : more[i] = types[i]
      BY <1>1, <2>2, AppendProperties, LenProperties
    <3> HIDE DEF more, L
    <3>5. \A i \in 1..Len(more) : more[i] \in k.seen \cup {t.type}
      <4> SUFFICES ASSUME NEW i \in 1..L + 1 PROVE more[i] \in k.seen \cup {t.type} BY <3>4
      <4>1. CASE i = L + 1 BY <4>1, <3>4
      <4>2. CASE i \in 1..L BY <4>2, <3>4, <1>3
      <4> QED BY <4>1, <4>2, <1>2
    <3> QED BY <3>2, <3>3, <3>5 DEF KeywordsHeld
  <2>3. CASE t.type /= "end" /\ t.type \notin is_end_terminated
    <3>1. k2 = k BY <1>5, <2>3 DEF register_keyword
    <3>2. OpenKeywords(m, types)
      <4>1. t.type \notin is_end_terminated \cup {"end"} BY <2>3
      <4> QED BY <4>1, <1>3, Keeps
    <3> QED BY <3>1, <3>2, <1>3 DEF KeywordsHeld
  <2> QED BY <2>1, <2>2, <2>3
<1> QED BY <1>4, <1>5 DEF KeywordsStep

(* What a list says of the keywords and of the depths.                          *)
Matches(list, k, d) == KeywordsHeld(list, k) /\ Depths(list, d) /\ Subscripts(list)

Follow(list, type, k, k2, d, d2) ==
  KeywordsStep(list, type, k, k2) /\ DepthStep(d, d2, type) /\ EndTold(d, type)

LEMMA MatchesAppended ==
  ASSUME NEW list \in Seq(Tok), NEW t \in Tok, NEW k \in Keywords, NEW k2, NEW d, NEW d2,
         Matches(list, k, d), Follow(list, t.type, k, k2, d, d2)
  PROVE  Matches(Append(list, t), k2, d2)
<1> DEFINE m == Append(list, t)
<1> HIDE DEF m
<1>0. m = Append(list, t) BY DEF m
<1>1. KeywordsHeld(m, k2) BY <1>0, HeldAppended DEF Matches, Follow
<1>2. Depths(m, d2) /\ Subscripts(m) BY <1>0, GroupsAppended DEF Matches, Follow
<1> QED BY <1>1, <1>2 DEF Matches, m

(* A token that is neither a keyword nor an end.                                *)
LEMMA PlainFollows ==
  ASSUME NEW list, NEW type, NEW k, NEW d, NEW d2, DepthStep(d, d2, type),
         type \notin is_end_terminated \cup {"end", "op_end"}
  PROVE  Follow(list, type, k, k, d, d2)
BY DEF Follow, KeywordsStep, EndTold

(* A token of an annotation that is no end.                                     *)
LEMMA AnnotatedFollows ==
  ASSUME NEW list, NEW type, NEW k, NEW d, DepthStep(d, d, type), type \notin {"end", "op_end"},
         Signed(list) \/ Open(list)[Len(list)] > 0
  PROVE  Follow(list, type, k, k, d, d)
BY DEF Follow, KeywordsStep, EndTold

LEMMA CodeTypeTold ==
  ASSUME NEW c \in matlab_keywords \cup classdef_keywords
  PROVE  EndTold(depth, CodeType(c))
<1>1. c /= "op_end" BY DEF matlab_keywords, classdef_keywords
<1>2. (\E g \in {"(", "{"} : depth[g] > 0) <=> depth[LParen] > 0 \/ depth[LBrace] > 0 BY DEF LParen, LBrace
<1> DEFINE in == \E g \in {"(", "{"} : depth[g] > 0
<1>3. CodeType(c) = IF c = "end" /\ in THEN "op_end" ELSE c BY DEF CodeType
<1> HIDE DEF in
<1>4. in <=> depth[LParen] > 0 \/ depth[LBrace] > 0 BY <1>2 DEF in
<1> QED BY <1>1, <1>3, <1>4 DEF EndTold

LEMMA SumOfOpen ==
  ASSUME NEW o, NEW d \in Int, d >= 0, NEW e, o = d + e
  PROVE  /\ e = 1 => o > 0
         /\ e = 0 => (o > 0 <=> d > 0) /\ (~(d > 0) => o = 0)
OBVIOUS

(* The words of the code and those of an annotation.                            *)
LEMMA WordFollows ==
  ASSUME NEW w, NEW c, WordSays(w, c, line_annotation, annotation_depth), w.error = "",
         keywords \in Keywords, depth \in [Opening -> Int], tokens \in Seq(Tok),
         annotation_depth \in Int, line_annotation \in BOOLEAN,
         BalancedAt(tokens, annotation_depth, line_annotation)
  PROVE  Follow(tokens, w.type, keywords, w.keywords, depth, depth)
<1> DEFINE within == line_annotation \/ annotation_depth > 0
           o == Open(tokens)[Len(tokens)]
<1> DEFINE d == annotation_depth
           e == LineOpen(line_annotation)
<1>0. d \in Int /\ d >= 0 /\ o = d + e BY DEF BalancedAt
<1>12. (line_annotation => e = 1) /\ (~line_annotation => e = 0) BY DEF LineOpen
<1>1. o > 0 <=> within
  <2>0. within <=> line_annotation \/ d > 0 OBVIOUS
  <2> HIDE DEF o, d, e, within
  <2>1. (e = 1 => o > 0) /\ (e = 0 => (o > 0 <=> d > 0)) BY <1>0, SumOfOpen
  <2> QED BY <2>0, <2>1, <1>12
<1>2. ~within => Coded(tokens)
  <2>1. ~within => ~line_annotation /\ ~(d > 0) OBVIOUS
  <2>2. e = 0 /\ ~(d > 0) => o = 0
    <3> HIDE DEF o, d, e
    <3> QED BY <1>0, SumOfOpen
  <2>3. \A i \in 1..Len(tokens) : i = Len(tokens) /\ tokens[i].type = "@T" => line_annotation BY DEF BalancedAt
  <2> HIDE DEF within, d, e
  <2>4. ~within => o = 0 BY <2>1, <2>2, <1>12
  <2> QED BY <2>1, <2>3, <2>4 DEF Coded
<1>3. w.type \in WordTypes BY WordTypeIs
<1>4. w.type \notin Symbols BY <1>3, WordTypesAre
<1>5. DepthStep(depth, depth, w.type) BY <1>4, NotGrouped
<1>6. /\ "op_end" \notin Opened \cup AnyKeyword \cup is_end_terminated /\ "end" \notin Opened
      /\ {"identifier", "end_type", "function_type"} \cap (is_end_terminated \cup {"end", "op_end"}) = {}
  BY BeginIs DEF Opened, AnyKeyword, is_end_terminated, typing_end_terminated, classdef_keywords,
                 matlab_keywords, typing_keywords
<1> HIDE DEF within, o, d, e
<1>7. CASE IsWord(w, "identifier", annotation_depth, keywords)
  <2>1. w.type \notin is_end_terminated \cup {"end", "op_end"} /\ w.keywords = keywords
    BY <1>6, <1>7 DEF IsWord
  <2> QED BY <2>1, <1>5, PlainFollows
<1>8. CASE /\ ~within /\ c \in matlab_keywords \cup classdef_keywords
           /\ ~register_keyword(keywords, CodeType(c)).extraneous
           /\ w.type = CodeType(c) /\ w.keywords = register_keyword(keywords, CodeType(c))
  <2>1. EndTold(depth, w.type) BY <1>8, CodeTypeTold
  <2>2. KeywordsStep(tokens, w.type, keywords, w.keywords) BY <1>2, <1>8 DEF KeywordsStep
  <2> QED BY <2>1, <2>2, <1>5 DEF Follow
<1>9. CASE within /\ w.keywords = keywords /\ w.type \notin {"end", "op_end"}
  BY <1>1, <1>5, <1>9, AnnotatedFollows DEF o
<1>10. \/ IsWord(w, "identifier", annotation_depth, keywords)
       \/ /\ ~within /\ c \in matlab_keywords \cup classdef_keywords
          /\ ~register_keyword(keywords, CodeType(c)).extraneous
          /\ w.type = CodeType(c) /\ w.keywords = register_keyword(keywords, CodeType(c))
       \/ within /\ w.keywords = keywords /\ w.type = "end_type"
       \/ within /\ w.keywords = keywords /\ w.type = "function_type"
       \/ within /\ w.keywords = keywords /\ w.type = c /\ c \in Opened \ {"end", "function"}
       \/ within /\ w.keywords = keywords /\ w.type = c /\ c \in AnyKeyword \ (Opened \cup {"end", "function"})
  BY DEF WordSays, IsWord, within
<1>11. "end_type" \notin {"end", "op_end"} /\ "function_type" \notin {"end", "op_end"} OBVIOUS
<1> QED BY <1>6, <1>7, <1>8, <1>9, <1>10, <1>11


Matched == errors = {} /\ ~BeginsWithEnd(tokens) => Matches(tokens, keywords, depth)

LEMMA MatchedKept ==
  ASSUME Shape, Balanced, Matched, Steps, text' = text
  PROVE  Matched'
<1>1. SUFFICES ASSUME errors' = {}, ~BeginsWithEnd(tokens')
               PROVE  Matches(tokens', keywords', depth')
  BY BeginsWithEndIs DEF Matched, BeginsWithEnd
<1>2. /\ tokens \in Seq(Tok) /\ line_annotation \in BOOLEAN /\ annotation_depth \in Int
      /\ keywords \in Keywords /\ depth \in [Opening -> Int] /\ pos' \in pos..Len(text) + 1
  BY DEF Shape, Steps
<1>3. ASSUME errors = {}, ~BeginsWithEnd(tokens)
      PROVE  /\ Matches(tokens, keywords, depth)
             /\ BalancedAt(tokens, annotation_depth, line_annotation) /\ annotation_depth >= 0
  BY <1>3 DEF Matched, Balanced, BalancedAt
<1>4. ASSUME NEW type, NEW p, NEW q, Adds(type, p, q)
      PROVE  /\ errors = {} /\ ~BeginsWithEnd(tokens) /\ Token(type, p, q) \in Tok
             /\ Token(type, p, q).type = type /\ tokens' = Append(tokens, Token(type, p, q))
  <2>1. errors = {} BY <1>1, <1>4 DEF Adds
  <2>2. Token(type, p, q) \in Tok /\ Token(type, p, q).type = type BY <1>4, TokenMade DEF Adds
  <2>3. tokens' = Append(tokens, Token(type, p, q)) BY <1>4 DEF Adds
  <2>4. ~BeginsWithEnd(tokens) BY <1>1, <1>2, <2>2, <2>3, StillBeginsWithEnd
  <2> QED BY <2>1, <2>2, <2>3, <2>4
<1>5. ASSUME NEW type, NEW p, NEW q, Adds(type, p, q), NEW k2, NEW d2,
             Follow(tokens, type, keywords, k2, depth, d2)
      PROVE  Matches(tokens', k2, d2)
  <2> DEFINE t == Token(type, p, q)
  <2>1. t \in Tok /\ t.type = type /\ tokens' = Append(tokens, t) /\ Matches(tokens, keywords, depth)
    BY <1>3, <1>4, <1>5
  <2> HIDE DEF t
  <2>2. Matches(Append(tokens, t), k2, d2) BY <1>2, <1>5, <2>1, MatchesAppended
  <2> QED BY <2>1, <2>2
<1>6. "end" \notin Symbols /\ "op_end" \notin Symbols BY DEF Symbols
<1>7. CASE Quiet
  <2>1. errors = {} /\ ~BeginsWithEnd(tokens) BY <1>1, <1>7 DEF Quiet
  <2> QED BY <2>1, <1>3, <1>7 DEF Quiet
<1>8. CASE Fails BY <1>1, <1>8 DEF Fails
<1>9. CASE AddsSymbol
  <2>1. PICK type \in Symbols \cup {s[3] : s \in DoubledSymbols} :
          Adds(type, pos, pos') /\ depth' = Grouped(type)
    BY <1>9 DEF AddsSymbol
  <2>2. type \notin is_end_terminated \cup {"end", "op_end"} BY SymbolsAre DEF Opened
  <2>3. DepthStep(depth, depth', type) BY <2>1, <1>2, GroupedIs
  <2>4. Follow(tokens, type, keywords, keywords, depth, depth') BY <2>2, <2>3, PlainFollows
  <2>5. keywords' = keywords BY <1>9 DEF AddsSymbol
  <2> QED BY <2>1, <2>4, <2>5, <1>5
<1>10. ASSUME NEW type \in {"number", "string", "char", "newline", "end_type"}, NEW p, NEW q, Adds(type, p, q),
              keywords' = keywords, depth' = depth
       PROVE  Matches(tokens', keywords', depth')
  <2>1. type \notin is_end_terminated \cup {"end", "op_end"} BY DEF is_end_terminated, classdef_keywords
  <2>2. type \notin Symbols BY DEF Symbols
  <2>3. DepthStep(depth, depth, type) BY <2>2, <1>2, NotGrouped
  <2>4. Follow(tokens, type, keywords, keywords, depth, depth) BY <2>1, <2>3, PlainFollows
  <2> QED BY <2>4, <1>5, <1>10
<1>11. CASE AddsLiteral
  <2>1. PICK type \in {"number", "string", "char"}, p \in Nat, q \in Nat : Adds(type, p, q)
    BY <1>11 DEF AddsLiteral
  <2>2. keywords' = keywords /\ depth' = depth BY <1>11 DEF AddsLiteral
  <2>3. type \in {"number", "string", "char", "newline", "end_type"} OBVIOUS
  <2> QED BY <2>1, <2>2, <2>3, <1>10
<1>12. CASE AddsNewLine
  <2>1. PICK type \in {"end_type", "newline"} : Adds(type, pos, pos') BY <1>12 DEF AddsNewLine
  <2>2. keywords' = keywords /\ depth' = depth BY <1>12 DEF AddsNewLine
  <2>3. type \in {"number", "string", "char", "newline", "end_type"} OBVIOUS
  <2> QED BY <2>1, <2>2, <2>3, <1>10
<1>13. CASE AddsWord
  <2>1. PICK w : /\ WordSays(w, text[pos], line_annotation, annotation_depth)
                 /\ w.error = "" /\ Adds(w.type, pos, w.upto) /\ keywords' = w.keywords /\ depth' = depth
    BY <1>13 DEF AddsWord
  <2>2. BalancedAt(tokens, annotation_depth, line_annotation) BY <2>1, <1>3, <1>4
  <2>3. Follow(tokens, w.type, keywords, w.keywords, depth, depth) BY <2>1, <2>2, <1>2, WordFollows
  <2>4. Matches(tokens', w.keywords, depth) BY <2>1, <2>3, <1>5
  <2> QED BY <2>1, <2>4
<1>14. CASE AddsAnnotation
  <2>1. errors = {} /\ depth' = depth BY <1>1, <1>14 DEF AddsAnnotation
  <2>2. annotation_depth >= 0 => keywords' = keywords BY <1>2, <1>14, AnnotationAdds
  <2>3. PICK sign \in Tok :
          /\ sign.type = "@T"
          /\ \/ tokens' = Append(tokens, sign)
             \/ \E t \in Tok : /\ tokens' = Append(Append(tokens, sign), t) /\ t.type \in WordTypes
                               /\ annotation_depth >= 0 => t.type \notin {"end", "op_end"}
    BY <1>2, <1>14, AnnotationAdds
  <2> DEFINE macro == Append(tokens, sign)
  <2>4. macro \in Seq(Tok) /\ Len(macro) = Len(tokens) + 1 /\ macro[Len(tokens) + 1] = sign /\ Len(tokens) \in Nat
    BY <1>2, Appended
  <2> HIDE DEF macro
  <2>5. ~BeginsWithEnd(macro) BY <1>1, <2>3, <2>4, StillBeginsWithEnd DEF macro
  <2>6. ~BeginsWithEnd(tokens) BY <1>2, <2>5, StillBeginsWithEnd DEF macro
  <2>7. Matches(tokens, keywords, depth) /\ keywords' = keywords /\ annotation_depth >= 0
    BY <1>3, <2>1, <2>2, <2>6
  <2>8. Matches(macro, keywords, depth)
    <3>1. sign.type \notin is_end_terminated \cup {"end", "op_end"} /\ sign.type \notin Symbols
      BY <2>3 DEF is_end_terminated, classdef_keywords, Symbols
    <3>2. Follow(tokens, sign.type, keywords, keywords, depth, depth)
      BY <3>1, <1>2, NotGrouped, PlainFollows
    <3> QED BY <3>2, <2>7, <1>2, MatchesAppended DEF macro
  <2>9. ASSUME NEW t \in Tok, tokens' = Append(macro, t), t.type \in WordTypes, t.type \notin {"end", "op_end"}
        PROVE  Matches(tokens', keywords, depth)
    <3>1. Signed(macro)
      <4> DEFINE n == Len(macro)
      <4>1. n \in 1..n /\ macro[n].type = "@T"
        <5>1. n = Len(tokens) + 1 /\ n \in Nat /\ n >= 1 BY <2>4
        <5> HIDE DEF n
        <5>2. n \in 1..n BY <5>1
        <5> QED BY <5>1, <5>2, <2>3, <2>4
      <4> QED BY <4>1 DEF Signed
    <3>2. t.type \notin Symbols BY <2>9, WordTypesAre
    <3>3. DepthStep(depth, depth, t.type) BY <3>2, <1>2, NotGrouped
    <3>4. Follow(macro, t.type, keywords, keywords, depth, depth) BY <3>1, <3>3, <2>9, AnnotatedFollows
    <3> QED BY <3>4, <2>4, <2>8, <2>9, <1>2, MatchesAppended
  <2>10. CASE tokens' = macro BY <2>1, <2>7, <2>8, <2>10
  <2> QED BY <2>1, <2>3, <2>7, <2>9, <2>10 DEF macro
<1> QED BY <1>7, <1>8, <1>9, <1>11, <1>12, <1>13, <1>14 DEF Steps

LEMMA MatchedInit == Init => Matched
<1> SUFFICES ASSUME Init PROVE Matched OBVIOUS
<1>1. tokens = <<>> /\ tokens \in Seq(Tok) /\ Len(tokens) = 0 BY DEF Init
<1>2. keywords.types = <<>> /\ Len(keywords.types) = 0 BY DEF Init, NoKeywords
<1>3. \A i \in 1..0 : FALSE OBVIOUS
<1>4. LeftOpen(tokens) = {}
  <2>1. Openers(tokens) = Of(tokens, is_end_terminated) /\ \A T : Of(tokens, T) \subseteq 1..Len(tokens)
    BY <1>1, CodeIs
  <2>2. Openers(tokens) = {} BY <2>1, <1>1, <1>3
  <2> QED BY <2>2 DEF LeftOpen
<1>5. KeywordsHeld(tokens, keywords) BY <1>2, <1>3, <1>4 DEF KeywordsHeld, OpenKeywords
<1>6. \A T : Count(tokens, T, 0) = 0 BY <1>1, CountIs
<1>7. depth[LParen] = 0 /\ depth[LBrace] = 0 BY GroupsAre DEF Init
<1>8. Depths(tokens, depth)
  <2>1. 0 = 0 - 0 OBVIOUS
  <2> QED BY <2>1, <1>1, <1>6, <1>7 DEF Depths
<1>9. Subscripts(tokens) BY <1>1, <1>3 DEF Subscripts
<1> QED BY <1>5, <1>8, <1>9 DEF Matched, Matches


------------------------------------------------------------------------------
(* The commas leave the keywords and the ends as they are.                      *)

Moved(S, X) == {Place(S, i) : i \in X}

LEMMA PlacesOrdered ==
  ASSUME NEW n \in Nat, NEW S, S \subseteq 1..n, NEW i \in 1..n, NEW j \in 1..n
  PROVE  /\ Place(S, i) \in Nat /\ (i <= j <=> Place(S, i) <= Place(S, j))
         /\ i < j <=> Place(S, i) < Place(S, j)
         /\ Place(S, i) = Place(S, j) => i = j
<1> DEFINE p == Place(S, i)
           q == Place(S, j)
<1>1. i \in Nat /\ j \in Nat OBVIOUS
<1>2. (i < j <=> p < q) /\ (j < i <=> q < p) BY <1>1, PlaceOrder
<1>3. p \in Nat /\ q \in Nat
  <2>1. \A k \in Nat : k + 1 \in Nat /\ k < k + 1 OBVIOUS
  <2>2. \A k \in Nat : Place(S, k) \in Nat BY <2>1, PlaceRises
  <2> QED BY <2>2, <1>1
<1> HIDE DEF p, q
<1>4. p \in Nat /\ (i <= j <=> p <= q) /\ (i < j <=> p < q) /\ (p = q => i = j) BY <1>1, <1>2, <1>3
<1> QED BY <1>4 DEF p, q

WithinSame(S, X, i, j) == Within(Moved(S, X), Place(S, i), Place(S, j)) = Within(X, i, j)

LEMMA WithinMoved ==
  ASSUME NEW n \in Nat, NEW S, S \subseteq 1..n, NEW X, X \subseteq 1..n, NEW i \in 1..n, NEW j \in 1..n
  PROVE  WithinSame(S, X, i, j)
<1> DEFINE A == {k \in X : k >= i /\ k <= j}
           B == {q \in Moved(S, X) : q >= Place(S, i) /\ q <= Place(S, j)}
           f == [k \in A |-> Place(S, k)]
<1>1. IsFiniteSet(A)
  <2>1. IsFiniteSet(1..n) BY FS_Interval
  <2>2. A \subseteq 1..n OBVIOUS
  <2> QED BY <2>1, <2>2, FS_Subset
<1>2. ASSUME NEW k \in X
      PROVE  /\ Place(S, k) >= Place(S, i) <=> k >= i
             /\ Place(S, k) <= Place(S, j) <=> k <= j
  <2>1. k \in 1..n OBVIOUS
  <2>2. (i <= k <=> Place(S, i) <= Place(S, k)) /\ (k <= j <=> Place(S, k) <= Place(S, j))
    BY <2>1, PlacesOrdered
  <2>3. Place(S, i) \in Nat /\ Place(S, k) \in Nat BY <2>1, PlacesOrdered
  <2> DEFINE p == Place(S, i)
             q == Place(S, k)
  <2>4. (i <= k <=> k >= i) /\ (p <= q <=> q >= p)
    <3>1. p \in Nat /\ q \in Nat /\ i \in Nat /\ k \in Nat BY <2>1, <2>3
    <3> HIDE DEF p, q
    <3> QED BY <3>1
  <2> QED BY <2>2, <2>4
<1>3. \A q : q \in B <=> \E k \in A : q = Place(S, k) BY <1>2 DEF Moved
<1>4. \A k \in A : \A l \in A : Place(S, k) = Place(S, l) => k = l
  <2>1. \A k \in A : k \in 1..n OBVIOUS
  <2> HIDE DEF A
  <2> QED BY <2>1, PlacesOrdered
<1> HIDE DEF A, B
<1>5. f \in Bijection(A, B) BY <1>3, <1>4 DEF Bijection, Injection, Surjection, IsInjective
<1>6. ExistsBijection(A, B) BY <1>5 DEF ExistsBijection
<1>7. Cardinality(B) = Cardinality(A) BY <1>1, <1>6, FS_Bijection
<1> QED BY <1>7 DEF Within, WithinSame, A, B

LeftSame(S, O, E) == Left(Moved(S, O), Moved(S, E)) = Moved(S, Left(O, E))

LEMMA LeftMoved ==
  ASSUME NEW n \in Nat, NEW S, S \subseteq 1..n, NEW O, O \subseteq 1..n, NEW E, E \subseteq 1..n
  PROVE  LeftSame(S, O, E)
<1>1. ASSUME NEW i \in O
      PROVE  Place(S, i) \in Left(Moved(S, O), Moved(S, E)) <=> i \in Left(O, E)
  <2>1. i \in 1..n OBVIOUS
  <2>2. ASSUME NEW j \in E
        PROVE  /\ Place(S, j) > Place(S, i) <=> j > i
               /\ Within(Moved(S, O), Place(S, i), Place(S, j)) = Within(O, i, j)
               /\ Within(Moved(S, E), Place(S, i), Place(S, j)) = Within(E, i, j)
    <3>1. j \in 1..n OBVIOUS
    <3>2. i < j <=> Place(S, i) < Place(S, j) BY <2>1, <3>1, PlacesOrdered
    <3>3. Place(S, i) \in Nat /\ Place(S, j) \in Nat BY <2>1, <3>1, PlacesOrdered
    <3> DEFINE p == Place(S, i)
               q == Place(S, j)
    <3>4. (i < j <=> j > i) /\ (p < q <=> q > p)
      <4>1. p \in Nat /\ q \in Nat /\ i \in Nat /\ j \in Nat BY <2>1, <3>1, <3>3
      <4> HIDE DEF p, q
      <4> QED BY <4>1
    <3>5. WithinSame(S, O, i, j) /\ WithinSame(S, E, i, j)
      <4>1. WithinSame(S, O, i, j) BY <2>1, <3>1, WithinMoved
      <4>2. WithinSame(S, E, i, j) BY <2>1, <3>1, WithinMoved
      <4> QED BY <4>1, <4>2
    <3>6. /\ Within(Moved(S, O), Place(S, i), Place(S, j)) = Within(O, i, j)
          /\ Within(Moved(S, E), Place(S, i), Place(S, j)) = Within(E, i, j)
      BY <3>5 DEF WithinSame
    <3> QED BY <3>2, <3>4, <3>6
  <2>3. Place(S, i) \in Moved(S, O) BY DEF Moved
  <2>4. Place(S, i) \in Left(Moved(S, O), Moved(S, E)) <=>
          \A q \in Moved(S, E) : q > Place(S, i) =>
            Within(Moved(S, O), Place(S, i), q) /= Within(Moved(S, E), Place(S, i), q)
    BY <2>3 DEF Left
  <2> DEFINE Apart(q) == q > Place(S, i) =>
               Within(Moved(S, O), Place(S, i), q) /= Within(Moved(S, E), Place(S, i), q)
  <2>5. (\A q \in Moved(S, E) : Apart(q)) <=> \A j \in E : Apart(Place(S, j))
    <3> HIDE DEF Apart
    <3> QED BY DEF Moved
  <2>6. \A j \in E : Apart(Place(S, j)) <=> (j > i => Within(O, i, j) /= Within(E, i, j)) BY <2>2
  <2>7. i \in Left(O, E) <=> \A j \in E : j > i => Within(O, i, j) /= Within(E, i, j) BY DEF Left
  <2>8. Place(S, i) \in Left(Moved(S, O), Moved(S, E)) <=> \A q \in Moved(S, E) : Apart(q) BY <2>4
  <2> HIDE DEF Apart
  <2> QED BY <2>5, <2>6, <2>7, <2>8
<1>2. \A q \in Left(Moved(S, O), Moved(S, E)) : \E i \in O : q = Place(S, i) BY DEF Left, Moved
<1>3. Left(O, E) \subseteq O BY DEF Left
<1>4. \A q : q \in Left(Moved(S, O), Moved(S, E)) <=> \E i \in Left(O, E) : q = Place(S, i)
  BY <1>1, <1>2, <1>3
<1> QED BY <1>4 DEF Moved, LeftSame

LEMMA CodeMoved ==
  ASSUME NEW list \in Seq(Tok), NEW S, Commas(list, S), NEW s, Spread(s, list, S), NEW i \in 1..Len(list)
  PROVE  CodeAt(s, Place(S, i)) <=> CodeAt(list, i)
<1> DEFINE N == Len(list)
           p == Place(S, i)
<1>0. i \in 1..N OBVIOUS
<1>1. S \subseteq 1..N /\ \A j \in S : list[j].type \in Separated BY DEF Commas
<1>2. Placed(s, list, S) BY <1>1, PlaceSteps
<1>3. N \in Nat /\ Len(s) \in Nat /\ p \in 1..Len(s) /\ s[p] = list[i] BY <1>2 DEF Placed
<1>4. Open(s)[p - 1] = Open(list)[i - 1] BY OpenSpread
<1>5. p > 1 /\ s[p - 1].type = "@T" <=> i > 1 /\ list[i - 1].type = "@T"
  <2>1. CASE i = 1
    <3>1. p = 1 BY <2>1, <1>2 DEF Placed
    <3>2. ~(p > 1) /\ ~(i > 1) BY <2>1, <3>1
    <3> QED BY <3>2
  <2>2. CASE i /= 1
    <3> DEFINE j == i - 1
               q == Place(S, j)
    <3>1. j \in 1..N /\ i = j + 1 /\ i > 1
      <4> HIDE DEF N
      <4> QED BY <2>2, <1>0, <1>3
    <3> HIDE DEF j
    <3>2. q \in 1..Len(s) /\ s[q] = list[j] /\ p = q + (IF j \in S THEN 2 ELSE 1) BY <3>1, <1>2 DEF Placed
    <3>3. p > 1
      <4> HIDE DEF p, q
      <4> QED BY <3>2, <1>3
    <3>4. s[p - 1].type = "@T" <=> list[j].type = "@T"
      <4>1. CASE j \in S
        <5>1. p - 1 = q + 1
          <6> HIDE DEF p, q
          <6> QED BY <4>1, <3>2, <1>3
        <5>2. s[q + 1] = CommaBehind(list[j]) BY <4>1, <1>2 DEF Placed
        <5>3. CommaBehind(list[j]).type = "," BY DEF CommaBehind, Token
        <5>4. s[p - 1].type /= "@T" BY <5>1, <5>2, <5>3, SeparatedIs
        <5>5. list[j].type /= "@T" BY <4>1, <1>1, SeparatedIs
        <5> QED BY <5>4, <5>5
      <4>2. CASE j \notin S
        <5>1. p - 1 = q
          <6> HIDE DEF p, q
          <6> QED BY <4>2, <3>2, <1>3
        <5> QED BY <5>1, <3>2
      <4> QED BY <4>1, <4>2
    <3>5. i - 1 = j BY DEF j
    <3> QED BY <3>1, <3>3, <3>4, <3>5
  <2> QED BY <2>1, <2>2
<1> HIDE DEF p
<1> QED BY <1>3, <1>4, <1>5 DEF CodeAt, p

LEMMA OfMoved ==
  ASSUME NEW list \in Seq(Tok), NEW S, Commas(list, S), NEW s, Spread(s, list, S), NEW T, NoComma(T)
  PROVE  Of(s, T) = Moved(S, Of(list, T))
<1> DEFINE N == Len(list)
<1>1. S \subseteq 1..N BY DEF Commas
<1>2. Placed(s, list, S) BY <1>1, PlaceSteps
<1>3. s \in Seq(Tok) /\ \A i \in 1..N : Place(S, i) \in 1..Len(s) /\ s[Place(S, i)] = list[i]
  BY <1>2 DEF Placed
<1>4. CodeTokens(s) = {q \in 1..Len(s) : CodeAt(s, q)} /\ CodeTokens(list) = {i \in 1..N : CodeAt(list, i)}
  BY <1>3, CodeIs
<1>5. ASSUME NEW q \in 1..Len(s), s[q].type \in T PROVE \E i \in 1..N : q = Place(S, i)
  <2>1. HasPlace(list, S, q) BY <1>1, Places
  <2>2. ASSUME NEW i \in S PROVE s[Place(S, i) + 1].type \notin T
    <3>1. s[Place(S, i) + 1] = CommaBehind(list[i]) BY <1>2 DEF Placed
    <3>2. CommaBehind(list[i]).type = "," BY DEF CommaBehind, Token
    <3> QED BY <3>1, <3>2 DEF NoComma
  <2> QED BY <2>1, <2>2, <1>5 DEF HasPlace
<1>6. \A i \in 1..N : CodeAt(s, Place(S, i)) <=> CodeAt(list, i) BY CodeMoved
<1> HIDE DEF N
<1>7. \A q : q \in Of(s, T) <=> q \in 1..Len(s) /\ CodeAt(s, q) /\ s[q].type \in T BY <1>4 DEF Of
<1>8. \A i : i \in Of(list, T) <=> i \in 1..N /\ CodeAt(list, i) /\ list[i].type \in T BY <1>4 DEF Of
<1>9. \A q : q \in Of(s, T) <=> \E i \in Of(list, T) : q = Place(S, i)
  <2> TAKE q
  <2>1. ASSUME q \in Of(s, T) PROVE \E i \in Of(list, T) : q = Place(S, i)
    <3>1. q \in 1..Len(s) /\ CodeAt(s, q) /\ s[q].type \in T BY <2>1, <1>7
    <3>2. PICK i \in 1..N : q = Place(S, i) BY <3>1, <1>5
    <3>3. i \in Of(list, T) BY <3>1, <3>2, <1>3, <1>6, <1>8
    <3> QED BY <3>2, <3>3
  <2>2. ASSUME NEW i \in Of(list, T), q = Place(S, i) PROVE q \in Of(s, T)
    <3>1. i \in 1..N /\ CodeAt(list, i) /\ list[i].type \in T BY <1>8
    <3> QED BY <3>1, <2>2, <1>3, <1>6, <1>7
  <2> QED BY <2>1, <2>2
<1> QED BY <1>9 DEF Moved

LEMMA NoCommas ==
  /\ NoComma(is_end_terminated) /\ NoComma({"end"})
  /\ NoComma({LParen}) /\ NoComma({RParen}) /\ NoComma({LBrace}) /\ NoComma({RBrace})
<1>1. NoComma(is_end_terminated) BY SeparatedIs DEF NoComma, Opened
<1>2. NoComma({"end"}) BY DEF NoComma
<1>3. NoComma({LParen}) /\ NoComma({RParen}) BY DEF NoComma, LParen, RParen
<1>4. NoComma({LBrace}) /\ NoComma({RBrace}) BY DEF NoComma, LBrace, RBrace
<1> QED BY <1>1, <1>2, <1>3, <1>4

LEMMA LeftOpenMoved ==
  ASSUME NEW list \in Seq(Tok), NEW S, Commas(list, S), NEW s, Spread(s, list, S)
  PROVE  /\ LeftOpen(s) = Moved(S, LeftOpen(list))
         /\ \A i \in LeftOpen(list) : s[Place(S, i)] = list[i]
<1> DEFINE N == Len(list)
<1>1. S \subseteq 1..N BY DEF Commas
<1>2. Placed(s, list, S) BY <1>1, PlaceSteps
<1>3. s \in Seq(Tok) /\ N \in Nat /\ \A i \in 1..N : s[Place(S, i)] = list[i] BY <1>2 DEF Placed
<1>4. /\ Openers(list) = Of(list, is_end_terminated) /\ Ends(list) = Of(list, {"end"})
      /\ \A T : Of(list, T) \subseteq 1..N
      /\ LeftOpen(list) = Left(Openers(list), Ends(list))
  BY CodeIs
<1>5. /\ Openers(s) = Of(s, is_end_terminated) /\ Ends(s) = Of(s, {"end"})
      /\ LeftOpen(s) = Left(Openers(s), Ends(s))
  BY <1>3, CodeIs
<1>6. Openers(s) = Moved(S, Openers(list)) BY <1>4, <1>5, NoCommas, OfMoved
<1>7. Ends(s) = Moved(S, Ends(list)) BY <1>4, <1>5, NoCommas, OfMoved
<1>8. Openers(list) \subseteq 1..N /\ Ends(list) \subseteq 1..N BY <1>4
<1> HIDE DEF N
<1>9. LeftSame(S, Openers(list), Ends(list)) BY <1>1, <1>3, <1>8, LeftMoved
<1>10. Left(Moved(S, Openers(list)), Moved(S, Ends(list))) = Moved(S, Left(Openers(list), Ends(list)))
  BY <1>9 DEF LeftSame
<1>11. LeftOpen(list) \subseteq 1..N BY <1>4, <1>8 DEF Left
<1> QED BY <1>3, <1>4, <1>5, <1>6, <1>7, <1>10, <1>11


------------------------------------------------------------------------------
(* What the list says of the ends, the tokens with commas among them say too.   *)

LEMMA GroupMoved ==
  ASSUME NEW list \in Seq(Tok), NEW S, Commas(list, S), NEW s, Spread(s, list, S), NEW i \in 1..Len(list)
  PROVE  InGroup(s, Place(S, i)) <=> InGroup(list, i)
<1>1. S \subseteq 1..Len(list) BY DEF Commas
<1>2. CountsKept(s, list, S, {LParen}) BY <1>1, NoCommas, CountSpread
<1>3. CountsKept(s, list, S, {RParen}) BY <1>1, NoCommas, CountSpread
<1>4. CountsKept(s, list, S, {LBrace}) BY <1>1, NoCommas, CountSpread
<1>5. CountsKept(s, list, S, {RBrace}) BY <1>1, NoCommas, CountSpread
<1>6. /\ Count(s, {LParen}, Place(S, i)) = Count(list, {LParen}, i)
      /\ Count(s, {RParen}, Place(S, i)) = Count(list, {RParen}, i)
      /\ Count(s, {LBrace}, Place(S, i)) = Count(list, {LBrace}, i)
      /\ Count(s, {RBrace}, Place(S, i)) = Count(list, {RBrace}, i)
  BY <1>2, <1>3, <1>4, <1>5 DEF CountsKept
<1> QED BY <1>6 DEF InGroup

LEMMA SubscriptsMoved ==
  ASSUME NEW list \in Seq(Tok), NEW S, Commas(list, S), NEW s, Spread(s, list, S), Subscripts(list)
  PROVE  Subscripts(s)
<1>1. S \subseteq 1..Len(list) BY DEF Commas
<1>2. Placed(s, list, S) BY <1>1, PlaceSteps
<1> SUFFICES ASSUME NEW q \in 1..Len(s), s[q].type \in {"end", "op_end"}
             PROVE  InGroup(s, q) <=> s[q].type = "op_end"
  BY DEF Subscripts
<1>3. HasPlace(list, S, q) BY <1>1, Places
<1>4. CASE \E i \in 1..Len(list) : q = Place(S, i)
  <2>1. PICK i \in 1..Len(list) : q = Place(S, i) BY <1>4
  <2>2. s[q] = list[i] BY <2>1, <1>2 DEF Placed
  <2>3. InGroup(s, q) <=> InGroup(list, i) BY <2>1, GroupMoved
  <2> QED BY <2>2, <2>3 DEF Subscripts
<1>5. CASE \E i \in S : q = Place(S, i) + 1
  <2>1. PICK i \in S : q = Place(S, i) + 1 BY <1>5
  <2>2. s[q] = CommaBehind(list[i]) BY <2>1, <1>2 DEF Placed
  <2>3. CommaBehind(list[i]).type = "," BY DEF CommaBehind, Token
  <2>4. s[q].type \notin {"end", "op_end"} BY <2>2, <2>3
  <2> QED BY <2>4
<1> QED BY <1>3, <1>4, <1>5 DEF HasPlace

(* The verdict on the functions of a file, and the keywords left without an end.*)
LeftTold(list, k) ==
  ~is_non_end_terminated_function_file(k) <=>
    LeftOpen(list) = {} \/ \E i \in LeftOpen(list) : list[i].type /= "function"

LEMMA HeldTold ==
  ASSUME NEW list, NEW k \in Keywords, KeywordsHeld(list, k)
  PROVE  LeftTold(list, k)
<1> DEFINE types == k.types
           L == Len(types)
           X == LeftOpen(list)
<1>1. types \in Seq(is_end_terminated) /\ L \in Nat /\ DOMAIN types = 1..L BY LenProperties DEF Keywords
<1>2. types /= <<>> <=> L /= 0 BY <1>1, EmptySeq
<1>3. /\ \A i \in X : \E n \in 1..L : types[n] = list[i].type
      /\ \A n \in 1..L : \E i \in X : types[n] = list[i].type
      /\ \A n \in 1..L : types[n] \in k.seen
  BY DEF KeywordsHeld, OpenKeywords, HeldBy
<1>4. is_non_end_terminated_function_file(k) <=>
        "function" \in k.seen /\ L /= 0 /\ \A n \in 1..L : types[n] = "function"
  BY <1>1, <1>2 DEF is_non_end_terminated_function_file
<1>5. L /= 0 => 1 \in 1..L
  <2> HIDE DEF L
  <2> QED BY <1>1
<1>6. L = 0 => 1..L = {}
  <2> HIDE DEF L
  <2> QED BY <1>1
<1> HIDE DEF L, X, types
<1>7. L /= 0 /\ (\A n \in 1..L : types[n] = "function") => "function" \in k.seen BY <1>3, <1>5
<1>8. L = 0 <=> X = {} BY <1>3, <1>5, <1>6
<1>9. (\A n \in 1..L : types[n] = "function") <=> \A i \in X : list[i].type = "function" BY <1>3
<1>10. is_non_end_terminated_function_file(k) <=> X /= {} /\ \A i \in X : list[i].type = "function"
  BY <1>4, <1>7, <1>8, <1>9
<1> QED BY <1>10 DEF LeftTold, X

LEMMA LeftToldMoved ==
  ASSUME NEW list \in Seq(Tok), NEW S, Commas(list, S), NEW s, Spread(s, list, S), NEW k, LeftTold(list, k)
  PROVE  LeftTold(s, k)
<1> DEFINE X == LeftOpen(list)
           Y == LeftOpen(s)
<1>1. Y = Moved(S, X) /\ \A i \in X : s[Place(S, i)] = list[i] BY LeftOpenMoved
<1>2. \A q : q \in Y <=> \E i \in X : q = Place(S, i) BY <1>1 DEF Moved
<1> HIDE DEF X, Y
<1>3. Y = {} <=> X = {} BY <1>2
<1>4. (\E q \in Y : s[q].type /= "function") <=> \E i \in X : list[i].type /= "function" BY <1>1, <1>2
<1> QED BY <1>3, <1>4 DEF LeftTold, X, Y

(* What was open, read from the tokens alone.                                   *)
Counted(list, x, i) == Cardinality({j \in 1..i : list[j].type = x})

EndsTold(list) ==
  \A i \in CodeTokens(list) :
    list[i].type \in {"end", "op_end"} =>
      (\/ Counted(list, LParen, i) > Counted(list, RParen, i)
       \/ Counted(list, LBrace, i) > Counted(list, RBrace, i)
       <=> list[i].type = "op_end")

LEMMA CountedIs ==
  ASSUME NEW list \in Seq(Tok), NEW x, NEW i \in 1..Len(list)
  PROVE  Counted(list, x, i) = Count(list, {x}, i)
<1> DEFINE N == Len(list)
           T == {x}
<1>1. N \in Nat /\ i \in 1..N BY LenProperties
<1>2. \A y : y \in T <=> y = x OBVIOUS
<1> HIDE DEF N, T
<1>3. \A j : j \in 1..i <=> j \in 1..N /\ j < i + 1 BY <1>1
<1>4. {j \in 1..i : list[j].type = x} = {j \in {l \in 1..N : list[l].type \in T} : j < i + 1} BY <1>2, <1>3
<1> QED BY <1>4 DEF Counted, Count, Before, Typed, N, T

LEMMA EndsToldIs ==
  ASSUME NEW list \in Seq(Tok), Subscripts(list)
  PROVE  EndsTold(list)
<1> SUFFICES ASSUME NEW i \in CodeTokens(list), list[i].type \in {"end", "op_end"}
             PROVE  \/ Counted(list, LParen, i) > Counted(list, RParen, i)
                    \/ Counted(list, LBrace, i) > Counted(list, RBrace, i)
                    <=> list[i].type = "op_end"
  BY DEF EndsTold
<1>1. i \in 1..Len(list)
  <2>1. DOMAIN list = 1..Len(list) BY LenProperties
  <2> QED BY <2>1 DEF CodeTokens
<1>2. Counted(list, LParen, i) = Count(list, {LParen}, i) BY <1>1, CountedIs
<1>3. Counted(list, RParen, i) = Count(list, {RParen}, i) BY <1>1, CountedIs
<1>4. Counted(list, LBrace, i) = Count(list, {LBrace}, i) BY <1>1, CountedIs
<1>5. Counted(list, RBrace, i) = Count(list, {RBrace}, i) BY <1>1, CountedIs
<1>6. InGroup(list, i) <=> list[i].type = "op_end" BY <1>1 DEF Subscripts
<1> QED BY <1>2, <1>3, <1>4, <1>5, <1>6 DEF InGroup

Told(list, k) == LeftTold(list, k) /\ Subscripts(list)

LEMMA EndsIs ==
  ASSUME tokens' \in Seq(Tok), text' = text,
         status' = "scanned" /\ ~BeginsWithEnd(tokens') => Told(tokens', keywords')
  PROVE  EndsMatched'
<1>1. (~BeginsWithEnd(tokens))' => ~BeginsWithEnd(tokens') BY DEF BeginsWithEnd, Char
<1>2. ASSUME status' = "scanned", ~BeginsWithEnd(tokens')
      PROVE  LeftTold(tokens', keywords') /\ EndsTold(tokens')
  BY <1>2, EndsToldIs DEF Told
<1>3. LeftTold(tokens', keywords') => LeftTold(tokens, keywords)' BY DEF LeftTold, LeftOpen, Openers, Ends
<1>4. EndsTold(tokens') => EndsTold(tokens)' BY DEF EndsTold
<1>5. EndTermination' BY <1>1, <1>2, <1>3 DEF EndTermination, Scanned, LeftTold, functions_are_end_terminated
<1>6. EndsOfBlocks'
  BY <1>1, <1>2, <1>4, Zenon DEF EndsOfBlocks, Scanned, EndsTold, Counted, LParen, RParen, LBrace, RBrace
<1> QED BY <1>5, <1>6 DEF EndsMatched

LEMMA ListedMatches ==
  ASSUME Shape, Ordered(tokens, pos), ~has_next(pos), NEW list, Listed(list),
         Matched, errors = {}, ~BeginsWithEnd(list)
  PROVE  Matches(list, keywords, depth)
<1> DEFINE e == Len(text) + 1
           t == Token("null", e, e)
<1>1. /\ tokens \in Seq(Tok) /\ list = Append(tokens, t) /\ keywords \in Keywords
      /\ depth \in [Opening -> Int] /\ e \in Nat
  BY ListedIs DEF Shape, Listed
<1>2. t \in Tok /\ t.type = "null"
  <2> HIDE DEF e
  <2>1. "null" \in TokenTypes BY Comma
  <2> QED BY <2>1, <1>1, TokenMade
<1> HIDE DEF t, e
<1>3. ~BeginsWithEnd(tokens) BY <1>1, <1>2, StillBeginsWithEnd
<1>4. Matches(tokens, keywords, depth) BY <1>3 DEF Matched
<1>5. DepthStep(depth, depth, t.type)
  <2>1. "null" \notin Symbols BY DEF Symbols
  <2> QED BY <2>1, <1>1, <1>2, NotGrouped
<1>6. t.type \notin is_end_terminated \cup {"end", "op_end"} BY <1>2, SeparatedIs DEF Opened
<1>7. Follow(tokens, t.type, keywords, keywords, depth, depth) BY <1>5, <1>6, PlainFollows
<1> QED BY <1>1, <1>2, <1>4, <1>7, MatchesAppended

LEMMA EndMatches ==
  ASSUME Shape, Ordered(tokens, pos), Matched, Ended, text' = text
  PROVE  EndsMatched'
<1>0. tokens' \in Seq(Tok) BY EndShapes DEF Shape
<1>1. SUFFICES ASSUME status' = "scanned", ~BeginsWithEnd(tokens') PROVE Told(tokens', keywords')
  BY <1>0, EndsIs
<1>2. PICK list, S :
       Listed(list) /\ S = Insertions(list) /\ errors = {} /\ ~Unopened(list) /\ tokens' = Inserted(list, S)
  BY <1>1 DEF Ended
<1>3. list \in Seq(Tok) /\ Commas(list, S) /\ Spread(tokens', list, S) BY <1>2, ListedIs DEF Ended
<1>4. ~BeginsWithEnd(list) BY <1>1, <1>3, BeginsWithEndSpread
<1>5. Matches(list, keywords, depth) BY <1>2, <1>4, ListedMatches DEF Ended
<1>6. keywords \in Keywords /\ keywords' = keywords BY DEF Shape, Ended
<1>7. LeftTold(list, keywords) BY <1>5, <1>6, HeldTold DEF Matches
<1>8. LeftTold(tokens', keywords) BY <1>3, <1>7, LeftToldMoved
<1>9. Subscripts(tokens') BY <1>3, <1>5, SubscriptsMoved DEF Matches
<1> QED BY <1>6, <1>8, <1>9 DEF Told

EndsInv == EndsMatched /\ (status = "scanning" => Matched)

LEMMA EndsInit == Init => EndsInv
BY MatchedInit DEF Init, EndsInv, EndsMatched, EndTermination, EndsOfBlocks, Scanned

LEMMA EndsNext == ScanInv /\ EndsInv /\ [Next]_vars => EndsInv'
<1> SUFFICES ASSUME ScanInv, EndsInv, [Next]_vars PROVE EndsInv' OBVIOUS
<1>1. CASE UNCHANGED vars
  BY <1>1 DEF vars, EndsInv, Matched, EndsMatched, EndTermination, EndsOfBlocks, Scanned, BeginsWithEnd, Char,
              functions_are_end_terminated
<1>2. CASE Scan /\ text' = text
  <2>1. status = "scanning" /\ status' = status BY <1>2 DEF Scan
  <2>2. Shape /\ Ordered(tokens, pos) /\ Balanced /\ Matched BY <2>1 DEF ScanInv, EndsInv
  <2>3. Steps BY <2>2, <1>2, ScanSteps
  <2>4. Matched' BY <2>2, <2>3, <1>2, MatchedKept
  <2>5. EndsMatched' BY <2>1 DEF EndsMatched, EndTermination, EndsOfBlocks, Scanned
  <2> QED BY <2>4, <2>5 DEF EndsInv
<1>3. CASE EndOfText /\ status = "scanning" /\ text' = text
  <2>1. Shape /\ Ordered(tokens, pos) /\ Matched /\ Ended BY <1>3, EndIs DEF ScanInv, EndsInv
  <2>2. status' /= "scanning" BY <2>1 DEF Ended
  <2> QED BY <2>1, <2>2, <1>3, EndMatches DEF EndsInv
<1> QED BY <1>1, <1>2, <1>3 DEF Next

(* Every end is taken for what it ends: in a text that is accepted, an end of   *)
(* the code is a subscript if and only if more parentheses or braces were       *)
(* opened than closed before it, and the functions of the file are taken to     *)
(* have no end if and only if functions, and nothing else, are left without one,*)
(* however the keywords nest (scan.cpp:22-79, 320-349, 482-554).               *)
THEOREM EndsAreMatched == Spec => []EndsMatched
<1>1. EndsInv => EndsMatched BY DEF EndsInv
<1> QED BY <1>1, EndsInit, EndsNext, ScanInvInit, ScanInvNext, PTL DEF Spec
==============================================================================
