------------------------- MODULE ScannerComments_proofs ------------------------
(* What is in comments, comment blocks and annotations, in every text, however *)
(* long and however they are nested, over every set of words.                   *)
EXTENDS Scanner_proofs

------------------------------------------------------------------------------
(* The lines of a text, and the blocks they are within.                         *)

NoBreak(t, p, q) == \A r \in p..q - 1 : t[r] /= "newline"

StartsAt(t, p, s) == s \in 1..p /\ (s = 1 \/ t[s - 1] = "newline") /\ NoBreak(t, s, p)
EndsAt(t, p, e) == e \in p..Len(t) + 1 /\ (e = Len(t) + 1 \/ t[e] = "newline") /\ NoBreak(t, p, e)

LEMMA StartIs ==
  ASSUME NEW t, NEW p \in Nat, p >= 1
  PROVE  /\ StartsAt(t, p, LineStart(t, p))
         /\ \A s : StartsAt(t, p, s) => s = LineStart(t, p)
<1> DEFINE A == {k \in 0..p - 1 : NoBreak(t, p - k, p)}
           Stop(s) == s = 1 \/ t[s - 1] = "newline"
           B == {k \in Nat : k <= p - 1 /\ Stop(p - k)}
<1>1. p - 1 \in B
  <2>1. p - 1 \in Nat /\ p - (p - 1) = 1 OBVIOUS
  <2> QED BY <2>1
<1>2. PICK k \in B : \A j \in B : k <= j
  <2>1. B \subseteq Nat OBVIOUS
  <2> HIDE DEF B
  <2> QED BY <1>1, <2>1, SmallestIndex
<1> DEFINE s == p - k
<1>3. s \in 1..p /\ Stop(s) BY <1>2
<1>4. ASSUME NEW r \in s..p - 1, t[r] = "newline" PROVE FALSE
  <2> DEFINE j == p - (r + 1)
  <2>1. j \in Nat /\ j <= p - 1 /\ p - j = r + 1 /\ j < k /\ r + 1 - 1 = r BY <1>2, <1>3
  <2>2. Stop(p - j) BY <2>1, <1>4
  <2>3. j \in B BY <2>1, <2>2
  <2>4. k <= j BY <2>3, <1>2
  <2> QED BY <2>1, <2>4, <1>2
<1>5. StartsAt(t, p, s) BY <1>3, <1>4 DEF StartsAt, NoBreak
<1>6. \E x \in 1..p : (x = 1 \/ t[x - 1] = "newline") /\ \A r \in x..p - 1 : t[r] /= "newline"
  BY <1>5 DEF StartsAt, NoBreak
<1>7. StartsAt(t, p, LineStart(t, p)) BY <1>6 DEF LineStart, StartsAt, NoBreak
<1> HIDE DEF s
<1>8. ASSUME NEW a, NEW b, StartsAt(t, p, a), StartsAt(t, p, b) PROVE ~(a < b)
  <2>1. a \in 1..p /\ b \in 1..p BY <1>8 DEF StartsAt
  <2> SUFFICES ASSUME a < b PROVE FALSE OBVIOUS
  <2>2. b /= 1 /\ b - 1 \in a..p - 1 BY <2>1
  <2>3. t[b - 1] = "newline" BY <2>2, <1>8 DEF StartsAt
  <2>4. t[b - 1] /= "newline" BY <2>2, <1>8 DEF StartsAt, NoBreak
  <2> QED BY <2>3, <2>4
<1>9. ASSUME NEW a, StartsAt(t, p, a) PROVE a = LineStart(t, p)
  <2>1. ~(a < LineStart(t, p)) /\ ~(LineStart(t, p) < a) BY <1>7, <1>8, <1>9
  <2>2. a \in 1..p /\ LineStart(t, p) \in 1..p BY <1>7, <1>9 DEF StartsAt
  <2> QED BY <2>1, <2>2
<1> QED BY <1>7, <1>9

LEMMA EndIsAt ==
  ASSUME NEW t, Len(t) \in Nat, NEW p \in 1..Len(t) + 1
  PROVE  /\ EndsAt(t, p, LineEnd(t, p))
         /\ \A e : EndsAt(t, p, e) => e = LineEnd(t, p)
<1> DEFINE L == Len(t)
           B == {k \in p..L + 1 : k = L + 1 \/ t[k] = "newline"}
<1>1. L + 1 \in B /\ B \subseteq Nat OBVIOUS
<1>2. PICK e \in B : \A j \in B : e <= j
  <2> HIDE DEF B
  <2> QED BY <1>1, SmallestIndex
<1>3. e \in p..L + 1 /\ (e = L + 1 \/ t[e] = "newline") BY <1>2
<1>4. ASSUME NEW r \in p..e - 1, t[r] = "newline" PROVE FALSE
  <2>1. r \in B /\ ~(e <= r) BY <1>3, <1>4
  <2> QED BY <2>1, <1>2
<1>5. EndsAt(t, p, e) BY <1>3, <1>4 DEF EndsAt, NoBreak
<1>6. \E x \in p..Len(t) + 1 : (x = Len(t) + 1 \/ t[x] = "newline") /\ \A r \in p..x - 1 : t[r] /= "newline"
  BY <1>5 DEF EndsAt, NoBreak
<1>7. EndsAt(t, p, LineEnd(t, p)) BY <1>6 DEF LineEnd, EndsAt, NoBreak
<1> HIDE DEF B, L
<1>8. ASSUME NEW a, NEW b, EndsAt(t, p, a), EndsAt(t, p, b) PROVE ~(a < b)
  <2>1. a \in p..Len(t) + 1 /\ b \in p..Len(t) + 1 BY <1>8 DEF EndsAt
  <2> SUFFICES ASSUME a < b PROVE FALSE OBVIOUS
  <2>2. a /= Len(t) + 1 /\ a \in p..b - 1 BY <2>1
  <2>3. t[a] = "newline" BY <2>2, <1>8 DEF EndsAt
  <2>4. t[a] /= "newline" BY <2>2, <1>8 DEF EndsAt, NoBreak
  <2> QED BY <2>3, <2>4
<1>9. ASSUME NEW a, EndsAt(t, p, a) PROVE a = LineEnd(t, p)
  <2>1. ~(a < LineEnd(t, p)) /\ ~(LineEnd(t, p) < a) BY <1>7, <1>8, <1>9
  <2>2. a \in p..Len(t) + 1 /\ LineEnd(t, p) \in p..Len(t) + 1 BY <1>7, <1>9 DEF EndsAt
  <2> QED BY <2>1, <2>2
<1> QED BY <1>7, <1>9

(* Two positions with no newline between them are on one line.                 *)
OneLineOf(t, p, q) ==
  /\ LineStart(t, q) = LineStart(t, p) /\ LineEnd(t, q) = LineEnd(t, p)
  /\ BeginsBlock(t, q) <=> BeginsBlock(t, p)
  /\ EndsBlock(t, q) <=> EndsBlock(t, p)

LEMMA SameLine ==
  ASSUME NEW t, Len(t) \in Nat, NEW p \in 1..Len(t) + 1, NEW q \in p..Len(t) + 1, NoBreak(t, p, q)
  PROVE  OneLineOf(t, p, q)
<1> DEFINE s == LineStart(t, p)
           e == LineEnd(t, q)
<1>1. p \in Nat /\ p >= 1 /\ q \in Nat /\ q >= 1 /\ q \in 1..Len(t) + 1 OBVIOUS
<1>2. StartsAt(t, p, s) BY <1>1, StartIs
<1>3. EndsAt(t, q, e) BY <1>1, EndIsAt
<1> HIDE DEF s, e
<1>4. s \in 1..p /\ e \in q..Len(t) + 1 BY <1>2, <1>3 DEF StartsAt, EndsAt
<1>5. NoBreak(t, s, q)
  <2>1. \A r \in s..q - 1 : r \in s..p - 1 \/ r \in p..q - 1 BY <1>1, <1>4
  <2> QED BY <2>1, <1>2 DEF NoBreak, StartsAt
<1>6. StartsAt(t, q, s)
  <2>1. s \in 1..q BY <1>1, <1>4
  <2> QED BY <2>1, <1>2, <1>5 DEF StartsAt
<1>7. NoBreak(t, p, e)
  <2>1. \A r \in p..e - 1 : r \in p..q - 1 \/ r \in q..e - 1 BY <1>1, <1>4
  <2> QED BY <2>1, <1>3 DEF NoBreak, EndsAt
<1>8. EndsAt(t, p, e)
  <2>1. e \in p..Len(t) + 1 BY <1>1, <1>4
  <2> QED BY <2>1, <1>3, <1>7 DEF EndsAt
<1>9. LineStart(t, q) = LineStart(t, p) BY <1>1, <1>6, StartIs DEF s
<1>10. LineEnd(t, q) = LineEnd(t, p) BY <1>8, EndIsAt DEF e
<1>11. \A b : Alone(t, q, b) <=> Alone(t, p, b) BY <1>9, <1>10 DEF Alone
<1> QED BY <1>9, <1>10, <1>11 DEF OneLineOf, BeginsBlock, EndsBlock

LineStarts(t, q) == LineStart(t, q) = q
BlockEnds(t, q) == q > 1 /\ t[q - 1] = "newline" /\ EndsBlock(t, q - 1)

LEMMA StartsWhen ==
  ASSUME NEW t, NEW p \in Nat, p >= 1
  PROVE  /\ LineStarts(t, 1)
         /\ t[p] = "newline" <=> LineStarts(t, p + 1)
<1>1. StartsAt(t, p + 1, LineStart(t, p + 1)) /\ \A s : StartsAt(t, p + 1, s) => s = LineStart(t, p + 1)
  <2>1. p + 1 \in Nat /\ p + 1 >= 1 OBVIOUS
  <2> QED BY <2>1, StartIs
<1>2. LineStart(t, 1) = 1
  <2>1. StartsAt(t, 1, LineStart(t, 1)) BY StartIs
  <2> QED BY <2>1 DEF StartsAt
<1>3. ASSUME t[p] = "newline" PROVE LineStarts(t, p + 1)
  <2>1. p + 1 - 1 = p /\ p + 1 \in 1..p + 1 /\ \A r \in p + 1..p + 1 - 1 : FALSE OBVIOUS
  <2>2. StartsAt(t, p + 1, p + 1) BY <2>1, <1>3 DEF StartsAt, NoBreak
  <2> QED BY <2>2, <1>1 DEF LineStarts
<1>4. ASSUME LineStarts(t, p + 1) PROVE t[p] = "newline"
  <2>1. p + 1 /= 1 /\ p + 1 - 1 = p OBVIOUS
  <2>2. StartsAt(t, p + 1, p + 1) BY <1>1, <1>4 DEF LineStarts
  <2> QED BY <2>1, <2>2 DEF StartsAt
<1> QED BY <1>2, <1>3, <1>4 DEF LineStarts

BlockBegins(t, q) == LineStarts(t, q) /\ BeginsBlock(t, q)
NextBlocks(t, q, b) ==
  b - (IF BlockEnds(t, q) /\ b > 0 THEN 1 ELSE 0) + (IF BlockBegins(t, q) THEN 1 ELSE 0)

LEMMA BlocksIs ==
  ASSUME NEW t, Len(t) \in Nat
  PROVE  /\ Blocks(t) \in [0..Len(t) + 1 -> Int] /\ Blocks(t)[0] = 0
         /\ \A q \in 1..Len(t) + 1 : Blocks(t)[q] = NextBlocks(t, q, Blocks(t)[q - 1])
<1> DEFINE N == Len(t) + 1
           D == [q \in 1..N |-> [x \in Int |-> NextBlocks(t, q, x)]]
           d == Blocks(t)
<1>1. N \in Nat /\ 0 \in Int OBVIOUS
<1>2. \A q : \A x \in Int : NextBlocks(t, q, x) \in Int BY DEF NextBlocks
<1>3. D \in [1..N -> [Int -> Int]] BY <1>2
<1>4. \A q \in 1..N : \A x \in Int : D[q][x] = NextBlocks(t, q, x) OBVIOUS
<1> HIDE DEF D
<1>5. PICK f \in [0..N -> Int] : f[0] = 0 /\ \A q \in 1..N : f[q] = D[q][f[q - 1]]
  <2> HIDE DEF N, d
  <2>1. \E f \in [0..N -> Int] : Recursive(f, N, 0, D) BY <1>1, <1>3, RecursiveFunction
  <2> QED BY <2>1 DEF Recursive
<1>6. \A q \in 1..N : f[q] = NextBlocks(t, q, f[q - 1])
  <2> SUFFICES ASSUME NEW q \in 1..N PROVE f[q] = NextBlocks(t, q, f[q - 1]) OBVIOUS
  <2>1. q - 1 \in 0..N BY <1>1
  <2> QED BY <2>1, <1>4, <1>5
<1>7. f = [q \in 0..N |-> IF q = 0 THEN 0 ELSE NextBlocks(t, q, f[q - 1])]
  <2>1. \A q \in 0..N : q /= 0 => q \in 1..N OBVIOUS
  <2>2. \A q \in 0..N : f[q] = IF q = 0 THEN 0 ELSE NextBlocks(t, q, f[q - 1]) BY <2>1, <1>5, <1>6
  <2> QED BY <2>2
<1>8. d = [q \in 0..N |-> IF q = 0 THEN 0 ELSE NextBlocks(t, q, d[q - 1])]
  BY <1>7 DEF Blocks, NextBlocks, BlockEnds, BlockBegins, LineStarts
<1> HIDE DEF d
<1>9. \A q \in 0..N : d[q] = IF q = 0 THEN 0 ELSE NextBlocks(t, q, d[q - 1]) BY <1>8
<1>10. 0..N \subseteq {q \in 0..N : d[q] \in Int}
  <2> DEFINE S == {q \in 0..N : d[q] \in Int}
  <2>1. 0 \in S BY <1>1, <1>9
  <2>2. ASSUME NEW k \in 1..N, k - 1 \in S PROVE k \in S
    <3>1. k \in 0..N /\ k /= 0 OBVIOUS
    <3>2. d[k] = NextBlocks(t, k, d[k - 1]) BY <3>1, <1>9
    <3> QED BY <3>1, <3>2, <2>2, <1>2
  <2> HIDE DEF S
  <2>3. 0..N \subseteq S BY <1>1, <2>1, <2>2, UpTo
  <2> QED BY <2>3 DEF S
<1>11. d \in [0..N -> Int]
  <2>1. \A q \in 0..N : d[q] \in Int BY <1>10
  <2>2. DOMAIN d = 0..N /\ d = [q \in 0..N |-> d[q]] BY <1>8
  <2> QED BY <2>1, <2>2
<1>12. \A q \in 1..N : q \in 0..N /\ q /= 0 OBVIOUS
<1>13. d[0] = 0 /\ \A q \in 1..N : d[q] = NextBlocks(t, q, d[q - 1]) BY <1>1, <1>9, <1>12
<1> QED BY <1>11, <1>13 DEF d

(* A line is within one number of blocks.                                        *)
LEMMA SameBlocks ==
  ASSUME NEW t, Len(t) \in Nat, NEW p \in 1..Len(t) + 1, NEW q \in p..Len(t) + 1, NoBreak(t, p, q)
  PROVE  Blocks(t)[q] = Blocks(t)[p]
<1> DEFINE M == q - p
           A == {k \in 0..M : Blocks(t)[p + k] = Blocks(t)[p]}
<1>1. M \in Nat /\ p + M = q /\ p + 0 = p OBVIOUS
<1>2. 0 \in A BY <1>1
<1>3. ASSUME NEW k \in 1..M, k - 1 \in A PROVE k \in A
  <2> DEFINE r == p + (k - 1)
  <2>1. /\ r \in p..q - 1 /\ r \in Nat /\ r >= 1 /\ p + k = r + 1 /\ k \in 0..M
        /\ r + 1 \in 1..Len(t) + 1 /\ r + 1 - 1 = r /\ r \in 0..Len(t) + 1
    OBVIOUS
  <2>2. Blocks(t)[r] = Blocks(t)[p] BY <1>3
  <2> HIDE DEF r
  <2>3. t[r] /= "newline" BY <2>1 DEF NoBreak
  <2>4. ~LineStarts(t, r + 1) BY <2>1, <2>3, StartsWhen
  <2>5. ~BlockEnds(t, r + 1) BY <2>1, <2>3 DEF BlockEnds
  <2>6. Blocks(t)[r + 1] = NextBlocks(t, r + 1, Blocks(t)[r]) BY <2>1, BlocksIs
  <2>7. Blocks(t)[r] \in Int BY <2>1, BlocksIs
  <2>8. Blocks(t)[r + 1] = Blocks(t)[r] BY <2>4, <2>5, <2>6, <2>7 DEF NextBlocks, BlockBegins
  <2> QED BY <2>1, <2>2, <2>8
<1> HIDE DEF A
<1>4. 0..M \subseteq A BY <1>1, <1>2, <1>3, UpTo
<1>5. M \in A BY <1>1, <1>4
<1> QED BY <1>1, <1>5 DEF A

(* A mark that takes the scanner into a comment block, or out of one.          *)
Marked(t, p, d) ==
  \/ Mark(t, p, LBrace) /\ LineEnd(t, p) <= Len(t)
  \/ Mark(t, p, RBrace) /\ d > 0

(* The scanner is in the blocks of its line: before the mark of a line that    *)
(* holds one, and anywhere on other lines.                                       *)
Fits(t, p, d) ==
  IF BeginsBlock(t, p) THEN FirstOnLine(t, p) /\ Blocks(t)[p] = d + 1
  ELSE Blocks(t)[p] = d /\ (EndsBlock(t, p) /\ d > 0 => FirstOnLine(t, p))

LEMMA BracesDiffer ==
  /\ LBrace /= RBrace /\ LBrace \notin Blank /\ RBrace \notin Blank
  /\ "%" \notin Blank /\ "newline" \notin Blank /\ "%" /= "newline"
BY DEF LBrace, RBrace, Blank

LEMMA BlockMarks ==
  ASSUME NEW t, NEW p
  PROVE  /\ BeginsBlock(t, p) <=> Alone(t, p, LBrace) /\ LineEnd(t, p) <= Len(t)
         /\ EndsBlock(t, p) <=> Alone(t, p, RBrace)
BY DEF BeginsBlock, EndsBlock, LBrace, RBrace

LEMMA LinesOf ==
  ASSUME NEW t, Len(t) \in Nat, NEW p \in 1..Len(t)
  PROVE  /\ p \in Nat /\ p >= 1 /\ p + 1 \in 1..Len(t) + 1 /\ p \in 1..Len(t) + 1
         /\ LineStart(t, p) \in 1..p /\ LineEnd(t, p) \in p..Len(t) + 1
         /\ NoBreak(t, LineStart(t, p), p) /\ NoBreak(t, p, LineEnd(t, p))
         /\ LineEnd(t, p) <= Len(t) => t[LineEnd(t, p)] = "newline"
<1>1. p \in Nat /\ p >= 1 /\ p + 1 \in 1..Len(t) + 1 /\ p \in 1..Len(t) + 1 OBVIOUS
<1>2. StartsAt(t, p, LineStart(t, p)) BY <1>1, StartIs
<1>3. EndsAt(t, p, LineEnd(t, p)) BY <1>1, EndIsAt
<1> DEFINE e == LineEnd(t, p)
<1>4. e <= Len(t) => e /= Len(t) + 1
  <2>1. e \in p..Len(t) + 1 BY <1>3 DEF EndsAt
  <2> HIDE DEF e
  <2> QED BY <2>1
<1>5. e <= Len(t) => t[e] = "newline" BY <1>3, <1>4 DEF EndsAt
<1>6. LineStart(t, p) \in 1..p /\ NoBreak(t, LineStart(t, p), p) BY <1>2 DEF StartsAt
<1>7. e \in p..Len(t) + 1 /\ NoBreak(t, p, e) BY <1>3 DEF EndsAt
<1> QED BY <1>1, <1>5, <1>6, <1>7

Ahead(t, p, b, q) ==
  q \in p..LineEnd(t, p) - 1 /\ q \in p..Len(t) /\ Mark(t, q, b) /\ FirstOnLine(t, q) /\ NoBreak(t, p, q)

LEMMA MarkAhead ==
  ASSUME NEW t, Len(t) \in Nat, NEW p \in 1..Len(t), FirstOnLine(t, p), NEW b, Alone(t, p, b)
  PROVE  \E q : Ahead(t, p, b, q)
<1> DEFINE s == LineStart(t, p)
           e == LineEnd(t, p)
<1>1. p \in Nat /\ s \in 1..p /\ e \in p..Len(t) + 1 /\ NoBreak(t, p, e) BY LinesOf
<1>2. PICK q \in s..e - 1 : Mark(t, q, b) /\ FirstOnLine(t, q) BY DEF Alone
<1>3. t[q] = "%" BY <1>2 DEF Mark
<1>4. \A r \in s..p - 1 : t[r] \in Blank BY DEF FirstOnLine
<1> HIDE DEF s, e
<1>5. q \in p..e - 1 /\ q \in p..Len(t)
  <2>1. ~(q < p)
    <3> SUFFICES ASSUME q < p PROVE FALSE OBVIOUS
    <3>1. q \in s..p - 1 BY <1>1, <1>2
    <3> QED BY <3>1, <1>3, <1>4, BracesDiffer
  <2> QED BY <2>1, <1>1, <1>2
<1>6. NoBreak(t, p, q)
  <2>1. \A r \in p..q - 1 : r \in p..e - 1 BY <1>1, <1>5
  <2> QED BY <2>1, <1>1 DEF NoBreak
<1> QED BY <1>2, <1>5, <1>6 DEF Ahead, e

LEMMA FirstBefore ==
  ASSUME NEW t, Len(t) \in Nat, NEW p \in 1..Len(t), NEW q \in p..Len(t), p < q,
         NoBreak(t, p, q), FirstOnLine(t, q)
  PROVE  t[p] \in Blank /\ FirstOnLine(t, p + 1)
<1>1. /\ p \in Nat /\ p + 1 \in 1..Len(t) + 1 /\ p + 1 \in p..Len(t) + 1
      /\ q \in p..Len(t) + 1 /\ p \in 1..Len(t) + 1 /\ LineStart(t, p) \in 1..p
  BY LinesOf
<1>2. OneLineOf(t, p, q) BY <1>1, SameLine
<1>3. t[p] /= "newline" /\ NoBreak(t, p, p + 1)
  <2>1. p \in p..q - 1 /\ \A r \in p..p + 1 - 1 : r = p BY <1>1
  <2> QED BY <2>1 DEF NoBreak
<1>4. OneLineOf(t, p, p + 1) BY <1>1, <1>3, SameLine
<1> DEFINE s == LineStart(t, p)
<1>5. LineStart(t, q) = s /\ LineStart(t, p + 1) = s BY <1>2, <1>4 DEF OneLineOf
<1>6. \A r \in s..q - 1 : t[r] \in Blank BY <1>5 DEF FirstOnLine
<1>7. s \in 1..p BY <1>1
<1> HIDE DEF s
<1>8. p \in s..q - 1 /\ \A r \in s..p + 1 - 1 : r \in s..q - 1 BY <1>7
<1> QED BY <1>5, <1>6, <1>8 DEF FirstOnLine

(* Behind what is no mark there may still be one, if all is blank.             *)
Expects(t, p, d) == BeginsBlock(t, p) \/ (EndsBlock(t, p) /\ d > 0)

LEMMA FitsAhead ==
  ASSUME NEW t, Len(t) \in Nat, NEW p \in 1..Len(t), NEW d \in Nat, Fits(t, p, d), ~Marked(t, p, d),
         Expects(t, p, d)
  PROVE  t[p] \in Blank /\ FirstOnLine(t, p + 1)
<1>1. FirstOnLine(t, p) BY DEF Fits, Expects
<1>2. ASSUME NEW b, Alone(t, p, b), ~Mark(t, p, b) PROVE t[p] \in Blank /\ FirstOnLine(t, p + 1)
  <2>1. PICK q : Ahead(t, p, b, q) BY <1>1, <1>2, MarkAhead
  <2>2. q \in p..Len(t) /\ FirstOnLine(t, q) /\ NoBreak(t, p, q) /\ q /= p BY <2>1, <1>2 DEF Ahead
  <2>3. p < q BY <2>2
  <2> QED BY <2>2, <2>3, FirstBefore
<1>3. BeginsBlock(t, p) => Alone(t, p, LBrace) /\ ~Mark(t, p, LBrace) BY BlockMarks DEF Marked
<1>4. EndsBlock(t, p) /\ d > 0 => Alone(t, p, RBrace) /\ ~Mark(t, p, RBrace) BY BlockMarks DEF Marked
<1> QED BY <1>2, <1>3, <1>4 DEF Expects

LEMMA FitsPlain ==
  ASSUME NEW t, Len(t) \in Nat, NEW p \in 1..Len(t), NEW d \in Nat, Fits(t, p, d), ~Marked(t, p, d),
         t[p] \notin Blank
  PROVE  ~Expects(t, p, d) /\ Blocks(t)[p] = d
<1>1. ~Expects(t, p, d) BY FitsAhead
<1> QED BY <1>1 DEF Fits, Expects

Remaining(t, e, b) == b - (IF EndsBlock(t, e) /\ b > 0 THEN 1 ELSE 0)

LEMMA FitsNextLine ==
  ASSUME NEW t, Len(t) \in Nat, NEW e \in 1..Len(t), t[e] = "newline", NEW d \in Nat,
         Remaining(t, e, Blocks(t)[e]) = d
  PROVE  Fits(t, e + 1, d)
<1>1. /\ e \in Nat /\ e >= 1 /\ e + 1 \in 1..Len(t) + 1 /\ e + 1 - 1 = e /\ e + 1 > 1
      /\ e \in 0..Len(t) + 1
  OBVIOUS
<1>2. LineStarts(t, e + 1) BY <1>1, StartsWhen
<1>3. FirstOnLine(t, e + 1)
  <2>1. \A r \in e + 1..e + 1 - 1 : FALSE BY <1>1
  <2> QED BY <2>1, <1>2 DEF LineStarts, FirstOnLine
<1>4. BlockEnds(t, e + 1) <=> EndsBlock(t, e) BY <1>1 DEF BlockEnds
<1>5. BlockBegins(t, e + 1) <=> BeginsBlock(t, e + 1) BY <1>2 DEF BlockBegins
<1>6. Blocks(t)[e + 1] = NextBlocks(t, e + 1, Blocks(t)[e]) BY <1>1, BlocksIs
<1>7. Blocks(t)[e + 1] = d + IF BeginsBlock(t, e + 1) THEN 1 ELSE 0
  BY <1>4, <1>5, <1>6 DEF NextBlocks, Remaining
<1> QED BY <1>3, <1>7 DEF Fits

LEMMA FitsStep ==
  ASSUME NEW t, Len(t) \in Nat, NEW p \in 1..Len(t), p + 1 <= Len(t), NEW d \in Nat,
         Fits(t, p, d), ~Marked(t, p, d)
  PROVE  Fits(t, p + 1, d)
<1>1. p \in Nat /\ p + 1 \in 1..Len(t) + 1 /\ p \in 1..Len(t) + 1 /\ p + 1 \in p..Len(t) + 1 BY LinesOf
<1>2. CASE t[p] = "newline"
  <2>1. ~Expects(t, p, d) /\ Blocks(t)[p] = d BY <1>2, FitsPlain, BracesDiffer
  <2>2. Remaining(t, p, Blocks(t)[p]) = d BY <2>1 DEF Remaining, Expects
  <2> QED BY <2>2, <1>2, FitsNextLine
<1>3. CASE t[p] /= "newline"
  <2>1. NoBreak(t, p, p + 1)
    <3>1. \A r \in p..p + 1 - 1 : r = p BY <1>1
    <3> QED BY <3>1, <1>3 DEF NoBreak
  <2>2. OneLineOf(t, p, p + 1) BY <2>1, <1>1, SameLine
  <2>3. Blocks(t)[p + 1] = Blocks(t)[p] BY <2>1, <1>1, SameBlocks
  <2>4. Expects(t, p, d) => FirstOnLine(t, p + 1) BY FitsAhead
  <2> QED BY <2>2, <2>3, <2>4 DEF Fits, OneLineOf, Expects
<1> QED BY <1>2, <1>3

LEMMA FitsRun ==
  ASSUME NEW t, Len(t) \in Nat, NEW p \in 1..Len(t), NEW q \in p..Len(t), NEW d \in Nat,
         Fits(t, p, d), \A r \in p..q - 1 : ~Marked(t, r, d)
  PROVE  Fits(t, q, d)
<1> DEFINE M == q - p
           A == {k \in 0..M : Fits(t, p + k, d)}
<1>1. M \in Nat /\ p + M = q /\ p + 0 = p OBVIOUS
<1>2. 0 \in A BY <1>1
<1>3. ASSUME NEW k \in 1..M, k - 1 \in A PROVE k \in A
  <2> DEFINE r == p + (k - 1)
  <2>1. r \in p..q - 1 /\ r \in 1..Len(t) /\ r + 1 <= Len(t) /\ p + k = r + 1 /\ k \in 0..M OBVIOUS
  <2>2. Fits(t, r, d) BY <1>3
  <2> HIDE DEF r
  <2>3. Fits(t, r + 1, d) BY <2>1, <2>2, FitsStep
  <2> QED BY <2>1, <2>3
<1> HIDE DEF A
<1>4. 0..M \subseteq A BY <1>1, <1>2, <1>3, UpTo
<1>5. M \in A BY <1>1, <1>4
<1> QED BY <1>1, <1>5 DEF A

(* There is no mark behind what is not blank, and none in white space.         *)
NoStrays(t) == \A p \in 1..Len(t) : ~StrayMark(t, p)

LEMMA NoMarkBehind ==
  ASSUME NEW t, Len(t) \in Nat, NoStrays(t), NEW p \in 1..Len(t), t[p] \notin Blank,
         NEW r \in p..Len(t), p < r, NoBreak(t, p, r)
  PROVE  ~FirstOnLine(t, r) /\ \A d : ~Marked(t, r, d)
<1>1. ~FirstOnLine(t, r) BY FirstBefore
<1>2. ~Mark(t, r, LBrace) /\ ~Mark(t, r, RBrace)
  <2>1. r \in 1..Len(t) OBVIOUS
  <2>2. ~StrayMark(t, r) BY <2>1 DEF NoStrays
  <2> QED BY <2>2, <1>1 DEF StrayMark, LBrace, RBrace
<1> QED BY <1>1, <1>2 DEF Marked

LEMMA FitsLine ==
  ASSUME NEW t, Len(t) \in Nat, NoStrays(t), NEW p \in 1..Len(t), t[p] \notin Blank,
         NEW d \in Nat, Fits(t, p, d), ~Marked(t, p, d), NEW q \in p..Len(t), NoBreak(t, p, q)
  PROVE  Fits(t, q, d)
<1>1. ASSUME NEW r \in p..q - 1 PROVE ~Marked(t, r, d)
  <2>1. r \in p..Len(t) /\ (r = p \/ p < r) OBVIOUS
  <2>2. NoBreak(t, p, r)
    <3>1. \A o \in p..r - 1 : o \in p..q - 1 OBVIOUS
    <3> QED BY <3>1 DEF NoBreak
  <2> QED BY <2>1, <2>2, NoMarkBehind
<1> QED BY <1>1, FitsRun

White(t, p, q) == \A r \in p..q - 1 : t[r] \in Blank \cup {"newline"}

LEMMA FitsWhite ==
  ASSUME NEW t, Len(t) \in Nat, NEW p \in 1..Len(t), NEW d \in Nat, Fits(t, p, d),
         NEW q \in p..Len(t), White(t, p, q)
  PROVE  Fits(t, q, d)
<1>1. \A r \in p..q - 1 : t[r] /= "%" BY BracesDiffer DEF White
<1>2. \A r \in p..q - 1 : ~Marked(t, r, d) BY <1>1 DEF Marked, Mark
<1> QED BY <1>2, FitsRun

(* On the line of a mark that stands alone.                                      *)
LEMMA MarkedLine ==
  ASSUME NEW t, Len(t) \in Nat, NEW p \in 1..Len(t), NEW b, Mark(t, p, b), FirstOnLine(t, p)
  PROVE  /\ Alone(t, p, b) /\ \A c : c /= b => ~Alone(t, p, c)
         /\ p + 1 <= LineEnd(t, p) /\ p + 1 \in 1..Len(t) /\ t[p] = "%" /\ t[p + 1] = b
<1>1. p \in Nat /\ LineStart(t, p) \in 1..p /\ LineEnd(t, p) \in p..Len(t) + 1 BY LinesOf
<1>2. p < Len(t) /\ t[p] = "%" /\ t[p + 1] = b BY DEF Mark
<1>3. LineEnd(t, p) <= Len(t) => t[LineEnd(t, p)] = "newline" BY LinesOf
<1>4. LineEnd(t, p) /= p
  <2>1. LineEnd(t, p) = p => p <= Len(t) OBVIOUS
  <2> QED BY <2>1, <1>2, <1>3, BracesDiffer
<1> DEFINE e == LineEnd(t, p)
           s == LineStart(t, p)
<1>5. e \in p..Len(t) + 1 /\ e /= p /\ s \in 1..p BY <1>1, <1>4
<1> HIDE DEF e, s
<1>6. p \in s..e - 1 /\ p + 1 <= e /\ p + 1 \in 1..Len(t) BY <1>1, <1>2, <1>5
<1>7. Alone(t, p, b) BY <1>6 DEF Alone, e, s
<1>8. ASSUME NEW c, c /= b, Alone(t, p, c) PROVE FALSE
  <2>1. PICK q : Ahead(t, p, c, q) BY <1>8, MarkAhead
  <2>2. q \in p..Len(t) /\ FirstOnLine(t, q) /\ NoBreak(t, p, q) /\ Mark(t, q, c) BY <2>1 DEF Ahead
  <2>3. q /= p BY <2>2, <1>2, <1>8 DEF Mark
  <2>4. p < q BY <2>2, <2>3
  <2>5. t[p] \in Blank BY <2>2, <2>4, FirstBefore
  <2> QED BY <2>5, <1>2, BracesDiffer
<1> QED BY <1>2, <1>6, <1>7, <1>8 DEF e

LEMMA FitsMark ==
  ASSUME NEW t, Len(t) \in Nat, NEW p \in 1..Len(t), NEW d \in Nat, Fits(t, p, d), FirstOnLine(t, p),
         NEW e, e = LineEnd(t, p), e + 1 <= Len(t)
  PROVE  /\ Mark(t, p, LBrace) => Fits(t, e + 1, d + 1)
         /\ Mark(t, p, RBrace) /\ d > 0 => Fits(t, e + 1, d - 1)
<1>1. e \in p..Len(t) + 1 /\ e <= Len(t) /\ e \in 1..Len(t) /\ t[e] = "newline" /\ NoBreak(t, p, e)
  <2>1. e \in p..Len(t) + 1 /\ NoBreak(t, p, e) BY LinesOf
  <2>2. e <= Len(t) /\ e \in 1..Len(t) BY <2>1
  <2> QED BY <2>1, <2>2, LinesOf
<1>2. p \in 1..Len(t) + 1 /\ e \in p..Len(t) + 1 BY <1>1
<1>3. OneLineOf(t, p, e) BY <1>1, <1>2, SameLine
<1>4. Blocks(t)[e] = Blocks(t)[p] BY <1>1, <1>2, SameBlocks
<1>5. ASSUME Mark(t, p, LBrace) PROVE Fits(t, e + 1, d + 1)
  <2>1. Alone(t, p, LBrace) /\ ~Alone(t, p, RBrace) BY <1>5, MarkedLine, BracesDiffer
  <2>2. BeginsBlock(t, p) /\ ~EndsBlock(t, e) BY <2>1, <1>1, <1>3, BlockMarks DEF OneLineOf
  <2>3. Blocks(t)[e] = d + 1 BY <2>2, <1>4 DEF Fits
  <2>4. Remaining(t, e, Blocks(t)[e]) = d + 1 BY <2>2, <2>3 DEF Remaining
  <2>5. d + 1 \in Nat OBVIOUS
  <2> QED BY <2>4, <2>5, <1>1, FitsNextLine
<1>6. ASSUME Mark(t, p, RBrace), d > 0 PROVE Fits(t, e + 1, d - 1)
  <2>1. Alone(t, p, RBrace) /\ ~Alone(t, p, LBrace) BY <1>6, MarkedLine, BracesDiffer
  <2>2. ~BeginsBlock(t, p) /\ EndsBlock(t, e) BY <2>1, <1>1, <1>3, BlockMarks DEF OneLineOf
  <2>3. Blocks(t)[e] = d BY <2>2, <1>4 DEF Fits
  <2>4. Remaining(t, e, Blocks(t)[e]) = d - 1 BY <2>2, <2>3, <1>6 DEF Remaining
  <2>5. d - 1 \in Nat BY <1>6
  <2> QED BY <2>4, <2>5, <1>1, FitsNextLine
<1> QED BY <1>5, <1>6

LEMMA FitsBehindMark ==
  ASSUME NEW t, Len(t) \in Nat, NoStrays(t), NEW p \in 1..Len(t), NEW d \in Nat, Fits(t, p, d),
         NEW e, e = LineEnd(t, p), NEW q \in e + 1..Len(t), White(t, e, q)
  PROVE  /\ Mark(t, p, LBrace) => Fits(t, q, d + 1)
         /\ Mark(t, p, RBrace) /\ d > 0 => Fits(t, q, d - 1)
<1>1. e \in p..Len(t) + 1 BY LinesOf
<1>2. e + 1 \in 1..Len(t) /\ e + 1 <= Len(t) /\ q \in e + 1..Len(t) BY <1>1
<1>3. White(t, e + 1, q)
  <2>1. \A r \in e + 1..q - 1 : r \in e..q - 1 BY <1>1
  <2> QED BY <2>1 DEF White
<1>4. Mark(t, p, LBrace) \/ Mark(t, p, RBrace) => FirstOnLine(t, p)
  BY DEF NoStrays, StrayMark, LBrace, RBrace
<1>5. ASSUME Mark(t, p, LBrace) PROVE Fits(t, q, d + 1)
  <2>1. Fits(t, e + 1, d + 1) /\ d + 1 \in Nat BY <1>2, <1>4, <1>5, FitsMark
  <2> QED BY <2>1, <1>2, <1>3, FitsWhite
<1>6. ASSUME Mark(t, p, RBrace), d > 0 PROVE Fits(t, q, d - 1)
  <2>1. Fits(t, e + 1, d - 1) /\ d - 1 \in Nat BY <1>2, <1>4, <1>6, FitsMark
  <2> QED BY <2>1, <1>2, <1>3, FitsWhite
<1> QED BY <1>5, <1>6

(* The line of a run of units.                                                   *)
LEMMA NoBreaks ==
  ASSUME NEW t, NEW p \in Nat, NEW q \in Nat, NEW r \in Nat
  PROVE  /\ NoBreak(t, p, q) /\ NoBreak(t, q, r) => NoBreak(t, p, r)
         /\ p <= q /\ q <= r /\ NoBreak(t, p, r) => NoBreak(t, p, q) /\ NoBreak(t, q, r)
         /\ t[p] /= "newline" => NoBreak(t, p, p + 1)
         /\ t[p] /= "newline" /\ t[p + 1] /= "newline" => NoBreak(t, p, p + 2)
<1>1. \A x \in p..r - 1 : x \in p..q - 1 \/ x \in q..r - 1 OBVIOUS
<1>2. p <= q /\ q <= r => /\ \A x \in p..q - 1 : x \in p..r - 1
                          /\ \A x \in q..r - 1 : x \in p..r - 1
  OBVIOUS
<1>3. /\ \A x \in p..p + 1 - 1 : x = p
      /\ \A x \in p..p + 2 - 1 : x = p \/ x = p + 1
  OBVIOUS
<1> QED BY <1>1, <1>2, <1>3 DEF NoBreak

LEMMA SkipsLine ==
  ASSUME text \in Seq(Units), NEW set, "newline" \notin set, NEW p \in 1..Len(text) + 1
  PROVE  /\ Skip(p, set) \in p..Len(text) + 1 /\ NoBreak(text, p, Skip(p, set))
         /\ \A r \in p..Skip(p, set) - 1 : r \in 1..Len(text) /\ text[r] = Char(r) /\ Char(r) \in set
         /\ Skip(p, set) <= Len(text) => Char(Skip(p, set)) \notin set
<1> DEFINE q == Skip(p, set)
           L == Len(text)
<1>1. L \in Nat /\ DOMAIN text = 1..L BY CharIs
<1>2. /\ q \in p..L + 1 /\ (q <= L => Char(q) \notin set)
      /\ \A r \in p..q - 1 : Char(r) \in set
  <2>1. p \in Nat /\ p >= 1 /\ p <= L + 1 BY <1>1
  <2>2. q \in 1..L + 1 /\ (p <= L + 1 => q >= p) /\ (q <= L => Char(q) \notin set)
    BY <2>1, SkipIs
  <2>3. \A r \in p..q - 1 : Char(r) \in set BY <2>1, SkipIs
  <2> HIDE DEF q
  <2> QED BY <2>1, <2>2, <2>3, <1>1
<1> HIDE DEF q
<1>3. \A r \in p..q - 1 : r \in 1..L BY <1>1, <1>2
<1>4. \A r \in p..q - 1 : text[r] = Char(r) BY <1>1, <1>3 DEF Char
<1>5. NoBreak(text, p, q) BY <1>2, <1>4 DEF NoBreak
<1> QED BY <1>2, <1>3, <1>4, <1>5 DEF q, L

LEMMA SetsOfALine ==
  /\ "newline" \notin Blank /\ "newline" \notin Letters \cup Digits
  /\ "newline" \notin Units \ {"newline"} /\ "%" \notin Letters \cup Digits /\ "@" \notin Blank
  /\ "newline" \notin Digits /\ "%" \notin Digits
<1>1. "newline" \in NoLetters /\ "%" \in NoLetters BY DEF NoLetters
<1>2. "newline" \notin Letters /\ "%" \notin Letters BY <1>1, TextsAssumption
<1> QED BY <1>2 DEF Blank, Digits

(* Behind a mark there are blanks, and the end of its line.                    *)
LEMMA MarkIs ==
  ASSUME text \in Seq(Units), NEW p \in 1..Len(text), text[p] = "%", NEW brace,
         brace \notin Blank, brace /= "newline", brace /= "null", Char(p + 1) = brace,
         NEW b, b = Skip(p + 2, Blank)
  PROVE  /\ b \in p + 2..Len(text) + 1 /\ NoBreak(text, p, b)
         /\ Mark(text, p, brace) <=> AtLineEnd(b)
         /\ AtLineEnd(b) => b = LineEnd(text, p)
<1> DEFINE L == Len(text)
           e == LineEnd(text, p)
<1>1. L \in Nat /\ DOMAIN text = 1..L BY CharIs
<1>2. p + 1 \in 1..L /\ text[p + 1] = brace BY CharIs
<1>3. p + 2 \in 1..L + 1 /\ p \in Nat BY <1>1, <1>2
<1>4. /\ b \in p + 2..L + 1 /\ NoBreak(text, p + 2, b)
      /\ \A r \in p + 2..b - 1 : text[r] \in Blank
      /\ b <= L => Char(b) \notin Blank
  <2>1. /\ Skip(p + 2, Blank) \in p + 2..L + 1 /\ NoBreak(text, p + 2, Skip(p + 2, Blank))
        /\ \A r \in p + 2..Skip(p + 2, Blank) - 1 : text[r] = Char(r) /\ Char(r) \in Blank
        /\ Skip(p + 2, Blank) <= L => Char(Skip(p + 2, Blank)) \notin Blank
    BY <1>3, SkipsLine, SetsOfALine
  <2> QED BY <2>1
<1>5. NoBreak(text, p, b)
  <2>1. NoBreak(text, p, p + 2) BY <1>2, <1>3, NoBreaks, BracesDiffer
  <2>2. p + 2 \in Nat /\ b \in Nat BY <1>3, <1>4
  <2> QED BY <2>1, <2>2, <1>3, <1>4, NoBreaks
<1>6. e \in p..L + 1 /\ (e <= L => text[e] = "newline") BY <1>1, LinesOf
<1>7. AtLineEnd(b) <=> b = L + 1 \/ text[b] = "newline"
  <2>1. b <= L => Char(b) = text[b]
    <3>1. b <= L => b \in DOMAIN text BY <1>1, <1>3, <1>4
    <3> QED BY <3>1 DEF Char
  <2>2. b > L => b = L + 1 /\ Char(b) = "null"
    <3>1. b > L => b = L + 1 /\ b \notin DOMAIN text BY <1>1, <1>3, <1>4
    <3> QED BY <3>1 DEF Char
  <2>3. b \in Int BY <1>3, <1>4
  <2>4. CASE b <= L
    <3>1. b /= L + 1 BY <2>3, <2>4, <1>1
    <3> QED BY <3>1, <2>1, <2>4 DEF AtLineEnd, has_next
  <2>5. CASE b > L
    <3>1. b = L + 1 /\ ~(b <= L) BY <2>2, <2>3, <2>5, <1>1
    <3> QED BY <3>1 DEF AtLineEnd, has_next
  <2> QED BY <2>3, <2>4, <2>5, <1>1
<1>8. AtLineEnd(b) => b = e
  <2> SUFFICES ASSUME AtLineEnd(b) PROVE b = e OBVIOUS
  <2>1. b \in p..L + 1 BY <1>3, <1>4
  <2>2. EndsAt(text, p, b) BY <2>1, <1>5, <1>7 DEF EndsAt
  <2>3. p \in 1..Len(text) + 1 BY <1>1
  <2> QED BY <2>2, <2>3, <1>1, EndIsAt
<1>9. Mark(text, p, brace) <=> \A r \in p + 2..e - 1 : text[r] \in Blank
  <2>1. p < L BY <1>1, <1>2
  <2> QED BY <2>1, <1>2 DEF Mark
<1> HIDE DEF e
<1>10. AtLineEnd(b) => Mark(text, p, brace) BY <1>4, <1>8, <1>9
<1>11. Mark(text, p, brace) => AtLineEnd(b)
  <2> SUFFICES ASSUME Mark(text, p, brace), ~AtLineEnd(b) PROVE FALSE OBVIOUS
  <2>1. b /= L + 1 /\ text[b] /= "newline" BY <1>7
  <2>2. b \in 1..L BY <2>1, <1>1, <1>3, <1>4
  <2>3. ~(e <= b)
    <3> SUFFICES ASSUME e <= b PROVE FALSE OBVIOUS
    <3>1. e \in p..b - 1 \/ e = b BY <1>1, <1>3, <1>4, <1>6
    <3>2. e <= L BY <2>2, <1>1, <1>6
    <3>3. text[e] = "newline" BY <3>2, <1>6
    <3> QED BY <3>1, <3>3, <2>1, <1>5 DEF NoBreak
  <2>4. b \in p + 2..e - 1 BY <2>2, <2>3, <1>1, <1>3, <1>4, <1>6
  <2>5. text[b] \in Blank BY <2>4, <1>9
  <2>6. Char(b) = text[b] /\ b <= L BY <2>2, <1>1 DEF Char
  <2> QED BY <2>5, <2>6, <1>4
<1> QED BY <1>4, <1>5, <1>8, <1>10, <1>11 DEF e

------------------------------------------------------------------------------
(* What the steps do to the lines they pass, without a new error.              *)

(* A comment to the end of its line.                                             *)
Comments ==
  /\ UNCHANGED <<tokens, line_annotation, comment_depth, annotation_depth>>
  /\ text[pos] = "%" /\ ~Marked(text, pos, comment_depth)
  /\ pos < pos' /\ NoBreak(text, pos, pos')
  /\ pos' <= Len(text) => text[pos'] = "newline"

(* The white space behind the line of a mark.                                    *)
PastLine(q) ==
  /\ q \in LineEnd(text, pos)..Len(text) + 1 /\ (q <= Len(text) => q > LineEnd(text, pos))
  /\ White(text, LineEnd(text, pos), q)

Enters ==
  /\ UNCHANGED <<tokens, line_annotation, annotation_depth>>
  /\ comment_depth' = comment_depth + 1
  /\ Mark(text, pos, LBrace) /\ PastLine(pos')

Leaves ==
  /\ UNCHANGED <<tokens, line_annotation, annotation_depth>>
  /\ comment_depth > 0 /\ comment_depth' = comment_depth - 1 /\ ~(annotation_depth > 0)
  /\ Mark(text, pos, RBrace) /\ PastLine(pos')

(* An annotation in a comment of a line.                                         *)
SignAt(q) == Token("@T", q, q + 2)

AnnotatesLine ==
  /\ ~is_within_type_annotation /\ line_annotation' = TRUE
  /\ UNCHANGED <<comment_depth, annotation_depth>>
  /\ text[pos] = "%" /\ ~Marked(text, pos, comment_depth)
  /\ \E q \in pos + 1..pos' :
       /\ text[q] = "@" /\ pos' = q + 2 /\ NoBreak(text, pos, pos')
       /\ tokens' = Append(tokens, SignAt(q))

(* An annotation at the head of a comment block, and the word behind it.       *)
FirstWord(q, type, r) ==
  /\ type \in WordTypes /\ r \in q + 2..pos' /\ (line_annotation' <=> type /= "begin")
  /\ tokens' = Append(Append(tokens, SignAt(q)), Token(type, r, pos'))

AnnotatesBlock ==
  /\ ~is_within_type_annotation /\ comment_depth' = comment_depth + 1
  /\ Mark(text, pos, LBrace)
  /\ \E q \in LineEnd(text, pos) + 1..Len(text) :
       /\ PastLine(q) /\ text[q] = "@" /\ q + 2 <= pos' /\ NoBreak(text, q, pos')
       /\ \/ line_annotation' = TRUE /\ tokens' = Append(tokens, SignAt(q))
          \/ annotation_depth < 0 /\ line_annotation' = FALSE /\ tokens' = Append(tokens, SignAt(q))
          \/ \E type, r : FirstWord(q, type, r)

(* An annotation is told from what follows the sign.                             *)
LEMMA SignIs ==
  ASSUME text \in Seq(Units), NEW q \in Nat, is_annotation(q)
  PROVE  /\ q \in 1..Len(text) /\ q + 2 \in 1..Len(text)
         /\ text[q] = "@" /\ NoBreak(text, q, q + 2)
<1> DEFINE L == Len(text)
<1>1. L \in Nat /\ \A p : Char(p) /= "null" => p \in 1..L /\ Char(p) = text[p] BY CharIs
<1>2. Char(q) = "@" /\ Char(q + 1) = "T" /\ Char(q + 2) \in Blank \cup {"newline"} BY DEF is_annotation
<1>3. Char(q + 2) /= "null" BY <1>2 DEF Blank
<1>4. q \in 1..L /\ text[q] = "@" /\ text[q + 1] = "T" /\ q + 2 \in 1..L BY <1>1, <1>2, <1>3
<1>5. NoBreak(text, q, q + 2) BY <1>4, NoBreaks
<1> QED BY <1>4, <1>5

LEMMA BlockAnnotates ==
  ASSUME Shape, NEW q \in Nat, q >= 1, is_annotation(q), Annotation(q, TRUE)
  PROVE  /\ q + 2 <= pos' /\ NoBreak(text, q, pos')
         /\ \/ line_annotation' = TRUE /\ tokens' = Append(tokens, SignAt(q))
            \/ annotation_depth < 0 /\ line_annotation' = FALSE /\ tokens' = Append(tokens, SignAt(q))
            \/ \E type, r : FirstWord(q, type, r)
<1> DEFINE L == Len(text)
           p == Skip(q + 2, Blank)
           block == annotation_depth + 1
           word == Word(p, FALSE, block)
           macro == Append(tokens, SignAt(q))
<1>1. text \in Seq(Units) /\ annotation_depth \in Int /\ L \in Nat /\ DOMAIN text = 1..L BY CharIs DEF Shape
<1>2. q \in 1..L /\ q + 2 \in 1..L /\ NoBreak(text, q, q + 2) BY <1>1, SignIs
<1>3. p \in q + 2..L + 1 /\ NoBreak(text, q + 2, p)
  <2>1. q + 2 \in 1..L + 1 BY <1>1, <1>2
  <2> QED BY <2>1, <1>1, SkipsLine, SetsOfALine
<1>4. NoBreak(text, q, p)
  <2> HIDE DEF p
  <2>1. p \in Nat /\ q + 2 \in Nat BY <1>2, <1>3
  <2> QED BY <2>1, <1>2, <1>3, NoBreaks
<1>5. \/ /\ Char(p) \in Letters
         /\ pos' = word.upto
         /\ line_annotation' = (word.error = "" /\ word.type /= "begin")
         /\ tokens' = IF word.error = "" THEN Append(macro, Token(word.type, p, word.upto)) ELSE macro
      \/ pos' = p /\ line_annotation' = TRUE /\ tokens' = macro
  BY DEF Annotation, consume_whitespace_to_new_line, SignAt
<1> HIDE DEF p, word, macro
<1>6. CASE pos' = p /\ line_annotation' = TRUE /\ tokens' = macro
  <2>1. q + 2 <= pos' /\ NoBreak(text, q, pos') BY <1>2, <1>3, <1>4, <1>6
  <2> QED BY <2>1, <1>6 DEF macro
<1>7. CASE /\ Char(p) \in Letters
           /\ pos' = word.upto
           /\ line_annotation' = (word.error = "" /\ word.type /= "begin")
           /\ tokens' = IF word.error = "" THEN Append(macro, Token(word.type, p, word.upto)) ELSE macro
  <2>1. p \in DOMAIN text /\ text[p] \in Letters /\ p \in 1..L
    <3>1. "null" \notin Letters BY TextsAssumption DEF NoLetters
    <3>2. Char(p) /= "null" BY <3>1, <1>7
    <3> QED BY <3>2, <1>1, <1>7, CharIs
  <2>2. block \in Int BY <1>1
  <2>3. /\ word.upto \in p + 1..L + 1 /\ word.upto = Skip(p, Letters \cup Digits)
        /\ WordSays(word, text[p], FALSE, block)
    BY <2>1, <2>2, <1>1, WordIs DEF word
  <2>4. NoBreak(text, p, pos')
    <3>1. p \in 1..L + 1 BY <2>1, <1>1
    <3>2. NoBreak(text, p, Skip(p, Letters \cup Digits)) BY <3>1, <1>1, SkipsLine, SetsOfALine
    <3> QED BY <3>2, <2>3, <1>7
  <2>5. pos' \in p + 1..L + 1 /\ pos' \in Nat /\ p \in Nat
    <3>1. pos' = word.upto BY <1>7
    <3>2. pos' \in p + 1..L + 1 BY <3>1, <2>3
    <3> QED BY <3>2, <2>1
  <2>6. NoBreak(text, q, pos') BY <2>4, <2>5, <1>4, NoBreaks
  <2>7. q + 2 <= pos' /\ p \in q + 2..pos' BY <2>5, <1>2, <1>3
  <2>8. CASE word.error = ""
    <3>1. word.type \in WordTypes BY <2>2, <2>3, <2>8, WordTypeIs
    <3>2. line_annotation' <=> word.type /= "begin" BY <2>8, <1>7
    <3>3. tokens' = Append(macro, Token(word.type, p, pos')) BY <2>8, <1>7
    <3>4. FirstWord(q, word.type, p) BY <3>1, <3>2, <3>3, <2>7 DEF FirstWord, macro
    <3> QED BY <3>4, <2>6, <2>7
  <2>9. CASE word.error /= ""
    <3>1. ~(block > 0) BY <2>2, <2>3, <2>9, Refused
    <3>2. annotation_depth < 0 BY <3>1, <1>1
    <3>3. line_annotation' = FALSE /\ tokens' = macro BY <2>9, <1>7
    <3> QED BY <3>2, <3>3, <2>6, <2>7 DEF macro
  <2> QED BY <2>8, <2>9
<1> QED BY <1>5, <1>6, <1>7

CommentMove == Comments \/ Enters \/ Leaves \/ AnnotatesLine \/ AnnotatesBlock

(* What follows the mark, or the sign of a comment: the first unit that is not *)
(* blank.                                                                        *)
Reads(b, starts, ends) ==
  /\ b \in pos + 1..Len(text) + 1 /\ NoBreak(text, pos, b)
  /\ starts <=> Mark(text, pos, LBrace) /\ LineEnd(text, pos) <= Len(text)
  /\ ends <=> Mark(text, pos, RBrace) /\ comment_depth > 0
  /\ starts \/ ends => b = LineEnd(text, pos)

Effect(q, starts, ends) ==
  /\ comment_depth' = IF starts THEN comment_depth + 1 ELSE IF ends THEN comment_depth - 1 ELSE comment_depth
  /\ \/ /\ ~ends /\ is_annotation(q) /\ ~is_within_type_annotation
        /\ Annotation(q, starts)
     \/ /\ ends => annotation_depth <= 0
        /\ pos' = IF starts \/ ends THEN q ELSE consume_to_new_line(q)
        /\ UNCHANGED <<tokens, line_annotation, annotation_depth>>

Behind(b, marked) == IF marked THEN consume_whitespace(b) ELSE b

LEMMA CommentReads ==
  ASSUME Shape, pos \in 1..Len(text), Comment, errors' = {}
  PROVE  /\ text[pos] = "%"
         /\ \E b : \E starts, ends \in BOOLEAN :
              Reads(b, starts, ends) /\ Effect(Behind(b, starts \/ ends), starts, ends)
<1> DEFINE L == Len(text)
           brace == Char(pos + 1)
           b == consume_whitespace_to_new_line(IF brace \in {"{", "}"} THEN pos + 2 ELSE pos + 1)
           starts == brace = "{" /\ AtLineEnd(b) /\ has_next(b)
           ends == brace = "}" /\ comment_depth > 0 /\ AtLineEnd(b)
           q == IF starts \/ ends THEN consume_whitespace(b) ELSE b
<1>1. L \in Nat /\ DOMAIN text = 1..L /\ text \in Seq(Units) /\ comment_depth \in Nat BY CharIs DEF Shape
<1>2. text[pos] = "%"
  <2>1. Char(pos) = "%" BY DEF Comment, CommentAs
  <2> QED BY <2>1, CharIs, <1>1
<1>3. /\ comment_depth' = IF starts THEN comment_depth + 1 ELSE IF ends THEN comment_depth - 1 ELSE comment_depth
      /\ \/ \E message : Fail(message, q)
         \/ /\ ~ends /\ is_annotation(q) /\ ~is_within_type_annotation
            /\ Annotation(q, starts)
         \/ /\ IF ends THEN annotation_depth <= 0 ELSE ~is_annotation(q)
            /\ pos' = IF starts \/ ends THEN q ELSE consume_to_new_line(q)
            /\ UNCHANGED <<tokens, line_annotation, annotation_depth>>
  BY DEF Comment, CommentAs
<1>4. \A message : ~Fail(message, q) BY DEF Fail
<1>5. q = Behind(b, starts \/ ends) BY DEF Behind
<1>6. b = IF brace \in {LBrace, RBrace} THEN Skip(pos + 2, Blank) ELSE Skip(pos + 1, Blank)
  BY Zenon DEF LBrace, RBrace, consume_whitespace_to_new_line
<1>7. starts <=> brace = LBrace /\ AtLineEnd(b) /\ has_next(b) BY Zenon DEF LBrace
<1>8. ends <=> brace = RBrace /\ comment_depth > 0 /\ AtLineEnd(b) BY Zenon DEF RBrace
<1>9. Effect(q, starts, ends)
  <2> HIDE DEF q, starts, ends
  <2>1. (IF ends THEN annotation_depth <= 0 ELSE ~is_annotation(q)) => (ends => annotation_depth <= 0) OBVIOUS
  <2> QED BY <1>3, <1>4, <2>1 DEF Effect
<1>10. starts \in BOOLEAN /\ ends \in BOOLEAN OBVIOUS
<1> HIDE DEF q, starts, ends, b
<1>11. /\ LBrace /= "newline" /\ RBrace /= "newline" /\ LBrace /= "null" /\ RBrace /= "null"
  BY Zenon DEF LBrace, RBrace
<1>12. b \in pos + 1..L + 1 /\ NoBreak(text, pos, b)
  <2>1. CASE brace \in {LBrace, RBrace}
    <3>1. b = Skip(pos + 2, Blank) BY <2>1, <1>6
    <3>2. b \in pos + 2..L + 1 /\ NoBreak(text, pos, b) BY <2>1, <3>1, <1>1, <1>2, <1>11, MarkIs, BracesDiffer
    <3> QED BY <3>2
  <2>2. CASE brace \notin {LBrace, RBrace}
    <3>1. b = Skip(pos + 1, Blank) BY <2>2, <1>6
    <3>2. pos + 1 \in 1..L + 1 /\ pos \in Nat /\ pos + 1 \in Nat BY <1>1
    <3>3. Skip(pos + 1, Blank) \in pos + 1..L + 1 /\ NoBreak(text, pos + 1, Skip(pos + 1, Blank))
      BY <3>2, <1>1, SkipsLine, SetsOfALine
    <3>4. NoBreak(text, pos, pos + 1) BY <3>2, <1>2, NoBreaks, BracesDiffer
    <3>5. b \in pos + 1..L + 1 /\ NoBreak(text, pos + 1, b) /\ b \in Nat BY <3>1, <3>2, <3>3
    <3>6. NoBreak(text, pos, b) BY <3>2, <3>4, <3>5, NoBreaks
    <3> QED BY <3>5, <3>6
  <2> QED BY <2>1, <2>2
<1>13. ASSUME NEW c \in {LBrace, RBrace}
       PROVE  /\ Mark(text, pos, c) <=> brace = c /\ AtLineEnd(b)
              /\ brace = c /\ AtLineEnd(b) => b = LineEnd(text, pos)
  <2>1. CASE brace = c
    <3>1. b = Skip(pos + 2, Blank) BY <2>1, <1>6
    <3>2. /\ Mark(text, pos, c) <=> AtLineEnd(b)
          /\ AtLineEnd(b) => b = LineEnd(text, pos)
      BY <2>1, <3>1, <1>1, <1>2, <1>11, MarkIs, BracesDiffer
    <3> QED BY <2>1, <3>2
  <2>2. CASE brace /= c
    <3>1. Mark(text, pos, c) => pos < L /\ text[pos + 1] = c BY DEF Mark
    <3>2. pos < L => brace = text[pos + 1]
      <4>1. pos < L => pos + 1 \in 1..L BY <1>1
      <4> QED BY <4>1, <1>1 DEF Char
    <3> QED BY <2>2, <3>1, <3>2
  <2> QED BY <2>1, <2>2
<1> HIDE DEF brace
<1>14. starts <=> Mark(text, pos, LBrace) /\ LineEnd(text, pos) <= L
  BY <1>7, <1>13 DEF has_next
<1>15. ends <=> Mark(text, pos, RBrace) /\ comment_depth > 0 BY <1>8, <1>13
<1>16. starts \/ ends => b = LineEnd(text, pos) BY <1>7, <1>8, <1>13
<1>17. Reads(b, starts, ends) BY <1>12, <1>14, <1>15, <1>16 DEF Reads
<1> QED BY <1>2, <1>5, <1>9, <1>10, <1>17

LEMMA PastLineIs ==
  ASSUME Shape, pos \in 1..Len(text), NEW b, b = LineEnd(text, pos), NEW q, q = consume_whitespace(b)
  PROVE  PastLine(q) /\ q \in Nat /\ q >= 1 /\ (b <= Len(text) => q >= b + 1)
<1> DEFINE L == Len(text)
           set == Blank \cup {"newline"}
<1>1. L \in Nat /\ DOMAIN text = 1..L /\ text \in Seq(Units) BY CharIs DEF Shape
<1>2. b \in pos..L + 1 /\ (b <= L => text[b] = "newline") BY <1>1, LinesOf
<1>3. b \in Nat /\ b >= 1 /\ b <= L + 1 /\ (b <= L => b \in 1..L) BY <1>1, <1>2
<1>4. b <= L => Char(b) \in set BY <1>1, <1>2, <1>3 DEF Char
<1> HIDE DEF set
<1>5. /\ q \in b..L + 1 /\ (b <= L => q >= b + 1)
      /\ \A r \in b..q - 1 : Char(r) \in set
  <2>1. q = Skip(b, set) BY DEF consume_whitespace, set
  <2>2. Skip(b, set) \in 1..L + 1 /\ Skip(b, set) >= b /\ (b <= L => Skip(b, set) >= b + 1)
    BY <1>1, <1>3, <1>4, SkipIs
  <2>3. \A r \in b..Skip(b, set) - 1 : Char(r) \in set BY <1>1, <1>3, SkipIs
  <2> QED BY <2>1, <2>2, <2>3, <1>3, <1>1
<1>6. \A r \in b..q - 1 : text[r] \in set
  <2>1. \A r \in b..q - 1 : r \in 1..L BY <1>1, <1>3, <1>5
  <2> QED BY <2>1, <1>1, <1>5 DEF Char
<1>7. White(text, b, q) BY <1>6 DEF White, set
<1>8. q <= L => q > b BY <1>1, <1>3, <1>5
<1> QED BY <1>3, <1>5, <1>7, <1>8 DEF PastLine

LEMMA CommentMoves ==
  ASSUME Shape, pos \in 1..Len(text), Comment, errors' = {}
  PROVE  CommentMove
<1> DEFINE L == Len(text)
<1>1. L \in Nat /\ DOMAIN text = 1..L /\ text \in Seq(Units) /\ comment_depth \in Nat
      /\ annotation_depth \in Int /\ pos \in Nat /\ pos >= 1
  BY CharIs DEF Shape
<1>2. text[pos] = "%" BY CommentReads
<1>11. PICK b : \E starts, ends \in BOOLEAN :
         Reads(b, starts, ends) /\ Effect(Behind(b, starts \/ ends), starts, ends)
  BY CommentReads
<1>3. PICK starts \in BOOLEAN, ends \in BOOLEAN :
        Reads(b, starts, ends) /\ Effect(Behind(b, starts \/ ends), starts, ends)
  BY <1>11
<1>4. /\ b \in pos + 1..L + 1 /\ NoBreak(text, pos, b)
      /\ starts <=> Mark(text, pos, LBrace) /\ LineEnd(text, pos) <= Len(text)
      /\ ends <=> Mark(text, pos, RBrace) /\ comment_depth > 0
      /\ starts \/ ends => b = LineEnd(text, pos)
  BY <1>3 DEF Reads
<1>5. b \in Nat /\ b >= 1 /\ pos < b /\ b \in 1..L + 1 BY <1>1, <1>4
<1>6. ~(starts /\ ends)
  <2>1. Mark(text, pos, LBrace) => text[pos + 1] = LBrace BY DEF Mark
  <2>2. Mark(text, pos, RBrace) => text[pos + 1] = RBrace BY DEF Mark
  <2> QED BY <2>1, <2>2, <1>4, BracesDiffer
<1>7. ~starts /\ ~ends <=> ~Marked(text, pos, comment_depth) BY <1>4 DEF Marked
<1>8. CASE ~starts /\ ~ends
  <2>1. Effect(b, FALSE, FALSE) BY <1>3, <1>8 DEF Behind
  <2>2. comment_depth' = comment_depth BY <2>1 DEF Effect
  <2>3. CASE is_annotation(b) /\ ~is_within_type_annotation /\ Annotation(b, FALSE)
    <3>1. /\ pos' = b + 2 /\ line_annotation' = TRUE /\ annotation_depth' = annotation_depth
          /\ tokens' = Append(tokens, SignAt(b))
      BY <2>3 DEF Annotation, SignAt
    <3>2. text[b] = "@" /\ NoBreak(text, b, b + 2) BY <2>3, <1>1, <1>5, SignIs
    <3>3. NoBreak(text, pos, pos')
      <4>1. b + 2 \in Nat BY <1>5
      <4> QED BY <4>1, <3>1, <3>2, <1>1, <1>4, <1>5, NoBreaks
    <3>4. b \in pos + 1..pos' BY <3>1, <1>1, <1>5
    <3>5. AnnotatesLine BY <2>2, <2>3, <3>1, <3>2, <3>3, <3>4, <1>2, <1>7, <1>8 DEF AnnotatesLine
    <3> QED BY <3>5 DEF CommentMove
  <2>4. CASE pos' = consume_to_new_line(b) /\ UNCHANGED <<tokens, line_annotation, annotation_depth>>
    <3> DEFINE set == Units \ {"newline"}
    <3>1. "newline" \notin set BY SetsOfALine
    <3>2. pos' = Skip(b, set) BY <2>4 DEF consume_to_new_line
    <3> HIDE DEF set
    <3>3. /\ pos' \in b..L + 1 /\ NoBreak(text, b, pos')
          /\ pos' <= L => Char(pos') \notin set
      BY <3>1, <3>2, <1>1, <1>5, SkipsLine
    <3>4. pos' \in Nat /\ pos < pos' BY <3>3, <1>1, <1>5
    <3>5. NoBreak(text, pos, pos') BY <3>3, <3>4, <1>1, <1>4, <1>5, NoBreaks
    <3>6. pos' <= L => text[pos'] = "newline"
      <4> SUFFICES ASSUME pos' <= L PROVE text[pos'] = "newline" OBVIOUS
      <4>1. pos' \in 1..L BY <3>3, <1>1, <1>5
      <4>2. text[pos'] \in Units BY <4>1, <1>1, ElementOfSeq
      <4>3. text[pos'] \notin set BY <4>1, <3>3, <1>1 DEF Char
      <4> QED BY <4>2, <4>3 DEF set
    <3>7. Comments BY <2>2, <2>4, <3>4, <3>5, <3>6, <1>2, <1>7, <1>8 DEF Comments
    <3> QED BY <3>7 DEF CommentMove
  <2> QED BY <2>1, <2>3, <2>4 DEF Effect
<1>9. CASE starts /\ ~ends
  <2> DEFINE q == consume_whitespace(b)
  <2>1. Effect(q, TRUE, FALSE) BY <1>3, <1>9 DEF Behind
  <2>2. comment_depth' = comment_depth + 1 BY <2>1 DEF Effect
  <2>3. b = LineEnd(text, pos) /\ Mark(text, pos, LBrace) /\ b <= L BY <1>4, <1>9
  <2>4. PastLine(q) /\ q \in Nat /\ q >= 1 /\ q >= b + 1 BY <2>3, PastLineIs
  <2> HIDE DEF q
  <2>5. CASE is_annotation(q) /\ ~is_within_type_annotation /\ Annotation(q, TRUE)
    <3>1. q \in 1..L /\ text[q] = "@" BY <2>4, <2>5, <1>1, SignIs
    <3>2. /\ q + 2 <= pos' /\ NoBreak(text, q, pos')
          /\ \/ line_annotation' = TRUE /\ tokens' = Append(tokens, SignAt(q))
             \/ annotation_depth < 0 /\ line_annotation' = FALSE /\ tokens' = Append(tokens, SignAt(q))
             \/ \E type, r : FirstWord(q, type, r)
      BY <2>4, <2>5, BlockAnnotates
    <3>3. q \in b + 1..L BY <2>4, <3>1, <1>5
    <3>4. AnnotatesBlock BY <2>2, <2>3, <2>4, <2>5, <3>1, <3>2, <3>3 DEF AnnotatesBlock
    <3> QED BY <3>4 DEF CommentMove
  <2>6. CASE pos' = q /\ UNCHANGED <<tokens, line_annotation, annotation_depth>>
    <3>1. Enters BY <2>2, <2>3, <2>4, <2>6 DEF Enters
    <3> QED BY <3>1 DEF CommentMove
  <2> QED BY <2>1, <2>5, <2>6 DEF Effect
<1>10. CASE ~starts /\ ends
  <2> DEFINE q == consume_whitespace(b)
  <2>1. Effect(q, FALSE, TRUE) BY <1>3, <1>10 DEF Behind
  <2>2. /\ comment_depth' = comment_depth - 1 /\ annotation_depth <= 0 /\ pos' = q
        /\ UNCHANGED <<tokens, line_annotation, annotation_depth>>
    BY <2>1 DEF Effect
  <2>3. b = LineEnd(text, pos) /\ Mark(text, pos, RBrace) /\ comment_depth > 0 BY <1>4, <1>10
  <2>4. PastLine(q) BY <2>3, PastLineIs
  <2>5. ~(annotation_depth > 0)
    <3>1. annotation_depth <= 0 BY <2>2
    <3> QED BY <3>1, <1>1
  <2>6. Leaves BY <2>2, <2>3, <2>4, <2>5 DEF Leaves
  <2> QED BY <2>6 DEF CommentMove
<1> QED BY <1>6, <1>8, <1>9, <1>10

(* What is passed over: a unit that is no token, or one of a comment block.    *)
Idles ==
  /\ UNCHANGED <<tokens, line_annotation, comment_depth, annotation_depth>>
  /\ pos' = pos + 1 /\ text[pos] /= "%"
  /\ text[pos] \in Letters \cup {"newline"} => comment_depth > 0 /\ ~is_within_type_annotation

(* A token holds every letter that is passed, and every % in a literal.        *)
Holds(k, p, q) ==
  /\ p <= k.at /\ k.at <= k.upto /\ k.upto <= q
  /\ \A r \in p..q - 1 :
       /\ text[r] \in Letters => r \in k.at..k.upto - 1
       /\ text[r] = "%" => IsLiteral(k) /\ r \in k.at..k.upto - 1

CodeRead == comment_depth <= 0 \/ is_within_type_annotation

AddsOnLine ==
  /\ CodeRead /\ UNCHANGED <<line_annotation, comment_depth>>
  /\ annotation_depth' > 0 => annotation_depth > 0
  /\ text[pos] \notin Blank \cup {"newline", "%"}
  /\ pos < pos' /\ NoBreak(text, pos, pos')
  /\ \E k \in Tok : tokens' = Append(tokens, k) /\ k.type /= "@T" /\ Holds(k, pos, pos')

AddsLine ==
  /\ CodeRead /\ line_annotation' = FALSE /\ UNCHANGED <<comment_depth, annotation_depth>>
  /\ text[pos] = "newline" /\ pos' = pos + 1
  /\ tokens' = Append(tokens, Token(IF line_annotation THEN "end_type" ELSE "newline", pos, pos'))

CodeMove == Idles \/ AddsOnLine \/ AddsLine

Clean(p, q) == \A r \in p..q - 1 : text[r] \notin {"%", "newline"}

LEMMA Cleans ==
  ASSUME NEW p \in Nat, NEW q \in Nat, NEW r \in Nat
  PROVE  /\ Clean(p, q) /\ Clean(q, r) => Clean(p, r)
         /\ text[p] \notin {"%", "newline"} => Clean(p, p + 1)
<1>1. \A x \in p..r - 1 : x \in p..q - 1 \/ x \in q..r - 1 OBVIOUS
<1>2. \A x \in p..p + 1 - 1 : x = p OBVIOUS
<1> QED BY <1>1, <1>2 DEF Clean

LEMMA SkipsClean ==
  ASSUME text \in Seq(Units), NEW set, "newline" \notin set, "%" \notin set, NEW p \in 1..Len(text) + 1
  PROVE  /\ Skip(p, set) \in p..Len(text) + 1 /\ Clean(p, Skip(p, set))
         /\ p <= Len(text) /\ Char(p) \in set => Skip(p, set) >= p + 1
<1>1. Len(text) \in Nat BY CharIs
<1>2. p \in Nat /\ p >= 1 BY <1>1
<1>3. p <= Len(text) /\ Char(p) \in set => Skip(p, set) >= p + 1 BY <1>2, SkipIs
<1>4. /\ Skip(p, set) \in p..Len(text) + 1
      /\ \A r \in p..Skip(p, set) - 1 : text[r] = Char(r) /\ Char(r) \in set
  BY SkipsLine
<1>5. Clean(p, Skip(p, set)) BY <1>4 DEF Clean
<1> QED BY <1>3, <1>4, <1>5

LEMMA NumberIs ==
  ASSUME text \in Seq(Units), NEW p \in 1..Len(text),
         Char(p) \in Digits \/ (Char(p) = "." /\ Char(p + 1) \in Digits)
  PROVE  number_literal_end(p) \in p + 1..Len(text) + 1 /\ Clean(p, number_literal_end(p))
<1> DEFINE L == Len(text)
           q == Skip(p, Digits)
           dotted == IF Char(q) = "." THEN Skip(q + 1, Digits) ELSE q
           signed == IF Char(dotted + 1) \in {"+", "-"} THEN 2 ELSE 1
           from == IF dotted + signed > L THEN L + 1 ELSE dotted + signed
           exponent == IF Char(dotted) = "e" THEN Skip(from, Digits) ELSE dotted
           n == number_literal_end(p)
<1>1. /\ L \in Nat /\ \A r : Char(r) /= "null" => r \in 1..L /\ Char(r) = text[r]
      /\ p \in Nat /\ p >= 1 /\ p \in 1..L + 1 /\ p <= L
  BY CharIs
<1>2. n = IF Char(exponent) = "i" THEN exponent + 1 ELSE exponent BY DEF number_literal_end
<1>3. ASSUME NEW r \in 1..L + 1
      PROVE  /\ Skip(r, Digits) \in r..L + 1 /\ Clean(r, Skip(r, Digits))
             /\ r <= L /\ Char(r) \in Digits => Skip(r, Digits) >= r + 1
  BY SkipsClean, SetsOfALine
<1>4. ASSUME NEW r, Char(r) \in {".", "e", "+", "-", "i"}
      PROVE  r \in 1..L /\ r \in Nat /\ r + 1 \in 1..L + 1 /\ Clean(r, r + 1)
  <2>1. Char(r) /= "null" BY <1>4
  <2>2. r \in 1..L /\ text[r] = Char(r) BY <2>1, <1>1
  <2>3. text[r] \notin {"%", "newline"} BY <2>2, <1>4
  <2>4. r \in Nat /\ r + 1 \in 1..L + 1 BY <2>2, <1>1
  <2> QED BY <2>2, <2>3, <2>4, Cleans
<1> HIDE DEF L
<1>5. q \in p..L + 1 /\ Clean(p, q) /\ (Char(p) \in Digits => q >= p + 1) BY <1>1, <1>3
<1>6. q \in Nat /\ q \in 1..L + 1 BY <1>1, <1>5
<1>7. Char(p) = "." /\ Char(p + 1) \in Digits => q = p
  <2> SUFFICES ASSUME Char(p) = "." PROVE q = p OBVIOUS
  <2>1. "." \notin Digits BY DEF Digits
  <2>2. \A r \in p..q - 1 : Char(r) \in Digits BY <1>1, SkipIs
  <2>3. ~(q > p)
    <3> SUFFICES ASSUME q > p PROVE FALSE OBVIOUS
    <3>1. p \in p..q - 1 BY <1>1, <1>6
    <3> QED BY <3>1, <2>1, <2>2
  <2> HIDE DEF q
  <2> QED BY <2>3, <1>1, <1>5
<1> HIDE DEF q
<1>8. dotted \in p + 1..L + 1 /\ Clean(p, dotted)
  <2>1. CASE Char(q) = "."
    <3>1. q \in 1..L /\ q + 1 \in 1..L + 1 /\ Clean(q, q + 1) BY <2>1, <1>4
    <3>2. Skip(q + 1, Digits) \in q + 1..L + 1 /\ Clean(q + 1, Skip(q + 1, Digits)) BY <3>1, <1>3
    <3>3. dotted = Skip(q + 1, Digits) BY <2>1
    <3> HIDE DEF dotted
    <3>4. dotted \in Nat /\ q + 1 \in Nat /\ dotted \in p + 1..L + 1 BY <3>2, <3>3, <1>1, <1>5, <1>6
    <3>5. Clean(p, q + 1) BY <3>1, <3>4, <1>1, <1>5, <1>6, Cleans
    <3>6. Clean(p, dotted) BY <3>2, <3>3, <3>4, <3>5, <1>1, Cleans
    <3> QED BY <3>4, <3>6
  <2>2. CASE Char(q) /= "."
    <3>1. dotted = q BY <2>2
    <3>2. q >= p + 1 BY <2>2, <1>5, <1>7
    <3> QED BY <3>1, <3>2, <1>1, <1>5, <1>6
  <2> QED BY <2>1, <2>2
<1> HIDE DEF dotted
<1>9. dotted \in Nat /\ dotted \in 1..L + 1 BY <1>1, <1>8
<1>10. exponent \in p + 1..L + 1 /\ Clean(p, exponent)
  <2>1. CASE Char(dotted) = "e"
    <3>1. dotted \in 1..L /\ dotted + 1 \in 1..L + 1 /\ Clean(dotted, dotted + 1) BY <2>1, <1>4
    <3>2. dotted + signed \in dotted + 1..L + 1 /\ Clean(dotted, dotted + signed)
      <4>1. CASE Char(dotted + 1) \in {"+", "-"}
        <5>1. signed = 2 BY <4>1
        <5>2. dotted + 1 \in 1..L /\ dotted + 1 + 1 \in 1..L + 1 /\ Clean(dotted + 1, dotted + 1 + 1)
          BY <4>1, <1>4
        <5>3. dotted + 1 + 1 = dotted + 2 /\ dotted + 1 \in Nat /\ dotted + 2 \in Nat BY <1>9
        <5>4. Clean(dotted, dotted + 2) BY <5>2, <5>3, <3>1, <1>9, Cleans
        <5> HIDE DEF signed
        <5> QED BY <5>1, <5>2, <5>3, <5>4, <1>9, <1>1
      <4>2. CASE Char(dotted + 1) \notin {"+", "-"}
        <5>1. signed = 1 BY <4>2
        <5> HIDE DEF signed
        <5> QED BY <5>1, <3>1, <1>9, <1>1
      <4> QED BY <4>1, <4>2
    <3>3. from = dotted + signed
      <4>1. dotted + signed <= L + 1 /\ dotted + signed \in Nat BY <3>2, <1>1, <1>9
      <4> HIDE DEF signed
      <4> QED BY <4>1, <1>1
    <3> HIDE DEF from, signed
    <3>4. from \in dotted + 1..L + 1 /\ from \in Nat /\ from \in 1..L + 1 BY <3>2, <3>3, <1>1, <1>9
    <3>5. Clean(p, from) BY <3>2, <3>3, <3>4, <1>1, <1>8, <1>9, Cleans
    <3>6. Skip(from, Digits) \in from..L + 1 /\ Clean(from, Skip(from, Digits)) BY <3>4, <1>3
    <3>7. exponent = Skip(from, Digits) BY <2>1
    <3> HIDE DEF exponent
    <3>8. exponent \in p + 1..L + 1 /\ exponent \in Nat BY <3>4, <3>6, <3>7, <1>1, <1>8, <1>9
    <3>9. Clean(p, exponent) BY <3>4, <3>5, <3>6, <3>7, <3>8, <1>1, Cleans
    <3> QED BY <3>8, <3>9
  <2>2. CASE Char(dotted) /= "e" BY <2>2, <1>8
  <2> QED BY <2>1, <2>2
<1> HIDE DEF exponent, n
<1>11. exponent \in Nat BY <1>1, <1>10
<1>12. CASE Char(exponent) = "i"
  <2>1. exponent \in 1..L /\ Clean(exponent, exponent + 1) BY <1>4, <1>12
  <2>2. exponent + 1 \in Nat /\ exponent + 1 \in p + 1..L + 1 BY <2>1, <1>1, <1>10, <1>11
  <2>3. Clean(p, exponent + 1) BY <2>1, <2>2, <1>1, <1>10, <1>11, Cleans
  <2> QED BY <2>2, <2>3, <1>2, <1>12 DEF n, L
<1>13. CASE Char(exponent) /= "i" BY <1>2, <1>10, <1>13 DEF n, L
<1> QED BY <1>12, <1>13

(* A token of all the units that are passed.                                     *)
LEMMA PlainAdds ==
  ASSUME Shape, pos \in 1..Len(text), CodeRead, UNCHANGED <<line_annotation, comment_depth>>,
         annotation_depth' > 0 => annotation_depth > 0,
         NEW type \in TokenTypes, type /= "@T", NEW q \in pos + 1..Len(text) + 1, Emit(type, pos, q),
         text[pos] \notin Blank, Clean(pos, q)
  PROVE  AddsOnLine
<1> DEFINE k == Token(type, pos, q)
<1>1. pos \in Nat /\ q \in Nat /\ pos < q /\ pos' = q /\ tokens' = Append(tokens, k) /\ Len(text) \in Nat
  <2>1. Len(text) \in Nat BY CharIs DEF Shape
  <2> QED BY <2>1 DEF Emit
<1>2. k \in Tok /\ k.type = type /\ k.at = pos /\ k.upto = q BY <1>1, TokenMade
<1> HIDE DEF k
<1>3. Holds(k, pos, q)
  <2>1. pos <= pos /\ pos <= q /\ q <= q BY <1>1
  <2> QED BY <2>1, <1>2 DEF Holds, Clean
<1>4. text[pos] \notin {"newline", "%"}
  <2>1. pos \in pos..q - 1 BY <1>1
  <2> QED BY <2>1 DEF Clean
<1>5. NoBreak(text, pos, q) BY DEF Clean, NoBreak
<1>6. \E t \in Tok : tokens' = Append(tokens, t) /\ t.type /= "@T" /\ Holds(t, pos, pos')
  BY <1>1, <1>2, <1>3
<1> QED BY <1>1, <1>4, <1>5, <1>6 DEF AddsOnLine

LEMMA WordDepths ==
  ASSUME NEW w, NEW c, NEW line \in BOOLEAN, NEW block \in Int, WordSays(w, c, line, block), w.error = ""
  PROVE  w.block > 0 => block > 0
<1>1. CASE \E type, k : IsWord(w, type, block, k) BY <1>1 DEF IsWord
<1>2. CASE block > 0 BY <1>2
<1>3. CASE (line \/ block > 0) /\ ~line BY <1>3
<1> QED BY <1>1, <1>2, <1>3 DEF WordSays

LEMMA WordMoves ==
  ASSUME Shape, pos \in 1..Len(text), CodeRead, IdentifierOrKeyword, errors' = {}
  PROVE  AddsOnLine
<1> DEFINE L == Len(text)
           w == Word(pos, line_annotation, annotation_depth)
<1>1. /\ L \in Nat /\ DOMAIN text = 1..L /\ text \in Seq(Units) /\ line_annotation \in BOOLEAN
      /\ annotation_depth \in Int /\ keywords \in Keywords
  BY CharIs DEF Shape
<1>2. pos \in DOMAIN text /\ Char(pos) = text[pos] /\ text[pos] \in Letters
  BY <1>1 DEF IdentifierOrKeyword, Char
<1>3. /\ annotation_depth' = w.block
      /\ w.error = "" /\ Emit(w.type, pos, w.upto)
      /\ UNCHANGED <<line_annotation, comment_depth>>
  BY DEF IdentifierOrKeyword, Fail
<1>4. /\ w.upto \in pos + 1..L + 1 /\ w.upto = Skip(pos, Letters \cup Digits)
      /\ WordSays(w, text[pos], line_annotation, annotation_depth)
  BY <1>1, <1>2, WordIs
<1>5. Clean(pos, w.upto)
  <2>1. pos \in 1..L + 1 BY <1>1
  <2>2. Clean(pos, Skip(pos, Letters \cup Digits)) BY <2>1, <1>1, SkipsClean, SetsOfALine
  <2> QED BY <2>2, <1>4
<1> HIDE DEF w
<1>6. w.type \in TokenTypes /\ w.type /= "@T"
  <2>1. w.type \in WordTypes BY <1>1, <1>3, <1>4, WordTypeIs
  <2> QED BY <2>1, <1>1, <1>3, <1>4, WordTyped, WordTypesAre
<1>7. annotation_depth' > 0 => annotation_depth > 0 BY <1>1, <1>3, <1>4, WordDepths
<1>8. text[pos] \notin Blank
  <2>1. Blank \subseteq NoLetters BY DEF NoLetters
  <2> QED BY <2>1, <1>2, TextsAssumption
<1> QED BY <1>3, <1>4, <1>5, <1>6, <1>7, <1>8, PlainAdds

LEMMA NumberMoves ==
  ASSUME Shape, pos \in 1..Len(text), CodeRead, NumberLiteral
  PROVE  AddsOnLine
<1> DEFINE n == number_literal_end(pos)
<1>1. /\ text \in Seq(Units) /\ Char(pos) = text[pos] BY CharIs DEF Shape, Char
<1>2. /\ Char(pos) \in Digits \/ (Char(pos) = "." /\ Char(pos + 1) \in Digits)
      /\ Emit("number", pos, n) /\ UNCHANGED <<line_annotation, comment_depth, annotation_depth>>
  BY DEF NumberLiteral
<1>3. n \in pos + 1..Len(text) + 1 /\ Clean(pos, n) BY <1>1, <1>2, NumberIs
<1>4. "number" \in TokenTypes BY DEF TokenTypes
<1>5. text[pos] \notin Blank BY <1>1, <1>2 DEF Digits, Blank
<1> HIDE DEF n
<1> QED BY <1>2, <1>3, <1>4, <1>5, PlainAdds

LEMMA SymbolMoves ==
  ASSUME Shape, pos \in 1..Len(text), CodeRead, Symbol, errors' = {}
  PROVE  AddsOnLine
<1> DEFINE L == Len(text)
           c == Char(pos)
           two == Doubled(pos) /= {}
           q == IF two THEN pos + 2 ELSE pos + 1
           type == IF two THEN (CHOOSE s \in Doubled(pos) : TRUE)[3] ELSE c
<1>1. /\ L \in Nat /\ pos \in Nat /\ pos >= 1 /\ c = text[pos]
      /\ \A p : Char(p) /= "null" => p \in 1..L /\ Char(p) = text[p]
  BY CharIs DEF Shape, Char
<1>2. /\ c \in Symbols /\ Emit(type, pos, q)
      /\ UNCHANGED <<line_annotation, comment_depth, annotation_depth>>
  BY DEF Symbol, Fail
<1>3. c \notin Blank \cup {"%", "newline"} BY <1>2 DEF Symbols, Blank
<1>4. Clean(pos, pos + 1) BY <1>1, <1>3, Cleans
<1>5. ASSUME two
      PROVE  /\ type \in {s[3] : s \in DoubledSymbols} /\ pos + 1 \in 1..L /\ Clean(pos, pos + 2)
  <2> DEFINE s == CHOOSE s \in Doubled(pos) : TRUE
  <2>1. s \in Doubled(pos) BY <1>5
  <2>2. type = s[3] BY <1>5
  <2>3. s \in DoubledSymbols /\ s[2] = Char(pos + 1)
    <3> HIDE DEF s
    <3> QED BY <2>1 DEF Doubled
  <2> HIDE DEF s, type
  <2>4. \A t \in DoubledSymbols : t[2] \notin {"null", "%", "newline"} BY DEF DoubledSymbols
  <2>5. pos + 1 \in 1..L /\ text[pos + 1] \notin {"%", "newline"} BY <2>3, <2>4, <1>1
  <2>6. pos + 1 \in Nat /\ pos + 1 + 1 \in Nat /\ pos + 1 + 1 = pos + 2 BY <1>1
  <2>7. Clean(pos + 1, pos + 1 + 1) BY <2>5, <2>6, Cleans
  <2>8. Clean(pos, pos + 2) BY <2>6, <2>7, <1>1, <1>4, Cleans
  <2> QED BY <2>2, <2>3, <2>5, <2>8
<1>6. ~two => type = c OBVIOUS
<1>7. type \in Symbols \cup {s[3] : s \in DoubledSymbols}
  <2> HIDE DEF type, two
  <2> QED BY <1>2, <1>5, <1>6
<1>8. q \in pos + 1..L + 1 /\ Clean(pos, q)
  <2> HIDE DEF two
  <2> QED BY <1>1, <1>4, <1>5
<1> HIDE DEF type, two, q, c
<1>9. type \in TokenTypes BY <1>7 DEF TokenTypes
<1>10. type /= "@T" BY <1>7, SymbolsAre
<1> QED BY <1>1, <1>2, <1>3, <1>8, <1>9, <1>10, PlainAdds

(* The quotes, kept unexpanded: the SMT encoding cannot read them.              *)
Quotes == {"\"", "'"}

LEMMA QuotesAre == Quotes \subseteq NoLetters /\ Quotes \cap (Blank \cup {"newline", "%", "null"}) = {}
<1>1. \A q \in Quotes : q \in NoLetters BY Zenon DEF Quotes, NoLetters, Symbols
<1>2. \A q \in Quotes : q \notin Blank /\ q \notin {"newline", "%", "null"} BY Zenon DEF Quotes, Blank
<1> QED BY <1>1, <1>2

LEMMA LiteralMoves ==
  ASSUME Shape, pos \in 1..Len(text), CodeRead, NEW type \in {"string", "char"}, Literal(type),
         text[pos] \in Quotes, errors' = {}, Conforming(text, tokens'),
         UNCHANGED <<line_annotation, comment_depth, annotation_depth>>
  PROVE  AddsOnLine
<1> DEFINE L == Len(text)
           stop == literal_end(pos + 1, text[pos])
           k == Token(type, pos + 1, stop)
<1>1. /\ L \in Nat /\ pos \in Nat /\ pos >= 1 /\ text \in Seq(Units) /\ tokens \in Seq(Tok)
      /\ DOMAIN text = 1..L /\ pos <= L
  BY CharIs DEF Shape
<1>2. has_next(stop) /\ tokens' = Append(tokens, k) /\ pos' = stop + 1 BY DEF Literal, Fail
<1>3. /\ stop \in pos + 1..L + 1
      /\ stop <= L => Char(stop) = text[pos]
  <2>1. pos + 1 \in Nat /\ pos + 1 >= 1 /\ pos + 1 <= L + 1 /\ text[pos] /= "null" BY <1>1, QuotesAre
  <2> QED BY <2>1, <1>1, LiteralEndIs
<1> HIDE DEF stop
<1>4. stop <= L /\ stop \in Nat /\ stop \in DOMAIN text /\ pos + 1 \in Nat BY <1>1, <1>2, <1>3 DEF has_next
<1>5. text[stop] = text[pos] BY <1>3, <1>4 DEF Char
<1>6. type \in TokenTypes BY DEF TokenTypes
<1>7. k \in Tok /\ k.type = type /\ k.at = pos + 1 /\ k.upto = stop /\ IsLiteral(k)
  BY <1>4, <1>6, TokenMade DEF IsLiteral
<1> HIDE DEF k
<1>8. \A r \in pos..pos' - 1 : r = pos \/ r = stop \/ r \in k.at..k.upto - 1
  <2>1. k.at..k.upto - 1 = pos + 1..stop - 1 BY <1>7
  <2>2. \A r \in pos..stop + 1 - 1 : r = pos \/ r = stop \/ r \in pos + 1..stop - 1 BY <1>1, <1>4
  <2>3. ASSUME NEW r \in pos..pos' - 1 PROVE r = pos \/ r = stop \/ r \in k.at..k.upto - 1
    <3>1. pos' = stop + 1 BY <1>2
    <3>2. r \in pos..stop + 1 - 1 BY <2>3, <3>1, <1>1, <1>4
    <3> QED BY <2>1, <2>2, <3>2
  <2> QED BY <2>3
<1>9. text[pos] \notin Blank \cup {"newline", "%"} /\ text[pos] \notin Letters
  <2> QED BY QuotesAre, TextsAssumption
<1>10. ASSUME NEW r \in k.at..k.upto - 1 PROVE text[r] /= "newline"
  <2>1. /\ Len(tokens') = Len(tokens) + 1 /\ tokens'[Len(tokens) + 1] = k /\ Len(tokens) \in Nat
    BY <1>1, <1>2, <1>7, Appended
  <2>2. Len(tokens) + 1 \in 1..Len(tokens') BY <2>1
  <2>3. WithinLiteral(tokens', r) BY <2>1, <2>2, <1>7, <1>10 DEF WithinLiteral
  <2>4. r \in 1..L BY <1>1, <1>4, <1>7, <1>10
  <2> QED BY <2>3, <2>4 DEF Conforming
<1>11. NoBreak(text, pos, pos') BY <1>5, <1>8, <1>9, <1>10 DEF NoBreak
<1>12. Holds(k, pos, pos')
  <2>1. pos <= k.at /\ k.at <= k.upto /\ k.upto <= pos' BY <1>1, <1>2, <1>3, <1>4, <1>7
  <2> QED BY <2>1, <1>5, <1>7, <1>8, <1>9 DEF Holds
<1>13. pos < pos' BY <1>1, <1>2, <1>3, <1>4
<1>14. k.type /= "@T" BY <1>7
<1>15. \E t \in Tok : tokens' = Append(tokens, t) /\ t.type /= "@T" /\ Holds(t, pos, pos')
  BY <1>2, <1>7, <1>12, <1>14
<1> QED BY <1>9, <1>11, <1>13, <1>15 DEF AddsOnLine

LEMMA CodeMoves ==
  ASSUME Shape, pos \in 1..Len(text), InsideComment \/ Code, errors' = {}, Conforming(text, tokens')
  PROVE  CodeMove
<1> DEFINE L == Len(text)
<1>1. /\ L \in Nat /\ pos \in Nat /\ Char(pos) = text[pos]
      /\ \A p : Char(p) /= "null" => p \in 1..L /\ Char(p) = text[p]
  BY CharIs DEF Shape, Char
<1>2. CASE InsideComment
  <2>1. Idles BY <1>1, <1>2 DEF InsideComment, Idles
  <2> QED BY <2>1 DEF CodeMove
<1>3. Code => CodeRead BY DEF Code, CodeRead
<1>4. CASE Code /\ IdentifierOrKeyword BY <1>3, <1>4, WordMoves DEF CodeMove
<1>5. CASE Code /\ NumberLiteral BY <1>3, <1>5, NumberMoves DEF CodeMove
<1>6. CASE Code /\ NewLine
  <2> DEFINE type == IF line_annotation THEN "end_type" ELSE "newline"
  <2>1. /\ Char(pos) = "newline" /\ Emit(type, pos, pos + 1) /\ line_annotation' = FALSE
        /\ UNCHANGED <<comment_depth, annotation_depth>>
    BY <1>6 DEF NewLine
  <2>2. pos' = pos + 1 /\ tokens' = Append(tokens, Token(type, pos, pos')) BY <2>1 DEF Emit
  <2>3. AddsLine BY <2>1, <2>2, <1>1, <1>3, <1>6 DEF AddsLine
  <2> QED BY <2>3 DEF CodeMove
<1>7. CASE Code /\ (StringLiteral \/ CharLiteral)
  <2>1. PICK type \in {"string", "char"} : Literal(type) /\ Char(pos) \in {"\"", "'"}
    BY <1>7 DEF StringLiteral, CharLiteral
  <2>2. UNCHANGED <<line_annotation, comment_depth, annotation_depth>> BY <2>1 DEF Literal
  <2>4. text[pos] \in Quotes BY <2>1, <1>1, Zenon DEF Quotes
  <2>3. AddsOnLine BY <2>1, <2>2, <2>4, <1>1, <1>3, <1>7, LiteralMoves
  <2> QED BY <2>3 DEF CodeMove
<1>8. CASE Code /\ Ellipsis
  <2>1. Char(pos) = "." /\ Char(pos + 1) = "." BY <1>8 DEF Ellipsis
  <2>2. pos + 1 \in 1..L /\ text[pos] = "." /\ text[pos + 1] = "." BY <2>1, <1>1
  <2>3. pos < L BY <2>2, <1>1
  <2> QED BY <2>2, <2>3 DEF Conforming
<1>9. CASE Code /\ Nothing
  <2>1. Char(pos) \notin Letters \cup Digits \cup {"%", "newline", "\""} /\ pos' = pos + 1
    BY <1>9 DEF Nothing, IsLiteralStart
  <2>2. UNCHANGED <<tokens, line_annotation, comment_depth, annotation_depth>> BY <1>9 DEF Nothing
  <2>3. Idles BY <2>1, <2>2, <1>1 DEF Idles
  <2> QED BY <2>3 DEF CodeMove
<1>10. CASE Code /\ Symbol BY <1>3, <1>10, SymbolMoves DEF CodeMove
<1> QED BY <1>2, <1>4, <1>5, <1>6, <1>7, <1>8, <1>9, <1>10 DEF Code

------------------------------------------------------------------------------
(* What does not change when tokens are added behind a position.               *)

Grows(l, m, p) ==
  /\ l \in Seq(Tok) /\ m \in Seq(Tok) /\ Len(l) <= Len(m)
  /\ \A i \in 1..Len(l) : m[i] = l[i] /\ l[i].upto <= p
  /\ \A i \in Len(l) + 1..Len(m) : m[i].at >= p

LEMMA GrowsIs ==
  ASSUME NEW l, NEW m, NEW p, Grows(l, m, p)
  PROVE  /\ Len(l) \in Nat /\ Len(m) \in Nat /\ Len(l) <= Len(m)
         /\ \A i \in 1..Len(l) : i \in 1..Len(m) /\ m[i] = l[i] /\ l[i] \in Tok /\ l[i].upto <= p
         /\ \A i \in 1..Len(m) : m[i] \in Tok /\ (i \in 1..Len(l) \/ (i \in Len(l) + 1..Len(m) /\ m[i].at >= p))
<1>1. /\ l \in Seq(Tok) /\ m \in Seq(Tok) /\ Len(l) <= Len(m)
      /\ \A i \in 1..Len(l) : m[i] = l[i] /\ l[i].upto <= p
      /\ \A i \in Len(l) + 1..Len(m) : m[i].at >= p
  BY DEF Grows
<1>2. Len(l) \in Nat /\ Len(m) \in Nat BY <1>1, LenProperties
<1>3. \A i \in 1..Len(l) : l[i] \in Tok BY <1>1, ElementOfSeq
<1>4. \A i \in 1..Len(m) : m[i] \in Tok BY <1>1, ElementOfSeq
<1>5. \A i \in 1..Len(l) : i \in 1..Len(m) BY <1>1, <1>2
<1>6. \A i \in 1..Len(m) : i \in 1..Len(l) \/ i \in Len(l) + 1..Len(m) BY <1>2
<1> QED BY <1>1, <1>2, <1>3, <1>4, <1>5, <1>6

LEMMA GrowsStill ==
  ASSUME NEW l \in Seq(Tok), NEW p, \A i \in 1..Len(l) : l[i].upto <= p
  PROVE  Grows(l, l, p)
<1>1. Len(l) \in Nat BY LenProperties
<1>2. Len(l) <= Len(l) /\ Len(l) + 1..Len(l) = {} BY <1>1
<1> QED BY <1>2 DEF Grows

LEMMA GrowsOne ==
  ASSUME NEW l, NEW m, NEW p \in Nat, Grows(l, m, p), NEW k \in Tok, k.at >= p
  PROVE  Grows(l, Append(m, k), p)
<1> DEFINE r == Append(m, k)
<1>1. /\ l \in Seq(Tok) /\ m \in Seq(Tok) /\ Len(l) \in Nat /\ Len(m) \in Nat /\ Len(l) <= Len(m)
      /\ \A i \in 1..Len(l) : i \in 1..Len(m) /\ m[i] = l[i] /\ l[i].upto <= p
      /\ \A i \in Len(l) + 1..Len(m) : m[i].at >= p
  BY GrowsIs DEF Grows
<1>2. r \in Seq(Tok) /\ Len(r) = Len(m) + 1 /\ r[Len(m) + 1] = k /\ \A i \in 1..Len(m) : r[i] = m[i]
  BY <1>1, Appended
<1> HIDE DEF r
<1>3. Len(l) <= Len(r) BY <1>1, <1>2
<1>4. ASSUME NEW i \in Len(l) + 1..Len(r) PROVE r[i].at >= p
  <2>1. i = Len(m) + 1 \/ (i \in 1..Len(m) /\ i \in Len(l) + 1..Len(m)) BY <1>1, <1>2
  <2> QED BY <2>1, <1>1, <1>2
<1> QED BY <1>1, <1>2, <1>3, <1>4 DEF Grows, r

LEMMA LiteralsGrown ==
  ASSUME NEW l, NEW m, NEW p \in Nat, Grows(l, m, p), NEW r \in Int
  PROVE  /\ r < p => (WithinLiteral(m, r) <=> WithinLiteral(l, r))
         /\ WithinLiteral(l, r) => WithinLiteral(m, r)
         /\ r >= p => ~WithinLiteral(l, r)
<1>1. /\ \A i \in 1..Len(l) : i \in 1..Len(m) /\ m[i] = l[i] /\ l[i] \in Tok /\ l[i].upto <= p
      /\ \A i \in 1..Len(m) : m[i] \in Tok /\ (i \in 1..Len(l) \/ m[i].at >= p)
  BY GrowsIs
<1>2. WithinLiteral(l, r) => WithinLiteral(m, r) BY <1>1 DEF WithinLiteral
<1>3. ASSUME r < p, NEW i \in 1..Len(m), r \in m[i].at..m[i].upto - 1
      PROVE  i \in 1..Len(l) /\ m[i] = l[i]
  <2>1. m[i].at \in Nat /\ m[i].upto \in Nat BY <1>1, TokenFields
  <2>2. ~(m[i].at >= p) BY <1>3, <2>1
  <2> QED BY <2>2, <1>1
<1>4. r < p /\ WithinLiteral(m, r) => WithinLiteral(l, r) BY <1>3 DEF WithinLiteral
<1>5. ASSUME r >= p, NEW i \in 1..Len(l), r \in l[i].at..l[i].upto - 1 PROVE FALSE
  <2>1. l[i].at \in Nat /\ l[i].upto \in Nat /\ l[i].upto <= p BY <1>1, TokenFields
  <2> QED BY <2>1, <1>5
<1>6. r >= p => ~WithinLiteral(l, r) BY <1>5 DEF WithinLiteral
<1> QED BY <1>2, <1>4, <1>6

LEMMA CommentedGrown ==
  ASSUME NEW t, NEW l, NEW m, NEW p \in Nat, Grows(l, m, p), NEW q \in 1..p
  PROVE  Commented(t, m, q) <=> Commented(t, l, q)
<1>1. LineStart(t, q) \in 1..q
  <2>1. q \in Nat /\ q >= 1 BY DEF StartsAt
  <2> QED BY <2>1, StartIs DEF StartsAt
<1>2. \A r \in LineStart(t, q)..q - 1 : r \in Int /\ r < p BY <1>1
<1>3. \A r \in LineStart(t, q)..q - 1 : WithinLiteral(m, r) <=> WithinLiteral(l, r)
  BY <1>2, LiteralsGrown
<1> QED BY <1>3 DEF Commented

LEMMA ConformingGrown ==
  ASSUME NEW t, NEW l, NEW m, NEW p \in Nat, Grows(l, m, p), Conforming(t, m)
  PROVE  Conforming(t, l)
<1>1. \A r \in 1..Len(t) : WithinLiteral(l, r) => WithinLiteral(m, r) BY LiteralsGrown
<1> QED BY <1>1 DEF Conforming

CoveredBy(list, r) == \E i \in 1..Len(list) : r \in list[i].at..list[i].upto - 1
KeptAt(t, list, r) == t[r] \in Words /\ Blocks(t)[r] = 0 /\ ~Commented(t, list, r) => CoveredBy(list, r)
OneLine(t, k) == k.at >= 1 /\ (k.type \in {"newline", "end_type"} \/ NoBreak(t, k.at, k.upto))

LEMMA KeptGrown ==
  ASSUME NEW t, NEW l, NEW m, NEW p \in Nat, Grows(l, m, p), NEW r \in 1..p, KeptAt(t, l, r)
  PROVE  KeptAt(t, m, r)
<1>1. CoveredBy(l, r) => CoveredBy(m, r)
  <2>1. \A i \in 1..Len(l) : i \in 1..Len(m) /\ m[i] = l[i] BY GrowsIs
  <2> QED BY <2>1 DEF CoveredBy
<1>2. Commented(t, m, r) <=> Commented(t, l, r) BY CommentedGrown
<1> QED BY <1>1, <1>2 DEF KeptAt

(* The scanner is where the lines say it is.                                     *)
Abreast(t, list, p, d, line, a) ==
  /\ p <= Len(t) => Fits(t, p, d)
  /\ \A r \in 1..p - 1 : KeptAt(t, list, r)
  /\ a > 0 => d > 0
  /\ p <= Len(t) /\ t[p] /= "newline" /\ Commented(t, list, p) => line \/ d > 0
  /\ \A i \in 1..Len(list) : OneLine(t, list[i])

(* It stays there if it is at the new position and has kept what it passed.    *)
Keeping(t, l, m, p, q, d, line, a) ==
  /\ q <= Len(t) => Fits(t, q, d)
  /\ \A r \in p..q - 1 : KeptAt(t, m, r)
  /\ a > 0 => d > 0
  /\ q <= Len(t) /\ t[q] /= "newline" /\ Commented(t, m, q) => line \/ d > 0
  /\ \A i \in Len(l) + 1..Len(m) : OneLine(t, m[i])

LEMMA AbreastBy ==
  ASSUME NEW t, Len(t) \in Nat, NEW l, NEW m, NEW p \in Nat, p >= 1, NEW q \in p..Len(t) + 1, Grows(l, m, p),
         NEW d, NEW line, NEW a, Abreast(t, l, p, d, line, a),
         NEW d2, NEW line2, NEW a2, Keeping(t, l, m, p, q, d2, line2, a2)
  PROVE  Abreast(t, m, q, d2, line2, a2)
<1>1. ASSUME NEW r \in 1..q - 1 PROVE KeptAt(t, m, r)
  <2>1. (r \in 1..p - 1 /\ r \in 1..p) \/ r \in p..q - 1 OBVIOUS
  <2>2. CASE r \in 1..p - 1 /\ r \in 1..p
    <3>1. KeptAt(t, l, r) BY <2>2 DEF Abreast
    <3> QED BY <3>1, <2>2, KeptGrown
  <2>3. CASE r \in p..q - 1 BY <2>3 DEF Keeping
  <2> QED BY <2>1, <2>2, <2>3
<1>2. ASSUME NEW i \in 1..Len(m) PROVE OneLine(t, m[i])
  <2>1. (i \in 1..Len(l) /\ m[i] = l[i]) \/ i \in Len(l) + 1..Len(m) BY GrowsIs
  <2> QED BY <2>1 DEF Abreast, Keeping
<1> QED BY <1>1, <1>2 DEF Abreast, Keeping

LEMMA WordsAre == \A c \in Words : c \in Letters /\ c \notin Blank \cup {"%", "newline"}
<1>1. Words \subseteq Letters BY DEF Letters
<1>2. Blank \subseteq NoLetters /\ {"%", "newline"} \subseteq NoLetters BY DEF NoLetters
<1> QED BY <1>1, <1>2, TextsAssumption

(* What stands behind a comment mark on its line is commented.                 *)
LEMMA BehindComment ==
  ASSUME NEW t, Len(t) \in Nat, NEW p \in 1..Len(t), t[p] = "%", NEW list, ~WithinLiteral(list, p),
         NEW r \in p + 1..Len(t) + 1, NoBreak(t, p, r)
  PROVE  Commented(t, list, r)
<1>1. LineStart(t, p) \in 1..p BY LinesOf
<1>2. LineStart(t, r) = LineStart(t, p)
  <2>1. p \in 1..Len(t) + 1 /\ r \in p..Len(t) + 1 OBVIOUS
  <2> QED BY <2>1, SameLine DEF OneLineOf
<1>3. p \in LineStart(t, r)..r - 1 BY <1>1, <1>2
<1> QED BY <1>3 DEF Commented

LEMMA CommentBefore ==
  ASSUME NEW t, Len(t) \in Nat, NEW p \in 1..Len(t), NEW q \in p..Len(t) + 1, NoBreak(t, p, q),
         NEW list, Commented(t, list, q)
  PROVE  Commented(t, list, p) \/ \E r \in p..q - 1 : t[r] = "%" /\ ~WithinLiteral(list, r)
<1>1. LineStart(t, p) \in 1..p BY LinesOf
<1>2. LineStart(t, q) = LineStart(t, p)
  <2>1. p \in 1..Len(t) + 1 OBVIOUS
  <2> QED BY <2>1, SameLine DEF OneLineOf
<1>3. PICK r \in LineStart(t, p)..q - 1 : t[r] = "%" /\ ~WithinLiteral(list, r) BY <1>2 DEF Commented
<1>4. r \in LineStart(t, p)..p - 1 \/ r \in p..q - 1 BY <1>1, <1>3
<1> QED BY <1>3, <1>4 DEF Commented

LEMMA BehindWhite ==
  ASSUME NEW t, Len(t) \in Nat, NEW e \in 1..Len(t), t[e] = "newline", NEW q \in e + 1..Len(t) + 1,
         White(t, e, q), NEW list
  PROVE  ~Commented(t, list, q)
<1> DEFINE s == LineStart(t, q)
<1>1. q \in Nat /\ q >= 1 OBVIOUS
<1>2. s \in 1..q /\ NoBreak(t, s, q) BY <1>1, StartIs DEF StartsAt
<1> HIDE DEF s
<1>3. ~(s <= e)
  <2>1. s <= e => e \in s..q - 1 BY <1>2
  <2> QED BY <2>1, <1>2 DEF NoBreak
<1>4. \A r \in s..q - 1 : r \in e..q - 1 BY <1>2, <1>3
<1>5. \A r \in s..q - 1 : t[r] /= "%" BY <1>4, BracesDiffer DEF White
<1> QED BY <1>5 DEF Commented, s

Now ==
  /\ Shape /\ pos \in 1..Len(text) /\ Ordered(tokens, pos) /\ NoStrays(text)
  /\ Abreast(text, tokens, pos, comment_depth, line_annotation, annotation_depth)

Keeps1 ==
  /\ Grows(tokens, tokens', pos) /\ pos' \in pos..Len(text) + 1
  /\ Keeping(text, tokens, tokens', pos, pos', comment_depth', line_annotation', annotation_depth')

LEMMA NowIs ==
  ASSUME Now
  PROVE  /\ Len(text) \in Nat /\ pos \in Nat /\ pos >= 1 /\ pos \in 1..Len(text) /\ pos <= Len(text)
         /\ Fits(text, pos, comment_depth)
         /\ comment_depth \in Nat /\ annotation_depth \in Int /\ line_annotation \in BOOLEAN
         /\ tokens \in Seq(Tok) /\ Len(tokens) \in Nat /\ Grows(tokens, tokens, pos)
         /\ annotation_depth > 0 => comment_depth > 0
         /\ text[pos] /= "newline" /\ Commented(text, tokens, pos) => line_annotation \/ comment_depth > 0
         /\ ~WithinLiteral(tokens, pos) /\ NoStrays(text)
<1>1. /\ Len(text) \in Nat /\ pos \in 1..Len(text) /\ comment_depth \in Nat /\ annotation_depth \in Int
      /\ line_annotation \in BOOLEAN /\ tokens \in Seq(Tok) /\ NoStrays(text)
  BY CharIs DEF Now, Shape
<1>2. pos \in Nat /\ pos >= 1 /\ pos <= Len(text) /\ pos \in Int /\ pos >= pos BY <1>1
<1>3. Grows(tokens, tokens, pos) BY <1>1, GrowsStill DEF Now, Ordered
<1>4. ~WithinLiteral(tokens, pos) BY <1>2, <1>3, LiteralsGrown
<1>5. Len(tokens) \in Nat BY <1>1, LenProperties
<1> QED BY <1>1, <1>2, <1>3, <1>4, <1>5 DEF Now, Abreast

LEMMA KeptBehind ==
  ASSUME NEW t, Len(t) \in Nat, NEW p \in 1..Len(t), t[p] = "%", NEW list, ~WithinLiteral(list, p),
         NEW q \in p..Len(t) + 1, NoBreak(t, p, q)
  PROVE  \A r \in p..q - 1 : KeptAt(t, list, r)
<1> SUFFICES ASSUME NEW r \in p..q - 1 PROVE KeptAt(t, list, r) OBVIOUS
<1>1. r = p \/ (r \in p + 1..Len(t) + 1 /\ \A k \in p..r - 1 : k \in p..q - 1) OBVIOUS
<1>2. CASE r = p BY <1>2, WordsAre DEF KeptAt
<1>3. CASE r \in p + 1..Len(t) + 1 /\ \A k \in p..r - 1 : k \in p..q - 1
  <2>1. NoBreak(t, p, r) BY <1>3 DEF NoBreak
  <2> QED BY <2>1, <1>3, BehindComment DEF KeptAt
<1> QED BY <1>1, <1>2, <1>3

LEMMA NoNewTokens ==
  ASSUME Now, tokens' = tokens
  PROVE  Grows(tokens, tokens', pos) /\ \A i \in Len(tokens) + 1..Len(tokens') : FALSE
<1>1. Len(tokens) + 1..Len(tokens) = {} BY NowIs
<1> QED BY <1>1, NowIs

LEMMA CommentsKeep ==
  ASSUME Now, Comments, pos' \in pos..Len(text) + 1
  PROVE  Keeps1
<1> DEFINE L == Len(text)
<1>1. L \in Nat /\ pos \in 1..L /\ Fits(text, pos, comment_depth) /\ comment_depth \in Nat
  BY NowIs
<1>2. /\ UNCHANGED <<tokens, line_annotation, comment_depth, annotation_depth>>
      /\ text[pos] = "%" /\ ~Marked(text, pos, comment_depth) /\ NoBreak(text, pos, pos')
      /\ pos' <= L => text[pos'] = "newline"
  BY DEF Comments
<1>3. ASSUME pos' <= L PROVE Fits(text, pos', comment_depth')
  <2>1. pos' \in pos..L BY <1>1, <1>3
  <2>2. text[pos] \notin Blank BY <1>2, BracesDiffer
  <2> QED BY <2>1, <2>2, <1>1, <1>2, NowIs, FitsLine
<1>4. \A r \in pos..pos' - 1 : KeptAt(text, tokens', r) BY <1>1, <1>2, NowIs, KeptBehind
<1>5. annotation_depth' > 0 => comment_depth' > 0 BY <1>2, NowIs
<1>6. Grows(tokens, tokens', pos) /\ \A i \in Len(tokens) + 1..Len(tokens') : FALSE BY <1>2, NoNewTokens
<1> QED BY <1>2, <1>3, <1>4, <1>5, <1>6 DEF Keeps1, Keeping

(* From a mark into the white space behind its line.                            *)
LEMMA KeptPast ==
  ASSUME Now, text[pos] = "%", NEW list, ~WithinLiteral(list, pos), NEW q, PastLine(q)
  PROVE  /\ \A r \in pos..q - 1 : KeptAt(text, list, r)
         /\ q <= Len(text) => q \in LineEnd(text, pos) + 1..Len(text) /\ ~Commented(text, list, q)
<1> DEFINE L == Len(text)
           e == LineEnd(text, pos)
<1>1. /\ L \in Nat /\ pos \in 1..L /\ e \in pos..L + 1 /\ NoBreak(text, pos, e)
      /\ e <= L => text[e] = "newline"
  BY NowIs, LinesOf
<1>2. q \in e..L + 1 /\ (q <= L => q > e) /\ White(text, e, q) BY DEF PastLine
<1> HIDE DEF e
<1>3. \A r \in pos..e - 1 : KeptAt(text, list, r) BY <1>1, KeptBehind
<1>4. \A r \in e..q - 1 : KeptAt(text, list, r) BY <1>2, WordsAre DEF White, KeptAt
<1>5. \A r \in pos..q - 1 : r \in pos..e - 1 \/ r \in e..q - 1 BY <1>1, <1>2
<1>6. ASSUME q <= L PROVE q \in e + 1..L /\ ~Commented(text, list, q)
  <2>1. q \in e + 1..L /\ e \in 1..L /\ e <= L /\ q \in e + 1..L + 1 BY <1>1, <1>2, <1>6
  <2> QED BY <2>1, <1>1, <1>2, BehindWhite
<1> QED BY <1>3, <1>4, <1>5, <1>6 DEF e

LEMMA EntersKeep ==
  ASSUME Now, Enters, pos' \in pos..Len(text) + 1
  PROVE  Keeps1
<1> DEFINE L == Len(text)
<1>1. /\ L \in Nat /\ pos \in 1..L /\ Fits(text, pos, comment_depth) /\ comment_depth \in Nat
      /\ ~WithinLiteral(tokens, pos) /\ NoStrays(text)
  BY NowIs
<1>2. /\ UNCHANGED <<tokens, line_annotation, annotation_depth>>
      /\ comment_depth' = comment_depth + 1
      /\ Mark(text, pos, LBrace) /\ PastLine(pos')
  BY DEF Enters
<1>3. text[pos] = "%" BY <1>2 DEF Mark
<1>4. \A r \in pos..pos' - 1 : KeptAt(text, tokens', r) BY <1>1, <1>2, <1>3, KeptPast
<1>5. ASSUME pos' <= L PROVE Fits(text, pos', comment_depth')
  <2>1. pos' \in LineEnd(text, pos) + 1..L BY <1>1, <1>2, <1>3, <1>5, KeptPast
  <2>2. White(text, LineEnd(text, pos), pos') BY <1>2 DEF PastLine
  <2> QED BY <2>1, <2>2, <1>1, <1>2, FitsBehindMark
<1>6. comment_depth' > 0 BY <1>1, <1>2
<1>7. Grows(tokens, tokens', pos) /\ \A i \in Len(tokens) + 1..Len(tokens') : FALSE BY <1>2, NoNewTokens
<1> QED BY <1>4, <1>5, <1>6, <1>7 DEF Keeps1, Keeping

LEMMA LeavesKeep ==
  ASSUME Now, Leaves, pos' \in pos..Len(text) + 1
  PROVE  Keeps1
<1> DEFINE L == Len(text)
<1>1. /\ L \in Nat /\ pos \in 1..L /\ Fits(text, pos, comment_depth) /\ comment_depth \in Nat
      /\ ~WithinLiteral(tokens, pos) /\ NoStrays(text)
  BY NowIs
<1>2. /\ UNCHANGED <<tokens, line_annotation, annotation_depth>>
      /\ comment_depth > 0 /\ comment_depth' = comment_depth - 1 /\ ~(annotation_depth > 0)
      /\ Mark(text, pos, RBrace) /\ PastLine(pos')
  BY DEF Leaves
<1>3. text[pos] = "%" BY <1>2 DEF Mark
<1>4. \A r \in pos..pos' - 1 : KeptAt(text, tokens', r) BY <1>1, <1>2, <1>3, KeptPast
<1>5. ASSUME pos' <= L PROVE Fits(text, pos', comment_depth') /\ ~Commented(text, tokens', pos')
  <2>1. pos' \in LineEnd(text, pos) + 1..L /\ ~Commented(text, tokens', pos')
    BY <1>1, <1>2, <1>3, <1>5, KeptPast
  <2>2. White(text, LineEnd(text, pos), pos') BY <1>2 DEF PastLine
  <2> QED BY <2>1, <2>2, <1>1, <1>2, FitsBehindMark
<1>6. ~(annotation_depth' > 0) BY <1>2
<1>7. Grows(tokens, tokens', pos) /\ \A i \in Len(tokens) + 1..Len(tokens') : FALSE BY <1>2, NoNewTokens
<1> QED BY <1>4, <1>5, <1>6, <1>7 DEF Keeps1, Keeping

(* Parts of a line, and of an interval.                                          *)
LEMMA NoBreakWithin ==
  ASSUME NEW t, NEW a \in Int, NEW b \in Int, NEW c \in Int, NEW d \in Int, a <= c, d <= b, NoBreak(t, a, b)
  PROVE  NoBreak(t, c, d)
<1>1. \A r \in c..d - 1 : r \in a..b - 1 OBVIOUS
<1> QED BY <1>1 DEF NoBreak

LEMMA SplitAt ==
  ASSUME NEW p \in Int, NEW q \in Int, NEW r \in Int, NEW x \in p..r - 1
  PROVE  (x \in p..q - 1) \/ (x \in q..r - 1)
OBVIOUS

LEMMA NotBefore == ASSUME NEW a \in Int, NEW b \in Int, NEW c \in Int, a < b PROVE a \notin b..c
OBVIOUS

LEMMA InLine ==
  ASSUME NEW p \in Int, NEW q \in Int, NEW r \in p..q - 1, NEW n \in Int, q <= n + 1, p >= 1
  PROVE  p \in 1..n + 1 /\ r \in p..n + 1 /\ r \in Int /\ r <= q /\ p <= r /\ p \in 1..n
OBVIOUS

LEMMA LiteralAppended ==
  ASSUME NEW l \in Seq(Tok), NEW k \in Tok, NEW r
  PROVE  WithinLiteral(Append(l, k), r) <=> WithinLiteral(l, r) \/ (IsLiteral(k) /\ r \in k.at..k.upto - 1)
<1> DEFINE m == Append(l, k)
<1>1. Len(m) = Len(l) + 1 /\ m[Len(l) + 1] = k /\ Len(l) \in Nat /\ \A i \in 1..Len(l) : m[i] = l[i]
  BY Appended
<1> HIDE DEF m
<1>2. Len(l) + 1 \in 1..Len(m) /\ \A i \in 1..Len(l) : i \in 1..Len(m) BY <1>1
<1>3. \A i \in 1..Len(m) : i \in 1..Len(l) \/ i = Len(l) + 1 BY <1>1
<1>4. WithinLiteral(m, r) => WithinLiteral(l, r) \/ (IsLiteral(k) /\ r \in k.at..k.upto - 1)
  BY <1>1, <1>3 DEF WithinLiteral
<1>5. WithinLiteral(l, r) => WithinLiteral(m, r) BY <1>1, <1>2 DEF WithinLiteral
<1>6. IsLiteral(k) /\ r \in k.at..k.upto - 1 => WithinLiteral(m, r) BY <1>1, <1>2 DEF WithinLiteral
<1> QED BY <1>4, <1>5, <1>6 DEF m

LEMMA SignMade ==
  ASSUME NEW q \in Nat
  PROVE  /\ SignAt(q) \in Tok /\ SignAt(q).type = "@T" /\ SignAt(q).at = q /\ SignAt(q).upto = q + 2
         /\ ~IsLiteral(SignAt(q))
<1>1. "@T" \in TokenTypes BY DEF TokenTypes
<1>2. q + 2 \in Nat OBVIOUS
<1>3. SignAt(q) \in Tok /\ SignAt(q).type = "@T" /\ SignAt(q).at = q /\ SignAt(q).upto = q + 2
  BY <1>1, <1>2, TokenMade DEF SignAt
<1> QED BY <1>3 DEF IsLiteral

(* One more token on the line of the scanner, or two.                           *)
LEMMA OneMore ==
  ASSUME Now, NEW k \in Tok, k.at >= pos, NEW m, m = Append(tokens, k)
  PROVE  /\ Grows(tokens, m, pos) /\ m \in Seq(Tok) /\ Len(m) = Len(tokens) + 1 /\ m[Len(m)] = k
         /\ \A i \in Len(tokens) + 1..Len(m) : m[i] = k
         /\ \A r : WithinLiteral(m, r) <=> WithinLiteral(tokens, r) \/ (IsLiteral(k) /\ r \in k.at..k.upto - 1)
<1>1. pos \in Nat /\ tokens \in Seq(Tok) /\ Grows(tokens, tokens, pos) BY NowIs
<1>2. Grows(tokens, m, pos) BY <1>1, GrowsOne
<1>3. m \in Seq(Tok) /\ Len(m) = Len(tokens) + 1 /\ m[Len(tokens) + 1] = k /\ Len(tokens) \in Nat
  BY <1>1, Appended
<1>4. \A i \in Len(tokens) + 1..Len(m) : i = Len(tokens) + 1 BY <1>3
<1>5. \A r : WithinLiteral(m, r) <=> WithinLiteral(tokens, r) \/ (IsLiteral(k) /\ r \in k.at..k.upto - 1)
  BY <1>1, LiteralAppended
<1> QED BY <1>2, <1>3, <1>4, <1>5

LEMMA AnnotatesLineKeeps ==
  ASSUME Now, AnnotatesLine, pos' \in pos..Len(text) + 1
  PROVE  Keeps1
<1> DEFINE L == Len(text)
<1>1. /\ L \in Nat /\ pos \in 1..L /\ pos \in Nat /\ Fits(text, pos, comment_depth) /\ comment_depth \in Nat
      /\ ~WithinLiteral(tokens, pos) /\ NoStrays(text)
  BY NowIs
<1>2. /\ line_annotation' = TRUE /\ UNCHANGED <<comment_depth, annotation_depth>>
      /\ text[pos] = "%" /\ ~Marked(text, pos, comment_depth)
  BY DEF AnnotatesLine
<1>3. PICK q \in pos + 1..pos' :
        text[q] = "@" /\ pos' = q + 2 /\ NoBreak(text, pos, pos') /\ tokens' = Append(tokens, SignAt(q))
  BY DEF AnnotatesLine
<1>4. q \in Nat /\ q >= pos /\ q >= 1 BY <1>1, <1>3
<1>5. SignAt(q) \in Tok /\ SignAt(q).at = q /\ SignAt(q).upto = q + 2 /\ ~IsLiteral(SignAt(q))
  BY <1>4, SignMade
<1>6. /\ Grows(tokens, tokens', pos) /\ ~WithinLiteral(tokens', pos)
      /\ \A i \in Len(tokens) + 1..Len(tokens') : tokens'[i] = SignAt(q)
  <2> DEFINE k == SignAt(q)
  <2>1. k \in Tok /\ k.at >= pos /\ ~IsLiteral(k) /\ tokens' = Append(tokens, k) BY <1>3, <1>4, <1>5
  <2> HIDE DEF k
  <2>2. /\ Grows(tokens, tokens', pos)
        /\ \A i \in Len(tokens) + 1..Len(tokens') : tokens'[i] = k
        /\ \A r : WithinLiteral(tokens', r) <=> WithinLiteral(tokens, r) \/ (IsLiteral(k) /\ r \in k.at..k.upto - 1)
    BY <2>1, OneMore
  <2> QED BY <2>1, <2>2, <1>1 DEF k
<1>7. ASSUME pos' <= L PROVE Fits(text, pos', comment_depth')
  <2>1. pos' \in pos..L BY <1>1, <1>7
  <2>2. text[pos] \notin Blank BY <1>2, BracesDiffer
  <2> QED BY <2>1, <2>2, <1>1, <1>2, <1>3, FitsLine
<1>8. \A r \in pos..pos' - 1 : KeptAt(text, tokens', r) BY <1>1, <1>2, <1>3, <1>6, KeptBehind
<1>9. OneLine(text, SignAt(q))
  <2>1. NoBreak(text, pos, q + 2) BY <1>3
  <2>2. q + 2 \in Int /\ pos \in Int /\ q \in Int /\ q + 2 <= q + 2 /\ pos <= q BY <1>1, <1>4
  <2>3. NoBreak(text, q, q + 2) BY <2>1, <2>2, NoBreakWithin
  <2> QED BY <2>3, <1>4, <1>5 DEF OneLine
<1>10. annotation_depth' > 0 => comment_depth' > 0 BY <1>2, NowIs
<1> QED BY <1>2, <1>6, <1>7, <1>8, <1>9, <1>10 DEF Keeps1, Keeping

LEMMA BlockTokens ==
  ASSUME Now, NEW q \in Nat, q > pos, q + 2 <= pos', pos' \in Nat, NoBreak(text, q, pos'),
         \/ tokens' = Append(tokens, SignAt(q))
         \/ \E type, r : FirstWord(q, type, r)
  PROVE  /\ Grows(tokens, tokens', pos) /\ ~WithinLiteral(tokens', pos)
         /\ \A i \in Len(tokens) + 1..Len(tokens') : OneLine(text, tokens'[i])
<1> DEFINE m == Append(tokens, SignAt(q))
           n == Len(tokens)
<1>1. /\ pos \in Nat /\ pos >= 1 /\ ~WithinLiteral(tokens, pos) /\ n \in Nat
      /\ tokens \in Seq(Tok) /\ q >= pos /\ q >= 1
  BY NowIs
<1>2. SignAt(q) \in Tok /\ SignAt(q).at = q /\ SignAt(q).upto = q + 2 /\ ~IsLiteral(SignAt(q))
  BY SignMade
<1>3. /\ Grows(tokens, m, pos) /\ ~WithinLiteral(m, pos) /\ m \in Seq(Tok) /\ Len(m) = n + 1
      /\ \A i \in n + 1..Len(m) : m[i] = SignAt(q)
  BY <1>1, <1>2, OneMore
<1>4. OneLine(text, SignAt(q))
  <2>1. q \in Int /\ q + 2 \in Int /\ pos' \in Int /\ q <= q BY <1>1
  <2>2. NoBreak(text, q, q + 2) BY <2>1, NoBreakWithin
  <2> QED BY <2>2, <1>1, <1>2 DEF OneLine
<1>5. CASE tokens' = m BY <1>3, <1>4, <1>5
<1>6. CASE \E type, r : FirstWord(q, type, r)
  <2>1. PICK type, r : FirstWord(q, type, r) BY <1>6
  <2> DEFINE k == Token(type, r, pos')
  <2>2. type \in WordTypes /\ r \in q + 2..pos' /\ tokens' = Append(m, k) BY <2>1 DEF FirstWord
  <2>3. type \in TokenTypes BY <2>2 DEF WordTypes, TokenTypes, AnyKeyword
  <2>4. r \in Nat /\ r >= pos /\ r > pos /\ r >= 1 /\ q <= r BY <1>1, <2>2
  <2>5. k \in Tok /\ k.at = r /\ k.upto = pos' BY <2>3, <2>4, TokenMade
  <2> HIDE DEF k, m
  <2>6. Grows(tokens, tokens', pos)
    <3>1. k.at >= pos BY <2>4, <2>5
    <3> QED BY <3>1, <1>1, <1>3, <2>2, <2>5, GrowsOne
  <2>7. ~WithinLiteral(tokens', pos)
    <3>1. pos \notin r..pos' - 1
      <4>1. pos \in Int /\ r \in Int /\ pos' - 1 \in Int /\ pos < r BY <1>1, <2>4
      <4> QED BY <4>1, NotBefore
    <3> QED BY <3>1, <1>3, <2>2, <2>5, LiteralAppended
  <2>8. OneLine(text, k)
    <3>1. q \in Int /\ r \in Int /\ pos' \in Int /\ pos' <= pos' BY <2>4
    <3>2. NoBreak(text, r, pos') BY <3>1, <2>4, NoBreakWithin
    <3> QED BY <3>2, <2>4, <2>5 DEF OneLine
  <2>9. ASSUME NEW i \in n + 1..Len(tokens') PROVE OneLine(text, tokens'[i])
    <3>1. /\ Len(tokens') = n + 2 /\ tokens'[n + 2] = k
          /\ \A j \in 1..n + 1 : tokens'[j] = m[j]
      <4>1. n + 1 + 1 = n + 2 BY <1>1
      <4> QED BY <4>1, <1>3, <2>2, <2>5, Appended
    <3>2. i = n + 2 \/ (i \in n + 1..n + 1 /\ i \in 1..n + 1) BY <1>1, <2>9, <3>1
    <3>3. CASE i = n + 2 BY <3>1, <3>3, <2>8
    <3>4. CASE i \in n + 1..n + 1 /\ i \in 1..n + 1 BY <3>1, <3>4, <1>3, <1>4
    <3> QED BY <3>2, <3>3, <3>4
  <2> QED BY <2>6, <2>7, <2>9
<1> QED BY <1>5, <1>6

LEMMA AnnotatesBlockKeeps ==
  ASSUME Now, AnnotatesBlock, pos' \in pos..Len(text) + 1
  PROVE  Keeps1
<1> DEFINE L == Len(text)
           d == comment_depth + 1
<1>1. /\ L \in Nat /\ pos \in 1..L /\ pos \in Nat /\ Fits(text, pos, comment_depth) /\ comment_depth \in Nat
      /\ ~WithinLiteral(tokens, pos) /\ NoStrays(text)
  BY NowIs
<1>2. comment_depth' = d /\ Mark(text, pos, LBrace) BY DEF AnnotatesBlock
<1>3. text[pos] = "%" BY <1>2 DEF Mark
<1>4. PICK q \in LineEnd(text, pos) + 1..L :
       /\ PastLine(q) /\ text[q] = "@" /\ q + 2 <= pos' /\ NoBreak(text, q, pos')
       /\ \/ line_annotation' = TRUE /\ tokens' = Append(tokens, SignAt(q))
          \/ annotation_depth < 0 /\ line_annotation' = FALSE /\ tokens' = Append(tokens, SignAt(q))
          \/ \E type, r : FirstWord(q, type, r)
  BY DEF AnnotatesBlock
<1>5. LineEnd(text, pos) \in pos..L + 1 BY <1>1, LinesOf
<1>6. q \in Nat /\ q > pos /\ q \in 1..L /\ pos' \in Nat /\ d \in Nat /\ d > 0 /\ d /= 0 BY <1>1, <1>4, <1>5
<1>7. /\ Grows(tokens, tokens', pos) /\ ~WithinLiteral(tokens', pos)
      /\ \A i \in Len(tokens) + 1..Len(tokens') : OneLine(text, tokens'[i])
  BY <1>4, <1>6, BlockTokens
<1>8. White(text, LineEnd(text, pos), q) BY <1>4 DEF PastLine
<1>9. Fits(text, q, d) BY <1>1, <1>2, <1>4, <1>8, FitsBehindMark
<1> HIDE DEF d
<1>10. text[q] \notin Blank /\ ~Marked(text, q, d)
  <2>1. "@" \notin Blank BY DEF Blank
  <2> QED BY <2>1, <1>4 DEF Marked, Mark
<1>11. Blocks(text)[q] = d BY <1>1, <1>6, <1>9, <1>10, FitsPlain
<1>12. ASSUME pos' <= L PROVE Fits(text, pos', comment_depth')
  <2>1. pos' \in q..L BY <1>4, <1>6, <1>12
  <2> QED BY <2>1, <1>1, <1>2, <1>4, <1>6, <1>9, <1>10, FitsLine
<1>13. \A r \in pos..q - 1 : KeptAt(text, tokens', r) BY <1>3, <1>4, <1>7, KeptPast
<1>14. ASSUME NEW r \in q..pos' - 1 PROVE KeptAt(text, tokens', r)
  <2>0. q \in Int /\ pos' \in Int /\ L \in Int /\ pos' <= L + 1 /\ q >= 1 /\ q <= q BY <1>1, <1>6
  <2>1. q \in 1..L + 1 /\ r \in q..L + 1 /\ r \in Int /\ r <= pos' BY <2>0, <1>14, InLine
  <2>2. NoBreak(text, q, r) BY <2>0, <2>1, <1>4, NoBreakWithin
  <2>3. Blocks(text)[r] = d BY <2>1, <2>2, <1>1, <1>11, SameBlocks
  <2> QED BY <2>3, <1>6 DEF KeptAt
<1>15. \A r \in pos..pos' - 1 : r \in pos..q - 1 \/ r \in q..pos' - 1
  <2>1. pos \in Int /\ q \in Int /\ pos' \in Int BY <1>1, <1>6
  <2> QED BY <2>1, SplitAt
<1>16. \A r \in pos..pos' - 1 : KeptAt(text, tokens', r) BY <1>13, <1>14, <1>15
<1>17. comment_depth' > 0 BY <1>2, <1>6
<1> QED BY <1>7, <1>12, <1>16, <1>17 DEF Keeps1, Keeping

LEMMA NoMark ==
  ASSUME NEW t, NEW p, t[p] /= "%"
  PROVE  \A d : ~Marked(t, p, d)
BY DEF Marked, Mark

(* One unit further, over what is no comment mark.                              *)
LEMMA OneFurther ==
  ASSUME Now, text[pos] /= "%", NEW q, q = pos + 1
  PROVE  /\ q <= Len(text) => Fits(text, q, comment_depth)
         /\ \A m : Commented(text, m, q) => text[pos] /= "newline" /\ Commented(text, m, pos)
         /\ \A r \in pos..q - 1 : r = pos
         /\ text[pos] /= "newline" => NoBreak(text, pos, q)
<1> DEFINE L == Len(text)
<1>1. /\ L \in Nat /\ pos \in 1..L /\ pos \in Nat /\ Fits(text, pos, comment_depth) /\ comment_depth \in Nat
  BY NowIs
<1>2. ~Marked(text, pos, comment_depth) BY NoMark
<1>3. q <= L => Fits(text, q, comment_depth) BY <1>1, <1>2, FitsStep
<1>4. \A r \in pos..q - 1 : r = pos BY <1>1
<1>5. q \in pos + 1..L + 1 /\ q \in pos..L + 1 BY <1>1
<1>6. text[pos] /= "newline" => NoBreak(text, pos, q) BY <1>4 DEF NoBreak
<1>7. ASSUME NEW m, text[pos] = "newline" PROVE ~Commented(text, m, q)
  <2>1. White(text, pos, q) BY <1>4, <1>7 DEF White
  <2> QED BY <2>1, <1>1, <1>5, <1>7, BehindWhite
<1>8. ASSUME NEW m, text[pos] /= "newline", Commented(text, m, q) PROVE Commented(text, m, pos)
  <2>1. NoBreak(text, pos, q) BY <1>6, <1>8
  <2>2. ~\E r \in pos..q - 1 : text[r] = "%" /\ ~WithinLiteral(m, r) BY <1>4
  <2> QED BY <2>1, <2>2, <1>1, <1>5, <1>8, CommentBefore
<1> QED BY <1>3, <1>4, <1>6, <1>7, <1>8

LEMMA IdlesKeep ==
  ASSUME Now, Idles, pos' \in pos..Len(text) + 1
  PROVE  Keeps1
<1> DEFINE L == Len(text)
<1>1. /\ L \in Nat /\ pos \in 1..L /\ Fits(text, pos, comment_depth) /\ comment_depth \in Nat
      /\ text[pos] /= "newline" /\ Commented(text, tokens, pos) => line_annotation \/ comment_depth > 0
      /\ annotation_depth > 0 => comment_depth > 0
  BY NowIs
<1>2. /\ UNCHANGED <<tokens, line_annotation, comment_depth, annotation_depth>>
      /\ pos' = pos + 1 /\ text[pos] /= "%"
      /\ text[pos] \in Letters \cup {"newline"} => comment_depth > 0
  BY DEF Idles
<1>3. /\ pos' <= L => Fits(text, pos', comment_depth)
      /\ Commented(text, tokens, pos') => text[pos] /= "newline" /\ Commented(text, tokens, pos)
      /\ \A r \in pos..pos' - 1 : r = pos
  BY <1>2, OneFurther
<1>4. KeptAt(text, tokens, pos)
  <2>1. CASE text[pos] \in Words
    <3>1. text[pos] \notin Blank /\ ~Marked(text, pos, comment_depth) /\ comment_depth /= 0
      BY <2>1, <1>1, <1>2, WordsAre, NoMark
    <3>2. Blocks(text)[pos] = comment_depth BY <3>1, <1>1, FitsPlain
    <3> QED BY <3>1, <3>2 DEF KeptAt
  <2>2. CASE text[pos] \notin Words BY <2>2 DEF KeptAt
  <2> QED BY <2>1, <2>2
<1>5. \A r \in pos..pos' - 1 : KeptAt(text, tokens', r) BY <1>2, <1>3, <1>4
<1>6. Commented(text, tokens', pos') => line_annotation' \/ comment_depth' > 0 BY <1>1, <1>2, <1>3
<1>7. Grows(tokens, tokens', pos) /\ \A i \in Len(tokens) + 1..Len(tokens') : FALSE BY <1>2, NoNewTokens
<1> QED BY <1>1, <1>2, <1>3, <1>5, <1>6, <1>7 DEF Keeps1, Keeping

LEMMA AddsLineKeeps ==
  ASSUME Now, AddsLine, pos' \in pos..Len(text) + 1
  PROVE  Keeps1
<1> DEFINE L == Len(text)
           k == Token(IF line_annotation THEN "end_type" ELSE "newline", pos, pos')
<1>1. /\ L \in Nat /\ pos \in Nat /\ pos >= 1 /\ pos >= pos
      /\ annotation_depth > 0 => comment_depth > 0
  BY NowIs
<1>2. /\ UNCHANGED <<comment_depth, annotation_depth>>
      /\ text[pos] = "newline" /\ pos' = pos + 1 /\ tokens' = Append(tokens, k)
  BY DEF AddsLine
<1>3. /\ pos' <= L => Fits(text, pos', comment_depth)
      /\ ~Commented(text, tokens', pos')
      /\ \A r \in pos..pos' - 1 : r = pos
  BY <1>2, BracesDiffer, OneFurther
<1>4. k \in Tok /\ k.at = pos /\ k.type \in {"newline", "end_type"}
  <2>1. (IF line_annotation THEN "end_type" ELSE "newline") \in TokenTypes \cap {"newline", "end_type"}
    BY DEF TokenTypes
  <2> HIDE DEF k
  <2>2. pos' \in Nat BY <1>1
  <2> QED BY <2>1, <2>2, <1>1, TokenMade DEF k
<1> HIDE DEF k
<1>5. Grows(tokens, tokens', pos) /\ \A i \in Len(tokens) + 1..Len(tokens') : tokens'[i] = k
  <2>1. k.at >= pos BY <1>1, <1>4
  <2>2. tokens' = Append(tokens, k) BY <1>2
  <2> QED BY <2>1, <2>2, <1>4, OneMore
<1>6. OneLine(text, k) BY <1>1, <1>4 DEF OneLine
<1>7. KeptAt(text, tokens', pos) BY <1>2, WordsAre DEF KeptAt
<1>8. \A r \in pos..pos' - 1 : KeptAt(text, tokens', r) BY <1>3, <1>7
<1> QED BY <1>1, <1>2, <1>3, <1>5, <1>6, <1>8 DEF Keeps1, Keeping

LEMMA AddsOnLineKeeps ==
  ASSUME Now, AddsOnLine, pos' \in pos..Len(text) + 1
  PROVE  Keeps1
<1> DEFINE L == Len(text)
<1>1. /\ L \in Nat /\ pos \in 1..L /\ pos \in Nat /\ pos >= 1
      /\ Fits(text, pos, comment_depth) /\ comment_depth \in Nat /\ NoStrays(text)
      /\ text[pos] /= "newline" /\ Commented(text, tokens, pos) => line_annotation \/ comment_depth > 0
      /\ annotation_depth > 0 => comment_depth > 0
  BY NowIs
<1>2. /\ UNCHANGED <<line_annotation, comment_depth>>
      /\ annotation_depth' > 0 => annotation_depth > 0
      /\ text[pos] \notin Blank \cup {"newline", "%"}
      /\ NoBreak(text, pos, pos')
  BY DEF AddsOnLine
<1>3. PICK k \in Tok : tokens' = Append(tokens, k) /\ k.type /= "@T" /\ Holds(k, pos, pos')
  BY DEF AddsOnLine
<1>4. k.at \in Nat /\ k.upto \in Nat /\ pos <= k.at /\ k.at >= pos /\ k.at >= 1 /\ k.upto <= pos'
  BY <1>1, <1>3, TokenFields DEF Holds
<1>5. /\ \A r \in pos..pos' - 1 : text[r] \in Letters => r \in k.at..k.upto - 1
      /\ \A r \in pos..pos' - 1 : text[r] = "%" => IsLiteral(k) /\ r \in k.at..k.upto - 1
  BY <1>3 DEF Holds
<1>6. /\ Grows(tokens, tokens', pos) /\ tokens'[Len(tokens')] = k /\ Len(tokens') = Len(tokens) + 1
      /\ \A i \in Len(tokens) + 1..Len(tokens') : tokens'[i] = k
      /\ \A r : WithinLiteral(tokens', r) <=> WithinLiteral(tokens, r) \/ (IsLiteral(k) /\ r \in k.at..k.upto - 1)
  BY <1>3, <1>4, OneMore
<1>7. OneLine(text, k)
  <2>1. pos \in Int /\ pos' \in Int /\ k.at \in Int /\ k.upto \in Int BY <1>1, <1>4
  <2>2. NoBreak(text, k.at, k.upto) BY <2>1, <1>2, <1>4, NoBreakWithin
  <2> QED BY <2>2, <1>4 DEF OneLine
<1>8. ASSUME NEW r \in pos..pos' - 1 PROVE KeptAt(text, tokens', r)
  <2>1. Len(tokens') \in 1..Len(tokens')
    <3>1. Len(tokens) \in Nat BY NowIs
    <3> QED BY <3>1, <1>6
  <2>2. text[r] \in Words => r \in k.at..k.upto - 1 BY <1>5, WordsAre
  <2> QED BY <2>1, <2>2, <1>6 DEF KeptAt, CoveredBy
<1>9. ASSUME pos' <= L PROVE Fits(text, pos', comment_depth')
  <2>1. pos' \in pos..L BY <1>1, <1>9
  <2>2. ~Marked(text, pos, comment_depth) BY <1>2, NoMark
  <2> QED BY <2>1, <2>2, <1>1, <1>2, FitsLine
<1>10. Commented(text, tokens', pos') => line_annotation' \/ comment_depth' > 0
  <2>1. ~\E r \in pos..pos' - 1 : text[r] = "%" /\ ~WithinLiteral(tokens', r) BY <1>5, <1>6
  <2>2. Commented(text, tokens', pos') => Commented(text, tokens', pos) BY <2>1, <1>1, <1>2, CommentBefore
  <2>3. pos \in 1..pos BY <1>1
  <2>4. Commented(text, tokens', pos) => Commented(text, tokens, pos) BY <2>3, <1>1, <1>6, CommentedGrown
  <2> QED BY <2>2, <2>4, <1>1, <1>2
<1> QED BY <1>1, <1>2, <1>6, <1>7, <1>8, <1>9, <1>10 DEF Keeps1, Keeping

LEMMA AbreastKept ==
  ASSUME Now, CommentMove \/ CodeMove, pos' \in pos..Len(text) + 1
  PROVE  /\ Grows(tokens, tokens', pos)
         /\ Abreast(text, tokens', pos', comment_depth', line_annotation', annotation_depth')
<1>1. Keeps1
  BY CommentsKeep, EntersKeep, LeavesKeep, AnnotatesLineKeeps, AnnotatesBlockKeeps, IdlesKeep, AddsOnLineKeeps,
     AddsLineKeeps
  DEF CommentMove, CodeMove
<1>2. Len(text) \in Nat /\ pos \in Nat /\ pos >= 1 BY NowIs
<1>3. Abreast(text, tokens, pos, comment_depth, line_annotation, annotation_depth) BY DEF Now
<1> QED BY <1>1, <1>2, <1>3, AbreastBy DEF Keeps1

------------------------------------------------------------------------------
(* What the tokens tell of the lines they are on.                               *)

(* A sign on the line of a position.                                             *)
Sign(t, r, p) == r \in 1..p - 1 /\ t[r] = "@" /\ NoBreak(t, r, p)
LastSign(list, j, i) == list[j].type = "@T" /\ \A k \in j + 1..i : list[k].type /= "@T"
EndsLine(t, list, r) == \E j \in 1..Len(list) : list[j].type = "end_type" /\ list[j].at = LineEnd(t, r)

SilentAt(t, list, i) ==
  IF CodeAt(list, i)
  THEN \/ list[i].at = list[i].upto
       \/ Blocks(t)[list[i].at] = 0 /\ (list[i].type = "newline" \/ ~Commented(t, list, list[i].at))
  ELSE \E j \in 1..i : LastSign(list, j, i) /\ (Blocks(t)[list[j].at] > 0 => Blocks(t)[list[i].at] > 0)

EndsOrLasts(t, list, i, line, p) == EndsLine(t, list, list[i].at) \/ (line /\ Sign(t, list[i].at, p))
Begun(list, i) == list[i].type = "@T" /\ TypeAt(list, i + 1) /= "begin"

Heard(t, list, p, line, a) ==
  /\ \A i \in 1..Len(list) : SilentAt(t, list, i)
  /\ line \/ a > 0 =>
       \E j \in 1..Len(list) : LastSign(list, j, Len(list)) /\ (line => Sign(t, list[j].at, p))
  /\ \A i \in 1..Len(list) : Begun(list, i) => EndsOrLasts(t, list, i, line, p)

(* The tokens that are added tell it, and a line that ends has its end.        *)
Hearing(t, l, m, p, q, line, line2, a2) ==
  /\ \A i \in Len(l) + 1..Len(m) : SilentAt(t, m, i)
  /\ line2 \/ a2 > 0 =>
       \E j \in 1..Len(m) : LastSign(m, j, Len(m)) /\ (line2 => Sign(t, m[j].at, q))
  /\ \A r : line /\ Sign(t, r, p) => EndsLine(t, m, r) \/ (line2 /\ Sign(t, r, q))
  /\ \A i \in Len(l) + 1..Len(m) : Begun(m, i) => EndsOrLasts(t, m, i, line2, q)

LEMMA LastSignGrown ==
  ASSUME NEW l, NEW m, NEW p, Grows(l, m, p), NEW i \in 1..Len(l), NEW j \in 1..i
  PROVE  LastSign(m, j, i) <=> LastSign(l, j, i)
<1>1. Len(l) \in Nat /\ \A k \in 1..Len(l) : m[k] = l[k] BY GrowsIs
<1>2. j \in 1..Len(l) /\ \A k \in j + 1..i : k \in 1..Len(l) BY <1>1
<1> QED BY <1>1, <1>2 DEF LastSign

LEMMA SilentGrown ==
  ASSUME NEW t, NEW l, NEW m, NEW p \in Nat, Grows(l, m, p), NEW i \in 1..Len(l), l[i].at \in 1..p,
         SilentAt(t, l, i)
  PROVE  SilentAt(t, m, i)
<1>1. /\ Len(l) \in Nat /\ Len(m) \in Nat /\ Len(l) <= Len(m) /\ l \in Seq(Tok) /\ m \in Seq(Tok)
      /\ \A k \in 1..Len(l) : m[k] = l[k]
  BY GrowsIs DEF Grows
<1>2. CodeAt(m, i) <=> CodeAt(l, i) BY <1>1, CodeAgrees
<1>3. m[i] = l[i] BY <1>1
<1>4. Commented(t, m, l[i].at) <=> Commented(t, l, l[i].at) BY CommentedGrown
<1>5. \A j \in 1..i : j \in 1..Len(l) BY <1>1
<1>6. \A j \in 1..i : m[j] = l[j] BY <1>1, <1>5
<1>7. \A j \in 1..i : LastSign(m, j, i) <=> LastSign(l, j, i) BY LastSignGrown
<1> QED BY <1>2, <1>3, <1>4, <1>6, <1>7 DEF SilentAt

LEMMA HeardBy ==
  ASSUME NEW t, NEW l, NEW m, NEW p \in Nat, Grows(l, m, p), \A i \in 1..Len(l) : l[i].at \in 1..p,
         NEW line, NEW a, Heard(t, l, p, line, a), NEW q, NEW line2, NEW a2, Hearing(t, l, m, p, q, line, line2, a2)
  PROVE  Heard(t, m, q, line2, a2)
<1>1. /\ Len(l) \in Nat /\ Len(m) \in Nat /\ Len(l) <= Len(m) /\ l \in Seq(Tok) /\ m \in Seq(Tok)
      /\ \A k \in 1..Len(l) : m[k] = l[k] /\ k \in 1..Len(m)
      /\ \A i \in 1..Len(m) : i \in 1..Len(l) \/ i \in Len(l) + 1..Len(m)
  BY GrowsIs DEF Grows
<1>2. \A i \in 1..Len(m) : SilentAt(t, m, i) BY <1>1, SilentGrown DEF Heard, Hearing
<1>3. ASSUME NEW i \in 1..Len(l), Begun(m, i) PROVE EndsOrLasts(t, m, i, line2, q)
  <2>1. m[i] = l[i] BY <1>1
  <2>2. TypeAt(l, i + 1) /= "begin"
    <3>1. DOMAIN l = 1..Len(l) /\ DOMAIN m = 1..Len(m) BY <1>1, LenProperties
    <3>2. CASE i + 1 \in 1..Len(l) BY <3>1, <3>2, <1>1, <1>3 DEF TypeAt, Begun
    <3>3. CASE i + 1 \notin 1..Len(l) BY <3>1, <3>3 DEF TypeAt
    <3> QED BY <3>2, <3>3
  <2>3. EndsOrLasts(t, l, i, line, p) BY <2>1, <2>2, <1>3 DEF Heard, Begun
  <2>4. EndsLine(t, l, l[i].at) => EndsLine(t, m, l[i].at) BY <1>1 DEF EndsLine
  <2> QED BY <2>1, <2>3, <2>4 DEF EndsOrLasts, Hearing
<1>4. \A i \in 1..Len(m) : Begun(m, i) => EndsOrLasts(t, m, i, line2, q) BY <1>1, <1>3 DEF Hearing
<1> QED BY <1>2, <1>4 DEF Heard, Hearing

LEMMA SignLater ==
  ASSUME NEW t, NEW r, NEW p \in Int, NEW q \in Int, p <= q, Sign(t, r, p), NoBreak(t, p, q)
  PROVE  Sign(t, r, q)
<1>1. r \in 1..p - 1 BY DEF Sign
<1>2. r \in 1..q - 1 BY <1>1
<1>3. \A x \in r..q - 1 : x \in r..p - 1 \/ x \in p..q - 1 BY <1>1
<1> QED BY <1>2, <1>3 DEF Sign, NoBreak

LEMMA SignBlocks ==
  ASSUME NEW t, Len(t) \in Nat, NEW p \in 1..Len(t) + 1, NEW r, Sign(t, r, p)
  PROVE  Blocks(t)[r] = Blocks(t)[p]
<1>1. r \in 1..p - 1 /\ NoBreak(t, r, p) BY DEF Sign
<1>2. r \in 1..Len(t) + 1 /\ p \in r..Len(t) + 1 BY <1>1
<1> QED BY <1>1, <1>2, SameBlocks

LEMMA SignEnds ==
  ASSUME NEW t, Len(t) \in Nat, NEW p \in 1..Len(t), t[p] = "newline", NEW r, Sign(t, r, p)
  PROVE  LineEnd(t, r) = p
<1>1. r \in 1..p - 1 /\ NoBreak(t, r, p) BY DEF Sign
<1>2. r \in 1..Len(t) + 1 /\ p \in r..Len(t) + 1 BY <1>1
<1> QED BY <1>1, <1>2, EndIsAt DEF EndsAt

LEMMA BalancedOpen ==
  ASSUME NEW list \in Seq(Tok), NEW a \in Int, NEW line \in BOOLEAN, BalancedAt(list, a, line)
  PROVE  /\ a >= 0
         /\ line \/ a > 0 => Open(list)[Len(list)] > 0
         /\ ~line /\ ~(a > 0) => Coded(list)
<1>1. a >= 0 /\ Open(list)[Len(list)] = a + LineOpen(line) BY DEF BalancedAt
<1>2. \A i \in 1..Len(list) : i = Len(list) /\ list[i].type = "@T" => line BY DEF BalancedAt
<1>3. line => Open(list)[Len(list)] = a + 1 BY <1>1 DEF LineOpen
<1>4. ~line => Open(list)[Len(list)] = a + 0 BY <1>1 DEF LineOpen
<1>5. a + 1 > 0 /\ a + 0 = a /\ (~(a > 0) => a = 0) BY <1>1
<1>6. line => Open(list)[Len(list)] > 0 BY <1>3, <1>5
<1>7. ~line /\ a > 0 => Open(list)[Len(list)] > 0 BY <1>4, <1>5
<1>8. ~line /\ ~(a > 0) => Open(list)[Len(list)] = 0 BY <1>4, <1>5
<1> QED BY <1>1, <1>2, <1>6, <1>7, <1>8 DEF Coded

HearNow ==
  /\ Now /\ Heard(text, tokens, pos, line_annotation, annotation_depth)
  /\ BalancedAt(tokens, annotation_depth, line_annotation)

Hears1 == Hearing(text, tokens, tokens', pos, pos', line_annotation, line_annotation', annotation_depth')

LEMMA HearIs ==
  ASSUME HearNow
  PROVE  /\ Now /\ annotation_depth >= 0
         /\ \A i \in 1..Len(tokens) : tokens[i].at \in 1..pos
         /\ line_annotation \/ annotation_depth > 0 =>
              /\ Open(tokens)[Len(tokens)] > 0
              /\ \E j \in 1..Len(tokens) : /\ LastSign(tokens, j, Len(tokens))
                                           /\ line_annotation => Sign(text, tokens[j].at, pos)
         /\ ~(line_annotation \/ annotation_depth > 0) => Coded(tokens)
<1>1. Now BY DEF HearNow
<1>2. /\ annotation_depth \in Int /\ line_annotation \in BOOLEAN /\ tokens \in Seq(Tok) /\ pos \in Nat
      /\ Len(tokens) \in Nat
  BY <1>1, NowIs
<1>3. /\ annotation_depth >= 0
      /\ line_annotation \/ annotation_depth > 0 => Open(tokens)[Len(tokens)] > 0
      /\ ~line_annotation /\ ~(annotation_depth > 0) => Coded(tokens)
  BY <1>2, BalancedOpen DEF HearNow
<1>4. ASSUME NEW i \in 1..Len(tokens) PROVE tokens[i].at \in 1..pos
  <2>1. tokens[i] \in Tok BY <1>2, ElementOfSeq
  <2>2. tokens[i].at \in Nat /\ tokens[i].upto \in Nat BY <2>1, TokenFields
  <2>3. tokens[i].at >= 1 BY <1>1 DEF Now, Abreast, OneLine
  <2>4. tokens[i].at <= tokens[i].upto /\ tokens[i].upto <= pos BY <1>1 DEF Now, Ordered
  <2> HIDE DEF Now
  <2> QED BY <2>2, <2>3, <2>4, <1>2
<1> QED BY <1>1, <1>3, <1>4 DEF HearNow, Heard

(* Over comments, blanks and blocks no token is added.                          *)
LEMMA StillHears ==
  ASSUME HearNow, UNCHANGED <<tokens, line_annotation, annotation_depth>>, pos' \in pos..Len(text) + 1,
         line_annotation => NoBreak(text, pos, pos')
  PROVE  Hears1
<1>1. pos \in Int /\ pos' \in Int /\ pos <= pos' /\ Len(tokens) \in Nat
  <2>1. pos \in Nat /\ Len(text) \in Nat /\ Len(tokens) \in Nat BY NowIs DEF HearNow
  <2> QED BY <2>1
<1>2. \A r : line_annotation /\ Sign(text, r, pos) => Sign(text, r, pos') BY <1>1, SignLater
<1>3. Len(tokens) + 1..Len(tokens') = {} BY <1>1
<1>4. line_annotation' \/ annotation_depth' > 0 =>
        \E j \in 1..Len(tokens) : /\ LastSign(tokens, j, Len(tokens))
                                  /\ line_annotation => Sign(text, tokens[j].at, pos)
  BY HearIs
<1>5. /\ tokens' = tokens
      /\ line_annotation' = line_annotation
  OBVIOUS
<1> QED BY <1>2, <1>3, <1>4, <1>5 DEF Hears1, Hearing

(* A mark is never on the line of an annotation.                                *)
LEMMA MarksUnheard ==
  ASSUME HearNow, Mark(text, pos, LBrace) \/ Mark(text, pos, RBrace)
  PROVE  ~line_annotation
<1> SUFFICES ASSUME line_annotation PROVE FALSE OBVIOUS
<1>1. PICK j \in 1..Len(tokens) : Sign(text, tokens[j].at, pos) BY HearIs
<1> DEFINE r == tokens[j].at
<1>2. r \in 1..pos - 1 /\ text[r] = "@" /\ NoBreak(text, r, pos) BY <1>1 DEF Sign
<1> HIDE DEF r
<1>3. Len(text) \in Nat /\ NoStrays(text) /\ pos \in 1..Len(text) BY NowIs DEF HearNow
<1>4. r \in 1..Len(text) /\ pos \in r..Len(text) /\ r < pos BY <1>2, <1>3
<1>5. text[r] \notin Blank
  <2>1. "@" \notin Blank BY DEF Blank
  <2> QED BY <2>1, <1>2
<1>6. ~FirstOnLine(text, pos) BY <1>2, <1>3, <1>4, <1>5, NoMarkBehind
<1>7. StrayMark(text, pos) BY <1>6 DEF StrayMark, LBrace, RBrace
<1> QED BY <1>3, <1>7 DEF NoStrays

(* A token that is no sign is of the code, or of the last annotation.          *)
LEMMA CodeSilent ==
  ASSUME HearNow, CodeRead, text[pos] \notin Blank \cup {"%"},
         NEW k \in Tok, k.type /= "@T", k.at \in pos..Len(text) + 1, NoBreak(text, pos, k.at),
         NEW m, m = Append(tokens, k), NEW n, n = Len(tokens) + 1,
         ~line_annotation => \/ k.type = "newline"
                             \/ Commented(text, m, k.at) => text[pos] /= "newline" /\ Commented(text, tokens, pos)
  PROVE  SilentAt(text, m, n)
<1> DEFINE L == Len(text)
           within == line_annotation \/ annotation_depth > 0
<1>1. /\ L \in Nat /\ pos \in 1..L /\ pos \in 1..L + 1 /\ Fits(text, pos, comment_depth) /\ comment_depth \in Nat
      /\ text[pos] /= "newline" /\ Commented(text, tokens, pos) => line_annotation \/ comment_depth > 0
      /\ annotation_depth > 0 => comment_depth > 0
      /\ tokens \in Seq(Tok) /\ Len(tokens) \in Nat
  BY NowIs DEF HearNow
<1>2. m[n] = k /\ n \in 1..n /\ \A i \in 1..Len(tokens) : m[i] = tokens[i] BY <1>1, Appended
<1>3. Blocks(text)[pos] = comment_depth /\ Blocks(text)[k.at] = comment_depth
  <2>1. ~Marked(text, pos, comment_depth) /\ text[pos] \notin Blank BY NoMark
  <2>2. Blocks(text)[pos] = comment_depth BY <2>1, <1>1, FitsPlain
  <2> QED BY <2>2, <1>1, SameBlocks
<1>4. CASE within
  <2>1. ~CodeAt(m, n) BY <1>1, <1>4, HearIs, CodeNew
  <2>2. PICK j \in 1..Len(tokens) : /\ LastSign(tokens, j, Len(tokens))
                                    /\ line_annotation => Sign(text, tokens[j].at, pos)
    BY <1>4, HearIs
  <2>3. j \in 1..n /\ m[j] = tokens[j] /\ \A i \in j + 1..n : i \in j + 1..Len(tokens) \/ i = n
    BY <1>1, <1>2
  <2>4. \A i \in j + 1..Len(tokens) : i \in 1..Len(tokens) BY <1>1
  <2>5. LastSign(m, j, n) BY <2>2, <2>3, <2>4, <1>2 DEF LastSign
  <2>6. line_annotation => Blocks(text)[tokens[j].at] = Blocks(text)[pos] BY <2>2, <1>1, SignBlocks
  <2>7. Blocks(text)[m[j].at] > 0 => Blocks(text)[m[n].at] > 0 BY <2>3, <2>6, <1>1, <1>2, <1>3, <1>4
  <2> QED BY <2>1, <2>3, <2>5, <2>7 DEF SilentAt
<1>5. CASE ~within
  <2>1. CodeAt(m, n) BY <1>1, <1>5, HearIs, CodeNew
  <2>2. comment_depth <= 0 BY <1>5 DEF CodeRead, is_within_type_annotation
  <2>3. comment_depth = 0 /\ ~(comment_depth > 0) BY <2>2, <1>1
  <2>4. k.type = "newline" \/ ~Commented(text, m, k.at) BY <2>3, <1>1, <1>5
  <2> QED BY <2>1, <2>3, <2>4, <1>2, <1>3 DEF SilentAt
<1> QED BY <1>4, <1>5

LastIs(list, k, m) ==
  /\ Len(m) = Len(list) + 1 /\ m[Len(m)] = k /\ Len(m) \in 1..Len(m) /\ Len(m) \in Nat
  /\ \A i \in 1..Len(list) : i \in 1..Len(m) /\ m[i] = list[i]
  /\ \A i \in Len(list) + 1..Len(m) : i = Len(m)
  /\ \A j \in Len(m) + 1..Len(m) : FALSE
  /\ k.type = "@T" => LastSign(m, Len(m), Len(m))
  /\ k.type /= "@T" => \A j \in 1..Len(list) : LastSign(list, j, Len(list)) => LastSign(m, j, Len(m))

LEMMA LastOne ==
  ASSUME NEW list \in Seq(Tok), NEW k \in Tok, NEW m, m = Append(list, k)
  PROVE  LastIs(list, k, m)
<1>1. /\ Len(m) = Len(list) + 1 /\ m[Len(m)] = k /\ Len(list) \in Nat
      /\ \A i \in 1..Len(list) : m[i] = list[i]
  BY Appended
<1>2. /\ Len(m) \in 1..Len(m) /\ Len(m) \in Nat /\ \A i \in 1..Len(list) : i \in 1..Len(m)
      /\ \A i \in Len(list) + 1..Len(m) : i = Len(m)
      /\ \A j \in Len(m) + 1..Len(m) : FALSE
  BY <1>1
<1>3. k.type = "@T" => LastSign(m, Len(m), Len(m)) BY <1>1, <1>2 DEF LastSign
<1>4. ASSUME k.type /= "@T", NEW j \in 1..Len(list), LastSign(list, j, Len(list)) PROVE LastSign(m, j, Len(m))
  <2>1. \A i \in j + 1..Len(m) : i = Len(m) \/ (i \in j + 1..Len(list) /\ i \in 1..Len(list)) BY <1>1
  <2> QED BY <2>1, <1>1, <1>4 DEF LastSign
<1> QED BY <1>1, <1>2, <1>3, <1>4 DEF LastIs

LEMMA SignSilent ==
  ASSUME NEW t, NEW list \in Seq(Tok), NEW k \in Tok, k.type = "@T", NEW m, m = Append(list, k)
  PROVE  SilentAt(t, m, Len(m))
<1>1. Len(m) = Len(list) + 1 /\ LastSign(m, Len(m), Len(m)) /\ Len(m) \in 1..Len(m) BY LastOne DEF LastIs
<1>2. ~CodeAt(m, Len(m)) BY <1>1, CodeNew
<1> QED BY <1>1, <1>2 DEF SilentAt

LEMMA SignSeen ==
  ASSUME NEW t, NEW q \in Nat, NEW p \in Nat, q >= 1, q + 2 <= p, NoBreak(t, q, p), t[q] = "@"
  PROVE  Sign(t, q, p)
<1>1. q \in 1..p - 1 OBVIOUS
<1> QED BY <1>1 DEF Sign

(* An annotation that lasts to the end of its line.                             *)
LEMMA SignHears ==
  ASSUME HearNow, ~is_within_type_annotation, NEW q \in Nat, q > pos, q + 2 <= pos', pos' \in Nat,
         NoBreak(text, q, pos'), text[q] = "@", tokens' = Append(tokens, SignAt(q)), line_annotation' = TRUE
  PROVE  Hears1
<1> DEFINE n == Len(tokens')
<1>1. tokens \in Seq(Tok) /\ q >= 1
  <2>1. tokens \in Seq(Tok) /\ pos \in Nat BY NowIs DEF HearNow
  <2> QED BY <2>1
<1>2. SignAt(q) \in Tok /\ SignAt(q).type = "@T" /\ SignAt(q).at = q BY SignMade
<1>3. /\ tokens'[n] = SignAt(q) /\ n \in 1..n /\ LastSign(tokens', n, n)
      /\ \A i \in Len(tokens) + 1..n : i = n
  BY <1>1, <1>2, LastOne DEF LastIs
<1>4. SilentAt(text, tokens', n) BY <1>1, <1>2, SignSilent
<1>5. Sign(text, q, pos') BY <1>1, SignSeen
<1>6. tokens'[n].at = q BY <1>2, <1>3
<1>7. ~line_annotation BY DEF is_within_type_annotation
<1> HIDE DEF n
<1>8. EndsOrLasts(text, tokens', n, line_annotation', pos') BY <1>5, <1>6 DEF EndsOrLasts
<1>9. \E j \in 1..n : LastSign(tokens', j, n) /\ Sign(text, tokens'[j].at, pos') BY <1>3, <1>5, <1>6
<1> QED BY <1>3, <1>4, <1>7, <1>8, <1>9 DEF Hears1, Hearing, n

(* The annotation of a comment block, and its first word.                       *)
LEMMA WordHears ==
  ASSUME HearNow, ~is_within_type_annotation, NEW q \in Nat, q > pos, q + 2 <= pos', pos' \in 1..Len(text) + 1,
         NoBreak(text, q, pos'), text[q] = "@", NEW type, NEW r, FirstWord(q, type, r)
  PROVE  Hears1
<1> DEFINE L == Len(text)
           macro == Append(tokens, SignAt(q))
           s == Len(macro)
           n == Len(tokens')
           k == Token(type, r, pos')
<1>1. tokens \in Seq(Tok) /\ q >= 1 /\ L \in Nat
  <2>1. tokens \in Seq(Tok) /\ pos \in Nat /\ L \in Nat BY NowIs DEF HearNow
  <2> QED BY <2>1
<1>2. SignAt(q) \in Tok /\ SignAt(q).type = "@T" /\ SignAt(q).at = q BY SignMade
<1>3. /\ macro \in Seq(Tok) /\ macro[s] = SignAt(q) /\ s \in 1..s /\ LastSign(macro, s, s) /\ s = Len(tokens) + 1
      /\ \A i \in Len(tokens) + 1..s : i = s
  <2>1. macro \in Seq(Tok) BY <1>1, <1>2, Appended
  <2>2. macro = Append(tokens, SignAt(q)) OBVIOUS
  <2> HIDE DEF macro
  <2>3. LastIs(tokens, SignAt(q), macro) BY <2>2, <1>1, <1>2, LastOne
  <2> QED BY <2>1, <2>3, <1>2 DEF LastIs
<1>4. SilentAt(text, macro, s) BY <1>1, <1>2, SignSilent
<1>5. type \in WordTypes /\ r \in q + 2..pos' /\ (line_annotation' <=> type /= "begin") /\ tokens' = Append(macro, k)
  BY DEF FirstWord
<1>6. pos' \in Nat /\ r \in Nat /\ r >= 1 /\ q <= r /\ q \in Nat /\ q \in 1..L + 1 /\ r \in q..L + 1 /\ r <= pos'
  <2>1. pos' \in Nat /\ pos' <= L + 1 BY <1>1
  <2>2. r \in Nat /\ r >= q + 2 /\ r <= pos' BY <2>1, <1>5
  <2> QED BY <2>1, <2>2, <1>1
<1>7. k \in Tok /\ k.type = type /\ k.at = r /\ k.type /= "@T"
  <2>1. type \in TokenTypes /\ type /= "@T" BY <1>5, WordTypesAre DEF WordTypes, TokenTypes, AnyKeyword
  <2> QED BY <2>1, <1>6, TokenMade
<1> HIDE DEF macro, k, s
<1>8. /\ n = s + 1 /\ tokens'[n] = k /\ n \in 1..n /\ n \in Nat /\ LastSign(tokens', s, n)
      /\ s \in 1..n /\ tokens'[s] = macro[s] /\ s \in Nat
      /\ \A i \in s + 1..n : i = n
      /\ tokens' \in Seq(Tok)
  <2>1. s = Len(macro) BY DEF s
  <2>2. tokens' \in Seq(Tok) BY <1>3, <1>5, <1>7, Appended
  <2>7. LastIs(macro, k, tokens') BY <1>3, <1>5, <1>7, LastOne
  <2>3. /\ n = s + 1 /\ tokens'[n] = k /\ n \in 1..n /\ n \in Nat
        /\ \A i \in 1..s : i \in 1..n /\ tokens'[i] = macro[i]
        /\ \A i \in s + 1..n : i = n
    BY <2>1, <2>7 DEF LastIs
  <2>4. LastSign(tokens', s, n)
    <3>1. \A j \in 1..s : LastSign(macro, j, s) => LastSign(tokens', j, n) BY <2>1, <2>7, <1>7 DEF LastIs
    <3> QED BY <3>1, <1>3
  <2>5. s \in 1..n /\ tokens'[s] = macro[s] BY <2>3, <1>3
  <2>6. s \in Nat BY <1>1, <1>3, LenProperties
  <2> QED BY <2>2, <2>3, <2>4, <2>5, <2>6
<1>9. ~CodeAt(tokens', n)
  <2>1. Signed(macro) BY <1>2, <1>3 DEF Signed, s
  <2>2. n = Len(macro) + 1 BY <1>8 DEF s
  <2> QED BY <2>1, <2>2, <1>3, <1>5, <1>7, CodeNew
<1>10. Blocks(text)[r] = Blocks(text)[q]
  <2>1. q \in Int /\ pos' \in Int /\ r \in Int /\ q <= q BY <1>6
  <2>2. NoBreak(text, q, r) BY <2>1, <1>6, NoBreakWithin
  <2> QED BY <2>2, <1>1, <1>6, SameBlocks
<1>11. tokens'[s].at = q /\ tokens'[s].type = "@T" BY <1>2, <1>3, <1>8
<1>12. SilentAt(text, tokens', n)
  <2>1. Blocks(text)[tokens'[s].at] > 0 => Blocks(text)[tokens'[n].at] > 0 BY <1>7, <1>8, <1>10, <1>11
  <2> QED BY <2>1, <1>8, <1>9 DEF SilentAt
<1>13. SilentAt(text, tokens', s)
  <2>1. \A i \in 1..Len(macro) : tokens'[i] = macro[i] BY <1>3, <1>5, <1>7, Appended
  <2>2. CodeAt(tokens', s) <=> CodeAt(macro, s)
    <3>1. s = Len(macro) /\ s <= Len(tokens') /\ Len(macro) <= Len(tokens') BY <1>8 DEF s
    <3> QED BY <2>1, <3>1, <1>3, <1>8, CodeAgrees
  <2>3. ~CodeAt(macro, s) BY <1>1, <1>2, <1>3, CodeNew DEF macro
  <2>4. LastSign(tokens', s, s)
    <3>1. \A i \in s + 1..s : FALSE BY <1>8
    <3> QED BY <3>1, <1>11 DEF LastSign
  <2>5. s \in 1..s BY <1>3
  <2>6. Blocks(text)[tokens'[s].at] > 0 => Blocks(text)[tokens'[s].at] > 0 OBVIOUS
  <2> QED BY <2>2, <2>3, <2>4, <2>5, <2>6 DEF SilentAt
<1>14. \A i \in Len(tokens) + 1..n : i = s \/ i = n BY <1>3, <1>8
<1>15. Sign(text, q, pos') BY <1>1, <1>6, SignSeen
<1>16. ~line_annotation BY DEF is_within_type_annotation
<1>17. \A i \in Len(tokens) + 1..n : Begun(tokens', i) => EndsOrLasts(text, tokens', i, line_annotation', pos')
  <2>1. ~Begun(tokens', n) BY <1>7, <1>8 DEF Begun
  <2>2. Begun(tokens', s) => line_annotation'
    <3>1. TypeAt(tokens', s + 1) = type
      <4>1. DOMAIN tokens' = 1..n BY <1>8, LenProperties
      <4>2. s + 1 \in DOMAIN tokens' /\ tokens'[s + 1] = k BY <4>1, <1>8
      <4> QED BY <4>2, <1>7 DEF TypeAt
    <3> QED BY <3>1, <1>5 DEF Begun
  <2>3. Begun(tokens', s) => EndsOrLasts(text, tokens', s, line_annotation', pos')
    BY <2>2, <1>11, <1>15 DEF EndsOrLasts
  <2> HIDE DEF n
  <2> QED BY <2>1, <2>3, <1>14
<1>18. \E j \in 1..n : LastSign(tokens', j, n) /\ (line_annotation' => Sign(text, tokens'[j].at, pos'))
  BY <1>8, <1>11, <1>15
<1>19. \A i \in Len(tokens) + 1..n : SilentAt(text, tokens', i) BY <1>12, <1>13, <1>14
<1> HIDE DEF n
<1> QED BY <1>16, <1>17, <1>18, <1>19 DEF Hears1, Hearing, n

LEMMA WiderRange == ASSUME NEW a \in Int, NEW b \in Int, NEW c \in Int, b <= c PROVE \A r \in a..b : r \in a..c
OBVIOUS

(* A token on the line, and what it leaves of the annotation.                   *)
LEMMA AddsOnLineHears ==
  ASSUME HearNow, AddsOnLine, pos' \in pos..Len(text) + 1
  PROVE  Hears1
<1> DEFINE L == Len(text)
           n == Len(tokens')
<1>1. /\ L \in Nat /\ pos \in Nat /\ pos \in 1..L /\ pos >= 1 /\ tokens \in Seq(Tok) /\ Len(tokens) \in Nat
      /\ annotation_depth \in Int /\ line_annotation \in BOOLEAN
  BY NowIs DEF HearNow
<1>2. /\ CodeRead /\ line_annotation' = line_annotation
      /\ annotation_depth' > 0 => annotation_depth > 0
      /\ text[pos] \notin Blank \cup {"newline", "%"}
      /\ NoBreak(text, pos, pos')
  BY DEF AddsOnLine
<1>3. PICK k \in Tok : tokens' = Append(tokens, k) /\ k.type /= "@T" /\ Holds(k, pos, pos')
  BY DEF AddsOnLine
<1>4. k.at \in Nat /\ k.upto \in Nat /\ pos <= k.at /\ k.at <= k.upto /\ k.upto <= pos'
  BY <1>3, TokenFields DEF Holds
<1>5. pos \in Int /\ pos' \in Int /\ k.at \in Int /\ k.at <= pos' /\ pos <= pos' /\ pos <= pos BY <1>1, <1>4
<1>6. k.at \in pos..L + 1 /\ k.at >= pos BY <1>1, <1>4, <1>5
<1>7. NoBreak(text, pos, k.at) BY <1>2, <1>5, NoBreakWithin
<1>8. LastIs(tokens, k, tokens') BY <1>1, <1>3, LastOne
<1>9. n = Len(tokens) + 1 /\ \A i \in Len(tokens) + 1..n : i = n BY <1>8 DEF LastIs
<1>10. Commented(text, tokens', k.at) => Commented(text, tokens, pos)
  <2>1. /\ Grows(tokens, tokens', pos)
        /\ \A r : WithinLiteral(tokens', r) <=> WithinLiteral(tokens, r) \/ (IsLiteral(k) /\ r \in k.at..k.upto - 1)
    BY <1>3, <1>6, OneMore DEF HearNow
  <2>2. \A r \in pos..k.at - 1 : r \in pos..pos' - 1
    <3>1. k.at - 1 \in Int /\ pos' - 1 \in Int /\ k.at - 1 <= pos' - 1 BY <1>5
    <3> QED BY <3>1, <1>5, WiderRange
  <2>3. \A r \in pos..pos' - 1 : text[r] = "%" => IsLiteral(k) /\ r \in k.at..k.upto - 1 BY <1>3 DEF Holds
  <2>4. ~\E r \in pos..k.at - 1 : text[r] = "%" /\ ~WithinLiteral(tokens', r) BY <2>1, <2>2, <2>3
  <2>5. Commented(text, tokens', k.at) => Commented(text, tokens', pos)
    BY <2>4, <1>1, <1>6, <1>7, CommentBefore
  <2>6. pos \in 1..pos BY <1>1
  <2>7. Commented(text, tokens', pos) => Commented(text, tokens, pos) BY <2>1, <2>6, <1>1, CommentedGrown
  <2> QED BY <2>5, <2>7
<1>11. SilentAt(text, tokens', n) BY <1>2, <1>3, <1>6, <1>7, <1>9, <1>10, CodeSilent
<1>12. \A r : line_annotation /\ Sign(text, r, pos) => Sign(text, r, pos') BY <1>2, <1>5, SignLater
<1>13. line_annotation' \/ annotation_depth' > 0 =>
         \E j \in 1..n : LastSign(tokens', j, n) /\ (line_annotation' => Sign(text, tokens'[j].at, pos'))
  <2>1. SUFFICES ASSUME line_annotation \/ annotation_depth > 0
                 PROVE  \E j \in 1..n : /\ LastSign(tokens', j, n)
                                        /\ line_annotation' => Sign(text, tokens'[j].at, pos')
    BY <1>2
  <2>2. PICK j \in 1..Len(tokens) : /\ LastSign(tokens, j, Len(tokens))
                                    /\ line_annotation => Sign(text, tokens[j].at, pos)
    BY <2>1, HearIs
  <2>3. j \in 1..n /\ tokens'[j] = tokens[j] /\ LastSign(tokens', j, n) BY <2>2, <1>3, <1>8 DEF LastIs
  <2> QED BY <2>2, <2>3, <1>2, <1>12
<1>14. ~Begun(tokens', n)
  <2>1. tokens'[n] = k BY <1>8 DEF LastIs
  <2> QED BY <2>1, <1>3 DEF Begun
<1> HIDE DEF n
<1> QED BY <1>2, <1>9, <1>11, <1>12, <1>13, <1>14 DEF Hears1, Hearing, n

(* The end of a line ends its annotation.                                        *)
LEMMA AddsLineHears ==
  ASSUME HearNow, AddsLine, pos' \in pos..Len(text) + 1
  PROVE  Hears1
<1> DEFINE L == Len(text)
           n == Len(tokens')
           type == IF line_annotation THEN "end_type" ELSE "newline"
           k == Token(type, pos, pos')
<1>1. /\ L \in Nat /\ pos \in Nat /\ pos \in 1..L /\ tokens \in Seq(Tok) /\ Len(tokens) \in Nat
      /\ annotation_depth \in Int /\ line_annotation \in BOOLEAN
  BY NowIs DEF HearNow
<1>2. /\ CodeRead /\ line_annotation' = FALSE /\ annotation_depth' = annotation_depth
      /\ text[pos] = "newline" /\ tokens' = Append(tokens, k)
  BY DEF AddsLine
<1>3. type \in TokenTypes /\ type /= "@T" /\ (~line_annotation => type = "newline") /\ (line_annotation => type = "end_type")
  BY DEF TokenTypes
<1> HIDE DEF type
<1>4. k \in Tok /\ k.at = pos /\ k.type = type
  <2>1. pos' \in Nat BY <1>1
  <2> QED BY <2>1, <1>1, <1>3, TokenMade
<1> HIDE DEF k
<1>5. k.at \in pos..L + 1 /\ NoBreak(text, pos, k.at)
  <2>1. pos \in pos..L + 1 /\ pos..pos - 1 = {} BY <1>1
  <2> QED BY <2>1, <1>4 DEF NoBreak
<1>6. LastIs(tokens, k, tokens') BY <1>1, <1>2, <1>4, LastOne
<1>7. n = Len(tokens) + 1 /\ n \in 1..n /\ tokens'[n] = k /\ \A i \in Len(tokens) + 1..n : i = n BY <1>6 DEF LastIs
<1>8. text[pos] \notin Blank \cup {"%"} BY <1>2, BracesDiffer
<1>9. SilentAt(text, tokens', n) BY <1>2, <1>3, <1>4, <1>5, <1>7, <1>8, CodeSilent
<1>10. ASSUME NEW r, line_annotation, Sign(text, r, pos) PROVE EndsLine(text, tokens', r)
  <2>1. LineEnd(text, r) = pos BY <1>1, <1>2, <1>10, SignEnds
  <2> QED BY <2>1, <1>3, <1>4, <1>7, <1>10 DEF EndsLine
<1>11. ASSUME annotation_depth' > 0 PROVE \E j \in 1..n : LastSign(tokens', j, n)
  <2>1. PICK j \in 1..Len(tokens) : LastSign(tokens, j, Len(tokens)) BY <1>2, <1>11, HearIs
  <2>2. k.type /= "@T" BY <1>3, <1>4
  <2>3. j \in 1..n /\ LastSign(tokens', j, n) BY <2>1, <2>2, <1>6 DEF LastIs
  <2> QED BY <2>3
<1>12. ~Begun(tokens', n) BY <1>3, <1>4, <1>7 DEF Begun
<1> HIDE DEF n
<1> QED BY <1>2, <1>7, <1>9, <1>10, <1>11, <1>12 DEF Hears1, Hearing, n

LEMMA AnnotatesHear ==
  ASSUME HearNow, AnnotatesLine \/ AnnotatesBlock, pos' \in pos..Len(text) + 1
  PROVE  Hears1
<1>1. /\ Len(text) \in Nat /\ pos \in Nat /\ pos \in 1..Len(text) /\ annotation_depth >= 0
      /\ annotation_depth \in Int
  BY NowIs, HearIs DEF HearNow
<1>2. pos' \in Nat /\ pos' \in 1..Len(text) + 1 BY <1>1
<1>3. CASE AnnotatesLine
  <2>1. PICK q \in pos + 1..pos' :
          text[q] = "@" /\ pos' = q + 2 /\ NoBreak(text, pos, pos') /\ tokens' = Append(tokens, SignAt(q))
    BY <1>3 DEF AnnotatesLine
  <2>2. q \in Nat /\ q > pos /\ pos <= q /\ q \in Int /\ pos \in Int /\ pos' \in Int /\ pos' <= pos' BY <1>1, <1>2
  <2>3. q + 2 <= pos' BY <2>1, <2>2
  <2>4. NoBreak(text, q, pos') BY <2>1, <2>2, NoBreakWithin
  <2>5. ~is_within_type_annotation /\ line_annotation' = TRUE BY <1>3 DEF AnnotatesLine
  <2> QED BY <2>1, <2>2, <2>3, <2>4, <2>5, <1>2, SignHears
<1>4. CASE AnnotatesBlock
  <2>1. PICK q \in LineEnd(text, pos) + 1..Len(text) :
         /\ PastLine(q) /\ text[q] = "@" /\ q + 2 <= pos' /\ NoBreak(text, q, pos')
         /\ \/ line_annotation' = TRUE /\ tokens' = Append(tokens, SignAt(q))
            \/ annotation_depth < 0 /\ line_annotation' = FALSE /\ tokens' = Append(tokens, SignAt(q))
            \/ \E type, r : FirstWord(q, type, r)
    BY <1>4 DEF AnnotatesBlock
  <2>2. LineEnd(text, pos) \in pos..Len(text) + 1 BY <1>1, LinesOf
  <2>3. q \in Nat /\ q > pos BY <2>2, <1>1
  <2>4. ~(annotation_depth < 0) BY <1>1
  <2>5. ~is_within_type_annotation BY <1>4 DEF AnnotatesBlock
  <2>6. CASE line_annotation' = TRUE /\ tokens' = Append(tokens, SignAt(q))
    BY <2>1, <2>3, <2>5, <2>6, <1>2, SignHears
  <2>7. CASE \E type, r : FirstWord(q, type, r)
    <3>1. PICK type, r : FirstWord(q, type, r) BY <2>7
    <3> QED BY <3>1, <2>1, <2>3, <2>5, <1>2, WordHears
  <2> QED BY <2>1, <2>4, <2>6, <2>7
<1> QED BY <1>3, <1>4

LEMMA MovesHear ==
  ASSUME HearNow, CommentMove \/ CodeMove, pos' \in pos..Len(text) + 1
  PROVE  Hears1
<1>1. CASE AnnotatesLine \/ AnnotatesBlock BY <1>1, AnnotatesHear
<1>2. CASE Comments BY <1>2, StillHears DEF Comments
<1>3. CASE Enters \/ Leaves
  <2>1. ~line_annotation BY <1>3, MarksUnheard DEF Enters, Leaves
  <2>2. UNCHANGED <<tokens, line_annotation, annotation_depth>> BY <1>3 DEF Enters, Leaves
  <2> QED BY <2>1, <2>2, StillHears
<1>4. CASE Idles
  <2>1. UNCHANGED <<tokens, line_annotation, annotation_depth>> /\ pos' = pos + 1 /\ text[pos] /= "%"
    BY <1>4 DEF Idles
  <2>2. line_annotation => text[pos] /= "newline" BY <1>4 DEF Idles, is_within_type_annotation
  <2>3. line_annotation => NoBreak(text, pos, pos') BY <2>1, <2>2, OneFurther DEF HearNow
  <2> QED BY <2>1, <2>3, StillHears
<1>5. CASE AddsOnLine BY <1>5, AddsOnLineHears
<1>6. CASE AddsLine BY <1>6, AddsLineHears
<1> QED BY <1>1, <1>2, <1>3, <1>4, <1>5, <1>6 DEF CommentMove, CodeMove

LEMMA HeardKept ==
  ASSUME HearNow, CommentMove \/ CodeMove, pos' \in pos..Len(text) + 1
  PROVE  Heard(text, tokens', pos', line_annotation', annotation_depth')
<1>1. Hears1 BY MovesHear
<1>2. Grows(tokens, tokens', pos) BY AbreastKept DEF HearNow
<1>3. pos \in Nat BY NowIs DEF HearNow
<1>4. \A i \in 1..Len(tokens) : tokens[i].at \in 1..pos BY HearIs
<1>5. Heard(text, tokens, pos, line_annotation, annotation_depth) BY DEF HearNow
<1> QED BY <1>1, <1>2, <1>3, <1>4, <1>5, HeardBy DEF Hears1

------------------------------------------------------------------------------
(* What was told of the tokens is told of them with their commas.              *)

CommasIn(s, list, S) ==
  /\ Placed(s, list, S) /\ S \subseteq 1..Len(list) /\ s \in Seq(Tok) /\ Len(list) \in Nat /\ Len(s) \in Nat
  /\ \A i \in S : list[i].type \in Separated
  /\ \A i \in S : s[Place(S, i) + 1].type = "," /\ s[Place(S, i) + 1].at = list[i].upto
                  /\ s[Place(S, i) + 1].upto = list[i].upto
  /\ \A q \in 1..Len(s) : HasPlace(list, S, q)
  /\ \A i \in 1..Len(list) : Place(S, i) \in 1..Len(s) /\ s[Place(S, i)] = list[i]

LEMMA CommaIs ==
  ASSUME NEW list \in Seq(Tok), NEW S, Commas(list, S), NEW s, Spread(s, list, S)
  PROVE  CommasIn(s, list, S)
<1>1. S \subseteq 1..Len(list) /\ \A i \in S : list[i].type \in Separated BY DEF Commas
<1>2. Placed(s, list, S) BY <1>1, PlaceSteps
<1>3. \A q \in 1..Len(s) : HasPlace(list, S, q) BY <1>1, Places
<1>4. \A i \in S : s[Place(S, i) + 1] = CommaBehind(list[i]) BY <1>2 DEF Placed
<1>5. \A k : CommaBehind(k).type = "," /\ CommaBehind(k).at = k.upto /\ CommaBehind(k).upto = k.upto
  BY DEF CommaBehind, Token
<1>6. /\ s \in Seq(Tok) /\ Len(list) \in Nat /\ Len(s) \in Nat
      /\ \A i \in 1..Len(list) : Place(S, i) \in 1..Len(s) /\ s[Place(S, i)] = list[i]
  BY <1>2 DEF Placed
<1> QED BY <1>1, <1>2, <1>3, <1>4, <1>5, <1>6 DEF CommasIn

LEMMA LiteralsSpread ==
  ASSUME NEW list \in Seq(Tok), NEW S, Commas(list, S), NEW s, Spread(s, list, S), NEW t
  PROVE  /\ \A r : WithinLiteral(s, r) <=> WithinLiteral(list, r)
         /\ \A r : Commented(t, s, r) <=> Commented(t, list, r)
         /\ Conforming(t, s) <=> Conforming(t, list)
<1>0. CommasIn(s, list, S) BY CommaIs
<1>1. \A r : WithinLiteral(list, r) => WithinLiteral(s, r) BY <1>0 DEF WithinLiteral, CommasIn
<1>2. ASSUME NEW r, NEW q \in 1..Len(s), IsLiteral(s[q]), r \in s[q].at..s[q].upto - 1
      PROVE  WithinLiteral(list, r)
  <2>1. HasPlace(list, S, q) BY <1>0, <1>2 DEF CommasIn
  <2>2. ~\E i \in S : q = Place(S, i) + 1
    <3>1. \A i \in S : s[Place(S, i) + 1].type = "," BY <1>0 DEF CommasIn
    <3>2. s[q].type /= "," BY <1>2 DEF IsLiteral
    <3> QED BY <3>1, <3>2
  <2>3. PICK i \in 1..Len(list) : q = Place(S, i) BY <2>1, <2>2 DEF HasPlace
  <2>4. s[q] = list[i] BY <2>3, <1>0 DEF CommasIn
  <2> QED BY <2>4, <1>2 DEF WithinLiteral
<1>3. \A r : WithinLiteral(s, r) <=> WithinLiteral(list, r)
  <2>1. \A r : WithinLiteral(s, r) => WithinLiteral(list, r) BY <1>2 DEF WithinLiteral
  <2> QED BY <2>1, <1>1
<1>4. \A r : Commented(t, s, r) <=> Commented(t, list, r) BY <1>3 DEF Commented
<1>5. Conforming(t, s) <=> Conforming(t, list) BY <1>3 DEF Conforming
<1> QED BY <1>3, <1>4, <1>5

LEMMA LastSignSpread ==
  ASSUME NEW list \in Seq(Tok), NEW S, Commas(list, S), NEW s, Spread(s, list, S),
         NEW i \in 1..Len(list), NEW j \in 1..i, LastSign(list, j, i)
  PROVE  /\ Place(S, j) \in 1..Place(S, i) /\ s[Place(S, j)] = list[j] /\ LastSign(s, Place(S, j), Place(S, i))
         /\ i \in S => /\ Place(S, j) \in 1..Place(S, i) + 1
                       /\ LastSign(s, Place(S, j), Place(S, i) + 1)
<1> DEFINE N == Len(list)
           a == Place(S, j)
           b == Place(S, i)
<1>0. CommasIn(s, list, S) BY CommaIs
<1>1. /\ N \in Nat /\ S \subseteq 1..N /\ Len(s) \in Nat /\ j \in 1..N /\ j \in Nat /\ i \in 1..N
      /\ \A q \in 1..Len(s) : HasPlace(list, S, q)
      /\ \A x \in 1..N : Place(S, x) \in 1..Len(s) /\ s[Place(S, x)] = list[x]
  <2>1. /\ N \in Nat /\ S \subseteq 1..N /\ Len(s) \in Nat
        /\ \A q \in 1..Len(s) : HasPlace(list, S, q)
        /\ \A x \in 1..N : Place(S, x) \in 1..Len(s) /\ s[Place(S, x)] = list[x]
    BY <1>0 DEF CommasIn
  <2>2. i \in 1..N OBVIOUS
  <2>3. j \in 1..N /\ j \in Nat
    <3>1. N \in Nat BY <2>1
    <3>2. j \in 1..i OBVIOUS
    <3> HIDE DEF N
    <3> QED BY <2>2, <3>1, <3>2
  <2> QED BY <2>1, <2>2, <2>3
<1>2. a \in 1..Len(s) /\ b \in 1..Len(s) /\ s[a] = list[j] /\ s[a].type = "@T" BY <1>1 DEF LastSign
<1>3. a <= b
  <2>1. j <= i OBVIOUS
  <2> QED BY <2>1, <1>1, PlacesOrdered
<1>4. ASSUME NEW q \in a + 1..b PROVE s[q].type /= "@T"
  <2>1. q \in 1..Len(s) /\ a < q /\ q <= b /\ HasPlace(list, S, q)
    <3> HIDE DEF a, b
    <3> QED BY <1>1, <1>2, <1>4
  <2>2. CASE \E x \in S : q = Place(S, x) + 1
    <3>1. s[q].type = "," BY <2>2, <1>0 DEF CommasIn
    <3> QED BY <3>1
  <2>3. CASE \E x \in 1..N : q = Place(S, x)
    <3>1. PICK x \in 1..N : q = Place(S, x) BY <2>3
    <3>2. j < x /\ x <= i BY <2>1, <3>1, <1>1, PlacesOrdered
    <3>3. x \in j + 1..i BY <3>2
    <3>4. list[x].type /= "@T" BY <3>3 DEF LastSign
    <3> QED BY <3>1, <3>4, <1>1
  <2> QED BY <2>1, <2>2, <2>3 DEF HasPlace
<1>5. LastSign(s, a, b) BY <1>2, <1>4 DEF LastSign
<1>6. ASSUME i \in S PROVE LastSign(s, a, b + 1)
  <2>1. s[b + 1].type /= "@T"
    <3>1. s[b + 1].type = "," BY <1>6, <1>0 DEF CommasIn
    <3> QED BY <3>1
  <2>2. \A q \in a + 1..b + 1 : q \in a + 1..b \/ q = b + 1
    <3> HIDE DEF a, b
    <3> QED BY <1>1, <1>2
  <2> QED BY <2>1, <2>2, <1>2, <1>4 DEF LastSign
<1>7. a \in 1..b /\ a \in 1..b + 1
  <2> HIDE DEF a, b
  <2> QED BY <1>1, <1>2, <1>3
<1> QED BY <1>2, <1>5, <1>6, <1>7

LEMMA SilentPlaced ==
  ASSUME NEW list \in Seq(Tok), NEW S, Commas(list, S), NEW s, Spread(s, list, S), NEW t,
         NEW i \in 1..Len(list), SilentAt(t, list, i)
  PROVE  SilentAt(t, s, Place(S, i))
<1> DEFINE p == Place(S, i)
<1>0. CommasIn(s, list, S) BY CommaIs
<1>1. CodeAt(s, p) <=> CodeAt(list, i) BY CodeMoved
<1>2. s[p] = list[i] BY <1>0 DEF CommasIn
<1>3. \A r : Commented(t, s, r) <=> Commented(t, list, r) BY LiteralsSpread
<1>4. CASE CodeAt(list, i) BY <1>1, <1>2, <1>3, <1>4 DEF SilentAt
<1>5. CASE ~CodeAt(list, i)
  <2>1. PICK j \in 1..i : LastSign(list, j, i) /\ (Blocks(t)[list[j].at] > 0 => Blocks(t)[list[i].at] > 0)
    BY <1>5 DEF SilentAt
  <2>2. Place(S, j) \in 1..p /\ s[Place(S, j)] = list[j] /\ LastSign(s, Place(S, j), p)
    BY <2>1, LastSignSpread
  <2> QED BY <2>1, <2>2, <1>1, <1>2, <1>5 DEF SilentAt
<1> QED BY <1>4, <1>5

(* A comma is of the code if and only if the token before it is.               *)
LEMMA SilentComma ==
  ASSUME NEW list \in Seq(Tok), NEW S, Commas(list, S), NEW s, Spread(s, list, S), NEW t, Len(t) \in Nat,
         NEW i \in S, SilentAt(t, list, i), OneLine(t, list[i]),
         list[i].at <= list[i].upto, list[i].upto <= Len(t) + 1
  PROVE  SilentAt(t, s, Place(S, i) + 1)
<1> DEFINE p == Place(S, i)
           q == p + 1
<1>0. CommasIn(s, list, S) BY CommaIs
<1>1. /\ i \in 1..Len(list) /\ list[i].type \in Separated /\ Len(list) \in Nat
      /\ s[q].type = "," /\ s[q].at = list[i].upto /\ s[q].upto = list[i].upto
      /\ p \in 1..Len(s) /\ s[p] = list[i] /\ Len(s) \in Nat
  BY <1>0 DEF CommasIn
<1>2. CASE CodeAt(s, q) BY <1>1, <1>2 DEF SilentAt
<1>3. CASE ~CodeAt(s, q)
  <2>1. list[i].type \notin Opened \cup {"@T", "begin", "end_type"} BY <1>1, SeparatedIs
  <2>2. p \in Nat /\ q - 1 = p
    <3>1. p \in 1..Len(s) /\ Len(s) \in Nat BY <1>1
    <3> HIDE DEF p
    <3> QED BY <3>1
  <2>3. Open(s)[p] > 0
    <3>1. s[q].type /= "@T" BY <1>1
    <3>2. s[q - 1].type /= "@T" BY <2>1, <2>2, <1>1
    <3>3. Open(s)[q - 1] > 0 BY <3>1, <3>2, <1>3 DEF CodeAt
    <3> QED BY <3>3, <2>2
  <2>4. Open(s)[p] = Open(list)[i] BY <1>1, OpenSpread
  <2>5. Open(list)[i] = OpenBehind(list, i, Open(list)[i - 1]) BY <1>1, OpenIs
  <2>6. OpenBehind(list, i, Open(list)[i - 1]) = Open(list)[i - 1]
    <3>1. ~Opens(list, i) BY <2>1 DEF Opens
    <3>2. list[i].type \notin is_end_terminated \cup typing_end_terminated BY <2>1 DEF Opened
    <3> QED BY <3>1, <3>2, <2>1 DEF OpenBehind
  <2>7. ~CodeAt(list, i) BY <2>3, <2>4, <2>5, <2>6 DEF CodeAt
  <2>8. PICK j \in 1..i : LastSign(list, j, i) /\ (Blocks(t)[list[j].at] > 0 => Blocks(t)[list[i].at] > 0)
    BY <2>7 DEF SilentAt
  <2>9. Place(S, j) \in 1..q /\ s[Place(S, j)] = list[j] /\ LastSign(s, Place(S, j), q)
    BY <2>8, <1>1, LastSignSpread
  <2>10. Blocks(t)[list[i].upto] = Blocks(t)[list[i].at]
    <3>1. NoBreak(t, list[i].at, list[i].upto)
      <4>1. Separated \cap {"newline", "end_type"} = {} BY DEF Separated, Operands, Closing
      <4> QED BY <4>1, <1>1 DEF OneLine
    <3>2. list[i] \in Tok BY <1>1, ElementOfSeq
    <3>3. list[i].at \in Nat /\ list[i].upto \in Nat /\ list[i].at >= 1 BY <3>2, TokenFields DEF OneLine
    <3>4. list[i].at \in 1..Len(t) + 1 /\ list[i].upto \in list[i].at..Len(t) + 1 BY <3>3
    <3> QED BY <3>1, <3>4, SameBlocks
  <2>11. Blocks(t)[s[Place(S, j)].at] > 0 => Blocks(t)[s[q].at] > 0 BY <2>8, <2>9, <2>10, <1>1
  <2> QED BY <2>9, <2>11, <1>3 DEF SilentAt
<1> QED BY <1>2, <1>3

------------------------------------------------------------------------------
(* The tokens with the one that ends the text.                                  *)

LEMMA ListedGrows ==
  ASSUME Shape, Ordered(tokens, pos), ~has_next(pos), NEW list, Listed(list)
  PROVE  Len(text) \in Nat /\ pos \in Nat /\ pos = Len(text) + 1 /\ Grows(tokens, list, pos)
<1> DEFINE L == Len(text)
           e == L + 1
           k == Token("null", e, e)
<1>1. tokens \in Seq(Tok) /\ L \in Nat /\ pos \in 1..e /\ list = Append(tokens, k)
  BY LenProperties DEF Shape, Listed
<1>2. pos \in Nat /\ pos = e /\ e \in Nat
  <2>1. ~(pos <= L) BY DEF has_next
  <2> HIDE DEF L
  <2> QED BY <1>1, <2>1
<1>3. Grows(tokens, tokens, pos)
  <2>1. \A i \in 1..Len(tokens) : tokens[i].upto <= pos BY DEF Ordered
  <2> QED BY <2>1, <1>1, GrowsStill
<1>4. k \in Tok /\ k.at >= pos
  <2> HIDE DEF e
  <2>1. "null" \in TokenTypes BY Comma
  <2>2. k \in Tok /\ k.at = e BY <2>1, <1>2, TokenMade
  <2>3. e >= pos BY <1>2
  <2> QED BY <2>2, <2>3
<1> HIDE DEF k
<1> QED BY <1>1, <1>2, <1>3, <1>4, GrowsOne

(* The annotation of a single line that is not the last has the end of it.      *)
EndsWhen(t, list, i) == Begun(list, i) /\ LineEnd(t, list[i].at) <= Len(t) => EndsLine(t, list, list[i].at)

LEMMA ListedKeeps ==
  ASSUME Shape, Ordered(tokens, pos), ~has_next(pos), NEW list, Listed(list),
         Abreast(text, tokens, pos, comment_depth, line_annotation, annotation_depth)
  PROVE  /\ \A r \in 1..Len(text) : KeptAt(text, list, r)
         /\ \A i \in 1..Len(tokens) : OneLine(text, tokens[i]) /\ tokens[i].at \in 1..pos
<1>1. Len(text) \in Nat /\ pos \in Nat /\ pos = Len(text) + 1 /\ Grows(tokens, list, pos) BY ListedGrows
<1>2. ASSUME NEW r \in 1..Len(text) PROVE KeptAt(text, list, r)
  <2>1. r \in 1..pos - 1 /\ r \in 1..pos BY <1>1
  <2>2. KeptAt(text, tokens, r) BY <2>1 DEF Abreast
  <2> QED BY <2>1, <2>2, <1>1, KeptGrown
<1>3. ASSUME NEW i \in 1..Len(tokens) PROVE OneLine(text, tokens[i]) /\ tokens[i].at \in 1..pos
  <2>1. tokens[i] \in Tok BY <1>1, GrowsIs
  <2>2. tokens[i].at \in Nat /\ tokens[i].upto \in Nat BY <2>1, TokenFields
  <2>3. OneLine(text, tokens[i]) BY DEF Abreast
  <2>4. tokens[i].at >= 1 BY <2>3 DEF OneLine
  <2>5. tokens[i].at <= tokens[i].upto /\ tokens[i].upto <= pos BY DEF Ordered
  <2>6. tokens[i].at \in 1..pos BY <2>2, <2>4, <2>5, <1>1
  <2> QED BY <2>3, <2>6
<1> QED BY <1>2, <1>3

LEMMA SignToEnd ==
  ASSUME NEW t, Len(t) \in Nat, NEW r, Sign(t, r, Len(t) + 1)
  PROVE  ~(LineEnd(t, r) <= Len(t))
<1> DEFINE e == Len(t) + 1
<1>1. r \in 1..e - 1 /\ NoBreak(t, r, e) BY DEF Sign
<1>2. e \in Nat /\ r \in 1..Len(t) + 1 /\ e \in r..Len(t) + 1 BY <1>1
<1>3. EndsAt(t, r, e) BY <1>1, <1>2 DEF EndsAt
<1>4. LineEnd(t, r) = e BY <1>2, <1>3, EndIsAt
<1> QED BY <1>4

LEMMA ListedSilent ==
  ASSUME Shape, Ordered(tokens, pos), ~has_next(pos), NEW list, Listed(list),
         Abreast(text, tokens, pos, comment_depth, line_annotation, annotation_depth),
         Heard(text, tokens, pos, line_annotation, annotation_depth)
  PROVE  \A i \in 1..Len(tokens) : SilentAt(text, list, i) /\ EndsWhen(text, list, i)
<1>1. Len(text) \in Nat /\ pos \in Nat /\ pos = Len(text) + 1 /\ Grows(tokens, list, pos) BY ListedGrows
<1>2. /\ tokens \in Seq(Tok) /\ list \in Seq(Tok) /\ Len(tokens) \in Nat /\ Len(list) \in Nat
      /\ \A i \in 1..Len(tokens) : i \in 1..Len(list) /\ list[i] = tokens[i]
  BY <1>1, GrowsIs DEF Grows
<1>3. DOMAIN tokens = 1..Len(tokens) /\ DOMAIN list = 1..Len(list) BY <1>2, LenProperties
<1>4. ASSUME NEW i \in 1..Len(tokens) PROVE SilentAt(text, list, i)
  <2>1. tokens[i].at \in 1..pos BY ListedKeeps
  <2>2. SilentAt(text, tokens, i) BY DEF Heard
  <2> QED BY <2>1, <2>2, <1>1, SilentGrown
<1>5. ASSUME NEW i \in 1..Len(tokens), Begun(list, i), LineEnd(text, list[i].at) <= Len(text)
      PROVE  EndsLine(text, list, list[i].at)
  <2>1. list[i] = tokens[i] BY <1>2
  <2>2. TypeAt(tokens, i + 1) /= "begin"
    <3>1. CASE i + 1 \in 1..Len(tokens) BY <3>1, <1>2, <1>3, <1>5 DEF TypeAt, Begun
    <3>2. CASE i + 1 \notin 1..Len(tokens) BY <3>2, <1>3 DEF TypeAt
    <3> QED BY <3>1, <3>2
  <2>3. EndsOrLasts(text, tokens, i, line_annotation, pos) BY <2>1, <2>2, <1>5 DEF Heard, Begun
  <2>4. ~Sign(text, tokens[i].at, pos) BY <2>1, <1>1, <1>5, SignToEnd
  <2>5. EndsLine(text, tokens, tokens[i].at) BY <2>3, <2>4 DEF EndsOrLasts
  <2> QED BY <2>1, <2>5, <1>2 DEF EndsLine
<1> QED BY <1>4, <1>5 DEF EndsWhen

(* And what is made of them.                                                      *)
LEMMA SpreadSilent ==
  ASSUME NEW list \in Seq(Tok), NEW S, Commas(list, S), NEW s, Spread(s, list, S), Len(list) \notin S,
         NEW t, Len(t) \in Nat, Ordered(list, Len(t) + 1),
         \A i \in 1..Len(list) - 1 : OneLine(t, list[i]) /\ SilentAt(t, list, i)
  PROVE  \A q \in 1..Len(s) - 1 : SilentAt(t, s, q)
<1> SUFFICES ASSUME NEW q \in 1..Len(s) - 1 PROVE SilentAt(t, s, q) OBVIOUS
<1>1. CommasIn(s, list, S) BY CommaIs
<1>2. /\ Placed(s, list, S) /\ S \subseteq 1..Len(list) /\ Len(list) \in Nat /\ Len(s) \in Nat
      /\ \A x \in 1..Len(s) : HasPlace(list, S, x)
  BY <1>1 DEF CommasIn
<1>3. q \in 1..Len(s) /\ q /= Len(s) BY <1>2
<1>4. Len(list) \in 1..Len(list) => Place(S, Len(list)) = Len(s)
  <2>1. \A i \in 1..Len(list) : i = Len(list) => Len(s) = Place(S, i) + IF i \in S THEN 1 ELSE 0
    BY <1>2 DEF Placed
  <2>2. \A i \in 1..Len(list) : Place(S, i) \in 1..Len(s) BY <1>2 DEF Placed
  <2>3. \A x \in 1..Len(s) : x + 0 = x BY <1>2
  <2> QED BY <2>1, <2>2, <2>3
<1>5. \A i \in 1..Len(list) : i /= Len(list) => i \in 1..Len(list) - 1 BY <1>2
<1>6. CASE \E i \in 1..Len(list) : q = Place(S, i)
  <2>1. PICK i \in 1..Len(list) : q = Place(S, i) BY <1>6
  <2>2. i /= Len(list) BY <2>1, <1>3, <1>4
  <2>3. SilentAt(t, list, i) BY <2>2, <1>5
  <2> QED BY <2>1, <2>3, SilentPlaced
<1>7. CASE \E i \in S : q = Place(S, i) + 1
  <2>1. PICK i \in S : q = Place(S, i) + 1 BY <1>7
  <2>2. i \in 1..Len(list) /\ i /= Len(list) BY <1>2
  <2>3. SilentAt(t, list, i) /\ OneLine(t, list[i]) BY <2>2, <1>5
  <2>4. list[i].at <= list[i].upto /\ list[i].upto <= Len(t) + 1 BY <2>2 DEF Ordered
  <2> QED BY <2>1, <2>3, <2>4, SilentComma
<1> QED BY <1>2, <1>3, <1>6, <1>7 DEF HasPlace

LEMMA SpreadKept ==
  ASSUME NEW list \in Seq(Tok), NEW S, Commas(list, S), NEW s, Spread(s, list, S),
         NEW t, NEW r, KeptAt(t, list, r)
  PROVE  KeptAt(t, s, r)
<1>1. CommasIn(s, list, S) BY CommaIs
<1>2. \A i \in 1..Len(list) : Place(S, i) \in 1..Len(s) /\ s[Place(S, i)] = list[i] BY <1>1 DEF CommasIn
<1>3. CoveredBy(list, r) => CoveredBy(s, r) BY <1>2 DEF CoveredBy
<1>4. Commented(t, s, r) <=> Commented(t, list, r) BY LiteralsSpread
<1> QED BY <1>3, <1>4 DEF KeptAt

(* The annotation of a single line ends with the line.                          *)
EndsSigned(t, list) ==
  \A i \in 1..Len(list) - 1 :
    list[i].type = "@T" /\ list[i + 1].type /= "begin" /\ LineEnd(t, list[i].at) <= Len(t) =>
      EndsLine(t, list, list[i].at)

LEMMA SpreadEnds ==
  ASSUME NEW list \in Seq(Tok), NEW S, Commas(list, S), NEW s, Spread(s, list, S), Len(list) \notin S,
         NEW t, \A i \in 1..Len(list) - 1 : EndsWhen(t, list, i)
  PROVE  EndsSigned(t, s)
<1> SUFFICES ASSUME NEW q \in 1..Len(s) - 1, s[q].type = "@T", s[q + 1].type /= "begin",
                    LineEnd(t, s[q].at) <= Len(t)
             PROVE  EndsLine(t, s, s[q].at)
  BY DEF EndsSigned
<1>1. CommasIn(s, list, S) BY CommaIs
<1>2. /\ Placed(s, list, S) /\ S \subseteq 1..Len(list) /\ Len(list) \in Nat /\ Len(s) \in Nat
      /\ \A x \in 1..Len(s) : HasPlace(list, S, x)
      /\ \A i \in 1..Len(list) : Place(S, i) \in 1..Len(s) /\ s[Place(S, i)] = list[i]
  BY <1>1 DEF CommasIn
<1>3. \A i \in S : list[i].type \in Separated /\ s[Place(S, i) + 1].type = "," BY <1>1 DEF CommasIn
<1>4. q \in 1..Len(s) /\ q /= Len(s) BY <1>2
<1>5. ~\E i \in S : q = Place(S, i) + 1
  <2>1. s[q].type /= "," OBVIOUS
  <2> QED BY <2>1, <1>3
<1>6. PICK i \in 1..Len(list) : q = Place(S, i) BY <1>2, <1>4, <1>5 DEF HasPlace
<1>7. s[q] = list[i] /\ i \notin S BY <1>2, <1>6, <1>3, SeparatedIs
<1>8. i /= Len(list)
  <2>1. i = Len(list) => Len(s) = Place(S, i) + IF i \in S THEN 1 ELSE 0 BY <1>2 DEF Placed
  <2>2. i = Len(list) => Len(s) = q + 0 BY <2>1, <1>6, <1>7
  <2>3. q + 0 = q BY <1>4
  <2> QED BY <2>2, <2>3, <1>4
<1> DEFINE j == i + 1
<1>9. i \in 1..Len(list) - 1 /\ j \in 1..Len(list) BY <1>2, <1>8
<1>10. s[q + 1] = list[j]
  <2>1. Place(S, j) = Place(S, i) + IF i \in S THEN 2 ELSE 1 BY <1>2, <1>9 DEF Placed
  <2>2. Place(S, j) = q + 1 BY <2>1, <1>6, <1>7
  <2> QED BY <2>2, <1>2, <1>9
<1>11. Begun(list, i)
  <2>1. DOMAIN list = 1..Len(list) BY LenProperties
  <2>2. TypeAt(list, j) = list[j].type BY <2>1, <1>9 DEF TypeAt
  <2> QED BY <2>2, <1>7, <1>10 DEF Begun
<1>12. EndsLine(t, list, list[i].at) BY <1>7, <1>9, <1>11 DEF EndsWhen
<1>13. PICK k \in 1..Len(list) : list[k].type = "end_type" /\ list[k].at = LineEnd(t, list[i].at)
  BY <1>12 DEF EndsLine
<1> QED BY <1>2, <1>7, <1>13 DEF EndsLine

------------------------------------------------------------------------------
(* The scanner is abreast of the text until its end.                            *)

LEMMA EarlierTokens ==
  ASSUME Shape, Steps
  PROVE  /\ errors' = {} => errors = {}
         /\ Conforming(text, tokens') => Conforming(text, tokens)
         /\ BeginsWithEnd(tokens) => BeginsWithEnd(tokens')
<1>1. tokens \in Seq(Tok) BY DEF Shape
<1>2. (\E type, p, q : Adds(type, p, q)) => errors' = errors /\ \E k \in Tok : tokens' = Append(tokens, k)
  <2> SUFFICES ASSUME NEW type, NEW p, NEW q, Adds(type, p, q)
               PROVE  errors' = errors /\ \E k \in Tok : tokens' = Append(tokens, k)
    OBVIOUS
  <2>1. type \in TokenTypes /\ p \in Nat /\ q \in Nat BY DEF Adds
  <2>2. Token(type, p, q) \in Tok BY <2>1, TokenMade
  <2> QED BY <2>2 DEF Adds
<1>3. /\ errors' = {} => errors = {}
      /\ \/ tokens' = tokens
         \/ \E k \in Tok : tokens' = Append(tokens, k)
         \/ \E j \in Tok, k \in Tok : tokens' = Append(Append(tokens, j), k)
  <2>1. CASE Quiet BY <2>1 DEF Quiet
  <2>2. CASE Fails BY <2>2 DEF Fails
  <2>3. CASE AddsSymbol \/ AddsLiteral \/ AddsNewLine \/ AddsWord
    <3>1. \E type, p, q : Adds(type, p, q) BY <2>3 DEF AddsSymbol, AddsLiteral, AddsNewLine, AddsWord
    <3> QED BY <3>1, <1>2
  <2>4. CASE AddsAnnotation
    <3>1. errors' = errors BY <2>4 DEF AddsAnnotation
    <3>2. pos' \in pos..Len(text) + 1 BY DEF Steps
    <3> QED BY <3>1, <3>2, <2>4, AnnotationAdds
  <2> QED BY <2>1, <2>2, <2>3, <2>4 DEF Steps
<1>4. ASSUME NEW k \in Tok, tokens' = Append(tokens, k)
      PROVE  /\ \A r : WithinLiteral(tokens, r) => WithinLiteral(tokens', r)
             /\ BeginsWithEnd(tokens) => BeginsWithEnd(tokens')
  BY <1>1, <1>4, LiteralAppended, StillBeginsWithEnd
<1>5. ASSUME NEW j \in Tok, NEW k \in Tok, tokens' = Append(Append(tokens, j), k)
      PROVE  /\ \A r : WithinLiteral(tokens, r) => WithinLiteral(tokens', r)
             /\ BeginsWithEnd(tokens) => BeginsWithEnd(tokens')
  <2> DEFINE m == Append(tokens, j)
  <2>1. m \in Seq(Tok) BY <1>1, Appended
  <2>2. /\ \A r : WithinLiteral(tokens, r) => WithinLiteral(m, r)
        /\ BeginsWithEnd(tokens) => BeginsWithEnd(m)
    BY <1>1, LiteralAppended, StillBeginsWithEnd
  <2>3. tokens' = Append(m, k) BY <1>5
  <2> HIDE DEF m
  <2>4. /\ \A r : WithinLiteral(m, r) => WithinLiteral(tokens', r)
        /\ BeginsWithEnd(m) => BeginsWithEnd(tokens')
    BY <2>1, <2>3, LiteralAppended, StillBeginsWithEnd
  <2> QED BY <2>2, <2>4
<1>6. /\ \A r : WithinLiteral(tokens, r) => WithinLiteral(tokens', r)
      /\ BeginsWithEnd(tokens) => BeginsWithEnd(tokens')
  BY <1>3, <1>4, <1>5
<1> QED BY <1>3, <1>6 DEF Conforming

AbreastNow == Abreast(text, tokens, pos, comment_depth, line_annotation, annotation_depth)
HeardNow == Heard(text, tokens, pos, line_annotation, annotation_depth)

(* Where no word was taken for the end of an annotation that it begins.         *)
Apart ==
  errors = {} /\ Conforming(text, tokens) =>
    /\ AbreastNow
    /\ ~BeginsWithEnd(tokens) => HeardNow

LEMMA ApartKept ==
  ASSUME Shape, Ordered(tokens, pos), Balanced, Apart, Scan, text' = text
  PROVE  Apart'
<1>1. SUFFICES ASSUME errors' = {}, Conforming(text, tokens')
               PROVE  AbreastNow' /\ (~BeginsWithEnd(tokens') => HeardNow')
  <2>1. (~BeginsWithEnd(tokens))' => ~BeginsWithEnd(tokens') BY DEF BeginsWithEnd, Char
  <2> QED BY <2>1 DEF Apart
<1>2. Steps BY ScanSteps
<1>3. /\ errors = {} /\ Conforming(text, tokens)
      /\ BeginsWithEnd(tokens) => BeginsWithEnd(tokens')
  BY <1>1, <1>2, EarlierTokens
<1>4. AbreastNow /\ (~BeginsWithEnd(tokens) => HeardNow) BY <1>3 DEF Apart
<1>5. pos \in 1..Len(text) /\ pos' \in pos..Len(text) + 1
  <2>1. pos \in 1..Len(text) + 1 /\ Len(text) \in Nat BY LenProperties DEF Shape
  <2>2. pos <= Len(text) BY DEF Scan, has_next
  <2> QED BY <2>1, <2>2, <1>2 DEF Steps
<1>6. NoStrays(text) BY <1>3 DEF Conforming, NoStrays
<1>7. Now BY <1>4, <1>5, <1>6 DEF Now, AbreastNow
<1>8. CommentMove \/ CodeMove BY <1>1, <1>5, CommentMoves, CodeMoves DEF Scan
<1>9. AbreastNow' BY <1>5, <1>7, <1>8, AbreastKept DEF AbreastNow
<1>10. ASSUME ~BeginsWithEnd(tokens') PROVE HeardNow'
  <2>1. ~BeginsWithEnd(tokens) BY <1>3, <1>10
  <2>2. BalancedAt(tokens, annotation_depth, line_annotation) BY <2>1, <1>3 DEF Balanced
  <2>3. HearNow BY <2>1, <2>2, <1>4, <1>7 DEF HearNow, HeardNow
  <2>4. Heard(text, tokens', pos', line_annotation', annotation_depth') BY <2>3, <1>5, <1>8, HeardKept
  <2> QED BY <2>4 DEF HeardNow
<1> QED BY <1>9, <1>10

LEMMA ApartInit == Init => Apart
<1> SUFFICES ASSUME Init PROVE Apart OBVIOUS
<1>1. text \in Seq(Units) /\ Len(text) \in Nat BY TextsAssumption, LenProperties DEF Init
<1>2. /\ tokens = <<>> /\ Len(tokens) = 0 /\ pos = 1 /\ comment_depth = 0 /\ annotation_depth = 0
      /\ line_annotation = FALSE
  BY DEF Init
<1>3. (\A i \in 1..0 : FALSE) /\ ~(0 > 0) OBVIOUS
<1>4. LineStart(text, 1) = 1
  <2>1. StartsAt(text, 1, LineStart(text, 1)) BY StartIs
  <2> QED BY <2>1 DEF StartsAt
<1>5. FirstOnLine(text, 1)
  <2>1. \A r \in 1..1 - 1 : FALSE OBVIOUS
  <2> QED BY <2>1, <1>4 DEF FirstOnLine
<1>6. Fits(text, 1, 0)
  <2>1. 1 \in 1..Len(text) + 1 /\ 1 - 1 = 0 BY <1>1
  <2>2. Blocks(text)[1] = NextBlocks(text, 1, 0) BY <2>1, <1>1, BlocksIs
  <2>3. ~BlockEnds(text, 1)
    <3>1. ~(1 > 1) OBVIOUS
    <3> QED BY <3>1 DEF BlockEnds
  <2>4. NextBlocks(text, 1, 0) = IF BeginsBlock(text, 1) THEN 1 ELSE 0
    BY <2>3, <1>4 DEF NextBlocks, BlockBegins, LineStarts
  <2>5. 0 + 1 = 1 OBVIOUS
  <2> QED BY <2>2, <2>4, <2>5, <1>3, <1>5 DEF Fits
<1>7. ~Commented(text, tokens, 1)
  <2>1. \A q \in 1..1 - 1 : FALSE OBVIOUS
  <2> QED BY <2>1, <1>4 DEF Commented
<1>8. AbreastNow
  <2>1. \A r \in 1..1 - 1 : FALSE OBVIOUS
  <2> QED BY <2>1, <1>2, <1>3, <1>6, <1>7 DEF AbreastNow, Abreast
<1>9. HeardNow BY <1>2, <1>3 DEF HeardNow, Heard
<1> QED BY <1>8, <1>9 DEF Apart

------------------------------------------------------------------------------
(* Comments are told apart from code.                                            *)

LEMMA SilentIs ==
  ASSUME NEW t, NEW list \in Seq(Tok), \A i \in 1..Len(list) - 1 : SilentAt(t, list, i)
  PROVE  Silent(t, list)
<1>1. Len(list) \in Nat /\ DOMAIN list = 1..Len(list) BY LenProperties
<1>2. \A i \in 1..Len(list) - 1 : i \in 1..Len(list) BY <1>1
<1>3. \A i \in 1..Len(list) - 1 : i \in InAnnotation(list) <=> ~CodeAt(list, i)
  BY <1>1, <1>2 DEF InAnnotation, CodeAt
<1> QED BY <1>3 DEF Silent, SilentAt, LastSign

LEMMA KeptIs ==
  ASSUME NEW t, NEW list \in Seq(Tok), \A r \in 1..Len(t) : KeptAt(t, list, r)
  PROVE  Kept(t, list)
<1>1. DOMAIN list = 1..Len(list) BY LenProperties
<1>2. \A r : CoveredBy(list, r) <=> r \in UNION {list[i].at..list[i].upto - 1 : i \in DOMAIN list}
  BY <1>1 DEF CoveredBy
<1> QED BY <1>2 DEF Kept, KeptAt

LEMMA EndsWithLineIs ==
  ASSUME NEW t, NEW list \in Seq(Tok), EndsSigned(t, list)
  PROVE  EndsWithLine(t, list)
<1>1. DOMAIN list = 1..Len(list) BY LenProperties
<1> QED BY <1>1 DEF EndsSigned, EndsLine, EndsWithLine

LEMMA CommentsTold ==
  ASSUME text' = text,
         status' = "scanned" /\ Conforming(text, tokens') =>
           /\ Kept(text, tokens')
           /\ ~BeginsWithEnd(tokens') => Silent(text, tokens') /\ EndsWithLine(text, tokens')
  PROVE  CommentsApart'
<1>1. (~BeginsWithEnd(tokens))' => ~BeginsWithEnd(tokens') BY DEF BeginsWithEnd, Char
<1> QED BY <1>1 DEF CommentsApart, CommentsAreSilent, CodeIsKept, AnnotationsEndWithLine, Scanned

LEMMA EndSilences ==
  ASSUME Shape, Ordered(tokens, pos), Apart, Ended, text' = text
  PROVE  CommentsApart'
<1>1. SUFFICES ASSUME status' = "scanned", Conforming(text, tokens')
               PROVE  /\ Kept(text, tokens')
                      /\ ~BeginsWithEnd(tokens') => Silent(text, tokens') /\ EndsWithLine(text, tokens')
  BY CommentsTold
<1>2. PICK list, S :
       Listed(list) /\ S = Insertions(list) /\ errors = {} /\ ~Unopened(list) /\ tokens' = Inserted(list, S)
  BY <1>1 DEF Ended
<1>3. ~has_next(pos) BY DEF Ended
<1>4. /\ list \in Seq(Tok) /\ Commas(list, S) /\ Spread(tokens', list, S) /\ Len(list) \notin S
      /\ Ordered(list, Len(text) + 1) /\ Len(list) = Len(tokens) + 1 /\ Len(list) \in Nat
      /\ Len(tokens) \in Nat /\ \A i \in 1..Len(tokens) : list[i] = tokens[i]
  BY <1>2, <1>3, ListedIs
<1>5. Len(text) \in Nat /\ pos \in Nat /\ Grows(tokens, list, pos) BY <1>2, <1>3, ListedGrows
<1>6. tokens' \in Seq(Tok) BY EndShapes DEF Shape
<1>7. Conforming(text, list) BY <1>1, <1>4, LiteralsSpread
<1>8. Conforming(text, tokens) BY <1>5, <1>7, ConformingGrown
<1>9. Abreast(text, tokens, pos, comment_depth, line_annotation, annotation_depth)
  BY <1>2, <1>8 DEF Apart, AbreastNow
<1>10. /\ \A r \in 1..Len(text) : KeptAt(text, list, r)
       /\ \A i \in 1..Len(tokens) : OneLine(text, tokens[i])
  BY <1>2, <1>3, <1>9, ListedKeeps
<1>11. Kept(text, tokens')
  <2>1. \A r \in 1..Len(text) : KeptAt(text, tokens', r) BY <1>4, <1>10, SpreadKept
  <2> QED BY <2>1, <1>6, KeptIs
<1>12. ASSUME ~BeginsWithEnd(tokens') PROVE Silent(text, tokens') /\ EndsWithLine(text, tokens')
  <2>1. ~BeginsWithEnd(list) BY <1>4, <1>12, BeginsWithEndSpread
  <2>2. ~BeginsWithEnd(tokens)
    <3> DEFINE e == Len(text) + 1
               k == Token("null", e, e)
    <3>1. e \in Nat BY <1>5
    <3> HIDE DEF e
    <3>2. k \in Tok
      <4>1. "null" \in TokenTypes BY Comma
      <4> QED BY <4>1, <3>1, TokenMade
    <3>3. list = Append(tokens, k) BY <1>2 DEF Listed, e
    <3> HIDE DEF k
    <3>4. tokens \in Seq(Tok) BY DEF Shape
    <3> QED BY <3>2, <3>3, <3>4, <2>1, StillBeginsWithEnd
  <2>3. Heard(text, tokens, pos, line_annotation, annotation_depth)
    BY <2>2, <1>2, <1>8 DEF Apart, HeardNow
  <2>4. \A i \in 1..Len(tokens) : SilentAt(text, list, i) /\ EndsWhen(text, list, i)
    BY <2>3, <1>2, <1>3, <1>9, ListedSilent
  <2>5. \A i \in 1..Len(list) - 1 : i \in 1..Len(tokens) BY <1>4
  <2>6. \A i \in 1..Len(list) - 1 : OneLine(text, list[i]) /\ SilentAt(text, list, i) /\ EndsWhen(text, list, i)
    BY <2>4, <2>5, <1>4, <1>10
  <2>7. \A q \in 1..Len(tokens') - 1 : SilentAt(text, tokens', q) BY <2>6, <1>4, <1>5, SpreadSilent
  <2>8. EndsSigned(text, tokens') BY <2>6, <1>4, SpreadEnds
  <2> QED BY <2>7, <2>8, <1>6, SilentIs, EndsWithLineIs
<1> QED BY <1>11, <1>12

CommentsInv == CommentsApart /\ (status = "scanning" => Apart)

LEMMA CommentsInit == Init => CommentsInv
BY ApartInit DEF Init, CommentsInv, CommentsApart, CommentsAreSilent, CodeIsKept, AnnotationsEndWithLine, Scanned

LEMMA CommentsNext == ScanInv /\ CommentsInv /\ [Next]_vars => CommentsInv'
<1> SUFFICES ASSUME ScanInv, CommentsInv, [Next]_vars PROVE CommentsInv' OBVIOUS
<1>1. CASE UNCHANGED vars
  BY <1>1 DEF vars, CommentsInv, CommentsApart, CommentsAreSilent, CodeIsKept, AnnotationsEndWithLine, Scanned,
              Apart, AbreastNow, HeardNow, BeginsWithEnd, Char
<1>2. CASE Scan /\ text' = text
  <2>1. status = "scanning" /\ status' = status BY <1>2 DEF Scan
  <2>2. Shape /\ Ordered(tokens, pos) /\ Balanced /\ Apart BY <2>1 DEF ScanInv, CommentsInv
  <2>3. Apart' BY <2>2, <1>2, ApartKept
  <2>4. CommentsApart'
    BY <2>1 DEF CommentsApart, CommentsAreSilent, CodeIsKept, AnnotationsEndWithLine, Scanned
  <2> QED BY <2>3, <2>4 DEF CommentsInv
<1>3. CASE EndOfText /\ status = "scanning" /\ text' = text
  <2>1. Shape /\ Ordered(tokens, pos) /\ Apart /\ Ended BY <1>3, EndIs DEF ScanInv, CommentsInv
  <2>2. status' /= "scanning" BY <2>1 DEF Ended
  <2> QED BY <2>1, <2>2, <1>3, EndSilences DEF CommentsInv
<1> QED BY <1>1, <1>2, <1>3 DEF Next

(* Comments are told apart from code, in both directions, and an annotation of  *)
(* a line ends with it, however comment blocks and annotations nest, in every   *)
(* text whose comment marks are on lines of their own: the depth that           *)
(* handle_comment counts is then that of the lines (scan.cpp:137-182, 363-447).*)
THEOREM CommentsAreApart == Spec => []CommentsApart
<1>1. CommentsInv => CommentsApart BY DEF CommentsInv
<1> QED BY <1>1, CommentsInit, CommentsNext, ScanInvInit, ScanInvNext, PTL DEF Spec

=============================================================================
