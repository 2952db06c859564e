-------------------------- MODULE ScannerProperties --------------------------
(* What the tokens of a text must be, said without the scanner's counters.     *)
EXTENDS Scanner

Finished == status /= "scanning"
Scanned == status = "scanned"

TypeOK ==
  /\ pos \in 1..Len(text) + 1
  /\ \A i \in DOMAIN tokens : tokens[i].at <= tokens[i].upto /\ tokens[i].upto <= Len(text) + 1
  /\ \A i \in 1..Len(tokens) - 1 : tokens[i].upto <= tokens[i + 1].at
  /\ line_annotation \in BOOLEAN /\ unbalanced \in BOOLEAN
  /\ comment_depth \in Nat /\ annotation_depth \in Int
  /\ status \in {"scanning", "scanned", "failed"}

------------------------------------------------------------------------------
(* The lines of a text t, as src/notes/note1.m describes them. *)

LineStart(t, p) ==
  CHOOSE s \in 1..p : (s = 1 \/ t[s - 1] = "newline") /\ \A r \in s..p - 1 : t[r] /= "newline"

LineEnd(t, p) ==
  CHOOSE e \in p..Len(t) + 1 : (e = Len(t) + 1 \/ t[e] = "newline") /\ \A r \in p..e - 1 : t[r] /= "newline"

(* The two characters of a mark, with nothing but blanks behind them. *)
Mark(t, p, brace) ==
  /\ p < Len(t) /\ t[p] = "%" /\ t[p + 1] = brace
  /\ \A r \in p + 2..LineEnd(t, p) - 1 : t[r] \in Blank

FirstOnLine(t, p) == \A r \in LineStart(t, p)..p - 1 : t[r] \in Blank

(* A line that holds only a mark. The last line of a text begins no block. *)
Alone(t, p, brace) == \E q \in LineStart(t, p)..LineEnd(t, p) - 1 : Mark(t, q, brace) /\ FirstOnLine(t, q)
BeginsBlock(t, p) == Alone(t, p, "{") /\ LineEnd(t, p) <= Len(t)
EndsBlock(t, p) == Alone(t, p, "}")

(* How many comment blocks each line is within, its marks included. *)
Blocks(t) ==
  LET d[q \in 0..Len(t) + 1] ==
        IF q = 0 THEN 0
        ELSE LET before == d[q - 1]
                 closed == q > 1 /\ t[q - 1] = "newline" /\ EndsBlock(t, q - 1) /\ before > 0
                 opened == LineStart(t, q) = q /\ BeginsBlock(t, q)
             IN  before - (IF closed THEN 1 ELSE 0) + (IF opened THEN 1 ELSE 0)
  IN  d

(* A mark at the end of a line that holds more than the mark. *)
StrayMark(t, p) == (Mark(t, p, "{") \/ Mark(t, p, "}")) /\ ~FirstOnLine(t, p)

IsLiteral(t) == t.type \in {"string", "char"}

WithinLiteral(list, p) ==
  \E i \in 1..Len(list) : IsLiteral(list[i]) /\ p \in list[i].at..list[i].upto - 1

(* Marks on lines of their own, literals that end on their line, and lines     *)
(* that are not continued.                                                      *)
Conforming(t, list) ==
  \A p \in 1..Len(t) :
    /\ ~StrayMark(t, p)
    /\ ~(t[p] = "newline" /\ WithinLiteral(list, p))
    /\ ~(t[p] = "." /\ p < Len(t) /\ t[p + 1] = ".")

Commented(t, list, p) == \E q \in LineStart(t, p)..p - 1 : t[q] = "%" /\ ~WithinLiteral(list, q)

(* How many annotations are open behind each token; the block of an annotation *)
(* that begins with begin is counted at that word.                              *)
Opens(list, i) ==
  \/ list[i].type = "@T" /\ TypeAt(list, i + 1) /= "begin"
  \/ list[i].type = "begin"

OpenBehind(list, i, before) ==
  LET nests == list[i].type \in is_end_terminated \cup typing_end_terminated
  IN  CASE Opens(list, i) -> before + 1
        [] list[i].type = "end_type" -> before - 1
        [] nests /\ ~Opens(list, i) /\ before > 0 -> before + 1
        [] OTHER -> before

Open(list) ==
  LET a[i \in 0..Len(list)] == IF i = 0 THEN 0 ELSE OpenBehind(list, i, a[i - 1])
  IN  a

InAnnotation(list) ==
  LET open == Open(list)
  IN  {i \in DOMAIN list : open[i - 1] > 0 \/ list[i].type = "@T" \/ (i > 1 /\ list[i - 1].type = "@T")}

(* An annotation whose first word is end: the block that is opened for the time *)
(* of reading a begin is closed by it (scan.cpp:435-440).                        *)
BeginsWithEnd(list) ==
  \E i \in 2..Len(list) : list[i - 1].type = "@T" /\ Char(list[i].at) = "end"

(* In a text that is accepted every annotation ends before the next begins,    *)
(* and as often as it has begun; the last may lack its end, and an annotation  *)
(* that begins with end has two.                                                *)
AnnotationsNest ==
  Scanned /\ ~BeginsWithEnd(tokens) =>
    LET open == Open(tokens)
    IN  \A i \in DOMAIN tokens : open[i] >= 0 /\ (tokens[i].type = "@T" => open[i - 1] = 0)

(* No comment is taken for code, and no code for a comment's annotation: what  *)
(* is not part of an annotation has no % before it on its line and is in no    *)
(* comment block, and an annotation of a comment block does not leave it.      *)
Silent(t, list) ==
  LET annotated == InAnnotation(list)
      blocks == Blocks(t)
  IN  \A i \in 1..Len(list) - 1 :
        IF i \in annotated
        THEN \E j \in 1..i : /\ list[j].type = "@T"
                             /\ \A k \in j + 1..i : list[k].type /= "@T"
                             /\ blocks[list[j].at] > 0 => blocks[list[i].at] > 0
        ELSE \/ list[i].at = list[i].upto
             \/ /\ blocks[list[i].at] = 0
                /\ list[i].type = "newline" \/ ~Commented(t, list, list[i].at)

CommentsAreSilent == Scanned /\ Conforming(text, tokens) /\ ~BeginsWithEnd(tokens) => Silent(text, tokens)

(* And no code is lost: a word outside of comments and literals is a token, or *)
(* part of one.                                                                  *)
Kept(t, list) ==
  LET blocks == Blocks(t)
      covered == UNION {list[i].at..list[i].upto - 1 : i \in DOMAIN list}
  IN  \A p \in 1..Len(t) : t[p] \in Words /\ blocks[p] = 0 /\ ~Commented(t, list, p) => p \in covered

CodeIsKept == Scanned /\ Conforming(text, tokens) => Kept(text, tokens)

(* note1.m:16-17: an annotation of a single line is terminated with a new line *)
(* or the end of the file ...                                                     *)
EndsWithLine(t, list) ==
  \A i \in 1..Len(list) - 1 :
    list[i].type = "@T" /\ list[i + 1].type /= "begin" /\ LineEnd(t, list[i].at) <= Len(t) =>
      \E j \in DOMAIN list : list[j].type = "end_type" /\ list[j].at = LineEnd(t, list[i].at)

(* ... which holds for texts whose comment marks are on lines of their own, and *)
(* whose annotations do not begin with end: a second one of these does not end. *)
AnnotationsEndWithLine ==
  Scanned /\ Conforming(text, tokens) /\ ~BeginsWithEnd(tokens) => EndsWithLine(text, tokens)

(* Annotations end as often as they begin, however they are nested in comments: *)
(* the depths the scanner counts them with, which may become negative, stay in   *)
(* step with the tokens, and the tokens with the text.                            *)
AnnotationsEnd == TypeOK /\ AnnotationsNest

(* Comments are told apart from code, in both directions, and an annotation ends *)
(* with the line of its comment.                                                  *)
CommentsApart == CommentsAreSilent /\ CodeIsKept /\ AnnotationsEndWithLine

------------------------------------------------------------------------------
(* The keywords that wait for an end. *)

CodeTokens(list) == DOMAIN list \ InAnnotation(list)

(* The keywords that are left open: an end closes the last that is open, from  *)
(* which on there are as many ends as keywords.                                 *)
Openers(list) == {i \in CodeTokens(list) : list[i].type \in is_end_terminated}
Ends(list) == {i \in CodeTokens(list) : list[i].type = "end"}
Within(set, i, j) == Cardinality({k \in set : k >= i /\ k <= j})

LeftOpen(list) ==
  {i \in Openers(list) :
     \A j \in Ends(list) : j > i => Within(Openers(list), i, j) /= Within(Ends(list), i, j)}

(* The functions of a file have no end if and only if functions, and nothing   *)
(* else, are left without one.                                                   *)
EndTermination ==
  Scanned /\ ~BeginsWithEnd(tokens) =>
    LET left == LeftOpen(tokens)
    IN  functions_are_end_terminated <=> left = {} \/ \E i \in left : tokens[i].type /= "function"

(* An end within parentheses or braces is a subscript, every other one ends a  *)
(* block.                                                                        *)
EndsOfBlocks ==
  Scanned /\ ~BeginsWithEnd(tokens) =>
    \A i \in CodeTokens(tokens) :
      LET count(type) == Cardinality({j \in 1..i : tokens[j].type = type})
          grouped == count("(") > count(")") \/ count("{") > count("}")
      IN  tokens[i].type \in {"end", "op_end"} => (grouped <=> tokens[i].type = "op_end")

(* Each end is taken for what it ends.                                           *)
EndsMatched == EndTermination /\ EndsOfBlocks

------------------------------------------------------------------------------
(* The delimiters that are only implied. *)

Implied(list, i) == list[i].type = "," /\ list[i].at = list[i].upto
Written(list) == {i \in DOMAIN list : ~Implied(list, i)}
NextWritten(list, i) == CHOOSE j \in Written(list) : j > i /\ \A k \in i + 1..j - 1 : k \notin Written(list)

(* Behind the inputs of an anonymous function. *)
BehindInputs(list, i) ==
  /\ list[i].type = ")"
  /\ \E j \in Written(list) : /\ j < i /\ list[j].type = "@" /\ list[j + 1].type = "("
                               /\ \A k \in j..i - 1 : list[k].type /= ")"

InMatrix(list, i) ==
  LET opened == {j \in Written(list) : j <= i /\ list[j].type \in {"[", "{"}}
      closed == {j \in Written(list) : j <= i /\ list[j].type \in {"]", "}"}}
  IN  Cardinality(opened) > Cardinality(closed)

SideBySide(list, i) ==
  LET next == list[NextWritten(list, i)]
  IN  /\ list[i].type \in Operands \cup {")", "]", "}", "'", ".'"}
      /\ next.type \in Operands \cup {"(", "[", "{"}
      /\ next.at > list[i].upto

Delimited(list) ==
  \A i \in Written(list) \ {Len(list)} :
    Implied(list, i + 1) <=> BehindInputs(list, i) \/ (InMatrix(list, i) /\ SideBySide(list, i))

(* Operands that stand side by side in a matrix or a cell are separated, the   *)
(* inputs of an anonymous function are separated from its body, and nothing    *)
(* else is: however many commas are inserted before.                            *)
DelimitersInserted == Scanned => Delimited(tokens)

=============================================================================
