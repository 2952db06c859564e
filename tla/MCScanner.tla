------------------------------ MODULE MCScanner ------------------------------
(* The scanner on the texts of a few lines, each taken from a set of lines.    *)
EXTENDS ScannerProperties

MCWords == {"x", "T", "C", "f", "end", "begin", "function", "if", "classdef", "methods", "let", "struct"}

(* Lines of comments and annotations. *)
CommentLines ==
  { <<"%", "{">>, <<"%", "}">>, <<"@", "T", " ", "begin">>, <<"end">>, <<"x">>,
    <<"%", " ", "@", "T", " ", ":", ":", "x">>, <<"@", "T", " ", "x">> }

MarkLines ==
  { <<" ", "%", "{", " ">>, <<"x", " ", "%", "{">>, <<"%", "}">>, <<"x", " ", "%", "}">>, <<"x", "%", "x">>,
    <<"@", "T", " ", "x", "%", "}">>, <<"%", "@", "T", " ", "x", "%", "{">>, <<"struct">>, <<"@", "T", " ", "end">>,
    <<"%", "@", "T", " ", "let", "%", "@", "T", " ", "x">>, <<"%", "{", "x">>, <<"%", "}", "x">> }

(* Lines of code with keywords, and other ones. *)
BlockLines ==
  { <<"if", " ", "x">>, <<"end">>, <<"function", " ", "f">>, <<"classdef", " ", "C">>, <<"methods">>,
    <<"x", "(", "end", ")", ";", "x", "{", "end", "}">>, <<"x", " ", ".", ".", ".", " ", "x">>,
    <<"%", " ", "@", "T", " ", ":", ":", "function">>, <<"x", "(">> }

CodeLines ==
  { <<"x", "=", "1", ".", "2", "e", "-", "1", "i">>, <<"[", "x", " ", "x", "'", " ", "(", "1", ")", "]">>,
    <<"x", ".", "end", ".", "*", "x">>, <<"x", "=", "\"", "%", "\"", "\"", "\"">>, <<"'", "x", "'", "'", "'">>,
    <<"x", "~", "=", "'">>, <<"[", "end", "]">>, <<"x", ")">>, <<"%", " ", "@", "T", " ", "struct">>,
    <<"{", "x", " ", "[", "1", " ", "1", "]", " ", "@", "(", "x", ")", "x", "}">>,
    <<"x", "=", "=", "@", "(", "x", ")", "-", "1">>, <<"x", "?", "|", "|", "x">> }

RECURSIVE TextOf(_)
TextOf(lines) ==
  IF lines = <<>> THEN <<>>
  ELSE Head(lines) \o <<"newline">> \o TextOf(Tail(lines))

Unended(t) == SubSeq(t, 1, Len(t) - 1)

CommentTexts == {TextOf(l) : l \in [1..4 -> CommentLines]}
MarkTexts == {TextOf(l) : l \in [1..3 -> MarkLines \cup CommentLines]}
CodeTexts == {TextOf(l) : l \in [1..3 -> BlockLines]}

(* The second annotation that begins with end. *)
EndsTwice ==
  LET block == <<<<"%", "{">>, <<"@", "T", " ", "end">>, <<"%", "}">>>>
  IN  {TextOf(block), TextOf(block \o block)}

AnyLines == CommentLines \cup MarkLines \cup BlockLines \cup CodeLines

MCTexts ==
  UNION {CommentTexts, MarkTexts, CodeTexts, EndsTwice,
         {TextOf(l) : l \in [1..2 -> AnyLines]}, {Unended(TextOf(l)) : l \in [1..2 -> AnyLines]}}

=============================================================================
