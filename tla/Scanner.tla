------------------------------- MODULE Scanner -------------------------------
(* scan/scan.cpp and scan/token_manipulation.cpp: from the text of a file to   *)
(* its tokens. A text is a sequence of units: a character, or a run of letters *)
(* written as one word ("function", "T", "x"); the unit "newline" is '\n'. A    *)
(* file that is not UTF-8 is refused before it is scanned.                       *)
EXTENDS KeywordCounts, FiniteSets

CONSTANTS Texts, Words

VARIABLES text, pos, tokens, errors, line_annotation, comment_depth, annotation_depth,
          depth, unbalanced, keywords, status

(* new_line_is_type_annotation_terminator, block_comment_depth and              *)
(* type_annotation_block_depth are line_annotation, comment_depth and           *)
(* annotation_depth.                                                            *)
vars == <<text, pos, tokens, errors, line_annotation, comment_depth, annotation_depth,
          depth, unbalanced, keywords, status>>

Digits == {"1", "2"}
Letters == Words \cup {"e", "i"}
Blank == {" "}

(* The tables of keyword.cpp. *)
typing_keywords ==
  {"begin", "export", "given", "let", "namespace", "struct", "fun", "record", "declare",
   "constructor", "list", "cast", "presume"}
typing_end_terminated == {"begin", "namespace", "struct", "record"}
matlab_keywords ==
  {"break", "case", "catch", "classdef", "continue", "else", "elseif", "end", "for", "function",
   "global", "if", "otherwise", "parfor", "persistent", "return", "spmd", "switch", "try", "while",
   "import"}

(* from_symbol: the characters that are tokens of their own, or begin one. *)
Symbols == {"(", ")", "[", "]", "{", "}", "=", "<", ">", "~", ":", ";", ".", ",", "+", "-", "*", "/",
            "\\", "^", "@", "?", "'", "|", "&"}
NoLetters == Digits \cup Blank \cup Symbols \cup {"%", "\"", "newline", "null"}
Units == Letters \cup NoLetters

ASSUME TextsAssumption == Letters \cap NoLetters = {} /\ Texts \subseteq Seq(Units)

Opening == {"(", "[", "{"}
Closing == [c \in {")", "]", "}"} |-> CASE c = ")" -> "(" [] c = "]" -> "[" [] c = "}" -> "{"]

------------------------------------------------------------------------------
(* CharacterIterator. *)

Char(p) == IF p \in DOMAIN text THEN text[p] ELSE "null"
has_next(p) == p <= Len(text)

(* The first position from p on whose unit is not in the set, or the end. *)
Skip(p, set) ==
  LET beyond[q \in p..Len(text) + 1] == IF has_next(q) /\ Char(q) \in set THEN beyond[q + 1] ELSE q
  IN  IF has_next(p) THEN beyond[p] ELSE Len(text) + 1

consume_whitespace_to_new_line(p) == Skip(p, Blank)
consume_whitespace(p) == Skip(p, Blank \cup {"newline"})

consume_to_new_line(p) == Skip(p, Units \ {"newline"})

is_within_type_annotation == line_annotation \/ annotation_depth > 0

is_annotation(p) ==
  Char(p) = "@" /\ Char(p + 1) = "T" /\ Char(p + 2) \in Blank \cup {"newline"}

Token(type, p, q) == [type |-> type, at |-> p, upto |-> q]

(* One more token, and on at the unit behind it. *)
Emit(type, p, q) ==
  /\ tokens' = Append(tokens, Token(type, p, q))
  /\ pos' = q

Fail(message, q) ==
  /\ errors' = errors \cup {message}
  /\ pos' = q

------------------------------------------------------------------------------
(* identifier_or_keyword_token at p, in a line annotation or not, in so many   *)
(* blocks of an annotation. Letters and digits that run together are one word, *)
(* and only a single unit can be a keyword.                                     *)

WordAs(p, line, block, groups, step) ==
  LET q == Skip(p, Letters \cup Digits)
      lexeme == IF q = p + 1 THEN text[p] ELSE "x"
      within == line \/ block > 0
      is_keyword ==
        /\ p = 1 \/ text[p - 1] /= "."
        /\ \/ lexeme \in matlab_keywords
           \/ within /\ lexeme \in typing_keywords
           \/ ~within /\ parent_is_classdef(keywords) /\ lexeme \in classdef_keywords
      opens == lexeme \in (is_end_terminated \cup typing_end_terminated) \ {"function"}
      in_group == \E g \in groups : depth[g] > 0
      result == [type |-> lexeme, upto |-> q, block |-> block, keywords |-> keywords, error |-> ""]
      code_type == IF lexeme = "end" /\ in_group THEN "op_end" ELSE lexeme
      counted == register_keyword(keywords, code_type)
      in_code == IF counted.extraneous
                 THEN [result EXCEPT !.error = "extraneous end"]
                 ELSE [result EXCEPT !.type = code_type, !.keywords = counted]
      in_annotation ==
        CASE lexeme = "end" /\ block <= 0 -> [result EXCEPT !.block = @ - 1, !.error = "unbalanced annotation end"]
          [] lexeme = "end" /\ block > 0 -> [result EXCEPT !.block = @ - 1, !.type = "end_type"]
          [] lexeme = "function" -> [result EXCEPT !.type = "function_type"]
          [] opens /\ line -> [result EXCEPT !.error = "end-terminated annotation"]
          [] opens /\ ~line -> [result EXCEPT !.block = @ + step]
          [] OTHER -> result
  IN  IF ~is_keyword THEN [result EXCEPT !.type = "identifier"]
      ELSE IF within THEN in_annotation ELSE in_code

Word_Flat(p, line, block) ==
  (* Mutant: the blocks within an annotation are not counted. *)
  WordAs(p, line, block, {"(", "{"}, 0)

Word_Braced(p, line, block) ==
  (* Mutant: an end within parentheses ends a block. *)
  WordAs(p, line, block, {"{"}, 1)

Word(p, line, block) == WordAs(p, line, block, {"(", "{"}, 1)

IdentifierOrKeyword ==
  /\ Char(pos) \in Letters
  /\ LET word == Word(pos, line_annotation, annotation_depth)
     IN  /\ annotation_depth' = word.block
         /\ keywords' = word.keywords
         /\ \/ word.error = "" /\ Emit(word.type, pos, word.upto) /\ UNCHANGED errors
            \/ word.error /= "" /\ Fail(word.error, word.upto) /\ UNCHANGED tokens
  /\ UNCHANGED <<line_annotation, comment_depth, depth, unbalanced>>

(* Digits with at most one period, an exponent, and an imaginary unit. What is *)
(* taken for an exponent need not have a digit.                                 *)
number_literal_end(p) ==
  LET q == Skip(p, Digits)
      dotted == IF Char(q) = "." THEN Skip(q + 1, Digits) ELSE q
      signed == IF Char(dotted + 1) \in {"+", "-"} THEN 2 ELSE 1
      exponent == IF Char(dotted) = "e"
                  THEN Skip(IF dotted + signed > Len(text) THEN Len(text) + 1 ELSE dotted + signed, Digits)
                  ELSE dotted
  IN  IF Char(exponent) = "i" THEN exponent + 1 ELSE exponent

NumberLiteral ==
  /\ Char(pos) \in Digits \/ (Char(pos) = "." /\ Char(pos + 1) \in Digits)
  /\ Emit("number", pos, number_literal_end(pos))
  /\ UNCHANGED <<errors, line_annotation, comment_depth, annotation_depth, depth, unbalanced, keywords>>

can_precede_apostrophe(p) ==
  p > 1 /\ Char(p - 1) \in {"'", "."} \cup Digits \cup Letters \cup DOMAIN Closing

(* The terminator that is not doubled, from p on. *)
literal_end(from, terminator) ==
  LET stop[p \in from..Len(text) + 1] ==
        CASE Char(p) = terminator /\ Char(p + 1) = terminator -> stop[p + 2]
          [] Char(p) = terminator /\ Char(p + 1) /= terminator -> p
          [] Char(p) /= terminator /\ has_next(p) -> stop[p + 1]
          [] OTHER -> p
  IN  stop[from]

Literal(type) ==
  LET stop == literal_end(pos + 1, text[pos])
  IN  /\ \/ /\ has_next(stop)
            /\ tokens' = Append(tokens, Token(type, pos + 1, stop))
            /\ pos' = stop + 1
            /\ UNCHANGED errors
         \/ ~has_next(stop) /\ Fail("unterminated literal", stop) /\ UNCHANGED tokens
      /\ UNCHANGED <<line_annotation, comment_depth, annotation_depth, depth, unbalanced, keywords>>

StringLiteral == Char(pos) = "\"" /\ Literal("string")
CharLiteral == Char(pos) = "'" /\ ~can_precede_apostrophe(pos) /\ Literal("char")

NewLine ==
  /\ Char(pos) = "newline"
  /\ Emit(IF line_annotation THEN "end_type" ELSE "newline", pos, pos + 1)
  /\ line_annotation' = FALSE
  /\ UNCHANGED <<errors, comment_depth, annotation_depth, depth, unbalanced, keywords>>

------------------------------------------------------------------------------
(* handle_punctuation. *)

(* The operators of two characters. *)
DoubledSymbols ==
  {<<".", "*", ".*">>, <<".", "/", "./">>, <<".", "\\", ".\\">>, <<".", "^", ".^">>, <<".", "'", ".'">>,
   <<"<", "=", "<=">>, <<">", "=", ">=">>, <<"=", "=", "==">>, <<"~", "=", "~=">>,
   <<"&", "&", "&&">>, <<"|", "|", "||">>, <<":", ":", "::">>}

Doubled(p) ==
  {s \in DoubledSymbols : /\ s[1] = Char(p) /\ s[2] = Char(p + 1)
                          /\ s[3] = "::" => is_within_type_annotation}

Grouped(c) ==
  CASE c \in Opening -> [depth EXCEPT ![c] = @ + 1]
    [] c \in DOMAIN Closing -> [depth EXCEPT ![Closing[c]] = @ - 1]
    [] OTHER -> depth

IsLiteralStart(p) ==
  \/ Char(p) \in Letters \cup Digits \cup {"%", "newline", "\""}
  \/ Char(p) = "." /\ Char(p + 1) \in Digits
  \/ Char(p) = "'" /\ ~can_precede_apostrophe(p)

Ellipsis ==
  /\ Char(pos) = "." /\ Char(pos + 1) = "." /\ Char(pos + 2) = "."
  /\ pos' = LET q == consume_to_new_line(pos + 3) IN IF Char(q) = "newline" THEN q + 1 ELSE q
  /\ UNCHANGED <<tokens, errors, line_annotation, comment_depth, annotation_depth, depth, unbalanced, keywords>>

(* A space, or a character that is no token. *)
Nothing ==
  /\ Char(pos) \notin Symbols
  /\ ~IsLiteralStart(pos)
  /\ pos' = pos + 1
  /\ UNCHANGED <<tokens, errors, line_annotation, comment_depth, annotation_depth, depth, unbalanced, keywords>>

Symbol ==
  LET c == Char(pos)
      two == Doubled(pos) /= {}
      q == IF two THEN pos + 2 ELSE pos + 1
      grouped == Grouped(c)
  IN  /\ c \in Symbols
      /\ ~IsLiteralStart(pos)
      /\ ~(c = "." /\ Char(pos + 1) = "." /\ Char(pos + 2) = ".")
      /\ depth' = grouped
      /\ \/ /\ grouped /= depth /\ ~unbalanced /\ \E g \in Opening : grouped[g] < 0
            /\ unbalanced' = TRUE
            /\ Fail("unbalanced grouping", q)
            /\ UNCHANGED tokens
         \/ /\ ~(grouped /= depth /\ ~unbalanced /\ \E g \in Opening : grouped[g] < 0)
            /\ Emit(IF two THEN (CHOOSE s \in Doubled(pos) : TRUE)[3] ELSE c, pos, q)
            /\ UNCHANGED <<errors, unbalanced>>
      /\ UNCHANGED <<line_annotation, comment_depth, annotation_depth, keywords>>

------------------------------------------------------------------------------
(* handle_comment. *)

(* handle_type_annotation_initializer: the annotation lasts to the end of the  *)
(* line, unless the word behind the @T of a comment block is begin. An error   *)
(* in that word is dropped by the caller, and so is the word.                   *)
Annotation(p, in_block) ==
  LET q == IF in_block THEN consume_whitespace_to_new_line(p + 2) ELSE p + 2
      word == Word(q, FALSE, annotation_depth + 1)
      macro == Append(tokens, Token("@T", p, p + 2))
  IN  IF in_block /\ Char(q) \in Letters
      THEN /\ pos' = word.upto
           /\ annotation_depth' = word.block - 1
           /\ keywords' = word.keywords
           /\ line_annotation' = (word.error = "" /\ word.type /= "begin")
           /\ tokens' = IF word.error = "" THEN Append(macro, Token(word.type, q, word.upto)) ELSE macro
      ELSE /\ pos' = q
           /\ line_annotation' = TRUE
           /\ tokens' = macro
           /\ UNCHANGED <<annotation_depth, keywords>>

AtLineEnd(p) == Char(p) = "newline" \/ ~has_next(p)

(* A mark is followed by the end of its line, or by anything. *)
CommentAs(anywhere) ==
  LET brace == Char(pos + 1)
      blank == consume_whitespace_to_new_line(IF brace \in {"{", "}"} THEN pos + 2 ELSE pos + 1)
      starts == brace = "{" /\ (anywhere \/ AtLineEnd(blank)) /\ has_next(blank)
      ends == brace = "}" /\ comment_depth > 0 /\ (anywhere \/ AtLineEnd(blank))
      q == IF starts \/ ends THEN consume_whitespace(blank) ELSE blank
  IN  /\ Char(pos) = "%"
      /\ comment_depth' = IF starts THEN comment_depth + 1 ELSE IF ends THEN comment_depth - 1 ELSE comment_depth
      /\ \/ /\ ends /\ annotation_depth > 0
            /\ Fail("annotation beyond its comment block", q)
            /\ UNCHANGED <<tokens, line_annotation, annotation_depth, keywords>>
         \/ /\ ~ends /\ is_annotation(q) /\ is_within_type_annotation
            /\ Fail("nested annotation", q)
            /\ UNCHANGED <<tokens, line_annotation, annotation_depth, keywords>>
         \/ /\ ~ends /\ is_annotation(q) /\ ~is_within_type_annotation
            /\ Annotation(q, starts)
            /\ UNCHANGED errors
         \/ /\ IF ends THEN annotation_depth <= 0 ELSE ~is_annotation(q)
            /\ pos' = IF starts \/ ends THEN q ELSE consume_to_new_line(q)
            /\ UNCHANGED <<tokens, errors, line_annotation, annotation_depth, keywords>>
      /\ UNCHANGED <<depth, unbalanced>>

Comment_Anywhere ==
  (* Mutant: a mark may be followed by more on its line. *)
  CommentAs(TRUE)

Comment == CommentAs(FALSE)

InsideComment ==
  /\ Char(pos) /= "%"
  /\ comment_depth > 0 /\ ~is_within_type_annotation
  /\ pos' = pos + 1
  /\ UNCHANGED <<tokens, errors, line_annotation, comment_depth, annotation_depth, depth, unbalanced, keywords>>

Code ==
  /\ comment_depth <= 0 \/ is_within_type_annotation
  /\ IdentifierOrKeyword \/ NumberLiteral \/ NewLine \/ StringLiteral \/ CharLiteral
       \/ Ellipsis \/ Nothing \/ Symbol

------------------------------------------------------------------------------
(* insert_implicit_expr_delimiters. *)

Operands == {"identifier", "op_end", "string", "char", "number"}

can_insert_comma_between(a, b) ==
  /\ a.type \in Operands \cup DOMAIN Closing \cup {"'", ".'"}
  /\ b.at > a.upto
  /\ b.type \in Operands \cup Opening

TypeAt(list, i) == IF i \in DOMAIN list THEN list[i].type ELSE "null"

(* How many more of the one than of the other there are up to a token. *)
Nesting(list, opening, closing) ==
  LET n[i \in 0..Len(list)] ==
        IF i = 0 THEN 0
        ELSE n[i - 1] + (CASE list[i].type = opening -> 1 [] list[i].type = closing -> -1 [] OTHER -> 0)
  IN  n

(* next_r_parens_is_anon_func_input_term behind each token. *)
AwaitsInputs(list) ==
  LET w[i \in 0..Len(list)] ==
        CASE i = 0 -> FALSE
          [] TypeAt(list, i) = "@" /\ TypeAt(list, i + 1) = "(" -> TRUE
          [] TypeAt(list, i) = ")" -> FALSE
          [] OTHER -> w[i - 1]
  IN  w

Insertions(list) ==
  LET bracket == Nesting(list, "[", "]")
      brace == Nesting(list, "{", "}")
      awaits == AwaitsInputs(list)
  IN  {i \in DOMAIN list :
         IF awaits[i - 1] /\ list[i].type = ")" THEN TRUE
         ELSE /\ bracket[i] > 0 \/ brace[i] > 0
              /\ i < Len(list)
              /\ can_insert_comma_between(list[i], list[i + 1])}

InsertBehind(list, i) ==
  SubSeq(list, 1, i) \o <<Token(",", list[i].upto, list[i].upto)>> \o SubSeq(list, i + 1, Len(list))

InsertedUnshifted(list, insertions) ==
  (* Mutant: the tokens inserted before are not counted. *)
  LET result[i \in 0..Len(list)] ==
        CASE i = 0 -> list
          [] i \in insertions -> InsertBehind(result[i - 1], i)
          [] OTHER -> result[i - 1]
  IN  result[Len(list)]

(* The tokens are inserted one at a time, each shifted by those before it: the *)
(* list behind each token.                                                        *)
InsertedUpTo(list, insertions) ==
  LET offset(i) == Cardinality({j \in insertions : j < i})
      result[i \in 0..Len(list)] ==
        CASE i = 0 -> list
          [] i \in insertions -> InsertBehind(result[i - 1], i + offset(i))
          [] OTHER -> result[i - 1]
  IN  result

Inserted(list, insertions) == InsertedUpTo(list, insertions)[Len(list)]

Unopened(list) ==
  \E i \in DOMAIN list : Nesting(list, "[", "]")[i] < 0 \/ Nesting(list, "{", "}")[i] < 0

(* The null token, the delimiters, and a refusal if a bracket or a brace is    *)
(* closed that was not open.                                                    *)
EndOfText ==
  /\ ~has_next(pos)
  /\ \E list \in {Append(tokens, Token("null", Len(text) + 1, Len(text) + 1))} :
       \E insertions \in {Insertions(list)} :
         IF errors = {} /\ ~Unopened(list)
         THEN status' = "scanned" /\ tokens' = Inserted(list, insertions)
         ELSE status' = "failed" /\ tokens' = list
  /\ UNCHANGED <<pos, errors, line_annotation, comment_depth, annotation_depth, depth, unbalanced, keywords>>

Init ==
  /\ text \in Texts
  /\ pos = 1
  /\ tokens = <<>> /\ errors = {}
  /\ line_annotation = FALSE /\ comment_depth = 0 /\ annotation_depth = 0
  /\ depth = [g \in Opening |-> 0] /\ unbalanced = FALSE
  /\ keywords = NoKeywords
  /\ status = "scanning"

Scan == has_next(pos) /\ status = "scanning" /\ (Comment \/ InsideComment \/ Code) /\ UNCHANGED status

Next ==
  /\ status = "scanning"
  /\ Scan \/ EndOfText
  /\ UNCHANGED text

Spec == Init /\ [][Next]_vars

functions_are_end_terminated == ~is_non_end_terminated_function_file(keywords)

=============================================================================
