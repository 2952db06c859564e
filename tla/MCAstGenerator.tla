--------------------------- MODULE MCAstGenerator ---------------------------
(* The parser on a set of programs, on every program that differs from one of  *)
(* them in one token, and on short sequences of operands and operators.        *)
EXTENDS AstProperties

MCNames == {"x", "y", "f", "g", "C", "Static", "true", "method", "scalar", "struct", "varargin"}

NL == "newline"
TE == "end@T"

(* One program per production, or nearly. *)
FunctionPrograms ==
  { <<"function", "f", NL, "x", "=", "y", ";", NL, "end", NL, "function", "g", NL, "end">>,
    <<"function", "f", NL, "x", NL, "function", "y", "=", "g", "(", "x", ")", NL, "y", "=", "x", NL>>,
    <<"function", "[", "x", ",", "y", "]", "=", "f", "(", "x", ",", "~", ",", "varargin", ")", NL,
      "function", "g", NL, "end", NL, "end">>,
    <<"x", "=", "y", ";", NL, "function", "f", NL, "return", NL, "end">> }

StatementPrograms ==
  { <<"if", "x", NL, "y", "=", "x", NL, "elseif", "y", NL, "else", NL, "x", NL, "end">>,
    <<"for", "x", "=", "number", ":", "y", NL, "break", ";", "end", NL, "x">>,
    <<"for", "(", "x", "=", "y", ")", NL, "continue", NL, "end">>,
    <<"while", "x", NL, "try", NL, "x", NL, "catch", "y", NL, "g", NL, "end", NL, "end">>,
    <<"switch", "x", NL, "case", "number", NL, "y", NL, "otherwise", NL, "x", NL, "end", NL>>,
    <<"global", "x", "y", NL, "import", "x", ".", "y", "g", ".*", NL, "f", "string", NL>>,
    <<"[", "x", ",", "~", "]", "=", "f", "(", "y", ",", ":", ")", ";", NL, "x", ".", "y", "{", "op_end", "}",
      "(", "x", ")", "=", "@", "f", NL>>,
    <<"x", "=", "@", "(", "y", ")", ",", "-", "y", "'", NL, "x", "=", "{", "number", ",", "x", ";",
      "y", "}", NL, "g", "@", "x", "(", "y", ")">> }

ClassPrograms ==
  { <<"classdef", "C", "<", "x", "&", "y", NL, "properties", NL, "x", "=", "number", ";", "y", NL, "end", NL,
      "methods", "(", "Static", "=", "true", ")", NL, "function", "f", NL, "end", NL, "end", NL, "end">>,
    <<"classdef", "C", NL, "methods", NL, "function", "x", "=", "C", NL, "end", NL, "g", "(", "x", ")", NL, "x", NL,
      "@T", "::", "x", TE, "function", "f", "(", "x", ")", NL, "end", NL, "end", NL, "end",
      NL, "function", "g", NL, "end">>,
    <<"classdef", "C", NL, "properties", NL, "@T", "::", "y", TE, "x", "=", "y", NL, "end", NL, "end">> }

TypePrograms ==
  { <<"@T", "begin", "export", NL, "let", "x", "=", "y", "|", "f", "<", "x", ">", NL, "let", "y", "=",
      "{", "x", ",", "?", "}", NL, TE>>,
    <<"@T", "begin", NL, "record", "x", NL, "y", ":", "[", "x", "]", "=", "(", "y", ")", NL, TE, NL,
      "namespace", "g", NL, "let", "x", "=", "list", "<", "y", ">", NL, TE, NL, TE>>,
    <<"@T", "begin", NL, "declare", "scalar", "x", NL, "declare", "method", "C", "+", "::", "[", "]", "=",
      "(", ")", NL, "declare", "function_type", "g", "::", "[", "x", "]", "=", "(", ")", NL, TE>>,
    <<"@T", "declare", "classdef", "C", NL, "x", ":", "y", NL, TE, NL,
      "@T", "given", "<", "x", ",", "y", ">", "record", "g", "x", ":", "y", TE>>,
    <<"@T", "::", "given", "x", "[", "]", "=", "(", "x", ")", TE, "function", "f", NL, "end", NL>>,
    <<"function", "f", NL, "@T", "begin", "export", NL, "let", "x", "=", "y", NL, TE, NL, "end", NL,
      "@T", "begin", "export", NL, "let", "g", "=", "y", NL, TE>>,
    <<"@T", "fun", TE, "x", "=", "@", "(", "y", ")", ",", "y", NL, "@T", "cast", "x", TE, "x", "=", "y", NL,
      "@T", "constructor", TE, "x", "=", "struct", "(", "string", ",", "y", ")", NL, "@T", "import", "x">> }

Programs == FunctionPrograms \cup StatementPrograms \cup ClassPrograms \cup TypePrograms

(* Annotations are scanned without the keywords of the code around them: an    *)
(* end of theirs is written end@T. What is within () and {} cannot end either. *)
Counted(list) ==
  LET k[i \in 0..Len(list)] == IF i = 0 THEN NoKeywords ELSE register_keyword(k[i - 1], list[i])
  IN  k[Len(list)]

(* A scanned file ends with a null token. *)
File(list, start, package) ==
  [list |-> Append(list, "null"), end_terminated |-> ~is_non_end_terminated_function_file(Counted(list)),
   start |-> start, package |-> package]

Brackets == {"(", ")", "[", "]", "{", "}"}
(* What may stand in a token's place: the brackets stay balanced, and within   *)
(* an annotation or a subscript end and function are scanned as other tokens.  *)
FaultTokens(list) ==
  {"x", "=", ","} \cup (IF \E i \in DOMAIN list : list[i] \in {"@T", "op_end"}
                        THEN {} ELSE {"end", "function"})

Faulty(list) ==
  LET places == {i \in DOMAIN list : list[i] \notin Brackets}
  IN  {SubSeq(list, 1, i - 1) \o SubSeq(list, i + 1, Len(list)) : i \in places}
        \cup {[list EXCEPT ![i] = t] : i \in places, t \in FaultTokens(list)}

FaultyPrograms == {l \in UNION {Faulty(p) : p \in Programs} : ~Counted(l).extraneous}

ExpressionTokens == {"x", "+", "*", "<", "-", "'"}
Expressions == UNION {[1..n -> ExpressionTokens] : n \in 1..5}

(* x op x op ... with up to four operators. *)
Chains ==
  UNION {{[i \in 1..2 * n + 1 |-> IF i % 2 = 1 THEN "x" ELSE o[i \div 2]] :
            o \in [1..n -> {"<", "+", "*", "^"}]} : n \in 3..4}

ExternalMethods ==
  {<<"function", "f", "(", "x", ")", NL, "end">>,
   <<"function", "f", "(", "x", ")", NL, "end", NL, "function", "g", NL, "end">>}

External(list) ==
  [list |-> Append(list, "null"), end_terminated |-> TRUE, start |-> "external", package |-> <<>>, class |-> <<"C">>,
   scope |-> [functions |-> {}, classes |-> {<<"C">>}, types |-> {<<"C">>}, exports |-> {<<"C">>}, imports |-> 0]]

MCFiles ==
  {File(p, "block", <<>>) : p \in Programs \cup FaultyPrograms}
    \cup {File(p, "block", <<"y">>) : p \in FunctionPrograms \cup ClassPrograms}
    \cup {File(e, "expr", <<>>) : e \in Expressions \cup Chains}
    \cup {External(p) : p \in ExternalMethods}

------------------------------------------------------------------------------
(* The expressions parsed. *)

(* The tokens an expression is made of, from left to right. *)
RECURSIVE Yield(_)
Yield(e) ==
  CASE e.kind = "binary" -> Yield(e.parts[1]) \o <<e.at>> \o Yield(e.parts[2])
    [] e.kind = "unary" /\ e.names[1] \in PostfixOperators -> Yield(e.parts[1]) \o <<e.at>>
    [] e.kind = "unary" -> <<e.at>> \o Yield(e.parts[1])
    [] OTHER -> <<e.at>>

Juxtaposed(list) ==
  \E i \in 1..Len(list) - 1 : list[i] \in {"x", "'"} /\ list[i + 1] = "x"

Operators(list) == {i \in 2..Len(list) : list[i] \in BinaryOperators /\ list[i - 1] \in {"x", "'"}}

RECURSIVE WellBound(_)
WellBound(e) ==
  CASE e.kind = "binary" ->
         LET strength(part) == IF part.kind = "binary" THEN precedence(part.names[1]) ELSE 9
             own == precedence(e.names[1])
         IN  /\ WellBound(e.parts[1]) /\ WellBound(e.parts[2])
             /\ own <= strength(e.parts[1]) /\ own < strength(e.parts[2])
    [] e.kind = "unary" -> WellBound(e.parts[1])
    [] OTHER -> TRUE

Written == SubSeq(tokens.list, 1, Len(tokens.list) - 1)
AcceptedExpression == Parsed /\ Len(gen.vals) = 1 /\ Look(gen) = "null"

(* An expression that is accepted, and that does not set two operands side by  *)
(* side, is the tree of all its tokens in the order they are written, whatever *)
(* the operators were set aside for in between.                                *)
TokensInOrder ==
  AcceptedExpression /\ ~Juxtaposed(Written) =>
    Yield(gen.vals[1]) = [i \in DOMAIN Written |-> i]

(* An operand binds to the stronger of the operators at its sides, and of two  *)
(* equal ones to the left one (lang_components.cpp:213-248), as long as there  *)
(* are no more than two: with three, handle_binary_exprs stops one too early.  *)
PrecedenceRespected ==
  AcceptedExpression /\ ~Juxtaposed(Written) /\ Cardinality(Operators(Written)) <= 2 =>
    WellBound(gen.vals[1])

(* No program that is written correctly is refused. *)
ProgramsAccepted == Done /\ Written \in Programs => Parsed /\ ~HasNext(gen)

(* What is accepted has been read as it is written: to its end, with the        *)
(* tokens of its expressions in their order and their operators bound by their  *)
(* strength; and no program that is written correctly is refused.              *)
ParsedAsWritten == ReadToTheEnd /\ ProgramsAccepted /\ TokensInOrder /\ PrecedenceRespected

=============================================================================
