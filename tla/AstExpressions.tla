--------------------------- MODULE AstExpressions ---------------------------
(* The expression methods of AstGenerator. Each is the list of what it does in *)
(* order, chosen by the tokens it looks at; expr itself works on a frame that  *)
(* holds its four stacks, and its loop is the method "operand".                *)
EXTENDS AstState

------------------------------------------------------------------------------
(* Subscripts and references. *)

literal_field_reference_expr == <<Do("one_identifier"), Do("literal_field")>>
dynamic_field_reference_expr == <<Advance, Nt("expr", FALSE), Get(")"), Do("dynamic_field")>>

period_subscript(g) ==
  <<Advance>> \o (CASE La(g, 1) = Identifier -> literal_field_reference_expr
                    [] La(g, 1) = "(" -> dynamic_field_reference_expr
                    [] OTHER -> <<add_error("expected_token")>>)

(* a(...) and a{...}: arguments up to the first token that is not a comma. *)
non_period_subscript(term) ==
  <<Advance, Do("subscript"), Nt("arguments", term), Get(term), Do("check_subscript")>>

arguments(g, term) ==
  IF HasNext(g) /\ Look(g) /= term
  THEN <<Nt("expr", FALSE), Do("argument"), Nt("more_arguments", term)>>
  ELSE <<>>

more_arguments(g, term) ==
  IF Look(g) = "," THEN <<Advance, Nt("arguments", term)>> ELSE <<>>

check_subscript(g) ==
  IF Value(g).kind = "{" /\ Value(g).parts = <<>> THEN Error(g, "empty_brace_subscript") ELSE g

identifier_reference_expr == <<Do("one_identifier"), Do("reference"), Nt("subscripts", "none")>>

subscripts(g, previous) ==
  LET method == Look(g)
      then == <<Do("attach_subscript"), Nt("subscripts", method)>>
      parens_last == IF previous = "(" THEN <<add_error("reference_after_parens")>> ELSE then
  IN  CASE ~HasNext(g) -> <<>>
        [] method = "." -> period_subscript(g) \o then
        [] method = "(" -> non_period_subscript(")") \o parens_last
        [] method = "{" -> non_period_subscript("}") \o parens_last
        [] OTHER -> <<>>

attach_subscript(g) ==
  LET reference == g.vals[Len(g.vals) - 1]
  IN  [g EXCEPT !.vals = Append(AllButN(@, 2), [reference EXCEPT !.parts = Append(@, Value(g))])]

is_reference(node) == node.kind = "reference"
is_static_identifier_reference_expr(node) ==
  is_reference(node) /\ \A i \in DOMAIN node.parts : node.parts[i].kind = "literal_field"

is_valid_assignment_target(node) ==
  \/ is_reference(node)
  \/ node.kind = "ignored"
  \/ /\ node.kind = "["
     /\ node.parts /= <<>>
     /\ \A i \in DOMAIN node.parts : /\ node.parts[i].kind \in {"reference", "ignored"}
                                     /\ node.names[i] = ","

(* identifier@superclass(...): only a plain dotted name may call, only a       *)
(* reference may be called.                                                    *)
superclass_reference(g) ==
  IF Look(g) = "@" THEN <<Advance, Nt("expr", FALSE), Do("superclass_method")>> ELSE <<>>

superclass_method(g) ==
  LET called == LastN(g.vals, 2)
  IN  IF is_static_identifier_reference_expr(called[1]) /\ is_reference(called[2])
      THEN Combine(g, 2, "superclass_method", <<>>)
      ELSE Error(g, "invalid_superclass_method_reference")

------------------------------------------------------------------------------
(* Functions as values. *)

function_reference_expr == <<Advance, Do("no_names"), Nt("components", TRUE), Do("function_reference")>>

anonymous_function_expr ==
  <<Advance, Get("("),
    Within("scope", <<Do("no_names"), Nt("parameters", TRUE), Get(","), Nt("expr", FALSE),
                      Do("anonymous_function")>>)>>

function_expr(g) ==
  IF La(g, 1) = Identifier THEN function_reference_expr ELSE anonymous_function_expr

check_parameters_are_unique(names) ==
  \A i, j \in DOMAIN names : i /= j /\ names[i] = names[j] => names[i] = "~"

anonymous_function(g) ==
  IF check_parameters_are_unique(LastN(g.vals, 2)[1].names)
  THEN Combine(g, 2, "anonymous", <<>>)
  ELSE Error(g, "duplicate_input_parameter")

(* function_parameters, past the opening parenthesis. The position of varargin *)
(* is counted in tokens, so a trailing comma after it is refused.              *)
parameters(g, expect) ==
  CASE ~HasNext(g) \/ Look(g) = ")" -> <<Get(")"), Do("check_varargin")>>
    [] expect -> <<GetOneOf({Identifier, "~"}), Do("gather"), Nt("parameters", FALSE)>>
    [] OTHER -> <<Get(","), Nt("parameters", TRUE)>>

check_varargin(g) ==
  IF (\E i \in DOMAIN Value(g).names : Value(g).names[i] = "varargin") /\ Lexeme(g, -2) /= "varargin"
  THEN Error(g, "varargin_in_incorrect_position")
  ELSE g

(* compound_identifier_components: a.b.c; the end of the file ends it anywhere. *)
components(g, expect) ==
  CASE ~HasNext(g) -> <<>>
    [] expect /\ Look(g) = Identifier -> <<Advance, Do("gather"), Nt("components", FALSE)>>
    [] expect -> <<add_error("expected_token")>>
    [] Look(g) = "." -> <<Advance, Nt("components", TRUE)>>
    [] OTHER -> <<>>

------------------------------------------------------------------------------
(* Groups: (e), [e, e; e], {e, e}. *)

grouping_expr(g) ==
  <<Advance, Do("group"), Nt("group_parts", Look(g)), Get(grouping_terminator_for(Look(g)))>>

group_parts(g, initiator) ==
  IF HasNext(g) /\ Look(g) /= grouping_terminator_for(initiator)
  THEN <<Nt("expr", initiator /= "("), Nt("group_delimiter", initiator)>>
  ELSE <<>>

group_delimiter(g, initiator) ==
  LET next == Look(g)
      ends == next = grouping_terminator_for(initiator)
      advance == IF ends THEN <<>> ELSE <<Advance>>
  IN  CASE ~ends /\ next \notin {",", ";", "newline"} -> <<add_error("expected_token")>>
        [] ~ends /\ initiator = "(" -> <<Advance, add_error("multiple_exprs_in_parens")>>
        [] OTHER -> advance \o <<Do("group_part"), Nt("group_parts", initiator)>>

(* The part just parsed joins its group, with the delimiter after it, unless   *)
(* it is empty.                                                                *)
group_part(g) ==
  LET group == g.vals[Len(g.vals) - 1]
      delimiter == IF Lexeme(g, -1) \in {";", "newline"} THEN ";" ELSE ","
      joined == [group EXCEPT !.parts = Append(@, Value(g)), !.names = Append(@, delimiter)]
  IN  [g EXCEPT !.vals = Append(AllButN(@, 2), IF Value(g).kind = "empty" THEN group ELSE joined)]

------------------------------------------------------------------------------
(* expr: the frame holds the operands completed, the prefix operators and the  *)
(* binary operators that await an operand, and the binary operators set aside  *)
(* because the next one binds tighter.                                         *)

expr(allow_empty) == <<Do("frame"), Nt("operand", allow_empty)>>

frame(g) ==
  Push(g, [kind |-> "frame", completed |-> <<>>, unaries |-> <<>>, binaries |-> <<>>,
           pending |-> <<>>, at |-> g.pos])

is_ignore_argument_expr(g) == Look(g) = "~" /\ La(g, 1) \in {",", "]"}

is_unary_prefix_expr(g) ==
  /\ Look(g) \in PrefixOperators
  /\ Look(g) = "~" \/ can_precede_prefix_unary_operator(La(g, -1))

is_colon_subscript_expr(g) ==
  Look(g) = ":" /\ La(g, 1) \in GroupingTerminators \cup {","}

operand(g, allow_empty) ==
  LET next == Look(g)
      loop == Nt("operand", allow_empty)
      completed == <<Do("complete"), Nt("postfix", ""), Do("settle"), loop>>
  IN  CASE ~HasNext(g) -> <<Do(IF allow_empty THEN "finish_or_empty" ELSE "finish")>>
        [] next = Identifier ->
             identifier_reference_expr \o <<Nt("superclass_reference", "")>> \o completed
        [] is_ignore_argument_expr(g) -> <<Do("ignored"), Advance>> \o completed
        [] next \in GroupingInitiators -> grouping_expr(g) \o completed
        [] next \in Literals \cup {"op_end"} -> <<Do("literal"), Advance>> \o completed
        [] is_unary_prefix_expr(g) -> <<Do("pending_unary"), Advance, Do("settle"), loop>>
        [] is_colon_subscript_expr(g) -> <<Do("literal"), Advance>> \o completed
        [] next \in BinaryOperators -> <<Advance, Do("pending_binary"), Do("settle"), loop>>
        [] next = "@" -> function_expr(g) \o completed
        [] next \in ExpressionTerminators ->
             <<Do(IF allow_empty THEN "finish_or_empty" ELSE "finish")>>
        [] OTHER -> <<add_error("invalid_expr_token")>>

(* The operand on top of the results moves to its frame. *)
complete(g) ==
  LET f == g.vals[Len(g.vals) - 1]
  IN  [g EXCEPT !.vals = Append(AllButN(@, 2), [f EXCEPT !.completed = Append(@, Value(g))])]

InFrame(g, f) == [g EXCEPT !.vals[Len(g.vals)] = f]

Applied(kind, op, parts) == [kind |-> kind, names |-> <<op.type>>, parts |-> parts, at |-> op.at]

pending_unary(g) ==
  InFrame(g, [Value(g) EXCEPT !.unaries = Append(@, [type |-> Look(g), at |-> g.pos])])

handle_postfix_unary_exprs(g) ==
  IF HasNext(g) /\ Look(g) \in PostfixOperators /\ can_precede_postfix_unary_operator(La(g, -1))
  THEN <<Do("postfix_unary"), Advance, Nt("postfix", "")>>
  ELSE <<>>

postfix_unary(g) ==
  LET f == Value(g)
      op == [type |-> Look(g), at |-> g.pos]
  IN  InFrame(g, [f EXCEPT !.completed = Append(Front(@), Applied("unary", op, <<Top(@)>>))])

(* A binary operator takes the last completed operand as its left side. *)
pending_binary(g) ==
  LET f == Value(g)
      op == [type |-> La(g, -1), at |-> g.pos - 1]
  IN  IF f.completed = <<>>
      THEN Error(g, "expected_lhs")
      ELSE InFrame(g, [f EXCEPT !.completed = Front(@),
                                !.binaries = Append(@, [op |-> op, left |-> Top(f.completed)])])

(* Every prefix operator that waits is applied to the last operand. *)
handle_prefix_unary_exprs(f) ==
  LET n == Len(f.unaries)
      applied[i \in 0..n] == IF i = 0 THEN Top(f.completed)
                             ELSE Applied("unary", f.unaries[n - i + 1], <<applied[i - 1]>>)
  IN  [f EXCEPT !.unaries = <<>>, !.completed = Append(Front(@), applied[n])]

(* Mutant: an operator is set aside for one that binds as tightly. *)
handle_binary_exprs_RightFirst(f, next) ==
  LET bin == Top(f.binaries)
  IN  IF precedence(bin.op.type) <= precedence(next)
      THEN [f EXCEPT !.binaries = Front(@), !.pending = Append(@, bin)]
      ELSE [f EXCEPT !.binaries = Front(@), !.pending = IF @ = <<>> THEN @ ELSE Front(@),
                     !.completed = Append(Front(@),
                       LET one == Applied("binary", bin.op, <<bin.left, Top(f.completed)>>)
                       IN  IF f.pending = <<>> THEN one
                           ELSE Applied("binary", Top(f.pending).op, <<Top(f.pending).left, one>>))]

(* The last binary operator is set aside when the next one binds tighter, and  *)
(* completed otherwise. The operators set aside are completed after it, last   *)
(* first, as long as the next one binds less than the one just completed.      *)
handle_binary_exprs(f, next) ==
  LET bin == Top(f.binaries)
      n == Len(f.pending)
      waits(i) == IF i = 0 THEN bin ELSE f.pending[n - i + 1]
      built[i \in 0..n] ==
        Applied("binary", waits(i).op,
                <<waits(i).left, IF i = 0 THEN Top(f.completed) ELSE built[i - 1]>>)
      goes_on(i) == \A j \in 0..i - 1 : precedence(next) < precedence(waits(j).op.type)
      last == CHOOSE i \in 0..n : goes_on(i) /\ (i < n => ~goes_on(i + 1))
  IN  IF precedence(bin.op.type) < precedence(next)
      THEN [f EXCEPT !.binaries = Front(@), !.pending = Append(@, bin)]
      ELSE [f EXCEPT !.binaries = Front(@), !.pending = SubSeq(@, 1, n - last),
                     !.completed = Append(Front(@), built[last])]

settle(g) ==
  LET f == Value(g)
      applied == IF f.completed /= <<>> THEN handle_prefix_unary_exprs(f) ELSE f
  IN  InFrame(g, IF applied.completed /= <<>> /\ applied.binaries /= <<>>
                 THEN handle_binary_exprs(applied, Look(g))
                 ELSE applied)

finish(g, allow_empty) ==
  LET f == Value(g)
      nothing == /\ f.completed = <<>> /\ f.pending = <<>>
                 /\ f.binaries = <<>> /\ f.unaries = <<>>
  IN  CASE Len(f.completed) = 1 -> InFrame(g, Top(f.completed))
        [] nothing /\ allow_empty -> InFrame(g, Node(g, "empty", <<>>, <<>>))
        [] OTHER -> Error(g, "incomplete_expr")

=============================================================================
