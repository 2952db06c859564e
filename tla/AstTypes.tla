------------------------------ MODULE AstTypes ------------------------------
(* The methods of AstGenerator for type annotations: the macros (@T), the      *)
(* declarations they hold, and the types those name.                           *)
EXTENDS AstExpressions

------------------------------------------------------------------------------
(* The type identifiers a scope has. *)

(* maybe_namespace_enclose_type_identifier: the enclosing namespaces, outermost first. *)
TypeName(g, name) ==
  LET joined[i \in 0..Len(g.spaces)] == IF i = 0 THEN <<>> ELSE joined[i - 1] \o g.spaces[i]
  IN  joined[Len(g.spaces)] \o name

(* A scope within others defines a name for itself, and exports it for the     *)
(* file, where the name stays when the scope is left.                          *)
can_register_local_identifier(g, name, export) ==
  /\ name \notin Top(g.scopes).types
  /\ export => name \notin Head(g.scopes).exports

emplace_type(g, name, export) ==
  LET defined == [g.scopes EXCEPT ![Len(g.scopes)].types = @ \cup {name}]
  IN  [g EXCEPT !.scopes = IF export THEN [defined EXCEPT ![1].exports = @ \cup {name}]
                                     ELSE defined]

(* The declaration whose name is on top of the results, below n others. *)
register_type(g, n, kind) ==
  LET name == TypeName(g, LastN(g.vals, n + 1)[1].names)
  IN  IF can_register_local_identifier(g, name, is_export(g))
      THEN Combine(emplace_type(g, name, is_export(g)), n + 1, kind, name)
      ELSE Error(g, "duplicate_type_identifier")

------------------------------------------------------------------------------
(* Types. *)

type(g, allow_scheme) ==
  IF allow_scheme /\ Look(g) = "given"
  THEN <<Nt("type_scheme", "")>>
  ELSE <<Nt("one_type", ""), Nt("union", "")>>

union(g) ==
  IF Look(g) = "|"
  THEN <<Advance, Nt("one_type", ""), Drop, Do("as_union"), Nt("union", "")>>
  ELSE <<>>

scalar_type == <<Do("no_names"), Nt("components", TRUE), Drop, Nt("type_arguments", ""), Do("type")>>
type_arguments(g) == IF Look(g) = "<" THEN <<Advance, Nt("types_to_>", "")>> ELSE <<>>

function_type ==
  <<Advance, Nt("types_to_]", ""), Get("="), Get("("), Nt("types_to_)", ""), Do("function_type")>>

one_type(g) ==
  CASE Look(g) = "[" -> function_type
    [] Look(g) = "{" -> <<Advance, Nt("types_to_}", ""), Do("type")>>
    [] Look(g) = Identifier -> scalar_type
    [] Look(g) = "?" -> <<Advance, Do("type")>>
    [] Look(g) = "list" -> <<Advance, Get("<"), Nt("types_to_>", ""), Do("type")>>
    [] OTHER -> <<add_error("expected_token")>>

(* type_sequence; a trailing comma is accepted. *)
TypesTo == [t \in {"types_to_]", "types_to_)", "types_to_}", "types_to_>"} |->
              CASE t = "types_to_]" -> "]" [] t = "types_to_)" -> ")"
                [] t = "types_to_}" -> "}" [] t = "types_to_>" -> ">"]

type_sequence(g, method) ==
  IF HasNext(g) /\ Look(g) /= TypesTo[method]
  THEN <<Nt("type", FALSE), Drop, Nt("type_delimiter", method)>>
  ELSE <<Get(TypesTo[method])>>

type_delimiter(g, method) ==
  CASE Look(g) = "," -> <<Advance, Nt(method, "")>>
    [] Look(g) = TypesTo[method] -> <<Nt(method, "")>>
    [] OTHER -> <<add_error("expected_token")>>

(* given <T> type, given T type: not within another scheme. *)
type_scheme == <<Advance, Do("check_scheme"), Nt("type_variables", ""),
                 Within("scheme", <<Nt("type", FALSE), Do("scheme")>>)>>

check_scheme(g) ==
  IF has_enclosing_type_scheme(g) THEN Error(g, "attempted_nested_scheme") ELSE g

type_variable_identifiers(g) ==
  CASE Look(g) = "<" ->
         <<Advance, Do("no_names"), Nt("identifiers_to_>", TRUE), Do("check_type_variables"), Drop>>
    [] Look(g) = Identifier -> <<Advance>>
    [] OTHER -> <<add_error("expected_token")>>

check_type_variables(g) ==
  LET names == Value(g).names
  IN  CASE \E i, j \in DOMAIN names : i /= j /\ names[i] = names[j] ->
             Error(g, "duplicate_type_identifier")
        [] names = <<>> -> Error(g, "expected_non_empty_type_variable_identifiers")
        [] OTHER -> g

as_annotation(g) == Combine(g, 1, "annotation", <<>>)

is_function_type(node) ==
  \/ node.kind = "function_type"
  \/ node.kind = "scheme" /\ node.parts[1].kind = "function_type"

------------------------------------------------------------------------------
(* Annotations. Each leaves one result. *)

type_annotation_macro == <<Advance, Nt("type_annotation", "enclosing")>>

(* :: type, and the statement or function it is about. The token the method    *)
(* starts at is not looked at.                                                 *)
type_assertion(enclosing, allow_scheme) ==
  <<Advance, Nt("type", allow_scheme), GetOneOf({"end@T", "newline"})>>
  \o (IF enclosing = "enclosing"
      THEN <<Nt("stmt_or_function_def", ""), Do("assertion_of")>>
      ELSE <<Do("assertion")>>)

stmt_or_function_def(g) ==
  IF Look(g) = "function" THEN <<Nt("function_def", "")>> ELSE <<Nt("stmt", "")>>

(* fun, and the function or the assignment of an anonymous function it is about. *)
type_fun == <<Advance, Get("end@T"), Nt("fun_target", "")>>

fun_target(g) ==
  IF Look(g) = "function"
  THEN <<Nt("function_def", ""), Do("as_annotation")>>
  ELSE <<Nt("stmt", ""), Do("fun_assignment")>>

(* An import leaves no statement: what looks at it follows a null pointer. *)
Crashed(g, what) == [g EXCEPT !.status = "crashed", !.asserts = @ \cup {what}]

fun_assignment(g) ==
  LET stmt == Value(g)
      lhs == stmt.parts[1]
  IN  CASE stmt.kind = "null" -> Crashed(g, "null_statement")
        [] stmt.kind /= "assignment" -> Error(g, "non_assignment_stmt_in_fun_declaration")
        [] stmt.parts[2].kind /= "anonymous" -> Error(g, "non_anonymous_function_rhs")
        [] ~(is_reference(lhs) /\ lhs.parts = <<>>) -> Error(g, "non_identifier_lhs")
        [] OTHER -> as_annotation(g)

type_let ==
  <<Advance, Do("one_identifier"), Get("="), Nt("type", FALSE), Do("register_over_one")>>

type_scheme_declaration ==
  <<Advance, Nt("type_variables", ""), Within("scheme", <<Nt("scheme_target", "")>>)>>

(* record name field: type ... end. Its fields are not within the scheme. *)
type_record ==
  <<Advance, Do("one_identifier"),
    Within("no_scheme", <<Do("no_names"), Nt("record_fields", ""), Do("register_over_one")>>)>>

scheme_target(g) ==
  IF Look(g) = "record" THEN type_record ELSE <<add_error("expected_token")>>

record_field == <<Get(Identifier), Do("gather"), Get(":"), Nt("type", FALSE), Drop>>

maybe_record_fields(g) ==
  CASE ~HasNext(g) \/ Look(g) = "end@T" -> <<Get("end@T")>>
    [] Look(g) = "newline" -> <<Advance, Nt("record_fields", "")>>
    [] OTHER -> record_field \o <<Do("check_field"), Nt("record_fields", "")>>

check_field(g) ==
  LET names == Value(g).names
  IN  IF \E i \in 1..Len(names) - 1 : names[i] = Top(names)
      THEN Error(g, "duplicate_record_field_name")
      ELSE g

(* begin [export] ... end, namespace name ... end. A declaration that fails is *)
(* caught by the loop, which skips ahead and then fails too.                   *)
type_begin(g) ==
  LET exported == La(g, 1) = "export"
  IN  (IF exported THEN <<Advance, Advance>> ELSE <<Advance>>)
      \o <<Within(IF exported THEN "export" ELSE "non_export",
                  <<Nt("annotations", ""), Get("end@T"), Do("annotation")>>)>>

type_namespace ==
  <<Advance, Do("one_identifier"),
    Within("namespace", <<Nt("annotations", ""), Get("end@T"), Do("annotation")>>)>>

type_annotation_block(g) ==
  CASE ~HasNext(g) \/ Look(g) = "end@T" -> <<>>
    [] Look(g) \in {"newline", "null"} -> <<Advance, Nt("annotations", "")>>
    [] OTHER -> <<Nt("type_annotation", "enclosing"), Drop, Catch(<<"annotations", Len(g.vals)>>),
                  Nt("annotations", "")>>

type_annotation_block_possible_types == {"begin", "given", "let", "fun", "::"}

type_import ==
  <<Advance, Do("no_names"), Nt("components", TRUE), Do("pending_import"), Nt("maybe_end_type", "")>>

maybe_end_type(g) == IF Look(g) = "end@T" THEN <<Advance>> ELSE <<>>

pending_import(g) == [as_annotation(g) EXCEPT !.pending_imports = @ + 1]

------------------------------------------------------------------------------
(* declare function, classdef, scalar, method. *)

underlying_type_of_assertion == <<Nt("type_annotation", "bare"), Do("underlying")>>

underlying(g) ==
  IF Value(g).kind = "assertion"
  THEN [g EXCEPT !.vals = Append(Front(@), Value(g).parts[1])]
  ELSE Error(g, "expected_type_assertion")

method_type_declaration ==
  <<Do("no_names"), Nt("components", TRUE), Do("method_name"), Advance>>
  \o underlying_type_of_assertion \o <<Do("declare_method")>>

declare_type(g) ==
  CASE Look(g) = "function_type" ->
         <<Advance, Do("one_identifier")>> \o underlying_type_of_assertion \o <<Do("declare_function")>>
    [] Look(g) = "classdef" ->
         <<Advance, Do("one_identifier"), Do("no_names"), Nt("record_fields", ""), Do("declare_class")>>
    [] Lexeme(g, 0) = "scalar" -> <<Advance, Do("one_identifier"), Do("register")>>
    [] Lexeme(g, 0) = "method" -> <<Advance>> \o method_type_declaration
    [] Look(g) = Identifier -> <<add_error("unrecognized_type_declaration_kind")>>
    [] OTHER -> <<add_error("expected_token")>>

declare_function(g) ==
  LET name == TypeName(g, LastN(g.vals, 2)[1].names)
  IN  CASE ~is_function_type(Value(g)) -> Error(g, "expected_function_type")
        [] name \in g.declared.functions -> Error(g, "duplicate_local_function")
        [] OTHER -> [Combine(g, 2, "annotation", name) EXCEPT !.declared.functions = @ \cup {name}]

(* The class is made known to the library as well as to the scope. *)
declare_class(g) ==
  LET name == TypeName(g, LastN(g.vals, 2)[1].names)
  IN  CASE ~can_register_local_identifier(g, name, TRUE) ->
             Error(g, "duplicate_type_identifier")
        [] name \in g.declared.classes -> Error(g, "duplicate_class_def")
        [] OTHER -> [Combine(emplace_type(g, name, TRUE), 2, "annotation", name)
                       EXCEPT !.declared.classes = @ \cup {name}]

declare_method(g) ==
  LET name == LastN(g.vals, 2)[1].kind
  IN  IF is_function_type(Value(g)) /\ name \in {Identifier} \cup BinaryOperators \cup UnaryOperators
      THEN Combine(g, 3, "annotation", <<>>)
      ELSE Error(g, "expected_function_type")

(* cast type, presume type: about the assignment that follows. *)
cast_type == <<Advance, Nt("type", FALSE), Drop, Get("end@T"), Nt("stmt", ""), Do("cast")>>

cast(g) ==
  CASE Value(g).kind = "null" -> Crashed(g, "null_statement")
    [] Value(g).kind = "assignment" -> as_annotation(g)
    [] OTHER -> Error(g, "expected_assignment_stmt_following_cast")

(* constructor: about an assignment of struct(name, value, ...). *)
constructor_type == <<Advance, Get("end@T"), Nt("expr_stmt", ""), Do("constructor")>>

constructor(g) ==
  LET rhs == Value(g).parts[2]
      plain_call == \/ rhs.parts = <<>>
                    \/ Len(rhs.parts) = 1 /\ rhs.parts[1].kind = "("
      arguments_of == IF rhs.parts = <<>> THEN 0 ELSE Len(rhs.parts[1].parts)
  IN  CASE Value(g).kind /= "assignment" -> Error(g, "expected_assignment_stmt_in_ctor")
        [] ~is_reference(rhs) -> Error(g, "expected_identifier_reference_expr_in_ctor")
        [] rhs.names /= <<"struct">> \/ ~plain_call -> Error(g, "expected_struct_function_call")
        [] arguments_of % 2 /= 0 -> Error(g, "expected_even_number_of_arguments_in_ctor")
        [] OTHER -> as_annotation(g)

type_annotation(g, enclosing) ==
  LET next == Look(g)
  IN  CASE next = "begin" -> type_begin(g)
        [] next = "given" -> type_scheme_declaration
        [] next = "let" -> type_let
        [] next = "fun" -> type_fun
        [] next = "::" -> <<Nt("type_assertion", <<enclosing, TRUE>>)>>
        [] next = "import" -> type_import
        [] next = "record" -> type_record
        [] next = "declare" -> <<Advance, Nt("declare_type", "")>>
        [] next = "namespace" -> type_namespace
        [] next = "constructor" -> constructor_type
        [] next \in {"cast", "presume"} -> cast_type
        [] OTHER -> <<add_error("expected_token")>>

=============================================================================
