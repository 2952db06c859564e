------------------------------ MODULE AstState ------------------------------
(* The state of one AstGenerator and of the ParseInstance it writes to, as one *)
(* record `gen`. A method that is under way is the list of what it still has   *)
(* to do, gen.todo: the items of the method on top of the call stack come      *)
(* first, then those of its caller, and so on. A C++ object whose destructor   *)
(* restores a counter or pops a stack is a "leave" item: it is run when it is  *)
(* reached and also when a failed method returns through it.                   *)
EXTENDS Integers, Sequences, FiniteSets

CONSTANT Names

VARIABLES
  tokens,           \* the scanned file: its tokens, functions_are_end_terminated,
                    \* and the package it belongs to, <<>> when it is in none
  gen

vars == <<tokens, gen>>

------------------------------------------------------------------------------
(* The token types of token_type.cpp and the tables of lang_components.cpp and *)
(* keyword.cpp that the parser consults. A token is written as its type, and   *)
(* an identifier token as its lexeme, a member of Names.                       *)

Identifier == "identifier"

TypeOf(token) == IF token \in Names THEN Identifier ELSE token

(* The first 21 members of the enumeration. *)
BinaryOperators == {"==", "~=", "<", ">", "<=", ">=", "+", "-", "*", "/", "\\", "^", ".*",
                    "./", ".\\", ".^", "|", "&", "||", "&&", ":"}

PrefixOperators == {"+", "-", "~"}
PostfixOperators == {"'", ".'"}
UnaryOperators == PrefixOperators \cup PostfixOperators

Literals == {"string", "char", "number"}
GroupingInitiators == {"(", "{", "["}
GroupingTerminators == {")", "}", "]"}
StatementTerminators == {";", ",", "newline", "null"}
ExpressionTerminators == StatementTerminators \cup GroupingTerminators \cup {"="}

can_precede_prefix_unary_operator(type) ==
  type \notin {Identifier, "end", "op_end"} \cup Literals \cup GroupingTerminators \cup PostfixOperators

can_precede_postfix_unary_operator(type) ==
  type \in {Identifier} \cup Literals \cup GroupingTerminators \cup PostfixOperators

grouping_terminator_for(initiator) ==
  [i \in GroupingInitiators |-> CASE i = "{" -> "}" [] i = "[" -> "]" [] i = "(" -> ")"][initiator]

(* The binding strength of a binary operator; every other token counts as -1. *)
PrecedenceTable ==
  <<{"||"}, {"&&"}, {"|"}, {"&"}, {"<", "<=", ">", ">=", "==", "~="}, {":"}, {"+", "-"},
    {".*", "*", ".\\", "\\", "./", "/"}, {".^", "^"}>>

precedence(type) ==
  IF type \in BinaryOperators
  THEN (CHOOSE i \in DOMAIN PrecedenceTable : type \in PrecedenceTable[i]) - 1
  ELSE -1

(* keyword.cpp: the attributes a methods block may carry. *)
BooleanMethodAttributes == {"Abstract", "Hidden", "Sealed", "Static"}
MethodAttributes == BooleanMethodAttributes \cup {"Access"}
AccessValues == {"public", "private", "protected", "immutable"}
BooleanValues == {"true", "false"}

------------------------------------------------------------------------------

BlockKinds == {"function_def", "class_def", "for_stmt", "if_stmt", "while_stmt", "try_stmt",
               "switch_stmt"}

(* A MatlabScope and its TypeScope; what any scope exports, its root does.     *)
EmptyScope == [functions |-> {}, classes |-> {}, types |-> {}, exports |-> {}, imports |-> 0]

(* What a parse starts from: push_default_state, and ParseInstance's members. *)
Fresh(todo) ==
  [pos |-> 1, todo |-> todo, vals |-> <<>>, failing |-> FALSE, status |-> "parsing",
   depth |-> [k \in BlockKinds |-> 0], class_def_file |-> 0,
   scopes |-> <<EmptyScope>>, attrs |-> <<FALSE>>, schemes |-> <<FALSE>>,
   exports |-> <<FALSE>>, spaces |-> <<>>, classes |-> <<>>,
   errors |-> {}, file_type |-> "unknown", visited |-> 0,
   entry |-> <<>>, entry_class |-> <<>>, asserts |-> {},
   declared |-> [functions |-> {}, classes |-> {}],
   pending_imports |-> 0, pending_methods |-> <<>>, external |-> FALSE]

(* enter_methods_block_via_external_method: the scopes become those of the     *)
(* class, whose name and whose method's attributes are pushed.                 *)
ViaExternalMethod(todo, class, scope, static) ==
  [Fresh(todo) EXCEPT !.scopes = <<scope>>, !.depth["class_def"] = 1, !.class_def_file = 1,
                      !.attrs = Append(@, static), !.external = TRUE,
                      !.classes = <<[name |-> tokens.package \o class, unqualified |-> class,
                                     properties |-> {}, methods |-> {}, decls |-> <<>>]>>]

------------------------------------------------------------------------------
(* The token iterator. Beyond the last token it yields the null token. *)

Tokens(g) == tokens.list
HasNext(g) == g.pos <= Len(tokens.list)
Lexeme(g, n) == IF g.pos + n \in 1..Len(tokens.list) THEN tokens.list[g.pos + n] ELSE "null"
La(g, n) == TypeOf(Lexeme(g, n))
Look(g) == La(g, 0)

Advanced(g) == [g EXCEPT !.pos = @ + 1]

(* Mutant: a loop that catches an error goes on at the token the error was found at. *)
advance_to_one_Stays(g, types) == g

(* The index of the first token from pos on with one of these types. *)
advance_to_one(g, types) ==
  LET hits == {i \in g.pos..Len(tokens.list) : TypeOf(tokens.list[i]) \in types}
      first == IF hits = {} THEN Len(tokens.list) + 1 ELSE CHOOSE i \in hits : \A j \in hits : i <= j
  IN  [g EXCEPT !.pos = IF HasNext(g) THEN first ELSE @]

------------------------------------------------------------------------------
(* Items: what a method still has to do. *)

Nt(method, arg) == <<method, arg>>
Do(effect) == <<"do", effect>>
Get(type) == <<"get", {type}>>
GetOneOf(types) == <<"get", types>>
GetSilently(type) == <<"get_silently", {type}>>
Within(kind, items) == <<"within", <<kind, items>>>>
Leave(kind) == <<"leave", kind>>
Catch(handler) == <<"catch", handler>>
Advance == <<"do", "advance">>
Drop == <<"do", "drop">>
add_error(error) == <<"error", error>>

(* A result: its kind, the names it carries, its parts, and where it was made. *)
Node(g, kind, names, parts) == [kind |-> kind, names |-> names, parts |-> parts, at |-> g.pos]

Top(s) == s[Len(s)]
Front(s) == SubSeq(s, 1, Len(s) - 1)
LastN(s, n) == SubSeq(s, Len(s) - n + 1, Len(s))
AllButN(s, n) == SubSeq(s, 1, Len(s) - n)

Value(g) == Top(g.vals)
Push(g, node) == [g EXCEPT !.vals = Append(@, node)]
(* n results are replaced by one made of them. *)
Combine(g, n, kind, names) ==
  [g EXCEPT !.vals = Append(AllButN(@, n), Node(g, kind, names, LastN(g.vals, n)))]

Failed(g) == [g EXCEPT !.failing = TRUE]
Error(g, error) == [g EXCEPT !.failing = TRUE, !.errors = @ \cup {error}]

------------------------------------------------------------------------------
is_within_loop(g) == g.depth["for_stmt"] > 0 \/ g.depth["while_stmt"] > 0

is_within_end_terminated_stmt_block(g) ==
  \/ \E k \in {"try_stmt", "switch_stmt", "if_stmt"} : g.depth[k] > 0
  \/ is_within_loop(g)

is_within_top_level_function(g) == g.depth["function_def"] = 1
is_within_class(g) == g.depth["class_def"] > 0
has_enclosing_type_scheme(g) == Top(g.schemes)
is_export(g) == Top(g.exports)
enclosing_class(g) == Top(g.classes)

has_parent_package == tokens.package /= <<>>
is_function_file(g) == g.file_type = "function_def"
is_file_entry_function(g) == is_function_file(g) /\ g.visited = 1

register_file_type(g, type) ==
  [g EXCEPT !.file_type = IF @ = "unknown" THEN type ELSE @]

(* Each of these is undone by its "leave" item. *)
Enter(g, kind) ==
  CASE kind \in BlockKinds -> [g EXCEPT !.depth[kind] = @ + 1]
    [] kind = "scope" -> [g EXCEPT !.scopes = Append(@, EmptyScope)]
    [] kind = "attributes" -> [g EXCEPT !.attrs = Append(@, \E i \in DOMAIN Value(g).names :
                                                                Value(g).names[i] = "Static"),
                                        !.vals = Front(@)]
    [] kind = "scheme" -> [g EXCEPT !.schemes = Append(@, TRUE)]
    [] kind = "no_scheme" -> [g EXCEPT !.schemes = Append(@, FALSE)]
    [] kind = "export" -> [g EXCEPT !.exports = Append(@, TRUE)]
    [] kind = "non_export" -> [g EXCEPT !.exports = Append(@, FALSE)]
    [] kind = "namespace" -> [g EXCEPT !.spaces = Append(@, Value(g).names), !.vals = Front(@)]
    [] kind = "class" -> [g EXCEPT !.classes = Append(@, [name |-> tokens.package \o Value(g).names,
                                                          unqualified |-> Value(g).names,
                                                          properties |-> {}, methods |-> {},
                                                          decls |-> <<>>])]

Leaving(g, kind) ==
  CASE kind \in BlockKinds -> [g EXCEPT !.depth[kind] = @ - 1]
    [] kind = "scope" -> [g EXCEPT !.scopes = Front(@)]
    [] kind = "attributes" -> [g EXCEPT !.attrs = Front(@)]
    [] kind \in {"scheme", "no_scheme"} -> [g EXCEPT !.schemes = Front(@)]
    [] kind \in {"export", "non_export"} -> [g EXCEPT !.exports = Front(@)]
    [] kind = "namespace" -> [g EXCEPT !.spaces = Front(@)]
    [] kind = "class" -> [g EXCEPT !.classes = Front(@)]

(* The effects that only move values about. *)
one_identifier(g) ==
  IF Look(g) = Identifier
  THEN Advanced(Push(g, Node(g, "names", <<Lexeme(g, 0)>>, <<>>)))
  ELSE Error(g, "expected_token")

NoNames(g) == Push(g, Node(g, "names", <<>>, <<>>))
(* The token just consumed is appended to the names being gathered. *)
Gather(g) == [g EXCEPT !.vals[Len(g.vals)].names = Append(@, Lexeme(g, -1))]

=============================================================================
