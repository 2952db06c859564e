--------------------------- MODULE AstStatements ----------------------------
(* The statement, function and class methods of AstGenerator. *)
EXTENDS AstTypes

------------------------------------------------------------------------------
(* Blocks. A statement that fails is caught by the loop of the block it is in, *)
(* which skips to a place it can go on from and fails when it is done.         *)

BlockSeparators == {"newline", "null", ";", ","}
SubBlockEnds == {"end", "else", "elseif", "catch", "case", "otherwise"}
sub_block_possible_types == {"if", "for", "while", "try", "switch"}

InBlock(g, method, loop, any_error) ==
  <<Nt(method, ""), Drop, Catch(<<loop, Len(g.vals)>>), Nt(loop, any_error)>>

(* Mutant: a block forgets that one of its statements failed. *)
BlockDone_Succeeds(any_error) == <<>>

BlockDone(any_error) == IF any_error THEN <<Do("fail")>> ELSE <<>>

block(g, any_error) ==
  LET next == Look(g)
  IN  CASE ~HasNext(g) \/ next = "end" -> BlockDone(any_error)
        [] next \in BlockSeparators -> <<Advance, Nt("block", any_error)>>
        [] next = "@T" -> InBlock(g, "type_annotation_macro", "block", any_error)
        [] next = "classdef" -> InBlock(g, "class_def", "block", any_error)
        [] next = "function" -> InBlock(g, "function_def", "block", any_error)
        [] OTHER -> InBlock(g, "stmt", "script", any_error)

(* Whether the statement succeeded or not, it makes the file a script. *)
script(any_error) == <<Do("register_script"), Nt("block", any_error)>>

sub_block(g, any_error) ==
  LET next == Look(g)
      ends == \/ next \in SubBlockEnds
              \/ next = "function" /\ ~tokens.end_terminated
  IN  CASE ~HasNext(g) \/ ends -> BlockDone(any_error)
        [] next \in BlockSeparators -> <<Advance, Nt("sub_block", any_error)>>
        [] next = "@T" -> InBlock(g, "type_annotation_macro", "sub_block", any_error)
        [] next = "function" -> InBlock(g, "function_def", "sub_block", any_error)
        [] OTHER -> InBlock(g, "stmt", "sub_block", any_error)

(* The tokens a loop that caught a failure skips to. *)
Resumes(handler) ==
  CASE handler = "sub_block" -> sub_block_possible_types
    [] handler = "annotations" -> type_annotation_block_possible_types
    [] OTHER -> {"function"}

------------------------------------------------------------------------------
(* Functions. *)

(* Mutant: a function is defined before its own scope is left. *)
function_def_InOwnScope ==
  <<Advance, Do("mark_visited_function"),
    Within("function_def",
      <<Do("check_location"), Nt("function_header", ""),
        Within("scope", <<Nt("sub_block", FALSE)>> \o
                        (IF tokens.end_terminated THEN <<Get("end")>> ELSE <<>>)
                        \o <<Do("define_function")>>)>>)>>

function_def ==
  <<Advance, Do("mark_visited_function"),
    Within("function_def",
      <<Do("check_location"), Nt("function_header", ""),
        Within("scope", <<Nt("sub_block", FALSE)>> \o
                        (IF tokens.end_terminated THEN <<Get("end")>> ELSE <<>>)),
        Do("define_function")>>)>>

mark_visited_function(g) ==
  [register_file_type(g, "function_def") EXCEPT !.visited = @ + 1]

check_location(g) ==
  IF is_within_end_terminated_stmt_block(g) THEN Error(g, "invalid_function_def_location") ELSE g

function_header ==
  <<Nt("function_outputs", ""), Do("one_identifier"), Nt("qualified_name", ""),
    Nt("function_inputs", ""), Do("header")>>

function_outputs(g) ==
  CASE Look(g) = "[" ->
         <<Advance, Do("no_names"), Nt("identifiers_to_]", TRUE), Do("check_varargout"), Get("=")>>
    [] Look(g) = Identifier /\ La(g, 1) = "=" -> <<Do("one_identifier"), Get("=")>>
    [] Look(g) = Identifier -> <<Do("no_names")>>
    [] OTHER -> <<add_error("expected_token")>>

check_varargout(g) ==
  LET names == Value(g).names
  IN  IF \E i \in 1..Len(names) - 1 : names[i] = "varargout"
      THEN Error(g, "varargout_in_incorrect_position")
      ELSE g

identifier_sequence(g, terminator, expect) ==
  LET method == IF terminator = "]" THEN "identifiers_to_]" ELSE "identifiers_to_>"
  IN  CASE ~HasNext(g) \/ Look(g) = terminator -> <<Get(terminator)>>
        [] expect -> <<Get(Identifier), Do("gather"), Nt(method, FALSE)>>
        [] OTHER -> <<Get(","), Nt(method, TRUE)>>

(* set.x: a method of the class whose top-level function this is. *)
compound_function_name(g) ==
  CASE Look(g) /= "." -> <<>>
    [] is_within_class(g) /\ is_within_top_level_function(g) -> <<Advance, Nt("components", TRUE)>>
    [] OTHER -> <<add_error("invalid_period_qualified_function_def")>>

function_inputs(g) ==
  IF Look(g) = "(" THEN <<Advance, Do("no_names"), Nt("parameters", TRUE)>> ELSE <<Do("no_names")>>

(* In a package the constructor's name, and that of a file's first function,   *)
(* get the package's prefix.                                                   *)
FunctionName(g, given) ==
  LET in_method == is_within_top_level_function(g) /\ is_within_class(g)
      first == <<given[1]>>
  IN  IF /\ has_parent_package
         /\ \/ in_method /\ first = enclosing_class(g).unqualified
            \/ ~in_method /\ is_file_entry_function(g)
      THEN tokens.package \o first
      ELSE given

header(g) == Combine(g, 3, "header", FunctionName(g, LastN(g.vals, 2)[1].names))

Outputs(h) == Len(h.parts[1].names)
Inputs(h) == Len(h.parts[3].names)

is_method(g) == is_within_class(g) /\ is_within_top_level_function(g)
is_constructor(g, name) == is_method(g) /\ enclosing_class(g).name = name

set_file_entry_function_ref(g, name) ==
  [g EXCEPT !.entry = name,
            !.asserts = @ \cup (IF g.entry = <<>> THEN {} ELSE {"file_entry_function_ref"})]

(* The header on top of the results becomes a definition: the checks on a      *)
(* method's parameters, the registration in the parent's scope, and the        *)
(* file's entry function.                                                      *)
define_function(g) ==
  LET h == Value(g)
      name == h.names
      ctor == is_constructor(g, name)
      registers == g.external \/ ~is_method(g)
      scope == Top(g.scopes)
      defined == [g EXCEPT !.vals[Len(g.vals)].kind = "function",
                           !.scopes[Len(g.scopes)].functions =
                              IF registers THEN @ \cup {name} ELSE @]
  IN  CASE ctor /\ Outputs(h) /= 1 -> Error(g, "non_scalar_outputs_in_ctor")
        [] is_method(g) /\ ~ctor /\ ~Top(g.attrs) /\ Inputs(h) = 0 ->
             Error(g, "no_class_instance_parameter")
        [] registers /\ name \in scope.functions -> Error(g, "duplicate_local_function")
        [] OTHER -> IF is_file_entry_function(g) \/ ctor
                    THEN set_file_entry_function_ref(defined, name)
                    ELSE defined

------------------------------------------------------------------------------
(* Classes. *)

class_def ==
  <<Advance, Do("register_class_file"),
    Within("class_def",
      <<Do("enter_class_file"), Nt("skipped_attributes", ""), Do("one_identifier"),
        Nt("superclasses", ""),
        Within("class", <<Nt("class_body", ""), Get("end"), Do("define_class")>>)>>)>>

register_class_file(g) ==
  IF g.file_type /= "unknown"
  THEN Error(g, "stmts_preceding_class_def")
  ELSE register_file_type(g, "class_def")

(* classdef (Sealed), properties (SetAccess = ...): not looked at. *)
skipped_attributes(g) ==
  IF Look(g) = "(" THEN <<Do("advance_to_right_parens"), Get(")")>> ELSE <<>>

superclasses(g) == IF Look(g) = "<" THEN <<Advance, Nt("superclass", "")>> ELSE <<>>

superclass(g) ==
  IF HasNext(g)
  THEN <<Do("no_names"), Nt("components", TRUE), Drop, Nt("more_superclasses", "")>>
  ELSE <<>>

more_superclasses(g) == IF Look(g) = "&" THEN <<Advance, Nt("superclass", "")>> ELSE <<>>

class_body(g) ==
  CASE ~HasNext(g) \/ Look(g) = "end" -> <<>>
    [] Look(g) \in {",", ";", "newline"} -> <<Advance, Nt("class_body", "")>>
    [] Look(g) = "properties" -> <<Nt("properties_block", ""), Nt("class_body", "")>>
    [] Look(g) = "methods" -> <<Nt("methods_block", ""), Nt("class_body", "")>>
    [] OTHER -> <<add_error("expected_token")>>

(* The class is entered in the scope, becomes the file's entry, its type is    *)
(* made, and the methods it declares wait for their own files.                 *)
define_class(g) ==
  LET class == enclosing_class(g)
      scope == Top(g.scopes)
      registered == [g EXCEPT !.scopes[Len(g.scopes)].classes = @ \cup {class.name},
                              !.entry_class = class.name,
                              !.asserts = @ \cup (IF g.entry_class = <<>> THEN {}
                                                  ELSE {"file_entry_class_def"})]
  IN  CASE class.name \in scope.classes -> Error(g, "duplicate_class_def")
        [] ~can_register_local_identifier(g, TypeName(g, class.name), TRUE) ->
             Error(registered, "duplicate_type_identifier")
        [] OTHER -> [emplace_type(registered, TypeName(g, class.name), TRUE)
                       EXCEPT !.pending_methods = @ \o class.decls,
                              !.vals = Append(Front(@), Node(g, "class", class.name, <<>>))]

method_attributes == <<Advance, Do("no_names"), Nt("attribute", ""), Get(")")>>

attribute(g) ==
  IF Look(g) = ")" THEN <<>>
  ELSE <<Do("attribute_name"), Nt("attribute_value", ""), Nt("attribute_comma", "")>>

attribute_name(g) ==
  CASE Look(g) /= Identifier -> Error(g, "expected_token")
    [] Lexeme(g, 0) \notin MethodAttributes -> Error(g, "unrecognized_method_attribute")
    [] OTHER -> Advanced(g)

attribute_value(g) ==
  LET name == Lexeme(g, -1)
      assigned == Look(g) = "="
  IN  CASE name = "Access" /\ ~assigned -> <<add_error("expected_token")>>
        [] name = "Access" -> <<Advance, Nt("access_specifier", "")>>
        [] assigned -> <<Advance, Do("boolean_attribute_value")>>
        [] OTHER -> <<Do("gather")>>

boolean_attribute_value(g) ==
  CASE Look(g) /= Identifier -> Error(g, "expected_token")
    [] Lexeme(g, 0) \notin BooleanValues -> Error(g, "invalid_boolean_attribute_value")
    [] Lexeme(g, 0) = "true" ->
         Advanced([g EXCEPT !.vals[Len(g.vals)].names = Append(@, Lexeme(g, -2))])
    [] OTHER -> Advanced(g)

attribute_comma(g) == IF Look(g) = "," THEN <<Advance, Nt("attribute", "")>> ELSE <<Nt("attribute", "")>>

access_specifier(g) ==
  CASE Look(g) = "{" -> <<Do("advance_to_right_brace"), Get("}")>>
    [] Look(g) = "?" -> <<Advance, Do("no_names"), Nt("components", TRUE), Drop>>
    [] OTHER -> <<Do("access_value")>>

access_value(g) ==
  CASE Look(g) /= Identifier -> Error(g, "expected_token")
    [] Lexeme(g, 0) \notin AccessValues -> Error(g, "invalid_access_attribute_value")
    [] OTHER -> Advanced(g)

methods_block(g) ==
  <<Advance>>
  \o (IF La(g, 1) = "(" THEN <<Nt("method_attributes", "")>> ELSE <<Do("no_names")>>)
  \o <<Within("attributes", <<Nt("methods_body", ""), Get("end")>>)>>

typed_method_dispatch ==
  <<Advance, Get("::"), Nt("type", TRUE), Drop, Get("end@T"), Nt("method", "")>>

methods_body(g) ==
  CASE ~HasNext(g) \/ Look(g) = "end" -> <<>>
    [] Look(g) \in {",", ";", "newline"} -> <<Advance, Nt("methods_body", "")>>
    [] Look(g) = "@T" -> typed_method_dispatch \o <<Nt("methods_body", "")>>
    [] OTHER -> <<Nt("method", ""), Nt("methods_body", "")>>

untyped_method_dispatch(g) ==
  CASE Look(g) \in {Identifier, "["} -> <<Nt("function_header", ""), Do("method_declaration")>>
    [] Look(g) = "function" -> <<Nt("function_def", ""), Do("method_def")>>
    [] OTHER -> <<add_error("expected_token")>>

WithMethod(g, name) == [g EXCEPT !.classes[Len(g.classes)].methods = @ \cup {name},
                                 !.vals = Front(@)]

(* A header without a body: its definition is in a file of its own. *)
method_declaration(g) ==
  LET name == Value(g).names
  IN  IF name \in enclosing_class(g).methods
      THEN Error(g, "duplicate_method")
      ELSE [WithMethod(g, name) EXCEPT !.classes[Len(g.classes)].decls = Append(@, name)]

method_def(g) ==
  LET name == Value(g).names
  IN  IF name \in enclosing_class(g).methods
      THEN Error(g, "duplicate_method")
      ELSE WithMethod(g, name)

properties_block ==
  <<Advance, Nt("skipped_attributes", ""), Nt("properties_body", ""), Get("end")>>

typed_property == <<Advance, Nt("type_assertion", <<"enclosing", FALSE>>), Do("name_property")>>

properties_body(g) ==
  CASE ~HasNext(g) \/ Look(g) = "end" -> <<>>
    [] Look(g) \in {",", ";", "newline"} -> <<Advance, Nt("properties_body", "")>>
    [] Look(g) = "@T" -> typed_property \o <<Do("emplace_property"), Nt("properties_body", "")>>
    [] OTHER -> <<Do("one_identifier"), Nt("initializer", ""), Do("emplace_property"),
                  Nt("properties_body", "")>>

initializer(g) == IF Look(g) = "=" THEN <<Advance, Nt("expr", FALSE), Drop>> ELSE <<>>

(* The name of the property is that of the plain variable the statement after  *)
(* the assertion assigns or mentions.                                          *)
property_of(assertion) ==
  LET stmt == assertion.parts[2]
      lhs == stmt.parts[1]
  IN  IF stmt.kind \in {"assignment", "expr_stmt"} /\ lhs.kind = "reference" /\ lhs.parts = <<>>
      THEN lhs.names
      ELSE <<>>

name_property(g) ==
  CASE Value(g).parts[2].kind = "null" -> Crashed(g, "null_statement")
    [] property_of(Value(g)) = <<>> -> Error(g, "invalid_typed_property")
    [] OTHER -> [g EXCEPT !.vals = Append(Front(@), Node(g, "names", property_of(Value(g)), <<>>))]

emplace_property(g) ==
  LET name == Value(g).names
  IN  IF name \in enclosing_class(g).properties
      THEN Error(g, "duplicate_class_property")
      ELSE [g EXCEPT !.classes[Len(g.classes)].properties = @ \cup {name}, !.vals = Front(@)]

------------------------------------------------------------------------------
(* Statements. Each leaves one result, which says what kind of statement it is. *)

control(g) ==
  IF Lexeme(g, -1) /= "return" /\ ~is_within_loop(g)
  THEN Error(g, "control_outside_loop")
  ELSE Push(g, Node(g, "stmt", <<>>, <<>>))

EndOfStatement == <<Get("end"), Do("statement")>>

for_stmt(g) ==
  LET ranges == <<Do("one_identifier"), Drop, Get("="), Nt("expr", FALSE), Drop>>
      wrapped == La(g, 1) = "("
  IN  <<Advance,
        Within("for_stmt",
          (IF wrapped THEN <<Advance>> \o ranges \o <<GetSilently(")")>> ELSE ranges)
          \o <<Nt("sub_block", FALSE)>> \o EndOfStatement)>>

while_stmt ==
  <<Advance, Within("while_stmt", <<Nt("expr", FALSE), Drop, Nt("sub_block", FALSE)>> \o EndOfStatement)>>

if_branch == <<Advance, Nt("expr", FALSE), Drop, Nt("sub_block", FALSE)>>

if_stmt == <<Within("if_stmt", if_branch \o <<Nt("else_branches", "")>> \o EndOfStatement)>>

else_branches(g) ==
  CASE Look(g) = "elseif" -> if_branch \o <<Nt("else_branches", "")>>
    [] Look(g) = "else" -> <<Advance, Nt("sub_block", FALSE)>>
    [] OTHER -> <<>>

switch_stmt ==
  <<Advance, Within("switch_stmt", <<Nt("expr", FALSE), Drop, Nt("cases", FALSE)>> \o EndOfStatement)>>

(* The cases, in any order; `otherwise` says that there was one already. *)
cases(g, otherwise) ==
  CASE ~HasNext(g) \/ Look(g) = "end" -> <<>>
    [] Look(g) \in {"newline", ",", ";"} -> <<Advance, Nt("cases", otherwise)>>
    [] Look(g) = "case" ->
         <<Advance, Nt("expr", FALSE), Drop, Nt("sub_block", FALSE), Nt("cases", otherwise)>>
    [] Look(g) = "otherwise" /\ otherwise -> <<Advance, add_error("duplicate_otherwise")>>
    [] Look(g) = "otherwise" -> <<Advance, Nt("sub_block", FALSE), Nt("cases", TRUE)>>
    [] OTHER -> <<add_error("expected_token")>>

try_stmt ==
  <<Advance, Within("try_stmt", <<Nt("sub_block", FALSE), Nt("catch_block", "")>> \o EndOfStatement)>>

catch_block(g) ==
  IF Look(g) = "catch"
  THEN <<Advance, Nt("expr", TRUE), Drop, Nt("sub_block", FALSE)>>
  ELSE <<>>

variable_declaration_stmt == <<Advance, Nt("declared_variables", "")>>

declared_variables(g) ==
  CASE ~HasNext(g) \/ Look(g) \in StatementTerminators -> <<Do("statement")>>
    [] Look(g) = Identifier -> <<Advance, Nt("declared_variables", "")>>
    [] OTHER -> <<Advance, add_error("expected_token")>>

(* import a.b c.d.*: nothing is left in the tree, the scope gets the imports. *)
import_stmt == <<Advance, Nt("imports", "")>>

imports(g) ==
  IF HasNext(g)
  THEN <<Do("no_names"), Nt("one_import", TRUE), Do("register_import"), Nt("more_imports", "")>>
  ELSE <<Do("null_statement")>>

more_imports(g) ==
  IF Look(g) \in StatementTerminators THEN <<Do("null_statement")>> ELSE <<Nt("imports", "")>>

one_import(g, expect) ==
  CASE ~HasNext(g) \/ Look(g) \in StatementTerminators -> <<>>
    [] expect /\ Look(g) = Identifier -> <<Advance, Do("gather"), Nt("one_import", FALSE)>>
    [] ~expect /\ Look(g) = "." -> <<Advance, Nt("one_import", TRUE)>>
    [] Look(g) = Identifier -> <<>>
    [] Look(g) = ".*" -> <<Advance>>
    [] OTHER -> <<add_error("expected_token")>>

register_import(g) ==
  LET minimum == IF La(g, -1) = ".*" THEN 1 ELSE 2
  IN  IF Len(Value(g).names) < minimum
      THEN Error(g, "incomplete_import_stmt")
      ELSE [g EXCEPT !.scopes[Len(g.scopes)].imports = @ + 1, !.vals = Front(@)]

is_command_stmt(g) == Look(g) = Identifier /\ La(g, 1) \in Literals \cup {Identifier}

command_stmt == <<Advance, Nt("command_arguments", "")>>

command_arguments(g) ==
  IF HasNext(g) /\ Look(g) \notin StatementTerminators
  THEN <<Advance, Nt("command_arguments", "")>>
  ELSE <<GetOneOf(StatementTerminators), Do("statement")>>

expr_stmt == <<Nt("expr", FALSE), Nt("assignment", "")>>

assignment_stmt(g) ==
  IF Look(g) = "="
  THEN <<Advance, Do("check_target"), Nt("expr", FALSE), Do("assignment")>>
  ELSE <<Do("expr_stmt")>>

check_target(g) ==
  IF is_valid_assignment_target(Value(g)) THEN g ELSE Error(g, "invalid_assignment_target")

stmt(g) ==
  LET next == Look(g)
  IN  CASE next \in {"return", "break", "continue"} -> <<Advance, Do("control")>>
        [] next \in {"for", "parfor"} -> for_stmt(g)
        [] next = "if" -> if_stmt
        [] next = "switch" -> switch_stmt
        [] next = "while" -> while_stmt
        [] next = "try" -> try_stmt
        [] next \in {"persistent", "global"} -> variable_declaration_stmt
        [] next = "import" -> import_stmt
        [] is_command_stmt(g) -> command_stmt
        [] OTHER -> expr_stmt

=============================================================================
