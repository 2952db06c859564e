---------------------------- MODULE AstGenerator ----------------------------
(* The recursive-descent parser of ast_gen.cpp as a machine that does one item *)
(* at a time: a method is replaced by what it does, a token is consumed, an    *)
(* effect is applied, and a failed method unwinds to the loop that catches it. *)
EXTENDS AstStatements

CONSTANT Files    \* the token lists that may be parsed, each with its start

(* A file is parsed from its root block, or as a method of a class defined in  *)
(* another file; an expression is parsed by itself to look at it alone.        *)
ASSUME FilesAssumption ==
  \A file \in Files : /\ file.list \in Seq(STRING)
                      /\ file.start \in {"block", "expr", "external"}

------------------------------------------------------------------------------
(* What each method does next, given the tokens ahead. *)

ExpressionItems(g, m, a) ==
  CASE m = "expr" -> expr(a)
    [] m = "operand" -> operand(g, a)
    [] m = "postfix" -> handle_postfix_unary_exprs(g)
    [] m = "superclass_reference" -> superclass_reference(g)
    [] m = "subscripts" -> subscripts(g, a)
    [] m = "arguments" -> arguments(g, a)
    [] m = "more_arguments" -> more_arguments(g, a)
    [] m = "group_parts" -> group_parts(g, a)
    [] m = "group_delimiter" -> group_delimiter(g, a)
    [] m = "components" -> components(g, a)
    [] m = "parameters" -> parameters(g, a)
    [] m = "identifiers_to_]" -> identifier_sequence(g, "]", a)
    [] m = "identifiers_to_>" -> identifier_sequence(g, ">", a)

TypeItems(g, m, a) ==
  CASE m = "type" -> type(g, a)
    [] m = "one_type" -> one_type(g)
    [] m = "union" -> union(g)
    [] m = "type_arguments" -> type_arguments(g)
    [] m \in {"types_to_]", "types_to_)", "types_to_}", "types_to_>"} -> type_sequence(g, m)
    [] m = "type_delimiter" -> type_delimiter(g, a)
    [] m = "type_scheme" -> type_scheme
    [] m = "type_variables" -> type_variable_identifiers(g)
    [] m = "type_annotation_macro" -> type_annotation_macro
    [] m = "type_annotation" -> type_annotation(g, a)
    [] m = "type_assertion" -> type_assertion(a[1], a[2])
    [] m = "stmt_or_function_def" -> stmt_or_function_def(g)
    [] m = "fun_target" -> fun_target(g)
    [] m = "scheme_target" -> scheme_target(g)
    [] m = "record_fields" -> maybe_record_fields(g)
    [] m = "annotations" -> type_annotation_block(g)
    [] m = "maybe_end_type" -> maybe_end_type(g)
    [] m = "declare_type" -> declare_type(g)

StatementItems(g, m, a) ==
  CASE m = "block" -> block(g, a)
    [] m = "script" -> script(a)
    [] m = "sub_block" -> sub_block(g, a)
    [] m = "stmt" -> stmt(g)
    [] m = "else_branches" -> else_branches(g)
    [] m = "cases" -> cases(g, a)
    [] m = "catch_block" -> catch_block(g)
    [] m = "declared_variables" -> declared_variables(g)
    [] m = "imports" -> imports(g)
    [] m = "more_imports" -> more_imports(g)
    [] m = "one_import" -> one_import(g, a)
    [] m = "command_arguments" -> command_arguments(g)
    [] m = "expr_stmt" -> expr_stmt
    [] m = "assignment" -> assignment_stmt(g)
    [] m = "function_def" -> function_def
    [] m = "function_header" -> function_header
    [] m = "function_outputs" -> function_outputs(g)
    [] m = "qualified_name" -> compound_function_name(g)
    [] m = "function_inputs" -> function_inputs(g)

ClassItems(g, m) ==
  CASE m = "class_def" -> class_def
    [] m = "skipped_attributes" -> skipped_attributes(g)
    [] m = "superclasses" -> superclasses(g)
    [] m = "superclass" -> superclass(g)
    [] m = "more_superclasses" -> more_superclasses(g)
    [] m = "class_body" -> class_body(g)
    [] m = "method_attributes" -> method_attributes
    [] m = "attribute" -> attribute(g)
    [] m = "attribute_value" -> attribute_value(g)
    [] m = "attribute_comma" -> attribute_comma(g)
    [] m = "access_specifier" -> access_specifier(g)
    [] m = "methods_block" -> methods_block(g)
    [] m = "methods_body" -> methods_body(g)
    [] m = "method" -> untyped_method_dispatch(g)
    [] m = "properties_block" -> properties_block
    [] m = "properties_body" -> properties_body(g)
    [] m = "initializer" -> initializer(g)

ExpressionMethods ==
  {"expr", "operand", "postfix", "superclass_reference", "subscripts", "arguments",
   "more_arguments", "group_parts", "group_delimiter", "components", "parameters",
   "identifiers_to_]", "identifiers_to_>"}

TypeMethods ==
  {"type", "one_type", "union", "type_arguments", "types_to_]", "types_to_)", "types_to_}",
   "types_to_>", "type_delimiter", "type_scheme", "type_variables", "type_annotation_macro",
   "type_annotation", "type_assertion", "stmt_or_function_def", "fun_target", "scheme_target",
   "record_fields", "annotations", "maybe_end_type", "declare_type"}

StatementMethods ==
  {"block", "script", "sub_block", "stmt", "else_branches", "cases", "catch_block",
   "declared_variables", "imports", "more_imports", "one_import", "command_arguments",
   "expr_stmt", "assignment", "function_def", "function_header", "function_outputs",
   "qualified_name", "function_inputs"}

ClassMethods ==
  {"class_def", "skipped_attributes", "superclasses", "superclass", "more_superclasses",
   "class_body", "method_attributes", "attribute", "attribute_value", "attribute_comma",
   "access_specifier", "methods_block", "methods_body", "method", "properties_block",
   "properties_body", "initializer"}

Methods == ExpressionMethods \cup TypeMethods \cup StatementMethods \cup ClassMethods

Items(g, m, a) ==
  CASE m \in ExpressionMethods -> ExpressionItems(g, m, a)
    [] m \in TypeMethods -> TypeItems(g, m, a)
    [] m \in StatementMethods -> StatementItems(g, m, a)
    [] m \in ClassMethods -> ClassItems(g, m)

------------------------------------------------------------------------------
(* What each effect does. *)

Renamed(g, kind) == [g EXCEPT !.vals[Len(g.vals)].kind = kind]

ExpressionEffect(g, e) ==
  CASE e = "literal_field" -> Renamed(g, "literal_field")
    [] e = "dynamic_field" -> Combine(g, 1, "dynamic_field", <<>>)
    [] e = "reference" -> Renamed(g, "reference")
    [] e \in {"subscript", "group"} -> Push(g, Node(g, Lexeme(g, -1), <<>>, <<>>))
    [] e \in {"argument", "attach_subscript"} -> attach_subscript(g)
    [] e = "check_subscript" -> check_subscript(g)
    [] e = "superclass_method" -> superclass_method(g)
    [] e = "function_reference" -> Renamed(g, "function_reference")
    [] e = "anonymous_function" -> anonymous_function(g)
    [] e = "check_varargin" -> check_varargin(g)
    [] e = "group_part" -> group_part(g)
    [] e = "frame" -> frame(g)
    [] e = "ignored" -> Push(g, Node(g, "ignored", <<>>, <<>>))
    [] e = "literal" -> Push(g, Node(g, "literal", <<>>, <<>>))
    [] e = "complete" -> complete(g)
    [] e = "postfix_unary" -> postfix_unary(g)
    [] e = "pending_unary" -> pending_unary(g)
    [] e = "pending_binary" -> pending_binary(g)
    [] e = "settle" -> settle(g)
    [] e = "finish" -> finish(g, FALSE)
    [] e = "finish_or_empty" -> finish(g, TRUE)

TypeEffect(g, e) ==
  CASE e = "as_union" -> Combine(g, 1, "type", <<>>)
    [] e \in {"type", "function_type"} -> Push(g, Node(g, e, <<>>, <<>>))
    [] e = "check_scheme" -> check_scheme(g)
    [] e = "check_type_variables" -> check_type_variables(g)
    [] e = "scheme" -> Combine(g, 1, "scheme", <<>>)
    [] e = "assertion_of" -> Combine(g, 2, "assertion", <<>>)
    [] e = "assertion" -> Combine(g, 1, "assertion", <<>>)
    [] e = "as_annotation" -> as_annotation(g)
    [] e = "annotation" -> Push(g, Node(g, "annotation", <<>>, <<>>))
    [] e = "fun_assignment" -> fun_assignment(g)
    [] e = "register" -> register_type(g, 0, "annotation")
    [] e = "register_over_one" -> register_type(g, 1, "annotation")
    [] e = "check_field" -> check_field(g)
    [] e = "pending_import" -> pending_import(g)
    [] e = "underlying" -> underlying(g)
    [] e = "declare_function" -> declare_function(g)
    [] e = "declare_class" -> declare_class(g)
    [] e = "method_name" -> Push(g, Node(g, Look(g), <<>>, <<>>))
    [] e = "declare_method" -> declare_method(g)
    [] e = "cast" -> cast(g)
    [] e = "constructor" -> constructor(g)

StatementEffect(g, e) ==
  CASE e = "register_script" -> register_file_type(g, "script_with_local_functions")
    [] e = "mark_visited_function" -> mark_visited_function(g)
    [] e = "check_location" -> check_location(g)
    [] e = "check_varargout" -> check_varargout(g)
    [] e = "header" -> header(g)
    [] e = "define_function" -> define_function(g)
    [] e = "control" -> control(g)
    [] e = "statement" -> Push(g, Node(g, "stmt", <<>>, <<>>))
    [] e = "null_statement" -> Push(g, Node(g, "null", <<>>, <<>>))
    [] e = "register_import" -> register_import(g)
    [] e = "check_target" -> check_target(g)
    [] e = "assignment" -> Combine(g, 2, "assignment", <<>>)
    [] e = "expr_stmt" -> Combine(g, 1, "expr_stmt", <<>>)
    [] e = "register_class_file" -> register_class_file(g)
    [] e = "enter_class_file" -> [g EXCEPT !.class_def_file = @ + 1]
    [] e = "define_class" -> define_class(g)
    [] e = "attribute_name" -> attribute_name(g)
    [] e = "boolean_attribute_value" -> boolean_attribute_value(g)
    [] e = "access_value" -> access_value(g)
    [] e = "method_declaration" -> method_declaration(g)
    [] e = "method_def" -> method_def(g)
    [] e = "name_property" -> name_property(g)
    [] e = "emplace_property" -> emplace_property(g)

TypeEffects ==
  {"as_union", "type", "function_type", "check_scheme", "check_type_variables", "scheme",
   "assertion_of", "assertion", "as_annotation", "annotation", "fun_assignment", "register",
   "register_over_one", "check_field", "pending_import", "underlying", "declare_function",
   "declare_class", "method_name", "declare_method", "cast", "constructor"}

StatementEffects ==
  {"register_script", "mark_visited_function", "check_location", "check_varargout", "header",
   "define_function", "control", "statement", "null_statement", "register_import", "check_target",
   "assignment", "expr_stmt", "register_class_file", "enter_class_file", "define_class",
   "attribute_name", "boolean_attribute_value", "access_value", "method_declaration", "method_def",
   "name_property", "emplace_property"}

Effect(g, e) ==
  CASE e = "advance" -> Advanced(g)
    [] e = "drop" -> [g EXCEPT !.vals = Front(@)]
    [] e = "fail" -> Failed(g)
    [] e = "one_identifier" -> one_identifier(g)
    [] e = "no_names" -> NoNames(g)
    [] e = "gather" -> Gather(g)
    [] e = "advance_to_right_parens" -> advance_to_one(g, {")"})
    [] e = "advance_to_right_brace" -> advance_to_one(g, {"}"})
    [] e \in TypeEffects -> TypeEffect(g, e)
    [] e \in StatementEffects -> StatementEffect(g, e)
    [] OTHER -> ExpressionEffect(g, e)

------------------------------------------------------------------------------
(* The machine. *)

Init ==
  \E file \in Files :
    /\ tokens = [list |-> file.list, end_terminated |-> file.end_terminated, package |-> file.package]
    /\ gen = IF file.start = "external"
             THEN ViaExternalMethod(<<Nt("block", FALSE)>>, file.class, file.scope, FALSE)
             ELSE Fresh(<<Nt(file.start, FALSE)>>)

Parsing == gen.status = "parsing" /\ gen.todo /= <<>>
NextItem == Head(gen.todo)
Rest == [gen EXCEPT !.todo = Tail(@)]
Proceeds(op) == Parsing /\ ~gen.failing /\ NextItem[1] = op

Call ==
  /\ Parsing /\ ~gen.failing
  /\ NextItem[1] \in Methods
  /\ gen' = [Rest EXCEPT !.todo = Items(gen, NextItem[1], NextItem[2]) \o @]
  /\ UNCHANGED tokens

Perform ==
  /\ Proceeds("do")
  /\ gen' = Effect(Rest, NextItem[2])
  /\ UNCHANGED tokens

(* consume, consume_one_of: the error is reported by all but one caller. *)
Consume ==
  /\ Parsing /\ ~gen.failing
  /\ NextItem[1] \in {"get", "get_silently"}
  /\ gen' = CASE Look(gen) \in NextItem[2] -> Advanced(Rest)
              [] NextItem[1] = "get" -> Error(Rest, "expected_token")
              [] OTHER -> Failed(Rest)
  /\ UNCHANGED tokens

Report ==
  /\ Proceeds("error")
  /\ gen' = Error(Rest, NextItem[2])
  /\ UNCHANGED tokens

EnterScope ==
  /\ Proceeds("within")
  /\ LET kind == NextItem[2][1]
         items == NextItem[2][2]
     IN  gen' = Enter([Rest EXCEPT !.todo = items \o <<Leave(kind)>> \o @], kind)
  /\ UNCHANGED tokens

LeaveScope ==
  /\ Proceeds("leave")
  /\ gen' = Leaving(Rest, NextItem[2])
  /\ UNCHANGED tokens

(* A loop that has nothing to catch goes on. *)
PassCatch ==
  /\ Proceeds("catch")
  /\ gen' = Rest
  /\ UNCHANGED tokens

(* Mutant: a failed method leaves the blocks it entered as they are. *)
Unwind_Inside ==
  /\ Parsing /\ gen.failing
  /\ NextItem[1] /= "catch"
  /\ gen' = Rest
  /\ UNCHANGED tokens

(* A failed method returns: the destructors on the way are run. *)
Unwind ==
  /\ Parsing /\ gen.failing
  /\ NextItem[1] /= "catch"
  /\ gen' = IF NextItem[1] = "leave" THEN Leaving(Rest, NextItem[2]) ELSE Rest
  /\ UNCHANGED tokens

(* The loop of a block skips ahead, notes the failure and goes on; that of an  *)
(* annotation block skips ahead and fails too.                                 *)
Recover ==
  /\ Parsing /\ gen.failing
  /\ NextItem[1] = "catch"
  /\ LET handler == NextItem[2][1]
         skipped == advance_to_one(Rest, Resumes(handler))
     IN  gen' = IF handler = "annotations"
                THEN skipped
                ELSE [skipped EXCEPT !.failing = FALSE,
                                     !.vals = SubSeq(@, 1, NextItem[2][2]),
                                     !.todo = <<Nt(handler, TRUE)>> \o Tail(@)]
  /\ UNCHANGED tokens

(* AstGenerator::parse: the root block, or an error. *)
Finish ==
  /\ gen.status = "parsing" /\ gen.todo = <<>>
  /\ gen' = [gen EXCEPT !.status = IF gen.failing THEN "had_error" ELSE "parsed"]
  /\ UNCHANGED tokens

Next ==
  \/ Call \/ Perform \/ Consume \/ Report \/ EnterScope \/ LeaveScope \/ PassCatch
  \/ Unwind \/ Recover \/ Finish

Spec == Init /\ [][Next]_vars /\ WF_vars(Next)

=============================================================================
