------------------------------ MODULE TypeResolver ------------------------------
(* The types that are written in a file, and the types of its functions and     *)
(* classes (mt/type/type_identifier_resolution.cpp), before its equations are    *)
(* made.  The state is that of the generator, with                               *)
(*   names    the types of the scope of the file,                                *)
(*   schemes  the types that are made of a scheme when all types are resolved,    *)
(*   invalid  what is wrong with the types of the file.                           *)
(* Around a type are the variables of a scheme and the scheme, around a          *)
(* statement whether functions are polymorphic and a type they must have.         *)
EXTENDS ConstraintGenerator

Resolution(lib) == Walk(lib) @@ [names |-> <<>>, schemes |-> <<>>, invalid |-> {}]
add_type_error(r, kind) == [r EXCEPT !.invalid = @ \cup {kind}]
TopLevel == [variables |-> <<>>, scheme |-> 0, polymorphic |-> FALSE, presumed |-> 0]

(* What the parser makes: the types that are named, without their sources. *)
declare(r, name, node) == LET made == Made(r, node) IN [made EXCEPT !.names = Put(@, name, Newest(made))]
declare_record(r, s) ==
  LET variables == Fold(LAMBDA v, i : make_fresh(v, "variable"), r, s.variables)
      record == Made(variables, Record(<<>>))
  IN  IF s.variables = <<>> THEN declare(r, s.name, Record(<<>>))
      ELSE declare(record, s.name, Scheme(Newest(record), [i \in DOMAIN s.variables |-> Newest(r) + i]))
declare_names(r, file) ==
  Fold(LAMBDA v, s : CASE s.kind = "let" -> declare(v, s.name, Alias(0))
                           [] s.kind = "record" -> declare_record(v, s)
                           [] s.kind = "class" -> declare(v, s.name, Class(s.name, 0, <<>>))
                           [] OTHER -> v,
           r, file)

------------------------------------------------------------------------------
(* Types.  A collector has the types that were met, unless there was an error.  *)
Collected(r, types) == [u |-> r, to |-> types, error |-> FALSE]
Failed(r) == [u |-> r, to |-> <<>>, error |-> TRUE]
Collect(r, node) == LET made == Made(r, node) IN Collected(made, <<Newest(made)>>)

RECURSIVE type_node(_, _, _), resolve(_, _, _)
collect_types(r, types, around) ==
  Fold(LAMBDA c, t : LET one == type_node(c.u, t, around)
                         IN  [u |-> one.u, to |-> c.to \o one.to, error |-> c.error \/ one.error],
           Collected(r, <<>>), types)

(* "It's a bug if more or fewer than one type is present." *)
ExpectOne(c) == IF ~c.error /\ Len(c.to) # 1 THEN Failed(add_error(c.u, "assertion")) ELSE c
collect_one_type(r, type, around) == ExpectOne(type_node(r, type, around))

(* A scheme with its arguments is made later: what it is made of may be defined *)
(* later.                                                                         *)
handle_pending_scheme(r, scheme, type, around) ==
  LET arguments == Fold(LAMBDA c, t : IF c.error THEN c
                                          ELSE [collect_one_type(c.u, t, around) EXCEPT !.to = c.to \o @],
                            Collected(r, <<>>), type.args)
      Pending(c) == [Collect(c.u, Alias(0)) EXCEPT !.u.schemes = Append(@, [scheme |-> scheme, arguments |-> c.to, target |-> Newest(c.u) + 1])]
      Of(c) == IF c.error THEN Failed(c.u) ELSE Pending(c)
  IN  IF Size(r.heap, scheme) # 1 + Len(type.args) THEN Failed(add_type_error(r, "scheme arguments")) ELSE Of(arguments)

(* The variables of a scheme come before the names of the file. *)
scalar_type_node(r, type, around) ==
  LET found == IF type.name \in DOMAIN around.variables THEN around.variables[type.name] ELSE r.names[type.name]
  IN  IF type.name \notin DOMAIN around.variables \cup DOMAIN r.names THEN Failed(add_type_error(r, "type identifier"))
      ELSE IF found = around.scheme THEN Failed(add_type_error(add_type_error(r, "recursive type"), "type identifier"))
      ELSE IF Tag(r.heap, found) = "scheme" THEN handle_pending_scheme(r, found, type, around)
      ELSE IF type.args # <<>> THEN Failed(add_type_error(r, "type arguments"))
      ELSE Collected(r, <<found>>)

function_type_node(r, type, around) ==
  LET Of(inputs, outputs) ==
        IF outputs.error THEN Failed(outputs.u)
        ELSE Collected(make_simple_function(outputs.u, function, 0, inputs, outputs.to), <<Newest(outputs.u) + 3>>)
      From(inputs) == IF inputs.error THEN Failed(inputs.u) ELSE Of(inputs.to, collect_types(inputs.u, type.others, around))
  IN  From(collect_types(r, type.args, around))

WithVariables(around, scheme, variables, parameters) ==
  [around EXCEPT !.scheme = scheme, !.variables = Fold(LAMBDA map, i : Put(map, variables[i], parameters[i]), <<>>, [i \in DOMAIN variables |-> i])]
scheme_type_node(r, type, around) ==
  LET variables == Fold(LAMBDA v, i : make_fresh(v, "variable"), r, type.others)
      parameters == [i \in DOMAIN type.others |-> Newest(r) + i]
      scheme == Made(variables, Scheme(0, parameters))
      n == Newest(r) + Len(type.others) + 1
      Of(of) == IF of.error THEN of ELSE Collected([of.u EXCEPT !.heap[n].kids[1] = of.to[1]], <<n>>)
  IN  Of(collect_one_type(scheme, type.args[1], WithVariables(around, n, type.others, parameters)))

type_node(r, type, around) ==
  LET Of(members) == IF members.error THEN Failed(members.u) ELSE Collect(members.u, Node(type.kind, <<>>, members.to))
  IN  CASE type.kind = "name" -> scalar_type_node(r, type, around)
        [] type.kind = "function" -> function_type_node(r, type, around)
        [] type.kind = "scheme" -> scheme_type_node(r, type, around)
        [] type.kind = "infer" -> LET made == make_fresh(r, "variable") IN Collected(made, <<Newest(made)>>)
        [] type.kind \in {"tuple", "union", "list"} -> Of(collect_types(r, type.args, around))

(* The fields up to the first whose type is not known. *)
record_type_node(r, s) ==
  LET named == r.names[s.name]
      record == scheme_source(r, named)
      around == IF Tag(r.heap, named) = "scheme" THEN WithVariables(TopLevel, named, s.variables, Tail(r.heap[named].kids)) ELSE TopLevel
      AddField(one, name) ==
        IF one.error THEN Failed(one.u)
        ELSE Collected([Made(one.u, ConstantValue(name)) EXCEPT !.heap[record].kids = @ \o <<Newest(one.u) + 1, one.to[1]>>], <<>>)
      add_field(c, field) == IF c.error THEN c ELSE AddField(collect_one_type(c.u, field[2], around), field[1])
  IN  Fold(add_field, Collected(r, <<>>), s.fields).u

------------------------------------------------------------------------------
(* Functions.                                                                    *)

(* A name that is met twice has one variable. *)
gather_function_parameters(r, names) ==
  Fold(LAMBDA c, name :
             LET made == IF name \in DOMAIN c.known THEN c.u ELSE make_fresh(c.u, "variable")
                 type == IF name \in DOMAIN c.known THEN c.known[name] ELSE Newest(made)
             IN  [u |-> made, to |-> Append(c.to, type), known |-> Put(c.known, name, type)],
           [u |-> r, to |-> <<>>, known |-> <<>>], names)

function_header_new_type(r, s, polymorphic) ==
  LET n == Len(s.inputs)
      Func(v, types) == make_simple_function(v, function, s.name, SubSeq(types, 1, n), SubSeq(types, n + 1, Len(types)))
      Of(func, types) == IF polymorphic THEN Collect(func, Scheme(Newest(func), types)) ELSE Collected(func, <<Newest(func)>>)
      From(parameters) == Of(Func(parameters.u, parameters.to), parameters.to)
  IN  From(gather_function_parameters(r, s.inputs \o s.outputs))

(* The type a function must have, which is given its name. *)
assign_kind(r, type, header) == [r EXCEPT !.heap[scheme_source(r, type)].label = header]
function_header_presumed_type(r, s, type) ==
  LET source == scheme_source(r, type)
      kids == r.heap[source].kids
  IN  IF Tag(r.heap, source) # "abstraction" THEN Failed(add_type_error(r, "function type"))
      ELSE IF Size(r.heap, kids[1]) # Len(s.inputs) \/ Size(r.heap, kids[2]) # Len(s.outputs) THEN Failed(add_type_error(r, "parameters"))
      ELSE Collected(assign_kind(r, type, <<function, s.name>>), <<type>>)

(* Statements are left with the types they need: a result has the statement,    *)
(* what it has collected and whether there was an error.                          *)
Left(c, s) == [u |-> c.u, to |-> c.to, error |-> c.error, stmt |-> s]
resolve_block(r, stmts, around) ==
  Fold(LAMBDA b, s : LET one == resolve(b.u, s, around)
                         IN  [u |-> one.u, to |-> b.to \o one.to, error |-> b.error \/ one.error, stmts |-> Append(b.stmts, one.stmt)],
           [u |-> r, to |-> <<>>, error |-> FALSE, stmts |-> <<>>], stmts)
resolve_blocks(r, s, around) ==
  LET With(resolved) == Left(resolved, [s EXCEPT !.blocks = resolved.blocks])
      blocks == Fold(LAMBDA b, stmts : LET one == resolve_block(b.u, stmts, around)
                                           IN  [u |-> one.u, to |-> b.to \o one.to, error |-> b.error \/ one.error, blocks |-> Append(b.blocks, one.stmts)],
                         [u |-> r, to |-> <<>>, error |-> FALSE, blocks |-> <<>>], s.blocks)
  IN  With(blocks)

(* What is wrong in the body of a function is not collected. *)
resolve_function_def(r, s, around) ==
  LET Of(body, types) == Left(Collected(body.u, types), body.stmt)
      Typed(v, type) == resolve_blocks(emplace_local_function_type(v, s.name, type), s,
                                       [around EXCEPT !.polymorphic = Tag(v.heap, type) = "scheme", !.presumed = 0])
      From(type) == IF type.error THEN Left(type, s) ELSE Of(Typed(type.u, type.to[1]), type.to)
  IN  From(IF around.presumed # 0 THEN function_header_presumed_type(r, s, around.presumed)
           ELSE function_header_new_type(r, s, around.polymorphic))

resolve_type_assertion(r, s, around) ==
  LET Of(type) == IF type.error THEN Left(type, s)
                  ELSE resolve_blocks(type.u, [s EXCEPT !.type = type.to[1]], [around EXCEPT !.presumed = type.to[1]])
  IN  Of(collect_one_type(r, s.type, around))

method_type_declaration(r, s, around) ==
  LET class == r.classes[s.name]
      Add(named, type) ==
        IF has_method(r, class, s.header) THEN Collected(add_type_error(named, "duplicate"), <<>>)
        ELSE Collected(add_method(named, class, s.header, type), <<>>)
      Of(type) == IF type.error THEN Failed(type.u) ELSE Add(assign_kind(type.u, type.to[1], s.header), type.to[1])
  IN  IF s.name \notin DOMAIN r.classes THEN Failed(add_type_error(r, "type identifier")) ELSE Of(collect_one_type(r, s.type, around))

declare_function_type_node(r, s, around) ==
  LET header == <<function, s.name>>
      Add(named, type) == IF header \in DOMAIN r.functions THEN Failed(add_type_error(named, "duplicate"))
                          ELSE Collected(emplace_declared_function_type(named, header, type), <<>>)
      Of(type) == IF type.error THEN Failed(type.u) ELSE Add(assign_kind(type.u, type.to[1], header), type.to[1])
  IN  Of(collect_one_type(r, s.type, around))

------------------------------------------------------------------------------
(* Classes: a record of the properties, then the methods, each with the type it *)
(* is given or that of its function.                                              *)
property_node(r, p, around) ==
  LET Of(type) == IF type.error THEN type ELSE Collected(Made(type.u, ConstantValue(p.name)), <<Newest(type.u) + 1, type.to[1]>>)
  IN  Of(IF p.type = <<>> THEN Collected(make_fresh(r, "variable"), <<Newest(r) + 1>>) ELSE collect_one_type(r, p.type[1], around))

method_node_type(r, m, around) ==
  LET With(one, def, given) ==
        [u |-> one.u, to |-> one.to, error |-> one.error,
         method |-> [m EXCEPT !.def = def, !.type = IF m.type = <<>> THEN Last(<<0>> \o one.to) ELSE given]]
      Of(def, given) == With(ExpectOne(def), def.stmt, given)
      From(given) == IF given.error THEN [given EXCEPT !.to = <<>>] @@ [method |-> m]
                     ELSE Of(resolve(given.u, m.def, [around EXCEPT !.presumed = given.to[1]]), given.to[1])
  IN  From(IF m.type = <<>> THEN Collected(r, <<0>>) ELSE collect_one_type(r, m.type[1], around))

resolve_method(class, c, m, around) ==
  LET Of(method) ==
        IF method.error THEN [c EXCEPT !.u = method.u, !.error = TRUE]
        ELSE [u |-> add_method(method.u, class, Header(method.u.heap, scheme_source(method.u, method.to[1])), method.to[1]),
              error |-> FALSE, methods |-> Append(c.methods, method.method)]
  IN  IF c.error THEN c ELSE Of(method_node_type(c.u, m, around))

resolve_class_def(r, s, around) ==
  LET class == r.names[s.name]
      registered == emplace_declared_class_type(r, s.name, class)
      AddProperty(c, one) == IF one.error THEN one ELSE [one EXCEPT !.to = c.to \o @]
      fields == Fold(LAMBDA c, p : IF c.error THEN c ELSE AddProperty(c, property_node(c.u, p, around)),
                     Collected(registered, <<>>), s.properties)
      SetSource(record) == [record EXCEPT !.heap[class].kids[1] = Newest(record)]
      Methods(record) == Fold(LAMBDA c, m : resolve_method(class, c, m, around),
                              [u |-> SetSource(record), error |-> FALSE, methods |-> <<>>], s.methods)
      With(methods) == Left(Collected(methods.u, <<>>), [s EXCEPT !.methods = methods.methods])
      Of(properties) == IF properties.error THEN Left(Collected(properties.u, <<>>), s)
                        ELSE With(Methods(Made(properties.u, Record(properties.to))))
  IN  IF s.name \in DOMAIN r.classes THEN Left(Failed(add_type_error(r, "duplicate")), s) ELSE Of(fields)

resolve_type_let(r, s, around) ==
  LET Of(type) == IF type.error THEN type.u ELSE [type.u EXCEPT !.heap[r.names[s.name]].kids = type.to]
  IN  Of(collect_one_type(r, s.type, around))

resolve(r, s, around) ==
  LET CastTo(type) == Left([type EXCEPT !.to = <<>>], IF type.error THEN s ELSE [s EXCEPT !.type = type.to[1]])
  IN  CASE s.kind = "let" -> Left(Collected(resolve_type_let(r, s, around), <<>>), s)
        [] s.kind = "record" -> Left(Collected(record_type_node(r, s), <<>>), s)
        [] s.kind = "declare function" -> Left(declare_function_type_node(r, s, around), s)
        [] s.kind = "declare method" -> Left(method_type_declaration(r, s, around), s)
        [] s.kind = "cast" -> CastTo(collect_one_type(r, s.type, around))
        [] s.kind = "assertion" -> resolve_type_assertion(r, s, around)
        [] s.kind = "function" -> resolve_function_def(r, s, around)
        [] s.kind = "class" -> resolve_class_def(r, s, around)
        [] OTHER -> resolve_blocks(r, s, [around EXCEPT !.polymorphic = @ \/ s.kind = "fun"])

------------------------------------------------------------------------------
(* When all are resolved: no named type may be made of itself, as far as a      *)
(* scheme with arguments is the scheme's; then these are made.                    *)
RemappedAliasSources(r) == Fold(LAMBDA map, p : Put(map, p.target, scheme_source(r, p.scheme)), <<>>, r.schemes)
check_for_recursive_types(r) ==
  IF \E t \in {r.names[name] : name \in DOMAIN r.names} \cup {p.scheme : p \in ToSet(r.schemes)} : is_recursive(r.heap, t, {}, RemappedAliasSources(r))
  THEN add_type_error(r, "recursive type") ELSE r

instantiate_schemes(r) ==
  Fold(LAMBDA v, p : LET instance == instantiate_with(v, p.scheme, p.arguments) IN [instance.u EXCEPT !.heap[p.target].kids = <<instance.to>>],
           [r EXCEPT !.schemes = <<>>], r.schemes)

(* The names and types of a file, and its statements with their types. *)
resolve_type_identifiers(r, file) ==
  LET Check(v) == IF v.invalid = {} THEN check_for_recursive_types(v) ELSE v
      Finish(v) == IF v.invalid = {} THEN instantiate_schemes(v) ELSE v
      Of(resolved) == [u |-> Finish(Check(resolved.u)), stmts |-> resolved.stmts]
  IN  Of(resolve_block(declare_names(r, file), file, TopLevel))
===============================================================================
