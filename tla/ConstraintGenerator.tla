-------------------------- MODULE ConstraintGenerator --------------------------
(* The equations of a program (mt/type/type_constraint_gen.cpp): a walk over     *)
(* its statements and expressions (module Programs), each of which leaves a type *)
(* on a stack of terms.  The state of the walk is that of a unification (module  *)
(* Simplifier) with                                                              *)
(*   terms         the stack,                                                    *)
(*   variables, guards   the type of each variable, and while an isa guard holds,*)
(*   repositories  the constraints and variables gathered for each scheme around,*)
(*   lhs, target   on the left of an assignment; all of the right of one,        *)
(*   polymorphic, constructor   what functions and calls of struct are,          *)
(*   class         the class whose methods are walked, or 0.                     *)
EXTENDS Unifier, Programs

Walk(lib) ==
  Unification(lib) @@ [terms |-> <<>>, variables |-> <<>>, guards |-> <<>>, repositories |-> <<>>,
                       lhs |-> FALSE, target |-> FALSE, polymorphic |-> FALSE, constructor |-> FALSE, class |-> 0]

------------------------------------------------------------------------------
(* Terms, variables and equations.  All that is made while a scheme is gathered *)
(* belongs to the innermost.                                                      *)

push_type_equation_term(g, t) == [g EXCEPT !.terms = Append(@, t)]
Top(g) == Last(g.terms)

(* "assert(!type_eq_terms.empty())" *)
pop_type_equation_term(g) == IF g.terms = <<>> THEN add_error(g, "assertion") ELSE [g EXCEPT !.terms = Front(@)]

push_constraint_repository(g) == [g EXCEPT !.repositories = Append(@, [constraints |-> <<>>, variables |-> <<>>])]
current_constraint_repository(g) == Last(g.repositories)
pop_constraint_repository(g) == [g EXCEPT !.repositories = Front(@)]

make_fresh_type_variable_reference(g) ==
  LET made == make_fresh(g, "variable")
      n == Len(g.repositories)
  IN  IF n = 0 THEN made ELSE [made EXCEPT !.repositories[n].variables = Append(@, Newest(made))]

push_constraint(g, a, b) ==
  LET pushed == push_type_equation(g, a, b)
      n == Len(g.repositories)
  IN  IF n = 0 THEN pushed ELSE [pushed EXCEPT !.repositories[n].constraints = Append(@, <<a, b>>)]

make_fresh_type_variable_references(g, n) == Fold(LAMBDA v, i : make_fresh_type_variable_reference(v), g, [i \in 1..n |-> i])

(* A fresh variable for what has to be looked at when its parts are known. *)
push_fresh_equation(g, type) ==
  LET made == make_fresh_type_variable_reference(g) IN push_constraint(made, Newest(made), type)

require_bound_type_variable(g, name) ==
  IF name \in DOMAIN g.guards THEN Result(g, g.guards[name])
  ELSE IF name \in DOMAIN g.variables THEN Result(g, g.variables[name])
  ELSE LET made == make_fresh_type_variable_reference(g)
       IN  Result([made EXCEPT !.variables = Put(@, name, Newest(made))], Newest(made))

------------------------------------------------------------------------------
RECURSIVE expr(_, _), function_call_expr(_, _), stmt(_, _)

(* visit_expr: the variable pushed first stays on the stack. *)
visit_expr(g, e) ==
  LET n == Newest(g) + 1
      Equal(visited) == Result(push_constraint(pop_type_equation_term(visited), n, Top(visited)), Top(visited))
  IN  Equal(expr(push_type_equation_term(make_fresh_type_variable_reference(g), n), e))

visit_each(g, es) ==
  Fold(LAMBDA results, e : Added(results, visit_expr(results.u, e)), Result(g, <<>>), es)

Leave(g, node) == LET made == Made(g, node) IN push_type_equation_term(made, Newest(made))

(* A call, an operator or a concatenation: a function of unknown inputs and      *)
(* outputs is applied to what the arguments are.  It is looked at for the sake   *)
(* of the result, which is left.                                                  *)
LeaveApplication(g, kind, name, arguments) ==
  LET n == Newest(g)
      variables == make_fresh_type_variable_references(Made(g, DestructuredTuple(rvalue, arguments)), 3)
      app == Made(Made(variables, Abstraction(kind, name, n + 3, n + 4)), Application(n + 5, n + 1, n + 2))
  IN  push_type_equation_term(push_fresh_equation(app, n + 6), n + 2)
push_application(g, kind, name, arguments) ==
  LET To(members) == LeaveApplication(members.u, kind, name, members.to) IN To(visit_each(g, arguments))

(* struct('x', e, ...) after @T constructor: a record, if names and values take  *)
(* turns and no name is met twice; otherwise it is a call, after what has been   *)
(* visited.  A cell gives the type of its members, which have to be one.          *)
field_type(g, value) ==
  LET OfFirst(members) ==
        Result(Fold(LAMBDA v, i : push_constraint(v, members.to[1], members.to[i]), members.u, [i \in 1..(Len(members.to) - 1) |-> i + 1]),
               members.to[1])
  IN  IF value.kind # "brace" THEN visit_expr(g, value)
      ELSE IF value.args = <<>> THEN Result(Made(g, Tuple(<<>>)), Newest(g) + 1)
      ELSE OfFirst(visit_each(g, value.args))
struct_argument(r, arg) ==
  LET AddField(value) == [r EXCEPT !.u = [value.u EXCEPT !.heap[r.record].kids = @ \o <<r.name, value.to>>], !.name = 0]
  IN  IF r.name = 0 /\ arg.kind = "char" THEN [r EXCEPT !.u = Made(@, ConstantValue(arg.name)), !.name = Newest(r.u) + 1]
      ELSE IF r.name # 0 /\ find_field(r.u.heap, r.record, r.u.heap[r.name].label) = {} THEN AddField(field_type(r.u, arg))
      ELSE [r EXCEPT !.ok = FALSE]
struct_as_constructor(g, e) ==
  LET Finish(fields) ==
        IF fields.ok THEN push_type_equation_term(fields.u, fields.record)
        ELSE [function_call_expr([fields.u EXCEPT !.constructor = FALSE], e) EXCEPT !.constructor = g.constructor]
  IN  Finish(Fold(struct_argument, [u |-> Made(g, Record(<<>>)), record |-> Newest(g) + 1, name |-> 0, ok |-> TRUE], e.args))

function_call_expr(g, e) ==
  IF g.constructor /\ e.name = struct THEN struct_as_constructor(g, e) ELSE push_application(g, function, e.name, e.args)

function_reference_expr(g, e) ==
  LET n == Newest(g) IN Leave(make_fresh_type_variable_references(g, 2), Abstraction(function, e.name, n + 1, n + 2))

(* A variable on its own is a value; its subscripts are an expression of what    *)
(* they are taken of.                                                             *)
visit_subscripts(g, subs) ==
  Fold(LAMBDA result, s : LET With(arguments) == Result(arguments.u, Append(result.to, Sub(s.method, arguments.to)))
                          IN  With(visit_each(result.u, s.arguments)),
       Result(g, <<>>), subs)
LeaveSubscript(g, variable, subs) ==
  LET n == Newest(g) + 1
      sub == Made(make_fresh_type_variable_reference(g), Subscript(variable, subs, n))
  IN  push_type_equation_term(push_fresh_equation(sub, n + 1), n)
variable_reference_expr(g, e) ==
  LET To(subs, variable) == LeaveSubscript([subs.u EXCEPT !.lhs = g.lhs], variable, subs.to)
      Of(variable) ==
        IF e.subs = <<>> THEN Leave(variable.u, DestructuredTuple(IF g.lhs THEN lvalue ELSE rvalue, <<variable.to>>))
        ELSE To(visit_subscripts([variable.u EXCEPT !.lhs = FALSE], e.subs), variable.to)
  IN  Of(require_bound_type_variable(g, e.name))

(* The constraints gathered around a polymorphic function belong to its scheme. *)
LeaveScheme(g, type) ==
  LET kept == current_constraint_repository(g)
      n == Newest(g) + 1
  IN  push_type_equation_term([Made(pop_constraint_repository(g), Scheme(type, kept.variables)) EXCEPT !.constraints = Put(@, n, kept.constraints)], n)
anonymous_function_expr(g, e) ==
  LET IsScheme == g.polymorphic
      bind_parameters(start) ==
        Fold(LAMBDA results, name : Added(results, require_bound_type_variable(results.u, name)), Result(start, <<>>), e.subs)
      Func(tuple, n) == Made(make_fresh_type_variable_reference(tuple), Abstraction(anonymous_function, 0, n + 1, n + 2))
      Done(body, n) == [push_constraint(body.u, body.to, n + 2) EXCEPT !.polymorphic = IsScheme]
      LeaveFunction(done, n) == IF IsScheme THEN LeaveScheme(done, n + 3) ELSE push_type_equation_term(done, n + 3)
      Of(inputs, n) ==
        LeaveFunction(Done(visit_expr([Func(Made(inputs.u, DestructuredTuple(definition_inputs, inputs.to)), n) EXCEPT !.polymorphic = FALSE],
                                      e.args[1]), n), n)
      From(inputs) == Of(inputs, Newest(inputs.u))
  IN  From(bind_parameters(IF IsScheme THEN push_constraint_repository(g) ELSE g))

(* A group in parentheses, or in brackets on the left of an assignment. *)
grouping_expr_components(g, e, usage) ==
  LET To(members) == Leave(members.u, DestructuredTuple(usage, members.to)) IN To(visit_each(g, e.args))

(* [] may become anything where it is assigned. *)
empty_bracket_expr(g) ==
  LET made == make_fresh_type_variable_reference(g)
  IN  IF g.target THEN push_type_equation_term(made, Newest(made)) ELSE push_type_equation_term(g, g.scalars[double_id])

brace_grouping_expr_rhs(g, e) ==
  LET To(pattern) == Leave(Made(pattern.u, List(pattern.to)), Tuple(<<Newest(pattern.u) + 1>>)) IN To(visit_each(g, e.args))

dynamic_field_reference_expr(g, e) ==
  LET To(field) == push_type_equation_term(push_constraint(field.u, field.to, g.scalars[char_id]), field.to)
  IN  To(visit_expr(g, e.args[1]))

(* What is a call to a function of some kind. *)
CallKind(e) == CASE e.kind = "binary" -> binary_operator [] e.kind = "unary" -> unary_operator [] e.kind = "bracket" -> concatenation

expr(g, e) ==
  CASE e.kind = "literal" -> push_type_equation_term(g, g.scalars[e.name])
    [] e.kind = "char" -> push_type_equation_term(g, g.scalars[char_id])
    [] e.kind = "field" -> Leave(g, ConstantValue(e.name))
    [] e.kind = "dynamic" -> dynamic_field_reference_expr(g, e)
    [] e.kind = "call" -> function_call_expr(g, e)
    [] e.kind = "reference" -> function_reference_expr(g, e)
    [] e.kind = "variable" -> variable_reference_expr(g, e)
    [] e.kind = "anonymous" -> anonymous_function_expr(g, e)
    [] e.kind = "bracket" /\ ~g.lhs /\ e.args = <<>> -> empty_bracket_expr(g)
    [] e.kind \in {"binary", "unary"} \/ (e.kind = "bracket" /\ ~g.lhs /\ e.args # <<>>) ->
         push_application(g, CallKind(e), IF e.kind = "bracket" THEN horizontal ELSE e.name, e.args)
    [] e.kind = "parens" \/ (e.kind = "bracket" /\ g.lhs) ->
         grouping_expr_components(g, e, IF e.kind = "parens" THEN rvalue ELSE lvalue)
    [] e.kind = "brace" -> brace_grouping_expr_rhs(g, e)

------------------------------------------------------------------------------
(* Statements.                                                                   *)
block(g, stmts) == Fold(stmt, g, stmts)

assignment_stmt_terms(g, to, of) ==
  LET Terms(lhs, rhs) == [u |-> pop_type_equation_term([lhs EXCEPT !.lhs = g.lhs]), lhs |-> Top(lhs), rhs |-> rhs]
      Left(rhs) == Terms(expr([pop_type_equation_term(rhs) EXCEPT !.target = g.target, !.lhs = TRUE], to), Top(rhs))
  IN  Left(expr([g EXCEPT !.target = TRUE], of))

push_assignment(g, lhs, rhs) == LET made == Made(g, Assignment(lhs, rhs)) IN push_fresh_equation(made, Newest(made))

assignment_stmt(g, s) ==
  LET Of(sides) == push_assignment(sides.u, sides.lhs, sides.rhs) IN Of(assignment_stmt_terms(g, s.exprs[1], s.exprs[2]))

cast_type_node(g, s) ==
  LET CastTo(sides) ==
        push_assignment(push_fresh_equation(Made(sides.u, Cast(sides.rhs, s.type, s.strategy)), Newest(sides.u) + 1), sides.lhs, s.type)
  IN  CastTo(assignment_stmt_terms(g, s.exprs[1], s.exprs[2]))

(* isa(x, 'name'), perhaps in parentheses: in the branch, x is of that type,    *)
(* also when it was an element of x that was asked about.                         *)
RECURSIVE Ungrouped(_)
Ungrouped(e) == IF e.kind = "parens" /\ e.args # <<>> THEN Ungrouped(e.args[1]) ELSE e
IsGuard(g, e) == e.kind = "call" /\ e.name = isa /\ Len(e.args) = 2 /\ e.args[1].kind = "variable"
                 /\ e.args[2].kind = "char" /\ e.args[2].name \in DOMAIN g.classes
lookup_isa_guarded_class(g, name) ==
  LET class == g.classes[name]
      source == g.heap[class].kids[1]
  IN  IF Tag(g.heap, source) = "scalar" THEN source ELSE class

(* The value of an expression that has to be of a type, or the type of it. *)
visit_as(g, type, e) == LET Of(term) == push_constraint(term.u, type, term.to) IN Of(visit_expr(g, e))

GuardedBy(g, guard) == [g EXCEPT !.guards = Put(@, guard.args[1].name, lookup_isa_guarded_class(g, guard.args[2].name))]
Unguarded(g, guard) == [g EXCEPT !.guards = [x \in DOMAIN @ \ {guard.args[1].name} |-> @[x]]]
if_branch(g, condition, stmts) ==
  LET guard == Ungrouped(condition)
      Branch(start) == IF IsGuard(g, guard) THEN Unguarded(block(GuardedBy(start, guard), stmts), guard) ELSE block(start, stmts)
  IN  Branch(visit_as(g, g.scalars[logical_id], condition))

if_stmt(g, s) ==
  LET n == Len(s.exprs)
  IN  block(Fold(LAMBDA v, i : if_branch(v, s.exprs[i], s.blocks[i]), g, [i \in 1..n |-> i]),
            IF Len(s.blocks) > n THEN Last(s.blocks) ELSE <<>>)

(* The members of a cell are cases of their own. *)
switch_case(g, condition, e, stmts) ==
  block(Fold(LAMBDA v, c : visit_as(v, condition, c), g, IF e.kind = "brace" THEN e.args ELSE <<e>>), stmts)
switch_stmt(g, s) ==
  LET n == Len(s.exprs) - 1
      Cases(condition) == Fold(LAMBDA v, i : switch_case(v, condition.to, s.exprs[i + 1], s.blocks[i]), condition.u, [i \in 1..n |-> i])
  IN  block(Cases(visit_expr(g, s.exprs[1])), IF Len(s.blocks) > n THEN Last(s.blocks) ELSE <<>>)

for_stmt(g, s) ==
  LET Over(variable) == visit_as(variable.u, variable.to, s.exprs[2])
  IN  block(Over(require_bound_type_variable(g, s.exprs[1].name)), s.blocks[1])

while_stmt(g, s) == block(visit_expr(g, s.exprs[1]).u, s.blocks[1])

try_stmt(g, s) == block(visit_each(block(g, s.blocks[1]), s.exprs).u, s.blocks[2])

(* The statement leaves its type on the stack if it is a function or an expression. *)
type_assertion(g, s) ==
  LET Asserted(inner) ==
        IF inner.terms = <<>> THEN add_error(inner, "assertion") ELSE push_constraint(pop_type_equation_term(inner), Top(inner), s.type)
  IN  Asserted([block([g EXCEPT !.polymorphic = Tag(g.heap, s.type) = "scheme"], s.blocks[1]) EXCEPT !.polymorphic = g.polymorphic])

(* Parameters are the variables of the body.  A name that is an input and an     *)
(* output has one type; varargin is a cell.                                       *)
push_function_parameters(g, types, names) ==
  Fold(LAMBDA v, i :
             LET cell == Made(v, Tuple(<<types[i]>>))
                 made == IF names[i] = varargin THEN cell ELSE v
                 type == IF names[i] = varargin THEN Newest(cell) ELSE types[i]
             IN  IF names[i] \in DOMAIN v.variables THEN push_constraint(made, v.variables[names[i]], type)
                 ELSE [made EXCEPT !.variables = Put(@, names[i], type)],
           g, [i \in DOMAIN names |-> i])

(* A method takes its object first and a constructor gives it.  Some names are  *)
(* those of operators, of which comparisons give a logical.                       *)
handle_class_method(g, s, abstraction, source) ==
  LET inputs == g.heap[abstraction[1]].kids
      outputs == g.heap[abstraction[2]].kids
      object == IF s.attributes \cap {"static", "constructor"} = {} THEN push_constraint(g, inputs[1], g.class) ELSE g
      kind == IF s.name \in BinaryOperators THEN binary_operator ELSE unary_operator
      n == Newest(g) + 1
      AsOperator(made) ==
        add_method(push_constraint(Made(made, Abstraction(kind, s.name, abstraction[1], abstraction[2])), n, source), g.class, <<kind, s.name>>, n)
      OfLogical(added) == IF s.name \in Comparisons /\ outputs # <<>> THEN push_constraint(added, outputs[1], g.scalars[logical_id]) ELSE added
      Operator(made) ==
        IF "static" \in s.attributes \/ s.name \notin BinaryOperators \cup UnaryOperators THEN made ELSE OfLogical(AsOperator(made))
  IN  Operator(IF "constructor" \in s.attributes THEN push_constraint(object, outputs[1], g.class) ELSE object)

(* The scheme of a function has the constraints and variables of its body. *)
Generalised(g, scheme) ==
  LET kept == current_constraint_repository(g)
  IN  [pop_constraint_repository(g) EXCEPT !.constraints = Put(@, scheme, constraints_of(g, scheme) \o kept.constraints),
                                           !.heap[scheme].kids = @ \o kept.variables]
function_def_node(g, s) ==
  LET source == g.locals[s.name]
      IsScheme == g.polymorphic \/ Tag(g.heap, source) = "scheme"
      abstraction == g.heap[scheme_source(g, source)].kids
      Parametrised(v) == push_function_parameters(push_function_parameters(v, g.heap[abstraction[1]].kids, s.inputs),
                                                 g.heap[abstraction[2]].kids, s.outputs)
      Inside(v) == [v EXCEPT !.polymorphic = FALSE, !.class = 0]
      Outside(v) == [v EXCEPT !.polymorphic = g.polymorphic, !.class = g.class]
      Equal(v) == push_fresh_equation(push_constraint(v, source, source), source)
      InClass(v) == IF g.class = 0 THEN v ELSE handle_class_method(v, s, abstraction, source)
      Finish(body) == push_type_equation_term(InClass(Equal(IF IsScheme THEN Generalised(body, source) ELSE body)), source)
  IN  Finish(Outside(block(Inside(Parametrised(IF IsScheme THEN push_constraint_repository(g) ELSE g)), s.blocks[1])))

method_node(g, m) ==
  LET As(defined) == push_constraint(pop_type_equation_term(defined), Top(defined), m.type) IN As(stmt(g, m.def))

class_def_node(g, s) ==
  LET class == g.classes[s.name]
      derived == [g EXCEPT !.heap[class].kids = @ \o [i \in DOMAIN s.superclasses |-> g.classes[s.superclasses[i]]]]
      fields == g.heap[g.heap[class].kids[1]].kids
      Initialize(v, i) == LET As(value) == push_constraint(value.u, value.to, fields[2 * i]) IN As(visit_expr(v, s.properties[i].value[1]))
      initialized == Fold(Initialize, derived, SelectSeq([i \in DOMAIN s.properties |-> i], LAMBDA i : s.properties[i].value # <<>>))
  IN  [Fold(method_node, [initialized EXCEPT !.class = class], s.methods) EXCEPT !.class = g.class]

stmt(g, s) ==
  CASE s.kind = "expr" -> expr(g, s.exprs[1])
    [] s.kind = "assignment" -> assignment_stmt(g, s)
    [] s.kind = "if" -> if_stmt(g, s)
    [] s.kind = "switch" -> switch_stmt(g, s)
    [] s.kind = "for" -> for_stmt(g, s)
    [] s.kind = "while" -> while_stmt(g, s)
    [] s.kind = "try" -> try_stmt(g, s)
    [] s.kind = "cast" -> cast_type_node(g, s)
    [] s.kind = "assertion" -> type_assertion(g, s)
    [] s.kind = "constructor" -> [block([g EXCEPT !.constructor = TRUE], s.blocks[1]) EXCEPT !.constructor = g.constructor]
    [] s.kind = "fun" -> [block([g EXCEPT !.polymorphic = TRUE], s.blocks[1]) EXCEPT !.polymorphic = g.polymorphic]
    [] s.kind = "function" -> function_def_node(g, s)
    [] s.kind = "class" -> class_def_node(g, s)
    [] OTHER -> g
===============================================================================
