-------------------------------- MODULE Unifier --------------------------------
(* Unification (mt/type/unification.cpp, subscripts.cpp, instance.cpp): the     *)
(* equations are taken in order, more are pushed while they are, and the types   *)
(* are rewritten in place.  A function is looked up as soon as the arguments of  *)
(* a call are known, an element is taken as soon as what it is taken of is, and  *)
(* both push equations.                                                           *)
EXTENDS Simplifier

Result(u, to) == [u |-> u, to |-> to]
Added(results, one) == [one EXCEPT !.to = Append(results.to, @)]

register_visited_type(u, t) == [u EXCEPT !.visited = @ \cup {t}]
is_visited_type(u, t) == t \in u.visited
constraints_of(u, scheme) == IF scheme \in DOMAIN u.constraints THEN u.constraints[scheme] ELSE <<>>
scheme_source(u, t) == IF Tag(u.heap, t) = "scheme" THEN u.heap[t].kids[1] ELSE t
SetKid(u, t, i, kid) == [u EXCEPT !.heap[t].kids[i] = kid]

------------------------------------------------------------------------------
(* Instances (instance.cpp): the parameters of a scheme are given fresh         *)
(* variables, and its type and constraints are copied with these.  The map from  *)
(* the ones to the others is shared: the parameters of a scheme within stay in it *)
(* for all that is copied after.                                                  *)

Instance(u, replacing, to) == [u |-> u, replacing |-> replacing, to |-> to]

make_instance_variables(instance, scheme) ==
  LET Renamed(i, p, made) == [i EXCEPT !.u = made, !.replacing = Put(@, p, Newest(made))]
  IN  Fold(LAMBDA i, p :
                 IF p \in DOMAIN i.replacing THEN i
                 ELSE Renamed(i, p, make_fresh(i.u, IF Tag(i.u.heap, p) = "parameters" THEN "parameters" ELSE "variable")),
               instance, Tail(instance.u.heap[scheme].kids))

RECURSIVE clone(_, _)
clone_each(instance, ts) ==
  Fold(LAMBDA results, t : Added(results, clone(results, t)), [instance EXCEPT !.to = <<>>], ts)

clone_constraints(instance, equations) ==
  Fold(LAMBDA results, eq : Added(results, clone_each(results, eq)), [instance EXCEPT !.to = <<>>], equations)

CopyWith(kids, node) ==
  LET made == Made(kids.u, [node EXCEPT !.kids = IF node.tag = "class" THEN kids.to \o Tail(@) ELSE kids.to])
  IN  [kids EXCEPT !.u = made, !.to = Newest(made)]
copy(instance, t) ==
  LET node == instance.u.heap[t]
  IN  CopyWith(clone_each(instance, IF node.tag = "class" THEN <<node.kids[1]>> ELSE node.kids), node)

clone_scheme(instance, scheme) ==
  LET Keep(kept, copied) == [kept EXCEPT !.u.constraints = Put(@, copied, kept.to), !.to = copied]
      WithConstraints(copied) == Keep(clone_constraints(copied, constraints_of(copied.u, scheme)), copied.to)
  IN  WithConstraints(copy(make_instance_variables(instance, scheme), scheme))

clone(instance, t) ==
  LET tag == Tag(instance.u.heap, t)
      As(to) == [instance EXCEPT !.to = to]
  IN  IF tag \in {"variable", "parameters"} THEN As(IF t \in DOMAIN instance.replacing THEN instance.replacing[t] ELSE t)
      ELSE IF tag \in {"scalar", "constant"} THEN As(t)
      ELSE IF tag = "cast" THEN [As(t) EXCEPT !.u = add_error(@, "assertion")]
      ELSE IF tag = "scheme" THEN clone_scheme(instance, t)
      ELSE copy(instance, t)

instantiate(u, scheme) ==
  LET Push(kept) == push_type_equations(kept.u, SelectSeq(kept.to, LAMBDA eq : eq[1] # eq[2]))
      WithConstraints(copied) == Result(Push(clone_constraints(copied, constraints_of(u, scheme))), copied.to)
  IN  WithConstraints(clone(make_instance_variables(Instance(u, <<>>, 0), scheme), u.heap[scheme].kids[1]))

(* The type of a scheme for given arguments. *)
instantiate_with(u, scheme, arguments) ==
  LET parameters == Tail(u.heap[scheme].kids)
      given == [p \in ToSet(parameters) |-> arguments[FirstPlace({i \in DOMAIN arguments : parameters[i] = p})]]
  IN  clone(Instance(u, given, 0), u.heap[scheme].kids[1])

------------------------------------------------------------------------------
(* Functions.                                                                    *)

UseFor(abstraction, found) ==
  Result(push_type_equation(register_visited_type(found.u, found.to), found.to, abstraction), found.to)

(* Mutant: a scheme is used as it is. *)
ResolveUninstantiated(u, abstraction, with) == UseFor(abstraction, Result(u, scheme_source(u, with)))

resolve_abstraction(u, abstraction, with) ==
  UseFor(abstraction, IF Tag(u.heap, with) = "scheme" THEN instantiate(u, with) ELSE Result(u, with))

(* A call: the arguments are below the inputs, and the outputs below what the   *)
(* call gives.                                                                    *)
resolve_application(u, app, with) ==
  LET call == u.heap[app].kids
      Apply(found, kids) == push_type_equation(push_type_equation(found.u, call[2], kids[1]), kids[2], call[3])
      Of(found) == Apply(found, found.u.heap[found.to].kids)
  IN  Of(resolve_abstraction(u, call[1], with))

resolve_function(u, reference, with) ==
  IF Tag(u.heap, reference) = "abstraction" THEN resolve_abstraction(u, reference, with).u ELSE resolve_application(u, reference, with)

(* The type of a file is used again once it has been found. *)
search(u, source, arguments) ==
  LET header == Header(u.heap, scheme_source(u, source))
      Again(found) ==
        IF found.status = "external" /\ header[2] \in DOMAIN u.resolved THEN SearchResult("type", {u.resolved[header[2]]}) ELSE found
  IN  IF header[1] = anonymous_function THEN SearchResult("type", {source}) ELSE Again(search_function(u, header, arguments))

(* Once the function and its arguments are known, the call is resolved, waits   *)
(* for a file, or is in error: then the function is given the inputs of the call *)
(* for the message to show.                                                       *)
check_application(u, app) ==
  LET call == u.heap[app].kids
      marked == [u EXCEPT !.visited = @ \cup {app, call[1]}]
      Upon(found) == CASE found.status = "none" -> SetKid(add_error(marked, "unresolved"), scheme_source(u, call[1]), 1, call[2])
                       [] found.status = "type" -> resolve_application(marked, app, CHOOSE t \in found.types : TRUE)
                       [] found.status = "external" -> [marked EXCEPT !.pending = @ \cup {app}]
  IN  IF is_visited_type(u, app) \/ ~is_concrete_argument(u.heap, call[1]) \/ ~is_concrete_argument(u.heap, call[2]) THEN u
      ELSE Upon(search(u, call[1], u.heap[call[2]].kids))

check_abstraction(u, abstraction) ==
  LET inputs == u.heap[abstraction].kids[1]
      marked == register_visited_type(u, abstraction)
      Upon(found) == CASE found.status = "none" -> add_error(marked, "unresolved")
                       [] found.status = "type" -> resolve_abstraction(marked, abstraction, CHOOSE t \in found.types : TRUE).u
                       [] found.status = "external" -> [marked EXCEPT !.pending = @ \cup {abstraction}]
  IN  IF is_visited_type(u, abstraction) \/ ~is_concrete_argument(u.heap, inputs) \/ Header(u.heap, abstraction)[1] = anonymous_function THEN u
      ELSE Upon(search(u, abstraction, u.heap[inputs].kids))

(* Mutant: lhs is below rhs. *)
CheckAssignmentReversed(u, assignment) ==
  LET sides == u.heap[assignment].kids
  IN  IF assignment \in u.assigned \/ ~is_concrete_argument(u.heap, sides[2]) THEN u
      ELSE [push_type_equation(u, sides[1], sides[2]) EXCEPT !.assigned = @ \cup {assignment}]

(* In lhs = rhs, rhs is below lhs. *)
check_assignment(u, assignment) ==
  LET sides == u.heap[assignment].kids
  IN  IF assignment \in u.assigned \/ ~is_concrete_argument(u.heap, sides[2]) THEN u
      ELSE [push_type_equation(u, sides[2], sides[1]) EXCEPT !.assigned = @ \cup {assignment}]

check_cast(u, cast) ==
  LET from == u.heap[cast].kids[1]
      to == u.heap[cast].kids[2]
      marked == register_visited_type(u, cast)
  IN  IF is_visited_type(u, cast) \/ ~is_concrete_argument(u.heap, from) \/ ~is_concrete_argument(u.heap, to) THEN u
      ELSE IF u.heap[cast].label = <<presume>> \/ (\E sides \in {<<from, to>>, <<to, from>>} : related_entry(SubtypesOf(u), sides[1], sides[2])) THEN marked
      ELSE add_error(marked, "cast")

------------------------------------------------------------------------------
(* Subscripts (subscripts.cpp), once what is subscripted is known.  The root is *)
(* the term the subscript was found in.                                           *)
parens == 0
brace == 1
period == 2
subsref == 14
subsindex == 15

First(sub) == [method |-> sub.label[1], arguments |-> SubSeq(sub.kids, 2, 1 + sub.label[2])]
Single(sub) == Len(sub.label) = 2
has_named_method(u, t, name) ==
  \E class \in class_for_type(SubtypesOf(u), t) : class \in DOMAIN u.methods /\ <<function, name>> \in DOMAIN u.methods[class]

arguments_have_subsindex_defined(u, arguments) ==
  \A i \in DOMAIN arguments : \E t \in type_or_first_non_destructured_tuple_member(u.heap, arguments[i]) : has_named_method(u, t, subsindex)
are_valid_subscript_arguments(u, argument, sub) ==
  CASE sub.method = brace -> Tag(u.heap, argument) = "tuple" /\ arguments_have_subsindex_defined(u, sub.arguments)
    [] sub.method = period -> Tag(u.heap, argument) \in {"record", "class"}
    [] sub.method = parens -> arguments_have_subsindex_defined(u, sub.arguments)

(* The members of a cell must be of one type, that of the first. *)
match_members(u, members) ==
  IF members = <<>> THEN Result(add_error(u, "unresolved"), 0)
  ELSE Result(push_type_equations(u, [i \in 1..(Len(members) - 1) |-> <<members[1], members[i + 1]>>]), members[1])

record_period_subscript(u, record, name) ==
  LET found == find_field(u.heap, record, u.heap[name].label)
  IN  IF Tag(u.heap, name) # "constant" \/ found = {} THEN Result(add_error(u, "field"), 0)
      ELSE Result(u, u.heap[record].kids[2 * Min(found)])

(* What the first subscript gives; 0 if nothing. *)
Element(u, argument, sub) ==
  LET h == u.heap
      source == h[argument].kids[1]
  IN  CASE sub.method = parens -> IF Tag(h, argument) \in {"list", "union"} THEN Result(add_error(u, "unresolved"), 0) ELSE Result(u, argument)
        [] sub.method = brace -> match_members(u, h[argument].kids)
        [] sub.method = period /\ Tag(h, argument) = "record" -> record_period_subscript(u, argument, sub.arguments[1])
        [] sub.method = period /\ Tag(h, argument) = "class" ->
             IF Tag(h, source) = "record" THEN record_period_subscript(u, source, sub.arguments[1]) ELSE Result(u, 0)

(* More subscripts than one: the rest is taken of what the first has given, and *)
(* the root is looked at again.                                                   *)
SubscriptRest(u, t, element, first) ==
  [u EXCEPT !.visited = @ \ {t}, !.heap[t].label = SubSeq(@, 3, Len(@)),
            !.heap[t].kids = <<element>> \o SubSeq(@, 2 + Len(first.arguments), Len(@))]
maybe_unify_non_function_subscript(u, t, argument, root) ==
  LET sub == u.heap[t]
      first == First(sub)
      marked == register_visited_type(u, t)
      LookAgain(rest) == LET again == make_fresh(rest, "variable") IN push_type_equation(again, root, Newest(again))
      Taken(element) ==
        IF element.to = 0 THEN element.u
        ELSE IF Single(sub) THEN push_type_equation(element.u, Last(sub.kids), element.to)
        ELSE LookAgain(SubscriptRest(element.u, t, element.to, first))
  IN  IF ~are_concrete_arguments(u.heap, first.arguments) THEN u
      ELSE IF has_named_method(u, argument, subsref) THEN add_error(marked, "subsref")
      ELSE IF ~are_valid_subscript_arguments(u, argument, first) THEN add_error(marked, "unresolved")
      ELSE Taken(Element(marked, argument, first))

(* A subscript of a function is a call. *)
function_call_subscript(u, t, argument) ==
  LET sub == u.heap[t]
      n == Newest(u)
      marked == register_visited_type(u, t)
      call == Made(Made(marked, DestructuredTuple(rvalue, First(sub).arguments)), Application(argument, n + 1, Last(sub.kids)))
  IN  IF ~Single(sub) \/ First(sub).method # parens THEN add_error(marked, "invocation")
      ELSE push_type_equation(make_fresh(call, "variable"), n + 3, n + 2)

scheme_function_call_subscript(u, t, scheme) ==
  LET sub == u.heap[t]
      Call(made, kids) == push_type_equation(push_type_equation(made, Last(sub.kids), kids[2]), Newest(made), kids[1])
      Of(instance) == Call(Made(instance.u, DestructuredTuple(rvalue, First(sub).arguments)), instance.u.heap[instance.to].kids)
  IN  IF ~Single(sub) \/ First(sub).method # parens THEN add_error(register_visited_type(u, t), "invocation")
      ELSE IF ~are_concrete_arguments(u.heap, First(sub).arguments) THEN u
      ELSE register_visited_type(Of(instantiate(u, scheme)), t)

RECURSIVE principal_argument_dispatch(_, _, _, _)
principal_argument_dispatch(u, t, argument, root) ==
  CASE Tag(u.heap, argument) = "alias" -> principal_argument_dispatch(u, t, u.heap[argument].kids[1], root)
    [] Tag(u.heap, argument) = "abstraction" -> function_call_subscript(u, t, argument)
    [] Tag(u.heap, argument) = "scheme" /\ Tag(u.heap, scheme_source(u, argument)) = "abstraction" ->
         scheme_function_call_subscript(u, t, argument)
    [] OTHER -> maybe_unify_non_function_subscript(u, t, argument, root)

maybe_unify_subscript(u, t, root) ==
  LET argument == u.heap[t].kids[1]
  IN  IF is_visited_type(u, t) \/ ~is_concrete_argument(u.heap, argument) THEN u ELSE principal_argument_dispatch(u, t, argument, root)

------------------------------------------------------------------------------
(* Walks over a type.  apply_to puts the type of each bound variable in its     *)
(* place; substitute_one puts one type in the place of one variable.  Both       *)
(* rewrite the types they walk, in place, and check what has become known.       *)
Applying == [variable |-> 0, type |-> 0, root |-> 0]
Substituting(variable, type, root) == [variable |-> variable, type |-> type, root |-> root]

Replacement(u, t, walk) ==
  CASE Tag(u.heap, t) = "parameters" -> IF t \in DOMAIN u.expanded THEN u.expanded[t] ELSE t
    [] walk = Applying -> IF t \in DOMAIN u.bound THEN u.bound[t] ELSE t
    [] OTHER -> IF t = walk.variable THEN walk.type ELSE t

(* Mutant: an application is looked at when a variable in it is replaced only. *)
CheckSubstitutedOnly(u, t, walk) ==
  CASE Tag(u.heap, t) = "abstraction" -> check_abstraction(u, t)
    [] Tag(u.heap, t) = "application" /\ walk # Applying -> check_application(u, t)
    [] Tag(u.heap, t) = "assignment" -> check_assignment(u, t)
    [] Tag(u.heap, t) = "subscript" /\ walk # Applying -> maybe_unify_subscript(u, t, walk.root)
    [] OTHER -> u

check_type(u, t, walk) ==
  CASE Tag(u.heap, t) = "abstraction" -> check_abstraction(u, t)
    [] Tag(u.heap, t) = "application" -> check_application(u, t)
    [] Tag(u.heap, t) = "assignment" -> check_assignment(u, t)
    [] Tag(u.heap, t) = "cast" -> check_cast(u, t)
    [] Tag(u.heap, t) = "subscript" /\ walk # Applying -> maybe_unify_subscript(u, t, walk.root)
    [] OTHER -> u

(* A list is flattened before a variable in it is replaced, and the last of its *)
(* types is kept once.                                                            *)
RECURSIVE flatten_list(_, _)
flatten_list(h, t) ==
  LET kids == IF Tag(h, t) = "destructured" /\ is_outputs(h, t) THEN SubSeq(h[t].kids, 1, Min({1, Size(h, t)})) ELSE h[t].kids
  IN  IF Tag(h, t) \in {"list", "destructured"} THEN FlattenSeq([i \in DOMAIN kids |-> flatten_list(h, kids[i])]) ELSE <<t>>

Repeated(u, list, i) ==
  LET kids == u.heap[list].kids
  IN  i > 1 /\ is_concrete_argument(u.heap, kids[i]) /\ is_concrete_argument(u.heap, kids[i - 1])
      /\ related_entry(EquivalenceOf(u), kids[i], kids[i - 1])
remove_repeated(u, list) ==
  LET kept == Max({0} \cup {i \in 1..Size(u.heap, list) : ~Repeated(u, list, i)})
  IN  [u EXCEPT !.heap[list].kids = SubSeq(@, 1, kept)]

RECURSIVE rewrite(_, _, _)
rewrite(u, t, walk) ==
  LET tag == Tag(u.heap, t)
      IsList == tag = "list" /\ walk # Applying
      Places(v) == IF tag = "assignment" /\ walk # Applying THEN <<2, 1>> ELSE [i \in DOMAIN WalkedKids(v.heap[t]) |-> i]
      Rewritten(kid, i) == SetKid(kid.u, t, i, kid.to)
      WalkEach(start) == Fold(LAMBDA v, i : Rewritten(rewrite(v, v.heap[t].kids[i], walk), i), start, Places(start))
      Flat(v) == IF IsList THEN [v EXCEPT !.heap[t].kids = flatten_list(v.heap, t)] ELSE v
      Trimmed(v) == IF IsList THEN remove_repeated(v, t) ELSE v
  IN  IF tag \in {"variable", "parameters"} THEN Result(u, Replacement(u, t, walk))
      ELSE IF tag \in {"scalar", "constant"} THEN Result(u, t)
      ELSE Result(check_type(Trimmed(WalkEach(Flat(u))), t, walk), t)

apply_to(u, t) == rewrite(u, t, Applying)

------------------------------------------------------------------------------
(* unify_one, for an equation of which both sides have been rewritten.          *)

(* Mutant: the types of the others are left as they are. *)
BindOnly(u, variable, type) == [u EXCEPT !.bound = Put(@, variable, type)]

(* The variable is replaced in the types of all others, which come in the order *)
(* of a hash table, then has its type.                                            *)
Bind(u, variable, type) ==
  LET Rebound(result, other) == [result.u EXCEPT !.bound[other] = result.to]
      replaced == Fold(LAMBDA v, other : Rebound(rewrite(v, v.bound[other], Substituting(variable, type, v.bound[other])), other),
                       u, u.walk)
  IN  [replaced EXCEPT !.bound = Put(@, variable, type)]

unify_terms(u, lhs, rhs) ==
  LET IsVariable(t) == Tag(u.heap, t) = "variable"
      variable == IF IsVariable(lhs) THEN lhs ELSE rhs
      type == IF IsVariable(lhs) THEN rhs ELSE lhs
      Noted(result) == [result.u EXCEPT !.failed = @ \/ ~result.ok]
  IN  IF lhs = rhs THEN u
      ELSE IF ~IsVariable(lhs) /\ ~IsVariable(rhs) THEN Noted(simplify_entry(u, lhs, rhs))
      ELSE IF occurs(u.heap, type, variable) THEN add_error(u, "occurs")
      ELSE Bind(u, variable, type)

(* Both sides of an equation with what their variables are bound to. *)
Sides(u, eq) ==
  LET Of(lhs, rhs) == [u |-> rhs.u, lhs |-> lhs, rhs |-> rhs.to]
      After(lhs) == Of(lhs.to, apply_to(lhs.u, eq[2]))
  IN  After(apply_to(u, eq[1]))

unify_one(u, eq) == LET With(sides) == unify_terms(sides.u, sides.lhs, sides.rhs) IN With(Sides(u, eq))

unify_next(u) == unify_one([u EXCEPT !.index = @ + 1], u.equations[u.index + 1])
had_error(u) == u.failed \/ u.errors # {}
===============================================================================
