------------------------------- MODULE TypeTerms -------------------------------
(* The types of the checker (mt/type/types.hpp) and what holds of one of them.  *)
(* The store holds every type that was made, and a type refers to others by     *)
(* their place in it.  Every type is a record: its tag, the numbers that tell   *)
(* it from others of its tag, and the types it is made of.                       *)
(*                                                                               *)
(*   scalar       <<name>>                                                       *)
(*   class        <<name>>            source, supertypes...                      *)
(*   constant     <<value>>                                                      *)
(*   variable     <<identifier>>                                                 *)
(*   parameters   <<identifier>>                                                 *)
(*   abstraction  <<kind, name>>      inputs, outputs                            *)
(*   application                      abstraction, inputs, outputs               *)
(*   subscript    methods, arguments of each; argument, arguments..., outputs    *)
(*   tuple, union, list               members...                                 *)
(*   destructured <<usage>>           members...                                 *)
(*   record                           name, type of each field                   *)
(*   alias                            source                                     *)
(*   scheme                           type, parameters...; constraints           *)
(*   assignment                       two types                                  *)
(*   cast         <<strategy>>        two types                                  *)
EXTENDS Integers, Sequences, SequencesExt, FiniteSets, FiniteSetsExt, TLC

(* FoldLeft, where what has been folded is evaluated before the next member is. *)
Fold(op(_, _), base, seq) ==
  LET folded[i \in 0..Len(seq)] ==
        IF i = 0 THEN base ELSE CHOOSE next \in {op(v, seq[i]) : v \in {folded[i - 1]}} : TRUE
  IN  folded[Len(seq)]

(* The first of some places in a sequence; 0 if there is none. *)
FirstPlace(places) == IF places = {} THEN 0 ELSE Min(places)

Node(tag, label, kids) == [tag |-> tag, label |-> label, kids |-> kids]

(* The usages of a destructured tuple and the kinds of an abstraction. *)
rvalue == 0
lvalue == 1
definition_outputs == 2
definition_inputs == 3
unary_operator == 0
binary_operator == 1
function == 3
concatenation == 4
anonymous_function == 5

(* The strategies of a cast. *)
presume == 0
checked == 1

Scalar(name) == Node("scalar", <<name>>, <<>>)
Class(name, source, supertypes) == Node("class", <<name>>, <<source>> \o supertypes)
ConstantValue(value) == Node("constant", <<value>>, <<>>)
Variable(id) == Node("variable", <<id>>, <<>>)
Parameters(id) == Node("parameters", <<id>>, <<>>)
Abstraction(kind, name, inputs, outputs) == Node("abstraction", <<kind, name>>, <<inputs, outputs>>)
Application(abstraction, inputs, outputs) == Node("application", <<>>, <<abstraction, inputs, outputs>>)
Tuple(members) == Node("tuple", <<>>, members)
Union(members) == Node("union", <<>>, members)
List(pattern) == Node("list", <<>>, pattern)
DestructuredTuple(usage, members) == Node("destructured", <<usage>>, members)
Record(fields) == Node("record", <<>>, fields)
Alias(source) == Node("alias", <<>>, <<source>>)
Scheme(type, parameters) == Node("scheme", <<>>, <<type>> \o parameters)
Assignment(lhs, rhs) == Node("assignment", <<>>, <<lhs, rhs>>)
Cast(from, to, strategy) == Node("cast", <<strategy>>, <<from, to>>)
Subscript(argument, subs, outputs) ==
  Node("subscript", FlattenSeq([i \in DOMAIN subs |-> <<subs[i].method, Len(subs[i].arguments)>>]),
       <<argument>> \o FlattenSeq([i \in DOMAIN subs |-> subs[i].arguments]) \o <<outputs>>)

(* make_type: the type made is the last of the store. *)
make_type(h, node) == Append(h, node)

------------------------------------------------------------------------------
(* What a type is.                                                              *)

Tag(h, a) == h[a].tag
Size(h, a) == Len(h[a].kids)
Usage(h, a) == h[a].label[1]
supertypes(h, a) == Tail(h[a].kids)

is_outputs(h, a) == Usage(h, a) = definition_outputs
is_inputs(h, a) == Usage(h, a) = definition_inputs
is_definition_usage(h, a) == is_outputs(h, a) \/ is_inputs(h, a)
is_value_usage(h, a) == ~is_definition_usage(h, a)
mismatching_definition_usages(h, a, b) == is_definition_usage(h, a) /\ is_definition_usage(h, b) /\ Usage(h, a) # Usage(h, b)

(* How a function is looked up: by the kind of it and its name or operator. *)
Header(h, a) == h[a].label

(* IsConcreteArgument: what dispatch and assignment wait for. *)
RECURSIVE is_concrete_argument(_, _)
is_concrete_argument(h, a) ==
  LET t == h[a]
  IN  \/ t.tag \in {"abstraction", "tuple", "scalar", "record", "constant"}
      \/ t.tag \in {"destructured", "list", "union"} /\ \A i \in DOMAIN t.kids : is_concrete_argument(h, t.kids[i])
      \/ t.tag \in {"scheme", "class", "alias"} /\ is_concrete_argument(h, t.kids[1])
are_concrete_arguments(h, as) == \A i \in DOMAIN as : is_concrete_argument(h, as[i])

(* The types a walk over a type visits; the supertypes of a class are not      *)
(* walked, and neither are the parameters of a scheme.                           *)
WalkedKids(t) == IF t.tag \in {"class", "scheme"} THEN <<t.kids[1]>> ELSE t.kids
RECURSIVE Reachable(_, _)
Reachable(h, a) == {a} \cup UNION {Reachable(h, k) : k \in ToSet(WalkedKids(h[a]))}

(* IsRecursive: a walk meets a type on the way to itself.  Aliases that have no *)
(* source so far lead to what aliases gives for them.                             *)
RECURSIVE is_recursive(_, _, _, _)
is_recursive(h, a, visited, aliases) ==
  \/ a \in visited
  \/ \E k \in ToSet(IF a \in DOMAIN aliases THEN <<aliases[a]>> ELSE WalkedKids(h[a])) : is_recursive(h, k, visited \cup {a}, aliases)

occurs(h, a, x) == x \in Reachable(h, a)

(* IsFullyConcrete: the variables and parameters no scheme around binds. *)
RECURSIVE unbound_variables(_, _, _)
unbound_variables(h, a, bound) ==
  LET t == h[a]
  IN  CASE t.tag \in {"variable", "parameters"} -> {a} \ bound
        [] t.tag = "scheme" -> unbound_variables(h, t.kids[1], bound \cup ToSet(Tail(t.kids)))
        [] OTHER -> UNION {unbound_variables(h, k, bound) : k \in ToSet(WalkedKids(t))}
is_fully_concrete(h, a) == unbound_variables(h, a, {}) = {}

RECURSIVE type_or_first_non_destructured_tuple_member(_, _)
type_or_first_non_destructured_tuple_member(h, a) ==
  IF Tag(h, a) # "destructured" THEN {a}
  ELSE IF Size(h, a) = 0 THEN {} ELSE type_or_first_non_destructured_tuple_member(h, h[a].kids[1])

find_field(h, record, name) ==
  {i \in 1..(Size(h, record) \div 2) : LET field == h[h[record].kids[2 * i - 1]]
                                       IN  field.tag = "constant" /\ field.label = name}

------------------------------------------------------------------------------
(* The order of types, which sorts the members of a union (Type::compare): by   *)
(* tag, then by name, usage or header, then by how many types they are made of   *)
(* and by these.                                                                 *)
Tags == <<"variable", "scalar", "abstraction", "union", "tuple", "destructured", "list", "subscript", "constant",
          "scheme", "assignment", "parameters", "class", "record", "alias", "application", "cast">>
TagOrder(tag) == CHOOSE i \in DOMAIN Tags : Tags[i] = tag
Sign(n) == IF n < 0 THEN -1 ELSE IF n > 0 THEN 1 ELSE 0

(* The sign of the first that is not zero. *)
FirstSign(signs) == LET i == FirstPlace({j \in DOMAIN signs : signs[j] # 0}) IN IF i = 0 THEN 0 ELSE Sign(signs[i])

RECURSIVE compare(_, _, _)
compare(h, a, b) ==
  LET x == h[a]
      y == h[b]
      Numbers == [i \in DOMAIN x.label |-> x.label[i] - y.label[i]]
      Kids == [i \in DOMAIN x.kids |-> compare(h, x.kids[i], y.kids[i])]
  IN  CASE x.tag # y.tag -> Sign(TagOrder(x.tag) - TagOrder(y.tag))
        [] x.tag = y.tag /\ FirstSign(Numbers) # 0 -> FirstSign(Numbers)
        [] OTHER -> IF Len(x.kids) # Len(y.kids) THEN Sign(Len(x.kids) - Len(y.kids)) ELSE FirstSign(Kids)

(* The members of a union in this order, one of those that are equal. *)
unique_members(h, a) ==
  LET members == ToSet(h[a].kids)
      Unique == {x \in members : \A y \in members : y < x => compare(h, x, y) # 0}
  IN  [i \in 1..Cardinality(Unique) |-> CHOOSE x \in Unique : Cardinality({y \in Unique : compare(h, y, x) < 0}) = i - 1]
===============================================================================
