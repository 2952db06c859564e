------------------------------- MODULE TypeStore -------------------------------
(* The types a program makes from those it knows, one at a time                 *)
(* (mt/type/type_store.hpp).  Types are made and never changed here; what the    *)
(* unifier does to them is another module's.                                     *)
EXTENDS Library

CONSTANT Profiles   \* what the types of a behaviour are made from, which, and how many

VARIABLES lib, profile, made
vars == <<lib, profile, made>>

ProfileKinds == {"value tuple", "target tuple", "call result", "parameters", "list", "union", "alias", "cell", "record", "function"}
ASSUME ProfilesAssumption ==
  \A p \in Profiles : /\ p.kinds \subseteq ProfileKinds
                      /\ p.names \subseteq DOMAIN make_known_types.classes
                      /\ p.members \in Nat /\ p.depth \in Nat /\ p.limit \in Nat

(* The types there are to make others from: a name stands for its scalar if it  *)
(* is one, for its class if not.                                                  *)
Named(name) == IF name \in DOMAIN lib.scalars THEN lib.scalars[name] ELSE lib.classes[name]
Types == {Named(name) : name \in profile.names} \cup made

(* A list ends the tuple it is in, no member of a tuple is an empty tuple, and   *)
(* tuples are nested up to a depth.                                               *)
Kids(t) == ToSet(lib.heap[t].kids)
IsTuple(t) == Tag(lib.heap, t) = "destructured"
RECURSIVE EndsInList(_), Depth(_)
EndsInList(t) == Tag(lib.heap, t) = "list" \/ (IsTuple(t) /\ Size(lib.heap, t) > 0 /\ EndsInList(Last(lib.heap[t].kids)))
Depth(t) == IF IsTuple(t) THEN 1 + Max({0} \cup {Depth(k) : k \in Kids(t)}) ELSE 0
Members == UNION {[1..n -> {t \in Types : ~(IsTuple(t) /\ is_inputs(lib.heap, t))}] : n \in 0..profile.members}
InTuple(members) ==
  /\ \A i \in DOMAIN members : Size(lib.heap, members[i]) = 0 => ~IsTuple(members[i])
  /\ \A i \in 1..(Len(members) - 1) : ~EndsInList(members[i])
  /\ \A i \in DOMAIN members : Depth(members[i]) < profile.depth

Make(kind, node) ==
  /\ kind \in profile.kinds
  /\ node \notin ToSet(lib.heap)
  /\ lib' = Made(lib, node)
  /\ made' = made \cup {Newest(lib')}
  /\ UNCHANGED profile

make_value_tuple(usage, members) == InTuple(members) /\ Make(IF usage = rvalue THEN "value tuple" ELSE "target tuple", DestructuredTuple(usage, members))
make_output_destructured_tuple(members) == members # <<>> /\ InTuple(members) /\ Make("call result", DestructuredTuple(definition_outputs, members))
make_input_destructured_tuple(members) == InTuple(members) /\ (\A i \in DOMAIN members : ~IsTuple(members[i])) /\ Make("parameters", DestructuredTuple(definition_inputs, members))
make_list(pattern) == pattern # <<>> /\ (\A i \in DOMAIN pattern : Tag(lib.heap, pattern[i]) \notin {"destructured", "list"}) /\ Make("list", List(pattern))
make_union(members) == Len(members) > 1 /\ Make("union", Union(members))
make_alias(source) == Make("alias", Alias(source))
make_tuple(members) == Make("cell", Tuple(members))
make_record(members) == Make("record", Record(FlattenSeq([i \in DOMAIN members |-> <<lib.heap[lib.classes[cls0]].kids[1], members[i]>>])))

(* A function with the tuples of its inputs and outputs. *)
make_abstraction(name, inputs, outputs) ==
  /\ "function" \in profile.kinds
  /\ lib' = make_simple_function(lib, function, name, inputs, outputs)
  /\ made' = made \cup {Newest(lib')}
  /\ UNCHANGED profile

Init == lib = make_known_types /\ profile \in Profiles /\ made = {}

Next ==
  /\ Cardinality(made) < profile.limit
  /\ \/ \E members \in Members :
          \/ \E usage \in {rvalue, lvalue} : make_value_tuple(usage, members)
          \/ make_output_destructured_tuple(members)
          \/ make_input_destructured_tuple(members)
          \/ make_list(members)
          \/ make_union(members)
          \/ make_tuple(members)
          \/ make_record(members)
     \/ \E source \in Types : make_alias(source)
     \/ \E inputs, outputs \in Members : make_abstraction(feval, inputs, outputs)

Spec == Init /\ [][Next]_vars
===============================================================================
