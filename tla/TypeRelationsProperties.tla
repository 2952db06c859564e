------------------------ MODULE TypeRelationsProperties ------------------------
(* What holds of the relations between the types of a store.                    *)
EXTENDS TypeStore

Same == EquivalenceOf(lib)
Below == SubtypesOf(lib)
Is(tag, t) == Tag(lib.heap, t) = tag
Inputs(t) == IsTuple(t) /\ is_inputs(lib.heap, t)

(* The pairs of types the last step has added, one of them not a nested tuple:  *)
(* the parameters of a function never are.                                        *)
NewPairs == {pair \in Types \X Types : Newest(lib) \in {pair[1], pair[2]} /\ (Depth(pair[1]) < 2 \/ Depth(pair[2]) < 2)}

(* It makes no difference from which side a relation is asked: a is below b     *)
(* exactly if b, asked in reverse, is above a.  Every swap of the two sides in   *)
(* type_relation.cpp and in the visitor has to turn the direction with it (the   *)
(* tests look for "ordering effects").                                            *)
OrderIrrelevant ==
  \A w \in {Same, Below}, p \in NewPairs : related(w, p[1], p[2], FALSE) = related(w, p[2], p[1], TRUE)

(* The values a tuple gives when its list stands for n copies of its pattern:   *)
(* what is nested in it is laid out, and a call within it gives its first value. *)
RECURSIVE Values(_, _, _)
Values(parent, t, n) ==
  LET kids == lib.heap[t].kids
      Once == FlattenSeq([i \in DOMAIN kids |-> Values(t, kids[i], n)])
  IN  IF Is("list", t) THEN FlattenSeq([i \in 1..n |-> Once])
      ELSE IF IsTuple(t) /\ parent # {} /\ is_outputs(lib.heap, t) THEN Values({t}, kids[1], n)
      ELSE IF IsTuple(t) THEN FlattenSeq([i \in DOMAIN kids |-> Values({t}, kids[i], n)]) ELSE <<t>>
Copies(t) == (IF Inputs(t) THEN 0 ELSE 1)..4

(* Tuples are matched by the values they give, however these are nested and     *)
(* however many a list has to stand for: arguments fit a function's inputs if    *)
(* and only if the values do, one by one.  Lists are given to lists only; two     *)
(* lists may have patterns of different lengths, and are left out.               *)
Matched(a, b) == EndsInList(a) => ~EndsInList(b) /\ ~Inputs(b)
NestedMatchesFlat ==
  \A p \in NewPairs :
     LET a == p[1]
         b == p[2]
     IN  /\ IsTuple(a) /\ ~is_outputs(lib.heap, a) /\ IsTuple(b) /\ ~is_outputs(lib.heap, b)
         /\ Matched(a, b) /\ Matched(b, a)
         => (related_entry(Below, a, b)
             <=> \E n \in Copies(a), m \in Copies(b) : Met(Below, related_element_wise(Values({}, a, n), Values({}, b, m), FALSE)))

(* Subtypes compose: what is below a type is below all that is above it, for    *)
(* functions, classes, cells and records of any types.                            *)
Comparable == {t \in Types : Tag(lib.heap, t) \notin {"destructured", "list", "union", "alias"}}
SubtypesCompose ==
  \A a, b, c \in Comparable :
     Newest(lib) \in {a, b, c} /\ related_entry(Below, a, b) /\ related_entry(Below, b, c) => related_entry(Below, a, c)

(* A function that is below another can be called in its place: it takes all    *)
(* arguments the other takes, and gives what the other gives.                     *)
CallsSafe ==
  \A f, g \in {t \in Types : Is("abstraction", t)} :
     related_entry(Below, f, g) =>
       /\ \A arguments \in {t \in Types : IsTuple(t)} :
             related_entry(Below, arguments, lib.heap[g].kids[1]) => related_entry(Below, arguments, lib.heap[f].kids[1])
       /\ \A result \in {t \in Types : IsTuple(t)} :
             related_entry(Below, lib.heap[g].kids[2], result) => related_entry(Below, lib.heap[f].kids[2], result)

(* A type can stand in for each type it is below, also where functions take or   *)
(* give it.                                                                        *)
Substitutable == SubtypesCompose /\ CallsSafe

(* A union that is below another has nothing the other does not cover, and the  *)
(* order in which the members were written and their repetition do not matter:   *)
(* the visitor compares sorted members, by place if there are as many.            *)
Unions == {t \in Types : Is("union", t)}
UnionsCovered ==
  \A p \in NewPairs \cap (Unions \X Unions) :
     /\ related_entry(Below, p[1], p[2]) => \A x \in Kids(p[1]) : \E y \in Kids(p[2]) : related_entry(Below, x, y)
     /\ Kids(p[1]) = Kids(p[2]) => related_entry(Same, p[1], p[2])
===============================================================================
