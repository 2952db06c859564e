-------------------------- MODULE InferenceProperties --------------------------
(* What holds of the types that are inferred.                                   *)
EXTENDS Inference

Complete == phase = "visit" /\ ~CanVisit
Sound == Complete /\ u.invalid = {} /\ ~had_error(u)

(* The bindings are solved: no type that is bound is made of itself, and none    *)
(* holds a variable that is bound, though types are shared between bindings and  *)
(* rewritten in place (Unifier::unify_one, "substitute_one").                     *)
BindingsSolved ==
  \A v \in DOMAIN u.bound : /\ ~is_recursive(u.heap, u.bound[v], {}, <<>>)
                            /\ Reachable(u.heap, u.bound[v]) \cap DOMAIN u.bound = {}

(* The types of the library are not changed by what uses them, though a function *)
(* without variables is used as it is, and types are rewritten in place.          *)
KnownTypes == Newest(resolve_type_identifiers(base_scope(Resolution(make_known_types)), Prelude).u)
LibraryKept == [][\A t \in 1..KnownTypes : u'.heap[t] = u.heap[t]]_vars

(* The names of functions, by which types are told apart elsewhere, play no part *)
(* in their equations.                                                            *)
Nameless(h) == [i \in DOMAIN h |-> IF h[i].tag = "abstraction" THEN [h[i] EXCEPT !.label = <<function, 0>>] ELSE h[i]]

(* When all is done without an error, each equation holds: the left is below     *)
(* the right, for what the variables have become; and what is assigned to a       *)
(* variable is below the type of the variable.                                    *)
Holds(eq) ==
  LET IsValue(v, t) == is_fully_concrete(v.heap, t) /\ is_concrete_argument(v.heap, t)
      Below(s) ==
        \/ s.lhs = s.rhs
        \/ IsValue(s.u, s.lhs) /\ IsValue(s.u, s.rhs) => related_entry([SubtypesOf(s.u) EXCEPT !.heap = Nameless(@)], s.lhs, s.rhs)
  IN  Below(Sides(u, eq))
EquationsHold ==
  Sound => \A eq \in ToSet(u.equations) \cup {<<u.heap[assignment].kids[2], u.heap[assignment].kids[1]>> : assignment \in u.assigned} : Holds(eq)

(* No call, assignment or cast is left behind once its arguments are known, be   *)
(* they known before it is met or long after (check_application and the others   *)
(* are tried only when a walk comes across the type).                              *)
Ready(t) ==
  LET kids == u.heap[t].kids
  IN  CASE Tag(u.heap, t) = "application" -> is_concrete_argument(u.heap, kids[1]) /\ is_concrete_argument(u.heap, kids[2])
        [] Tag(u.heap, t) = "assignment" -> is_concrete_argument(u.heap, kids[2])
        [] Tag(u.heap, t) = "cast" -> is_concrete_argument(u.heap, kids[1])
        [] OTHER -> FALSE
NothingLeft == Sound => \A t \in UNION {Reachable(u.heap, u.bound[v]) : v \in DOMAIN u.bound} : Ready(t) => t \in u.visited \cup u.assigned

(* At the end no call waits for a function of another file, however late it was  *)
(* found out that there is such a call: all files were analysed.                  *)
NoCallWaits == Complete /\ u.invalid = {} => u.pending = {}

(* Nothing that was put off is forgotten, within a file or between files.          *)
NothingForgotten == NothingLeft /\ NoCallWaits

(* The checker comes to an end. *)
Terminates == <>Complete

(* "assert(!type_eq_terms.empty())": there is always a term to take. *)
NoAssertion == "assertion" \notin u.errors

(* "Type directly or indirectly refers to itself.": such types are refused. *)
RecursionReported == u.invalid = {} => \A name \in DOMAIN u.names : Complete => ~is_recursive(u.heap, u.names[name], {}, <<>>)
===============================================================================
