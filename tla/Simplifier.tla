------------------------------ MODULE Simplifier ------------------------------
(* What the unifier does with an equation of two types neither of which is a    *)
(* variable (mt/type/simplify.cpp): it asks that the parts of the two be equal,  *)
(* by pushing equations of their variables and members, or fails.                *)
(* The state u of a unification is a library (module Library) with              *)
(*   equations  the equations, of which those up to index have been looked at,   *)
(*   bound      the type of each variable that has one, and walk the order in     *)
(*              which the next walk over them finds them,                          *)
(*   expanded   the tuple each parameters stand for,                             *)
(*   visited, assigned   the functions and assignments dealt with,               *)
(*   constraints         the equations kept for each scheme,                     *)
(*   pending, resolved   the calls that wait for a file to be analysed, and the   *)
(*                       types of those that have been,                          *)
(*   failed     an equation that does not hold, beside the errors of the library,*)
(*   fresh               the next identifier of a variable.                      *)
EXTENDS Library

Unification(lib) ==
  lib @@ [equations |-> <<>>, index |-> 0, bound |-> <<>>, walk |-> <<>>, expanded |-> <<>>, visited |-> {},
          assigned |-> {}, constraints |-> <<>>, pending |-> {}, resolved |-> <<>>, failed |-> FALSE, fresh |-> 200]

push_type_equations(u, equations) == [u EXCEPT !.equations = @ \o equations]
push_type_equation(u, lhs, rhs) == [u EXCEPT !.equations = Append(@, <<lhs, rhs>>)]
add_error(u, kind) == [u EXCEPT !.errors = @ \cup {kind}]
make_fresh(u, tag) == [Made(u, Node(tag, <<u.fresh>>, <<>>)) EXCEPT !.fresh = @ + 1]

------------------------------------------------------------------------------
Simplified(u, ok) == [u |-> u, ok |-> ok]

(* check_emplace_simplification_failure *)
OrFailure(result) == IF result.ok THEN result ELSE [result EXCEPT !.u = add_error(@, "simplification")]

push_make_type_equation(u, a, b, rev) == IF rev THEN push_type_equation(u, b, a) ELSE push_type_equation(u, a, b)
push_make_type_equations(u, as, bs, rev) ==
  IF Len(as) # Len(bs) THEN Simplified(u, FALSE)
  ELSE Simplified(push_type_equations(u, [i \in DOMAIN as |-> IF rev THEN <<bs[i], as[i]>> ELSE <<as[i], bs[i]>>]), TRUE)

represents_one_type(u, t) == Tag(u.heap, t) \in {"scalar", "tuple", "abstraction", "class"}

(* Parameters stand for the rest of the tuple they are matched with, once. *)
expand_parameters(u, pair) ==
  LET made == Made(u, DestructuredTuple(rvalue, SubSeq(u.heap[pair.b].kids, pair.from, Size(u.heap, pair.b))))
  IN  IF pair.a \in DOMAIN u.expanded THEN Simplified(add_error(u, "assertion"), TRUE)
      ELSE Simplified([made EXCEPT !.expanded = Put(@, pair.a, Newest(made))], TRUE)

RECURSIVE simplify(_, _, _, _)

(* The steps are taken in order, up to the first that fails. *)
InOrder(u, steps) ==
  Fold(LAMBDA result, s :
             IF ~result.ok THEN result
             ELSE IF s.kind = "parameters" THEN expand_parameters(result.u, s)
             ELSE simplify(result.u, s.a, s.b, s.rev),
           Simplified(u, TRUE), steps)

simplify_tuples(u, a, b, rev) ==
  LET Matched(match) == [InOrder(u, match.pairs) EXCEPT !.ok = @ /\ match.ok]
  IN  IF mismatching_definition_usages(u.heap, a, b) THEN Simplified(u, FALSE)
      ELSE IF is_definition_usage(u.heap, a) /\ Usage(u.heap, a) = Usage(u.heap, b)
      THEN push_make_type_equations(u, u.heap[a].kids, u.heap[b].kids, rev)
      ELSE Matched(expand_members(u.heap, a, b, rev))

(* Two lists are equal if their patterns are, the shorter one repeated. *)
simplify_lists(u, as, bs, rev) ==
  LET n == Max({Len(as), Len(bs)})
      Cycle(s) == [i \in 1..n |-> s[((i - 1) % Len(s)) + 1]]
  IN  IF n > 0 /\ (as = <<>> \/ bs = <<>>) THEN Simplified(u, FALSE)
      ELSE push_make_type_equations(u, Cycle(as), Cycle(bs), rev)

simplify_same_types(u, a, b, rev) ==
  LET h == u.heap
      x == h[a]
      y == h[b]
      InTurn(n) == InOrder(u, [i \in 1..n |-> Pair(x.kids[i], y.kids[i], rev)])
  IN  CASE x.tag = "variable" -> Simplified(push_make_type_equation(u, a, b, rev), TRUE)
        [] x.tag = "abstraction" -> OrFailure(InOrder(u, <<Pair(x.kids[1], y.kids[1], ~rev), Pair(x.kids[2], y.kids[2], rev)>>))
        [] x.tag \in {"scalar", "class"} -> OrFailure(Simplified(u, names_related(SubtypesOf(u), a, b, rev)))
        [] x.tag = "constant" -> Simplified(u, x.label = y.label)
        [] x.tag = "tuple" -> OrFailure(push_make_type_equations(u, x.kids, y.kids, rev))
        [] x.tag = "union" -> OrFailure(Simplified(u, Met(SubtypesOf(u), related_unions(u.heap, a, b, rev))))
        [] x.tag = "destructured" -> OrFailure(simplify_tuples(u, a, b, rev))
        [] x.tag = "list" -> OrFailure(simplify_lists(u, x.kids, y.kids, rev))
        [] x.tag = "scheme" -> OrFailure(Simplified(u, related(EquivalenceOf(u), a, b, rev)))
        [] x.tag = "record" -> IF Len(x.kids) = Len(y.kids) THEN InTurn(Len(x.kids)) ELSE Simplified(u, FALSE)
        [] x.tag = "alias" -> InTurn(1)
        [] x.tag = "subscript" /\ x.label = y.label ->
             simplify(push_make_type_equations(u, Tail(Front(x.kids)), Tail(Front(y.kids)), ~rev).u, Last(x.kids), Last(y.kids), rev)
        [] x.tag = "subscript" /\ x.label # y.label -> Simplified(u, FALSE)
        [] OTHER -> Simplified(add_error(u, "assertion"), FALSE)

(* Against a type of another tag.  A destructured tuple is matched with a tuple *)
(* of that type; a list with the one type all its members must be; a union can   *)
(* only be above.                                                                 *)
simplify_different_types(u, a, b, rev) ==
  LET h == u.heap
      tags == {Tag(h, a), Tag(h, b)}
      i == FirstPlace({j \in DOMAIN Unfoldable : Unfoldable[j] \in tags})
      x == IF Tag(h, a) = Unfoldable[i] THEN a ELSE b
      y == IF x = a THEN b ELSE a
      r == IF x = a THEN rev ELSE ~rev
      wrapped == Made(u, DestructuredTuple(rvalue, <<y>>))
      OneType(list) == [j \in DOMAIN list |-> y]
  IN  IF "variable" \in tags THEN Simplified(push_make_type_equation(u, a, b, rev), TRUE)
      ELSE IF Tag(h, a) = "alias" THEN simplify(u, h[a].kids[1], b, rev)
      ELSE IF Tag(h, b) = "alias" THEN simplify(u, a, h[b].kids[1], rev)
      ELSE IF "destructured" \in tags THEN Simplified(push_make_type_equation(wrapped, x, Newest(wrapped), r), TRUE)
      ELSE IF "union" \in tags
      THEN OrFailure(Simplified(u, r /\ (represents_one_type(u, y) \/ Tag(h, y) = "list") /\ related(SubtypesOf(u), x, y, r)))
      ELSE IF "list" \in tags /\ represents_one_type(u, y) THEN push_make_type_equations(u, h[x].kids, OneType(h[x].kids), r)
      ELSE OrFailure(Simplified(u, FALSE))

simplify(u, a, b, rev) ==
  IF Tag(u.heap, a) = Tag(u.heap, b) THEN simplify_same_types(u, a, b, rev) ELSE simplify_different_types(u, a, b, rev)

simplify_entry(u, a, b) == simplify(u, a, b, FALSE)
===============================================================================
