----------------------------- MODULE TypeRelations -----------------------------
(* When a type may stand for another (mt/type/type_relation.cpp), with the      *)
(* visitors of destructured tuples and unions.  The relation is asked of two     *)
(* types and a direction: rev says that it is the second that should be below   *)
(* the first, and each time the two sides are swapped rev is negated.            *)
(* A relation w holds the types, the classes by name, and whether scalars must  *)
(* be the same or may be related by their classes.                                *)
EXTENDS TypeTerms

Relation(h, classes, same) == [heap |-> h, classes |-> classes, same |-> same]

------------------------------------------------------------------------------
(* Two destructured tuples are compared member by member, where a tuple within  *)
(* one of them stands for its members and a list for any number of its pattern. *)
(* A match lists what there is to compare, and whether the two have one shape:   *)
(* ok, with the members of both up to which they were matched.                   *)

Match(ok, ia, ib, pairs) == [ok |-> ok, ia |-> ia, ib |-> ib, pairs |-> pairs]
NoMatch == Match(FALSE, 0, 0, <<>>)
Swap(match) == [match EXCEPT !.ia = match.ib, !.ib = match.ia]
Pair(a, b, rev) == [kind |-> "types", a |-> a, b |-> b, rev |-> rev, from |-> 0]
ParametersPair(a, b, from, rev) == [kind |-> "parameters", a |-> a, b |-> b, rev |-> rev, from |-> from]

(* Mutant: a nested call gives all its outputs. *)
ExpectAllOutputs(h, parent, child) == Size(h, child)

(* A call that gives outputs gives one value where a value is asked for. *)
expect_to_match(h, parent, child) == IF is_value_usage(h, parent) /\ is_outputs(h, child) THEN 1 ELSE Size(h, child)

(* subrecurse_list: the types a member of a tuple stands for within a list. *)
RECURSIVE subrecurse_list(_, _, _)
subrecurse_list(h, parent, member) ==
  IF Tag(h, member) # "destructured" THEN [ok |-> TRUE, leaves |-> <<member>>]
  ELSE LET expect == expect_to_match(h, parent, member)
           Used == SubSeq(h[member].kids, 1, Min({expect, Size(h, member)}))
           Parts == [i \in DOMAIN Used |-> subrecurse_list(h, member, Used[i])]
       IN  [ok |-> expect <= Size(h, member) /\ \A i \in DOMAIN Parts : Parts[i].ok,
            leaves |-> FlattenSeq([i \in DOMAIN Parts |-> Parts[i].leaves])]

(* match_list: a list takes all members of b from ib on. *)
MatchLeaves(ok, pattern, leaves, ia, ib, rev) ==
  Match(ok /\ Len(leaves) % Len(pattern) = 0, ia, ib,
        [i \in DOMAIN leaves |-> Pair(pattern[((i - 1) % Len(pattern)) + 1], leaves[i], rev)])
match_list(h, list, ia, b, ib, rev) ==
  LET pattern == h[list].kids
      Rest == SubSeq(h[b].kids, ib, Size(h, b))
      TakeAll(parts) == MatchLeaves(\A i \in DOMAIN parts : parts[i].ok, pattern, FlattenSeq([i \in DOMAIN parts |-> parts[i].leaves]),
                                    ia + 1, Size(h, b) + 1, rev)
  IN  IF pattern = <<>> THEN Match(TRUE, ia + 1, ib, <<>>) ELSE TakeAll([i \in DOMAIN Rest |-> subrecurse_list(h, b, Rest[i])])

RECURSIVE MembersWhile(_, _, _, _, _, _, _)

(* subrecurse_tuple: a tuple within a takes as many members of b as it stands for. *)
TakenWhole(match, expect, ia) == Match(match.ok /\ match.ia = expect + 1, ia + 1, match.ib, match.pairs)
subrecurse_tuple(h, parent, ia, child, b, ib, rev) ==
  LET expect == expect_to_match(h, parent, child)
  IN  TakenWhole(MembersWhile(h, child, b, 1, ib, Min({expect, Size(h, child)}), rev), expect, ia)

(* A list or a tuple within a takes members of b. *)
Take(h, a, ia, b, ib, rev) ==
  LET x == h[a].kids[ia]
  IN  IF Tag(h, x) = "list" THEN match_list(h, x, ia, b, ib, rev) ELSE subrecurse_tuple(h, a, ia, x, b, ib, rev)

(* Whether it is a or b of which a member takes members of the other. *)
Taker(h, a, b, ia, ib, rev) ==
  LET x == h[a].kids[ia]
      y == h[b].kids[ib]
      IsList(t) == Tag(h, t) = "list"
      IsLast(t, i) == i = Size(h, t)
      Fixed(t, member) == is_definition_usage(h, t) /\ Tag(h, member) # "variable"
  IN  CASE IsList(x) /\ ~IsList(y) -> IF Fixed(b, y) /\ ~rev THEN "mismatch" ELSE "a"
        [] IsList(y) /\ ~IsList(x) -> IF Fixed(a, x) /\ rev THEN "mismatch" ELSE "b"
        [] IsList(x) /\ IsList(y) -> IF IsLast(a, ia) = IsLast(b, ib) THEN "neither" ELSE IF IsLast(a, ia) THEN "a" ELSE "b"
        [] OTHER -> IF Tag(h, x) = "destructured" THEN "a" ELSE IF Tag(h, y) = "destructured" THEN "b" ELSE "neither"

recurse_tuple(h, a, b, ia, ib, rev) ==
  LET x == h[a].kids[ia]
      y == h[b].kids[ib]
      taker == Taker(h, a, b, ia, ib, rev)
  IN  CASE Tag(h, x) = "parameters" -> Match(TRUE, ia + 1, Size(h, b) + 1, <<ParametersPair(x, b, ib, rev)>>)
        [] Tag(h, x) # "parameters" /\ Tag(h, y) = "parameters" ->
             Match(TRUE, Size(h, a) + 1, ib + 1, <<ParametersPair(y, a, ia, ~rev)>>)
        [] OTHER -> CASE taker = "mismatch" -> NoMatch
                      [] taker = "a" -> Take(h, a, ia, b, ib, rev)
                      [] taker = "b" -> Swap(Take(h, b, ib, a, ia, ~rev))
                      [] taker = "neither" -> Match(TRUE, ia + 1, ib + 1, <<Pair(x, y, rev)>>)

(* The loop over the members of a up to a limit and those of b. *)
MembersWhile(h, a, b, ia, ib, limit, rev) ==
  LET After(match) ==
        IF match.ok THEN [MembersWhile(h, a, b, match.ia, match.ib, limit, rev) EXCEPT !.pairs = match.pairs \o @] ELSE match
  IN  IF ia > limit \/ ib > Size(h, b) THEN Match(TRUE, ia, ib, <<>>) ELSE After(recurse_tuple(h, a, b, ia, ib, rev))

(* A call without arguments of a function that takes a list of them. *)
empty_value_tuple_matches_list_inputs(h, a, b, ia, ib) ==
  /\ is_value_usage(h, a) /\ is_inputs(h, b)
  /\ ia = Size(h, a) /\ ib = Size(h, a) /\ ib < Size(h, b) /\ Tag(h, h[b].kids[ib + 1]) = "list"

(* Both are matched to their ends; of the results of a call more may be left. *)
MatchedWhole(h, a, b, ia, ib) ==
  \/ ia = Size(h, a) /\ ib = Size(h, b)
  \/ is_outputs(h, a) /\ is_value_usage(h, b) /\ ib = Size(h, b) /\ ia = Size(h, b)
  \/ is_outputs(h, b) /\ is_value_usage(h, a) /\ ia = Size(h, a) /\ ib = Size(h, a)
  \/ ~(is_outputs(h, a) /\ is_value_usage(h, b)) /\ ~(is_outputs(h, b) /\ is_value_usage(h, a))
     /\ (empty_value_tuple_matches_list_inputs(h, a, b, ia, ib) \/ empty_value_tuple_matches_list_inputs(h, b, a, ib, ia))

expand_members(h, a, b, rev) ==
  LET Of(match) == [ok |-> match.ok /\ MatchedWhole(h, a, b, match.ia - 1, match.ib - 1), pairs |-> match.pairs]
  IN  Of(MembersWhile(h, a, b, 1, 1, Size(h, a), rev))

------------------------------------------------------------------------------
(* Classes (Library::class_for_type, Library::subtype_related): a scalar has    *)
(* the class of its name.  The supertypes are followed without a record of the  *)
(* classes met before.                                                            *)

class_for_type(w, a) ==
  IF Tag(w.heap, a) = "class" THEN {a}
  ELSE IF Tag(w.heap, a) = "scalar" /\ w.heap[a].label[1] \in DOMAIN w.classes THEN {w.classes[w.heap[a].label[1]]}
  ELSE {}

RECURSIVE subtype_related(_, _, _)
subtype_related(w, a, b) ==
  \E x \in class_for_type(w, a), y \in class_for_type(w, b) :
     \/ w.heap[x].label = w.heap[y].label
     \/ \E i \in DOMAIN supertypes(w.heap, x) : subtype_related(w, supertypes(w.heap, x)[i], y)

(* EquivalenceRelation, SubtypeRelation. *)
names_related(w, a, b, rev) ==
  IF w.same THEN Tag(w.heap, a) = "scalar" /\ Tag(w.heap, b) = "scalar" /\ w.heap[a].label = w.heap[b].label
  ELSE IF rev THEN subtype_related(w, b, a) ELSE subtype_related(w, a, b)

------------------------------------------------------------------------------
RECURSIVE related(_, _, _, _)

(* Each visitor says which pairs of types have to be related for the two it is  *)
(* given: all of a set of demands, each of which one of several pairs meets.      *)
Met(w, demands) == \A demand \in demands : \E pair \in demand : related(w, pair.a, pair.b, pair.rev)

Each(pairs) == {{p} : p \in pairs}
OneOf(pairs) == {pairs}
Outright(p) == IF p THEN {} ELSE {{}}

related_element_wise(as, bs, rev) ==
  IF Len(as) = Len(bs) THEN Each({Pair(as[i], bs[i], rev) : i \in DOMAIN as}) ELSE Outright(FALSE)

(* Two lists are compared at the first types of their patterns, which are        *)
(* unfolded one after the other.                                                  *)
RECURSIVE related_list(_, _, _, _)
related_list(h, as, bs, rev) ==
  LET Is(tag, ts) == Tag(h, ts[1]) = tag
      Pattern(ts) == h[ts[1]].kids
      SubTuple(ts) == SubSeq(Pattern(ts), 1, IF is_outputs(h, ts[1]) THEN Min({1, Len(Pattern(ts))}) ELSE Len(Pattern(ts)))
      next == CASE Is("list", as) -> <<Pattern(as), bs, rev>>
                [] ~Is("list", as) /\ Is("list", bs) -> <<as, Pattern(bs), rev>>
                [] ~Is("list", as) /\ ~Is("list", bs) /\ Is("destructured", as) -> <<SubTuple(as), bs, rev>>
                [] OTHER -> <<SubTuple(bs), as, ~rev>>
  IN  IF as = <<>> \/ bs = <<>> THEN Outright(as = bs)
      ELSE IF \E ts \in {as, bs}, tag \in {"list", "destructured"} : Is(tag, ts) THEN related_list(h, next[1], next[2], next[3])
      ELSE Each({Pair(as[1], bs[1], rev)})

(* Mutant: one member that is covered is enough. *)
CheckOneSubsumed(as, bs, rev) == OneOf({Pair(a, b, rev) : a \in ToSet(as), b \in ToSet(bs)})

check_subsumption(as, bs, rev) == {{Pair(a, b, rev) : b \in ToSet(bs)} : a \in ToSet(as)}

(* Mutant: asked in reverse, the sides are swapped and the direction is kept. *)
RelatedMembersSwapped(as, bs, rev) ==
  IF Len(as) = Len(bs) THEN related_element_wise(as, bs, rev)
  ELSE IF (Len(as) < Len(bs)) = rev THEN Outright(FALSE)
  ELSE IF rev THEN check_subsumption(bs, as, TRUE) ELSE check_subsumption(as, bs, FALSE)

(* UnionMemberVisitor: as many members on both sides are compared in the order  *)
(* of types; otherwise each of the smaller side needs one of the larger.          *)
related_members(as, bs, rev) ==
  IF Len(as) = Len(bs) THEN related_element_wise(as, bs, rev)
  ELSE IF (Len(as) < Len(bs)) = rev THEN Outright(FALSE)
  ELSE IF rev THEN check_subsumption(bs, as, FALSE) ELSE check_subsumption(as, bs, FALSE)
related_unions(h, a, b, rev) == related_members(unique_members(h, a), unique_members(h, b), rev)

related_tuples(h, a, b, rev) ==
  LET Matched(match) == IF match.ok THEN Each(ToSet(match.pairs)) ELSE Outright(FALSE)
  IN  IF mismatching_definition_usages(h, a, b) THEN Outright(FALSE)
      ELSE IF is_definition_usage(h, a) /\ Usage(h, a) = Usage(h, b) THEN related_element_wise(h[a].kids, h[b].kids, rev)
      ELSE Matched(expand_members(h, a, b, rev))

(* Mutant: inputs are related the same way around as outputs. *)
RelatedCovariantly(h, a, b, rev) ==
  IF Header(h, a) = Header(h, b) THEN related_element_wise(h[a].kids, h[b].kids, rev) ELSE Outright(FALSE)

(* Inputs are related the other way around. *)
related_abstractions(h, a, b, rev) ==
  LET x == h[a].kids
      y == h[b].kids
  IN  IF Header(h, a) = Header(h, b) THEN Each({Pair(x[1], y[1], ~rev), Pair(x[2], y[2], rev)}) ELSE Outright(FALSE)

related_same_types(w, a, b, rev) ==
  LET h == w.heap
      x == h[a]
      y == h[b]
  IN  CASE x.tag \in {"scalar", "class"} -> Outright(names_related(w, a, b, rev))
        [] x.tag = "variable" -> Outright(TRUE)
        [] x.tag = "constant" -> Outright(x.label = y.label)
        [] x.tag \in {"tuple", "record"} -> related_element_wise(x.kids, y.kids, rev)
        [] x.tag = "destructured" -> related_tuples(h, a, b, rev)
        [] x.tag = "list" -> related_list(h, x.kids, y.kids, rev)
        [] x.tag = "union" -> related_unions(h, a, b, rev)
        [] x.tag \in {"alias", "scheme"} -> Each({Pair(x.kids[1], y.kids[1], rev)})
        [] x.tag = "abstraction" -> related_abstractions(h, a, b, rev)
        [] OTHER -> Outright(FALSE)

(* What one of the tags unfolds to against a type of another tag. *)
Unfolded(h, a, b, rev) ==
  LET Members == {Pair(k, b, rev) : k \in ToSet(h[a].kids)}
      Single == IF Size(h, a) = 1 THEN Each(Members) ELSE Outright(FALSE)
  IN  CASE Tag(h, a) = "destructured" -> IF Size(h, a) = 0 THEN Outright(Tag(h, b) = "list") ELSE Single
        [] Tag(h, a) = "union" -> OneOf(Members)
        [] Tag(h, a) = "list" -> Single
        [] Tag(h, a) = "scheme" -> Each({Pair(h[a].kids[1], b, rev)})

(* The first of these tags that one of the two has is unfolded. *)
Unfoldable == <<"destructured", "union", "list", "scheme">>
related_different_types(h, a, b, rev) ==
  LET tags == {Tag(h, a), Tag(h, b)}
      i == FirstPlace({j \in DOMAIN Unfoldable : Unfoldable[j] \in tags})
  IN  IF "variable" \in tags THEN Outright(TRUE)
      ELSE IF Tag(h, a) = "alias" THEN Each({Pair(h[a].kids[1], b, rev)})
      ELSE IF Tag(h, b) = "alias" THEN Each({Pair(a, h[b].kids[1], ~rev)})
      ELSE IF i = 0 THEN Outright(FALSE)
      ELSE IF Tag(h, a) = Unfoldable[i] THEN Unfolded(h, a, b, rev) ELSE Unfolded(h, b, a, ~rev)

related(w, a, b, rev) ==
  Met(w, IF Tag(w.heap, a) = Tag(w.heap, b) THEN related_same_types(w, a, b, rev) ELSE related_different_types(w.heap, a, b, rev))

related_entry(w, a, b) == related(w, a, b, FALSE)
===============================================================================
