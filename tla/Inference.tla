------------------------------- MODULE Inference -------------------------------
(* The checker at work on the files of a program (bin/mtype/app.cpp, with        *)
(* mt/type): a file is visited, which resolves its types and makes its           *)
(* equations; the functions that waited for it are given their types; and then   *)
(* the equations are looked at one by one, which is where all that is in         *)
(* modules Unifier and Simplifier takes place.  This goes on for as long as the  *)
(* calls of functions in other files become more.                                 *)
EXTENDS TypeResolver

CONSTANTS Prelude,    \* declarations that come before all files
          Sources     \* the programs: sequences of files, each a sequence of statements; all
                      \* but the first begin with the function the file is named for

VARIABLES u,          \* the unification, with all the types there are
          files,      \* the program
          visited,    \* which of its files have been
          phase,      \* "visit" a file, "resolve" what waits for one, or "unify"
          candidates  \* how many files calls had waited for before
vars == <<u, files, visited, phase, candidates>>

(* The names a file starts with; those of other files are not modelled here. *)
base_scope(lib) == [lib EXCEPT !.names = lib.scalars, !.invalid = {}]

FileName(i) == files[i][1].name
Init ==
  /\ files \in Sources
  /\ u = [resolve_type_identifiers(base_scope(Resolution(make_known_types)), Prelude).u EXCEPT !.files = {FileName(i) : i \in 2..Len(files)}]
  /\ visited = {} /\ phase = "visit" /\ candidates = 0

CandidateOf(v, reference) ==
  Header(v.heap, scheme_source(v, IF Tag(v.heap, reference) = "application" THEN v.heap[reference].kids[1] ELSE reference))[2]
Candidates == IF visited = {} THEN {1} ELSE {i \in 2..Len(files) \ visited : \E f \in u.pending : CandidateOf(u, f) = FileName(i)}

(* The functions of a file whose types are not known are given other ones, and  *)
(* it gets no equations.                                                          *)
clear_destructured_tuple(v, tuple) ==
  Fold(LAMBDA w, i : LET made == make_fresh(w, "variable") IN SetKid(made, tuple, i, Newest(made)),
           v, IF Tag(v.heap, tuple) # "destructured" THEN <<>>
              ELSE SelectSeq([i \in 1..Size(v.heap, tuple) |-> i], LAMBDA i : Tag(v.heap, v.heap[tuple].kids[i]) # "variable"))
clear_abstraction(v, type) ==
  LET source == scheme_source(v, type)
  IN  IF Tag(v.heap, source) = "abstraction" THEN Fold(clear_destructured_tuple, v, v.heap[source].kids) ELSE v
clear_function_types(v) ==
  LET names == SetToSortSeq(DOMAIN v.locals \ DOMAIN u.locals, <)
  IN  [Fold(LAMBDA w, name : clear_abstraction(w, v.locals[name]), v, names) EXCEPT !.schemes = <<>>, !.invalid = @ \cup u.invalid]

(* The first file, then any that calls wait for. *)
CanVisit == phase = "visit" /\ Candidates # {}
Visit ==
  /\ CanVisit
  /\ \E i \in Candidates : \E resolved \in {resolve_type_identifiers(base_scope(u), files[i])} :
       /\ visited' = visited \cup {i}
       /\ IF resolved.u.invalid = {}
          THEN u' = [block(resolved.u, resolved.stmts) EXCEPT !.invalid = u.invalid] /\ phase' = "resolve"
          ELSE u' = clear_function_types(resolved.u) /\ UNCHANGED phase
  /\ UNCHANGED <<files, candidates>>

(* What waits for a function that has a type now. *)
Found(v) == {reference \in v.pending : CandidateOf(v, reference) \in DOMAIN v.locals}
resolve_external_functions(v) ==
  LET found == SetToSortSeq(Found(v), <)
      known == [v EXCEPT !.pending = @ \ Found(v),
                         !.resolved = Fold(LAMBDA map, f : Put(map, CandidateOf(v, f), v.locals[CandidateOf(v, f)]), @, found)]
  IN  Fold(LAMBDA w, f : resolve_function(w, f, v.locals[CandidateOf(v, f)]), known, found)

num_pending_candidate_files(v) == Cardinality(DOMAIN v.resolved \cup {CandidateOf(v, f) : f \in v.pending})

Resolve ==
  /\ phase = "resolve"
  /\ candidates' = num_pending_candidate_files(u)
  /\ u' = resolve_external_functions(u)
  /\ phase' = "unify"
  /\ UNCHANGED <<files, visited>>

(* The bound variables come in the order of a hash table.  Two orders of all    *)
(* there are stand for it, each the reverse of the other.                         *)
Orders ==
  LET bound == SelectSeq([t \in 1..Newest(u) |-> t], LAMBDA t : t \in DOMAIN u.bound)
  IN  {bound, Reverse(bound)}

Unify ==
  /\ phase = "unify" /\ u.index < Len(u.equations)
  /\ \E order \in Orders : \E next \in {unify_next([u EXCEPT !.walk = order])} :
       u' = [next EXCEPT !.walk = <<>>]
  /\ UNCHANGED <<files, visited, phase, candidates>>

(* Mutant: it goes on for as long as a call waits. *)
UnifiedWhilePending ==
  /\ phase = "unify" /\ u.index = Len(u.equations)
  /\ phase' = IF u.pending # {} THEN "resolve" ELSE "visit"
  /\ UNCHANGED <<u, files, visited, candidates>>

Unified ==
  /\ phase = "unify" /\ u.index = Len(u.equations)
  /\ phase' = IF num_pending_candidate_files(u) # candidates THEN "resolve" ELSE "visit"
  /\ UNCHANGED <<u, files, visited, candidates>>

Next == Visit \/ Resolve \/ Unify \/ Unified

(* The checker runs as long as it can: weak fairness of Next, with what enables *)
(* it written out.                                                                *)
CanStep == phase # "visit" \/ CanVisit
Spec == Init /\ [][Next]_vars /\ ([]<>~CanStep \/ []<><<Next>>_vars)
===============================================================================
