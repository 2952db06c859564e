---------------------------- MODULE MCTypeScopes ----------------------------
(***************************************************************************)
(* Import graphs for TLC: four files, a block in one of them, and the base *)
(* scope; or two files, and blocks that nest three deep in one of them.    *)
(***************************************************************************)
EXTENDS TypeScopesProperties, SequencesExt

CONSTANTS a, b, c, d, n, base, x

MCScope == {a, b, c, d, n, base}
MCIdent == {x}

\* For each of the edges <<into, root>>: no import, one, or one for export.
Requests(edges) ==
  LET choices == [1..Len(edges) -> {"none", "plain", "export"}]
      request(k, choice) == [into |-> edges[k][1], root |-> edges[k][2],
                             exported |-> choice[k] = "export"]
      chosen(choice) == SelectSeq([k \in 1..Len(edges) |-> k], LAMBDA k : choice[k] # "none")
  IN {[j \in 1..Len(chosen(choice)) |-> request(chosen(choice)[j], choice)] : choice \in choices}

\* x is declared, privately or for export, in some of the scopes; a file does not export
\* it twice.
Declarations(scopes) ==
  {decl \in [MCScope -> {"none", "private", "exported"}] :
     /\ \A s \in MCScope : decl[s] # "none" => s \in scopes
     /\ ~(decl[a] = "exported" /\ decl[n] = "exported")}

\* Two of the scopes declare x: as many as a conflict takes.
Twice(declarations) == {decl \in declarations : Cardinality({s \in MCScope : decl[s] # "none"}) = 2}
Exporting(scopes) == {decl \in Declarations(scopes) : \A s \in MCScope : decl[s] # "private"}

\* The blocks that other scopes enclose: one, or one in another in a third.
OneBlock == [s \in {n} |-> a]
ThreeBlocks == [s \in {n, d, c} |-> CASE s = n -> a [] s = d -> n [] s = c -> d]

Make(decl, requests, roots, blocks) ==
  [root |-> [s \in MCScope |-> IF s \in DOMAIN blocks THEN a ELSE s],
   parent |-> [s \in MCScope |-> IF s \in DOMAIN blocks THEN blocks[s] ELSE None],
   declares |-> [s \in MCScope |-> IF decl[s] # "none" THEN {x} ELSE {}],
   exported |-> [s \in MCScope |-> IF decl[s] = "exported" THEN {x} ELSE {}],
   imports |-> requests, roots |-> roots]

MakeAll(declarations, edges, roots) ==
  {Make(decl, r, roots, OneBlock) : decl \in declarations, r \in Requests(edges)}

\* No cycles: a and its block import b and c, b imports c.
Layered == MakeAll(Twice(Declarations({a, b, c, n})), <<<<a, b>>, <<a, c>>, <<b, c>>, <<n, c>>>>, {a, b})

\* a, c and b import each other in a cycle, b itself, and a something more.
Circular ==
  MakeAll(Twice(Exporting({a, b, d})), <<<<a, c>>, <<c, b>>, <<b, a>>, <<a, d>>, <<b, b>>>>, {a, b})

\* a imports b, which may import c in two ways, itself and by d; so may the block of a.
Relayed ==
  MakeAll(Twice(Exporting({a, n, c})), <<<<a, b>>, <<b, c>>, <<b, d>>, <<d, c>>>>, {a, d})
    \cup MakeAll(Twice(Exporting({b, c, d})), <<<<n, b>>, <<a, c>>, <<n, c>>, <<d, a>>>>, {a, d})

\* Blocks of a that nest and import b; a file exports x once.
Deep ==
  {Make(decl, r, {a}, ThreeBlocks) :
     decl \in {decl \in Twice(Declarations({a, b, c, d, n})) :
                 Cardinality({s \in {a, c, d, n} : decl[s] = "exported"}) <= 1},
     r \in Requests(<<<<a, b>>, <<n, b>>, <<c, b>>>>)}

MCPrograms == Layered \cup Circular \cup Relayed \cup Deep
=============================================================================
