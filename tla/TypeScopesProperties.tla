------------------------ MODULE TypeScopesProperties ------------------------
(***************************************************************************)
(* What resolving imports should achieve, against the import graph.        *)
(***************************************************************************)
EXTENDS TypeScopes

Ref == [Ident -> Scope \cup {None}]

\* The calls are of scopes that have been visited, each once, and for imports of theirs.
CallsOK ==
  /\ stack \in Seq(Frame)
  /\ \A k \in 1..Len(stack) :
       stack[k].scope \in visited /\ stack[k].left \subseteq imports[stack[k].scope]
  /\ \A k, l \in 1..Len(stack) : stack[k].scope = stack[l].scope => k = l

\* The type of every variable, and of the calls of maybe_resolve_type_imports.
TypeOK ==
  /\ program \in Program /\ pending \in Seq(ImportRequest)
  /\ imports \in [Scope -> SUBSET Import]
  /\ local \in [Scope -> Ref] /\ exports \in [Scope -> Ref]
  /\ unvisited \subseteq Scope /\ visited \subseteq Scope
  /\ CallsOK
  /\ outcome \in {"none", "resolved", "conflict", "conflict without token"}

---------------------------------------------------------------------------
(* The import graph *)

\* Files whose exports are also those of the file r: it imports them for export, at
\* its root or in a block.
ReExports(r) ==
  {u \in Scope : \E t \in Scope : <<u, TRUE>> \in imports[t] /\ RootOf(t) = r}

\* The files in F, those that they re-export, and so on: the least closed set.
Closure(F) ==
  LET reExports == [t \in Scope |-> ReExports(t)]
      closed == {S \in SUBSET {t \in Scope : Parent(t) = None} :
                   F \subseteq S /\ \A t \in S : reExports[t] \subseteq S}
  IN {t \in Scope : \A S \in closed : t \in S}

\* The files whose exports s sees: its imports, and what they re-export.
Seen(s) == Closure({import[1] : import \in imports[s]})

\* What ident may stand for in s, by the declarations alone: its own and those of the
\* files that it sees.
Meanings(s, ident) ==
  LET seen == Seen(s) IN
    {t \in Scope : ident \in program.declares[t] /\
                     (t = s \/ (RootOf(t) \in seen /\ ident \in program.exported[t]))}

\* What the file of s exports as ident: its own and those that it re-exports.
ExportedMeanings(s, ident) ==
  LET from == Closure({RootOf(s)})
  IN {t \in Scope : ident \in program.exported[t] /\ RootOf(t) \in from}

---------------------------------------------------------------------------

\* A scope never holds, under any identifier, a type that its file cannot see: private
\* declarations stay private, and imports not marked for export are not passed on.
\* (registered_local_identifier, emplace_type.)
VisibleOnly ==
  \A s \in Scope, i \in Ident : local[s][i] \notin {None, s} => local[s][i] \in Meanings(s, i)

\* Identifiers are looked up by the visit that has resolved the imports; a lookup finds
\* what the scope or an enclosing one sees, and finds something if there is anything.
Reached == pending = <<>> /\ stack = <<>> /\ outcome = "resolved"

\* An export is dropped with the second of two imports of one file (TypeImport's operator==),
\* so that only a block of the file imports it for export.
Dropped == \E t, u \in Scope : <<u, TRUE>> \in imports[t] /\ <<u, TRUE>> \notin imports[RootOf(t)]

LookupFindsVisible ==
  Reached => \A s \in visited, i \in Ident :
    LET meant == UNION {Meanings(t, i) : t \in Enclosing(s)}
    IN /\ Lookup(s, i) \subseteq meant
       /\ ~Dropped /\ (\E t \in meant : RootOf(t) # RootOf(s) \/ t \in Enclosing(s))
            => Lookup(s, i) # {}

\* Files import each other in a cycle.
FileImports(f, g) == \E t \in Scope : RootOf(t) = f /\ \E import \in imports[t] : import[1] = g

Cyclic ==
  \E files \in (SUBSET Scope) \ {{}} : \A f \in files : \E g \in files : FileImports(f, g)

\* A scope imports for export what it also sees by another import, or a block imports for
\* export and something else: an identifier may be passed over as registered already
\* (registered_local_identifier), and then be exported only, or not be exported at all.
PassedOver ==
  \E s \in Scope : \E v, w \in imports[s] :
    v # w /\ v[2] /\ (Parent(s) # None \/ Closure({v[1]}) \cap Closure({w[1]}) # {})

\* After a resolution without conflicts, a lookup does not depend on the order of a hash
\* table, unless files import each other in a cycle or exports are passed over.
LookupDeterministic ==
  Reached /\ ~Cyclic /\ ~PassedOver =>
    \A s \in visited, i \in Ident : Cardinality(Lookup(s, i)) <= 1

\* A lookup walks the imports itself, so it finds what there is to find, and one thing.
LookupCorrect == LookupFindsVisible /\ LookupDeterministic

\* A resolution without conflicts means that no scope sees two declarations of one
\* identifier: "checking to ensure no duplicate identifiers are exported or defined"
\* (notes/note3.m:222-223).  In a cycle the exports of a file that is still being
\* resolved are taken for all it has, and a duplicate may be missed; so it may if an
\* export is passed over.
ConflictsFound ==
  Reached /\ ~Cyclic /\ ~PassedOver =>
    \A s \in visited, i \in Ident : Cardinality(Meanings(s, i)) <= 1

\* And if there is a conflict, it is a real one.
ConflictsReal ==
  outcome \in {"conflict", "conflict without token"} =>
    \E s \in Scope, i \in Ident :
      Cardinality(Meanings(s, i)) > 1 \/ Cardinality(ExportedMeanings(s, i)) > 1

\* A resolution stops at a duplicate if and only if there is one.
ConflictsExact == ConflictsFound /\ ConflictsReal

\* The call has come back from the import and copies its exports.
Iterating(call) == call.from # None /\ call.from \notin call.left

\* The exports of a file are not inserted into while they are iterated over
\* (type_import_resolution.cpp:52-67), also when a file imports itself.
IterationSafe ==
  [][stack' # <<>> => \A k \in DOMAIN stack : Iterating(stack[k]) =>
       exports'[stack[k].from[1]] = exports[stack[k].from[1]]]_vars

\* The resolution of each root ends.
EachVisitEnds == <>(unvisited = {} /\ stack = <<>>)

---------------------------------------------------------------------------
(* What the proofs rest on: invariants that the steps preserve.            *)

\* The graph is complete before it is resolved, imports are of files, and a block's
\* imports for export are also its file's.
GraphInv ==
  /\ WellFormed(program) /\ unvisited \subseteq program.roots
  /\ \A s \in Scope : \A v, w \in imports[s] :
       Parent(v[1]) = None /\ (v[1] = w[1] => v = w)
  /\ \A k \in 1..Len(pending) : Parent(pending[k].root) = None
  /\ pending # <<>> =>
       /\ visited = {} /\ stack = <<>> /\ outcome = "none"
       /\ local = [s \in Scope |-> Declared(s)] /\ exports = [s \in Scope |-> Exported(s)]

\* Declarations are never lost.
DeclaredInv ==
  \A s \in Scope, i \in Ident :
    /\ local[s][i] = s <=> i \in program.declares[s]
    /\ i \in program.exported[s] => exports[RootOf(s)][i] = s

\* A call is made by an import of the call below it, or, when its imports are done, by the
\* enclosing scope; so the files of the calls import each other in the order of the stack.
OnStack(s) == \E k \in 1..Len(stack) : stack[k].scope = s

PathInv ==
  /\ \A k \in 1..Len(stack) : stack[k].children \subseteq Children(stack[k].scope)
  /\ \A k \in 1..Len(stack) : Parent(stack[k].scope) # None =>
       /\ k > 1 /\ stack[k - 1].scope = Parent(stack[k].scope)
       /\ stack[k - 1].left = {} /\ stack[k - 1].from = None
  /\ \A k \in 1..(Len(stack) - 1) : Parent(stack[k + 1].scope) = None =>
       stack[k].from # None /\ stack[k].from[1] = stack[k + 1].scope
  /\ \A k, l \in 1..Len(stack) : k < l =>
       \/ RootOf(stack[l].scope) = RootOf(stack[k].scope)
       \/ \E j \in k..(l - 1) : FileImports(RootOf(stack[k].scope), stack[j + 1].scope)

\* The scopes of a visit: those that enclose one that has been visited, and the blocks in
\* it, unless its call is still to come to them.
VisitInv ==
  /\ \A s \in visited : Parent(s) # None => Parent(s) \in visited
  /\ stack # <<>> \/ outcome = "resolved" =>
       \A s \in visited : \A t \in Children(s) :
         t \in visited \/ \E k \in 1..Len(stack) : stack[k].scope = s /\ t \in stack[k].children

\* What a scope holds is its own or has been copied from an import of it, and then it is
\* exported if that import is.
SourceInv ==
  \A s \in Scope, i \in Ident : local[s][i] \notin {None, s} =>
    \E v \in imports[s] : /\ exports[v[1]][i] = local[s][i]
                          /\ v[2] => exports[RootOf(s)][i] = local[s][i]

\* An export of an import has been copied, and exported if the import is; a block need not
\* hold what its file exports.
Held(s, v, i) ==
  LET ref == exports[v[1]][i] IN
  ref # None =>
    /\ local[s][i] = ref \/ (local[s][i] = None /\ Parent(s) # None /\ v[2])
    /\ v[2] => exports[RootOf(s)][i] = ref

\* All that the file r should export it does.
Complete(r) == \A i \in Ident : \A t \in ExportedMeanings(r, i) : exports[r][i] = t

\* The call for s has still to take its import v, or has come back from it.
Waits(s, v) == \E k \in 1..Len(stack) : stack[k].scope = s /\ v \in stack[k].left

Copying(s, v, i) ==
  \E k \in 1..Len(stack) : stack[k].scope = s /\ stack[k].from = v /\ i \in stack[k].idents

Settled(s, v) ==
  v[1] \in visited /\ ~OnStack(v[1]) /\ \A i \in Ident : Held(s, v, i) \/ Copying(s, v, i)

\* In a graph without cycles, the imports that a call has done are of files whose calls
\* have returned, and their exports have been copied.
Plain == ~Cyclic /\ ~PassedOver

SettledInv ==
  Plain /\ (stack # <<>> \/ outcome = "resolved") =>
    \A s \in visited : \A v \in imports[s] : Waits(s, v) \/ Settled(s, v)

\* A file exports what it does not hold only if a block in it declares that, or if the
\* imports of the file were done before.
BlocksLast ==
  Plain =>
    \A r \in Scope, i \in Ident :
      Parent(r) = None /\ exports[r][i] # None /\ local[r][i] = None =>
        \/ RootOf(exports[r][i]) = r
        \/ \A v \in imports[r] : Complete(v[1]) /\ \A j \in Ident :
             exports[v[1]][j] # None => local[r][j] = exports[v[1]][j]
=============================================================================
