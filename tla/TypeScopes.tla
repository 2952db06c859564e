----------------------------- MODULE TypeScopes -----------------------------
(***************************************************************************)
(* Type scopes (type_scope.cpp) and the resolution of type imports         *)
(* (type_import_resolution.cpp).                                           *)
(*                                                                         *)
(* Each file has a root type scope and a scope for each block nested in    *)
(* it.  An @T import adds the root scope of another file to the imports of *)
(* the scope it stands in.  Before a file's identifiers are resolved, the  *)
(* exports of what is imported are copied into the importing scopes, depth *)
(* first, which is where identifiers that are defined twice are found.     *)
(* The scopes of different files, and of different visits, are shared.     *)
(***************************************************************************)
EXTENDS Naturals, Sequences, FiniteSetsExt

CONSTANTS
  Scope,      \* type scopes, of files and of the blocks in them
  Ident,      \* type identifiers
  None,
  Base,       \* Library::base_scope, whose references have no source token
  Programs    \* what may have been loaded

\* A scope's identifiers are declared in it, and some of them exported.  imports
\* are the imports of all files in the order in which add_import is called; roots
\* are the files that visits begin with.
ImportRequest == [into : Scope, root : Scope, exported : BOOLEAN]

Program ==
  [root : [Scope -> Scope], parent : [Scope -> Scope \cup {None}],
   declares : [Scope -> SUBSET Ident], exported : [Scope -> SUBSET Ident],
   imports : Seq(ImportRequest), roots : SUBSET Scope]

\* An import: a file, and whether it is imported for export.
Import == Scope \X BOOLEAN

ASSUME ScopesAssumption == IsFiniteSet(Scope) /\ None \notin Scope \cup Import /\ Base \in Scope
\* push_scope: a scope without a parent is its own root, any other has its parent's, and is
\* made after its parent, so that no scopes enclose each other.
Nested(p) ==
  /\ \A s \in Scope : p.root[s] = IF p.parent[s] = None THEN s ELSE p.root[p.parent[s]]
  /\ \A s \in Scope : p.parent[p.root[s]] = None
  /\ \A S \in SUBSET Scope : S # {} => \E s \in S : p.parent[s] \notin S

\* Imports are of files, and can_register_local_identifier has made sure that a file
\* exports an identifier once.
WellFormed(p) ==
  /\ Nested(p)
  /\ \A s \in Scope : p.exported[s] \subseteq p.declares[s]
  /\ \A s, t \in Scope : p.root[s] = p.root[t] /\ s # t => p.exported[s] \cap p.exported[t] = {}
  /\ \A r \in p.roots \cup {p.imports[k].root : k \in DOMAIN p.imports} : p.parent[r] = None

ASSUME ProgramsAssumption == \A p \in Programs : p \in Program /\ WellFormed(p)

VARIABLES
  program,    \* never changes
  pending,    \* the imports still to be added
  imports,    \* TypeScope::imports, as <<root scope, is_exported>>
  local,      \* TypeScope::local_types: the scope of the reference, or None
  exports,    \* TypeScope::exports, of root scopes
  unvisited,  \* the roots that have not been visited
  visited,    \* TypeImportResolutionInstance::visited
  stack,      \* the calls of maybe_resolve_type_imports
  outcome     \* of the visit of the last root

vars == <<program, pending, imports, local, exports, unvisited, visited, stack, outcome>>
scopeVars == <<program, pending, imports>>

Parent(s) == program.parent[s]
Children(s) == {t \in Scope : Parent(t) = s}

\* TypeScope::root
RootOf(s) == program.root[s]

\* A scope and those that enclose it, however deep it is: the least set that holds it and
\* the parents of its members.
Enclosing(s) ==
  LET file == {t \in Scope : RootOf(t) = RootOf(s)}
      closed == {S \in SUBSET file : s \in S /\ \A t \in S : Parent(t) \in S \cup {None}}
  IN {t \in file : \A S \in closed : t \in S}

\* A call of maybe_resolve_type_imports: its scope, the imports left, the import
\* whose exports are being copied and the identifiers left of it.
Frame == [scope : Scope, left : SUBSET Import, from : Import \cup {None},
          idents : SUBSET Ident, children : SUBSET Scope]

Top == stack[Len(stack)]
Below == SubSeq(stack, 1, Len(stack) - 1)
Call(s) == [scope |-> s, left |-> imports[s], from |-> None, idents |-> {},
            children |-> Children(s)]

---------------------------------------------------------------------------
(* What the parser and the pipeline leave in the scopes *)

\* TypeScope::emplace_type for each declaration.
Declared(s) == [i \in Ident |-> IF i \in program.declares[s] THEN s ELSE None]

Exported(s) ==
  [i \in Ident |-> LET ts == {t \in Scope : RootOf(t) = s /\ i \in program.exported[t]}
                   IN IF ts = {} THEN None ELSE CHOOSE t \in ts : TRUE]

Init ==
  /\ program \in Programs
  /\ pending = program.imports
  /\ imports = [s \in Scope |-> {}]
  /\ local = [s \in Scope |-> Declared(s)]
  /\ exports = [s \in Scope |-> Exported(s)]
  /\ unvisited = program.roots
  /\ visited = {} /\ stack = <<>> /\ outcome = "none"

\* std::unordered_set::insert: imports are equal when their scopes are.
Inserted(set, import) ==
  IF \E other \in set : other[1] = import[1] THEN set ELSE set \cup {import}

\* TypeScope::add_import, which the parse pipeline calls for each import.
AddImport ==
  /\ pending # <<>>
  /\ LET request == Head(pending)
         import == <<request.root, request.exported>>
         into == {request.into} \cup (IF request.exported THEN {RootOf(request.into)} ELSE {})
     IN imports' = [s \in Scope |-> IF s \in into THEN Inserted(imports[s], import)
                                                  ELSE imports[s]]
  /\ pending' = Tail(pending)
  /\ UNCHANGED <<program, local, exports, unvisited, visited, stack, outcome>>

---------------------------------------------------------------------------
(* maybe_resolve_type_imports *)

\* App::resolve_type_imports, the first time that a file is the root of a visit.
Visit(r) ==
  /\ pending = <<>> /\ stack = <<>> /\ r \in unvisited
  /\ unvisited' = unvisited \ {r}
  /\ visited' = {r}
  /\ stack' = <<Call(r)>>
  /\ UNCHANGED <<scopeVars, local, exports, outcome>>

\* Mutant: an import that has been visited is not passed over.
CopyFromAgain(import) ==
  [Top EXCEPT !.from = import, !.idents = {i \in Ident : exports[import[1]][i] # None}]

CopyFrom(import) ==
  [Top EXCEPT !.left = @ \ {import}, !.from = import,
              !.idents = {i \in Ident : exports[import[1]][i] # None}]

\* Mutant: the exports of an import are copied before its own imports are resolved.
NextImportEarly(import) ==
  /\ stack # <<>> /\ Top.from = None /\ import \in Top.left
  /\ IF import[1] \in visited
     THEN stack' = Append(Below, CopyFrom(import)) /\ UNCHANGED visited
     ELSE /\ visited' = visited \cup {import[1]}
          /\ stack' = Append(Append(Below, CopyFrom(import)), Call(import[1]))
  /\ UNCHANGED <<scopeVars, local, exports, unvisited, outcome>>

\* The imports are taken in the order of a hash table; a call for a scope that has
\* been visited returns at once.
NextImport(import) ==
  /\ stack # <<>> /\ Top.from = None /\ import \in Top.left
  /\ IF import[1] \in visited
     THEN stack' = Append(Below, CopyFrom(import)) /\ UNCHANGED visited
     ELSE /\ visited' = visited \cup {import[1]}
          /\ stack' = Append(Append(Below, [Top EXCEPT !.from = import]), Call(import[1]))
  /\ UNCHANGED <<scopeVars, local, exports, unvisited, outcome>>

\* TypeScope::registered_local_identifier
Registered(s, ident, isExport) ==
  IF local[s][ident] # None THEN local[s][ident]
  ELSE IF isExport THEN exports[RootOf(s)][ident] ELSE None

\* Mutant: the identifier is registered again, whatever it refers to.
CopyOneUnchecked(ident) ==
  /\ stack # <<>> /\ Top.from # None /\ ident \in Top.idents
  /\ LET s == Top.scope  ref == exports[Top.from[1]][ident]  isExport == Top.from[2] IN
       /\ stack' = Append(Below, [Top EXCEPT !.idents = @ \ {ident}])
       /\ local' = [local EXCEPT ![s][ident] = ref]
       /\ exports' = IF isExport THEN [exports EXCEPT ![RootOf(s)][ident] = ref] ELSE exports
       /\ UNCHANGED outcome
  /\ UNCHANGED <<scopeVars, unvisited, visited>>

\* Mutant: what is imported is exported too.
CopyOneExported(ident) ==
  /\ stack # <<>> /\ Top.from # None /\ ident \in Top.idents
  /\ LET s == Top.scope  ref == exports[Top.from[1]][ident]
         registered == Registered(s, ident, TRUE)
     IN IF registered \notin {None, ref}
        THEN stack' = <<>> /\ outcome' = "conflict" /\ UNCHANGED <<local, exports>>
        ELSE /\ stack' = Append(Below, [Top EXCEPT !.idents = @ \ {ident}])
             /\ local' = [local EXCEPT ![s][ident] = ref]
             /\ exports' = [exports EXCEPT ![RootOf(s)][ident] = ref]
             /\ UNCHANGED outcome
  /\ UNCHANGED <<scopeVars, unvisited, visited>>

\* One export of the import: registered already, in conflict, or emplaced.  A
\* conflict ends all the calls.
CopyOne(ident) ==
  /\ stack # <<>> /\ Top.from # None /\ ident \in Top.idents
  /\ LET s == Top.scope  ref == exports[Top.from[1]][ident]  isExport == Top.from[2]
         registered == Registered(s, ident, isExport)
     IN IF registered \notin {None, ref}
        THEN /\ stack' = <<>>
             /\ outcome' = IF registered = Base THEN "conflict without token" ELSE "conflict"
             /\ UNCHANGED <<local, exports>>
        ELSE /\ stack' = Append(Below, [Top EXCEPT !.idents = @ \ {ident}])
             /\ IF registered = ref THEN UNCHANGED <<local, exports>>
                ELSE /\ local' = [local EXCEPT ![s][ident] = ref]
                     /\ exports' = IF isExport
                                   THEN [exports EXCEPT ![RootOf(s)][ident] = ref]
                                   ELSE exports
             /\ UNCHANGED outcome
  /\ UNCHANGED <<scopeVars, unvisited, visited>>

Copied ==
  /\ stack # <<>> /\ Top.from # None /\ Top.idents = {}
  /\ stack' = Append(Below, [Top EXCEPT !.from = None])
  /\ UNCHANGED <<scopeVars, local, exports, unvisited, visited, outcome>>

NextChild(t) ==
  /\ stack # <<>> /\ Top.from = None /\ Top.left = {} /\ t \in Top.children
  /\ LET caller == [Top EXCEPT !.children = @ \ {t}] IN
       IF t \in visited
       THEN stack' = Append(Below, caller) /\ UNCHANGED visited
       ELSE stack' = Append(Append(Below, caller), Call(t)) /\ visited' = visited \cup {t}
  /\ UNCHANGED <<scopeVars, local, exports, unvisited, outcome>>

\* The call returns: its caller goes on with the exports that are there now.
Return ==
  /\ stack # <<>> /\ Top.from = None /\ Top.left = {} /\ Top.children = {}
  /\ IF Below = <<>> THEN stack' = <<>> /\ outcome' = "resolved"
     ELSE LET caller == Below[Len(Below)] IN
       /\ stack' = Append(SubSeq(Below, 1, Len(Below) - 1),
            IF caller.from = None THEN caller
            ELSE [caller EXCEPT !.left = @ \ {caller.from},
                    !.idents = {i \in Ident : exports[caller.from[1]][i] # None}])
       /\ UNCHANGED outcome
  /\ UNCHANGED <<scopeVars, local, exports, unvisited, visited>>

---------------------------------------------------------------------------
(* TypeScope::lookup_type *)

\* The scopes that the loop over the imports of s may come to, before it finds ident: the
\* imports of s, and the exported imports of those that do not export it.
Walk(s, ident) ==
  LET first == {import[1] : import \in imports[s]} \ {s}
      through == [t \in Scope |-> IF exports[t][ident] # None THEN {}
                                 ELSE {u \in Scope \ {s} : <<u, TRUE>> \in imports[t]}]
      closed == {W \in SUBSET Scope : first \subseteq W /\ \A t \in W : through[t] \subseteq W}
  IN {t \in Scope : \A W \in closed : t \in W}

FoundByImport(s, ident) == {exports[t][ident] : t \in Walk(s, ident)} \ {None}

\* The first of some of the scopes that enclose another, on the way out.
Nearest(S) == CHOOSE t \in S : S \subseteq Enclosing(t)

\* Mutant: the enclosing scopes are not asked.
LookupInScope(s, ident) ==
  IF local[s][ident] # None THEN {local[s][ident]} ELSE FoundByImport(s, ident)

\* The references that a lookup may return, as the imports are in a hash table.
Lookup(s, ident) ==
  LET holding == {t \in Enclosing(s) : local[t][ident] # None}
      finding == {t \in Enclosing(s) : FoundByImport(t, ident) # {}}
  IN IF holding # {} THEN {local[Nearest(holding)][ident]}
     ELSE IF finding # {} THEN FoundByImport(Nearest(finding), ident)
     ELSE {}

---------------------------------------------------------------------------
Finished == pending = <<>> /\ stack = <<>> /\ unvisited = {} /\ UNCHANGED vars

Next ==
  \/ AddImport \/ \E r \in Scope : Visit(r)
  \/ \E import \in Import : NextImport(import)
  \/ \E i \in Ident : CopyOne(i)
  \/ Copied \/ \E t \in Scope : NextChild(t) \/ Return \/ Finished

Spec == Init /\ [][Next]_vars

\* One thread, which never waits.
FairSpec == Spec /\ WF_vars(Next)
=============================================================================
