----------------------- MODULE TypeScopesGraph_proofs -----------------------
(***************************************************************************)
(* Proofs about what the resolution of imports achieves: the conflicts it  *)
(* reports are real, lookups find what the import graph has to offer, and  *)
(* in a graph without cycles no duplicate is missed.                       *)
(***************************************************************************)
EXTENDS TypeScopes_proofs, FiniteSetTheorems

---------------------------------------------------------------------------
(* Files and blocks *)

\* The file of a scope is a scope that no other encloses, and that of all its blocks.
LEMMA Files ==
  ASSUME TypeOK, GraphInv, NEW s \in Scope
  PROVE  /\ RootOf(s) \in Scope /\ Parent(RootOf(s)) = None
         /\ Parent(s) = None => RootOf(s) = s
         /\ Parent(s) # None => Parent(s) \in Scope /\ RootOf(Parent(s)) = RootOf(s)
  <1>1. program.parent \in [Scope -> Scope \cup {None}] /\ program.root \in [Scope -> Scope]
    BY DEF TypeOK, Program
  <1>2. Nested(program)
    BY DEF GraphInv, WellFormed
  <1>3. None \notin Scope
    BY ScopesAssumption
  <1> QED
    BY <1>1, <1>2, <1>3 DEF Nested, RootOf, Parent

\* Some scopes, with each of them its parent: with each of them its file, too.
LEMMA Outermost ==
  ASSUME TypeOK, GraphInv, NEW S \in SUBSET Scope, \A t \in S : Parent(t) \in S \cup {None},
         NEW s \in S
  PROVE  RootOf(s) \in S
  <1> DEFINE T == {t \in S : RootOf(t) = RootOf(s)}
  <1>1. T \in SUBSET Scope /\ T # {}
    OBVIOUS
  <1>2. PICK t \in T : Parent(t) \notin T
    BY <1>1 DEF GraphInv, WellFormed, Nested, Parent
  <1>3. Parent(t) = None
    BY <1>2, Files
  <1> QED
    BY <1>2, <1>3, Files

\* Scopes keep their files.
LEMMA SameGraph ==
  ASSUME UNCHANGED <<program, imports>>
  PROVE  /\ \A s : RootOf(s)' = RootOf(s) /\ Parent(s)' = Parent(s) /\ Children(s)' = Children(s)
         /\ \A f, g : FileImports(f, g)' <=> FileImports(f, g)
         /\ \A F : Closure(F)' = Closure(F)
         /\ \A s : Seen(s)' = Seen(s)
         /\ \A s, i : Meanings(s, i)' = Meanings(s, i) /\ ExportedMeanings(s, i)' = ExportedMeanings(s, i)
         /\ Cyclic' = Cyclic /\ PassedOver' = PassedOver /\ Dropped' = Dropped
  <1>1. \A s : RootOf(s)' = RootOf(s) /\ Parent(s)' = Parent(s) /\ Children(s)' = Children(s)
    BY DEF RootOf, Parent, Children
  <1>2. \A f, g : FileImports(f, g)' <=> FileImports(f, g)
    BY <1>1 DEF FileImports
  <1>3. \A F : Closure(F)' = Closure(F)
    BY <1>1 DEF Closure, ReExports
  <1>4. \A s : Seen(s)' = Seen(s)
    BY <1>3 DEF Seen
  <1>5. \A s, i : Meanings(s, i)' = Meanings(s, i) /\ ExportedMeanings(s, i)' = ExportedMeanings(s, i)
    BY <1>1, <1>3, <1>4 DEF Meanings, ExportedMeanings
  <1>6. Cyclic' = Cyclic /\ PassedOver' = PassedOver /\ Dropped' = Dropped
    BY <1>1, <1>2, <1>3 DEF Cyclic, PassedOver, Dropped
  <1> QED
    BY <1>1, <1>2, <1>3, <1>4, <1>5, <1>6

\* Sets of scopes with at most one element, and with more.
LEMMA AtMostOne ==
  ASSUME NEW S \in SUBSET Scope
  PROVE  Cardinality(S) <= 1 <=> \A x, y \in S : x = y
  <1>1. IsFiniteSet(S) /\ Cardinality(S) \in Nat
    BY ScopesAssumption, FS_Subset, FS_CardinalityType
  <1>2. ASSUME \A x, y \in S : x = y
        PROVE  Cardinality(S) <= 1
    <2>1. CASE S = {}
      BY <2>1, FS_EmptySet
    <2>2. CASE S # {}
      <3>1. PICK x \in S : TRUE
        BY <2>2
      <3>2. S = {x}
        BY <1>2, <3>1
      <3> QED
        BY <3>2, FS_Singleton
    <2> QED
      BY <2>1, <2>2
  <1>3. ASSUME Cardinality(S) <= 1, NEW x \in S, NEW y \in S
        PROVE  x = y
    <2>1. Cardinality(S) # 0
      BY <1>1, <1>3, FS_EmptySet
    <2>2. Cardinality(S) = 1
      BY <1>1, <1>3, <2>1
    <2> QED
      BY <1>1, <1>3, <2>2, FS_Singleton
  <1> QED
    BY <1>2, <1>3

---------------------------------------------------------------------------
(* The files that a scope sees *)

FileScope == {t \in Scope : Parent(t) = None}

\* Imports are of files.
LEMMA ImportFiles ==
  ASSUME TypeOK, GraphInv, NEW s \in Scope, NEW v \in imports[s]
  PROVE  /\ v \in Import /\ v[1] \in Scope /\ v[1] \in FileScope /\ v[2] \in BOOLEAN
         /\ v = <<v[1], v[2]>> /\ v # None
  <1>1. v \in Import
    BY DEF TypeOK
  <1>2. v[1] \in Scope /\ v[2] \in BOOLEAN /\ v = <<v[1], v[2]>>
    BY <1>1 DEF Import
  <1>3. Parent(v[1]) = None
    BY DEF GraphInv
  <1> QED
    BY <1>1, <1>2, <1>3, ScopesAssumption DEF FileScope

\* What is seen by way of files are files.
LEMMA ClosureFiles ==
  ASSUME TypeOK, GraphInv, NEW F \in SUBSET FileScope
  PROVE  Closure(F) \in SUBSET FileScope
  <1>1. \A t \in Scope : ReExports(t) \subseteq FileScope
    <2> SUFFICES ASSUME NEW r \in Scope, NEW u \in ReExports(r)
                 PROVE  u \in FileScope
      OBVIOUS
    <2>1. PICK t \in Scope : <<u, TRUE>> \in imports[t]
      BY DEF ReExports
    <2>2. Parent(<<u, TRUE>>[1]) = None
      BY <2>1 DEF GraphInv
    <2> QED
      BY <2>2 DEF FileScope, ReExports
  <1> QED
    BY <1>1 DEF Closure, FileScope

\* A file that is seen is one to begin with, or is seen by way of one.
LEMMA ClosureUnion ==
  ASSUME TypeOK, GraphInv, NEW F \in SUBSET FileScope, NEW t \in Closure(F)
  PROVE  \E u \in F : t \in Closure({u})
  <1> DEFINE S == UNION {Closure({u}) : u \in F}
  <1>1. \A u \in F : u \in Closure({u}) /\ Closure({u}) \in SUBSET FileScope
    BY ClosureContains, ClosureFiles DEF FileScope
  <1>2. F \subseteq S /\ S \in SUBSET FileScope
    BY <1>1
  <1>3. \A s \in S : ReExports(s) \subseteq S
    <2> SUFFICES ASSUME NEW u \in F, NEW s \in Closure({u}), NEW v \in ReExports(s)
                 PROVE  v \in Closure({u})
      OBVIOUS
    <2> QED
      BY ClosureStep DEF FileScope
  <1>4. \A s \in S : s \in Scope
    BY <1>2 DEF FileScope
  <1> HIDE DEF S
  <1>5. t \in S
    BY <1>2, <1>3, <1>4 DEF Closure, FileScope
  <1> QED
    BY <1>5 DEF S

\* And if it is not the first, then by way of what that exports of others.
LEMMA ClosureUnfold ==
  ASSUME TypeOK, GraphInv, NEW f \in FileScope, NEW t \in Closure({f}), t # f
  PROVE  \E g \in ReExports(f) : g \in FileScope /\ t \in Closure({g})
  <1> DEFINE S == {f} \cup UNION {Closure({g}) : g \in ReExports(f)}
  <1>1. f \in Scope /\ {f} \in SUBSET FileScope
    BY DEF FileScope
  <1>2. ASSUME NEW g \in ReExports(f)
        PROVE  g \in FileScope /\ g \in Closure({g}) /\ Closure({g}) \in SUBSET FileScope
    <2>1. f \in Closure({f}) /\ {f} \in SUBSET Scope
      BY <1>1, ClosureContains
    <2>2. g \in Closure({f})
      BY <1>2, <2>1, ClosureStep
    <2>3. g \in FileScope
      BY <1>1, <2>2, ClosureFiles
    <2> QED
      BY <2>3, ClosureFiles, ClosureContains DEF FileScope
  <1>3. {f} \subseteq S /\ S \in SUBSET FileScope
    BY <1>1, <1>2
  <1>4. \A s \in S : ReExports(s) \subseteq S
    <2> SUFFICES ASSUME NEW s \in S, NEW v \in ReExports(s)
                 PROVE  v \in S
      OBVIOUS
    <2>1. CASE s = f
      BY <2>1, <1>2
    <2>2. ASSUME NEW g \in ReExports(f), s \in Closure({g})
          PROVE  v \in Closure({g})
      <3>1. {g} \in SUBSET Scope
        BY <1>2, <2>2 DEF FileScope
      <3> QED
        BY <2>2, <3>1, ClosureStep
    <2> QED
      BY <2>1, <2>2
  <1> HIDE DEF S
  <1>5. t \in S
    BY <1>3, <1>4 DEF Closure, FileScope
  <1> QED
    BY <1>2, <1>5 DEF S

\* A file that sees itself by an import of its own is in a cycle.
LEMMA CycleFound ==
  ASSUME TypeOK, GraphInv, NEW f \in FileScope, NEW u \in FileScope, FileImports(f, u), f \in Closure({u})
  PROVE  Cyclic
  <1> DEFINE F == {g \in Closure({u}) : f \in Closure({g})}
  <1>1. u \in Closure({u}) /\ {u} \in SUBSET Scope /\ Closure({u}) \in SUBSET FileScope
    BY ClosureContains, ClosureFiles DEF FileScope
  <1>2. u \in F /\ F \in SUBSET FileScope
    BY <1>1
  <1>3. ASSUME NEW g \in F
        PROVE  \E h \in F : FileImports(g, h)
    <2>1. CASE g = f
      BY <2>1, <1>2
    <2>2. CASE g # f
      <3>1. PICK h \in ReExports(g) : f \in Closure({h})
        BY <1>2, <1>3, <2>2, ClosureUnfold
      <3>2. h \in Closure({u})
        BY <1>1, <1>3, <3>1, ClosureStep
      <3>3. FileImports(g, h)
        BY <3>1 DEF FileImports, ReExports
      <3> QED
        BY <3>1, <3>2, <3>3
    <2> QED
      BY <2>1, <2>2
  <1> HIDE DEF F
  <1> QED
    BY <1>2, <1>3 DEF Cyclic, FileScope

---------------------------------------------------------------------------
(* The graph *)

LEMMA GraphInit == Init => GraphInv
  <1> SUFFICES ASSUME Init PROVE GraphInv
    OBVIOUS
  <1>1. WellFormed(program) /\ program \in Program
    BY ProgramsAssumption DEF Init
  <1>2. \A k \in 1..Len(pending) : Parent(pending[k].root) = None
    <2>1. program.imports \in Seq(ImportRequest) /\ pending = program.imports
      BY <1>1 DEF Program, Init
    <2>2. DOMAIN pending = 1..Len(pending)
      BY <2>1
    <2> QED
      BY <1>1, <2>1, <2>2 DEF WellFormed, Parent
  <1>3. \A s \in Scope : imports[s] = {}
    BY DEF Init
  <1> QED
    BY <1>1, <1>2, <1>3 DEF Init, GraphInv

LEMMA GraphNext == TypeOK /\ GraphInv /\ [Next]_vars => GraphInv'
  <1> SUFFICES ASSUME TypeOK, GraphInv, [Next]_vars PROVE GraphInv'
    OBVIOUS
  <1>1. CASE AddImport
    <2> DEFINE request == Head(pending)
               import == <<request.root, request.exported>>
    <2>1. /\ pending # <<>> /\ pending' = Tail(pending)
          /\ UNCHANGED <<program, local, exports, visited, stack, outcome>>
      BY <1>1 DEF AddImport
    <2>2. pending \in Seq(ImportRequest)
      BY DEF TypeOK
    <2>3. 1 \in 1..Len(pending) /\ request = pending[1]
      BY <2>1, <2>2
    <2>4. \A k \in 1..Len(pending') : k + 1 \in 1..Len(pending) /\ pending'[k] = pending[k + 1]
      BY <2>1, <2>2
    <2>5. \A k \in 1..Len(pending') : Parent(pending[k].root)' = None
      BY <2>1, <2>4 DEF GraphInv, Parent
    <2>6. Parent(import[1]) = None
      BY <2>3 DEF GraphInv
    <2>7. PICK into : imports' = [s \in Scope |-> IF s \in into THEN Inserted(imports[s], import)
                                                             ELSE imports[s]]
      BY <1>1 DEF AddImport
    <2> HIDE DEF import
    <2>8. ASSUME NEW s \in Scope, NEW v \in imports'[s], NEW w \in imports'[s]
          PROVE  Parent(v[1])' = None /\ (v[1] = w[1] => v = w)
      <3>1. \/ imports'[s] = imports[s]
            \/ /\ imports'[s] = imports[s] \cup {import}
               /\ ~\E other \in imports[s] : other[1] = import[1]
        BY <2>7 DEF Inserted
      <3>2. \A p \in imports[s] : Parent(p[1]) = None
        BY DEF GraphInv
      <3>3. Parent(v[1])' = Parent(v[1])
        BY <2>1 DEF Parent
      <3>4. \A p, q \in imports[s] : p[1] = q[1] => p = q
        BY DEF GraphInv
      <3> QED
        BY <2>6, <2>8, <3>1, <3>2, <3>3, <3>4
    <2>9. (WellFormed(program) /\ unvisited \subseteq program.roots)'
      BY <1>1, <2>1 DEF GraphInv, AddImport
    <2>10. pending' # <<>> =>
             /\ visited' = {} /\ stack' = <<>> /\ outcome' = "none"
             /\ local' = [s \in Scope |-> Declared(s)'] /\ exports' = [s \in Scope |-> Exported(s)']
      <3>1. \A s : Declared(s)' = Declared(s) /\ Exported(s)' = Exported(s)
        BY <2>1 DEF Declared, Exported, RootOf
      <3> QED
        BY <2>1, <3>1 DEF GraphInv
    <2> QED
      BY <2>5, <2>8, <2>9, <2>10 DEF GraphInv
  <1>2. CASE pending = <<>> /\ UNCHANGED scopeVars /\ unvisited' \subseteq unvisited
    <2>1. UNCHANGED <<program, pending, imports>>
      BY <1>2 DEF scopeVars
    <2>2. WellFormed(program)'
      BY <2>1 DEF GraphInv
    <2>3. unvisited' \subseteq program'.roots
      BY <1>2, <2>1 DEF GraphInv
    <2>4. \A s \in Scope : \A v, w \in imports'[s] : Parent(v[1])' = None /\ (v[1] = w[1] => v = w)
      BY <2>1 DEF GraphInv, Parent
    <2>5. \A k \in 1..Len(pending') : Parent(pending[k].root)' = None
      BY <2>1 DEF GraphInv, Parent
    <2>6. pending' = <<>>
      BY <1>2, <2>1
    <2> QED
      BY <2>2, <2>3, <2>4, <2>5, <2>6 DEF GraphInv
  <1>3. CASE UNCHANGED vars
    BY <1>3 DEF vars, GraphInv, Parent, Declared, Exported, RootOf
  <1>4. stack # <<>> => pending = <<>>
    BY DEF GraphInv
  <1> QED
    BY <1>1, <1>2, <1>3, <1>4
    DEF Next, Visit, NextImport, CopyOne, Copied, NextChild, Return, Finished, scopeVars

---------------------------------------------------------------------------
(* The stack of calls *)

\* A call that has done all there is to do.
Done(call) == call.left = {} /\ call.from = None /\ call.children = {}

\* The top of the stack is replaced, after a call above it has returned or not.
Kept(n) ==
  /\ n \in 1..Len(stack) /\ n \in 1..Len(stack') /\ Len(stack') = n
  /\ \A k \in 1..(n - 1) : stack'[k] = stack[k]
  /\ stack'[n].scope = stack[n].scope /\ stack'[n].children \subseteq stack[n].children
  /\ stack[n].children \subseteq stack'[n].children \cup visited
  /\ \A k \in 1..Len(stack) : k > n => Done(stack[k])

\* A scope is called, for an import or as a block.
Called(t) ==
  LET n == Len(stack) IN
  /\ n \in 1..Len(stack) /\ Len(stack') = n + 1
  /\ t \in Scope /\ t \notin visited /\ visited' = visited \cup {t}
  /\ \A k \in 1..(n - 1) : stack'[k] = stack[k]
  /\ stack'[n + 1] = Call(t) /\ stack'[n].scope = stack[n].scope
  /\ \/ /\ stack'[n].from \in imports[stack[n].scope] /\ stack'[n].from[1] = t
        /\ stack'[n].from # None /\ stack'[n].children = stack[n].children
     \/ /\ t \in stack[n].children /\ stack'[n].children = stack[n].children \ {t}
        /\ stack'[n].left = {} /\ stack'[n].from = None

LEMMA CallTyped ==
  ASSUME TypeOK, NEW t \in Scope
  PROVE  Call(t) \in Frame
  BY DEF Call, Frame, Children, Import, TypeOK

\* What the steps change in a call.
LEMMA Advanced ==
  ASSUME NEW u \in Frame
  PROVE  /\ \A v \in Import :
              LET f == [u EXCEPT !.from = v]
              IN f.scope = u.scope /\ f.children = u.children /\ f.left = u.left /\ f.from = v
         /\ \A v \in Import : \A I :
              LET f == [u EXCEPT !.left = @ \ {v}, !.from = v, !.idents = I]
              IN /\ f.scope = u.scope /\ f.children = u.children /\ f.left = u.left \ {v}
                 /\ f.from = v /\ f.idents = I
         /\ \A i \in Ident :
              LET f == [u EXCEPT !.idents = @ \ {i}]
              IN /\ f.scope = u.scope /\ f.children = u.children /\ f.left = u.left
                 /\ f.from = u.from /\ f.idents = u.idents \ {i}
         /\ \A t \in Scope :
              LET f == [u EXCEPT !.children = @ \ {t}]
              IN /\ f.scope = u.scope /\ f.children = u.children \ {t} /\ f.left = u.left
                 /\ f.from = u.from /\ f.idents = u.idents
         /\ LET f == [u EXCEPT !.from = None]
            IN f.scope = u.scope /\ f.children = u.children /\ f.left = u.left /\ f.from = None
  BY DEF Frame

LEMMA CopyFromAdvanced ==
  ASSUME Top \in Frame, NEW v \in Import
  PROVE  LET f == CopyFrom(v)
         IN /\ f.scope = Top.scope /\ f.children = Top.children /\ f.left = Top.left \ {v}
            /\ f.from = v /\ f.idents = {i \in Ident : exports[v[1]][i] # None}
  BY Advanced DEF CopyFrom

LEMMA StackMoves ==
  ASSUME TypeOK, CopyInv, [Next]_vars
  PROVE  \/ /\ stack' = <<>> /\ visited' = visited
            /\ outcome' # "resolved" \/ (Len(stack) = 1 /\ Done(stack[1]))
         \/ \E r \in Scope : Visit(r)
         \/ visited' = visited /\ \E n \in 1..Len(stack) : Kept(n)
         \/ \E t \in Scope : Called(t)
         \/ UNCHANGED <<stack, visited, outcome>>
  <1>0. CASE stack = <<>>
    <2>1. ~\E i \in Ident : CopyOne(i)
      BY <1>0 DEF CopyOne
    <2> QED
      BY <1>0, <2>1 DEF Next, AddImport, NextImport, Copied, NextChild, Return, Finished, vars
  <1> SUFFICES ASSUME stack # <<>>
               PROVE  \/ /\ stack' = <<>> /\ visited' = visited
                         /\ outcome' # "resolved" \/ (Len(stack) = 1 /\ Done(stack[1]))
                      \/ visited' = visited /\ \E n \in 1..Len(stack) : Kept(n)
                      \/ \E t \in Scope : Called(t)
                      \/ UNCHANGED <<stack, visited, outcome>>
    BY <1>0
  <1>1. stack \in Seq(Frame) /\ Len(stack) \in 1..Len(stack) /\ Top \in Frame /\ Top = stack[Len(stack)]
    <2>1. stack \in Seq(Frame)
      BY DEF TypeOK, CallsOK
    <2>2. Len(stack) \in Nat /\ Len(stack) > 0 /\ Top \in Frame
      BY <2>1, StackTyped
    <2> QED
      BY <2>1, <2>2 DEF Top
  <1>2. ASSUME NEW f \in Frame, stack' = Append(Below, f), f.scope = Top.scope,
               f.children \subseteq Top.children, Top.children \subseteq f.children \cup visited
        PROVE  \E n \in 1..Len(stack) : Kept(n)
    <2>1. /\ Len(stack') = Len(stack)
          /\ \A k \in 1..(Len(stack) - 1) : stack'[k] = stack[k]
          /\ stack'[Len(stack)] = f
      BY <1>1, <1>2, Replaced
    <2>2. ~\E k \in 1..Len(stack) : k > Len(stack)
      OBVIOUS
    <2> QED
      BY <1>1, <1>2, <2>1, <2>2 DEF Kept
  <1>3. ASSUME NEW f \in Frame, NEW t \in Scope, stack' = Append(Append(Below, f), Call(t))
        PROVE  /\ Len(stack') = Len(stack) + 1
               /\ \A k \in 1..(Len(stack) - 1) : stack'[k] = stack[k]
               /\ stack'[Len(stack)] = f /\ stack'[Len(stack) + 1] = Call(t)
    BY <1>1, <1>3, CallTyped, Pushed
  <1>4. ASSUME NEW import \in Import, NextImport(import)
        PROVE  \/ visited' = visited /\ \E n \in 1..Len(stack) : Kept(n)
               \/ \E t \in Scope : Called(t)
    <2>1. import \in Top.left /\ import \in imports[Top.scope] /\ import[1] \in Scope
      BY <1>4, AdvancedOK DEF NextImport, CallOK, Import
    <2>2. CASE import[1] \in visited
      <3> DEFINE f == CopyFrom(import)
      <3>1. stack' = Append(Below, f) /\ visited' = visited
        BY <1>4, <2>2 DEF NextImport
      <3>2. f \in Frame /\ f.scope = Top.scope /\ f.children = Top.children
        BY <1>1, <1>4, <2>1, AdvancedOK, CopyFromAdvanced DEF CallOK
      <3> HIDE DEF f
      <3> QED
        BY <1>2, <3>1, <3>2
    <2>3. CASE import[1] \notin visited
      <3> DEFINE f == [Top EXCEPT !.from = import]
      <3>1. stack' = Append(Append(Below, f), Call(import[1])) /\ visited' = visited \cup {import[1]}
        BY <1>4, <2>3 DEF NextImport
      <3>2. /\ f \in Frame /\ f.scope = Top.scope /\ f.children = Top.children /\ f.from = import
            /\ import # None
        BY <1>1, <1>4, <2>1, AdvancedOK, Advanced, ScopesAssumption DEF CallOK
      <3> HIDE DEF f
      <3>3. Called(import[1])
        BY <1>1, <1>3, <2>1, <2>3, <3>1, <3>2 DEF Called
      <3> QED
        BY <2>1, <3>3
    <2> QED
      BY <2>2, <2>3
  <1>5. ASSUME NEW i \in Ident, CopyOne(i), stack' # <<>>
        PROVE  visited' = visited /\ \E n \in 1..Len(stack) : Kept(n)
    <2> DEFINE f == [Top EXCEPT !.idents = @ \ {i}]
    <2>1. stack' = Append(Below, f) /\ visited' = visited
      BY <1>5 DEF CopyOne
    <2>2. f \in Frame /\ f.scope = Top.scope /\ f.children = Top.children
      BY <1>1, AdvancedOK, Advanced DEF CallOK
    <2> HIDE DEF f
    <2> QED
      BY <1>2, <2>1, <2>2
  <1>6. ASSUME Copied
        PROVE  visited' = visited /\ \E n \in 1..Len(stack) : Kept(n)
    <2> DEFINE f == [Top EXCEPT !.from = None]
    <2>1. stack' = Append(Below, f) /\ visited' = visited
      BY <1>6 DEF Copied
    <2>2. f \in Frame /\ f.scope = Top.scope /\ f.children = Top.children
      BY <1>1, AdvancedOK, Advanced DEF CallOK
    <2> HIDE DEF f
    <2> QED
      BY <1>2, <2>1, <2>2
  <1>7. ASSUME NEW t \in Scope, NextChild(t)
        PROVE  \/ visited' = visited /\ \E n \in 1..Len(stack) : Kept(n)
               \/ Called(t)
    <2> DEFINE f == [Top EXCEPT !.children = @ \ {t}]
    <2>1. t \in Top.children /\ Top.left = {} /\ Top.from = None
      BY <1>7 DEF NextChild
    <2>2. /\ f \in Frame /\ f.scope = Top.scope /\ f.children = Top.children \ {t}
          /\ f.left = {} /\ f.from = None
      BY <1>1, <2>1, AdvancedOK, Advanced DEF CallOK
    <2>3. \/ stack' = Append(Below, f) /\ visited' = visited /\ t \in visited
          \/ /\ stack' = Append(Append(Below, f), Call(t)) /\ visited' = visited \cup {t}
             /\ t \notin visited
      BY <1>7 DEF NextChild
    <2> HIDE DEF f
    <2> QED
      BY <1>1, <1>2, <1>3, <2>1, <2>2, <2>3 DEF Called
  <1>8. ASSUME Return, stack' # <<>>
        PROVE  visited' = visited /\ \E n \in 1..Len(stack) : Kept(n)
    <2>1. Below # <<>>
      BY <1>8 DEF Return
    <2> DEFINE n == Len(stack) - 1
               c == Below[Len(Below)]
               f == IF c.from = None THEN c
                    ELSE [c EXCEPT !.left = @ \ {c.from},
                                   !.idents = {i \in Ident : exports[c.from[1]][i] # None}]
    <2>2. stack' = Append(SubSeq(Below, 1, Len(Below) - 1), f) /\ visited' = visited
      BY <1>8, <2>1 DEF Return
    <2>3. Below \in Seq(Frame) /\ Len(Below) \in 1..Len(Below)
      BY <1>1, <2>1, StackTyped
    <2>4. c \in Frame
      BY <2>3
    <2> HIDE DEF c
    <2>5. f \in Frame /\ f.scope = c.scope /\ f.children = c.children
      BY <2>4 DEF Frame
    <2> HIDE DEF f
    <2>6. /\ Len(stack') = n
          /\ \A k \in 1..(Len(stack) - 2) : stack'[k] = stack[k]
          /\ stack'[n] = f /\ c = stack[n] /\ Len(stack) > 1
      BY <1>1, <2>1, <2>2, <2>5, Popped DEF c
    <2>7. n \in 1..Len(stack) /\ n \in 1..Len(stack') /\ n - 1 = Len(stack) - 2
      BY <1>1, <2>6
    <2>8. \A k \in 1..Len(stack) : k > n => Done(stack[k])
      <3>1. \A k \in 1..Len(stack) : k > n => k = Len(stack)
        BY <1>1
      <3> QED
        BY <1>1, <1>8, <3>1 DEF Return, Done
    <2>9. Kept(n)
      BY <2>5, <2>6, <2>7, <2>8 DEF Kept
    <2> QED
      BY <2>2, <2>7, <2>9
  <1>9. ~AddImport \/ UNCHANGED <<stack, visited, outcome>>
    BY DEF AddImport
  <1>10. \A r \in Scope : ~Visit(r)
    BY DEF Visit
  <1>11. ASSUME NEW i \in Ident, CopyOne(i)
         PROVE  visited' = visited /\ (stack' = <<>> => outcome' # "resolved")
    <2> DEFINE f == [Top EXCEPT !.idents = @ \ {i}]
    <2>1. visited' = visited /\ (stack' = Append(Below, f) \/ outcome' # "resolved")
      BY <1>11 DEF CopyOne
    <2>2. f \in Frame
      BY AdvancedOK, <1>11 DEF CallOK
    <2> HIDE DEF f
    <2> QED
      BY <1>1, <2>1, <2>2, Replaced
  <1>12. ASSUME Return, stack' = <<>>
         PROVE  visited' = visited /\ Len(stack) = 1 /\ Done(stack[1])
    <2>1. Below = <<>>
      BY <1>12 DEF Return
    <2>2. Len(stack) = 1
      BY <1>1, <2>1, StackTyped
    <2> QED
      BY <1>1, <1>12, <2>2 DEF Return, Done
  <1>13. Finished \/ UNCHANGED vars => UNCHANGED <<stack, visited, outcome>>
    BY DEF Finished, vars
  <1> QED
    BY <1>4, <1>5, <1>6, <1>7, <1>8, <1>9, <1>10, <1>11, <1>12, <1>13 DEF Next

\* The graph does not change while there are calls.
LEMMA GraphFixed ==
  ASSUME TypeOK, GraphInv, [Next]_vars
  PROVE  AddImport \/ UNCHANGED scopeVars
  BY DEF Next, Visit, NextImport, CopyOne, Copied, NextChild, Return, Finished, vars, scopeVars

LEMMA PathInit == Init => PathInv
  <1> SUFFICES ASSUME Init PROVE PathInv
    OBVIOUS
  <1>1. Len(stack) = 0
    BY DEF Init
  <1> QED
    BY <1>1 DEF PathInv

LEMMA PathNext ==
  TypeOK /\ CopyInv /\ GraphInv /\ PathInv /\ [Next]_vars => PathInv'
  <1> SUFFICES ASSUME TypeOK, CopyInv, GraphInv, PathInv, [Next]_vars PROVE PathInv'
    OBVIOUS
  <1>1. CASE AddImport
    <2>1. stack' = <<>>
      BY <1>1 DEF AddImport, GraphInv
    <2>2. Len(stack') = 0
      BY <2>1
    <2> QED
      BY <2>2 DEF PathInv
  <1>2. CASE UNCHANGED <<program, imports>>
    <2>1. /\ \A s : RootOf(s)' = RootOf(s) /\ Parent(s)' = Parent(s) /\ Children(s)' = Children(s)
          /\ \A f, g : FileImports(f, g)' <=> FileImports(f, g)
      BY <1>2, SameGraph
    <2>2. CASE stack' = <<>>
      <3>1. Len(stack') = 0
        BY <2>2
      <3> QED
        BY <3>1 DEF PathInv
    <2>3. ASSUME NEW r \in Scope, Visit(r) PROVE PathInv'
      <3>1. /\ Len(stack') = 1 /\ stack'[1].scope = r /\ stack'[1].children = Children(r)
            /\ Parent(r) = None
        BY <2>3 DEF Visit, Call, GraphInv, WellFormed, Parent
      <3>2. \A k \in 1..1 : k = 1
        OBVIOUS
      <3> QED
        BY <2>1, <3>1, <3>2 DEF PathInv
    <2>4. ASSUME NEW n \in 1..Len(stack), Kept(n) PROVE PathInv'
      <3>1. /\ Len(stack') = n /\ \A k \in 1..(n - 1) : stack'[k] = stack[k]
            /\ stack'[n].scope = stack[n].scope /\ stack'[n].children \subseteq stack[n].children
        BY <2>4 DEF Kept
      <3>2. \A k \in 1..n : k \in 1..Len(stack) /\ (k = n \/ k \in 1..(n - 1))
        OBVIOUS
      <3>3. \A k \in 1..n : /\ stack'[k].scope = stack[k].scope
                            /\ stack'[k].children \subseteq stack[k].children
        BY <3>1, <3>2
      <3>4. ASSUME NEW k \in 1..n, Parent(stack'[k].scope) # None
            PROVE  /\ k > 1 /\ stack'[k - 1].scope = Parent(stack'[k].scope)
                   /\ stack'[k - 1].left = {} /\ stack'[k - 1].from = None
        <4>1. /\ k > 1 /\ stack[k - 1].scope = Parent(stack[k].scope)
              /\ stack[k - 1].left = {} /\ stack[k - 1].from = None
          BY <2>1, <3>2, <3>3, <3>4 DEF PathInv
        <4>2. k - 1 \in 1..(n - 1)
          BY <4>1
        <4> QED
          BY <2>1, <3>1, <3>3, <4>1, <4>2
      <3>5. ASSUME NEW k \in 1..(n - 1), Parent(stack'[k + 1].scope) = None
            PROVE  stack'[k].from # None /\ stack'[k].from[1] = stack'[k + 1].scope
        <4>1. k + 1 \in 1..n /\ k \in 1..(Len(stack) - 1)
          OBVIOUS
        <4> QED
          BY <2>1, <3>1, <3>3, <3>5, <4>1 DEF PathInv
      <3>6. ASSUME NEW k \in 1..n, NEW l \in 1..n, k < l
            PROVE  \/ RootOf(stack'[l].scope) = RootOf(stack'[k].scope)
                   \/ \E j \in k..(l - 1) : FileImports(RootOf(stack'[k].scope), stack'[j + 1].scope)
        <4>1. \A j \in k..(l - 1) : j + 1 \in 1..n
          OBVIOUS
        <4>2. \A j \in k..(l - 1) : stack'[j + 1].scope = stack[j + 1].scope
          BY <3>3, <4>1
        <4>3. \/ RootOf(stack[l].scope) = RootOf(stack[k].scope)
              \/ \E j \in k..(l - 1) : FileImports(RootOf(stack[k].scope), stack[j + 1].scope)
          BY <3>2, <3>6 DEF PathInv
        <4> QED
          BY <3>3, <4>2, <4>3
      <3>7. \A k \in 1..n : stack'[k].children \subseteq Children(stack'[k].scope)
        BY <3>2, <3>3 DEF PathInv
      <3> QED
        BY <2>1, <3>1, <3>4, <3>5, <3>6, <3>7 DEF PathInv
    <2>5. ASSUME NEW t \in Scope, Called(t) PROVE PathInv'
      <3> DEFINE m == Len(stack)
                 n == m + 1
      <3>1. /\ m \in 1..m /\ Len(stack') = n
            /\ \A k \in 1..(m - 1) : stack'[k] = stack[k]
            /\ stack'[n].scope = t /\ stack'[n].children = Children(t)
            /\ stack'[m].scope = stack[m].scope /\ stack'[m].children \subseteq stack[m].children
        BY <2>5 DEF Called, Call
      <3>2. m \in Nat /\ \A k \in 1..n : k = n \/ k = m \/ k \in 1..(m - 1)
        BY <3>1
      <3>3. \A k \in 1..m : /\ stack'[k].scope = stack[k].scope
                            /\ stack'[k].children \subseteq stack[k].children
        BY <3>1, <3>2
      <3>4. \A k \in 1..n : k = n \/ k \in 1..m
        BY <3>2
      <3>5. stack[m].scope \in Scope
        BY <3>1 DEF TypeOK, CallsOK
      <3>6. \/ /\ FileImports(RootOf(stack[m].scope), t) /\ Parent(t) = None
               /\ stack'[m].from # None /\ stack'[m].from[1] = t
            \/ /\ t \in Children(stack[m].scope) /\ stack'[m].left = {} /\ stack'[m].from = None
        <4>1. stack[m].children \subseteq Children(stack[m].scope)
          BY <3>1 DEF PathInv
        <4> QED
          BY <2>5, <3>5, <4>1 DEF Called, FileImports, GraphInv
      <3>7. /\ FileImports(RootOf(stack[m].scope), t) \/ RootOf(t) = RootOf(stack[m].scope)
            /\ t \in Children(stack[m].scope) => Parent(t) = stack[m].scope /\ Parent(t) # None
        <4>1. t \in Children(stack[m].scope) => Parent(t) = stack[m].scope /\ Parent(t) # None
          BY <3>5, ScopesAssumption DEF Children
        <4> QED
          BY <3>5, <3>6, <4>1, Files
      <3>8. ASSUME NEW k \in 1..n, Parent(stack'[k].scope) # None
            PROVE  /\ k > 1 /\ stack'[k - 1].scope = Parent(stack'[k].scope)
                   /\ stack'[k - 1].left = {} /\ stack'[k - 1].from = None
        <4>1. CASE k = n
          <5>1. k - 1 = m /\ k > 1
            BY <3>2, <3>1, <4>1
          <5> QED
            BY <2>1, <3>1, <3>6, <3>7, <3>8, <4>1, <5>1
        <4>2. CASE k \in 1..m
          <5>1. /\ k > 1 /\ stack[k - 1].scope = Parent(stack[k].scope)
                /\ stack[k - 1].left = {} /\ stack[k - 1].from = None
            BY <2>1, <3>3, <3>8, <4>2 DEF PathInv
          <5>2. k - 1 \in 1..(m - 1)
            BY <3>2, <4>2, <5>1
          <5> QED
            BY <2>1, <3>1, <3>3, <4>2, <5>1, <5>2
        <4> QED
          BY <3>4, <4>1, <4>2
      <3>9. ASSUME NEW k \in 1..m, Parent(stack'[k + 1].scope) = None
            PROVE  stack'[k].from # None /\ stack'[k].from[1] = stack'[k + 1].scope
        <4>1. CASE k = m
          BY <2>1, <3>1, <3>6, <3>7, <3>9, <4>1
        <4>2. CASE k \in 1..(m - 1)
          <5>1. k + 1 \in 1..m
            BY <3>2, <4>2
          <5> QED
            BY <2>1, <3>1, <3>3, <3>9, <4>2, <5>1 DEF PathInv
        <4> QED
          BY <3>2, <4>1, <4>2
      <3>10. ASSUME NEW k \in 1..n, NEW l \in 1..n, k < l
             PROVE  \/ RootOf(stack'[l].scope) = RootOf(stack'[k].scope)
                    \/ \E j \in k..(l - 1) : FileImports(RootOf(stack'[k].scope), stack'[j + 1].scope)
        <4>1. k \in 1..m
          BY <3>2, <3>10
        <4>2. ASSUME NEW p \in 1..m, k < p
              PROVE  \/ RootOf(stack'[p].scope) = RootOf(stack'[k].scope)
                     \/ \E j \in k..(p - 1) : FileImports(RootOf(stack'[k].scope), stack'[j + 1].scope)
          <5>1. \A j \in k..(p - 1) : j + 1 \in 1..m
            BY <3>2, <4>1
          <5> QED
            BY <3>3, <4>1, <4>2, <5>1 DEF PathInv
        <4>3. CASE l \in 1..m
          BY <3>10, <4>2, <4>3
        <4>4. CASE l = n
          <5>1. m \in k..(l - 1)
            BY <3>2, <4>1, <4>4
          <5>2. CASE RootOf(stack'[m].scope) = RootOf(stack'[k].scope)
            <6>1. \/ FileImports(RootOf(stack'[k].scope), stack'[m + 1].scope)
                  \/ RootOf(stack'[l].scope) = RootOf(stack'[k].scope)
              BY <3>1, <3>7, <4>4, <5>2
            <6> QED
              BY <5>1, <6>1
          <5>3. CASE \E j \in k..(m - 1) : FileImports(RootOf(stack'[k].scope), stack'[j + 1].scope)
            <6>1. \A j \in k..(m - 1) : j \in k..(l - 1)
              BY <3>2, <4>4
            <6> QED
              BY <5>3, <6>1
          <5>4. k = m \/ k < m
            BY <3>2, <4>1
          <5> QED
            BY <3>1, <4>1, <4>2, <5>2, <5>3, <5>4
        <4> QED
          BY <3>4, <4>3, <4>4
      <3>11. \A k \in 1..n : stack'[k].children \subseteq Children(stack'[k].scope)
        BY <3>1, <3>3, <3>4 DEF PathInv
      <3>12. Len(stack') - 1 = m
        BY <3>1, <3>2
      <3> HIDE DEF m, n
      <3> QED
        BY <2>1, <3>1, <3>8, <3>9, <3>10, <3>11, <3>12 DEF PathInv
    <2>6. CASE UNCHANGED stack
      BY <2>1, <2>6 DEF PathInv
    <2> QED
      BY <2>2, <2>3, <2>4, <2>5, <2>6, StackMoves
  <1> QED
    BY <1>1, <1>2, GraphFixed DEF scopeVars

\* A call of a file is below, or is, the call of a block of it, and has done its imports.
LEMMA FileOnStack ==
  ASSUME TypeOK, GraphInv, PathInv, NEW k \in 1..Len(stack)
  PROVE  \E m \in 1..k : /\ stack[m].scope = RootOf(stack[k].scope)
                         /\ m = k \/ (stack[m].left = {} /\ stack[m].from = None)
  <1>1. stack[k].scope \in Scope
    BY DEF TypeOK, CallsOK
  <1> DEFINE B == {m \in 1..k : m = k \/ (stack[m].left = {} /\ stack[m].from = None)}
             S == {stack[m].scope : m \in B}
  <1>2. k \in B /\ \A m \in B : m \in 1..Len(stack) /\ stack[m].scope \in Scope
    <2>1. \A m \in 1..Len(stack) : stack[m].scope \in Scope
      BY DEF TypeOK, CallsOK
    <2>2. k \in 1..k /\ \A m \in 1..k : m \in 1..Len(stack)
      OBVIOUS
    <2> QED
      BY <2>1, <2>2
  <1>3. ASSUME NEW m \in B, Parent(stack[m].scope) # None
        PROVE  m - 1 \in B /\ stack[m - 1].scope = Parent(stack[m].scope)
    <2>1. /\ m > 1 /\ stack[m - 1].scope = Parent(stack[m].scope)
          /\ stack[m - 1].left = {} /\ stack[m - 1].from = None
      BY <1>2, <1>3 DEF PathInv
    <2> QED
      BY <2>1
  <1> HIDE DEF B
  <1>4. S \in SUBSET Scope /\ stack[k].scope \in S /\ \A t \in S : Parent(t) \in S \cup {None}
    BY <1>2, <1>3
  <1>5. RootOf(stack[k].scope) \in S
    <2> HIDE DEF S
    <2> QED
      BY <1>4, Outermost
  <1> QED
    BY <1>5 DEF B

\* The scope s gets ref for the identifier i from the import v, or has it already.
CopyFacts(s, v, i, ref) ==
  /\ s \in Scope /\ v \in imports[s] /\ v \in Import
  /\ ref = exports[v[1]][i] /\ ref \in Scope /\ ExportedFrom(v[1], i, ref)
  /\ \A q \in Scope, j \in Ident :
       \/ local'[q][j] = local[q][j]
       \/ q = s /\ j = i /\ local[q][j] = None /\ local'[q][j] = ref
  /\ \A q \in Scope, j \in Ident :
       \/ exports'[q][j] = exports[q][j]
       \/ q = RootOf(s) /\ j = i /\ v[2] /\ exports[q][j] = None /\ exports'[q][j] = ref
  /\ \/ local[s][i] = None /\ local'[s][i] = ref /\ (v[2] => exports'[RootOf(s)][i] = ref)
     \/ UNCHANGED <<local, exports>> /\ Registered(s, i, v[2]) = ref
  /\ exports'[v[1]] = exports[v[1]]

LEMMA CopyEffect ==
  ASSUME TypeOK, CopyInv, GraphInv, VisibleInv, NEW i \in Ident, CopyOne(i), stack' # <<>>
  PROVE  CopyFacts(Top.scope, Top.from, i, exports[Top.from[1]][i])
  <1> DEFINE s == Top.scope
             v == Top.from
             ref == exports[v[1]][i]
             r == RootOf(s)
  <1> SUFFICES CopyFacts(s, v, i, ref)
    OBVIOUS
  <1>1. stack # <<>> /\ v # None /\ i \in Top.idents
    BY DEF CopyOne
  <1>2. Top \in Frame /\ Len(stack) \in 1..Len(stack) /\ Top = stack[Len(stack)]
    <2>1. Len(stack) \in Nat /\ Len(stack) > 0 /\ Top \in Frame
      BY <1>1, StackTyped DEF TypeOK, CallsOK
    <2> QED
      BY <2>1 DEF Top
  <1>3. s \in Scope /\ v \in imports[s] /\ v \in Import /\ v[1] \in Scope
    BY <1>1, <1>2 DEF CopyInv, Frame, Import
  <1>4. r \in Scope
    BY <1>3, Files
  <1>5. local \in [Scope -> Ref] /\ exports \in [Scope -> Ref]
    BY DEF TypeOK
  <1>6. ref # None
    BY <1>1 DEF CopyInv, TopOK
  <1>7. ref \in Scope /\ ExportedFrom(v[1], i, ref)
    BY <1>3, <1>5, <1>6 DEF VisibleInv, ExportedFrom
  <1>8. exports'[v[1]] = exports[v[1]]
    BY CopiedSafe
  <1>9. \/ UNCHANGED <<local, exports>> /\ Registered(s, i, v[2]) = ref
        \/ /\ Registered(s, i, v[2]) = None
           /\ local' = [local EXCEPT ![s][i] = ref]
           /\ \/ v[2] /\ exports' = [exports EXCEPT ![r][i] = ref]
              \/ ~v[2] /\ exports' = exports
    BY DEF CopyOne
  <1>12. r = RootOf(s) /\ ref = exports[v[1]][i]
    OBVIOUS
  <1> HIDE DEF s, v, ref, r
  <1>10. CASE UNCHANGED <<local, exports>> /\ Registered(s, i, v[2]) = ref
    BY <1>3, <1>7, <1>8, <1>10, <1>12 DEF CopyFacts
  <1>11. CASE /\ Registered(s, i, v[2]) = None
              /\ local' = [local EXCEPT ![s][i] = ref]
              /\ \/ v[2] /\ exports' = [exports EXCEPT ![r][i] = ref]
                 \/ ~v[2] /\ exports' = exports
    <2>1. local[s][i] = None /\ (v[2] => exports[r][i] = None)
      BY <1>11, <1>12 DEF Registered
    <2>2. \A q \in Scope : local[q] \in [Ident -> Scope \cup {None}] /\ exports[q] \in [Ident -> Scope \cup {None}]
      BY <1>5 DEF Ref
    <2>3. \A q \in Scope, j \in Ident : local'[q][j] = IF q = s /\ j = i THEN ref ELSE local[q][j]
      BY <1>3, <1>5, <1>11, <2>2
    <2>4. \A q \in Scope, j \in Ident : exports'[q][j] = IF q = r /\ j = i /\ v[2] THEN ref ELSE exports[q][j]
      BY <1>4, <1>5, <1>11, <2>2
    <2> QED
      BY <1>3, <1>4, <1>7, <1>8, <1>12, <2>1, <2>3, <2>4 DEF CopyFacts
  <1> QED
    BY <1>9, <1>10, <1>11

\* All other steps leave the types of the scopes alone.
LEMMA TypesFixed ==
  ASSUME TypeOK, [Next]_vars
  PROVE  \/ \E i \in Ident : CopyOne(i) /\ stack' # <<>>
         \/ UNCHANGED <<local, exports>>
  <1>1. ASSUME NEW i \in Ident, CopyOne(i)
        PROVE  stack' # <<>> \/ UNCHANGED <<local, exports>>
    <2> DEFINE f == [Top EXCEPT !.idents = @ \ {i}]
    <2>1. stack # <<>> /\ (stack' = Append(Below, f) \/ UNCHANGED <<local, exports>>)
      BY <1>1 DEF CopyOne
    <2>2. f \in Frame /\ stack \in Seq(Frame)
      BY <1>1, <2>1, AdvancedOK DEF CallOK, TypeOK, CallsOK
    <2> HIDE DEF f
    <2> QED
      BY <2>1, <2>2, Replaced
  <1>2. (\E i \in Ident : CopyOne(i)) \/ UNCHANGED <<local, exports>>
    BY DEF Next, AddImport, Visit, NextImport, Copied, NextChild, Return, Finished, vars
  <1> QED
    BY <1>1, <1>2

LEMMA DeclaredInit == Init => DeclaredInv
  <1> SUFFICES ASSUME Init, NEW s \in Scope, NEW i \in Ident
               PROVE  /\ local[s][i] = s <=> i \in program.declares[s]
                      /\ i \in program.exported[s] => exports[RootOf(s)][i] = s
    BY DEF DeclaredInv
  <1>1. program \in Program /\ WellFormed(program)
    BY ProgramsAssumption DEF Init
  <1>2. local[s][i] = s <=> i \in program.declares[s]
    BY ScopesAssumption DEF Init, Declared
  <1>3. ASSUME i \in program.exported[s]
        PROVE  exports[RootOf(s)][i] = s
    <2> DEFINE ts == {t \in Scope : RootOf(t) = RootOf(s) /\ i \in program.exported[t]}
    <2>1. ts = {s}
      BY <1>1, <1>3 DEF WellFormed, RootOf
    <2>2. RootOf(s) \in Scope
      BY <1>1 DEF Program, RootOf
    <2>3. exports[RootOf(s)][i] = IF ts = {} THEN None ELSE CHOOSE t \in ts : TRUE
      BY <2>2 DEF Init, Exported
    <2> HIDE DEF ts
    <2> QED
      BY <2>1, <2>3
  <1> QED
    BY <1>2, <1>3

LEMMA DeclaredNext ==
  TypeOK /\ CopyInv /\ GraphInv /\ VisibleInv /\ DeclaredInv /\ [Next]_vars => DeclaredInv'
  <1> SUFFICES ASSUME TypeOK, CopyInv, GraphInv, VisibleInv, DeclaredInv, [Next]_vars
               PROVE  DeclaredInv'
    OBVIOUS
  <1>1. program' = program /\ \A s : RootOf(s)' = RootOf(s)
    BY DEF Next, AddImport, Visit, NextImport, CopyOne, Copied, NextChild, Return, Finished, vars,
           scopeVars, RootOf
  <1>2. ASSUME NEW i \in Ident, CopyOne(i), stack' # <<>> PROVE DeclaredInv'
    <2>1. PICK s, v, ref : CopyFacts(s, v, i, ref)
      BY <1>2, CopyEffect
    <2>2. i \in program.exported[ref]
      BY <2>1 DEF CopyFacts, ExportedFrom
    <2>3. ref \in Scope /\ i \in program.declares[ref]
      BY <2>1, <2>2 DEF CopyFacts, VisibleInv
    <2>4. ASSUME NEW q \in Scope, NEW j \in Ident
          PROVE  /\ local'[q][j] = q <=> j \in program.declares[q]
                 /\ j \in program.exported[q] => exports'[RootOf(q)][j] = q
      <3>1. RootOf(q) \in Scope /\ q # None
        BY Files, ScopesAssumption
      <3>2. /\ local[q][j] = q <=> j \in program.declares[q]
            /\ j \in program.exported[q] => exports[RootOf(q)][j] = q
        BY DEF DeclaredInv
      <3>3. local'[q][j] = local[q][j] \/ (j = i /\ local[q][j] = None /\ local'[q][j] = ref)
        BY <2>1 DEF CopyFacts
      <3>4. exports'[RootOf(q)][j] = exports[RootOf(q)][j] \/ exports[RootOf(q)][j] = None
        BY <2>1, <3>1 DEF CopyFacts
      <3> QED
        BY <2>3, <3>1, <3>2, <3>3, <3>4
    <2> QED
      BY <1>1, <2>4 DEF DeclaredInv
  <1>3. CASE UNCHANGED <<local, exports>>
    BY <1>1, <1>3 DEF DeclaredInv
  <1> QED
    BY <1>2, <1>3, TypesFixed

LEMMA SourceInit == Init => SourceInv
  BY DEF Init, Declared, SourceInv

LEMMA SourceNext ==
  TypeOK /\ CopyInv /\ GraphInv /\ VisibleInv /\ SourceInv /\ [Next]_vars => SourceInv'
  <1> SUFFICES ASSUME TypeOK, CopyInv, GraphInv, VisibleInv, SourceInv, [Next]_vars
               PROVE  SourceInv'
    OBVIOUS
  <1>1. program' = program /\ \A s : RootOf(s)' = RootOf(s)
    BY DEF Next, AddImport, Visit, NextImport, CopyOne, Copied, NextChild, Return, Finished, vars,
           scopeVars, RootOf
  <1>2. ASSUME NEW i \in Ident, CopyOne(i), stack' # <<>> PROVE SourceInv'
    <2>1. PICK s, v, ref : CopyFacts(s, v, i, ref)
      BY <1>2, CopyEffect
    <2>2. imports' = imports
      BY <1>2 DEF CopyOne, scopeVars
    <2>3. ASSUME NEW q \in Scope, NEW j \in Ident, local'[q][j] \notin {None, q}
          PROVE  \E w \in imports[q] : /\ exports'[w[1]][j] = local'[q][j]
                                       /\ w[2] => exports'[RootOf(q)][j] = local'[q][j]
      <3>1. CASE local'[q][j] = local[q][j]
        <4>1. PICK w \in imports[q] : /\ exports[w[1]][j] = local[q][j]
                                      /\ w[2] => exports[RootOf(q)][j] = local[q][j]
          BY <2>3, <3>1 DEF SourceInv
        <4>2. w[1] \in Scope /\ RootOf(q) \in Scope
          BY Files, ImportFiles
        <4>3. \A p \in Scope : exports'[p][j] = exports[p][j] \/ exports[p][j] = None
          BY <2>1 DEF CopyFacts
        <4> QED
          BY <2>3, <3>1, <4>1, <4>2, <4>3
      <3>2. CASE q = s /\ j = i /\ local[q][j] = None /\ local'[q][j] = ref
        <4>1. v \in imports[q] /\ exports'[v[1]][j] = ref /\ (v[2] => exports'[RootOf(q)][j] = ref)
          BY <2>1, <2>3, <3>2 DEF CopyFacts
        <4> QED
          BY <3>2, <4>1
      <3> QED
        BY <2>1, <3>1, <3>2 DEF CopyFacts
    <2> QED
      BY <1>1, <2>2, <2>3 DEF SourceInv
  <1>3. CASE UNCHANGED <<local, exports>>
    <2>1. \A s \in Scope : imports[s] \subseteq imports'[s]
      BY DEF Next, AddImport, Inserted, Visit, NextImport, CopyOne, Copied, NextChild, Return,
             Finished, vars, scopeVars, TypeOK
    <2> QED
      BY <1>1, <1>3, <2>1 DEF SourceInv
  <1> QED
    BY <1>2, <1>3, TypesFixed

---------------------------------------------------------------------------
(* The scopes of a visit *)

LEMMA VisitInit == Init => VisitInv
  BY DEF Init, VisitInv

LEMMA VisitNext ==
  TypeOK /\ CopyInv /\ GraphInv /\ PathInv /\ VisitInv /\ [Next]_vars => VisitInv'
  <1> SUFFICES ASSUME TypeOK, CopyInv, GraphInv, PathInv, VisitInv, [Next]_vars PROVE VisitInv'
    OBVIOUS
  <1>1. \A s : Parent(s)' = Parent(s) /\ Children(s)' = Children(s)
    BY DEF Next, AddImport, Visit, NextImport, CopyOne, Copied, NextChild, Return, Finished, vars,
           scopeVars, Parent, Children
  <1>2. CASE /\ stack' = <<>> /\ visited' = visited
             /\ outcome' # "resolved" \/ (Len(stack) = 1 /\ Done(stack[1]))
    <2>1. ASSUME Len(stack) = 1, Done(stack[1]), NEW s \in visited, NEW t \in Children(s)
          PROVE  t \in visited
      <3>1. stack # <<>> /\ \A k \in 1..Len(stack) : k = 1
        BY <2>1
      <3>2. ~\E k \in 1..Len(stack) : t \in stack[k].children
        BY <2>1, <3>1 DEF Done
      <3> QED
        BY <3>1, <3>2 DEF VisitInv
    <2> QED
      BY <1>1, <1>2, <2>1 DEF VisitInv
  <1>3. ASSUME NEW r \in Scope, Visit(r) PROVE VisitInv'
    <2>1. /\ visited' = {r} /\ Len(stack') = 1 /\ stack'[1].scope = r
          /\ stack'[1].children = Children(r) /\ Parent(r) = None
      BY <1>3 DEF Visit, Call, GraphInv, WellFormed, Parent
    <2>2. 1 \in 1..1
      OBVIOUS
    <2> QED
      BY <1>1, <2>1, <2>2 DEF VisitInv
  <1>4. ASSUME visited' = visited, NEW n \in 1..Len(stack), Kept(n) PROVE VisitInv'
    <2>1. stack # <<>> /\ n \in 1..Len(stack') /\ Len(stack') = n
      BY <1>4 DEF Kept
    <2>2. ASSUME NEW s \in visited, NEW t \in Children(s), t \notin visited
          PROVE  \E k \in 1..Len(stack') : stack'[k].scope = s /\ t \in stack'[k].children
      <3>1. PICK k \in 1..Len(stack) : stack[k].scope = s /\ t \in stack[k].children
        BY <2>1, <2>2 DEF VisitInv
      <3>2. ~(k > n)
        BY <1>4, <3>1 DEF Kept, Done
      <3>3. k \in 1..n /\ (k = n \/ k \in 1..(n - 1))
        BY <3>2
      <3>4. stack'[k].scope = s /\ t \in stack'[k].children
        BY <1>4, <2>2, <3>1, <3>3 DEF Kept
      <3> QED
        BY <2>1, <3>3, <3>4
    <2> QED
      BY <1>1, <1>4, <2>2 DEF VisitInv
  <1>5. ASSUME NEW t \in Scope, Called(t) PROVE VisitInv'
    <2> DEFINE m == Len(stack)
    <2>1. /\ m \in 1..m /\ Len(stack') = m + 1 /\ visited' = visited \cup {t}
          /\ \A k \in 1..(m - 1) : stack'[k] = stack[k]
          /\ stack'[m + 1] = Call(t) /\ stack'[m].scope = stack[m].scope
          /\ stack[m].children \subseteq stack'[m].children \cup {t}
      BY <1>5 DEF Called
    <2>2. stack[m].scope \in visited /\ stack # <<>>
      <3>1. \A k \in 1..Len(stack) : stack[k].scope \in visited
        BY DEF TypeOK, CallsOK
      <3>2. Len(stack) # 0
        BY <2>1
      <3> QED
        BY <2>1, <3>1, <3>2
    <2>3. Parent(t) # None => Parent(t) \in visited
      <3>1. stack[m].children \subseteq Children(stack[m].scope)
        BY <2>1 DEF PathInv
      <3>2. CASE t \in stack[m].children
        BY <2>2, <3>1, <3>2 DEF Children
      <3>3. CASE t \notin stack[m].children
        <4>1. stack'[m].from \in imports[stack[m].scope] /\ stack'[m].from[1] = t
          BY <1>5, <3>3 DEF Called
        <4> QED
          BY <2>2, <4>1 DEF GraphInv, TypeOK
      <3> QED
        BY <3>2, <3>3
    <2>4. ASSUME NEW s \in visited', NEW c \in Children(s), c \notin visited'
          PROVE  \E k \in 1..Len(stack') : stack'[k].scope = s /\ c \in stack'[k].children
      <3>1. CASE s = t
        <4>1. stack'[m + 1].scope = s /\ c \in stack'[m + 1].children
          BY <2>1, <2>4, <3>1 DEF Call
        <4>2. m + 1 \in 1..Len(stack')
          BY <2>1
        <4> QED
          BY <4>1, <4>2
      <3>2. CASE s \in visited
        <4>1. PICK k \in 1..m : stack[k].scope = s /\ c \in stack[k].children
          BY <2>1, <2>2, <2>4, <3>2 DEF VisitInv
        <4>2. k \in 1..Len(stack') /\ (k = m \/ k \in 1..(m - 1))
          BY <2>1
        <4>3. stack'[k].scope = s /\ c \in stack'[k].children
          BY <2>1, <2>4, <4>1, <4>2
        <4> QED
          BY <4>2, <4>3
      <3> QED
        BY <2>1, <3>1, <3>2
    <2> HIDE DEF m
    <2> QED
      BY <1>1, <2>1, <2>3, <2>4 DEF VisitInv
  <1>6. CASE UNCHANGED <<stack, visited, outcome>>
    BY <1>1, <1>6 DEF VisitInv
  <1> QED
    BY <1>2, <1>3, <1>4, <1>5, <1>6, StackMoves

---------------------------------------------------------------------------
(* Graphs without cycles *)

\* A file that is imported now is not being resolved.
LEMMA NotCalledAgain ==
  ASSUME TypeOK, GraphInv, PathInv, ~Cyclic, stack # <<>>,
         NEW u \in FileScope, FileImports(RootOf(Top.scope), u)
  PROVE  ~OnStack(u)
  <1> SUFFICES ASSUME NEW m \in 1..Len(stack), stack[m].scope = u
               PROVE  Cyclic
    BY DEF OnStack
  <1> DEFINE n == Len(stack)
             F == {RootOf(stack[k].scope) : k \in m..n}
  <1>1. /\ n \in Nat /\ n \in 1..n /\ Top = stack[n] /\ m \in m..n
        /\ \A k \in m..n : k \in 1..n /\ stack[k].scope \in Scope
    <2>1. stack \in Seq(Frame) /\ \A k \in 1..Len(stack) : stack[k].scope \in Scope
      BY DEF TypeOK, CallsOK
    <2> QED
      BY <2>1 DEF Top
  <1>2. RootOf(u) = u /\ u \in F
    BY <1>1, Files DEF FileScope
  <1>3. F \in SUBSET Scope
    BY <1>1, Files
  <1>4. ASSUME NEW k \in m..n
        PROVE  \E g \in F : FileImports(RootOf(stack[k].scope), g)
    <2>1. CASE RootOf(stack[n].scope) = RootOf(stack[k].scope)
      BY <1>1, <1>2, <2>1
    <2>2. CASE \E j \in k..(n - 1) : FileImports(RootOf(stack[k].scope), stack[j + 1].scope)
      <3>1. PICK j \in k..(n - 1) : FileImports(RootOf(stack[k].scope), stack[j + 1].scope)
        BY <2>2
      <3>2. j + 1 \in m..n
        BY <1>1, <1>4, <3>1
      <3>3. Parent(stack[j + 1].scope) = None
        BY <3>1, ImportFiles DEF FileImports, FileScope
      <3>4. RootOf(stack[j + 1].scope) = stack[j + 1].scope
        BY <1>1, <3>2, <3>3, Files
      <3>5. stack[j + 1].scope \in F
        BY <3>2, <3>4
      <3> QED
        BY <3>1, <3>5
    <2>3. k = n \/ k < n
      BY <1>1, <1>4
    <2> QED
      BY <1>1, <1>4, <2>1, <2>2, <2>3 DEF PathInv
  <1> HIDE DEF F
  <1>5. \A f \in F : \E g \in F : FileImports(f, g)
    BY <1>4 DEF F
  <1> QED
    BY <1>2, <1>3, <1>5 DEF Cyclic

\* What the import v of s exports is not of the file of s.
LEMMA NotItsOwn ==
  ASSUME TypeOK, GraphInv, ~Cyclic, NEW s \in Scope, NEW v \in imports[s], NEW t \in Closure({v[1]})
  PROVE  RootOf(s) # t
  <1>1. v[1] \in FileScope /\ RootOf(s) \in FileScope
    BY ImportFiles, Files DEF FileScope
  <1>2. FileImports(RootOf(s), v[1])
    BY DEF FileImports
  <1> QED
    BY <1>1, <1>2, CycleFound

Active == stack # <<>> \/ outcome = "resolved"

\* When the call of a file has returned, so have those of its blocks.
LEMMA BlocksVisited ==
  ASSUME TypeOK, GraphInv, PathInv, VisitInv, Active,
         NEW p \in Scope, RootOf(p) \in visited, ~OnStack(RootOf(p))
  PROVE  p \in visited /\ ~OnStack(p)
  <1>1. \A q \in Scope : RootOf(q) = RootOf(p) => ~OnStack(q)
    <2> SUFFICES ASSUME NEW k \in 1..Len(stack), RootOf(stack[k].scope) = RootOf(p) PROVE FALSE
      BY DEF OnStack
    <2>1. PICK m \in 1..k : stack[m].scope = RootOf(stack[k].scope)
      BY FileOnStack
    <2>2. m \in 1..Len(stack)
      OBVIOUS
    <2> QED
      BY <2>1, <2>2 DEF OnStack
  <1>2. \A q \in visited : ~OnStack(q) => Children(q) \subseteq visited
    BY DEF VisitInv, OnStack, Active
  <1>3. SUFFICES ASSUME p \notin visited PROVE FALSE
    BY <1>1
  <1> DEFINE S == {q \in Scope : RootOf(q) = RootOf(p) /\ q \notin visited}
  <1>4. ASSUME NEW q \in S, Parent(q) # None
        PROVE  Parent(q) \in S
    <2>1. q \in Children(Parent(q)) /\ Parent(q) \in Scope /\ RootOf(Parent(q)) = RootOf(p)
      BY <1>4, Files DEF Children
    <2>2. Parent(q) \notin visited
      BY <1>1, <1>2, <2>1
    <2> QED
      BY <2>1, <2>2
  <1>5. S \in SUBSET Scope /\ p \in S
    BY <1>3
  <1> HIDE DEF S
  <1>6. RootOf(p) \in S
    BY <1>4, <1>5, Outermost
  <1> QED
    BY <1>6 DEF S

\* When the call of a file has returned, it exports all that it should.
LEMMA FinishedComplete ==
  ASSUME TypeOK, GraphInv, PathInv, VisitInv, DeclaredInv, SettledInv, Plain, Active,
         NEW u \in FileScope, u \in visited, ~OnStack(u)
  PROVE  Complete(u)
  <1> DEFINE Bad == {f \in FileScope : f \in visited /\ ~OnStack(f) /\ ~Complete(f)}
  <1> SUFFICES ASSUME Bad # {} PROVE FALSE
    OBVIOUS
  <1>1. PICK f \in Bad : ~\E g \in Bad : FileImports(f, g)
    <2>1. Bad \in SUBSET Scope
      BY DEF FileScope
    <2> HIDE DEF Bad
    <2> QED
      BY <2>1 DEF Plain, Cyclic
  <1>2. f \in FileScope /\ f \in visited /\ ~OnStack(f) /\ f \in Scope
    BY DEF FileScope
  <1>15. PICK i \in Ident : ~\A t \in ExportedMeanings(f, i) : exports[f][i] = t
    BY DEF Complete
  <1>3. PICK t \in ExportedMeanings(f, i) : exports[f][i] # t
    BY <1>15
  <1>4. t \in Scope /\ i \in program.exported[t] /\ RootOf(t) \in Closure({f})
    BY <1>2, <1>3, Files DEF ExportedMeanings, FileScope
  <1>5. RootOf(t) # f
    BY <1>3, <1>4 DEF DeclaredInv
  <1>6. PICK g \in ReExports(f) : g \in FileScope /\ RootOf(t) \in Closure({g})
    BY <1>2, <1>4, <1>5, ClosureUnfold
  <1>7. PICK p \in Scope : <<g, TRUE>> \in imports[p] /\ RootOf(p) = f
    BY <1>6 DEF ReExports
  <1> DEFINE v == <<g, TRUE>>
  <1>8. p \in visited /\ ~OnStack(p)
    BY <1>2, <1>7, BlocksVisited
  <1>9. ~Waits(p, v) /\ ~Copying(p, v, i)
    BY <1>8 DEF Waits, Copying, OnStack
  <1>10. Settled(p, v)
    BY <1>7, <1>8, <1>9 DEF SettledInv, Active
  <1>11. g \in visited /\ ~OnStack(g) /\ Held(p, v, i)
    BY <1>9, <1>10 DEF Settled
  <1>12. Complete(g)
    <2>1. FileImports(f, g)
      BY <1>7 DEF FileImports
    <2> QED
      BY <1>1, <1>6, <1>11, <2>1
  <1>13. exports[g][i] = t
    <2>1. t \in ExportedMeanings(g, i)
      BY <1>4, <1>6, Files DEF ExportedMeanings, FileScope
    <2> QED
      BY <1>12, <2>1 DEF Complete
  <1>14. exports[f][i] = t
    <2>1. t # None
      BY <1>4, ScopesAssumption
    <2> QED
      BY <1>7, <1>11, <1>13, <2>1 DEF Held
  <1> QED
    BY <1>3, <1>14

---------------------------------------------------------------------------
(* The imports that have been resolved *)

\* A call is on the stack for the file of the scope that imports are copied into.
LEMMA TopFile ==
  ASSUME TypeOK, GraphInv, PathInv, stack # <<>>
  PROVE  /\ Len(stack) \in Nat /\ Len(stack) \in 1..Len(stack) /\ Top = stack[Len(stack)]
         /\ Top \in Frame /\ Top.scope \in Scope /\ Top.scope \in visited
         /\ OnStack(RootOf(Top.scope))
  <1>1. stack \in Seq(Frame) /\ \A k \in 1..Len(stack) : stack[k].scope \in visited
    BY DEF TypeOK, CallsOK
  <1>2. /\ Len(stack) \in Nat /\ Len(stack) \in 1..Len(stack) /\ Top = stack[Len(stack)]
        /\ Top \in Frame
    BY <1>1, StackTyped DEF Top
  <1>3. PICK m \in 1..Len(stack) : stack[m].scope = RootOf(stack[Len(stack)].scope)
    BY <1>2, FileOnStack
  <1> QED
    BY <1>1, <1>2, <1>3 DEF OnStack, Frame

\* What a scope holds of an import that is not being resolved stays there.
LEMMA HeldStays ==
  ASSUME TypeOK, CopyInv, GraphInv, PathInv, VisibleInv, ~PassedOver,
         NEW j \in Ident, CopyOne(j), stack' # <<>>,
         NEW s \in Scope, NEW v \in imports[s], NEW i \in Ident, Held(s, v, i), ~OnStack(v[1])
  PROVE  Held(s, v, i)'
  <1>1. PICK c, w, new : CopyFacts(c, w, j, new) /\ c = Top.scope
    BY CopyEffect
  <1>2. stack # <<>> /\ UNCHANGED <<program, imports>>
    BY DEF CopyOne, scopeVars
  <1>3. RootOf(s)' = RootOf(s) /\ Parent(s)' = Parent(s)
    BY <1>2, SameGraph
  <1>4. OnStack(RootOf(c))
    BY <1>1, <1>2, TopFile
  <1>5. v[1] \in Scope /\ RootOf(s) \in Scope
    BY ImportFiles, Files
  <1>6. exports'[v[1]][i] = exports[v[1]][i]
    BY <1>1, <1>4, <1>5 DEF CopyFacts
  <1>7. exports[RootOf(s)][i] # None => exports'[RootOf(s)][i] = exports[RootOf(s)][i]
    BY <1>1, <1>5 DEF CopyFacts
  <1>8. \/ local'[s][i] = local[s][i]
        \/ s = c /\ i = j /\ local[s][i] = None /\ local'[s][i] = new
    BY <1>1 DEF CopyFacts
  <1>9. s = c /\ v # w => ~(Parent(s) # None /\ v[2])
    BY <1>1 DEF PassedOver, CopyFacts
  <1>10. v = w /\ i = j => new = exports[v[1]][i]
    BY <1>1 DEF CopyFacts
  <1> QED
    BY <1>3, <1>6, <1>7, <1>8, <1>9, <1>10 DEF Held

\* An export that is copied, or passed over, is then held.
LEMMA NewHeld ==
  ASSUME TypeOK, CopyInv, GraphInv, VisibleInv, SourceInv, BlocksLast, Plain,
         NEW s \in Scope, NEW v \in imports[s], NEW i \in Ident, NEW ref,
         CopyFacts(s, v, i, ref), UNCHANGED <<program, imports>>
  PROVE  Held(s, v, i)'
  <1>1. /\ ref \in Scope /\ ExportedFrom(v[1], i, ref) /\ ref = exports[v[1]][i]
        /\ exports'[v[1]][i] = ref
    BY DEF CopyFacts
  <1>2. RootOf(s)' = RootOf(s) /\ Parent(s)' = Parent(s)
    BY SameGraph
  <1>3. RootOf(ref) \in Closure({v[1]}) /\ RootOf(s) # RootOf(ref) /\ ref # None
    BY <1>1, NotItsOwn, ScopesAssumption DEF ExportedFrom, Plain
  <1>4. CASE local[s][i] = None /\ local'[s][i] = ref /\ (v[2] => exports'[RootOf(s)][i] = ref)
    BY <1>1, <1>2, <1>4 DEF Held
  <1>5. CASE UNCHANGED <<local, exports>> /\ Registered(s, i, v[2]) = ref /\ local[s][i] # None
    <2>1. local[s][i] = ref /\ ref # s
      BY <1>3, <1>5 DEF Registered
    <2>2. PICK w \in imports[s] : /\ exports[w[1]][i] = ref
                                  /\ w[2] => exports[RootOf(s)][i] = ref
      BY <1>3, <2>1 DEF SourceInv
    <2>3. RootOf(ref) \in Closure({w[1]})
      BY <1>3, <2>2, ImportFiles DEF VisibleInv, ExportedFrom
    <2>4. v[2] => v = w
      BY <1>3, <2>3 DEF Plain, PassedOver
    <2> QED
      BY <1>1, <1>2, <1>5, <2>1, <2>2, <2>4 DEF Held
  <1>6. CASE UNCHANGED <<local, exports>> /\ Registered(s, i, v[2]) = ref /\ local[s][i] = None
    <2>1. v[2] /\ exports[RootOf(s)][i] = ref
      BY <1>3, <1>6 DEF Registered
    <2>2. Parent(s) # None
      <3> SUFFICES ASSUME Parent(s) = None PROVE FALSE
        OBVIOUS
      <3>1. RootOf(s) = s
        BY Files
      <3>2. \/ RootOf(exports[s][i]) = s
            \/ exports[v[1]][i] # None => local[s][i] = exports[v[1]][i]
        BY <1>3, <1>6, <2>1, <3>1 DEF BlocksLast
      <3> QED
        BY <1>1, <1>3, <1>6, <2>1, <3>1, <3>2
    <2> QED
      BY <1>1, <1>2, <1>6, <2>1, <2>2 DEF Held
  <1> QED
    BY <1>4, <1>5, <1>6 DEF CopyFacts

LEMMA SettledInit == Init => SettledInv
  BY DEF Init, SettledInv

\* The steps that keep the types of the scopes keep what is held of them.
LEMMA HeldSame ==
  ASSUME UNCHANGED <<program, imports, local, exports>>
  PROVE  /\ \A s, v, i : Held(s, v, i)' <=> Held(s, v, i)
         /\ Plain' = Plain
  <1>1. \A s : RootOf(s)' = RootOf(s) /\ Parent(s)' = Parent(s)
    BY SameGraph
  <1>2. \A s, v, i : Held(s, v, i)' <=> Held(s, v, i)
    BY <1>1 DEF Held
  <1>3. Plain' = Plain
    BY SameGraph DEF Plain
  <1> QED
    BY <1>2, <1>3

\* The call on the top goes on, or begins to copy an import that has been resolved.
LEMMA ReplacedSettled ==
  ASSUME TypeOK, GraphInv, PathInv, SettledInv, stack # <<>>, NEW f \in Frame,
         stack' = Append(Below, f), f.scope = Top.scope,
         UNCHANGED <<program, imports, local, exports, visited>>,
         \A v \in Top.left : v \in f.left \/ (/\ v[1] \in visited /\ ~OnStack(v[1]) /\ f.from = v
                                              /\ f.idents = {i \in Ident : exports[v[1]][i] # None}),
         Top.from # None /\ Top.idents # {} => f.from = Top.from /\ f.idents = Top.idents
  PROVE  SettledInv'
  <1> DEFINE n == Len(stack)
  <1>1. /\ n \in Nat /\ n \in 1..n /\ Top = stack[n]
        /\ stack \in Seq(Frame) /\ Top.scope \in visited
    BY TopFile DEF TypeOK, CallsOK
  <1>2. /\ Len(stack') = n /\ stack'[n] = f
        /\ \A k \in 1..(n - 1) : stack'[k] = stack[k]
    BY <1>1, Replaced
  <1>3. \A k \in 1..n : k = n \/ k \in 1..(n - 1)
    BY <1>1
  <1>4. \A k \in 1..n : stack'[k].scope = stack[k].scope
    BY <1>1, <1>2, <1>3
  <1>5. \A s : OnStack(s)' <=> OnStack(s)
    BY <1>2, <1>4 DEF OnStack
  <1>6. ASSUME Plain, NEW s \in visited, NEW v \in imports[s]
        PROVE  Waits(s, v)' \/ Settled(s, v)'
    <2>1. v # None /\ (Waits(s, v) \/ Settled(s, v))
      BY <1>6, ImportFiles DEF SettledInv, TypeOK
    <2>2. CASE /\ s = Top.scope /\ v[1] \in visited /\ ~OnStack(v[1]) /\ f.from = v
               /\ f.idents = {i \in Ident : exports[v[1]][i] # None}
      <3>1. \A i \in Ident : exports[v[1]][i] = None \/ Copying(s, v, i)'
        BY <1>1, <1>2, <2>2 DEF Copying
      <3>2. \A i \in Ident : Held(s, v, i)' \/ Copying(s, v, i)'
        BY <3>1 DEF Held
      <3> QED
        BY <1>5, <2>2, <3>2 DEF Settled
    <2>3. ASSUME NEW k \in 1..n, stack[k].scope = s, v \in stack[k].left,
                 ~(k = n /\ v[1] \in visited /\ ~OnStack(v[1]) /\ f.from = v
                   /\ f.idents = {i \in Ident : exports[v[1]][i] # None})
          PROVE  Waits(s, v)'
      <3>1. v \in stack'[k].left
        BY <1>1, <1>2, <1>3, <2>3
      <3> QED
        BY <1>2, <1>4, <2>3, <3>1 DEF Waits
    <2>4. CASE Waits(s, v)
      BY <1>1, <2>2, <2>3, <2>4 DEF Waits
    <2>5. CASE Settled(s, v)
      <3>1. ASSUME NEW i \in Ident, Copying(s, v, i)
            PROVE  Copying(s, v, i)'
        <4>1. PICK k \in 1..n : stack[k].scope = s /\ stack[k].from = v /\ i \in stack[k].idents
          BY <3>1 DEF Copying
        <4>2. stack'[k].from = v /\ i \in stack'[k].idents
          BY <1>1, <1>2, <1>3, <2>1, <4>1
        <4> QED
          BY <1>2, <1>4, <4>1, <4>2 DEF Copying
      <3>2. \A i \in Ident : Held(s, v, i)' \/ Copying(s, v, i)'
        BY <2>5, <3>1, HeldSame DEF Settled
      <3> QED
        BY <1>5, <2>5, <3>2 DEF Settled
    <2> QED
      BY <2>1, <2>4, <2>5
  <1>7. Plain' = Plain
    BY HeldSame
  <1>8. Active
    BY DEF Active
  <1> HIDE DEF n
  <1> QED
    BY <1>6, <1>7 DEF SettledInv

\* A scope is called, that has all its imports before it.
LEMMA PushedSettled ==
  ASSUME TypeOK, GraphInv, SettledInv, stack # <<>>, NEW f \in Frame, NEW t \in Scope,
         PathInv, stack' = Append(Append(Below, f), Call(t)), f.scope = Top.scope,
         UNCHANGED <<program, imports, local, exports>>, visited' = visited \cup {t}, t \notin visited,
         f.left = Top.left, Top.from = None
  PROVE  SettledInv'
  <1> DEFINE n == Len(stack)
             m == n + 1
  <1>1. n \in Nat /\ n \in 1..n /\ Top = stack[n] /\ stack \in Seq(Frame)
    BY TopFile DEF TypeOK, CallsOK
  <1>2. /\ Len(stack') = m /\ stack'[n] = f /\ stack'[m] = Call(t)
        /\ \A k \in 1..(n - 1) : stack'[k] = stack[k]
    BY <1>1, CallTyped, Pushed
  <1>3. m \in 1..m /\ \A k \in 1..m : (k = m \/ k \in 1..n) /\ (k \in 1..n => k = n \/ k \in 1..(n - 1))
    BY <1>1
  <1>4. \A k \in 1..n : /\ k \in 1..m /\ stack'[k].scope = stack[k].scope
                        /\ stack'[k].left = stack[k].left
    BY <1>1, <1>2, <1>3
  <1>5. stack'[m].scope = t /\ stack'[m].left = imports[t]
    BY <1>2 DEF Call
  <1>6. \A s : OnStack(s)' => OnStack(s) \/ s = t
    BY <1>2, <1>3, <1>4, <1>5 DEF OnStack
  <1>7. ASSUME Plain, NEW s \in visited', NEW v \in imports[s]
        PROVE  Waits(s, v)' \/ Settled(s, v)'
    <2>1. CASE s = t
      BY <1>2, <1>3, <1>5, <2>1, <1>7 DEF Waits
    <2>2. CASE s \in visited
      <3>1. v # None /\ (Waits(s, v) \/ Settled(s, v))
        BY <1>7, <2>2, ImportFiles DEF SettledInv, TypeOK
      <3>2. CASE Waits(s, v)
        BY <1>2, <1>4, <3>2 DEF Waits
      <3>3. CASE Settled(s, v)
        <4>1. ASSUME NEW i \in Ident, Copying(s, v, i)
              PROVE  Copying(s, v, i)'
          <5>1. PICK k \in 1..n : stack[k].scope = s /\ stack[k].from = v /\ i \in stack[k].idents
            BY <4>1 DEF Copying
          <5>2. k # n
            BY <1>1, <3>1, <5>1
          <5>3. stack'[k] = stack[k] /\ k \in 1..m
            BY <1>2, <1>3, <1>4, <5>1, <5>2
          <5> QED
            BY <1>2, <5>1, <5>3 DEF Copying
        <4>2. \A i \in Ident : Held(s, v, i)' \/ Copying(s, v, i)'
          BY <3>3, <4>1, HeldSame DEF Settled
        <4>3. v[1] \in visited' /\ ~OnStack(v[1])'
          BY <1>6, <3>3 DEF Settled
        <4> QED
          BY <4>2, <4>3 DEF Settled
      <3> QED
        BY <3>1, <3>2, <3>3
    <2> QED
      BY <1>7, <2>1, <2>2
  <1>8. Plain' = Plain
    BY HeldSame
  <1> HIDE DEF n, m
  <1> QED
    BY <1>7, <1>8 DEF SettledInv

\* A call returns to the import that it was made for, or to the enclosing scope.
LEMMA ReturnedSettled ==
  ASSUME TypeOK, GraphInv, PathInv, CopyInv, SettledInv, Return
  PROVE  SettledInv'
  <1> DEFINE n == Len(stack)
             m == n - 1
             c == stack[m]
  <1>1. stack # <<>> /\ Done(Top) /\ UNCHANGED <<program, imports, local, exports, visited>>
    BY DEF Return, Done, scopeVars
  <1>2. n \in Nat /\ n \in 1..n /\ Top = stack[n] /\ stack \in Seq(Frame) /\ Top.scope \in visited
    BY <1>1, TopFile DEF TypeOK, CallsOK
  <1>3. Plain' = Plain /\ \A s, v, i : Held(s, v, i)' <=> Held(s, v, i)
    BY <1>1, HeldSame
  <1>4. ASSUME Plain, NEW s \in visited, NEW v \in imports[s]
        PROVE  v # None /\ (Waits(s, v) \/ Settled(s, v))
    BY <1>1, <1>4, ImportFiles DEF SettledInv, TypeOK
  <1>5. CASE Below = <<>>
    <2>1. stack' = <<>> /\ n = 1
      BY <1>1, <1>2, <1>5, StackTyped DEF Return
    <2>2. \A k \in 1..n : stack[k] = Top
      BY <1>2, <2>1
    <2>3. ASSUME Plain, NEW s \in visited, NEW v \in imports[s]
          PROVE  Settled(s, v)'
      <3>1. ~Waits(s, v) /\ \A i \in Ident : ~Copying(s, v, i)
        BY <1>1, <1>4, <2>2, <2>3 DEF Waits, Copying, Done
      <3>2. Settled(s, v)
        BY <1>4, <2>3, <3>1
      <3>3. Len(stack') = 0
        BY <2>1
      <3>4. ~OnStack(v[1])'
        BY <3>3 DEF OnStack
      <3> QED
        BY <1>1, <1>3, <3>1, <3>2, <3>4 DEF Settled
    <2> HIDE DEF n
    <2> QED
      BY <1>1, <1>3, <2>3 DEF SettledInv
  <1>6. CASE Below # <<>>
    <2>1. PICK f \in Frame : /\ f = Top' /\ f.scope = c.scope
                             /\ stack' = Append(SubSeq(Below, 1, Len(Below) - 1), f)
      BY <1>6, ReturnedTop
    <2>2. \/ c.from = None /\ f = c
          \/ /\ c.from # None /\ f.from = c.from /\ f.left = c.left \ {c.from}
             /\ f.idents = {i \in Ident : exports[c.from[1]][i] # None}
      BY <1>6, <2>1, ReturnedCalls
    <2>3. /\ Len(stack') = m /\ n > 1 /\ stack'[m] = f
          /\ \A k \in 1..(n - 2) : stack'[k] = stack[k]
      BY <1>1, <1>2, <1>6, <2>1, Popped
    <2>4. /\ m \in 1..m /\ m \in 1..n /\ m # n
          /\ \A k \in 1..m : k \in 1..n /\ k # n /\ (k = m \/ k \in 1..(n - 2))
          /\ \A k \in 1..n : k = n \/ k \in 1..m
      BY <1>2, <2>3
    <2>5. \A k \in 1..m : stack'[k].scope = stack[k].scope
      BY <2>1, <2>3, <2>4
    <2>6. \A s : OnStack(s)' => OnStack(s) /\ s # Top.scope
      <3>1. \A k \in 1..m : stack[k].scope # stack[n].scope
        BY <1>2, <2>4 DEF TypeOK, CallsOK
      <3> QED
        BY <1>2, <2>3, <2>4, <2>5, <3>1 DEF OnStack
    <2>7. ASSUME c.from # None
          PROVE  c.from \in c.left /\ c.from[1] = Top.scope
      <3>1. c.from \in c.left
        BY <2>4, <2>7 DEF CopyInv, Iterating
      <3>2. m + 1 = n /\ n - 1 = m /\ m \in 1..(n - 1)
        BY <1>2, <2>3, <2>4
      <3>3. Parent(stack[n].scope) = None
        BY <1>2, <2>7, <3>2 DEF PathInv
      <3>4. c.from[1] = stack[n].scope
        BY <1>2, <3>2, <3>3 DEF PathInv
      <3> QED
        BY <1>2, <3>1, <3>4
    <2>8. ASSUME Plain, NEW s \in visited, NEW v \in imports[s]
          PROVE  Waits(s, v)' \/ Settled(s, v)'
      <3>1. CASE s = c.scope /\ c.from = v
        <4>1. v[1] \in visited /\ ~OnStack(v[1])'
          BY <1>2, <1>4, <2>6, <2>7, <2>8, <3>1
        <4>2. f.from = v /\ f.idents = {i \in Ident : exports[v[1]][i] # None}
          BY <1>4, <2>2, <2>8, <3>1
        <4>3. \A i \in Ident : exports[v[1]][i] = None \/ Copying(s, v, i)'
          BY <2>1, <2>3, <2>4, <3>1, <4>2 DEF Copying
        <4>4. \A i \in Ident : Held(s, v, i)' \/ Copying(s, v, i)'
          BY <1>1, <4>3 DEF Held
        <4> QED
          BY <1>1, <4>1, <4>4 DEF Settled
      <3>2. CASE ~(s = c.scope /\ c.from = v) /\ Waits(s, v)
        <4>1. PICK k \in 1..n : stack[k].scope = s /\ v \in stack[k].left
          BY <3>2 DEF Waits
        <4>2. k # n
          BY <1>1, <1>2, <4>1 DEF Done
        <4>3. v \in stack'[k].left
          BY <2>2, <2>3, <2>4, <3>2, <4>1, <4>2
        <4>4. k \in 1..Len(stack') /\ stack'[k].scope = s
          BY <2>3, <2>4, <2>5, <4>1, <4>2
        <4> QED
          BY <4>3, <4>4 DEF Waits
      <3>3. CASE ~(s = c.scope /\ c.from = v) /\ Settled(s, v)
        <4>1. ASSUME NEW i \in Ident, Copying(s, v, i)
              PROVE  Copying(s, v, i)'
          <5>1. PICK k \in 1..n : stack[k].scope = s /\ stack[k].from = v /\ i \in stack[k].idents
            BY <4>1 DEF Copying
          <5>2. k # n /\ k # m
            BY <1>1, <1>2, <1>4, <2>8, <3>3, <5>1 DEF Done
          <5>3. stack'[k] = stack[k] /\ k \in 1..Len(stack')
            BY <2>3, <2>4, <5>2
          <5> QED
            BY <5>1, <5>3 DEF Copying
        <4>2. \A i \in Ident : Held(s, v, i)' \/ Copying(s, v, i)'
          BY <1>3, <3>3, <4>1 DEF Settled
        <4> QED
          BY <1>1, <2>6, <3>3, <4>2 DEF Settled
      <3> QED
        BY <1>4, <2>8, <3>1, <3>2, <3>3
    <2> HIDE DEF n, m, c
    <2> QED
      BY <1>1, <1>3, <2>8 DEF SettledInv
  <1> QED
    BY <1>5, <1>6

\* An export has been copied.
LEMMA CopiedSettled ==
  ASSUME TypeOK, GraphInv, PathInv, CopyInv, VisibleInv, SourceInv, BlocksLast, SettledInv,
         NEW j \in Ident, CopyOne(j), stack' # <<>>
  PROVE  SettledInv'
  <1> DEFINE n == Len(stack)
             f == [Top EXCEPT !.idents = @ \ {j}]
  <1>1. stack # <<>> /\ UNCHANGED <<program, imports, visited>> /\ stack' = Append(Below, f)
    BY DEF CopyOne, scopeVars
  <1>2. n \in Nat /\ n \in 1..n /\ Top = stack[n] /\ stack \in Seq(Frame)
    BY <1>1, TopFile DEF TypeOK, CallsOK
  <1>3. /\ f \in Frame /\ f.scope = Top.scope /\ f.left = Top.left /\ f.from = Top.from
        /\ f.idents = Top.idents \ {j}
    BY <1>1, AdvancedOK, Advanced DEF CallOK
  <1> HIDE DEF f
  <1>4. /\ Len(stack') = n /\ stack'[n] = f
        /\ \A k \in 1..(n - 1) : stack'[k] = stack[k]
    BY <1>1, <1>2, <1>3, Replaced
  <1>5. \A k \in 1..n : k = n \/ k \in 1..(n - 1)
    BY <1>2
  <1>6. \A k \in 1..n : /\ stack'[k].scope = stack[k].scope /\ stack'[k].left = stack[k].left
                        /\ stack'[k].from = stack[k].from
                        /\ \A i \in stack[k].idents : i \in stack'[k].idents \/ (k = n /\ i = j)
    BY <1>2, <1>3, <1>4, <1>5
  <1>7. \A s, v : (OnStack(s)' <=> OnStack(s)) /\ (Waits(s, v)' <=> Waits(s, v))
    BY <1>4, <1>6 DEF OnStack, Waits
  <1>8. ASSUME Plain, NEW s \in visited, NEW v \in imports[s]
        PROVE  Waits(s, v)' \/ Settled(s, v)'
    <2>1. s \in Scope /\ (Waits(s, v) \/ Settled(s, v))
      BY <1>1, <1>8 DEF SettledInv, TypeOK
    <2>2. CASE Waits(s, v)
      BY <1>7, <2>2
    <2>3. CASE Settled(s, v)
      <3>1. ASSUME NEW i \in Ident
            PROVE  Held(s, v, i)' \/ Copying(s, v, i)'
        <4>1. CASE Held(s, v, i)
          BY <1>8, <2>1, <2>3, <4>1, HeldStays DEF Settled, Plain
        <4>2. CASE Copying(s, v, i)
          <5>1. PICK k \in 1..n : stack[k].scope = s /\ stack[k].from = v /\ i \in stack[k].idents
            BY <4>2 DEF Copying
          <5>2. CASE k = n /\ i = j
            <6>1. CopyFacts(s, v, j, exports[v[1]][j])
              BY <1>2, <5>1, <5>2, CopyEffect
            <6>2. Held(s, v, j)'
              BY <1>1, <1>8, <2>1, <6>1, NewHeld
            <6> QED
              BY <5>2, <6>2
          <5>3. CASE i \in stack'[k].idents
            BY <1>4, <1>6, <5>1, <5>3 DEF Copying
          <5> QED
            BY <1>6, <5>1, <5>2, <5>3
        <4> QED
          BY <2>3, <4>1, <4>2 DEF Settled
      <3> QED
        BY <1>1, <1>7, <2>3, <3>1 DEF Settled
    <2> QED
      BY <2>1, <2>2, <2>3
  <1>9. Plain' = Plain
    BY <1>1, SameGraph DEF Plain
  <1> HIDE DEF n
  <1> QED
    BY <1>1, <1>8, <1>9 DEF SettledInv

LEMMA SettledNext ==
  /\ TypeOK /\ CopyInv /\ GraphInv /\ PathInv /\ VisibleInv /\ SourceInv
  /\ SettledInv /\ BlocksLast /\ [Next]_vars
  => SettledInv'
  <1> SUFFICES ASSUME TypeOK, CopyInv, GraphInv, PathInv, VisibleInv, SourceInv,
                      SettledInv, BlocksLast, [Next]_vars
               PROVE  SettledInv'
    OBVIOUS
  <1>1. ASSUME AddImport PROVE SettledInv'
    <2>1. stack' = <<>> /\ outcome' = "none"
      BY <1>1 DEF AddImport, GraphInv
    <2> QED
      BY <2>1 DEF SettledInv
  <1>2. ASSUME NEW r \in Scope, Visit(r) PROVE SettledInv'
    <2>1. Len(stack') = 1 /\ stack'[1] = Call(r) /\ visited' = {r} /\ imports' = imports
      BY <1>2 DEF Visit, scopeVars
    <2>2. 1 \in 1..1 /\ stack'[1].scope = r /\ stack'[1].left = imports'[r]
      BY <2>1 DEF Call
    <2>3. \A s \in visited' : \A v \in imports'[s] : Waits(s, v)'
      BY <2>1, <2>2 DEF Waits
    <2> QED
      BY <2>3 DEF SettledInv
  <1>3. ASSUME stack # <<>>
        PROVE  /\ CallOK(Top) /\ Top \in Frame /\ Top.scope \in Scope
               /\ \A v \in Top.left : v \in imports[Top.scope] /\ v \in Import /\ v[1] \in FileScope
    <2>1. CallOK(Top) /\ Top \in Frame /\ Top.scope \in Scope
      BY <1>3, AdvancedOK, TopFile
    <2> QED
      BY <2>1, ImportFiles DEF CallOK
  <1>4. ASSUME NEW v \in Import, NextImport(v), v[1] \in visited PROVE SettledInv'
    <2> DEFINE f == CopyFrom(v)
    <2>1. stack # <<>> /\ Top.from = None /\ v \in Top.left /\ stack' = Append(Below, f)
          /\ UNCHANGED <<program, imports, local, exports, visited>>
      BY <1>4 DEF NextImport, scopeVars
    <2>2. f \in Frame /\ f.scope = Top.scope /\ f.left = Top.left \ {v} /\ f.from = v
          /\ f.idents = {i \in Ident : exports[v[1]][i] # None}
      BY <1>3, <2>1, AdvancedOK, CopyFromAdvanced DEF CallOK
    <2> HIDE DEF f
    <2>3. CASE ~Cyclic
      <3>1. FileImports(RootOf(Top.scope), v[1]) /\ v[1] \in FileScope
        BY <1>3, <2>1 DEF FileImports
      <3>2. ~OnStack(v[1])
        BY <2>1, <2>3, <3>1, NotCalledAgain
      <3> QED
        BY <1>4, <2>1, <2>2, <3>2, ReplacedSettled
    <2>4. CASE Cyclic
      <3>1. ~Plain'
        BY <2>1, <2>4, HeldSame DEF Plain
      <3> QED
        BY <3>1 DEF SettledInv
    <2> QED
      BY <2>3, <2>4
  <1>5. ASSUME NEW v \in Import, NextImport(v), v[1] \notin visited PROVE SettledInv'
    <2> DEFINE f == [Top EXCEPT !.from = v]
    <2>1. /\ stack # <<>> /\ Top.from = None /\ v \in Top.left
          /\ stack' = Append(Append(Below, f), Call(v[1])) /\ visited' = visited \cup {v[1]}
          /\ UNCHANGED <<program, imports, local, exports>>
      BY <1>5 DEF NextImport, scopeVars
    <2>2. f \in Frame /\ f.scope = Top.scope /\ f.left = Top.left /\ v[1] \in Scope
      BY <1>3, <2>1, AdvancedOK, Advanced DEF CallOK, FileScope
    <2> HIDE DEF f
    <2> QED
      BY <1>5, <2>1, <2>2, PushedSettled
  <1>6. ASSUME NEW i \in Ident, CopyOne(i) PROVE SettledInv'
    <2>1. CASE stack' # <<>>
      BY <1>6, <2>1, CopiedSettled
    <2>2. CASE stack' = <<>>
      <3>1. outcome' # "resolved"
        <4> DEFINE f == [Top EXCEPT !.idents = @ \ {i}]
        <4>1. f \in Frame /\ stack # <<>> /\ stack \in Seq(Frame)
          BY <1>6, AdvancedOK DEF CallOK, CopyOne, TypeOK, CallsOK
        <4>2. stack' = Append(Below, f) \/ outcome' # "resolved"
          BY <1>6 DEF CopyOne
        <4> HIDE DEF f
        <4> QED
          BY <2>2, <4>1, <4>2, Replaced
      <3> QED
        BY <2>2, <3>1 DEF SettledInv
    <2> QED
      BY <2>1, <2>2
  <1>7. ASSUME Copied PROVE SettledInv'
    <2> DEFINE f == [Top EXCEPT !.from = None]
    <2>1. /\ stack # <<>> /\ Top.idents = {} /\ stack' = Append(Below, f)
          /\ UNCHANGED <<program, imports, local, exports, visited>>
      BY <1>7 DEF Copied, scopeVars
    <2>2. f \in Frame /\ f.scope = Top.scope /\ f.left = Top.left
      BY <2>1, AdvancedOK, Advanced DEF CallOK
    <2> HIDE DEF f
    <2> QED
      BY <2>1, <2>2, ReplacedSettled
  <1>8. ASSUME NEW t \in Scope, NextChild(t) PROVE SettledInv'
    <2> DEFINE f == [Top EXCEPT !.children = @ \ {t}]
    <2>1. /\ stack # <<>> /\ Top.from = None /\ UNCHANGED <<program, imports, local, exports>>
          /\ \/ stack' = Append(Below, f) /\ visited' = visited
             \/ /\ stack' = Append(Append(Below, f), Call(t)) /\ visited' = visited \cup {t}
                /\ t \notin visited
      BY <1>8 DEF NextChild, scopeVars
    <2>2. f \in Frame /\ f.scope = Top.scope /\ f.left = Top.left
      BY <2>1, AdvancedOK, Advanced DEF CallOK
    <2> HIDE DEF f
    <2> QED
      BY <2>1, <2>2, ReplacedSettled, PushedSettled
  <1>9. ASSUME UNCHANGED vars PROVE SettledInv'
    <2>1. UNCHANGED <<program, imports, local, exports, visited, stack, outcome>>
      BY <1>9 DEF vars
    <2>2. \A s, v, i : Copying(s, v, i)' <=> Copying(s, v, i)
      BY <2>1 DEF Copying
    <2>3. \A s, v : (OnStack(s)' <=> OnStack(s)) /\ (Waits(s, v)' <=> Waits(s, v))
      BY <2>1 DEF OnStack, Waits
    <2>4. \A s, v : Settled(s, v)' <=> Settled(s, v)
      BY <2>1, <2>2, <2>3, HeldSame DEF Settled
    <2>5. Plain' = Plain
      BY <2>1, HeldSame
    <2> QED
      BY <2>1, <2>3, <2>4, <2>5 DEF SettledInv
  <1> QED
    BY <1>1, <1>2, <1>4, <1>5, <1>6, <1>7, <1>8, <1>9, ReturnedSettled DEF Next, Finished

---------------------------------------------------------------------------
(* What files export without holding it *)

\* The exports of a file that exports all it should are never added to.
LEMMA CompleteFixed ==
  ASSUME TypeOK, GraphInv, VisibleInv', UNCHANGED <<program, imports>>,
         NEW c, NEW w, NEW j, NEW ref, CopyFacts(c, w, j, ref),
         NEW u \in FileScope, Complete(u)
  PROVE  Complete(u)' /\ \A i \in Ident : exports'[u][i] = exports[u][i]
  <1>1. u \in Scope /\ RootOf(u) = u
    BY Files DEF FileScope
  <1>2. /\ \A r, i, t : ExportedFrom(r, i, t)' <=> ExportedFrom(r, i, t)
        /\ \A r, i : ExportedMeanings(r, i)' = ExportedMeanings(r, i)
    BY SameGraph DEF ExportedFrom
  <1>3. ASSUME NEW i \in Ident
        PROVE  exports'[u][i] = exports[u][i]
    <2>1. CASE exports[u][i] = None /\ exports'[u][i] # None
      <3> DEFINE t == exports'[u][i]
      <3>1. ExportedFrom(u, i, t)
        BY <1>1, <1>2, <2>1 DEF VisibleInv
      <3>2. t \in ExportedMeanings(u, i) /\ t \in Scope
        BY <1>1, <3>1 DEF ExportedFrom, ExportedMeanings
      <3>3. exports[u][i] = t
        BY <3>2 DEF Complete
      <3> QED
        BY <3>3
    <2> QED
      BY <1>1, <2>1 DEF CopyFacts
  <1> QED
    BY <1>2, <1>3 DEF Complete

LEMMA BlocksLastInit == Init => BlocksLast
  <1> SUFFICES ASSUME Init, NEW r \in Scope, NEW i \in Ident, exports[r][i] # None
               PROVE  RootOf(exports[r][i]) = r
    BY DEF BlocksLast
  <1> DEFINE ts == {t \in Scope : RootOf(t) = r /\ i \in program.exported[t]}
  <1>1. exports[r][i] = IF ts = {} THEN None ELSE CHOOSE t \in ts : TRUE
    BY DEF Init, Exported
  <1>2. exports[r][i] \in ts
    BY <1>1
  <1> QED
    BY <1>2

LEMMA BlocksLastNext ==
  /\ TypeOK /\ CopyInv /\ GraphInv /\ PathInv /\ VisibleInv /\ VisibleInv' /\ DeclaredInv
  /\ VisitInv /\ SettledInv /\ BlocksLast /\ [Next]_vars
  => BlocksLast'
  <1> SUFFICES ASSUME TypeOK, CopyInv, GraphInv, PathInv, VisibleInv, VisibleInv', DeclaredInv,
                      VisitInv, SettledInv, BlocksLast, [Next]_vars
               PROVE  BlocksLast'
    OBVIOUS
  <1>1. ASSUME AddImport PROVE BlocksLast'
    <2>1. UNCHANGED <<program, exports>> /\ exports = [s \in Scope |-> Exported(s)]
      BY <1>1 DEF AddImport, GraphInv
    <2>2. ASSUME NEW r \in Scope, NEW i \in Ident, exports[r][i] # None
          PROVE  RootOf(exports[r][i]) = r
      <3> DEFINE ts == {t \in Scope : RootOf(t) = r /\ i \in program.exported[t]}
      <3>1. exports[r][i] = IF ts = {} THEN None ELSE CHOOSE t \in ts : TRUE
        BY <2>1 DEF Exported
      <3>2. exports[r][i] \in ts
        BY <2>2, <3>1
      <3> QED
        BY <3>2
    <2>3. \A s : RootOf(s)' = RootOf(s)
      BY <2>1 DEF RootOf
    <2> QED
      BY <2>1, <2>2, <2>3 DEF BlocksLast
  <1>2. ASSUME NEW j \in Ident, CopyOne(j), stack' # <<>> PROVE BlocksLast'
    <2>1. PICK c, w, ref : CopyFacts(c, w, j, ref) /\ c = Top.scope
      BY <1>2, CopyEffect
    <2>2. stack # <<>> /\ UNCHANGED <<program, imports>>
      BY <1>2 DEF CopyOne, scopeVars
    <2>3. /\ \A s : RootOf(s)' = RootOf(s) /\ Parent(s)' = Parent(s)
          /\ Plain' = Plain
      BY <2>2, SameGraph DEF Plain
    <2>4. ASSUME NEW r \in Scope, NEW i \in Ident, local'[r][i] = None
          PROVE  local[r][i] = None
      BY <2>1, <2>4 DEF CopyFacts
    <2>5. ASSUME NEW r \in Scope, NEW v \in imports[r], Complete(v[1]),
                 \A i \in Ident : exports[v[1]][i] # None => local[r][i] = exports[v[1]][i]
          PROVE  /\ Complete(v[1])'
                 /\ \A i \in Ident : exports'[v[1]][i] # None => local'[r][i] = exports'[v[1]][i]
      <3>1. v[1] \in FileScope
        BY ImportFiles
      <3>2. Complete(v[1])' /\ \A i \in Ident : exports'[v[1]][i] = exports[v[1]][i]
        BY <2>1, <2>2, <2>5, <3>1, CompleteFixed
      <3>3. \A i \in Ident : local[r][i] # None => local'[r][i] = local[r][i]
        BY <2>1 DEF CopyFacts
      <3> QED
        BY <2>5, <3>2, <3>3
    <2>6. ASSUME Plain, NEW r \in Scope, NEW i \in Ident,
                 Parent(r) = None, exports'[r][i] # None, local'[r][i] = None
          PROVE  \/ RootOf(exports'[r][i]) = r
                 \/ \A v \in imports[r] : Complete(v[1]) /\ \A k \in Ident :
                      exports[v[1]][k] # None => local[r][k] = exports[v[1]][k]
      <3>1. local[r][i] = None
        BY <2>4, <2>6
      <3>2. CASE exports'[r][i] = exports[r][i]
        BY <2>6, <3>1, <3>2 DEF BlocksLast
      <3>3. CASE r = RootOf(c) /\ i = j /\ exports'[r][i] # exports[r][i]
        <4>1. c # r
          BY <2>1, <2>6, <3>1, <3>3 DEF CopyFacts
        <4>2. Len(stack) \in 1..Len(stack) /\ Top = stack[Len(stack)]
          BY <2>2, TopFile
        <4>3. PICK m \in 1..Len(stack) : /\ stack[m].scope = r
                                         /\ stack[m].left = {} /\ stack[m].from = None
          BY <2>1, <3>3, <4>1, <4>2, FileOnStack
        <4>4. r \in visited /\ \A k \in 1..Len(stack) : stack[k].scope = r => k = m
          BY <4>3 DEF TypeOK, CallsOK
        <4>5. ASSUME NEW v \in imports[r]
              PROVE  Complete(v[1]) /\ \A k \in Ident :
                       exports[v[1]][k] # None => local[r][k] = exports[v[1]][k]
          <5>1. v # None /\ v[1] \in FileScope
            BY ImportFiles
          <5>2. ~Waits(r, v) /\ \A k \in Ident : ~Copying(r, v, k)
            BY <4>3, <4>4, <5>1 DEF Waits, Copying
          <5>3. Settled(r, v)
            BY <2>2, <2>6, <4>4, <5>2 DEF SettledInv
          <5>4. Complete(v[1])
            BY <2>2, <2>6, <5>1, <5>3, FinishedComplete DEF Settled, Active
          <5>5. \A k \in Ident : exports[v[1]][k] # None => local[r][k] = exports[v[1]][k]
            BY <2>6, <5>2, <5>3 DEF Settled, Held
          <5> QED
            BY <5>4, <5>5
        <4> QED
          BY <4>5
      <3> QED
        BY <2>1, <3>2, <3>3 DEF CopyFacts
    <2>7. ASSUME Plain, NEW r \in Scope, NEW i \in Ident,
                 Parent(r) = None, exports'[r][i] # None, local'[r][i] = None
          PROVE  \/ RootOf(exports'[r][i]) = r
                 \/ \A v \in imports[r] : Complete(v[1])' /\ \A k \in Ident :
                      exports'[v[1]][k] # None => local'[r][k] = exports'[v[1]][k]
      BY <2>5, <2>6, <2>7
    <2> QED
      BY <2>2, <2>3, <2>7 DEF BlocksLast
  <1>3. ASSUME UNCHANGED <<program, imports, local, exports>> PROVE BlocksLast'
    <2>1. /\ \A s : RootOf(s)' = RootOf(s) /\ Parent(s)' = Parent(s)
          /\ Plain' = Plain /\ \A r, i : ExportedMeanings(r, i)' = ExportedMeanings(r, i)
      BY <1>3, SameGraph DEF Plain
    <2>2. \A r : Complete(r)' <=> Complete(r)
      BY <1>3, <2>1 DEF Complete
    <2> QED
      BY <1>3, <2>1, <2>2 DEF BlocksLast
  <1>4. AddImport \/ UNCHANGED <<program, imports>>
    BY GraphFixed DEF scopeVars
  <1> QED
    BY <1>1, <1>2, <1>3, <1>4, TypesFixed

---------------------------------------------------------------------------
(* Conflicts *)

\* All that the resolution of imports keeps.
ScopesInv ==
  /\ TypeOK /\ CopyInv /\ GraphInv /\ PathInv /\ VisibleInv /\ DeclaredInv /\ SourceInv /\ VisitInv
  /\ SettledInv /\ BlocksLast

THEOREM ScopesInvariant == Spec => []ScopesInv
  <1>1. Init => ScopesInv
    BY TypeInit, CopyInit, GraphInit, PathInit, VisibleInit, DeclaredInit, SourceInit, VisitInit,
       SettledInit, BlocksLastInit DEF ScopesInv
  <1>2. ScopesInv /\ [Next]_vars => ScopesInv'
    <2> SUFFICES ASSUME ScopesInv, [Next]_vars PROVE ScopesInv'
      OBVIOUS
    <2>1. TypeOK' /\ GraphInv' /\ CopyInv'
      BY TypeNext, GraphNext, CopyNext DEF ScopesInv
    <2>2. VisibleInv' /\ PathInv'
      BY <2>1, VisibleNext, PathNext DEF ScopesInv
    <2>3. DeclaredInv' /\ SourceInv' /\ VisitInv'
      BY DeclaredNext, SourceNext, VisitNext DEF ScopesInv
    <2>4. SettledInv' /\ BlocksLast'
      BY <2>2, SettledNext, BlocksLastNext DEF ScopesInv
    <2> QED
      BY <2>1, <2>2, <2>3, <2>4 DEF ScopesInv
  <1> QED
    BY <1>1, <1>2, PTL DEF Spec

LEMMA ExportedMeaning ==
  ASSUME TypeOK, GraphInv, VisibleInv, NEW s \in Scope, NEW v \in imports[s],
         NEW i \in Ident, NEW t, ExportedFrom(v[1], i, t)
  PROVE  t \in Meanings(s, i) /\ (v[2] => t \in ExportedMeanings(s, i))
  <1> DEFINE F == {import[1] : import \in imports[s]}
  <1>1. v[1] \in F /\ F \in SUBSET FileScope /\ F \in SUBSET Scope
    BY ImportFiles DEF FileScope
  <1>2. t \in Scope /\ i \in program.exported[t] /\ i \in program.declares[t]
        /\ RootOf(t) \in Closure({v[1]})
    BY DEF ExportedFrom, VisibleInv
  <1>3. RootOf(t) \in Closure(F)
    BY <1>1, <1>2, ClosureContains, ClosureTransitive
  <1>4. t \in Meanings(s, i)
    BY <1>2, <1>3 DEF Meanings, Seen
  <1>5. ASSUME v[2]
        PROVE  RootOf(t) \in Closure({RootOf(s)})
    <2>1. v = <<v[1], TRUE>> /\ v[1] \in Scope
      BY <1>5, ImportFiles
    <2>2. v[1] \in ReExports(RootOf(s))
      BY <2>1 DEF ReExports
    <2>3. RootOf(s) \in Closure({RootOf(s)}) /\ {RootOf(s)} \in SUBSET Scope
      BY Files, ClosureContains
    <2>4. v[1] \in Closure({RootOf(s)})
      BY <2>2, <2>3, ClosureStep
    <2> QED
      BY <1>2, <2>3, <2>4, ClosureTransitive
  <1> QED
    BY <1>2, <1>4, <1>5 DEF ExportedMeanings

\* What a scope holds is among its meanings.
LEMMA LocalMeaning ==
  ASSUME TypeOK, GraphInv, VisibleInv, DeclaredInv,
         NEW s \in Scope, NEW i \in Ident, local[s][i] # None
  PROVE  local[s][i] \in Meanings(s, i)
  BY DEF VisibleInv, HeldFrom, DeclaredInv, Meanings

LEMMA MeaningsTyped ==
  \A s, i : Meanings(s, i) \in SUBSET Scope /\ ExportedMeanings(s, i) \in SUBSET Scope
  BY DEF Meanings, ExportedMeanings

\* A conflict is reported between two declarations that the scope, or its file, means.
LEMMA ConflictTold ==
  ASSUME TypeOK, CopyInv, GraphInv, PathInv, VisibleInv, DeclaredInv,
         NEW i \in Ident, CopyOne(i), Registered(Top.scope, i, Top.from[2]) # None,
         Registered(Top.scope, i, Top.from[2]) # exports[Top.from[1]][i]
  PROVE  \E s \in Scope :
           Cardinality(Meanings(s, i)) > 1 \/ Cardinality(ExportedMeanings(s, i)) > 1
  <1> DEFINE s == Top.scope
             v == Top.from
             ref == exports[v[1]][i]
  <1>1. stack # <<>> /\ v # None /\ i \in Top.idents
    BY DEF CopyOne
  <1>2. s \in Scope /\ v \in imports[s]
    BY <1>1, TopFile DEF CopyInv
  <1>3. ref # None
    BY <1>1 DEF CopyInv, TopOK
  <1>4. ExportedFrom(v[1], i, ref)
    BY <1>2, <1>3, ImportFiles DEF VisibleInv
  <1>5. ref \in Meanings(s, i) /\ (v[2] => ref \in ExportedMeanings(s, i))
    BY <1>2, <1>4, ExportedMeaning
  <1>6. Registered(s, i, v[2]) \notin {None, ref}
    OBVIOUS
  <1> HIDE DEF s, v, ref
  <1>7. /\ Meanings(s, i) \in SUBSET Scope /\ ExportedMeanings(s, i) \in SUBSET Scope
        /\ Cardinality(Meanings(s, i)) \in Nat /\ Cardinality(ExportedMeanings(s, i)) \in Nat
    BY MeaningsTyped, ScopesAssumption, FS_Subset, FS_CardinalityType
  <1>8. CASE local[s][i] # None
    <2>1. local[s][i] \in Meanings(s, i) /\ local[s][i] # ref
      BY <1>2, <1>6, <1>8, LocalMeaning DEF Registered
    <2>2. ~(Cardinality(Meanings(s, i)) <= 1)
      BY <1>5, <1>7, <2>1, AtMostOne
    <2> QED
      BY <1>2, <1>7, <2>2
  <1>9. CASE local[s][i] = None
    <2>1. v[2] /\ exports[RootOf(s)][i] \notin {None, ref}
      BY <1>6, <1>9 DEF Registered
    <2>2. exports[RootOf(s)][i] \in ExportedMeanings(s, i)
      BY <1>2, <2>1, Files DEF VisibleInv, ExportedFrom, ExportedMeanings
    <2>3. ~(Cardinality(ExportedMeanings(s, i)) <= 1)
      BY <1>5, <1>7, <2>1, <2>2, AtMostOne
    <2> QED
      BY <1>2, <1>7, <2>3
  <1> QED
    BY <1>8, <1>9

LEMMA RealNext ==
  /\ TypeOK /\ CopyInv /\ GraphInv /\ PathInv /\ VisibleInv /\ DeclaredInv
  /\ ConflictsReal /\ [Next]_vars
  => ConflictsReal'
  <1> SUFFICES ASSUME TypeOK, CopyInv, GraphInv, PathInv, VisibleInv, DeclaredInv,
                      ConflictsReal, [Next]_vars,
                      outcome' \in {"conflict", "conflict without token"}
               PROVE  ConflictsReal'
    BY DEF ConflictsReal
  <1>1. UNCHANGED <<program, imports>>
    <2>1. AddImport => outcome' = "none"
      BY DEF AddImport, GraphInv
    <2> QED
      BY <2>1, GraphFixed DEF scopeVars
  <1>2. \/ outcome' = outcome
        \/ \E i \in Ident : /\ CopyOne(i)
                            /\ Registered(Top.scope, i, Top.from[2])
                                 \notin {None, exports[Top.from[1]][i]}
    BY DEF Next, AddImport, Visit, NextImport, CopyOne, Copied, NextChild, Return, Finished, vars
  <1>3. \E s \in Scope, i \in Ident :
          Cardinality(Meanings(s, i)) > 1 \/ Cardinality(ExportedMeanings(s, i)) > 1
    <2>1. CASE outcome' = outcome
      BY <2>1 DEF ConflictsReal
    <2>2. ASSUME NEW i \in Ident, CopyOne(i),
                 Registered(Top.scope, i, Top.from[2]) \notin {None, exports[Top.from[1]][i]}
          PROVE  \E s \in Scope :
                   Cardinality(Meanings(s, i)) > 1 \/ Cardinality(ExportedMeanings(s, i)) > 1
      BY <2>2, ConflictTold
    <2> QED
      BY <1>2, <2>1, <2>2
  <1>4. \A s, i : Meanings(s, i)' = Meanings(s, i) /\ ExportedMeanings(s, i)' = ExportedMeanings(s, i)
    BY <1>1, SameGraph
  <1> QED
    BY <1>3, <1>4 DEF ConflictsReal

\* What a scope may mean by what it imports is exported by an import of it.
LEMMA Offered ==
  ASSUME TypeOK, GraphInv, NEW s \in Scope, NEW i \in Ident, NEW t \in Meanings(s, i), t # s
  PROVE  \E v \in imports[s] : t \in ExportedMeanings(v[1], i)
  <1> DEFINE F == {import[1] : import \in imports[s]}
  <1>1. F \in SUBSET FileScope
    BY ImportFiles
  <1>2. t \in Scope /\ RootOf(t) \in Closure(F) /\ i \in program.exported[t]
    BY DEF Meanings, Seen
  <1>3. PICK v \in imports[s] : RootOf(t) \in Closure({v[1]})
    BY <1>1, <1>2, ClosureUnion
  <1>4. RootOf(v[1]) = v[1]
    BY ImportFiles, Files DEF FileScope
  <1> QED
    BY <1>2, <1>3, <1>4 DEF ExportedMeanings

\* A visit that ends without a conflict has found no scope with two meanings.
LEMMA NoneMissed == ScopesInv => ConflictsFound
  <1> SUFFICES ASSUME ScopesInv, Reached, Plain, NEW s \in visited, NEW i \in Ident
               PROVE  Cardinality(Meanings(s, i)) <= 1
    BY DEF ConflictsFound, Plain
  <1> USE DEF ScopesInv
  <1>1. s \in Scope /\ Len(stack) = 0 /\ Active
    BY DEF Reached, Active, TypeOK
  <1>2. ASSUME NEW v \in imports[s]
        PROVE  Held(s, v, i) /\ Complete(v[1])
    <2>1. ~Waits(s, v) /\ ~Copying(s, v, i) /\ v[1] \in FileScope
      BY <1>1, ImportFiles DEF Waits, Copying
    <2>2. Settled(s, v)
      BY <1>1, <2>1 DEF SettledInv, Active
    <2> QED
      BY <1>1, <2>1, <2>2, FinishedComplete DEF Settled
  <1>3. ASSUME NEW t \in Meanings(s, i), local[s][i] # t
        PROVE  \E v \in imports[s] : /\ exports[v[1]][i] = t /\ local[s][i] = None
                                     /\ Parent(s) # None /\ v[2]
    <2>1. t \in Scope /\ t # None
      BY ScopesAssumption DEF Meanings
    <2>2. t # s
      BY <1>1, <1>3 DEF Meanings, DeclaredInv
    <2>3. PICK v \in imports[s] : t \in ExportedMeanings(v[1], i)
      BY <1>1, <2>2, Offered
    <2>4. exports[v[1]][i] = t
      BY <1>2, <2>3 DEF Complete
    <2> QED
      BY <1>2, <1>3, <2>1, <2>4 DEF Held
  <1>4. ASSUME NEW v \in imports[s], NEW w \in imports[s], Parent(s) # None, v[2]
        PROVE  v = w
    BY <1>1, <1>4 DEF Plain, PassedOver
  <1>5. ASSUME NEW x \in Meanings(s, i), NEW y \in Meanings(s, i)
        PROVE  x = y
    <2>1. x # None /\ y # None
      BY ScopesAssumption DEF Meanings
    <2> QED
      BY <1>3, <1>4, <2>1
  <1> QED
    BY <1>5, MeaningsTyped, AtMostOne

\* Whatever the files are and in whatever order they are resolved, a conflict is reported
\* only where a scope has two meanings for an identifier, and, unless files import each
\* other in a cycle or exports are passed over, wherever one has.
THEOREM ConflictsAreExact == Spec => []ConflictsExact
  <1>1. Init => ConflictsReal
    BY DEF Init, ConflictsReal
  <1>2. ScopesInv /\ ConflictsReal /\ [Next]_vars => ConflictsReal'
    BY RealNext DEF ScopesInv
  <1>3. ScopesInv /\ ConflictsReal => ConflictsExact
    BY NoneMissed DEF ConflictsExact
  <1> QED
    BY <1>1, <1>2, <1>3, ScopesInvariant, PTL DEF Spec

---------------------------------------------------------------------------
(* Lookups *)

\* What encloses a scope: itself, its parent, and what encloses that.
LEMMA EnclosingScopes ==
  ASSUME TypeOK, GraphInv, NEW s \in Scope
  PROVE  /\ s \in Enclosing(s)
         /\ \A t \in Enclosing(s) : t \in Scope /\ RootOf(t) = RootOf(s)
         /\ \A t \in Enclosing(s) : Parent(t) \in Enclosing(s) \cup {None}
         /\ \A S \in SUBSET Scope :
              s \in S /\ (\A t \in S : Parent(t) \in S \cup {None}) => Enclosing(s) \subseteq S
         /\ VisitInv /\ s \in visited => Enclosing(s) \subseteq visited
  <1> DEFINE file == {t \in Scope : RootOf(t) = RootOf(s)}
             closed == {S \in SUBSET file : s \in S /\ \A t \in S : Parent(t) \in S \cup {None}}
  <1>1. Enclosing(s) = {t \in file : \A S \in closed : t \in S}
    BY DEF Enclosing
  <1>2. \A t \in file : Parent(t) \in file \cup {None}
    BY Files
  <1>3. file \in closed
    BY <1>2
  <1>4. \A t \in Enclosing(s) : Parent(t) \in Enclosing(s) \cup {None}
    <2> SUFFICES ASSUME NEW t \in Enclosing(s), Parent(t) # None PROVE Parent(t) \in Enclosing(s)
      OBVIOUS
    <2>1. t \in file /\ \A S \in closed : t \in S
      BY <1>1
    <2>2. \A S \in closed : Parent(t) \in S
      BY <2>1
    <2> QED
      BY <1>1, <1>2, <2>1, <2>2
  <1>5. ASSUME NEW S \in SUBSET Scope, s \in S, \A t \in S : Parent(t) \in S \cup {None}
        PROVE  Enclosing(s) \subseteq S
    <2> DEFINE T == S \cap file
    <2>1. T \in closed
      BY <1>2, <1>5
    <2> QED
      BY <1>1, <2>1
  <1>6. s \in Enclosing(s) /\ \A t \in Enclosing(s) : t \in Scope /\ RootOf(t) = RootOf(s)
    BY <1>1
  <1>7. ASSUME VisitInv, s \in visited
        PROVE  Enclosing(s) \subseteq visited
    <2>1. visited \in SUBSET Scope /\ \A t \in visited : Parent(t) \in visited \cup {None}
      BY <1>7 DEF VisitInv, TypeOK
    <2> QED
      BY <1>5, <1>7, <2>1
  <1> QED
    BY <1>4, <1>5, <1>6, <1>7

LEMMA EnclosingLeast ==
  ASSUME TypeOK, GraphInv, NEW s \in Scope,
         NEW S \in SUBSET Scope, s \in S, \A t \in S : Parent(t) \in S \cup {None}
  PROVE  Enclosing(s) \subseteq S
  BY EnclosingScopes

\* Of some of the scopes that enclose one there is a nearest.
LEMMA NearestOf ==
  ASSUME TypeOK, GraphInv, NEW s \in Scope, NEW S \in SUBSET Enclosing(s), S # {}
  PROVE  Nearest(S) \in S
  <1> DEFINE T == {t \in Scope : S \subseteq Enclosing(t)}
  <1>1. s \in T /\ T \in SUBSET Scope
    OBVIOUS
  <1>2. PICK t \in T : Parent(t) \notin T
    BY <1>1 DEF GraphInv, WellFormed, Nested, Parent
  <1>3. t \in S
    <2> SUFFICES ASSUME t \notin S PROVE FALSE
      OBVIOUS
    <2> DEFINE U == {t} \cup Enclosing(Parent(t))
    <2>1. CASE Parent(t) = None
      <3>1. /\ {t} \in SUBSET Scope /\ t \in {t} /\ t \in Scope
            /\ \A u \in {t} : Parent(u) \in {t} \cup {None}
        BY <1>2, <2>1
      <3>2. Enclosing(t) \subseteq {t}
        BY <3>1, EnclosingLeast
      <3> QED
        BY <1>2, <3>2
    <2>2. CASE Parent(t) # None
      <3>1. Parent(t) \in Scope
        BY <1>2, <2>2, Files
      <3>2. U \in SUBSET Scope /\ \A u \in U : Parent(u) \in U \cup {None}
        BY <1>2, <3>1, EnclosingScopes
      <3>3. Enclosing(t) \subseteq U
        BY <1>2, <3>2, EnclosingLeast
      <3>4. S \subseteq Enclosing(Parent(t))
        BY <1>2, <3>3
      <3> QED
        BY <1>2, <3>1, <3>4
    <2> QED
      BY <2>1, <2>2
  <1> QED
    BY <1>2, <1>3 DEF Nearest

\* The files that a lookup comes to by way of imports are those that it reaches from the
\* imports of the scope, until a file exports the identifier.
LEMMA WalkClosed ==
  ASSUME TypeOK, NEW s \in Scope, NEW i \in Ident
  PROVE  /\ Walk(s, i) \in SUBSET Scope
         /\ \A v \in imports[s] : v[1] # s => v[1] \in Walk(s, i)
         /\ \A t \in Walk(s, i), u \in Scope \ {s} :
              exports[t][i] = None /\ <<u, TRUE>> \in imports[t] => u \in Walk(s, i)
         /\ \A W \in SUBSET Scope :
              /\ \A v \in imports[s] : v[1] # s => v[1] \in W
              /\ \A t \in W, u \in Scope \ {s} : <<u, TRUE>> \in imports[t] => u \in W
              => Walk(s, i) \subseteq W
  <1> DEFINE first == {import[1] : import \in imports[s]} \ {s}
             through == [t \in Scope |-> IF exports[t][i] # None THEN {}
                                        ELSE {u \in Scope \ {s} : <<u, TRUE>> \in imports[t]}]
             closed == {W \in SUBSET Scope : first \subseteq W /\ \A t \in W : through[t] \subseteq W}
  <1>1. Walk(s, i) = {t \in Scope : \A W \in closed : t \in W}
    BY DEF Walk
  <1>2. first \subseteq Scope
    <2>1. imports[s] \subseteq Import /\ \A import \in Import : import[1] \in Scope
      BY DEF TypeOK, Import
    <2> QED
      BY <2>1
  <1>3. first \subseteq Walk(s, i) /\ Walk(s, i) \in SUBSET Scope
    BY <1>1, <1>2
  <1>4. ASSUME NEW t \in Walk(s, i), NEW u \in Scope \ {s}, exports[t][i] = None, <<u, TRUE>> \in imports[t]
        PROVE  u \in Walk(s, i)
    <2>1. t \in Scope /\ u \in through[t]
      BY <1>1, <1>4
    <2> HIDE DEF through, first
    <2> QED
      BY <1>1, <2>1
  <1>5. ASSUME NEW W \in SUBSET Scope,
               \A v \in imports[s] : v[1] # s => v[1] \in W,
               \A t \in W, u \in Scope \ {s} : <<u, TRUE>> \in imports[t] => u \in W
        PROVE  Walk(s, i) \subseteq W
    <2>1. first \subseteq W
      BY <1>5
    <2>2. \A t \in W : through[t] \subseteq W
      BY <1>5
    <2> HIDE DEF through, first
    <2> QED
      BY <1>1, <2>1, <2>2
  <1> QED
    BY <1>3, <1>4, <1>5

LEMMA SeenFiles ==
  ASSUME TypeOK, GraphInv, NEW s \in Scope
  PROVE  /\ Seen(s) \in SUBSET FileScope
         /\ \A v \in imports[s] : v[1] \in Seen(s)
         /\ \A t \in Seen(s), u \in Scope : u \in ReExports(t) => u \in Seen(s)
         /\ \A S \in SUBSET FileScope :
              /\ \A v \in imports[s] : v[1] \in S
              /\ \A t \in S : ReExports(t) \subseteq S
              => Seen(s) \subseteq S
  <1> DEFINE F == {import[1] : import \in imports[s]}
  <1>1. F \in SUBSET FileScope /\ F \in SUBSET Scope
    BY ImportFiles DEF FileScope
  <1>2. Seen(s) = Closure(F)
    BY DEF Seen
  <1>3. F \subseteq Closure(F)
    BY <1>1, ClosureContains
  <1>4. ASSUME NEW S \in SUBSET FileScope, F \subseteq S, \A t \in S : ReExports(t) \subseteq S
        PROVE  Closure(F) \subseteq S
    BY <1>4 DEF Closure, FileScope
  <1> QED
    BY <1>1, <1>2, <1>3, <1>4, ClosureFiles, ClosureStep

\* What a lookup finds by imports the scope may mean.
LEMMA FoundMeant ==
  ASSUME TypeOK, GraphInv, VisibleInv, NEW s \in Scope, NEW i \in Ident
  PROVE  FoundByImport(s, i) \subseteq Meanings(s, i)
  <1>1. Walk(s, i) \subseteq Seen(s)
    <2>1. Seen(s) \in SUBSET Scope
      BY SeenFiles DEF FileScope
    <2>2. ASSUME NEW t \in Seen(s), NEW u \in Scope, <<u, TRUE>> \in imports[t]
          PROVE  u \in Seen(s)
      <3>1. t \in Scope /\ RootOf(t) = t
        BY SeenFiles, Files DEF FileScope
      <3>2. u \in ReExports(t)
        BY <2>2, <3>1 DEF ReExports
      <3> QED
        BY <3>2, SeenFiles
    <2> QED
      BY <2>1, <2>2, SeenFiles, WalkClosed
  <1>2. ASSUME NEW t \in Walk(s, i), exports[t][i] # None
        PROVE  exports[t][i] \in Meanings(s, i)
    <2> DEFINE x == exports[t][i]
               F == {import[1] : import \in imports[s]}
    <2>1. t \in Scope /\ t \in Closure(F) /\ F \in SUBSET Scope
      BY <1>1, SeenFiles, ImportFiles DEF FileScope, Seen
    <2>2. ExportedFrom(t, i, x)
      BY <1>2, <2>1 DEF VisibleInv
    <2>3. x \in Scope /\ i \in program.exported[x] /\ i \in program.declares[x]
          /\ RootOf(x) \in Closure({t})
      BY <2>2 DEF ExportedFrom, VisibleInv
    <2>4. RootOf(x) \in Seen(s)
      BY <2>1, <2>3, ClosureTransitive DEF Seen
    <2> QED
      BY <2>3, <2>4 DEF Meanings
  <1> QED
    BY <1>2 DEF FoundByImport

\* And it finds something, if another file exports the identifier and no export is dropped.
LEMMA FoundIfMeant ==
  ASSUME TypeOK, GraphInv, DeclaredInv, ~Dropped,
         NEW s \in Scope, NEW i \in Ident, NEW t \in Meanings(s, i), RootOf(t) # RootOf(s)
  PROVE  FoundByImport(s, i) # {}
  <1> SUFFICES ASSUME FoundByImport(s, i) = {} PROVE FALSE
    OBVIOUS
  <1> DEFINE S == {u \in FileScope : u \in Walk(s, i) \/ u = s}
  <1>1. \A u \in Walk(s, i) : exports[u][i] = None
    BY DEF FoundByImport
  <1>2. t \in Scope /\ RootOf(t) \in Seen(s) /\ i \in program.exported[t]
    BY DEF Meanings
  <1>3. exports[RootOf(t)][i] = t /\ t # None
    BY <1>2, ScopesAssumption DEF DeclaredInv
  <1>4. \A v \in imports[s] : v[1] \in S
    BY ImportFiles, WalkClosed
  <1>5. ASSUME NEW u \in S, NEW w \in ReExports(u)
        PROVE  w \in S
    <2>1. u \in Scope /\ w \in Scope /\ RootOf(u) = u
      BY Files DEF ReExports, FileScope
    <2>2. <<w, TRUE>> \in imports[u]
      <3>1. PICK p \in Scope : <<w, TRUE>> \in imports[p] /\ RootOf(p) = u
        BY DEF ReExports
      <3> QED
        BY <2>1, <3>1 DEF Dropped
    <2>3. w \in FileScope
      <3>1. <<w, TRUE>>[1] \in FileScope
        BY <2>1, <2>2, ImportFiles
      <3> QED
        BY <3>1
    <2>4. CASE u = s
      <3>1. <<w, TRUE>>[1] # s => <<w, TRUE>>[1] \in Walk(s, i)
        BY <2>2, <2>4, WalkClosed
      <3> QED
        BY <2>3, <3>1
    <2>5. CASE u \in Walk(s, i)
      BY <1>1, <2>1, <2>2, <2>3, <2>5, WalkClosed
    <2> QED
      BY <2>4, <2>5
  <1>6. S \in SUBSET FileScope
    OBVIOUS
  <1> HIDE DEF S
  <1>7. RootOf(t) \in S
    BY <1>2, <1>4, <1>5, <1>6, SeenFiles
  <1>8. RootOf(t) # s
    BY <1>2, Files DEF S, FileScope
  <1> QED
    BY <1>1, <1>3, <1>7, <1>8 DEF S

\* A lookup returns what the scope, or one that encloses it, holds or finds.
LEMMA LookupCases ==
  ASSUME TypeOK, GraphInv, NEW s \in Scope, NEW i \in Ident
  PROVE  \/ \E t \in Enclosing(s) : local[t][i] # None /\ Lookup(s, i) = {local[t][i]}
         \/ \E t \in Enclosing(s) : /\ FoundByImport(t, i) # {}
                                    /\ Lookup(s, i) = FoundByImport(t, i)
         \/ /\ Lookup(s, i) = {}
            /\ \A t \in Enclosing(s) : local[t][i] = None /\ FoundByImport(t, i) = {}
  <1> DEFINE holding == {t \in Enclosing(s) : local[t][i] # None}
             finding == {t \in Enclosing(s) : FoundByImport(t, i) # {}}
  <1>1. Lookup(s, i) = IF holding # {} THEN {local[Nearest(holding)][i]}
                       ELSE IF finding # {} THEN FoundByImport(Nearest(finding), i)
                       ELSE {}
    BY DEF Lookup
  <1>2. /\ holding # {} => Nearest(holding) \in holding
        /\ finding # {} => Nearest(finding) \in finding
    BY NearestOf
  <1> QED
    BY <1>1, <1>2

LEMMA VisibleFound == ScopesInv => LookupFindsVisible
  <1> SUFFICES ASSUME ScopesInv, Reached, NEW s \in visited, NEW i \in Ident
               PROVE  LET meant == UNION {Meanings(t, i) : t \in Enclosing(s)}
                      IN /\ Lookup(s, i) \subseteq meant
                         /\ ~Dropped /\ (\E t \in meant : RootOf(t) # RootOf(s) \/ t \in Enclosing(s))
                              => Lookup(s, i) # {}
    BY DEF LookupFindsVisible
  <1> USE DEF ScopesInv
  <1> DEFINE meant == UNION {Meanings(t, i) : t \in Enclosing(s)}
  <1>1. s \in Scope
    BY DEF TypeOK
  <1>2. \A q \in Enclosing(s) : q \in Scope /\ RootOf(q) = RootOf(s)
    BY <1>1, EnclosingScopes
  <1>3. Lookup(s, i) \subseteq meant
    <2>1. \A q \in Enclosing(s) : local[q][i] # None => local[q][i] \in Meanings(q, i)
      BY <1>2, LocalMeaning
    <2>2. \A q \in Enclosing(s) : FoundByImport(q, i) \subseteq Meanings(q, i)
      BY <1>2, FoundMeant
    <2> QED
      BY <1>1, <2>1, <2>2, LookupCases
  <1>4. ASSUME ~Dropped, NEW q \in Enclosing(s), NEW t \in Meanings(q, i),
               RootOf(t) # RootOf(s) \/ t \in Enclosing(s)
        PROVE  Lookup(s, i) # {}
    <2>1. t \in Scope /\ t # None /\ i \in program.declares[t]
      BY ScopesAssumption DEF Meanings
    <2>2. CASE t \in Enclosing(s)
      <3>1. local[t][i] = t
        BY <2>1 DEF DeclaredInv
      <3> QED
        BY <1>1, <2>1, <2>2, <3>1, LookupCases
    <2>3. CASE RootOf(t) # RootOf(s)
      <3>1. FoundByImport(q, i) # {}
        BY <1>2, <1>4, <2>3, FoundIfMeant
      <3> QED
        BY <1>1, <3>1, LookupCases
    <2> QED
      BY <1>4, <2>2, <2>3
  <1> QED
    BY <1>3, <1>4

LEMMA OneFound == ScopesInv => LookupDeterministic
  <1> SUFFICES ASSUME ScopesInv, Reached, ~Cyclic, ~PassedOver, NEW s \in visited, NEW i \in Ident
               PROVE  Cardinality(Lookup(s, i)) <= 1
    BY DEF LookupDeterministic
  <1> USE DEF ScopesInv
  <1>1. s \in Scope
    BY DEF TypeOK
  <1>2. \A q \in Enclosing(s) : q \in Scope /\ q \in visited
    BY <1>1, EnclosingScopes
  <1>3. ASSUME NEW q \in Scope, q \in visited
        PROVE  /\ FoundByImport(q, i) \in SUBSET Scope
               /\ \A x, y \in FoundByImport(q, i) : x = y
    <2>1. Cardinality(Meanings(q, i)) <= 1
      BY <1>3, NoneMissed DEF ConflictsFound
    <2>2. FoundByImport(q, i) \subseteq Meanings(q, i) /\ Meanings(q, i) \in SUBSET Scope
      BY FoundMeant, MeaningsTyped
    <2> QED
      BY <2>1, <2>2, AtMostOne
  <1>4. \A q \in Enclosing(s) : local[q][i] # None => local[q][i] \in Scope
    <2>1. \A q \in Scope : local[q][i] \in Scope \cup {None}
      BY DEF TypeOK, Ref
    <2> QED
      BY <1>2, <2>1
  <1>5. Lookup(s, i) \in SUBSET Scope /\ \A x, y \in Lookup(s, i) : x = y
    BY <1>1, <1>2, <1>3, <1>4, LookupCases
  <1> QED
    BY <1>5, AtMostOne

\* Whatever the files are and in whatever order they are resolved, a lookup finds only what
\* its scopes mean, finds something unless an export was dropped, and finds one thing in
\* every order of the hash tables, under the conditions for which no duplicate is missed.
THEOREM LookupsAreCorrect == Spec => []LookupCorrect
  <1>1. ScopesInv => LookupCorrect
    BY VisibleFound, OneFound DEF LookupCorrect
  <1> QED
    BY <1>1, ScopesInvariant, PTL
=============================================================================
