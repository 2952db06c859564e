-------------------------- MODULE TypeScopes_proofs --------------------------
(***************************************************************************)
(* Proofs about the resolution of type imports, for every import graph.    *)
(***************************************************************************)
EXTENDS TypeScopesProperties, SequenceTheorems, TLAPS

---------------------------------------------------------------------------
(* The stack of calls *)

\* The parts of a stack that is not empty.
LEMMA StackTyped ==
  ASSUME stack \in Seq(Frame), stack # <<>>
  PROVE  /\ Len(stack) \in Nat /\ Len(stack) > 0
         /\ Top \in Frame /\ Below \in Seq(Frame)
         /\ Len(Below) = Len(stack) - 1
         /\ \A k \in 1..Len(Below) : Below[k] = stack[k]
  <1>1. Len(stack) \in Nat /\ Len(stack) > 0
    OBVIOUS
  <1>2. Top \in Frame
    BY <1>1 DEF Top
  <1>3. Below = [k \in 1..(Len(stack) - 1) |-> stack[k]]
    BY <1>1 DEF Below
  <1> HIDE DEF Frame
  <1>4. Below \in Seq(Frame) /\ Len(Below) = Len(stack) - 1
    BY <1>1, <1>3
  <1> QED
    BY <1>1, <1>2, <1>3, <1>4

\* The top of the stack is replaced.
LEMMA Replaced ==
  ASSUME stack \in Seq(Frame), stack # <<>>, NEW f \in Frame, stack' = Append(Below, f)
  PROVE  /\ stack' \in Seq(Frame) /\ stack' # <<>> /\ Len(stack') = Len(stack) /\ Top' = f
         /\ \A k \in 1..(Len(stack) - 1) : stack'[k] = stack[k]
         /\ stack'[Len(stack)] = f
  <1> HIDE DEF Frame
  <1>1. /\ Len(stack) \in Nat /\ Len(stack) > 0
        /\ Below \in Seq(Frame) /\ Len(Below) = Len(stack) - 1
        /\ \A k \in 1..Len(Below) : Below[k] = stack[k]
    BY StackTyped
  <1>2. /\ stack' \in Seq(Frame) /\ Len(stack') = Len(stack) /\ stack' # <<>>
        /\ \A k \in 1..(Len(stack) - 1) : stack'[k] = stack[k]
        /\ stack'[Len(stack)] = f
    BY <1>1
  <1>3. Top' = stack'[Len(stack')]
    BY DEF Top
  <1> QED
    BY <1>2, <1>3

\* The top of the stack is replaced, and another call put on it.
LEMMA Pushed ==
  ASSUME stack \in Seq(Frame), stack # <<>>, NEW f \in Frame, NEW g \in Frame,
         stack' = Append(Append(Below, f), g)
  PROVE  /\ stack' \in Seq(Frame) /\ stack' # <<>> /\ Len(stack') = Len(stack) + 1 /\ Top' = g
         /\ \A k \in 1..(Len(stack) - 1) : stack'[k] = stack[k]
         /\ stack'[Len(stack)] = f /\ stack'[Len(stack) + 1] = g
  <1> HIDE DEF Frame
  <1>1. /\ Len(stack) \in Nat /\ Len(stack) > 0
        /\ Below \in Seq(Frame) /\ Len(Below) = Len(stack) - 1
        /\ \A k \in 1..Len(Below) : Below[k] = stack[k]
    BY StackTyped
  <1> DEFINE s == Append(Below, f)
  <1>2. /\ s \in Seq(Frame) /\ Len(s) = Len(stack)
        /\ \A k \in 1..(Len(stack) - 1) : s[k] = stack[k]
        /\ s[Len(stack)] = f
    BY <1>1
  <1>3. stack' = Append(s, g)
    OBVIOUS
  <1> HIDE DEF s
  <1>4. /\ stack' \in Seq(Frame) /\ Len(stack') = Len(stack) + 1 /\ stack' # <<>>
        /\ \A k \in 1..Len(stack) : stack'[k] = s[k]
        /\ stack'[Len(stack) + 1] = g
    BY <1>1, <1>2, <1>3
  <1>5. Top' = stack'[Len(stack')]
    BY DEF Top
  <1> QED
    BY <1>1, <1>2, <1>4, <1>5

\* The call returns to the one below, which is replaced.
LEMMA Popped ==
  ASSUME stack \in Seq(Frame), stack # <<>>, Below # <<>>, NEW f \in Frame,
         stack' = Append(SubSeq(Below, 1, Len(Below) - 1), f)
  PROVE  /\ stack' \in Seq(Frame) /\ stack' # <<>> /\ Len(stack') = Len(stack) - 1 /\ Top' = f
         /\ \A k \in 1..(Len(stack) - 2) : stack'[k] = stack[k]
         /\ stack'[Len(stack) - 1] = f
         /\ Below[Len(Below)] = stack[Len(stack) - 1] /\ Len(stack) > 1
  <1> HIDE DEF Frame
  <1>1. /\ Len(stack) \in Nat /\ Len(stack) > 0
        /\ Below \in Seq(Frame) /\ Len(Below) = Len(stack) - 1
        /\ \A k \in 1..Len(Below) : Below[k] = stack[k]
    BY StackTyped
  <1>2. Len(Below) > 0
    BY <1>1
  <1> DEFINE s == SubSeq(Below, 1, Len(Below) - 1)
  <1>3. s = [k \in 1..(Len(Below) - 1) |-> Below[k]]
    BY <1>1, <1>2
  <1>4. /\ s \in Seq(Frame) /\ Len(s) = Len(stack) - 2
        /\ \A k \in 1..(Len(stack) - 2) : s[k] = stack[k]
    BY <1>1, <1>2, <1>3
  <1>5. stack' = Append(s, f)
    OBVIOUS
  <1> HIDE DEF s
  <1>6. /\ stack' \in Seq(Frame) /\ Len(stack') = Len(stack) - 1 /\ stack' # <<>>
        /\ \A k \in 1..(Len(stack) - 2) : stack'[k] = stack[k]
        /\ stack'[Len(stack) - 1] = f
    BY <1>1, <1>2, <1>4, <1>5
  <1>7. Top' = stack'[Len(stack')]
    BY DEF Top
  <1> QED
    BY <1>1, <1>2, <1>6, <1>7

---------------------------------------------------------------------------
(* Types *)

\* What a call of a scope that is not on the stack adds to the type invariant.
CallOK(call) ==
  call \in Frame /\ call.scope \in visited /\ call.left \subseteq imports[call.scope]

\* A stack of distinct calls stays one if its top is advanced.
LEMMA ReplacedCalls ==
  ASSUME CallsOK, stack # <<>>, NEW f, stack' = Append(Below, f),
         CallOK(f), f.scope = Top.scope,
         imports' = imports, visited \subseteq visited'
  PROVE  CallsOK' /\ stack' # <<>> /\ Top' = f
  <1>1. stack \in Seq(Frame) /\ f \in Frame
    BY DEF CallsOK, CallOK
  <1>2. Len(stack) \in Nat /\ Len(stack) > 0
    BY <1>1, StackTyped
  <1>3. /\ stack' \in Seq(Frame) /\ Len(stack') = Len(stack) /\ stack' # <<>> /\ Top' = f
        /\ \A k \in 1..(Len(stack) - 1) : stack'[k] = stack[k]
        /\ stack'[Len(stack)] = f
    BY <1>1, Replaced
  <1>4. \A k \in 1..Len(stack) : stack'[k] = stack[k] \/ (k = Len(stack) /\ stack'[k] = f)
    BY <1>2, <1>3
  <1>5. \A k \in 1..Len(stack) : stack'[k].scope = stack[k].scope
    BY <1>4 DEF Top
  <1>6. ASSUME NEW k \in 1..Len(stack)
        PROVE  stack'[k].scope \in visited' /\ stack'[k].left \subseteq imports'[stack'[k].scope]
    BY <1>4 DEF CallsOK, CallOK
  <1>7. \A k, l \in 1..Len(stack) : stack'[k].scope = stack'[l].scope => k = l
    BY <1>5 DEF CallsOK
  <1> QED
    BY <1>3, <1>6, <1>7 DEF CallsOK

\* And if a call of a scope that has not been visited is put on it.
LEMMA PushedCalls ==
  ASSUME CallsOK, stack # <<>>, NEW f, NEW g,
         stack' = Append(Append(Below, f), g),
         CallOK(f), f.scope = Top.scope,
         g \in Frame, g.scope \notin visited, g.left = imports[g.scope],
         visited' = visited \cup {g.scope}, imports' = imports
  PROVE  CallsOK' /\ stack' # <<>> /\ Top' = g
  <1>1. stack \in Seq(Frame) /\ f \in Frame
    BY DEF CallsOK, CallOK
  <1>2. Len(stack) \in Nat /\ Len(stack) > 0
    BY <1>1, StackTyped
  <1> DEFINE n == Len(stack) + 1
  <1>3. /\ stack' \in Seq(Frame) /\ Len(stack') = n /\ stack' # <<>> /\ Top' = g
        /\ \A k \in 1..(Len(stack) - 1) : stack'[k] = stack[k]
        /\ stack'[Len(stack)] = f /\ stack'[n] = g
    BY <1>1, Pushed
  <1>4. \A k \in 1..n : k = n \/ k \in 1..Len(stack)
    BY <1>2
  <1>5. \A k \in 1..Len(stack) : stack'[k] = stack[k] \/ (k = Len(stack) /\ stack'[k] = f)
    BY <1>2, <1>3
  <1>6. \A k \in 1..Len(stack) : stack'[k].scope = stack[k].scope
    BY <1>5 DEF Top
  <1>7. \A k \in 1..Len(stack) : stack'[k].scope \in visited
    BY <1>6 DEF CallsOK
  <1>8. ASSUME NEW k \in 1..n
        PROVE  stack'[k].scope \in visited' /\ stack'[k].left \subseteq imports'[stack'[k].scope]
    <2>1. CASE k = n
      BY <2>1, <1>3
    <2>2. CASE k \in 1..Len(stack)
      BY <2>2, <1>5 DEF CallsOK, CallOK
    <2> QED
      BY <2>1, <2>2, <1>4
  <1>9. ASSUME NEW k \in 1..n, NEW l \in 1..n, stack'[k].scope = stack'[l].scope
        PROVE  k = l
    <2>1. \A m \in 1..Len(stack) : stack'[m].scope # stack'[n].scope
      BY <1>3, <1>7
    <2>2. CASE k \in 1..Len(stack) /\ l \in 1..Len(stack)
      BY <2>2, <1>6, <1>9 DEF CallsOK
    <2> QED
      BY <2>1, <2>2, <1>4, <1>9
  <1> QED
    BY <1>3, <1>8, <1>9 DEF CallsOK

\* What is declared and exported in the beginning, and the imports that are added.
LEMMA ScopesTyped ==
  ASSUME program \in Program
  PROVE  /\ [s \in Scope |-> Declared(s)] \in [Scope -> Ref]
         /\ [s \in Scope |-> Exported(s)] \in [Scope -> Ref]
  <1>1. \A s \in Scope : Exported(s) \in Ref
    <2> SUFFICES ASSUME NEW s \in Scope, NEW i \in Ident
                 PROVE  Exported(s)[i] \in Scope \cup {None}
      BY DEF Exported, Ref
    <2> DEFINE ts == {t \in Scope : RootOf(t) = s /\ i \in program.exported[t]}
    <2>1. ts = {} \/ (CHOOSE t \in ts : TRUE) \in ts
      OBVIOUS
    <2> QED
      BY <2>1 DEF Exported
  <1> QED
    BY <1>1 DEF Declared, Ref

\* The top of the stack, when its loop is advanced.
LEMMA AdvancedOK ==
  ASSUME TypeOK, stack # <<>>
  PROVE  /\ CallOK(Top)
         /\ \A import \in Top.left : CallOK([Top EXCEPT !.from = import])
         /\ \A import \in Top.left : CallOK(CopyFrom(import))
         /\ \A i \in Ident : CallOK([Top EXCEPT !.idents = @ \ {i}])
         /\ \A t \in Scope : CallOK([Top EXCEPT !.children = @ \ {t}])
         /\ CallOK([Top EXCEPT !.from = None])
  <1>1. Top \in Frame /\ Len(stack) \in Nat /\ Len(stack) > 0
    BY StackTyped DEF TypeOK, CallsOK
  <1>2. CallOK(Top)
    <2>1. Len(stack) \in 1..Len(stack)
      BY <1>1
    <2> QED
      BY <1>1, <2>1 DEF TypeOK, CallsOK, CallOK, Top
  <1>3. imports[Top.scope] \subseteq Import
    BY <1>1 DEF TypeOK, Frame
  <1>4. Top.left \subseteq Import
    BY <1>1 DEF Frame
  <1> DEFINE u == Top
  <1>5. u \in Frame
    BY <1>1
  <1> HIDE DEF u
  <1>6. \A import \in Import :
          LET f == [u EXCEPT !.from = import]
          IN f \in Frame /\ f.scope = u.scope /\ f.left = u.left
    BY <1>5 DEF Frame
  <1>7. \A import \in Import :
          LET f == [u EXCEPT !.left = @ \ {import}, !.from = import,
                             !.idents = {i \in Ident : exports[import[1]][i] # None}]
          IN f \in Frame /\ f.scope = u.scope /\ f.left \subseteq u.left
    BY <1>5 DEF Frame
  <1>8. \A i \in Ident :
          LET f == [u EXCEPT !.idents = @ \ {i}]
          IN f \in Frame /\ f.scope = u.scope /\ f.left = u.left
    BY <1>5 DEF Frame
  <1>9. \A t \in Scope :
          LET f == [u EXCEPT !.children = @ \ {t}]
          IN f \in Frame /\ f.scope = u.scope /\ f.left = u.left
    BY <1>5 DEF Frame
  <1>10. LET f == [u EXCEPT !.from = None]
         IN f \in Frame /\ f.scope = u.scope /\ f.left = u.left
    BY <1>5 DEF Frame
  <1> QED
    BY <1>2, <1>4, <1>6, <1>7, <1>8, <1>9, <1>10 DEF CallOK, CopyFrom, u

\* A call that returns leaves its caller on the top, which goes on with the exports.
LEMMA ReturnedCalls ==
  ASSUME TypeOK, Return, Below # <<>>
  PROVE  /\ CallsOK' /\ stack' # <<>>
         /\ LET caller == stack[Len(stack) - 1] IN
              \/ caller.from = None /\ Top' = caller
              \/ /\ caller.from # None /\ Top'.from = caller.from
                 /\ Top'.left = caller.left \ {caller.from}
                 /\ Top'.idents = {i \in Ident : exports[caller.from[1]][i] # None}
  <1> DEFINE c == Below[Len(Below)]
             f == IF c.from = None THEN c
                  ELSE [c EXCEPT !.left = @ \ {c.from},
                          !.idents = {i \in Ident : exports[c.from[1]][i] # None}]
             n == Len(stack) - 1
  <1>1. stack # <<>> /\ stack \in Seq(Frame) /\ stack' = Append(SubSeq(Below, 1, Len(Below) - 1), f)
    BY DEF Return, TypeOK, CallsOK
  <1>2. /\ Len(stack) \in Nat /\ Len(stack) > 0 /\ Below \in Seq(Frame) /\ Len(Below) = n
        /\ \A k \in 1..Len(Below) : Below[k] = stack[k]
    BY <1>1, StackTyped
  <1>3. n \in 1..Len(stack) /\ c = stack[n] /\ c \in Frame
    <2>1. Len(Below) > 0
      BY <1>2
    <2> QED
      BY <1>2, <2>1
  <1> HIDE DEF c
  <1>4. f \in Frame /\ f.scope = c.scope /\ f.left \subseteq c.left
    BY <1>3 DEF Frame
  <1>5. \/ c.from = None /\ f = c
        \/ /\ c.from # None /\ f.from = c.from /\ f.left = c.left \ {c.from}
           /\ f.idents = {i \in Ident : exports[c.from[1]][i] # None}
    BY <1>3 DEF Frame
  <1> HIDE DEF f
  <1>6. /\ stack' \in Seq(Frame) /\ Len(stack') = n /\ stack' # <<>> /\ Top' = f
        /\ \A k \in 1..(Len(stack) - 2) : stack'[k] = stack[k]
        /\ stack'[n] = f
    BY <1>1, <1>4, Popped
  <1>7. \A k \in 1..n : k \in 1..Len(stack) /\ (k = n \/ stack'[k] = stack[k])
    BY <1>2, <1>6
  <1>8. \A k \in 1..n : stack'[k].scope = stack[k].scope /\ stack'[k].left \subseteq stack[k].left
    BY <1>3, <1>4, <1>6, <1>7
  <1>9. imports' = imports /\ visited' = visited
    BY DEF Return, scopeVars
  <1>10. CallsOK'
    <2>1. \A k \in 1..n : stack'[k].scope \in visited' /\ stack'[k].left \subseteq imports'[stack'[k].scope]
      BY <1>7, <1>8, <1>9 DEF TypeOK, CallsOK
    <2>2. \A k, l \in 1..n : stack'[k].scope = stack'[l].scope => k = l
      BY <1>7, <1>8 DEF TypeOK, CallsOK
    <2> QED
      BY <1>6, <2>1, <2>2 DEF CallsOK
  <1> QED
    BY <1>3, <1>5, <1>6, <1>10

\* The scopes, imports, identifiers and calls of a state are what they should be: a call
\* of maybe_resolve_type_imports is never made again while it is active, so that the
\* recursion is no deeper than there are scopes.
LEMMA TypeInit == Init => TypeOK
  <1> SUFFICES ASSUME Init PROVE TypeOK
    OBVIOUS
  <1>1. program \in Program
    BY ProgramsAssumption DEF Init, WellFormed
  <1>2. pending \in Seq(ImportRequest) /\ unvisited \subseteq Scope
    BY <1>1 DEF Init, Program
  <1>3. local \in [Scope -> Ref] /\ exports \in [Scope -> Ref]
    BY <1>1, ScopesTyped DEF Init
  <1>4. CallsOK
    BY DEF Init, CallsOK
  <1>5. imports \in [Scope -> SUBSET Import]
    BY DEF Init
  <1> QED
    BY <1>1, <1>2, <1>3, <1>4, <1>5 DEF Init, TypeOK

\* Copying one identifier leaves references in the scopes.
LEMMA CopiedTyped ==
  ASSUME TypeOK, stack # <<>>, Top.from # None, NEW ident \in Ident
  PROVE  LET ref == exports[Top.from[1]][ident]
             s == Top.scope
         IN /\ ref \in Scope \cup {None}
            /\ [local EXCEPT ![s][ident] = ref] \in [Scope -> Ref]
            /\ [exports EXCEPT ![RootOf(s)][ident] = ref] \in [Scope -> Ref]
  <1>1. Top \in Frame
    BY StackTyped DEF TypeOK, CallsOK
  <1>2. Top.from \in Import
    BY <1>1 DEF Frame
  <1>3. Top.from[1] \in Scope
    BY <1>2 DEF Import
  <1>4. exports[Top.from[1]][ident] \in Scope \cup {None}
    <2>1. exports \in [Scope -> Ref]
      BY DEF TypeOK
    <2>2. exports[Top.from[1]] \in Ref
      BY <1>3, <2>1
    <2> QED
      BY <2>2 DEF Ref
  <1> DEFINE ref == exports[Top.from[1]][ident]
             r == RootOf(Top.scope)
  <1>5. ref \in Scope \cup {None}
    BY <1>4
  <1> HIDE DEF ref, r
  <1>6. \A v \in [Scope -> Ref] : \A s :
          [v EXCEPT ![s][ident] = ref] \in [Scope -> Ref]
    BY <1>5 DEF Ref
  <1> QED
    BY <1>5, <1>6 DEF TypeOK, ref, r

LEMMA TypeNext == TypeOK /\ [Next]_vars => TypeOK'
  <1> SUFFICES ASSUME TypeOK, [Next]_vars PROVE TypeOK'
    OBVIOUS
  <1>1. CASE AddImport
    <2>1. Head(pending) \in ImportRequest /\ pending' \in Seq(ImportRequest)
      <3>1. pending \in Seq(ImportRequest) /\ pending # <<>> /\ pending' = Tail(pending)
        BY <1>1 DEF AddImport, TypeOK
      <3> QED
        BY <3>1
    <2> DEFINE import == <<Head(pending).root, Head(pending).exported>>
    <2>2. import \in Import
      BY <2>1 DEF ImportRequest, Import
    <2>3. PICK into : imports' = [s \in Scope |-> IF s \in into THEN Inserted(imports[s], import)
                                                             ELSE imports[s]]
      BY <1>1 DEF AddImport
    <2> HIDE DEF import
    <2>4. \A s \in Scope : imports[s] \subseteq imports'[s] /\ imports'[s] \subseteq Import
      BY <2>2, <2>3 DEF Inserted, TypeOK
    <2>5. imports' \in [Scope -> SUBSET Import]
      BY <2>3, <2>4
    <2>6. UNCHANGED <<program, local, exports, unvisited, visited, stack, outcome>>
      BY <1>1 DEF AddImport
    <2>7. visited \subseteq Scope
      BY DEF TypeOK
    <2>8. CallsOK'
      BY <2>4, <2>6, <2>7 DEF CallsOK, TypeOK
    <2> QED
      BY <2>1, <2>5, <2>6, <2>8 DEF TypeOK
  <1>2. ASSUME NEW r \in Scope, Visit(r) PROVE TypeOK'
    <2>1. stack' = <<Call(r)>> /\ visited' = {r} /\ imports' = imports
      BY <1>2 DEF Visit, scopeVars
    <2>2. Call(r) \in Frame /\ Call(r).scope = r /\ Call(r).left = imports[r]
      BY DEF Call, Frame, Children, TypeOK
    <2>3. stack' \in Seq(Frame) /\ Len(stack') = 1 /\ stack'[1] = Call(r)
      BY <2>1, <2>2
    <2>4. \A k \in 1..1 : k = 1
      OBVIOUS
    <2>5. CallsOK'
      BY <2>1, <2>2, <2>3, <2>4 DEF CallsOK
    <2> QED
      BY <1>2, <2>1, <2>5 DEF Visit, scopeVars, TypeOK
  <1>3. ASSUME NEW import \in Import, NextImport(import) PROVE TypeOK'
    <2>1. /\ stack # <<>> /\ import \in Top.left
          /\ UNCHANGED <<program, pending, imports, local, exports, unvisited, outcome>>
      BY <1>3 DEF NextImport, scopeVars
    <2>2. CASE import[1] \in visited
      <3>1. stack' = Append(Below, CopyFrom(import)) /\ visited' = visited
        BY <1>3, <2>2 DEF NextImport
      <3>2. CallOK(CopyFrom(import)) /\ CopyFrom(import).scope = Top.scope
        BY <2>1, AdvancedOK, StackTyped DEF CopyFrom, Frame, TypeOK, CallsOK
      <3>3. CallsOK'
        BY <2>1, <3>1, <3>2, ReplacedCalls DEF TypeOK
      <3> QED
        BY <2>1, <3>1, <3>3 DEF TypeOK
    <2>3. CASE import[1] \notin visited
      <3> DEFINE f == [Top EXCEPT !.from = import]
                 g == Call(import[1])
      <3>1. stack' = Append(Append(Below, f), g) /\ visited' = visited \cup {import[1]}
        BY <1>3, <2>3 DEF NextImport
      <3>2. CallOK(f) /\ f.scope = Top.scope
        BY <2>1, AdvancedOK, StackTyped DEF Frame, TypeOK, CallsOK
      <3>3. import[1] \in Scope
        BY DEF Import
      <3>4. g \in Frame /\ g.scope = import[1] /\ g.left = imports[g.scope]
        BY <3>3 DEF Call, Frame, Children, TypeOK
      <3> HIDE DEF f, g
      <3>5. CallsOK'
        BY <2>1, <2>3, <3>1, <3>2, <3>4, PushedCalls DEF TypeOK
      <3> QED
        BY <2>1, <3>1, <3>3, <3>5 DEF TypeOK
    <2> QED
      BY <2>2, <2>3
  <1>4. ASSUME NEW i \in Ident, CopyOne(i) PROVE TypeOK'
    <2> DEFINE s == Top.scope
               ref == exports[Top.from[1]][i]
               f == [Top EXCEPT !.idents = @ \ {i}]
    <2>1. /\ stack # <<>> /\ Top.from # None
          /\ UNCHANGED <<program, pending, imports, unvisited, visited>>
      BY <1>4 DEF CopyOne, scopeVars
    <2>2. \/ /\ stack' = <<>> /\ outcome' \in {"conflict", "conflict without token"}
             /\ UNCHANGED <<local, exports>>
          \/ /\ stack' = Append(Below, f) /\ UNCHANGED outcome
             /\ local' \in {local, [local EXCEPT ![s][i] = ref]}
             /\ exports' \in {exports, [exports EXCEPT ![RootOf(s)][i] = ref]}
      BY <1>4 DEF CopyOne
    <2>3. CallOK(f) /\ f.scope = Top.scope
      BY <2>1, AdvancedOK, StackTyped DEF Frame, TypeOK, CallsOK
    <2>4. local' \in [Scope -> Ref] /\ exports' \in [Scope -> Ref]
      <3>1. /\ local \in [Scope -> Ref] /\ exports \in [Scope -> Ref]
            /\ [local EXCEPT ![s][i] = ref] \in [Scope -> Ref]
            /\ [exports EXCEPT ![RootOf(s)][i] = ref] \in [Scope -> Ref]
        BY <2>1, CopiedTyped DEF TypeOK
      <3> HIDE DEF s, ref, f
      <3> QED
        BY <2>2, <3>1
    <2> HIDE DEF s, ref, f
    <2>5. CallsOK'
      <3>1. CASE stack' = <<>>
        BY <3>1 DEF CallsOK
      <3>2. CASE stack' = Append(Below, f)
        BY <3>2, <2>1, <2>3, ReplacedCalls DEF TypeOK
      <3> QED
        BY <3>1, <3>2, <2>2
    <2> QED
      BY <2>1, <2>2, <2>4, <2>5 DEF TypeOK
  <1>5. CASE Copied
    <2> DEFINE f == [Top EXCEPT !.from = None]
    <2>1. /\ stack # <<>> /\ stack' = Append(Below, f)
          /\ UNCHANGED <<program, pending, imports, local, exports, unvisited, visited, outcome>>
      BY <1>5 DEF Copied, scopeVars
    <2>2. CallOK(f) /\ f.scope = Top.scope
      BY <2>1, AdvancedOK, StackTyped DEF Frame, TypeOK, CallsOK
    <2> HIDE DEF f
    <2>3. CallsOK'
      BY <2>1, <2>2, ReplacedCalls DEF TypeOK
    <2> QED
      BY <2>1, <2>3 DEF TypeOK
  <1>6. ASSUME NEW t \in Scope, NextChild(t) PROVE TypeOK'
    <2> DEFINE f == [Top EXCEPT !.children = @ \ {t}]
               g == Call(t)
    <2>1. /\ stack # <<>>
          /\ UNCHANGED <<program, pending, imports, local, exports, unvisited, outcome>>
      BY <1>6 DEF NextChild, scopeVars
    <2>2. CallOK(f) /\ f.scope = Top.scope
      BY <2>1, AdvancedOK, StackTyped DEF Frame, TypeOK, CallsOK
    <2>3. g \in Frame /\ g.scope = t /\ g.left = imports[g.scope]
      BY DEF Call, Frame, Children, TypeOK
    <2>4. CASE t \in visited
      <3>1. stack' = Append(Below, f) /\ visited' = visited
        BY <1>6, <2>4 DEF NextChild
      <3> HIDE DEF f, g
      <3>2. CallsOK'
        BY <2>1, <2>2, <3>1, ReplacedCalls DEF TypeOK
      <3> QED
        BY <2>1, <3>1, <3>2 DEF TypeOK
    <2>5. CASE t \notin visited
      <3>1. stack' = Append(Append(Below, f), g) /\ visited' = visited \cup {t}
        BY <1>6, <2>5 DEF NextChild
      <3> HIDE DEF f, g
      <3>2. CallsOK'
        BY <2>1, <2>2, <2>3, <2>5, <3>1, PushedCalls DEF TypeOK
      <3> QED
        BY <2>1, <3>1, <3>2 DEF TypeOK
    <2> QED
      BY <2>4, <2>5
  <1>7. CASE Return
    <2>1. /\ stack # <<>>
          /\ UNCHANGED <<program, pending, imports, local, exports, unvisited, visited>>
      BY <1>7 DEF Return, scopeVars
    <2>2. CASE Below = <<>>
      <3>1. stack' = <<>> /\ outcome' = "resolved"
        BY <1>7, <2>2 DEF Return
      <3>2. CallsOK'
        BY <3>1 DEF CallsOK
      <3> QED
        BY <2>1, <3>1, <3>2 DEF TypeOK
    <2>3. CASE Below # <<>>
      <3>1. outcome' = outcome
        BY <1>7, <2>3 DEF Return
      <3>2. CallsOK'
        BY <1>7, <2>3, ReturnedCalls
      <3> QED
        BY <2>1, <3>1, <3>2 DEF TypeOK
    <2> QED
      BY <2>2, <2>3
  <1>8. CASE UNCHANGED vars
    BY <1>8 DEF vars, TypeOK, CallsOK
  <1> QED
    BY <1>1, <1>2, <1>3, <1>4, <1>5, <1>6, <1>7, <1>8 DEF Next, Finished

\* Resolving imports keeps every variable of its type, and never calls itself for a scope
\* that it is already called for, however the files import each other.
THEOREM TypeCorrect == Spec => []TypeOK
  BY TypeInit, TypeNext, PTL DEF Spec

---------------------------------------------------------------------------
(* The copying of exports *)

\* Only the call on the top copies exports, all of which are there; it copies them from an
\* import of its scope.
TopOK ==
  Top.from # None =>
    Iterating(Top) /\ \A i \in Top.idents : exports[Top.from[1]][i] # None

CopyInv ==
  /\ \A k \in 1..(Len(stack) - 1) : ~Iterating(stack[k])
  /\ stack # <<>> => TopOK
  /\ \A k \in 1..Len(stack) :
       stack[k].from # None => stack[k].from \in imports[stack[k].scope]

LEMMA CopyInit == Init => CopyInv
  BY DEF Init, CopyInv

\* The invariant, when the top is replaced.
LEMMA ReplacedCopy ==
  ASSUME TypeOK, CopyInv, stack # <<>>, NEW f \in Frame, stack' = Append(Below, f),
         f.scope = Top.scope, imports' = imports,
         f.from # None => /\ f.from \in imports[f.scope] /\ Iterating(f)
                          /\ \A i \in f.idents : exports'[f.from[1]][i] # None
  PROVE  CopyInv'
  <1>1. stack \in Seq(Frame)
    BY DEF TypeOK, CallsOK
  <1>2. Len(stack) \in Nat /\ Len(stack) > 0
    BY <1>1, StackTyped
  <1>3. /\ Len(stack') = Len(stack) /\ stack' # <<>> /\ Top' = f
        /\ \A k \in 1..(Len(stack) - 1) : stack'[k] = stack[k]
        /\ stack'[Len(stack)] = f
    BY <1>1, Replaced
  <1>4. \A k \in 1..Len(stack) : k \in 1..(Len(stack) - 1) \/ k = Len(stack)
    BY <1>2
  <1>5. \A k \in 1..(Len(stack') - 1) : ~Iterating(stack'[k])
    BY <1>3 DEF CopyInv
  <1>6. TopOK'
    BY <1>3 DEF TopOK, Iterating
  <1>7. \A k \in 1..Len(stack') :
          stack'[k].from # None => stack'[k].from \in imports'[stack'[k].scope]
    <2> SUFFICES ASSUME NEW k \in 1..Len(stack), stack'[k].from # None
                 PROVE  stack'[k].from \in imports[stack'[k].scope]
      BY <1>3
    <2>1. CASE k = Len(stack)
      BY <2>1, <1>3
    <2>2. CASE k \in 1..(Len(stack) - 1)
      BY <2>2, <1>3 DEF CopyInv
    <2> QED
      BY <2>1, <2>2, <1>4
  <1> QED
    BY <1>5, <1>6, <1>7 DEF CopyInv

\* And when a call is put on it.
LEMMA PushedCopy ==
  ASSUME TypeOK, CopyInv, stack # <<>>, NEW f \in Frame, NEW g \in Frame,
         stack' = Append(Append(Below, f), g),
         f.scope = Top.scope, g.from = None, imports' = imports,
         ~Iterating(f), f.from # None => f.from \in imports[f.scope]
  PROVE  CopyInv'
  <1>1. stack \in Seq(Frame)
    BY DEF TypeOK, CallsOK
  <1>2. Len(stack) \in Nat /\ Len(stack) > 0
    BY <1>1, StackTyped
  <1> DEFINE n == Len(stack) + 1
  <1>3. /\ Len(stack') = n /\ stack' # <<>> /\ Top' = g
        /\ \A k \in 1..(Len(stack) - 1) : stack'[k] = stack[k]
        /\ stack'[Len(stack)] = f /\ stack'[n] = g
    BY <1>1, Pushed
  <1>4. \A k \in 1..n : k \in 1..(Len(stack) - 1) \/ k = Len(stack) \/ k = n
    BY <1>2
  <1>5. \A k \in 1..(Len(stack') - 1) : ~Iterating(stack'[k])
    <2>1. \A k \in 1..(n - 1) : k \in 1..(Len(stack) - 1) \/ k = Len(stack)
      BY <1>2
    <2> QED
      BY <2>1, <1>3 DEF CopyInv
  <1>6. TopOK'
    BY <1>3 DEF TopOK
  <1>7. ASSUME NEW k \in 1..n, stack'[k].from # None
        PROVE  stack'[k].from \in imports[stack'[k].scope]
    <2>1. CASE k \in 1..(Len(stack) - 1)
      <3>1. k \in 1..Len(stack)
        BY <2>1, <1>2
      <3> QED
        BY <2>1, <3>1, <1>3, <1>7 DEF CopyInv
    <2> QED
      BY <2>1, <1>3, <1>4, <1>7
  <1> QED
    BY <1>3, <1>5, <1>6, <1>7 DEF CopyInv

\* An export that is being copied is not overwritten, by whatever the copy emplaces.
LEMMA CopiedSafe ==
  ASSUME TypeOK, CopyInv, NEW ident \in Ident, CopyOne(ident), stack' # <<>>
  PROVE  exports'[Top.from[1]] = exports[Top.from[1]]
  <1> DEFINE r == RootOf(Top.scope)
             u == Top.from[1]
             ref == exports[u][ident]
  <1>1. Top \in Frame /\ stack # <<>> /\ Top.from # None /\ ident \in Top.idents
    BY StackTyped DEF CopyOne, TypeOK, CallsOK
  <1>2. u \in Scope
    BY <1>1 DEF Frame, Import
  <1>3. ref # None
    BY <1>1 DEF CopyInv, TopOK
  <1>4. exports \in [Scope -> Ref]
    BY DEF TypeOK
  <1>5. \/ exports' = exports
        \/ /\ Top.from[2] /\ exports' = [exports EXCEPT ![r][ident] = ref]
           /\ Registered(Top.scope, ident, Top.from[2]) = None
    BY DEF CopyOne
  <1>6. CASE /\ Top.from[2] /\ exports' = [exports EXCEPT ![r][ident] = ref]
             /\ Registered(Top.scope, ident, Top.from[2]) = None
    <2>1. exports[r][ident] = None
      BY <1>6 DEF Registered
    <2>2. r # u
      BY <2>1, <1>3
    <2> QED
      BY <2>2, <1>2, <1>4, <1>6
  <1> QED
    BY <1>5, <1>6

\* The caller that a call returns to, as the new top.
LEMMA ReturnedTop ==
  ASSUME TypeOK, Return, Below # <<>>
  PROVE  \E f \in Frame :
           /\ f = Top' /\ f.scope = stack[Len(stack) - 1].scope
           /\ stack' = Append(SubSeq(Below, 1, Len(Below) - 1), f)
  <1> DEFINE c == Below[Len(Below)]
             f == IF c.from = None THEN c
                  ELSE [c EXCEPT !.left = @ \ {c.from},
                          !.idents = {i \in Ident : exports[c.from[1]][i] # None}]
  <1>1. stack # <<>> /\ stack \in Seq(Frame) /\ stack' = Append(SubSeq(Below, 1, Len(Below) - 1), f)
    BY DEF Return, TypeOK, CallsOK
  <1>2. Below \in Seq(Frame) /\ Len(Below) \in 1..Len(Below)
    BY <1>1, StackTyped
  <1>3. c \in Frame
    BY <1>2
  <1> HIDE DEF c
  <1>4. f \in Frame /\ f.scope = c.scope
    BY <1>3 DEF Frame
  <1> HIDE DEF f
  <1>5. Top' = f /\ c = stack[Len(stack) - 1]
    BY <1>1, <1>4, Popped DEF c
  <1> QED
    BY <1>1, <1>4, <1>5

\* And when a call returns to its caller.
LEMMA ReturnedCopy ==
  ASSUME TypeOK, CopyInv, Return, Below # <<>>
  PROVE  CopyInv'
  <1> DEFINE n == Len(stack) - 1
             c == stack[n]
  <1>1. /\ stack' # <<>>
        /\ \/ c.from = None /\ Top' = c
           \/ /\ c.from # None /\ Top'.from = c.from /\ Top'.left = c.left \ {c.from}
              /\ Top'.idents = {i \in Ident : exports[c.from[1]][i] # None}
    BY ReturnedCalls
  <1>2. stack # <<>> /\ stack \in Seq(Frame) /\ imports' = imports /\ exports' = exports
    BY DEF Return, scopeVars, TypeOK, CallsOK
  <1>3. PICK f : f = Top' /\ stack' = Append(SubSeq(Below, 1, Len(Below) - 1), f)
                 /\ f \in Frame /\ f.scope = c.scope
    BY ReturnedTop
  <1>4. /\ Len(stack') = n /\ Len(stack) > 1 /\ Len(stack) \in Nat
        /\ \A k \in 1..(Len(stack) - 2) : stack'[k] = stack[k]
        /\ stack'[n] = f
    BY <1>2, <1>3, Popped
  <1>5. \A k \in 1..n : k \in 1..Len(stack) /\ (k = n \/ k \in 1..(n - 1))
    BY <1>4
  <1>6. \A k \in 1..(n - 1) : stack'[k] = stack[k] /\ k \in 1..(Len(stack) - 1)
    BY <1>4
  <1>7. \A k \in 1..(Len(stack') - 1) : ~Iterating(stack'[k])
    BY <1>4, <1>6 DEF CopyInv
  <1>8. TopOK'
    BY <1>1, <1>2 DEF TopOK, Iterating
  <1>9. n \in 1..Len(stack) /\ (f.from = None \/ f.from = c.from)
    BY <1>1, <1>3, <1>4
  <1>10. ASSUME NEW k \in 1..n, stack'[k].from # None
         PROVE  stack'[k].from \in imports[stack'[k].scope]
    <2>1. CASE k = n
      BY <2>1, <1>3, <1>4, <1>9, <1>10 DEF CopyInv
    <2>2. CASE k \in 1..(n - 1)
      BY <2>2, <1>5, <1>6, <1>10 DEF CopyInv
    <2> QED
      BY <2>1, <2>2, <1>5
  <1> QED
    BY <1>2, <1>4, <1>7, <1>8, <1>10 DEF CopyInv

LEMMA CopyNext == TypeOK /\ TypeOK' /\ CopyInv /\ [Next]_vars => CopyInv'
  <1> SUFFICES ASSUME TypeOK, TypeOK', CopyInv, [Next]_vars PROVE CopyInv'
    OBVIOUS
  <1>1. CASE AddImport
    <2>1. UNCHANGED <<exports, stack>> /\ \A s \in Scope : imports[s] \subseteq imports'[s]
      BY <1>1 DEF AddImport, Inserted, TypeOK
    <2>2. \A k \in 1..Len(stack) : stack[k].scope \in Scope
      BY DEF TypeOK, CallsOK
    <2> QED
      BY <2>1, <2>2 DEF CopyInv, TopOK, Top, Iterating
  <1>2. ASSUME NEW r \in Scope, Visit(r) PROVE CopyInv'
    <2>1. stack' = <<Call(r)>>
      BY <1>2 DEF Visit
    <2>2. Len(stack') = 1 /\ stack'[1] = Call(r) /\ Call(r).from = None
      BY <2>1 DEF Call
    <2>3. \A k \in 1..1 : k = 1
      OBVIOUS
    <2>4. Top' = Call(r)
      BY <2>2 DEF Top
    <2> QED
      BY <2>2, <2>3, <2>4 DEF CopyInv, TopOK
  <1>3. ASSUME NEW import \in Import, NextImport(import) PROVE CopyInv'
    <2>1. /\ stack # <<>> /\ import \in Top.left /\ UNCHANGED <<imports, exports>>
      BY <1>3 DEF NextImport, scopeVars
    <2>2. Top \in Frame /\ CallOK(Top)
      BY <2>1, AdvancedOK DEF CallOK
    <2>3. import \in imports[Top.scope]
      BY <2>1, <2>2 DEF CallOK
    <2>4. CASE import[1] \in visited
      <3> DEFINE f == CopyFrom(import)
      <3>1. stack' = Append(Below, f)
        BY <1>3, <2>4 DEF NextImport
      <3>2. f \in Frame
        BY <2>1, AdvancedOK DEF CallOK
      <3>3. /\ f.scope = Top.scope /\ f.from = import /\ f.left = Top.left \ {import}
            /\ f.idents = {i \in Ident : exports[import[1]][i] # None}
        BY <2>2 DEF CopyFrom, Frame
      <3> HIDE DEF f
      <3> QED
        BY <2>1, <2>3, <3>1, <3>2, <3>3, ReplacedCopy DEF Iterating
    <2>5. CASE import[1] \notin visited
      <3> DEFINE f == [Top EXCEPT !.from = import]
                 g == Call(import[1])
      <3>1. stack' = Append(Append(Below, f), g)
        BY <1>3, <2>5 DEF NextImport
      <3>2. f \in Frame
        BY <2>1, AdvancedOK DEF CallOK
      <3>3. f.scope = Top.scope /\ f.from = import /\ f.left = Top.left
        BY <2>2 DEF Frame
      <3>4. g \in Frame /\ g.from = None
        BY DEF Call, Frame, Children, Import, TypeOK
      <3> HIDE DEF f, g
      <3> QED
        BY <2>1, <2>3, <3>1, <3>2, <3>3, <3>4, PushedCopy DEF Iterating
    <2> QED
      BY <2>4, <2>5
  <1>4. ASSUME NEW i \in Ident, CopyOne(i) PROVE CopyInv'
    <2>1. CASE stack' = <<>>
      BY <2>1 DEF CopyInv
    <2>2. CASE stack' # <<>>
      <3> DEFINE f == [Top EXCEPT !.idents = @ \ {i}]
      <3>1. stack # <<>> /\ Top.from # None /\ imports' = imports /\ stack' = Append(Below, f)
        BY <1>4, <2>2 DEF CopyOne, scopeVars
      <3>2. Top \in Frame /\ f \in Frame /\ Len(stack) \in 1..Len(stack)
        <4>1. Len(stack) \in Nat /\ Len(stack) > 0
          BY <3>1, StackTyped DEF TypeOK, CallsOK
        <4> QED
          BY <4>1, <3>1, AdvancedOK DEF CallOK
      <3>3. /\ f.scope = Top.scope /\ f.from = Top.from /\ f.left = Top.left
            /\ f.idents \subseteq Top.idents
        BY <3>2 DEF Frame
      <3>4. Top.from \in imports[Top.scope]
        BY <3>1, <3>2 DEF CopyInv, Top
      <3>5. exports'[Top.from[1]] = exports[Top.from[1]]
        BY <1>4, <2>2, CopiedSafe
      <3>6. Iterating(Top) /\ \A j \in Top.idents : exports[Top.from[1]][j] # None
        BY <3>1 DEF CopyInv, TopOK
      <3> HIDE DEF f
      <3> QED
        BY <3>1, <3>2, <3>3, <3>4, <3>5, <3>6, ReplacedCopy DEF Iterating
    <2> QED
      BY <2>1, <2>2
  <1>5. CASE Copied
    <2> DEFINE f == [Top EXCEPT !.from = None]
    <2>1. stack # <<>> /\ stack' = Append(Below, f) /\ imports' = imports
      BY <1>5 DEF Copied, scopeVars
    <2>2. Top \in Frame /\ f \in Frame
      BY <2>1, AdvancedOK DEF CallOK
    <2>3. f.scope = Top.scope /\ f.from = None
      BY <2>2 DEF Frame
    <2> HIDE DEF f
    <2> QED
      BY <2>1, <2>2, <2>3, ReplacedCopy
  <1>6. ASSUME NEW t \in Scope, NextChild(t) PROVE CopyInv'
    <2> DEFINE f == [Top EXCEPT !.children = @ \ {t}]
               g == Call(t)
    <2>1. stack # <<>> /\ Top.from = None /\ imports' = imports
      BY <1>6 DEF NextChild, scopeVars
    <2>2. Top \in Frame /\ f \in Frame
      BY <2>1, AdvancedOK DEF CallOK
    <2>3. f.scope = Top.scope /\ f.from = None
      BY <2>1, <2>2 DEF Frame
    <2>4. g \in Frame /\ g.from = None
      BY DEF Call, Frame, Children, TypeOK
    <2>5. stack' = Append(Below, f) \/ stack' = Append(Append(Below, f), g)
      BY <1>6 DEF NextChild
    <2> HIDE DEF f, g
    <2>6. CASE stack' = Append(Below, f)
      BY <2>1, <2>2, <2>3, <2>6, ReplacedCopy
    <2>7. CASE stack' = Append(Append(Below, f), g)
      BY <2>1, <2>2, <2>3, <2>4, <2>7, PushedCopy DEF Iterating
    <2> QED
      BY <2>5, <2>6, <2>7
  <1>7. CASE Return
    <2>1. CASE Below = <<>>
      BY <1>7, <2>1 DEF Return, CopyInv
    <2>2. CASE Below # <<>>
      BY <1>7, <2>2, ReturnedCopy
    <2> QED
      BY <2>1, <2>2
  <1>8. CASE UNCHANGED vars
    BY <1>8 DEF vars, CopyInv, TopOK, Top, Iterating
  <1> QED
    BY <1>1, <1>2, <1>3, <1>4, <1>5, <1>6, <1>7, <1>8 DEF Next, Finished

\* The exports of a file do not change while a call iterates over them, although files
\* that import each other, or themselves, insert into what they iterate over: an export
\* that is copied is registered where it would be inserted.
THEOREM IterationAlwaysSafe == Spec => IterationSafe
  <1>1. TypeOK /\ CopyInv /\ [Next]_vars =>
          (stack' # <<>> => \A k \in DOMAIN stack : Iterating(stack[k]) =>
             exports'[stack[k].from[1]] = exports[stack[k].from[1]])
    <2> SUFFICES ASSUME TypeOK, CopyInv, [Next]_vars, stack' # <<>>,
                        NEW k \in DOMAIN stack, Iterating(stack[k])
                 PROVE  exports'[stack[k].from[1]] = exports[stack[k].from[1]]
      OBVIOUS
    <2>1. stack \in Seq(Frame)
      BY DEF TypeOK, CallsOK
    <2>2. k \in 1..Len(stack) /\ Len(stack) \in Nat
      BY <2>1
    <2>3. k = Len(stack)
      <3>1. k \notin 1..(Len(stack) - 1)
        BY DEF CopyInv
      <3> QED
        BY <3>1, <2>2
    <2>4. stack[k] = Top
      BY <2>3 DEF Top
    <2>5. ASSUME NEW i \in Ident, CopyOne(i)
          PROVE  exports'[stack[k].from[1]] = exports[stack[k].from[1]]
      BY <2>4, <2>5, CopiedSafe
    <2>6. (\E i \in Ident : CopyOne(i)) \/ exports' = exports
      BY DEF Next, AddImport, Visit, NextImport, Copied, NextChild, Return, Finished, vars
    <2> QED
      BY <2>5, <2>6
  <1> QED
    BY <1>1, TypeInit, TypeNext, CopyInit, CopyNext, PTL DEF Spec, IterationSafe

---------------------------------------------------------------------------
(* What the scopes hold *)

\* Closures are transitive and grow with the imports.
LEMMA ClosureContains ==
  ASSUME NEW F \in SUBSET Scope
  PROVE  F \subseteq Closure(F)
  BY DEF Closure

LEMMA ClosureStep ==
  ASSUME NEW F \in SUBSET Scope, NEW t \in Closure(F), NEW u \in ReExports(t)
  PROVE  u \in Closure(F)
  BY DEF Closure, ReExports

LEMMA ClosureTransitive ==
  ASSUME NEW F \in SUBSET Scope, NEW u \in Closure(F), NEW t \in Closure({u})
  PROVE  t \in Closure(F)
  BY DEF Closure

LEMMA ClosureGrows ==
  ASSUME \A s \in Scope : imports[s] \subseteq imports'[s], program' = program,
         NEW F \in SUBSET Scope, NEW G \in SUBSET Scope, F \subseteq G
  PROVE  Closure(F) \subseteq Closure(G)'
  <1>1. \A t : RootOf(t)' = RootOf(t) /\ Parent(t)' = Parent(t)
    BY DEF RootOf, Parent
  <1>2. \A t \in Scope : ReExports(t) \subseteq ReExports(t)'
    BY <1>1 DEF ReExports
  <1> QED
    BY <1>1, <1>2 DEF Closure

\* What is exported or held comes from a file that is seen.
ExportedFrom(r, i, t) ==
  t \in Scope /\ i \in program.exported[t] /\ RootOf(t) \in Closure({r})

HeldFrom(s, i, t) ==
  t \in Scope /\ i \in program.exported[t] /\ RootOf(t) \in Seen(s)

VisibleInv ==
  /\ \A s \in Scope : program.exported[s] \subseteq program.declares[s]
  /\ \A r \in Scope, i \in Ident : exports[r][i] # None => ExportedFrom(r, i, exports[r][i])
  /\ \A s \in Scope, i \in Ident : local[s][i] \notin {None, s} => HeldFrom(s, i, local[s][i])

LEMMA VisibleInit == Init => VisibleInv
  <1> SUFFICES ASSUME Init PROVE VisibleInv
    OBVIOUS
  <1>1. \A s \in Scope : program.exported[s] \subseteq program.declares[s]
    BY ProgramsAssumption DEF Init, WellFormed
  <1>2. ASSUME NEW r \in Scope, NEW i \in Ident, exports[r][i] # None
        PROVE  ExportedFrom(r, i, exports[r][i])
    <2> DEFINE ts == {t \in Scope : RootOf(t) = r /\ i \in program.exported[t]}
    <2>1. exports[r][i] = IF ts = {} THEN None ELSE CHOOSE t \in ts : TRUE
      BY DEF Init, Exported
    <2>2. exports[r][i] \in ts
      BY <1>2, <2>1
    <2>3. r \in Closure({r})
      BY ClosureContains
    <2> QED
      BY <2>2, <2>3 DEF ExportedFrom
  <1>3. \A s \in Scope, i \in Ident : local[s][i] \in {None, s}
    BY DEF Init, Declared
  <1> QED
    BY <1>1, <1>2, <1>3 DEF VisibleInv

\* The invariant is kept by whatever adds imports only.
LEMMA VisibleGrows ==
  ASSUME TypeOK, VisibleInv, UNCHANGED <<program, local, exports>>,
         imports' \in [Scope -> SUBSET Import],
         \A s \in Scope : imports[s] \subseteq imports'[s]
  PROVE  VisibleInv'
  <1>1. \A r \in Scope : Closure({r}) \subseteq Closure({r})'
    BY ClosureGrows
  <1>2. ASSUME NEW s \in Scope
        PROVE  Seen(s) \subseteq Seen(s)'
    <2>1. imports[s] \subseteq Import /\ imports'[s] \subseteq Import /\ imports[s] \subseteq imports'[s]
      BY DEF TypeOK
    <2>2. \A import \in Import : import[1] \in Scope
      BY DEF Import
    <2>3. PICK F : F = {import[1] : import \in imports[s]}
      OBVIOUS
    <2>4. PICK G : G = {import[1] : import \in imports'[s]}
      OBVIOUS
    <2>5. F \in SUBSET Scope /\ G \in SUBSET Scope /\ F \subseteq G
      BY <2>1, <2>2, <2>3, <2>4
    <2>6. Seen(s) = Closure(F)
      BY <2>3 DEF Seen
    <2>7. Seen(s)' = Closure(G)'
      BY <2>4 DEF Seen, Closure
    <2> QED
      BY <2>5, <2>6, <2>7, ClosureGrows
  <1>3. \A t : RootOf(t)' = RootOf(t)
    BY DEF RootOf, Parent
  <1> QED
    BY <1>1, <1>2, <1>3 DEF VisibleInv, ExportedFrom, HeldFrom

LEMMA VisibleNext ==
  TypeOK /\ TypeOK' /\ CopyInv /\ VisibleInv /\ [Next]_vars => VisibleInv'
  <1> SUFFICES ASSUME TypeOK, TypeOK', CopyInv, VisibleInv, [Next]_vars PROVE VisibleInv'
    OBVIOUS
  <1>1. CASE AddImport
    <2>1. \A s \in Scope : imports[s] \subseteq imports'[s]
      BY <1>1 DEF AddImport, Inserted, TypeOK
    <2> QED
      BY <1>1, <2>1, VisibleGrows DEF AddImport, TypeOK
  <1>2. ASSUME NEW i \in Ident, CopyOne(i) PROVE VisibleInv'
    <2> DEFINE s == Top.scope
               r == RootOf(s)
               u == Top.from[1]
               ref == exports[u][i]
    <2>1. /\ stack # <<>> /\ Top.from # None /\ i \in Top.idents
          /\ UNCHANGED <<program, imports>>
          /\ local' \in {local, [local EXCEPT ![s][i] = ref]}
          /\ \/ exports' = exports
             \/ Top.from[2] /\ exports' = [exports EXCEPT ![r][i] = ref]
      BY <1>2 DEF CopyOne, scopeVars
    <2>2. Top \in Frame /\ Len(stack) \in 1..Len(stack)
      <3>1. Len(stack) \in Nat /\ Len(stack) > 0 /\ Top \in Frame
        BY <2>1, StackTyped DEF TypeOK, CallsOK
      <3> QED
        BY <3>1
    <2>3. Top.from \in imports[s] /\ s \in Scope /\ Top.from \in Import
      BY <2>1, <2>2 DEF CopyInv, Top, Frame
    <2>4. u \in Scope /\ Top.from = <<u, Top.from[2]>>
      BY <2>3 DEF Import
    <2>5. ref # None
      BY <2>1 DEF CopyInv, TopOK
    <2>6. ExportedFrom(u, i, ref)
      BY <2>4, <2>5 DEF VisibleInv
    <2>7. HeldFrom(s, i, ref)
      <3> DEFINE F == {import[1] : import \in imports[s]}
      <3>1. u \in F /\ F \in SUBSET Scope
        <4>1. imports[s] \subseteq Import /\ \A import \in Import : import[1] \in Scope
          BY <2>3 DEF TypeOK, Import
        <4> QED
          BY <4>1, <2>3
      <3>2. u \in Closure(F)
        BY <3>1, ClosureContains
      <3> HIDE DEF F, ref, u
      <3>3. \A t \in Closure({u}) : t \in Closure(F)
        BY <3>1, <3>2, ClosureTransitive
      <3>4. RootOf(ref) \in Closure(F)
        BY <2>6, <3>3 DEF ExportedFrom
      <3> QED
        BY <2>6, <3>4 DEF ExportedFrom, HeldFrom, Seen, F
    <2>8. Top.from[2] /\ r \in Scope => ExportedFrom(r, i, ref)
      <3> SUFFICES ASSUME Top.from[2], r \in Scope PROVE ExportedFrom(r, i, ref)
        OBVIOUS
      <3>1. Top.from = <<u, TRUE>>
        <4>1. Top.from[2] \in BOOLEAN
          BY <2>3 DEF Import
        <4>2. Top.from[2] = TRUE
          BY <4>1
        <4> QED
          BY <2>4, <4>2
      <3>2. u \in ReExports(r)
        BY <2>3, <2>4, <3>1 DEF ReExports
      <3>3. r \in Closure({r})
        BY ClosureContains
      <3> HIDE DEF ref, u, r
      <3>4. u \in Closure({r})
        BY <3>2, <3>3, ClosureStep
      <3>5. \A t \in Closure({u}) : t \in Closure({r})
        BY <3>4, ClosureTransitive
      <3> QED
        BY <2>6, <3>5 DEF ExportedFrom
    <2> HIDE DEF ref, u, r, s
    <2>9. ASSUME NEW q \in Scope, NEW j \in Ident, exports'[q][j] # None
          PROVE  ExportedFrom(q, j, exports'[q][j])
      <3>1. exports \in [Scope -> Ref]
        BY DEF TypeOK
      <3>2. exports'[q][j] = exports[q][j] \/ (q = r /\ j = i /\ Top.from[2] /\ exports'[q][j] = ref)
        BY <2>1, <3>1 DEF Ref
      <3> QED
        BY <2>8, <2>9, <3>2 DEF VisibleInv
    <2>10. ASSUME NEW q \in Scope, NEW j \in Ident, local'[q][j] \notin {None, q}
           PROVE  HeldFrom(q, j, local'[q][j])
      <3>1. local \in [Scope -> Ref]
        BY DEF TypeOK
      <3>2. local'[q][j] = local[q][j] \/ (q = s /\ j = i /\ local'[q][j] = ref)
        BY <2>1, <3>1 DEF Ref
      <3> QED
        BY <2>7, <2>10, <3>2 DEF VisibleInv
    <2>11. /\ \A q, j, t : ExportedFrom(q, j, t)' <=> ExportedFrom(q, j, t)
           /\ \A q, j, t : HeldFrom(q, j, t)' <=> HeldFrom(q, j, t)
      BY <2>1 DEF ExportedFrom, HeldFrom, Seen, Closure, ReExports, RootOf, Parent
    <2> QED
      BY <2>1, <2>9, <2>10, <2>11 DEF VisibleInv
  <1>3. CASE UNCHANGED <<program, imports, local, exports>>
    BY <1>3, VisibleGrows DEF TypeOK
  <1>4. \/ AddImport \/ \E i \in Ident : CopyOne(i)
        \/ UNCHANGED <<program, imports, local, exports>>
    BY DEF Next, Visit, NextImport, Copied, NextChild, Return, Finished, vars, scopeVars
  <1> QED
    BY <1>1, <1>2, <1>3, <1>4

\* No scope ever holds a type that its file does not import, directly or by imports for
\* export, whatever the files, their imports and the order in which these are resolved:
\* what a file keeps private stays private.
THEOREM OnlyVisible == Spec => []VisibleOnly
  <1>1. TypeOK /\ VisibleInv => VisibleOnly
    BY DEF VisibleInv, HeldFrom, VisibleOnly, Meanings
  <1> QED
    BY <1>1, TypeInit, TypeNext, CopyInit, CopyNext, VisibleInit, VisibleNext, PTL DEF Spec
=============================================================================
