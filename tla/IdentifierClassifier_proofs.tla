---------------------- MODULE IdentifierClassifier_proofs ----------------------
(* Proofs about the classifier, for programs of any size: what it takes an     *)
(* identifier for is settled by the first use, is what the scopes of the       *)
(* parser find, one that is both assigned to and called is reported, and so is *)
(* a variable that some path to its reference leaves unassigned - and no other *)
(* where no branch or loop is within another.                                  *)
EXTENDS IdentifierClassifierProperties, SequenceTheorems, FiniteSetTheorems, NaturalsInduction,
        WellFoundedInduction, TLAPS

------------------------------------------------------------------------------
(* Lists and the last of a set of indices. *)

IsList(s) == s \in Seq(Range(s))

LEMMA ListOf ==
  ASSUME NEW S, NEW s \in Seq(S)
  PROVE  IsList(s)
BY SeqOfRange DEF IsList

LEMMA ListShape ==
  ASSUME NEW s, IsList(s)
  PROVE  Len(s) \in Nat /\ DOMAIN s = 1..Len(s)
BY LenProperties DEF IsList

LEMMA ListAppend ==
  ASSUME NEW s, NEW e, IsList(s)
  PROVE  /\ IsList(Append(s, e)) /\ Len(Append(s, e)) = Len(s) + 1
         /\ Append(s, e)[Len(s) + 1] = e
         /\ \A i \in 1..Len(s) : Append(s, e)[i] = s[i]
         /\ Last(Append(s, e)) = e
<1>1. s \in Seq(Range(s) \cup {e}) BY SeqMonotonic DEF IsList
<1>2. /\ Append(s, e) \in Seq(Range(s) \cup {e}) /\ Len(Append(s, e)) = Len(s) + 1
      /\ Append(s, e)[Len(s) + 1] = e
      /\ \A i \in 1..Len(s) : Append(s, e)[i] = s[i]
  BY <1>1, AppendProperties
<1>3. IsList(Append(s, e)) BY <1>2, ListOf
<1> QED BY <1>2, <1>3 DEF Last

LEMMA ListFront ==
  ASSUME NEW s, IsList(s), Len(s) >= 1
  PROVE  /\ IsList(Front(s)) /\ Len(Front(s)) = Len(s) - 1
         /\ \A i \in 1..Len(s) - 1 : Front(s)[i] = s[i]
<1> DEFINE n == Len(s)
           f == Front(s)
<1>1. n \in Nat /\ n >= 1 /\ \A i \in 1..n - 1 : s[i] \in Range(s)
  BY ListShape, ElementOfSeq DEF IsList
<1>2. /\ f \in Seq(Range(s)) /\ Len(f) = IF 1 <= n - 1 THEN n - 1 - 1 + 1 ELSE 0
      /\ \A i \in 1..n - 1 - 1 + 1 : f[i] = s[1 + i - 1]
  BY <1>1, SubSeqProperties DEF Front
<1>3. IsList(f) BY <1>2, ListOf
<1> HIDE DEF n, f
<1>4. Len(f) = n - 1 BY <1>1, <1>2
<1>5. ASSUME NEW i \in 1..n - 1 PROVE f[i] = s[i]
  <2>1. i \in 1..n - 1 - 1 + 1 /\ 1 + i - 1 = i BY <1>1
  <2>2. f[i] = s[1 + i - 1] BY <2>1, <1>2
  <2> QED BY <2>1, <2>2
<1> QED BY <1>3, <1>4, <1>5 DEF n, f

LEMMA SameBounds ==
  ASSUME NEW m \in Nat, NEW n \in Nat, 1..m = 1..n
  PROVE  m = n
<1>1. CASE m > n
  <2>1. m \in 1..m /\ m \notin 1..n BY <1>1
  <2> QED BY <2>1
<1>2. CASE n > m
  <2>1. n \in 1..n /\ n \notin 1..m BY <1>2
  <2> QED BY <2>1
<1> QED BY <1>1, <1>2

Replaced(s, i, e) == [s EXCEPT ![i] = e]

LEMMA ListExcept ==
  ASSUME NEW s, IsList(s), NEW i \in 1..Len(s), NEW e, NEW t, t = Replaced(s, i, e)
  PROVE  /\ IsList(t) /\ Len(t) = Len(s) /\ t[i] = e
         /\ \A j \in 1..Len(s) : j /= i => t[j] = s[j]
<1> DEFINE S == Range(s) \cup {e}
<1>1. Len(s) \in Nat /\ DOMAIN s = 1..Len(s) /\ \A j \in 1..Len(s) : s[j] \in Range(s)
  BY ListShape, ElementOfSeq DEF IsList
<1>2. t \in [1..Len(s) -> S] /\ t[i] = e /\ \A j \in 1..Len(s) : j /= i => t[j] = s[j] BY <1>1 DEF Replaced
<1>3. t \in Seq(S) BY <1>1, <1>2, SeqDef
<1>4. Len(t) = Len(s)
  <2>1. Len(t) \in Nat /\ DOMAIN t = 1..Len(t) BY <1>3, LenProperties
  <2>2. 1..Len(t) = 1..Len(s) BY <2>1, <1>2
  <2> QED BY <2>1, <2>2, <1>1, SameBounds
<1>5. IsList(t) BY <1>3, ListOf
<1> QED BY <1>2, <1>4, <1>5

LEMMA SmallestIndex ==
  ASSUME NEW S, S \subseteq Nat, S /= {}
  PROVE  \E i \in S : \A j \in S : i <= j
<1>1. PICK i \in S : \A j \in S : <<j, i>> \notin OpToRel(<, Nat)
  BY NatLessThanWellFounded, WFMin
<1>2. \A j \in S : ~(j < i) BY <1>1 DEF OpToRel
<1>3. \A j \in S : i <= j BY <1>2
<1> QED BY <1>3

LEMMA Greatest ==
  ASSUME NEW n \in Nat, NEW S, S \subseteq 1..n, S /= {}
  PROVE  Max(S) \in S /\ \A j \in S : Max(S) >= j
<1> DEFINE T == {n - i : i \in S}
<1>1. T \subseteq Nat /\ T /= {} OBVIOUS
<1>2. PICK t \in T : \A j \in T : t <= j BY <1>1, SmallestIndex
<1>3. PICK i \in S : t = n - i OBVIOUS
<1>4. ASSUME NEW j \in S PROVE i >= j
  <2>1. n - i <= n - j BY <1>2, <1>3
  <2> QED BY <2>1, <1>3
<1>5. \E m \in S : \A j \in S : m >= j BY <1>4
<1> QED BY <1>5 DEF Max

------------------------------------------------------------------------------
(* What is looked up depends on the scopes around, the nearest first. *)

(* The nearest scope at or around the i-th that classified the identifier ... *)
LEMMA VariableLookup ==
  ASSUME NEW open, NEW i \in Nat, NEW id
  PROVE  \/ /\ lookup_variable(open, i, id) = NoInfo
            /\ \A j \in 1..i : id \notin DOMAIN open[j].classified
         \/ \E j \in 1..i : /\ id \in DOMAIN open[j].classified
                            /\ lookup_variable(open, i, id) = open[j].classified[id]
                            /\ \A k \in 1..i : k > j => id \notin DOMAIN open[k].classified
<1> DEFINE S == {j \in 1..i : id \in DOMAIN open[j].classified}
<1>1. lookup_variable(open, i, id) = IF S = {} THEN NoInfo ELSE open[Max(S)].classified[id]
  BY DEF lookup_variable
<1>2. ASSUME S /= {} PROVE Max(S) \in S /\ \A j \in S : Max(S) >= j BY <1>2, Greatest
<1>3. CASE S = {} BY <1>1, <1>3
<1>4. CASE S /= {}
  <2>1. Max(S) \in 1..i /\ id \in DOMAIN open[Max(S)].classified BY <1>2, <1>4
  <2>2. ASSUME NEW k \in 1..i, k > Max(S) PROVE k \notin S BY <2>1, <2>2, <1>2, <1>4
  <2>3. \A k \in 1..i : k > Max(S) => id \notin DOMAIN open[k].classified BY <2>2
  <2> QED BY <2>1, <2>3, <1>1, <1>4
<1> QED BY <1>3, <1>4

(* ... or has a definition of it. *)
LEMMA SameLookups ==
  ASSUME NEW p, NEW q, NEW i \in Nat, \A j \in 1..i : p[j] = q[j], NEW id
  PROVE  /\ lookup_variable(p, i, id) = lookup_variable(q, i, id)
         /\ lookup_local_variable(p, i, id) = lookup_local_variable(q, i, id)
<1>1. lookup_variable(p, i, id) = lookup_variable(q, i, id)
  <2> DEFINE S == {j \in 1..i : id \in DOMAIN p[j].classified}
  <2>1. S = {j \in 1..i : id \in DOMAIN q[j].classified} OBVIOUS
  <2>2. S /= {} => Max(S) \in 1..i BY Greatest
  <2>3. S /= {} => p[Max(S)] = q[Max(S)] BY <2>2
  <2> QED BY <2>1, <2>3 DEF lookup_variable
<1>2. lookup_local_variable(p, i, id) = lookup_local_variable(q, i, id)
  <2> DEFINE S == {j \in 1..i : id \in DOMAIN p[j].local_variables}
  <2>1. S = {j \in 1..i : id \in DOMAIN q[j].local_variables} OBVIOUS
  <2>2. S /= {} => Max(S) \in 1..i BY Greatest
  <2>3. S /= {} => p[Max(S)] = q[Max(S)] BY <2>2
  <2> QED BY <2>1, <2>3 DEF lookup_local_variable
<1> QED BY <1>1, <1>2

LEMMA LookupHere ==
  ASSUME NEW open, NEW i \in Nat \ {0}, NEW id
  PROVE  lookup_variable(open, i, id) = IF id \in DOMAIN open[i].classified
                                        THEN open[i].classified[id]
                                        ELSE lookup_variable(open, i - 1, id)
<1> DEFINE S == {j \in 1..i : id \in DOMAIN open[j].classified}
           T == {j \in 1..i - 1 : id \in DOMAIN open[j].classified}
<1>1. CASE id \in DOMAIN open[i].classified
  <2>1. i \in S BY <1>1
  <2>2. Max(S) \in S /\ Max(S) >= i BY <2>1, Greatest
  <2>3. Max(S) = i BY <2>2
  <2> QED BY <2>1, <2>3, <1>1 DEF lookup_variable
<1>2. CASE id \notin DOMAIN open[i].classified
  <2>1. \A j \in 1..i : j = i \/ j \in 1..i - 1 OBVIOUS
  <2>2. S = T BY <2>1, <1>2
  <2> QED BY <2>2, <1>2 DEF lookup_variable
<1> QED BY <1>1, <1>2

------------------------------------------------------------------------------
(* What a scope knows of its identifiers: those with a definition of its own   *)
(* are classified as what is defined, those assigned to are variables or were  *)
(* reported, those called are functions.                                       *)

ScopeFields ==
  {"scope_depth", "local_functions", "imports", "classified", "local_variables", "contexts",
   "context_uuid", "assignment_contexts", "reported", "parameters", "sure", "assigned", "called",
   "flat"}

IsInfo(info) ==
  /\ DOMAIN info = {"type", "source", "context", "handle"}
  /\ info.type \in {"variable", "local_function", "external_function"}

Known(scope) ==
  /\ DOMAIN scope = ScopeFields
  /\ \A id \in DOMAIN scope.classified : IsInfo(scope.classified[id])
  /\ \A id \in DOMAIN scope.local_variables :
       /\ id \in DOMAIN scope.classified /\ is_variable(scope.classified[id])
       /\ scope.classified[id].handle = scope.local_variables[id]
  /\ \A id \in scope.assigned :
       id \in DOMAIN scope.classified /\ (is_variable(scope.classified[id]) \/ id \in scope.reported)
  /\ \A id \in scope.called : id \in DOMAIN scope.classified /\ is_function(scope.classified[id])

(* A scope has a definition of its own only for what the scopes around it have *)
(* not, its parameters excepted, and has what it shares from them.             *)
Fits(open, i, scope, parameters) ==
  /\ \A id \in DOMAIN scope.local_variables \ (scope.parameters \cup parameters) :
       ~is_variable(lookup_variable(open, i - 1, id))
  /\ \A id \in DOMAIN scope.classified \ DOMAIN scope.local_variables :
       is_variable(scope.classified[id]) =>
         /\ is_variable(lookup_variable(open, i - 1, id))
         /\ lookup_variable(open, i - 1, id).handle = scope.classified[id].handle

Sound(open) ==
  IsList(open) /\ \A i \in 1..Len(open) : Known(open[i]) /\ Fits(open, i, open[i], {})

Keeps(s, t) ==
  \A id \in DOMAIN s.classified :
    /\ id \in DOMAIN t.classified
    /\ t.classified[id].type = s.classified[id].type
    /\ t.classified[id].handle = s.classified[id].handle

(* What the scope at hand may become. *)
Becomes(open, t, parameters) ==
  Known(t) /\ Fits(open, Len(open), t, parameters) /\ Keeps(Last(open), t)

LEMMA LookedUpIsInfo ==
  ASSUME NEW open, Sound(open), NEW i \in 0..Len(open), NEW id,
         lookup_variable(open, i, id) /= NoInfo
  PROVE  IsInfo(lookup_variable(open, i, id))
<1>1. Len(open) \in Nat /\ i \in Nat BY ListShape DEF Sound
<1>2. \E j \in 1..i : /\ id \in DOMAIN open[j].classified
                      /\ lookup_variable(open, i, id) = open[j].classified[id]
  BY <1>1, VariableLookup
<1>3. \A j \in 1..i : Known(open[j]) BY <1>1 DEF Sound
<1> QED BY <1>2, <1>3 DEF Known

LEMMA NoInfoIsNone == ~is_variable(NoInfo) /\ ~is_function(NoInfo) /\ NoInfo.type = "unknown"
BY DEF NoInfo, is_variable, is_function

LEMMA KindOfInfo ==
  ASSUME NEW info, IsInfo(info)
  PROVE  is_variable(info) <=> ~is_function(info)
BY DEF IsInfo, is_variable, is_function

LEMMA FitsElsewhere ==
  ASSUME NEW p, NEW q, NEW i \in Nat \ {0}, \A j \in 1..i - 1 : p[j] = q[j], NEW s, NEW ps,
         Fits(p, i, s, ps)
  PROVE  Fits(q, i, s, ps)
<1>1. \A id : lookup_variable(p, i - 1, id) = lookup_variable(q, i - 1, id)
  BY SameLookups
<1> QED BY <1>1 DEF Fits

(* The scope at hand becomes another, ... *)
LEMMA UpdateSound ==
  ASSUME NEW open, Sound(open), Len(open) >= 1, NEW t, Known(t), Fits(open, Len(open), t, {}),
         NEW q, q = Replaced(open, Len(open), t)
  PROVE  /\ Sound(q) /\ Len(q) = Len(open) /\ Last(q) = t
         /\ \A i \in 1..Len(open) - 1 : q[i] = open[i]
<1> DEFINE n == Len(open)
<1>1. n \in Nat /\ n \in 1..n /\ IsList(open) BY ListShape DEF Sound
<1>2. /\ IsList(q) /\ Len(q) = n /\ q[n] = t
      /\ \A i \in 1..n : i /= n => q[i] = open[i]
  BY <1>1, ListExcept
<1>3. \A i \in 1..n : Known(open[i]) /\ Fits(open, i, open[i], {}) BY DEF Sound
<1>4. Known(t) /\ Fits(open, n, t, {}) OBVIOUS
<1> HIDE DEF n
<1>5. ASSUME NEW i \in 1..n PROVE Known(q[i]) /\ Fits(q, i, q[i], {})
  <2>1. \A j \in 1..i - 1 : open[j] = q[j] BY <1>1, <1>2
  <2>2. i \in Nat \ {0} BY <1>1
  <2>3. CASE i = n
    <3>1. Fits(open, i, t, {}) BY <2>3, <1>4
    <3>2. Fits(q, i, t, {}) BY <3>1, <2>1, <2>2, FitsElsewhere
    <3> QED BY <3>2, <2>3, <1>2, <1>4
  <2>4. CASE i /= n
    <3>1. q[i] = open[i] BY <2>4, <1>2
    <3>2. Fits(q, i, open[i], {}) BY <1>3, <2>1, <2>2, FitsElsewhere
    <3> QED BY <3>1, <3>2, <1>3
  <2> QED BY <2>3, <2>4
<1>6. Sound(q) BY <1>2, <1>5 DEF Sound
<1>7. \A i \in 1..n - 1 : q[i] = open[i] BY <1>1, <1>2
<1>8. Last(q) = t BY <1>2 DEF Last
<1> QED BY <1>2, <1>6, <1>7, <1>8 DEF n

(* ... is left, ... *)
LEMMA LeaveSound ==
  ASSUME NEW open, Sound(open), Len(open) >= 1
  PROVE  Sound(Front(open))
<1> DEFINE n == Len(open)
           q == Front(open)
<1>1. n \in Nat /\ IsList(open) BY ListShape DEF Sound
<1>2. IsList(q) /\ Len(q) = n - 1 /\ \A i \in 1..n - 1 : q[i] = open[i] BY <1>1, ListFront
<1>3. \A i \in 1..n : Known(open[i]) /\ Fits(open, i, open[i], {}) BY DEF Sound
<1> HIDE DEF n, q
<1>4. ASSUME NEW i \in 1..n - 1 PROVE Known(q[i]) /\ Fits(q, i, q[i], {})
  <2>1. /\ i \in Nat \ {0} /\ i \in 1..n /\ q[i] = open[i]
        /\ \A j \in 1..i - 1 : open[j] = q[j]
    BY <1>1, <1>2
  <2>2. Fits(q, i, open[i], {}) BY <2>1, <1>3, FitsElsewhere
  <2> QED BY <2>1, <2>2, <1>3
<1> QED BY <1>2, <1>4 DEF Sound, q

Longer(s, e) == Append(s, e)

(* ... or has one within it opened. *)
LEMMA OpenSound ==
  ASSUME NEW open, Sound(open), NEW t, Known(t), Fits(open, Len(open) + 1, t, {}),
         NEW q, q = Longer(open, t)
  PROVE  /\ Sound(q) /\ Len(q) = Len(open) + 1 /\ Last(q) = t
         /\ \A i \in 1..Len(open) : q[i] = open[i]
<1> DEFINE n == Len(open)
<1>1. n \in Nat /\ IsList(open) BY ListShape DEF Sound
<1>2. /\ IsList(q) /\ Len(q) = n + 1 /\ q[n + 1] = t /\ Last(q) = t
      /\ \A i \in 1..n : q[i] = open[i]
  BY <1>1, ListAppend DEF Longer
<1>3. \A i \in 1..n : Known(open[i]) /\ Fits(open, i, open[i], {}) BY DEF Sound
<1>4. Known(t) /\ Fits(open, n + 1, t, {}) OBVIOUS
<1> HIDE DEF n
<1>5. ASSUME NEW i \in 1..n + 1 PROVE Known(q[i]) /\ Fits(q, i, q[i], {})
  <2>1. i \in Nat \ {0} /\ \A j \in 1..i - 1 : open[j] = q[j] BY <1>1, <1>2
  <2>2. CASE i = n + 1
    <3>1. Fits(open, i, t, {}) BY <2>2, <1>4
    <3>2. Fits(q, i, t, {}) BY <3>1, <2>1, FitsElsewhere
    <3> QED BY <3>2, <2>2, <1>2, <1>4
  <2>3. CASE i /= n + 1
    <3>1. i \in 1..n /\ q[i] = open[i] BY <2>3, <1>1, <1>2
    <3>2. Fits(q, i, open[i], {}) BY <3>1, <1>3, <2>1, FitsElsewhere
    <3> QED BY <3>1, <3>2, <1>3
  <2> QED BY <2>2, <2>3
<1> QED BY <1>2, <1>5 DEF Sound, n

------------------------------------------------------------------------------
(* What changes a scope and none of what its identifiers are. *)

Alike(s, t) ==
  /\ DOMAIN t = ScopeFields
  /\ t.local_variables = s.local_variables /\ t.parameters = s.parameters
  /\ t.assigned = s.assigned /\ t.called = s.called /\ s.reported \subseteq t.reported
  /\ DOMAIN t.classified = DOMAIN s.classified
  /\ \A id \in DOMAIN s.classified :
       /\ DOMAIN t.classified[id] = DOMAIN s.classified[id]
       /\ t.classified[id].type = s.classified[id].type
       /\ t.classified[id].handle = s.classified[id].handle

LEMMA AlikeTransitive ==
  ASSUME NEW s, NEW t, NEW u, Alike(s, t), Alike(t, u)
  PROVE  Alike(s, u)
BY DEF Alike

LEMMA AlikeKnown ==
  ASSUME NEW s, Known(s), NEW t, Alike(s, t)
  PROVE  Known(t) /\ Keeps(s, t)
<1>1. \A id \in DOMAIN s.classified :
        /\ IsInfo(s.classified[id]) => IsInfo(t.classified[id])
        /\ is_variable(s.classified[id]) = is_variable(t.classified[id])
        /\ is_function(s.classified[id]) = is_function(t.classified[id])
  BY DEF Alike, IsInfo, is_variable, is_function
<1>2. Known(t) BY <1>1 DEF Alike, Known
<1>3. Keeps(s, t) BY DEF Alike, Keeps
<1> QED BY <1>2, <1>3

LEMMA AlikeFits ==
  ASSUME NEW s, NEW t, Alike(s, t), NEW open, NEW i, NEW ps, Fits(open, i, s, ps)
  PROVE  Fits(open, i, t, ps)
<1>1. \A id \in DOMAIN s.classified : is_variable(s.classified[id]) = is_variable(t.classified[id])
  BY DEF Alike, is_variable
<1> QED BY <1>1 DEF Alike, Fits

LEMMA KeepsTransitive ==
  ASSUME NEW s, NEW t, NEW u, Keeps(s, t), Keeps(t, u)
  PROVE  Keeps(s, u)
BY DEF Keeps

LEMMA AlikeBecomes ==
  ASSUME NEW open, NEW s, NEW ps, Becomes(open, s, ps), NEW t, Alike(s, t)
  PROVE  Becomes(open, t, ps)
<1>1. Known(t) /\ Keeps(s, t) BY AlikeKnown DEF Becomes
<1>2. Fits(open, Len(open), t, ps) BY AlikeFits DEF Becomes
<1>3. Keeps(Last(open), t) BY <1>1, KeepsTransitive DEF Becomes
<1> QED BY <1>1, <1>2, <1>3 DEF Becomes

LEMMA StaysItself ==
  ASSUME NEW open, Sound(open), Len(open) >= 1
  PROVE  Known(Last(open)) /\ Becomes(open, Last(open), {})
<1>1. Len(open) \in Nat /\ Len(open) \in 1..Len(open) BY ListShape DEF Sound
<1>2. Known(open[Len(open)]) /\ Fits(open, Len(open), open[Len(open)], {}) BY <1>1 DEF Sound
<1>3. Last(open) = open[Len(open)] BY DEF Last
<1>4. Keeps(Last(open), Last(open)) BY DEF Keeps
<1> QED BY <1>2, <1>3, <1>4 DEF Becomes

(* Contexts, contexts of assignment, and what is only recorded. *)
LEMMA AlikeRecorded ==
  ASSUME NEW s, DOMAIN s = ScopeFields
  PROVE  /\ Alike(s, s)
         /\ \A e : Alike(s, [s EXCEPT !.sure = e])
         /\ \A e : Alike(s, [s EXCEPT !.flat = e])
         /\ \A e : s.reported \subseteq e => Alike(s, [s EXCEPT !.reported = e])
         /\ \A e : Alike(s, [s EXCEPT !.assignment_contexts = e])
         /\ \A e : Alike(s, [s EXCEPT !.contexts = e])
         /\ \A e : Alike(s, [s EXCEPT !.context_uuid = e])
BY DEF Alike, ScopeFields

LEMMA AlikeRegistered ==
  ASSUME NEW s, DOMAIN s = ScopeFields, NEW ids
  PROVE  Alike(s, RegisterAssigned(s, ids))
<1>1. CASE s.assignment_contexts = <<>> BY <1>1, AlikeRecorded DEF RegisterAssigned
<1>2. CASE s.assignment_contexts /= <<>>
  <2> DEFINE e == [s.assignment_contexts EXCEPT ![Len(s.assignment_contexts)].assigned =
                     register_assignment(@, ids, current_context(s).uuid)]
  <2>1. RegisterAssigned(s, ids) = [s EXCEPT !.assignment_contexts = e]
    BY <1>2 DEF RegisterAssigned, ScopeFields
  <2> HIDE DEF e
  <2> QED BY <2>1, AlikeRecorded
<1> QED BY <1>1, <1>2

LEMMA AlikePushed ==
  ASSUME NEW s, DOMAIN s = ScopeFields
  PROVE  Alike(s, push_context(s))
<1> DEFINE uuid == s.context_uuid
           context == [depth |-> Len(s.contexts) + 1, scope_depth |-> s.scope_depth, uuid |-> uuid]
           e == Append(s.contexts, context)
           c == uuid + 1
           pushed == [s EXCEPT !.context_uuid = c, !.contexts = e]
           a == [pushed.assignment_contexts EXCEPT ![Len(s.assignment_contexts)].children = @ \cup {uuid}]
<1>1. Alike(s, pushed)
  <2> HIDE DEF e, c
  <2> QED BY DEF Alike, ScopeFields
<1>2. DOMAIN pushed = ScopeFields BY <1>1 DEF Alike
<1>3. \/ push_context(s) = pushed
      \/ push_context(s) = [pushed EXCEPT !.assignment_contexts = a]
  <2>1. push_context(s) = IF s.assignment_contexts = <<>> THEN pushed
          ELSE [pushed EXCEPT !.assignment_contexts[Len(s.assignment_contexts)].children = @ \cup {uuid}]
    BY Zenon DEF push_context
  <2> HIDE DEF uuid, e, c, context
  <2>2. [pushed EXCEPT !.assignment_contexts[Len(s.assignment_contexts)].children = @ \cup {uuid}]
          = [pushed EXCEPT !.assignment_contexts = a]
    <3> HIDE DEF pushed
    <3> QED BY <1>2 DEF ScopeFields
  <2> QED BY <2>1, <2>2
<1> HIDE DEF a, pushed
<1>4. Alike(pushed, [pushed EXCEPT !.assignment_contexts = a]) BY <1>2, AlikeRecorded
<1> QED BY <1>1, <1>3, <1>4, AlikeTransitive

LEMMA AlikePopped ==
  ASSUME NEW s, DOMAIN s = ScopeFields
  PROVE  Alike(s, pop_context(s))
BY AlikeRecorded DEF pop_context

LEMMA AlikeBranching ==
  ASSUME NEW s, DOMAIN s = ScopeFields
  PROVE  Alike(s, push_variable_assignment_context(s))
BY AlikeRecorded DEF push_variable_assignment_context

LEMMA AlikeJoined ==
  ASSUME NEW s, Known(s)
  PROVE  Alike(s, pop_variable_assignment_context(s))
<1> DEFINE promoted == Promotable(Last(s.assignment_contexts))
           f == Front(s.assignment_contexts)
           c == current_context(s)
           e == [id \in DOMAIN s.classified |->
                   IF id \in promoted THEN [s.classified[id] EXCEPT !.context = c] ELSE s.classified[id]]
           t == [s EXCEPT !.assignment_contexts = f, !.classified = e]
<1>1. pop_variable_assignment_context(s) = RegisterAssigned(t, promoted)
  BY DEF pop_variable_assignment_context, PopPromoting, Known, ScopeFields
<1> HIDE DEF promoted, f, c
<1>2. \A id \in DOMAIN s.classified :
        /\ DOMAIN e[id] = DOMAIN s.classified[id]
        /\ e[id].type = s.classified[id].type /\ e[id].handle = s.classified[id].handle
  BY DEF Known, IsInfo
<1>3. Alike(s, t)
  <2>1. DOMAIN e = DOMAIN s.classified OBVIOUS
  <2> HIDE DEF e
  <2> QED BY <1>2, <2>1 DEF Alike, Known, ScopeFields
<1> HIDE DEF t
<1>4. DOMAIN t = ScopeFields BY <1>3 DEF Alike
<1>5. Alike(t, RegisterAssigned(t, promoted)) BY <1>4, AlikeRegistered
<1> QED BY <1>1, <1>3, <1>5, AlikeTransitive

------------------------------------------------------------------------------
(* What classifies an identifier. *)

(* Everything but the classification and the definitions of the scope. *)
SameRest(s, t) ==
  /\ DOMAIN t = ScopeFields
  /\ t.parameters = s.parameters /\ t.assigned = s.assigned /\ t.called = s.called
  /\ s.reported \subseteq t.reported

LEMMA Classified ==
  ASSUME NEW s, DOMAIN s = ScopeFields, NEW id, NEW info
  PROVE  /\ SameRest(s, Classify(s, id, info))
         /\ Classify(s, id, info).local_variables = s.local_variables
         /\ Classify(s, id, info).classified = Bind(s.classified, id, info)
<1> DEFINE b == Bind(s.classified, id, info)
<1>1. Classify(s, id, info) = [s EXCEPT !.classified = b] BY DEF Classify
<1> HIDE DEF b
<1>2. /\ SameRest(s, [s EXCEPT !.classified = b])
      /\ [s EXCEPT !.classified = b].local_variables = s.local_variables
      /\ [s EXCEPT !.classified = b].classified = b
  BY DEF SameRest, ScopeFields
<1> QED BY <1>1, <1>2 DEF b

(* An identifier the scope has not met is settled, ... *)
LEMMA ClassifiedNew ==
  ASSUME NEW open, Sound(open), Len(open) >= 1, NEW id, id \notin DOMAIN Last(open).classified,
         NEW info, IsInfo(info),
         is_variable(info) => /\ is_variable(lookup_variable(open, Len(open) - 1, id))
                              /\ lookup_variable(open, Len(open) - 1, id).handle = info.handle
  PROVE  Becomes(open, Classify(Last(open), id, info), {})
<1> DEFINE s == Last(open)
           t == Classify(s, id, info)
<1>1. Known(s) /\ Becomes(open, s, {}) BY StaysItself
<1> HIDE DEF s
<1>2. /\ SameRest(s, t) /\ t.local_variables = s.local_variables
      /\ t.classified = Bind(s.classified, id, info)
  BY <1>1, Classified DEF Known
<1>8. id \notin DOMAIN s.classified BY DEF s
<1> HIDE DEF t
<1>3. /\ DOMAIN t.classified = DOMAIN s.classified \cup {id} /\ t.classified[id] = info
      /\ \A i \in DOMAIN s.classified : i /= id /\ t.classified[i] = s.classified[i]
  BY <1>2, <1>8 DEF Bind
<1>4. Known(t) BY <1>1, <1>2, <1>3 DEF Known, SameRest
<1>5. Keeps(s, t) BY <1>3 DEF Keeps
<1>6. Fits(open, Len(open), s, {}) BY <1>1 DEF Becomes
<1>7. Fits(open, Len(open), t, {}) BY <1>2, <1>3, <1>6 DEF Fits, SameRest
<1> QED BY <1>4, <1>5, <1>7 DEF Becomes, s, t

(* ... one it has met stays what it was. *)
LEMMA ClassifiedAgain ==
  ASSUME NEW open, Sound(open), Len(open) >= 1, NEW id, id \in DOMAIN Last(open).classified,
         NEW info, IsInfo(info), info.type = Last(open).classified[id].type,
         info.handle = Last(open).classified[id].handle
  PROVE  Becomes(open, Classify(Last(open), id, info), {})
<1> DEFINE s == Last(open)
           t == Classify(s, id, info)
<1>1. Known(s) /\ Becomes(open, s, {}) BY StaysItself
<1>0. info.type = s.classified[id].type /\ info.handle = s.classified[id].handle OBVIOUS
<1>2. /\ SameRest(s, t) /\ t.local_variables = s.local_variables
      /\ t.classified = Bind(s.classified, id, info)
  BY <1>1, Classified DEF Known
<1>8. id \in DOMAIN s.classified OBVIOUS
<1> HIDE DEF s, t
<1>3. /\ DOMAIN t.classified = DOMAIN s.classified /\ t.classified[id] = info
      /\ \A i \in DOMAIN s.classified : i /= id => t.classified[i] = s.classified[i]
  BY <1>2, <1>8 DEF Bind
<1>4. \A i \in DOMAIN s.classified :
        /\ DOMAIN t.classified[i] = DOMAIN s.classified[i]
        /\ t.classified[i].type = s.classified[i].type
        /\ t.classified[i].handle = s.classified[i].handle
  BY <1>0, <1>1, <1>3 DEF Known, IsInfo
<1>5. Alike(s, t) BY <1>2, <1>3, <1>4 DEF Alike, SameRest
<1>6. Becomes(open, t, {}) BY <1>1, <1>5, AlikeBecomes
<1> QED BY <1>6 DEF s, t

LEMMA FunctionInfoIsFunction ==
  ASSUME NEW open, NEW id
  PROVE  /\ IsInfo(FunctionInfo(open, id)) /\ is_function(FunctionInfo(open, id))
         /\ IsInfo(ExternalInfo(open, id)) /\ is_function(ExternalInfo(open, id))
         /\ ~is_variable(FunctionInfo(open, id)) /\ ~is_variable(ExternalInfo(open, id))
BY DEF FunctionInfo, ExternalInfo, IsInfo, is_function, is_variable

LEMMA ReferenceBecomes ==
  ASSUME NEW open, Sound(open), Len(open) >= 1, NEW id, NEW r, r = register_identifier_reference(open, id)
  PROVE  /\ Becomes(open, r.scope, {}) /\ SameRest(Last(open), r.scope)
         /\ id \in DOMAIN r.scope.classified
         /\ ~is_variable(lookup_variable(open, Len(open), id)) => is_function(r.scope.classified[id])
         /\ is_function(r.info) => is_function(r.scope.classified[id])
<1> DEFINE n == Len(open)
           s == Last(open)
           inherited == lookup_variable(open, n, id)
           info == IF Inherits(open, id, inherited) THEN inherited ELSE FunctionInfo(open, id)
           again == info.type = "external_function" /\ Inherits(open, id, inherited) /\ ~is_compound(info.source)
<1>1. n \in Nat \ {0} /\ Last(open) = open[n] BY ListShape DEF Sound, Last
<1>2. Known(s) BY StaysItself
<1>3. inherited = IF id \in DOMAIN s.classified THEN s.classified[id] ELSE lookup_variable(open, n - 1, id)
  BY <1>1, LookupHere
<1>4. inherited /= NoInfo => IsInfo(inherited) BY <1>1, LookedUpIsInfo
<1>5. IsInfo(info) BY <1>4, FunctionInfoIsFunction DEF Inherits
<1>6. r.scope = Classify(s, id, info) /\ r.info = IF again THEN ExternalInfo(open, id) ELSE info
  <2> HIDE DEF info, s
  <2> QED BY DEF register_identifier_reference, info, inherited, s
<1>7. SameRest(s, r.scope) /\ r.scope.classified = Bind(s.classified, id, info)
  BY <1>2, <1>6, Classified DEF Known
<1>8. id \in DOMAIN r.scope.classified /\ r.scope.classified[id] = info BY <1>7 DEF Bind
<1>9. ~is_variable(inherited) => is_function(info)
  <2>1. inherited /= NoInfo /\ ~is_variable(inherited) => is_function(inherited) BY <1>4, KindOfInfo
  <2> HIDE DEF inherited
  <2> QED BY <2>1, FunctionInfoIsFunction DEF Inherits
<1>10. is_function(r.info) => is_function(info)
  <2>1. again => is_function(info) BY DEF is_function
  <2> HIDE DEF again, info
  <2> QED BY <1>6, <2>1
<1>11. Becomes(open, r.scope, {})
  <2>1. CASE id \in DOMAIN s.classified
    <3>1. inherited = s.classified[id] /\ IsInfo(s.classified[id]) BY <1>2, <1>3, <2>1 DEF Known
    <3>2. inherited /= NoInfo BY <3>1 DEF IsInfo, NoInfo
    <3>3. info = s.classified[id] BY <3>1, <3>2, <2>1 DEF Inherits
    <3>4. id \in DOMAIN Last(open).classified /\ info = Last(open).classified[id] BY <2>1, <3>3
    <3> HIDE DEF info, inherited
    <3>5. Becomes(open, Classify(Last(open), id, info), {}) BY <1>5, <3>4, ClassifiedAgain
    <3> QED BY <3>5, <1>6
  <2>2. CASE id \notin DOMAIN s.classified
    <3>1. inherited = lookup_variable(open, n - 1, id) BY <1>3, <2>2
    <3>2. is_variable(info) => info = inherited BY FunctionInfoIsFunction
    <3>3. /\ id \notin DOMAIN Last(open).classified
          /\ is_variable(info) => /\ is_variable(lookup_variable(open, Len(open) - 1, id))
                                  /\ lookup_variable(open, Len(open) - 1, id).handle = info.handle
      <4> HIDE DEF info, inherited
      <4> QED BY <3>1, <3>2, <2>2
    <3> HIDE DEF info, inherited
    <3>4. Becomes(open, Classify(Last(open), id, info), {}) BY <1>5, <3>3, ClassifiedNew
    <3> QED BY <3>4, <1>6
  <2> QED BY <2>1, <2>2
<1> HIDE DEF info, again
<1> QED BY <1>7, <1>8, <1>9, <1>10, <1>11

LEMMA ImportBecomes ==
  ASSUME NEW open, Sound(open), Len(open) >= 1, NEW x, NEW r, r = register_fully_qualified_import(open, x)
  PROVE  Becomes(open, r.scope, {}) /\ SameRest(Last(open), r.scope)
<1> DEFINE s == Last(open)
           n == Len(open)
           id == Id(x)
           inherited == lookup_variable(open, n, Package(x))
           info == IF inherited.type = "external_function" THEN inherited ELSE ExternalInfo(open, Package(x))
<1>1. Known(s) /\ Becomes(open, s, {}) /\ n \in 0..Len(open) BY StaysItself, ListShape DEF Sound
<1>2. CASE id \in DOMAIN s.classified
  <2>1. r.scope = s BY <1>2 DEF register_fully_qualified_import
  <2>2. SameRest(s, s) BY <1>1 DEF SameRest, Known
  <2> QED BY <2>1, <2>2, <1>1
<1>3. CASE id \notin DOMAIN s.classified
  <2>1. r.scope = Classify(s, id, info)
    <3> HIDE DEF info, s, id
    <3> QED BY <1>3 DEF register_fully_qualified_import, info, s, id, inherited, n
  <2>2. inherited.type = "external_function" => inherited /= NoInfo BY NoInfoIsNone
  <2>3. inherited /= NoInfo => IsInfo(inherited) BY <1>1, LookedUpIsInfo
  <2>4. inherited.type = "external_function" => ~is_variable(inherited) BY DEF is_variable
  <2>5. IsInfo(info) /\ ~is_variable(info)
    <3> HIDE DEF inherited
    <3> QED BY <2>2, <2>3, <2>4, FunctionInfoIsFunction
  <2>6. id \notin DOMAIN Last(open).classified BY <1>3
  <2> HIDE DEF info, id
  <2>7. Becomes(open, Classify(Last(open), id, info), {}) BY <2>5, <2>6, ClassifiedNew
  <2>8. SameRest(s, r.scope) BY <2>1, <1>1, Classified DEF Known
  <2> QED BY <2>1, <2>7, <2>8
<1> QED BY <1>2, <1>3

------------------------------------------------------------------------------
(* Assignments. *)

Marked(u, id) == [u EXCEPT !.assigned = @ \cup {id}]

LEMMA MarkedAssigned ==
  ASSUME NEW open, NEW u, NEW ps, Becomes(open, u, ps), NEW id, id \in DOMAIN u.classified,
         is_variable(u.classified[id]) \/ id \in u.reported, NEW t, t = Marked(u, id)
  PROVE  Becomes(open, t, ps) /\ t.parameters = u.parameters /\ t.called = u.called
<1> DEFINE a == u.assigned \cup {id}
<1>1. DOMAIN u = ScopeFields BY DEF Becomes, Known
<1>2. t = [u EXCEPT !.assigned = a] BY <1>1 DEF Marked, ScopeFields
<1>3. a = u.assigned \cup {id} OBVIOUS
<1> HIDE DEF a
<1>4. /\ DOMAIN t = ScopeFields /\ t.assigned = a /\ t.reported = u.reported
      /\ t.classified = u.classified /\ t.local_variables = u.local_variables
      /\ t.parameters = u.parameters /\ t.called = u.called
  BY <1>1, <1>2 DEF ScopeFields
<1>5. Known(t) BY <1>3, <1>4 DEF Becomes, Known
<1>6. Fits(open, Len(open), t, ps) BY <1>4 DEF Becomes, Fits
<1>7. Keeps(Last(open), t) BY <1>4 DEF Becomes, Keeps
<1> QED BY <1>4, <1>5, <1>6, <1>7 DEF Becomes

(* A definition of its own is made for what no scope around has, or a parameter. *)
LEMMA DefinedNew ==
  ASSUME NEW open, Sound(open), Len(open) >= 1, NEW id, id \notin DOMAIN Last(open).classified,
         NEW handle, NEW ps,
         is_variable(lookup_variable(open, Len(open) - 1, id)) => id \in ps,
         NEW t, t = [Classify(Last(open), id, VariableInfo(id, Last(open), handle))
                       EXCEPT !.local_variables = Bind(@, id, handle)]
  PROVE  /\ Becomes(open, t, ps) /\ SameRest(Last(open), t)
         /\ id \in DOMAIN t.classified /\ is_variable(t.classified[id])
<1> DEFINE s == Last(open)
           info == VariableInfo(id, s, handle)
           c == Bind(s.classified, id, info)
           l == Bind(s.local_variables, id, handle)
           u == Classify(s, id, info)
<1>1. Known(s) /\ Becomes(open, s, {}) BY StaysItself
<1>2. id \notin DOMAIN s.classified /\ id \notin DOMAIN s.local_variables BY <1>1 DEF Known
<1>3. IsInfo(info) /\ is_variable(info) /\ info.handle = handle BY DEF VariableInfo, IsInfo, is_variable
<1> HIDE DEF info, s
<1>4. SameRest(s, u) /\ u.local_variables = s.local_variables /\ u.classified = c
  BY <1>1, Classified DEF Known
<1>5. t = [u EXCEPT !.local_variables = l]
  <2>1. t = [u EXCEPT !.local_variables = Bind(@, id, handle)] BY DEF s, info
  <2> HIDE DEF u
  <2> QED BY <2>1, <1>4 DEF SameRest, ScopeFields
<1>6. /\ DOMAIN c = DOMAIN s.classified \cup {id} /\ c[id] = info
      /\ \A i \in DOMAIN s.classified : i /= id /\ c[i] = s.classified[i]
  BY <1>2 DEF Bind
<1>7. /\ DOMAIN l = DOMAIN s.local_variables \cup {id} /\ l[id] = handle
      /\ \A i \in DOMAIN s.local_variables : i /= id /\ l[i] = s.local_variables[i]
  BY <1>2 DEF Bind
<1> HIDE DEF c, l, u
<1>8. SameRest(s, t) /\ t.local_variables = l /\ t.classified = c
  BY <1>4, <1>5 DEF SameRest, ScopeFields
<1>9. Known(t) BY <1>1, <1>3, <1>6, <1>7, <1>8 DEF Known, SameRest
<1>10. Keeps(s, t) BY <1>6, <1>8 DEF Keeps
<1>11. Fits(open, Len(open), s, {}) BY <1>1 DEF Becomes
<1>12. Fits(open, Len(open), t, ps)
  <2>1. ASSUME NEW i \in DOMAIN t.local_variables \ (t.parameters \cup ps)
        PROVE  ~is_variable(lookup_variable(open, Len(open) - 1, i))
    BY <1>7, <1>8, <1>11 DEF Fits, SameRest
  <2>2. ASSUME NEW i \in DOMAIN t.classified \ DOMAIN t.local_variables, is_variable(t.classified[i])
        PROVE  /\ is_variable(lookup_variable(open, Len(open) - 1, i))
               /\ lookup_variable(open, Len(open) - 1, i).handle = t.classified[i].handle
    BY <2>2, <1>6, <1>7, <1>8, <1>11 DEF Fits, SameRest
  <2> QED BY <2>1, <2>2 DEF Fits
<1> QED BY <1>3, <1>6, <1>8, <1>9, <1>10, <1>12 DEF Becomes, s

LEMMA NewVariableBecomes ==
  ASSUME NEW open, Sound(open), Len(open) >= 1, NEW id, id \notin DOMAIN Last(open).classified,
         NEW made, NEW is_parameter \in BOOLEAN, NEW ps, is_parameter => id \in ps,
         NEW r, r = NewVariable(open, made, id, is_parameter)
  PROVE  /\ Becomes(open, r.scope, ps) /\ SameRest(Last(open), r.scope)
         /\ id \in DOMAIN r.scope.classified /\ is_variable(r.scope.classified[id])
<1> DEFINE s == Last(open)
           n == Len(open)
           inherited == lookup_variable(open, n - 1, id)
           info == [inherited EXCEPT !.context = current_context(s)]
           handle == <<"variable", made + 1>>
           t == [Classify(s, id, VariableInfo(id, s, handle))
                  EXCEPT !.local_variables = Bind(@, id, handle)]
<1>1. Known(s) /\ n - 1 \in 0..Len(open) BY StaysItself, ListShape DEF Sound
<1>2. r.scope = IF Shares(inherited, is_parameter) THEN Classify(s, id, info) ELSE RegisterAssigned(t, {id})
  <2> HIDE DEF inherited, info, t
  <2> QED BY DEF NewVariable, inherited, info, t, s, n, handle
<1>3. CASE Shares(inherited, is_parameter)
  <2>1. is_variable(inherited) /\ inherited /= NoInfo BY <1>3, NoInfoIsNone DEF Shares
  <2>2. IsInfo(inherited) BY <1>1, <2>1, LookedUpIsInfo
  <2>3. IsInfo(info) /\ is_variable(info) /\ info.handle = inherited.handle
    <3> HIDE DEF inherited
    <3> QED BY <2>1, <2>2 DEF IsInfo, is_variable
  <2>4. id \notin DOMAIN s.classified BY DEF s
  <2> HIDE DEF info, s
  <2>5. Becomes(open, Classify(s, id, info), {}) BY <2>1, <2>3, ClassifiedNew DEF s
  <2>6. Becomes(open, Classify(s, id, info), ps) BY <2>5 DEF Becomes, Fits
  <2>7. SameRest(s, r.scope) /\ r.scope.classified = Bind(s.classified, id, info)
    BY <1>1, <1>2, <1>3, Classified DEF Known
  <2>8. id \in DOMAIN r.scope.classified /\ r.scope.classified[id] = info BY <2>7 DEF Bind
  <2> QED BY <1>2, <1>3, <2>3, <2>6, <2>7, <2>8 DEF s
<1>4. CASE ~Shares(inherited, is_parameter)
  <2>1. is_variable(inherited) => id \in ps BY <1>4 DEF Shares
  <2>2. /\ Becomes(open, t, ps) /\ SameRest(s, t)
        /\ id \in DOMAIN t.classified /\ is_variable(t.classified[id])
    <3>1. t = [Classify(Last(open), id, VariableInfo(id, Last(open), handle))
                 EXCEPT !.local_variables = Bind(@, id, handle)] OBVIOUS
    <3>2. is_variable(lookup_variable(open, Len(open) - 1, id)) => id \in ps BY <2>1
    <3> HIDE DEF t, handle
    <3> QED BY <3>1, <3>2, DefinedNew
  <2> HIDE DEF t
  <2>3. Alike(t, RegisterAssigned(t, {id})) BY <2>2, AlikeRegistered DEF Becomes, Known
  <2>4. r.scope = RegisterAssigned(t, {id}) BY <1>2, <1>4
  <2>5. Becomes(open, r.scope, ps) BY <2>2, <2>3, <2>4, AlikeBecomes
  <2>6. SameRest(s, r.scope) BY <2>2, <2>3, <2>4 DEF SameRest, Alike
  <2>7. id \in DOMAIN r.scope.classified /\ is_variable(r.scope.classified[id])
    BY <2>2, <2>3, <2>4 DEF Alike, is_variable
  <2> QED BY <2>5, <2>6, <2>7
<1> QED BY <1>3, <1>4

LEMMA OldVariableBecomes ==
  ASSUME NEW open, Sound(open), Len(open) >= 1, NEW id, id \in DOMAIN Last(open).classified,
         NEW r, r = OldVariable(Last(open), id)
  PROVE  /\ Becomes(open, r.scope, {}) /\ SameRest(Last(open), r.scope)
         /\ r.success => id \in DOMAIN r.scope.classified /\ is_variable(r.scope.classified[id])
<1> DEFINE s == Last(open)
           info == s.classified[id]
           c == [s.classified EXCEPT ![id] = [info EXCEPT !.context = current_context(s)]]
           t == [s EXCEPT !.classified = c]
           u == IF current_context_depth(s) <= info.context.depth THEN t ELSE s
<1>1. Known(s) /\ Becomes(open, s, {}) BY StaysItself
<1>2. CASE ~is_variable(info)
  <2>1. r.scope = s /\ r.success = FALSE BY <1>2 DEF OldVariable
  <2>2. SameRest(s, s) BY <1>1 DEF SameRest, Known
  <2> QED BY <2>1, <2>2, <1>1
<1>3. CASE is_variable(info)
  <2>0. id \in DOMAIN s.classified BY DEF s
  <2> HIDE DEF s
  <2>1. DOMAIN s = ScopeFields /\ \A i \in DOMAIN s.classified : IsInfo(s.classified[i])
    BY <1>1 DEF Known
  <2>2. r.scope = RegisterAssigned(u, {id})
    <3>1. [s EXCEPT !.classified[id].context = current_context(s)] = t
      BY <2>0, <2>1 DEF IsInfo, ScopeFields
    <3>2. r.scope = RegisterAssigned(IF current_context_depth(s) <= info.context.depth
              THEN [s EXCEPT !.classified[id].context = current_context(s)] ELSE s, {id})
      <4> HIDE DEF info
      <4> QED BY <1>3 DEF OldVariable, info, s
    <3> QED BY <3>1, <3>2
  <2>3. Alike(s, t)
    <3>1. \A i \in DOMAIN s.classified :
            /\ DOMAIN c[i] = DOMAIN s.classified[i]
            /\ c[i].type = s.classified[i].type /\ c[i].handle = s.classified[i].handle
      BY <2>1, <2>0 DEF IsInfo
    <3>2. DOMAIN c = DOMAIN s.classified OBVIOUS
    <3> HIDE DEF c
    <3> QED BY <2>1, <3>1, <3>2 DEF Alike, ScopeFields
  <2>4. Alike(s, u)
    <3>1. Alike(s, s) BY <2>1, AlikeRecorded
    <3> HIDE DEF t
    <3> QED BY <2>3, <3>1
  <2> HIDE DEF u
  <2>5. Alike(u, r.scope) BY <2>2, <2>4, AlikeRegistered DEF Alike
  <2>6. Alike(s, r.scope) BY <2>4, <2>5, AlikeTransitive
  <2>7. Becomes(open, r.scope, {}) BY <2>6, <1>1, AlikeBecomes
  <2>8. SameRest(s, r.scope) BY <2>6 DEF SameRest, Alike
  <2>9. id \in DOMAIN r.scope.classified /\ is_variable(r.scope.classified[id])
    BY <2>0, <2>6, <1>3 DEF Alike, is_variable
  <2> QED BY <2>7, <2>8, <2>9 DEF s
<1> QED BY <1>2, <1>3

LEMMA AssignmentBecomes ==
  ASSUME NEW open, Sound(open), Len(open) >= 1, NEW id, NEW made, NEW is_parameter \in BOOLEAN,
         NEW ps, is_parameter => id \in ps,
         NEW r, r = register_variable_assignment(open, made, id, is_parameter)
  PROVE  /\ Becomes(open, r.scope, ps)
         /\ r.scope.parameters = Last(open).parameters /\ r.scope.called = Last(open).called
         /\ id \in DOMAIN r.scope.classified
         /\ r.success => is_variable(r.scope.classified[id])
<1> DEFINE result == IF id \in DOMAIN Last(open).classified
                     THEN OldVariable(Last(open), id) ELSE NewVariable(open, made, id, is_parameter)
           u == result.scope
           c == u.sure \cup {id}
           t == [u EXCEPT !.sure = c]
<1>1. /\ Becomes(open, result.scope, ps) /\ SameRest(Last(open), result.scope)
      /\ id \in DOMAIN result.scope.classified
      /\ result.success => is_variable(result.scope.classified[id])
  <2>1. CASE id \in DOMAIN Last(open).classified
    <3>1. /\ Becomes(open, result.scope, {}) /\ SameRest(Last(open), result.scope)
          /\ result.success => is_variable(result.scope.classified[id])
      BY <2>1, OldVariableBecomes
    <3> HIDE DEF result
    <3>2. id \in DOMAIN result.scope.classified BY <2>1, <3>1 DEF Becomes, Keeps
    <3> QED BY <3>1, <3>2 DEF Becomes, Fits
  <2>2. CASE id \notin DOMAIN Last(open).classified
    BY <2>2, NewVariableBecomes
  <2> QED BY <2>1, <2>2
<1>2. /\ r.scope = IF result.success THEN t ELSE u
      /\ r.success = result.success
  <2>1. r = IF result.success THEN [result EXCEPT !.scope.sure = @ \cup {id}] ELSE result
    BY Zenon DEF register_variable_assignment
  <2>2. "scope" \in DOMAIN result BY DEF OldVariable, NewVariable
  <2>3. DOMAIN u = ScopeFields BY <1>1 DEF SameRest
  <2> HIDE DEF result
  <2> QED BY <2>1, <2>2, <2>3 DEF ScopeFields
<1> HIDE DEF result
<1>3. DOMAIN u = ScopeFields BY <1>1 DEF SameRest
<1> HIDE DEF c
<1>4. Alike(u, t) BY <1>3, AlikeRecorded
<1> HIDE DEF t
<1>5. Becomes(open, t, ps) BY <1>1, <1>4, AlikeBecomes
<1>6. /\ id \in DOMAIN t.classified /\ (is_variable(u.classified[id]) => is_variable(t.classified[id]))
      /\ t.parameters = u.parameters /\ t.called = u.called
  BY <1>1, <1>4 DEF Alike, is_variable
<1> QED BY <1>1, <1>2, <1>5, <1>6 DEF SameRest

LEMMA ReportedBecomes ==
  ASSUME NEW open, NEW s, NEW ps, Becomes(open, s, ps), NEW id
  PROVE  /\ Becomes(open, Report(s, id), ps) /\ Alike(s, Report(s, id))
         /\ Report(s, id).parameters = s.parameters /\ Report(s, id).called = s.called
         /\ id \in Report(s, id).reported
<1> DEFINE e == s.reported \cup {id}
<1>1. DOMAIN s = ScopeFields BY DEF Becomes, Known
<1>2. Report(s, id) = [s EXCEPT !.reported = e] /\ s.reported \subseteq e /\ id \in e BY DEF Report
<1> HIDE DEF e
<1>3. Alike(s, [s EXCEPT !.reported = e]) BY <1>1, <1>2, AlikeRecorded
<1>4. [s EXCEPT !.reported = e].reported = e BY <1>1 DEF ScopeFields
<1>5. Alike(s, Report(s, id)) BY <1>2, <1>3
<1> QED BY <1>2, <1>4, <1>5, AlikeBecomes DEF Alike

(* An assignment that is refused is reported. *)
LEMMA AssignedBecomes ==
  ASSUME NEW open, Sound(open), Len(open) >= 1, NEW x, NEW made, NEW is_parameter \in BOOLEAN,
         NEW ps, is_parameter => Id(x) \in ps, NEW a, a = Assigned(open, made, x, is_parameter)
  PROVE  /\ Becomes(open, a.scope, ps)
         /\ a.scope.parameters = Last(open).parameters /\ a.scope.called = Last(open).called
<1> DEFINE result == register_variable_assignment(open, made, Id(x), is_parameter)
           s == IF result.success THEN result.scope ELSE Report(result.scope, Id(x))
<1>1. /\ Becomes(open, result.scope, ps) /\ result.scope.parameters = Last(open).parameters
      /\ result.scope.called = Last(open).called /\ Id(x) \in DOMAIN result.scope.classified
      /\ result.success => is_variable(result.scope.classified[Id(x)])
  <2> DEFINE id == Id(x)
  <2>1. result = register_variable_assignment(open, made, id, is_parameter) /\ (is_parameter => id \in ps) OBVIOUS
  <2> HIDE DEF result, id
  <2>2. /\ Becomes(open, result.scope, ps) /\ result.scope.parameters = Last(open).parameters
        /\ result.scope.called = Last(open).called /\ id \in DOMAIN result.scope.classified
        /\ result.success => is_variable(result.scope.classified[id])
    BY <2>1, AssignmentBecomes
  <2> QED BY <2>2 DEF id
<1>2. a.scope = Marked(s, Id(x))
  <2>1. a.scope = [s EXCEPT !.assigned = @ \cup {Id(x)}]
    <3> HIDE DEF result
    <3> QED BY DEF Assigned, result
  <2> HIDE DEF s
  <2> QED BY <2>1 DEF Marked
<1> HIDE DEF result
<1>3. /\ Becomes(open, s, ps) /\ s.parameters = Last(open).parameters /\ s.called = Last(open).called
      /\ Id(x) \in DOMAIN s.classified /\ (is_variable(s.classified[Id(x)]) \/ Id(x) \in s.reported)
  <2>1. CASE result.success BY <1>1, <2>1
  <2>2. CASE ~result.success
    <3> DEFINE reported == Report(result.scope, Id(x))
    <3>1. /\ Becomes(open, reported, ps) /\ Alike(result.scope, reported)
          /\ reported.parameters = result.scope.parameters /\ reported.called = result.scope.called
          /\ Id(x) \in reported.reported
      BY <1>1, ReportedBecomes
    <3>2. s = reported BY <2>2
    <3> HIDE DEF reported, s
    <3>3. Id(x) \in DOMAIN reported.classified BY <1>1, <3>1 DEF Alike
    <3> QED BY <1>1, <3>1, <3>2, <3>3
  <2> QED BY <2>1, <2>2
<1> HIDE DEF s
<1> QED BY <1>2, <1>3, MarkedAssigned

------------------------------------------------------------------------------
(* Functions are entered by way of a fold over their imports, and one over     *)
(* their parameters: what either step preserves, the fold does.                *)

Registered(what, x, entered) == IF what = "import" THEN register_import(x, entered) ELSE Parameter(x, entered)

Chosen(s) == CHOOSE x \in s : TRUE
Sub(names, n) == {s \in SUBSET names : Cardinality(s) <= n}
Folded(what, entered, s, iter) == IF s = {} THEN entered ELSE Registered(what, Chosen(s), iter[s \ {Chosen(s)}])
Partial(what, entered, names, n) == \E iter : iter = [s \in Sub(names, n) |-> Folded(what, entered, s, iter)]

LEMMA Removed ==
  ASSUME NEW names, IsFiniteSet(names), NEW s \in SUBSET names
  PROVE  /\ IsFiniteSet(s) /\ Cardinality(s) \in Nat /\ (Cardinality(s) = 0 <=> s = {})
         /\ s /= {} => /\ Chosen(s) \in s /\ s \ {Chosen(s)} \in SUBSET names
                       /\ Cardinality(s \ {Chosen(s)}) = Cardinality(s) - 1
<1>1. IsFiniteSet(s) /\ Cardinality(s) \in Nat BY FS_Subset, FS_CardinalityType
<1>2. Cardinality(s) = 0 <=> s = {} BY <1>1, FS_EmptySet
<1>3. ASSUME s /= {} PROVE Chosen(s) \in s BY <1>3 DEF Chosen
<1>4. ASSUME s /= {} PROVE Cardinality(s \ {Chosen(s)}) = Cardinality(s) - 1
  BY <1>1, <1>3, <1>4, FS_RemoveElement
<1> QED BY <1>1, <1>2, <1>3, <1>4

LEMMA PartialExists ==
  ASSUME NEW what, NEW entered, NEW names, IsFiniteSet(names), NEW n \in Nat
  PROVE  Partial(what, entered, names, n)
<1> DEFINE Bad == {m \in Nat : ~Partial(what, entered, names, m)}
<1> SUFFICES ASSUME Bad /= {} PROVE FALSE OBVIOUS
<1>1. PICK m \in Bad : \A j \in Bad : m <= j BY SmallestIndex
<1>2. m \in Nat /\ ~Partial(what, entered, names, m) OBVIOUS
<1>3. CASE m = 0
  <2>1. ASSUME NEW s \in Sub(names, 0) PROVE s = {}
    <3>1. s \in SUBSET names /\ Cardinality(s) <= 0 BY DEF Sub
    <3>2. Cardinality(s) \in Nat BY <3>1, Removed
    <3>3. Cardinality(s) = 0 BY <3>1, <3>2
    <3> QED BY <3>1, <3>3, Removed
  <2> DEFINE g == [s \in Sub(names, 0) |-> entered]
  <2>2. g = [s \in Sub(names, 0) |-> Folded(what, entered, s, g)] BY <2>1 DEF Folded
  <2> QED BY <2>2, <1>2, <1>3 DEF Partial
<1>4. CASE m /= 0
  <2>1. m - 1 \in Nat /\ ~(m <= m - 1) BY <1>2, <1>4
  <2>2. Partial(what, entered, names, m - 1) BY <2>1, <1>1
  <2>3. PICK g : g = [s \in Sub(names, m - 1) |-> Folded(what, entered, s, g)] BY <2>2 DEF Partial
  <2> DEFINE h == [s \in Sub(names, m) |-> Folded(what, entered, s, g)]
  <2>4. ASSUME NEW s \in Sub(names, m - 1) PROVE h[s] = g[s]
    <3>1. s \in SUBSET names /\ Cardinality(s) <= m - 1 BY DEF Sub
    <3>2. Cardinality(s) \in Nat BY <3>1, Removed
    <3>3. s \in Sub(names, m) BY <3>1, <3>2, <1>2 DEF Sub
    <3>4. h[s] = Folded(what, entered, s, g) BY <3>3
    <3>5. g[s] = Folded(what, entered, s, g) BY <2>3, Zenon
    <3> QED BY <3>4, <3>5
  <2>5. ASSUME NEW s \in Sub(names, m), s /= {} PROVE h[s \ {Chosen(s)}] = g[s \ {Chosen(s)}]
    <3>1. s \in SUBSET names /\ Cardinality(s) <= m BY DEF Sub
    <3>2. /\ Cardinality(s) \in Nat /\ s \ {Chosen(s)} \in SUBSET names
          /\ Cardinality(s \ {Chosen(s)}) = Cardinality(s) - 1
      BY <3>1, <2>5, Removed
    <3>3. Cardinality(s \ {Chosen(s)}) <= m - 1 BY <3>1, <3>2, <1>2
    <3>4. s \ {Chosen(s)} \in Sub(names, m - 1) BY <3>2, <3>3 DEF Sub
    <3> QED BY <3>4, <2>4
  <2> HIDE DEF h
  <2>6. \A s \in Sub(names, m) : Folded(what, entered, s, g) = Folded(what, entered, s, h)
    BY <2>5 DEF Folded
  <2>7. h = [s \in Sub(names, m) |-> Folded(what, entered, s, g)] BY DEF h
  <2>8. h = [s \in Sub(names, m) |-> Folded(what, entered, s, h)] BY <2>6, <2>7
  <2> QED BY <2>8, <1>2 DEF Partial
<1> QED BY <1>3, <1>4

IsFold(what, entered, names, iter) == iter = [s \in SUBSET names |-> Folded(what, entered, s, iter)]
Foldable(what, entered, names) == \E iter : IsFold(what, entered, names, iter)

LEMMA FoldExists ==
  ASSUME NEW what, NEW entered, NEW names, IsFiniteSet(names)
  PROVE  Foldable(what, entered, names)
<1>1. Cardinality(names) \in Nat BY FS_CardinalityType
<1>2. \A s \in SUBSET names : Cardinality(s) <= Cardinality(names) BY FS_Subset
<1>3. Sub(names, Cardinality(names)) = SUBSET names BY <1>2 DEF Sub
<1>4. Partial(what, entered, names, Cardinality(names)) BY <1>1, PartialExists
<1> QED BY <1>3, <1>4 DEF Partial, Foldable, IsFold

LEMMA ParametersFolded ==
  ASSUME NEW names, IsFiniteSet(names), NEW entered
  PROVE  \E iter : /\ IsFold("parameter", entered, names, iter)
                   /\ Parameters(entered, names) = iter[names]
<1> DEFINE P(iter) == iter = [s \in SUBSET names |-> IF s = {} THEN entered
                                                   ELSE Parameter(Chosen(s), iter[s \ {Chosen(s)}])]
<1>1. \A iter : IsFold("parameter", entered, names, iter) <=> P(iter)
  BY DEF IsFold, Folded, Registered
<1>2. \E iter : P(iter)
  <2>1. Foldable("parameter", entered, names) BY FoldExists
  <2> HIDE DEF P
  <2> QED BY <2>1, <1>1, Zenon DEF Foldable
<1>3. Parameters(entered, names) = (CHOOSE iter : P(iter))[names]
  BY DEF Parameters, FoldSet, MapThenFoldSet, Chosen
<1> HIDE DEF P
<1>4. P(CHOOSE iter : P(iter)) BY <1>2, Zenon
<1> QED BY <1>1, <1>3, <1>4, Zenon

LEMMA ImportsFolded ==
  ASSUME NEW names, IsFiniteSet(names), NEW entered
  PROVE  \E iter : /\ IsFold("import", entered, names, iter)
                   /\ FoldSet(register_import, entered, names) = iter[names]
<1> DEFINE P(iter) == iter = [s \in SUBSET names |-> IF s = {} THEN entered
                                                   ELSE register_import(Chosen(s), iter[s \ {Chosen(s)}])]
<1>1. \A iter : IsFold("import", entered, names, iter) <=> P(iter)
  BY DEF IsFold, Folded, Registered
<1>2. \E iter : P(iter)
  <2>1. Foldable("import", entered, names) BY FoldExists
  <2> HIDE DEF P
  <2> QED BY <2>1, <1>1, Zenon DEF Foldable
<1>3. FoldSet(register_import, entered, names) = (CHOOSE iter : P(iter))[names]
  BY DEF FoldSet, MapThenFoldSet, Chosen
<1> HIDE DEF P
<1>4. P(CHOOSE iter : P(iter)) BY <1>2, Zenon
<1> QED BY <1>1, <1>3, <1>4, Zenon

------------------------------------------------------------------------------
(* The contexts of a scope, and its contexts of assignment, in which nothing   *)
(* is assigned that the scope does not know.                                    *)

Covered(s) ==
  /\ IsList(s.assignment_contexts)
  /\ \A a \in 1..Len(s.assignment_contexts) :
       /\ "assigned" \in DOMAIN s.assignment_contexts[a]
       /\ DOMAIN s.assignment_contexts[a].assigned \subseteq DOMAIN s.classified

SameContexts(s, t) ==
  t.scope_depth = s.scope_depth /\ t.contexts = s.contexts /\ t.context_uuid = s.context_uuid

(* The shape of a scope stays, whatever becomes of its identifiers. *)
SameShape(s, t) ==
  /\ SameContexts(s, t)
  /\ Covered(s) => Covered(t) /\ Len(t.assignment_contexts) = Len(s.assignment_contexts)

LEMMA SameShapeTransitive ==
  ASSUME NEW s, NEW t, NEW u, SameShape(s, t), SameShape(t, u)
  PROVE  SameShape(s, u)
BY DEF SameShape, SameContexts

LEMMA ShapeRecorded ==
  ASSUME NEW s, DOMAIN s = ScopeFields, NEW e
  PROVE  /\ SameShape(s, s)
         /\ SameShape(s, [s EXCEPT !.sure = e])
         /\ SameShape(s, [s EXCEPT !.flat = e])
         /\ SameShape(s, [s EXCEPT !.reported = e])
         /\ SameShape(s, [s EXCEPT !.parameters = e])
         /\ SameShape(s, [s EXCEPT !.assigned = e])
         /\ SameShape(s, [s EXCEPT !.called = e])
         /\ SameShape(s, [s EXCEPT !.local_variables = e])
         /\ DOMAIN s.classified \subseteq DOMAIN e => SameShape(s, [s EXCEPT !.classified = e])
<1>1. SameShape(s, s) BY DEF SameShape, SameContexts
<1>2. ASSUME NEW t, SameContexts(s, t), t.assignment_contexts = s.assignment_contexts,
             DOMAIN s.classified \subseteq DOMAIN t.classified
      PROVE  SameShape(s, t)
  BY <1>2 DEF SameShape, Covered
<1>3. /\ SameShape(s, [s EXCEPT !.sure = e])
      /\ SameShape(s, [s EXCEPT !.flat = e])
      /\ SameShape(s, [s EXCEPT !.reported = e])
      /\ SameShape(s, [s EXCEPT !.parameters = e])
  BY <1>2 DEF ScopeFields, SameContexts
<1>4. /\ SameShape(s, [s EXCEPT !.assigned = e])
      /\ SameShape(s, [s EXCEPT !.called = e])
      /\ SameShape(s, [s EXCEPT !.local_variables = e])
  BY <1>2 DEF ScopeFields, SameContexts
<1>5. ASSUME DOMAIN s.classified \subseteq DOMAIN e PROVE SameShape(s, [s EXCEPT !.classified = e])
  BY <1>2, <1>5 DEF ScopeFields, SameContexts
<1> QED BY <1>1, <1>3, <1>4, <1>5

LEMMA ShapeClassified ==
  ASSUME NEW s, DOMAIN s = ScopeFields, NEW id, NEW info
  PROVE  SameShape(s, Classify(s, id, info))
<1> DEFINE b == Bind(s.classified, id, info)
<1>1. DOMAIN s.classified \subseteq DOMAIN b BY DEF Bind
<1>2. Classify(s, id, info) = [s EXCEPT !.classified = b] BY DEF Classify
<1> HIDE DEF b
<1>3. DOMAIN s.classified \subseteq DOMAIN b => SameShape(s, [s EXCEPT !.classified = b]) BY ShapeRecorded
<1> QED BY <1>1, <1>2, <1>3

LEMMA ShapeRegistered ==
  ASSUME NEW s, DOMAIN s = ScopeFields, NEW ids, ids \subseteq DOMAIN s.classified
  PROVE  SameShape(s, RegisterAssigned(s, ids))
<1> DEFINE ac == s.assignment_contexts
           n == Len(ac)
           uuid == current_context(s).uuid
           context == [ac[n] EXCEPT !.assigned = register_assignment(@, ids, uuid)]
           e == Replaced(ac, n, context)
           t == [s EXCEPT !.assignment_contexts = e]
<1>1. CASE ac = <<>> BY <1>1, ShapeRecorded DEF RegisterAssigned
<1>2. CASE ac /= <<>>
  <2>1. RegisterAssigned(s, ids) = t
    BY <1>2 DEF RegisterAssigned, ScopeFields, Replaced
  <2> HIDE DEF e
  <2>2. SameContexts(s, t) BY DEF SameContexts, ScopeFields
  <2>3. ASSUME Covered(s) PROVE Covered(t) /\ Len(t.assignment_contexts) = Len(s.assignment_contexts)
    <3>1. IsList(ac) /\ n \in Nat /\ n \in 1..n
      <4>1. IsList(ac) BY <2>3 DEF Covered
      <4>2. n \in Nat BY <4>1, ListShape
      <4>3. n /= 0 BY <1>2, <4>1, EmptySeq DEF IsList
      <4> QED BY <4>1, <4>2, <4>3
    <3>2. /\ IsList(e) /\ Len(e) = n /\ e[n] = context
          /\ \A a \in 1..n : a /= n => e[a] = ac[a]
      <4>1. e = Replaced(ac, n, context) /\ n = Len(ac) BY DEF e
      <4> HIDE DEF n, ac, context
      <4>2. n \in 1..Len(ac) BY <3>1, <4>1
      <4> QED BY <3>1, <4>1, <4>2, ListExcept
    <3>3. "assigned" \in DOMAIN ac[n] /\ DOMAIN ac[n].assigned \subseteq DOMAIN s.classified
      BY <2>3, <3>1 DEF Covered
    <3>4. "assigned" \in DOMAIN context /\ DOMAIN context.assigned \subseteq DOMAIN s.classified
      <4>1. DOMAIN register_assignment(ac[n].assigned, ids, uuid) \subseteq DOMAIN s.classified
        BY <3>3 DEF register_assignment
      <4>2. "assigned" \in DOMAIN context /\ context.assigned = register_assignment(ac[n].assigned, ids, uuid)
        BY <3>3
      <4> QED BY <4>1, <4>2
    <3>5. t.assignment_contexts = e /\ t.classified = s.classified BY DEF ScopeFields
    <3>6. \A a \in 1..n : "assigned" \in DOMAIN ac[a] /\ DOMAIN ac[a].assigned \subseteq DOMAIN s.classified
      BY <2>3 DEF Covered
    <3> HIDE DEF t, ac, n, context
    <3>7. \A a \in 1..n : "assigned" \in DOMAIN e[a] /\ DOMAIN e[a].assigned \subseteq DOMAIN s.classified
      BY <3>2, <3>4, <3>6
    <3> QED BY <3>2, <3>5, <3>7 DEF Covered, ac, n
  <2> HIDE DEF t
  <2> QED BY <2>1, <2>2, <2>3 DEF SameShape
<1> QED BY <1>1, <1>2

LEMMA ShapeReference ==
  ASSUME NEW open, Sound(open), Len(open) >= 1, NEW id
  PROVE  SameShape(Last(open), register_identifier_reference(open, id).scope)
<1>1. DOMAIN Last(open) = ScopeFields BY StaysItself DEF Known
<1>2. \E info : register_identifier_reference(open, id).scope = Classify(Last(open), id, info)
  BY DEF register_identifier_reference
<1>3. \A info : SameShape(Last(open), Classify(Last(open), id, info)) BY <1>1, ShapeClassified
<1> QED BY <1>2, <1>3

LEMMA ShapeImport ==
  ASSUME NEW open, Sound(open), Len(open) >= 1, NEW x
  PROVE  SameShape(Last(open), register_fully_qualified_import(open, x).scope)
<1>1. DOMAIN Last(open) = ScopeFields BY StaysItself DEF Known
<1>2. \/ register_fully_qualified_import(open, x).scope = Last(open)
      \/ \E info : register_fully_qualified_import(open, x).scope = Classify(Last(open), Id(x), info)
  BY DEF register_fully_qualified_import
<1>3. \A info : SameShape(Last(open), Classify(Last(open), Id(x), info)) BY <1>1, ShapeClassified
<1> QED BY <1>1, <1>2, <1>3, ShapeRecorded

LEMMA ShapeNewVariable ==
  ASSUME NEW open, DOMAIN Last(open) = ScopeFields, NEW made, NEW id, NEW is_parameter,
         NEW r, r = NewVariable(open, made, id, is_parameter)
  PROVE  SameShape(Last(open), r.scope)
<1> DEFINE s == Last(open)
           inherited == lookup_variable(open, Len(open) - 1, id)
           handle == <<"variable", made + 1>>
           l == Bind(s.local_variables, id, handle)
           u == Classify(s, id, VariableInfo(id, s, handle))
           t == [u EXCEPT !.local_variables = l]
<1>1. \/ \E info : r.scope = Classify(s, id, info)
      \/ r.scope = RegisterAssigned(t, {id})
  <2>1. u.local_variables = s.local_variables BY DEF Classify, ScopeFields
  <2>2. \/ r.scope = Classify(s, id, [inherited EXCEPT !.context = current_context(s)])
        \/ r.scope = RegisterAssigned([u EXCEPT !.local_variables = Bind(@, id, handle)], {id})
    <3> HIDE DEF inherited, handle, u, s, l
    <3> QED BY DEF NewVariable, inherited, handle, u, s
  <2>3. DOMAIN u = ScopeFields BY DEF Classify, ScopeFields
  <2>4. [u EXCEPT !.local_variables = Bind(@, id, handle)] = t
    <3> HIDE DEF u, handle
    <3> QED BY <2>1, <2>3 DEF ScopeFields
  <2> QED BY <2>2, <2>4
<1>2. /\ SameShape(s, u) /\ DOMAIN u = ScopeFields
      /\ u.classified = Bind(s.classified, id, VariableInfo(id, s, handle))
  BY ShapeClassified, Classified DEF SameRest
<1> HIDE DEF s, u, l, handle
<1>3. SameShape(u, t) BY <1>2, ShapeRecorded
<1>4. DOMAIN t = ScopeFields /\ t.classified = u.classified BY <1>2 DEF ScopeFields
<1>5. id \in DOMAIN t.classified BY <1>2, <1>4 DEF Bind
<1> HIDE DEF t
<1>6. SameShape(t, RegisterAssigned(t, {id})) BY <1>4, <1>5, ShapeRegistered
<1>7. SameShape(s, RegisterAssigned(t, {id})) BY <1>2, <1>3, <1>6, SameShapeTransitive
<1>8. \A info : SameShape(s, Classify(s, id, info)) BY ShapeClassified DEF s
<1> QED BY <1>1, <1>7, <1>8 DEF s

LEMMA ShapeOldVariable ==
  ASSUME NEW s, DOMAIN s = ScopeFields, NEW id, id \in DOMAIN s.classified, NEW r, r = OldVariable(s, id)
  PROVE  SameShape(s, r.scope)
<1> DEFINE c == [s.classified EXCEPT ![id] = [s.classified[id] EXCEPT !.context = current_context(s)]]
           t == [s EXCEPT !.classified = c]
<1>1. [s EXCEPT !.classified[id].context = current_context(s)] = t BY DEF ScopeFields
<1>2. \/ r.scope = s
      \/ \E u \in {s, [s EXCEPT !.classified[id].context = current_context(s)]} :
           r.scope = RegisterAssigned(u, {id})
  BY DEF OldVariable
<1>3. DOMAIN c = DOMAIN s.classified OBVIOUS
<1> HIDE DEF c
<1>4. SameShape(s, t) /\ SameShape(s, s)
  <2>1. DOMAIN s.classified \subseteq DOMAIN c => SameShape(s, [s EXCEPT !.classified = c]) BY ShapeRecorded
  <2> QED BY <2>1, <1>3, ShapeRecorded
<1>5. DOMAIN t = ScopeFields /\ id \in DOMAIN t.classified BY <1>3 DEF ScopeFields
<1> HIDE DEF t
<1>6. ASSUME NEW u \in {s, t} PROVE SameShape(s, RegisterAssigned(u, {id}))
  <2>1. SameShape(u, RegisterAssigned(u, {id})) BY <1>5, ShapeRegistered
  <2> QED BY <2>1, <1>4, SameShapeTransitive
<1> QED BY <1>1, <1>2, <1>4, <1>6

LEMMA ShapeAssigned ==
  ASSUME NEW open, Sound(open), Len(open) >= 1, NEW x, NEW made, NEW is_parameter \in BOOLEAN
  PROVE  SameShape(Last(open), Assigned(open, made, x, is_parameter).scope)
<1> DEFINE id == Id(x)
           old == OldVariable(Last(open), id)
           new == NewVariable(open, made, id, is_parameter)
           result == IF id \in DOMAIN Last(open).classified THEN old ELSE new
           u == result.scope
           r == register_variable_assignment(open, made, id, is_parameter)
<1>1. DOMAIN Last(open) = ScopeFields BY StaysItself DEF Known
<1>2. /\ SameShape(Last(open), u) /\ DOMAIN u = ScopeFields
  <2>1. id \in DOMAIN Last(open).classified => SameShape(Last(open), old.scope) /\ DOMAIN old.scope = ScopeFields
    BY <1>1, ShapeOldVariable, OldVariableBecomes DEF SameRest
  <2>2. id \notin DOMAIN Last(open).classified => SameShape(Last(open), new.scope) /\ DOMAIN new.scope = ScopeFields
    <3>1. new = NewVariable(open, made, id, is_parameter) OBVIOUS
    <3> HIDE DEF new, id
    <3>2. SameShape(Last(open), new.scope) BY <3>1, <1>1, ShapeNewVariable
    <3>3. is_parameter => id \in {id} OBVIOUS
    <3>4. id \notin DOMAIN Last(open).classified => SameRest(Last(open), new.scope)
      BY <3>1, <3>3, NewVariableBecomes
    <3> QED BY <3>2, <3>4 DEF SameRest
  <2> HIDE DEF old, new
  <2> QED BY <2>1, <2>2
<1> DEFINE c == u.sure \cup {id}
           t == [u EXCEPT !.sure = c]
<1>3. r.scope = IF result.success THEN t ELSE u
  <2>1. r = IF result.success THEN [result EXCEPT !.scope.sure = @ \cup {id}] ELSE result
    BY Zenon DEF register_variable_assignment
  <2>2. "scope" \in DOMAIN result BY DEF OldVariable, NewVariable
  <2> HIDE DEF result, r
  <2> QED BY <2>1, <2>2, <1>2 DEF ScopeFields
<1> HIDE DEF result, r, c
<1>4. SameShape(u, t) /\ DOMAIN t = ScopeFields
  <2>1. SameShape(u, [u EXCEPT !.sure = c]) BY <1>2, ShapeRecorded
  <2>2. DOMAIN [u EXCEPT !.sure = c] = ScopeFields BY <1>2
  <2> QED BY <2>1, <2>2
<1> HIDE DEF t, u
<1>5. SameShape(Last(open), r.scope) /\ DOMAIN r.scope = ScopeFields
  BY <1>2, <1>3, <1>4, SameShapeTransitive DEF u
<1> DEFINE e == r.scope.reported \cup {id}
           reported == [r.scope EXCEPT !.reported = e]
           s == IF r.success THEN r.scope ELSE reported
           a == s.assigned \cup {id}
<1> HIDE DEF e
<1>6. SameShape(r.scope, reported) BY <1>5, ShapeRecorded
<1>7. DOMAIN reported = ScopeFields BY <1>5
<1> HIDE DEF reported
<1>8. SameShape(Last(open), s) /\ DOMAIN s = ScopeFields BY <1>5, <1>6, <1>7, SameShapeTransitive
<1>9. Assigned(open, made, x, is_parameter).scope = [s EXCEPT !.assigned = a]
  <2>1. Assigned(open, made, x, is_parameter).scope
          = [(IF r.success THEN r.scope ELSE Report(r.scope, id)) EXCEPT !.assigned = @ \cup {id}]
    <3> HIDE DEF id
    <3> QED BY DEF Assigned, r, id
  <2>2. Report(r.scope, id) = reported BY DEF Report, reported, e
  <2> HIDE DEF id
  <2> QED BY <2>1, <2>2
<1> HIDE DEF s, a
<1>10. SameShape(s, [s EXCEPT !.assigned = a]) BY <1>8, ShapeRecorded
<1>11. SameShape(Last(open), [s EXCEPT !.assigned = a]) BY <1>8, <1>10, SameShapeTransitive
<1> QED BY <1>9, <1>11

------------------------------------------------------------------------------
(* A scope that has just been opened, with its imports and parameters. *)

Shaped(s, depth) ==
  /\ Covered(s) /\ s.scope_depth = depth /\ IsList(s.contexts) /\ s.context_uuid \in Nat
  /\ \A d \in 1..Len(s.contexts) :
       s.contexts[d].depth = d /\ s.contexts[d].uuid \in Nat /\ s.contexts[d].uuid < s.context_uuid

(* The contexts open in it, and its contexts of assignment. *)
Holds(s, depth, contexts, branches) ==
  Shaped(s, depth) /\ Len(s.contexts) = contexts /\ Len(s.assignment_contexts) = branches

LEMMA ShapeHolds ==
  ASSUME NEW s, NEW t, SameShape(s, t), NEW depth, NEW contexts, NEW branches,
         Holds(s, depth, contexts, branches)
  PROVE  Holds(t, depth, contexts, branches)
<1>1. Covered(s) BY DEF Holds, Shaped
<1>2. Covered(t) /\ Len(t.assignment_contexts) = Len(s.assignment_contexts) BY <1>1 DEF SameShape
<1>3. t.scope_depth = s.scope_depth /\ t.contexts = s.contexts /\ t.context_uuid = s.context_uuid
  BY DEF SameShape, SameContexts
<1> QED BY <1>2, <1>3 DEF Holds, Shaped

------------------------------------------------------------------------------
(* What a scope is sure of.  A context that is open tells what was assigned in *)
(* it: what has it for its context, and what a context of assignment has it     *)
(* for.  All that is sure; and sure it was at the start of every construct that  *)
(* is at least as deep.                                                         *)

(* The variables that a scope has of its own, and the context that each is in. *)
Own(s) == DOMAIN s.local_variables
When(s, id) == s.classified[id].context
Uuid(s, d) == s.contexts[d].uuid
Children(s, a) == s.assignment_contexts[a].children
AssignedIn(s, a, id) ==
  LET assigned == s.assignment_contexts[a].assigned
  IN  IF id \in DOMAIN assigned THEN assigned[id] ELSE {}

(* A context tells of a variable that was assigned in it, or by it as a branch. *)
Told(s, d, id) ==
  \/ id \in Own(s) /\ When(s, id).uuid = Uuid(s, d)
  \/ \E a \in 1..Len(s.assignment_contexts) : Uuid(s, d) \in AssignedIn(s, a, id)

(* Contexts are numbered as they are opened, and belong to their scope. *)
Numbered(s, uuids) == \A c \in uuids : c \in Nat /\ c < s.context_uuid

Dated(s) ==
  /\ \A id \in Own(s) : /\ When(s, id).scope_depth = s.scope_depth /\ When(s, id).depth \in Nat \ {0}
                        /\ Numbered(s, {When(s, id).uuid})
  /\ \A d \in 1..Len(s.contexts) : /\ s.contexts[d].scope_depth = s.scope_depth
                                   /\ \A e \in 1..Len(s.contexts) : d < e => Uuid(s, d) < Uuid(s, e)
  /\ \A a \in 1..Len(s.assignment_contexts) :
       /\ DOMAIN s.assignment_contexts[a] = {"children", "assigned"}
       /\ Numbered(s, Children(s, a)) /\ \A id : Numbered(s, AssignedIn(s, a, id))

(* A construct with branches: the context it is in, its context of assignment, *)
(* if it has one, and what its frame has.  Of its branches those have ended     *)
(* whose contexts come before the one that is open.                              *)
Edge(s, d) == IF d < Len(s.contexts) THEN Uuid(s, d + 1) ELSE s.context_uuid
Ended(s, b) == {c \in Children(s, b.join) : c < Edge(s, b.depth)}
Endings(s, b) == IF b.depth < Len(s.contexts) THEN b.blocks - 1 ELSE b.blocks

Joined(s, b) ==
  /\ \A c \in Children(s, b.join) : Uuid(s, b.depth) < c
  /\ b.depth < Len(s.contexts) => Uuid(s, b.depth + 1) \in Children(s, b.join)
  /\ Endings(s, b) >= 1 => /\ Ended(s, b) /= {}
                           /\ \A id : Ended(s, b) \subseteq AssignedIn(s, b.join, id) => id \in b.ends

Placed(s, b) == b.depth \in 1..Len(s.contexts) /\ b.join \in 0..Len(s.assignment_contexts) /\ b.blocks \in Nat

(* A variable is sure in a context: every path to the statement at hand has     *)
(* assigned it, and so had every path to each open construct that is as deep.    *)
SureOf(s, branches, d, id) == id \in s.sure /\ \A b \in branches : b.depth >= d => id \in b.before

(* What a context tells of is sure in it. *)
Assured(s, branches) ==
  /\ Dated(s)
  /\ \A d \in 1..Len(s.contexts) : \A id : Told(s, d, id) => SureOf(s, branches, d, id)
  /\ \A b \in branches : Placed(s, b) /\ (b.join /= 0 => Joined(s, b))

(* What an assignment does to a scope. *)
Tracks(s, t, ids) ==
  /\ SameContexts(s, t) /\ Len(t.assignment_contexts) = Len(s.assignment_contexts)
  /\ \A id \in Own(t) : \/ id \in Own(s) /\ When(t, id) = When(s, id)
                        \/ id \in ids /\ When(t, id) = current_context(s)
  /\ \A a \in 1..Len(s.assignment_contexts) :
       DOMAIN s.assignment_contexts[a] = {"children", "assigned"} =>
         /\ DOMAIN t.assignment_contexts[a] = {"children", "assigned"}
         /\ Children(t, a) = Children(s, a)
         /\ \A id : AssignedIn(t, a, id) \subseteq
                      AssignedIn(s, a, id) \cup IF id \in ids THEN {current_context(s).uuid} ELSE {}

(* ... and what it has to do: the least nested of the assignments counts. *)
Advances(s, t, ids) ==
  /\ t.flat => s.flat
  /\ DOMAIN s.classified \subseteq DOMAIN t.classified /\ ids \subseteq DOMAIN t.classified
  /\ Own(s) \subseteq Own(t) /\ \A id \in Own(t) \ Own(s) : id \in ids /\ id \notin DOMAIN s.classified
  /\ \A id \in Own(s) : \/ When(t, id) = When(s, id)
                        \/ When(t, id) = current_context(s) /\ Len(s.contexts) <= When(s, id).depth
  /\ \A id \in ids \cap Own(t) :
       \/ When(t, id) = current_context(s)
       \/ id \in Own(s) /\ When(t, id) = When(s, id) /\ ~(Len(s.contexts) <= When(s, id).depth)
  /\ \A a \in 1..Len(s.assignment_contexts) :
       DOMAIN s.assignment_contexts[a] = {"children", "assigned"} =>
         \A id : /\ AssignedIn(s, a, id) \subseteq AssignedIn(t, a, id)
                 /\ a = Len(s.assignment_contexts) /\ id \in ids \cap Own(t) =>
                      current_context(s).uuid \in AssignedIn(t, a, id)

Assigns(s, t, ids) == Tracks(s, t, ids) /\ Advances(s, t, ids) /\ t.sure = s.sure \cup ids

(* The constructs around an assignment. *)
Grows(b, c) ==
  c.depth = b.depth /\ c.join = b.join /\ c.blocks = b.blocks /\ c.ends = b.ends /\ b.before \subseteq c.before

LEMMA AssignsAssured ==
  ASSUME NEW s, NEW depth, Shaped(s, depth), Len(s.contexts) >= 1, NEW branches, Assured(s, branches),
         NEW t, NEW ids, Assigns(s, t, ids), NEW others,
         \A c \in others : /\ \E b \in branches : Grows(b, c)
                           /\ c.depth >= Len(s.contexts) => ids \subseteq c.before
  PROVE  Assured(t, others)
<1> DEFINE n == Len(s.contexts)
           m == Len(s.assignment_contexts)
           here == current_context(s)
<1>1. n \in Nat /\ n \in 1..n /\ m \in Nat /\ here = s.contexts[n] /\ s.context_uuid \in Nat
  BY ListShape DEF Shaped, Covered, current_context, Last
<1>2. \A d \in 1..n : Uuid(s, d) \in Nat /\ Uuid(s, d) < s.context_uuid /\ s.contexts[d].depth = d
  BY DEF Shaped, Uuid
<1>3. /\ \A d, e \in 1..n : d < e => Uuid(s, d) < Uuid(s, e)
      /\ \A d \in 1..n : s.contexts[d].scope_depth = s.scope_depth
      /\ \A a \in 1..m : DOMAIN s.assignment_contexts[a] = {"children", "assigned"}
  BY DEF Assured, Dated
<1>4. /\ t.contexts = s.contexts /\ t.scope_depth = s.scope_depth /\ t.context_uuid = s.context_uuid
      /\ Len(t.assignment_contexts) = m /\ t.sure = s.sure \cup ids
      /\ \A d : Uuid(t, d) = Uuid(s, d) /\ Edge(t, d) = Edge(s, d)
      /\ \A uuids : Numbered(t, uuids) <=> Numbered(s, uuids)
  BY DEF Assigns, Tracks, SameContexts, Uuid, Edge, Numbered
<1>5. \A id \in Own(t) : \/ id \in Own(s) /\ When(t, id) = When(s, id)
                         \/ id \in ids /\ When(t, id) = here
  BY DEF Assigns, Tracks
<1>6. \A a \in 1..m : /\ DOMAIN t.assignment_contexts[a] = {"children", "assigned"}
                      /\ Children(t, a) = Children(s, a)
                      /\ \A id : AssignedIn(t, a, id) \subseteq
                                   AssignedIn(s, a, id) \cup IF id \in ids THEN {Uuid(s, n)} ELSE {}
  BY <1>1, <1>3 DEF Assigns, Tracks, Uuid
<1>7. here.scope_depth = s.scope_depth /\ here.depth = n /\ here.uuid = Uuid(s, n)
  BY <1>1, <1>2, <1>3 DEF Uuid
<1> HIDE DEF n, m, here
<1>8. Dated(t)
  <2>1. ASSUME NEW id \in Own(t)
        PROVE  /\ When(t, id).scope_depth = t.scope_depth /\ When(t, id).depth \in Nat \ {0}
               /\ Numbered(t, {When(t, id).uuid})
    <3>1. CASE id \in Own(s) /\ When(t, id) = When(s, id) BY <3>1, <1>4 DEF Assured, Dated
    <3>2. CASE When(t, id) = here BY <3>2, <1>1, <1>2, <1>4, <1>7 DEF Numbered
    <3> QED BY <3>1, <3>2, <1>5
  <2>2. ASSUME NEW a \in 1..m PROVE Numbered(t, Children(t, a)) /\ \A id : Numbered(t, AssignedIn(t, a, id))
    <3>1. Numbered(s, Children(s, a)) /\ \A id : Numbered(s, AssignedIn(s, a, id)) BY DEF Assured, Dated, m
    <3>2. Uuid(s, n) \in Nat /\ Uuid(s, n) < s.context_uuid BY <1>1, <1>2
    <3> QED BY <3>1, <3>2, <1>4, <1>6 DEF Numbered
  <2> QED BY <2>1, <2>2, <1>3, <1>4, <1>6 DEF Dated, n
<1>9. ASSUME NEW d \in 1..n, NEW id, Told(t, d, id) PROVE SureOf(t, others, d, id)
  <2>1. Told(s, d, id) \/ (id \in ids /\ Uuid(s, d) = Uuid(s, n))
    <3>1. CASE id \in Own(t) /\ When(t, id).uuid = Uuid(t, d) BY <3>1, <1>4, <1>5, <1>7 DEF Told
    <3>2. CASE \E a \in 1..m : Uuid(t, d) \in AssignedIn(t, a, id)
      <4>1. PICK a \in 1..m : Uuid(s, d) \in AssignedIn(t, a, id) BY <3>2, <1>4
      <4>2. \/ Uuid(s, d) \in AssignedIn(s, a, id)
            \/ id \in ids /\ Uuid(s, d) = Uuid(s, n)
        BY <4>1, <1>6
      <4> QED BY <4>2 DEF Told, m
    <3> QED BY <3>1, <3>2, <1>9, <1>4 DEF Told
  <2>2. CASE Told(s, d, id)
    <3>1. SureOf(s, branches, d, id) BY <2>2 DEF Assured, n
    <3> QED BY <3>1, <1>4 DEF SureOf, Grows
  <2>3. CASE id \in ids /\ Uuid(s, d) = Uuid(s, n)
    <3>1. d = n
      <4>1. ~(d < n)
        <5>1. d < n => Uuid(s, d) < Uuid(s, n) BY <1>1, <1>3
        <5>2. Uuid(s, n) \in Nat /\ Uuid(s, d) \in Nat BY <1>1, <1>2
        <5> QED BY <5>1, <5>2, <2>3
      <4> QED BY <4>1, <1>1
    <3> QED BY <3>1, <2>3, <1>4 DEF SureOf, n
  <2> QED BY <2>1, <2>2, <2>3
<1>10. ASSUME NEW c \in others PROVE Placed(t, c) /\ (c.join /= 0 => Joined(t, c))
  <2>1. PICK b \in branches : Grows(b, c) OBVIOUS
  <2>2. Placed(s, b) /\ (b.join /= 0 => Joined(s, b)) BY DEF Assured
  <2>3. /\ c.depth = b.depth /\ c.join = b.join /\ c.blocks = b.blocks /\ c.ends = b.ends
    BY <2>1 DEF Grows
  <2>4. Placed(t, c) BY <2>2, <2>3, <1>4 DEF Placed, m
  <2>5. ASSUME c.join /= 0 PROVE Joined(t, c)
    <3>1. c.join \in 1..m /\ b.join \in 1..m /\ b.depth \in 1..n /\ Joined(s, b)
      BY <2>2, <2>3, <2>5, <1>1 DEF Placed, m, n
    <3>2. Children(t, c.join) = Children(s, b.join) /\ Ended(t, c) = Ended(s, b) /\ Endings(t, c) = Endings(s, b)
      BY <2>3, <3>1, <1>4, <1>6 DEF Ended, Endings
    <3>3. Uuid(s, n) \notin Ended(s, b)
      <4>1. CASE b.depth = n
        <5>1. Uuid(s, n) \notin Children(s, b.join)
          <6>1. \A x \in Children(s, b.join) : Uuid(s, n) < x BY <3>1, <4>1 DEF Joined
          <6>2. Uuid(s, n) \in Nat BY <1>1, <1>2
          <6> QED BY <6>1, <6>2
        <5> QED BY <5>1 DEF Ended
      <4>2. CASE b.depth < n
        <5>1. Edge(s, b.depth) = Uuid(s, b.depth + 1) /\ b.depth + 1 \in 1..n BY <4>2, <3>1, <1>1 DEF Edge, n
        <5>2. Uuid(s, b.depth + 1) <= Uuid(s, n)
          <6>1. b.depth + 1 < n => Uuid(s, b.depth + 1) < Uuid(s, n) BY <5>1, <1>1, <1>3
          <6>2. b.depth + 1 = n \/ b.depth + 1 < n BY <5>1, <1>1
          <6>3. Uuid(s, b.depth + 1) \in Nat /\ Uuid(s, n) \in Nat BY <5>1, <1>1, <1>2
          <6> QED BY <6>1, <6>2, <6>3
        <5>3. Uuid(s, b.depth + 1) \in Nat /\ Uuid(s, n) \in Nat BY <5>1, <1>1, <1>2
        <5> QED BY <5>1, <5>2, <5>3 DEF Ended
      <4> QED BY <4>1, <4>2, <3>1, <1>1
    <3>4. ASSUME NEW id, Ended(t, c) \subseteq AssignedIn(t, c.join, id)
          PROVE  Ended(s, b) \subseteq AssignedIn(s, b.join, id)
      <4>1. AssignedIn(t, b.join, id) \subseteq
              AssignedIn(s, b.join, id) \cup IF id \in ids THEN {Uuid(s, n)} ELSE {}
        BY <3>1, <1>6
      <4> QED BY <4>1, <3>2, <3>3, <3>4, <2>3
    <3>5. \A x \in Children(t, c.join) : Uuid(t, c.depth) < x BY <3>1, <3>2, <2>3, <1>4 DEF Joined
    <3>6. c.depth < Len(t.contexts) => Uuid(t, c.depth + 1) \in Children(t, c.join)
      BY <3>1, <3>2, <2>3, <1>4 DEF Joined
    <3>7. Endings(t, c) >= 1 => /\ Ended(t, c) /= {}
                                /\ \A id : Ended(t, c) \subseteq AssignedIn(t, c.join, id) => id \in c.ends
      BY <3>1, <3>2, <3>4, <2>3 DEF Joined
    <3> QED BY <3>5, <3>6, <3>7 DEF Joined
  <2> QED BY <2>4, <2>5
<1> QED BY <1>4, <1>8, <1>9, <1>10 DEF Assured, n

(* A scope whose contexts and contexts of assignment have changed only. *)
Rebuilt(s, t) ==
  /\ t.scope_depth = s.scope_depth /\ t.classified = s.classified /\ t.local_variables = s.local_variables
  /\ t.flat => s.flat

(* A block is entered: a context is opened in the scope, and the construct has *)
(* a block more.                                                                *)
Deepened(s, t) ==
  /\ Rebuilt(s, t) /\ t.sure = s.sure
  /\ t.context_uuid = s.context_uuid + 1 /\ Len(t.contexts) = Len(s.contexts) + 1
  /\ t.contexts[Len(s.contexts) + 1] =
       [depth |-> Len(s.contexts) + 1, scope_depth |-> s.scope_depth, uuid |-> s.context_uuid]
  /\ \A d \in 1..Len(s.contexts) : t.contexts[d] = s.contexts[d]
  /\ Len(t.assignment_contexts) = Len(s.assignment_contexts)
  /\ \A a \in 1..Len(s.assignment_contexts) :
       /\ DOMAIN t.assignment_contexts[a] = {"children", "assigned"}
       /\ t.assignment_contexts[a].assigned = s.assignment_contexts[a].assigned
       /\ Children(t, a) = Children(s, a)
                             \cup IF a = Len(s.assignment_contexts) THEN {s.context_uuid} ELSE {}

(* The construct the block belongs to, before and after. *)
Resumed(b, c) ==
  c.depth = b.depth /\ c.join = b.join /\ c.before = b.before /\ c.ends = b.ends /\ c.blocks = b.blocks + 1

LEMMA DeepenedAssured ==
  ASSUME NEW s, NEW depth, Shaped(s, depth), NEW branches, Assured(s, branches),
         NEW t, Deepened(s, t), NEW others,
         \A c \in others :
           \/ c \in branches /\ c.depth < Len(s.contexts)
           \/ \E b \in branches : /\ Resumed(b, c) /\ b.depth = Len(s.contexts)
                                  /\ b.join \in {0, Len(s.assignment_contexts)}
  PROVE  Assured(t, others)
<1> DEFINE n == Len(s.contexts)
           m == Len(s.assignment_contexts)
           u == s.context_uuid
<1>1. n \in Nat /\ m \in Nat /\ u \in Nat
  BY ListShape DEF Shaped, Covered
<1>2. \A d \in 1..n : Uuid(s, d) \in Nat /\ Uuid(s, d) < u
  BY DEF Shaped, Uuid
<1>3. /\ t.scope_depth = s.scope_depth /\ t.classified = s.classified /\ t.local_variables = s.local_variables
      /\ t.context_uuid = u + 1 /\ Len(t.contexts) = n + 1 /\ t.sure = s.sure
      /\ Len(t.assignment_contexts) = m
      /\ Uuid(t, n + 1) = u /\ t.contexts[n + 1].scope_depth = s.scope_depth
      /\ \A d \in 1..n : t.contexts[d] = s.contexts[d] /\ Uuid(t, d) = Uuid(s, d)
  BY DEF Deepened, Rebuilt, Uuid
<1>4. \A a \in 1..m : /\ DOMAIN t.assignment_contexts[a] = {"children", "assigned"}
                      /\ Children(t, a) = Children(s, a) \cup IF a = m THEN {u} ELSE {}
                      /\ \A id : AssignedIn(t, a, id) = AssignedIn(s, a, id)
  BY DEF Deepened, AssignedIn
<1>5. /\ Own(t) = Own(s) /\ \A id : When(t, id) = When(s, id)
      /\ \A uuids : Numbered(s, uuids) => Numbered(t, uuids)
  BY <1>1, <1>3 DEF Own, When, Numbered
<1>6. /\ \A d, e \in 1..n : d < e => Uuid(s, d) < Uuid(s, e)
      /\ \A d \in 1..n : s.contexts[d].scope_depth = s.scope_depth
      /\ \A a \in 1..m : Numbered(s, Children(s, a)) /\ \A id : Numbered(s, AssignedIn(s, a, id))
      /\ \A id \in Own(s) : /\ When(s, id).scope_depth = s.scope_depth /\ When(s, id).depth \in Nat \ {0}
                            /\ Numbered(s, {When(s, id).uuid})
  BY DEF Assured, Dated
<1> HIDE DEF n, m, u
<1>7. \A d \in 1..n + 1 : d \in 1..n \/ d = n + 1 BY <1>1
<1>8. Dated(t)
  <2>1. ASSUME NEW d \in 1..n + 1
        PROVE  /\ t.contexts[d].scope_depth = t.scope_depth
               /\ \A e \in 1..n + 1 : d < e => Uuid(t, d) < Uuid(t, e)
    <3>1. t.contexts[d].scope_depth = t.scope_depth BY <1>3, <1>6, <1>7
    <3>2. ASSUME NEW e \in 1..n + 1, d < e PROVE Uuid(t, d) < Uuid(t, e)
      <4>1. d \in 1..n BY <3>2, <1>1, <1>7
      <4>2. CASE e = n + 1 BY <4>1, <4>2, <1>2, <1>3
      <4>3. CASE e \in 1..n BY <4>1, <4>3, <3>2, <1>3, <1>6
      <4> QED BY <4>2, <4>3, <1>7
    <3> QED BY <3>1, <3>2
  <2>2. ASSUME NEW a \in 1..m PROVE Numbered(t, Children(t, a)) /\ \A id : Numbered(t, AssignedIn(t, a, id))
    <3>1. Numbered(t, Children(s, a)) BY <1>5, <1>6
    <3>2. Numbered(t, {u}) BY <1>1, <1>3 DEF Numbered
    <3>3. Numbered(t, Children(t, a)) BY <3>1, <3>2, <1>4 DEF Numbered
    <3> QED BY <3>3, <1>4, <1>5, <1>6
  <2> QED BY <2>1, <2>2, <1>3, <1>4, <1>5, <1>6 DEF Dated
<1>9. ASSUME NEW d \in 1..n + 1, NEW id, Told(t, d, id) PROVE SureOf(t, others, d, id)
  <2>1. CASE d = n + 1
    <3>1. \A i \in Own(s) : When(s, i).uuid /= u BY <1>6, <1>1 DEF Numbered, u
    <3>2. \A a \in 1..m : u \notin AssignedIn(s, a, id) BY <1>6, <1>1 DEF Numbered, u
    <3> QED BY <3>1, <3>2, <2>1, <1>3, <1>4, <1>5, <1>9 DEF Told
  <2>2. CASE d \in 1..n
    <3>1. Told(s, d, id) BY <2>2, <1>9, <1>3, <1>4, <1>5 DEF Told, m
    <3>2. SureOf(s, branches, d, id) BY <3>1, <2>2 DEF Assured, n
    <3>3. \A c \in others : \E b \in branches : b.depth = c.depth /\ b.before = c.before BY DEF Resumed
    <3> QED BY <3>2, <3>3, <1>3 DEF SureOf
  <2> QED BY <2>1, <2>2, <1>7
<1>10. ASSUME NEW c \in others PROVE Placed(t, c) /\ (c.join /= 0 => Joined(t, c))
  <2>1. CASE c \in branches /\ c.depth < n
    <3>1. Placed(s, c) /\ (c.join /= 0 => Joined(s, c)) BY <2>1 DEF Assured
    <3>2. Placed(t, c) BY <3>1, <1>1, <1>3 DEF Placed, n, m
    <3>3. ASSUME c.join /= 0 PROVE Joined(t, c)
      <4>1. c.join \in 1..m /\ c.depth \in 1..n /\ c.depth + 1 \in 1..n /\ Joined(s, c)
        BY <3>1, <3>3, <2>1, <1>1 DEF Placed, m, n
      <4>2. Uuid(t, c.depth) = Uuid(s, c.depth) /\ Uuid(t, c.depth + 1) = Uuid(s, c.depth + 1)
        BY <4>1, <1>3
      <4>3. Edge(t, c.depth) = Edge(s, c.depth) /\ Endings(t, c) = Endings(s, c) /\ Edge(s, c.depth) < u
            /\ Edge(s, c.depth) = Uuid(s, c.depth + 1)
        BY <4>1, <4>2, <2>1, <1>1, <1>2, <1>3 DEF Edge, Endings, n
      <4>4. u \notin {x \in Children(t, c.join) : x < Edge(t, c.depth)}
        BY <4>1, <4>3, <1>1, <1>2
      <4>5. Ended(t, c) = Ended(s, c) BY <4>1, <4>3, <4>4, <1>4 DEF Ended
      <4>6. \A x \in Children(t, c.join) : Uuid(t, c.depth) < x
        BY <4>1, <4>2, <1>2, <1>4 DEF Joined
      <4>7. Uuid(t, c.depth + 1) \in Children(t, c.join) BY <4>1, <4>2, <2>1, <1>4 DEF Joined, n
      <4>8. Endings(t, c) >= 1 => /\ Ended(t, c) /= {}
                                  /\ \A id : Ended(t, c) \subseteq AssignedIn(t, c.join, id) => id \in c.ends
        BY <4>1, <4>3, <4>5, <1>4 DEF Joined
      <4> QED BY <4>6, <4>7, <4>8 DEF Joined
    <3> QED BY <3>2, <3>3
  <2>2. ASSUME NEW b \in branches, Resumed(b, c), b.depth = n, b.join \in {0, m}
        PROVE  Placed(t, c) /\ (c.join /= 0 => Joined(t, c))
    <3>1. Placed(s, b) /\ (b.join /= 0 => Joined(s, b)) BY DEF Assured
    <3>2. c.depth = n /\ c.join = b.join /\ c.blocks = b.blocks + 1 /\ c.ends = b.ends
      BY <2>2 DEF Resumed
    <3>3. b.blocks \in Nat BY <3>1 DEF Placed
    <3>4. Placed(t, c) BY <3>1, <3>2, <2>2, <1>1, <1>3 DEF Placed, n, m
    <3>5. ASSUME c.join /= 0 PROVE Joined(t, c)
      <4>1. c.join = m /\ m \in 1..m /\ n \in 1..n /\ Joined(s, b)
        BY <3>1, <3>2, <3>5, <2>2, <1>1 DEF Placed, m, n
      <4>2. Edge(t, n) = u /\ Edge(s, n) = u /\ Endings(t, c) = Endings(s, b)
        BY <3>2, <3>3, <2>2, <1>1, <1>3 DEF Edge, Endings, n, u
      <4>3. \A x \in Children(s, m) : x \in Nat /\ x < u BY <4>1, <1>6 DEF Numbered, u
      <4>4. Ended(t, c) = Children(s, m) /\ Ended(s, b) = Children(s, m)
        BY <4>1, <4>2, <4>3, <3>2, <2>2, <1>1, <1>4 DEF Ended
      <4>5. \A x \in Children(t, c.join) : Uuid(t, c.depth) < x
        BY <4>1, <3>2, <2>2, <1>2, <1>3, <1>4 DEF Joined
      <4>6. Uuid(t, c.depth + 1) \in Children(t, c.join) BY <4>1, <3>2, <1>3, <1>4
      <4>7. Endings(t, c) >= 1 => /\ Ended(t, c) /= {}
                                  /\ \A id : Ended(t, c) \subseteq AssignedIn(t, c.join, id) => id \in c.ends
        BY <4>1, <4>2, <4>4, <3>2, <1>4 DEF Joined
      <4> QED BY <4>5, <4>6, <4>7 DEF Joined
    <3> QED BY <3>4, <3>5
  <2> QED BY <2>1, <2>2 DEF n, m
<1> QED BY <1>3, <1>8, <1>9, <1>10 DEF Assured

(* A block is left: its context is closed, and what is sure at its end counts  *)
(* for the construct.                                                           *)
Shallowed(s, t) ==
  /\ Rebuilt(s, t) /\ t.context_uuid = s.context_uuid /\ t.assignment_contexts = s.assignment_contexts
  /\ Len(t.contexts) = Len(s.contexts) - 1
  /\ \A d \in 1..Len(s.contexts) - 1 : t.contexts[d] = s.contexts[d]

Finished(b, c, sure) ==
  /\ c.depth = b.depth /\ c.join = b.join /\ c.before = b.before /\ c.blocks = b.blocks
  /\ c.ends = IF b.blocks = 1 THEN sure ELSE b.ends \cap sure

LEMMA ShallowedAssured ==
  ASSUME NEW s, NEW depth, Shaped(s, depth), Len(s.contexts) >= 2, NEW branches, Assured(s, branches),
         NEW b \in branches, b.depth = Len(s.contexts) - 1, b.blocks >= 1,
         NEW t, Shallowed(s, t), t.sure = b.before, NEW others,
         \A c \in others : \/ c \in branches /\ c.depth < b.depth
                           \/ Finished(b, c, s.sure)
  PROVE  Assured(t, others)
<1> DEFINE n == Len(s.contexts)
           m == Len(s.assignment_contexts)
           u == s.context_uuid
<1>1. n \in Nat /\ n >= 2 /\ m \in Nat /\ u \in Nat /\ n - 1 \in 1..n /\ n \in 1..n
  BY ListShape DEF Shaped, Covered
<1>2. \A d \in 1..n : Uuid(s, d) \in Nat /\ Uuid(s, d) < u
  BY DEF Shaped, Uuid
<1>3. /\ t.scope_depth = s.scope_depth /\ t.classified = s.classified /\ t.local_variables = s.local_variables
      /\ t.context_uuid = u /\ Len(t.contexts) = n - 1
      /\ t.assignment_contexts = s.assignment_contexts
      /\ \A d \in 1..n - 1 : t.contexts[d] = s.contexts[d] /\ Uuid(t, d) = Uuid(s, d)
  BY DEF Shallowed, Rebuilt, Uuid
<1>4. /\ Own(t) = Own(s) /\ \A id : When(t, id) = When(s, id)
      /\ \A a : Children(t, a) = Children(s, a) /\ \A id : AssignedIn(t, a, id) = AssignedIn(s, a, id)
      /\ \A uuids : Numbered(s, uuids) <=> Numbered(t, uuids)
  BY <1>3 DEF Own, When, Numbered, Children, AssignedIn
<1>5. \A d \in 1..n - 1 : d \in 1..n BY <1>1
<1>6. Dated(t)
  <2>1. Dated(s) BY DEF Assured
  <2>2. \A id \in Own(t) : /\ When(t, id).scope_depth = t.scope_depth /\ When(t, id).depth \in Nat \ {0}
                           /\ Numbered(t, {When(t, id).uuid})
    BY <2>1, <1>3, <1>4 DEF Dated
  <2>3. \A d \in 1..n - 1 : /\ t.contexts[d].scope_depth = t.scope_depth
                            /\ \A e \in 1..n - 1 : d < e => Uuid(t, d) < Uuid(t, e)
    BY <2>1, <1>3, <1>5 DEF Dated
  <2>4. \A a \in 1..m :
          /\ DOMAIN t.assignment_contexts[a] = {"children", "assigned"}
          /\ Numbered(t, Children(t, a)) /\ \A id : Numbered(t, AssignedIn(t, a, id))
    BY <2>1, <1>3, <1>4 DEF Dated
  <2> QED BY <2>2, <2>3, <2>4, <1>3 DEF Dated
<1>7. \A id : Told(s, n, id) => id \in s.sure BY <1>1 DEF Assured, SureOf
<1>8. /\ \A a \in 1..m : Numbered(s, Children(s, a))
      /\ \A d, e \in 1..n : d < e => Uuid(s, d) < Uuid(s, e)
  BY DEF Assured, Dated
<1>9. /\ Placed(s, b) /\ (b.join /= 0 => Joined(s, b)) /\ b.blocks \in Nat
  BY DEF Assured, Placed
<1>10. b.depth = n - 1 OBVIOUS
<1> HIDE DEF n, m, u
<1>11. ASSUME NEW d \in 1..n - 1, NEW id, Told(t, d, id) PROVE SureOf(t, others, d, id)
  <2>1. Told(s, d, id) BY <1>3, <1>4, <1>11 DEF Told
  <2>2. SureOf(s, branches, d, id) BY <2>1, <1>5 DEF Assured, n
  <2>3. id \in b.before BY <2>2, <1>10 DEF SureOf
  <2>4. \A c \in others : (\E x \in branches : x.depth = c.depth /\ x.before = c.before) BY DEF Finished
  <2> QED BY <2>2, <2>3, <2>4 DEF SureOf
<1>12. ASSUME NEW c \in others PROVE Placed(t, c) /\ (c.join /= 0 => Joined(t, c))
  <2>1. CASE c \in branches /\ c.depth < b.depth
    <3>1. Placed(s, c) /\ (c.join /= 0 => Joined(s, c)) BY <2>1 DEF Assured
    <3>2. c.depth \in Nat /\ c.depth >= 1 /\ c.depth < n - 1 BY <3>1, <2>1, <1>1, <1>10 DEF Placed, n
    <3>3. Placed(t, c) BY <3>1, <3>2, <1>1, <1>3 DEF Placed, m
    <3>4. ASSUME c.join /= 0 PROVE Joined(t, c)
      <4>1. c.depth \in 1..n - 1 /\ c.depth + 1 \in 1..n - 1 /\ c.depth < n BY <3>2, <1>1
      <4>2. /\ Uuid(t, c.depth) = Uuid(s, c.depth) /\ Uuid(t, c.depth + 1) = Uuid(s, c.depth + 1)
            /\ Edge(t, c.depth) = Edge(s, c.depth) /\ Endings(t, c) = Endings(s, c)
        BY <4>1, <3>2, <1>3 DEF Edge, Endings, n
      <4>3. Ended(t, c) = Ended(s, c) BY <4>2, <1>4 DEF Ended
      <4> QED BY <3>1, <3>4, <4>1, <4>2, <4>3, <1>4 DEF Joined, n
    <3> QED BY <3>3, <3>4
  <2>2. CASE Finished(b, c, s.sure)
    <3>1. /\ c.depth = n - 1 /\ c.join = b.join /\ c.blocks = b.blocks
          /\ c.ends = IF b.blocks = 1 THEN s.sure ELSE b.ends \cap s.sure
      BY <2>2, <1>10 DEF Finished
    <3>2. Placed(t, c) BY <3>1, <1>1, <1>3, <1>9 DEF Placed, m
    <3>3. ASSUME c.join /= 0 PROVE Joined(t, c)
      <4>1. Joined(s, b) /\ b.join \in 1..m BY <3>1, <3>3, <1>1, <1>9 DEF Placed, m
      <4>2. /\ Edge(t, c.depth) = u /\ Endings(t, c) = b.blocks /\ Endings(s, b) = b.blocks - 1
            /\ Edge(s, b.depth) = Uuid(s, n)
        BY <3>1, <1>1, <1>3, <1>10 DEF Edge, Endings, n
      <4>3. \A x \in Children(s, b.join) : x \in Nat /\ x < u BY <4>1, <1>8 DEF Numbered, u
      <4>4. Ended(t, c) = Children(s, b.join) /\ Ended(s, b) \subseteq Children(s, b.join)
        BY <4>2, <4>3, <3>1, <1>4 DEF Ended
      <4>5. Uuid(s, n) \in Children(s, b.join)
        <5>1. b.depth < n /\ b.depth + 1 = n BY <1>1, <1>10
        <5> QED BY <4>1, <5>1 DEF Joined, n
      <4>6. ASSUME NEW id, Ended(t, c) \subseteq AssignedIn(t, c.join, id) PROVE id \in c.ends
        <5>1. Uuid(s, n) \in AssignedIn(s, b.join, id) BY <4>4, <4>5, <4>6, <3>1, <1>4
        <5>2. Told(s, n, id) BY <5>1, <4>1 DEF Told, m
        <5>3. id \in s.sure BY <5>2, <1>7
        <5>4. CASE b.blocks = 1 BY <5>3, <5>4, <3>1
        <5>5. CASE b.blocks /= 1
          <6>1. Endings(s, b) >= 1 BY <5>5, <4>2, <1>9
          <6>2. Ended(s, b) \subseteq AssignedIn(s, b.join, id) BY <4>4, <4>6, <3>1, <1>4
          <6>3. id \in b.ends BY <6>1, <6>2, <4>1 DEF Joined
          <6> QED BY <6>3, <5>3, <5>5, <3>1
        <5> QED BY <5>4, <5>5
      <4>7. \A x \in Children(t, c.join) : Uuid(t, c.depth) < x
        BY <4>1, <3>1, <1>1, <1>3, <1>4, <1>10 DEF Joined
      <4>8. ~(c.depth < Len(t.contexts)) BY <3>1, <1>1, <1>3
      <4>9. Ended(t, c) /= {} BY <4>4, <4>5
      <4> QED BY <4>6, <4>7, <4>8, <4>9 DEF Joined
    <3> QED BY <3>2, <3>3
  <2> QED BY <2>1, <2>2
<1> QED BY <1>3, <1>6, <1>11, <1>12 DEF Assured

(* A construct is left: with it goes its context of assignment, if it has one, *)
(* and what is promoted counts for the context that the construct is in.        *)
Left(s, t, promoted) ==
  /\ t.scope_depth = s.scope_depth /\ t.contexts = s.contexts /\ t.local_variables = s.local_variables
  /\ t.context_uuid \in {s.context_uuid, s.context_uuid + 1}
  /\ Len(t.assignment_contexts) \in Nat /\ Len(t.assignment_contexts) <= Len(s.assignment_contexts)
  /\ \A id \in Own(s) : When(t, id) = When(s, id) \/ (id \in promoted /\ When(t, id) = current_context(s))
  /\ \A id \in Own(s) \cap promoted : When(t, id) = current_context(s)
  /\ DOMAIN t.classified = DOMAIN s.classified /\ (t.flat => s.flat)
  /\ \A a \in 1..Len(t.assignment_contexts) :
       /\ DOMAIN t.assignment_contexts[a] = {"children", "assigned"}
       /\ Children(t, a) = Children(s, a)
       /\ \A id : AssignedIn(t, a, id) \subseteq
                    AssignedIn(s, a, id) \cup IF id \in promoted THEN {current_context(s).uuid} ELSE {}

LEMMA LeftAssured ==
  ASSUME NEW s, NEW depth, Shaped(s, depth), Len(s.contexts) >= 1, NEW branches, Assured(s, branches),
         NEW b \in branches, b.depth = Len(s.contexts),
         NEW t, NEW promoted, Left(s, t, promoted), b.before \subseteq t.sure, promoted \subseteq t.sure,
         NEW others,
         \A c \in others : c \in branches /\ c.depth < b.depth /\ c.join <= Len(t.assignment_contexts)
  PROVE  Assured(t, others)
<1> DEFINE n == Len(s.contexts)
           m == Len(t.assignment_contexts)
           here == current_context(s)
           u == s.context_uuid
<1>1. /\ n \in Nat /\ n \in 1..n /\ m \in Nat /\ here = s.contexts[n] /\ u \in Nat
      /\ \A a \in 1..m : a \in 1..Len(s.assignment_contexts)
  BY ListShape DEF Shaped, Covered, current_context, Last, Left
<1>2. \A d \in 1..n : Uuid(s, d) \in Nat /\ Uuid(s, d) < u /\ s.contexts[d].depth = d
  BY DEF Shaped, Uuid
<1>3. /\ \A d, e \in 1..n : d < e => Uuid(s, d) < Uuid(s, e)
      /\ \A d \in 1..n : s.contexts[d].scope_depth = s.scope_depth
  BY DEF Assured, Dated
<1>4. /\ t.contexts = s.contexts /\ t.scope_depth = s.scope_depth /\ t.context_uuid \in {u, u + 1}
      /\ Own(t) = Own(s) /\ \A d : Uuid(t, d) = Uuid(s, d)
  BY DEF Left, Uuid, Own
<1>5. \A uuids : Numbered(s, uuids) => Numbered(t, uuids) BY <1>1, <1>4 DEF Numbered
<1>6. \A id \in Own(s) : When(t, id) = When(s, id) \/ (id \in promoted /\ When(t, id) = here)
  BY DEF Left
<1>7. \A a \in 1..m : /\ DOMAIN t.assignment_contexts[a] = {"children", "assigned"}
                      /\ Children(t, a) = Children(s, a)
                      /\ \A id : AssignedIn(t, a, id) \subseteq
                                   AssignedIn(s, a, id) \cup IF id \in promoted THEN {Uuid(s, n)} ELSE {}
  BY <1>1 DEF Left, Uuid
<1>8. here.scope_depth = s.scope_depth /\ here.depth = n /\ here.uuid = Uuid(s, n)
  BY <1>1, <1>2, <1>3 DEF Uuid
<1>9. b.depth = n OBVIOUS
<1> HIDE DEF n, m, here, u
<1>10. Dated(t)
  <2>1. ASSUME NEW id \in Own(t)
        PROVE  /\ When(t, id).scope_depth = t.scope_depth /\ When(t, id).depth \in Nat \ {0}
               /\ Numbered(t, {When(t, id).uuid})
    <3>1. CASE When(t, id) = When(s, id) BY <3>1, <1>4, <1>5 DEF Assured, Dated
    <3>2. CASE When(t, id) = here
      <4>1. Numbered(s, {here.uuid}) BY <1>1, <1>2, <1>8 DEF Numbered, u
      <4> QED BY <4>1, <3>2, <1>1, <1>4, <1>5, <1>8
    <3> QED BY <3>1, <3>2, <1>4, <1>6
  <2>2. ASSUME NEW a \in 1..m PROVE Numbered(t, Children(t, a)) /\ \A id : Numbered(t, AssignedIn(t, a, id))
    <3>1. Numbered(s, Children(s, a)) /\ \A id : Numbered(s, AssignedIn(s, a, id)) BY <1>1 DEF Assured, Dated
    <3>2. Numbered(s, {Uuid(s, n)}) BY <1>1, <1>2 DEF Numbered, u
    <3>3. ASSUME NEW id PROVE Numbered(s, AssignedIn(t, a, id))
      BY <3>1, <3>2, <1>7 DEF Numbered
    <3> QED BY <3>1, <3>3, <1>5, <1>7
  <2> QED BY <2>1, <2>2, <1>3, <1>4, <1>7 DEF Dated, n, m
<1>11. ASSUME NEW d \in 1..n, NEW id, Told(t, d, id) PROVE SureOf(t, others, d, id)
  <2>1. Told(s, d, id) \/ (id \in promoted /\ Uuid(s, d) = Uuid(s, n))
    <3>1. CASE id \in Own(t) /\ When(t, id).uuid = Uuid(t, d) BY <3>1, <1>4, <1>6, <1>8 DEF Told
    <3>2. CASE \E a \in 1..m : Uuid(t, d) \in AssignedIn(t, a, id)
      <4>1. PICK a \in 1..m : Uuid(s, d) \in AssignedIn(t, a, id) BY <3>2, <1>4
      <4>2. \/ Uuid(s, d) \in AssignedIn(s, a, id)
            \/ id \in promoted /\ Uuid(s, d) = Uuid(s, n)
        BY <4>1, <1>7
      <4> QED BY <4>2, <1>1 DEF Told
    <3> QED BY <3>1, <3>2, <1>11 DEF Told, m
  <2>2. CASE Told(s, d, id)
    <3>1. SureOf(s, branches, d, id) BY <2>2 DEF Assured, n
    <3>2. id \in b.before BY <3>1, <1>9 DEF SureOf
    <3> QED BY <3>1, <3>2 DEF SureOf
  <2>3. CASE id \in promoted /\ Uuid(s, d) = Uuid(s, n)
    <3>1. d = n
      <4>1. ~(d < n)
        <5>1. d < n => Uuid(s, d) < Uuid(s, n) BY <1>1, <1>3
        <5>2. Uuid(s, n) \in Nat /\ Uuid(s, d) \in Nat BY <1>1, <1>2
        <5> QED BY <5>1, <5>2, <2>3
      <4> QED BY <4>1, <1>1
    <3>2. ASSUME NEW c \in others PROVE ~(c.depth >= n)
      <4>1. Placed(s, c) BY DEF Assured
      <4> QED BY <4>1, <1>1, <1>9 DEF Placed
    <3> QED BY <3>1, <3>2, <2>3 DEF SureOf
  <2> QED BY <2>1, <2>2, <2>3
<1>12. ASSUME NEW c \in others PROVE Placed(t, c) /\ (c.join /= 0 => Joined(t, c))
  <2>1. c \in branches /\ c.depth < n /\ c.join <= m BY <1>9 DEF m
  <2>2. Placed(s, c) /\ (c.join /= 0 => Joined(s, c)) BY <2>1 DEF Assured
  <2>3. c.join \in Nat BY <2>2 DEF Placed
  <2>4. Placed(t, c) BY <2>1, <2>2, <2>3, <1>1, <1>4 DEF Placed, m
  <2>5. ASSUME c.join /= 0 PROVE Joined(t, c)
    <3>1. c.join \in 1..m /\ c.depth \in 1..n /\ c.depth + 1 \in 1..n /\ Joined(s, c)
      BY <2>1, <2>2, <2>3, <2>5, <1>1 DEF Placed, n
    <3>2. Edge(t, c.depth) = Edge(s, c.depth) /\ Edge(s, c.depth) = Uuid(s, c.depth + 1)
          /\ Endings(t, c) = Endings(s, c)
      BY <2>1, <1>4 DEF Edge, Endings, n
    <3>3. Ended(t, c) = Ended(s, c) BY <3>1, <3>2, <1>7 DEF Ended
    <3>4. Uuid(s, n) \notin Ended(s, c)
      <4>1. Uuid(s, c.depth + 1) <= Uuid(s, n)
        <5>1. c.depth + 1 < n => Uuid(s, c.depth + 1) < Uuid(s, n) BY <3>1, <1>1, <1>3
        <5>2. c.depth + 1 = n \/ c.depth + 1 < n BY <3>1, <1>1
        <5>3. Uuid(s, c.depth + 1) \in Nat /\ Uuid(s, n) \in Nat BY <3>1, <1>1, <1>2
        <5> QED BY <5>1, <5>2, <5>3
      <4>2. Uuid(s, c.depth + 1) \in Nat /\ Uuid(s, n) \in Nat BY <3>1, <1>1, <1>2
      <4> QED BY <4>1, <4>2, <3>2 DEF Ended
    <3>5. ASSUME NEW id, Ended(t, c) \subseteq AssignedIn(t, c.join, id)
          PROVE  Ended(s, c) \subseteq AssignedIn(s, c.join, id)
      <4>1. AssignedIn(t, c.join, id) \subseteq
              AssignedIn(s, c.join, id) \cup IF id \in promoted THEN {Uuid(s, n)} ELSE {}
        BY <3>1, <1>7
      <4> QED BY <4>1, <3>3, <3>4, <3>5
    <3> QED BY <3>1, <3>2, <3>3, <3>5, <1>4, <1>7 DEF Joined
  <2> QED BY <2>4, <2>5
<1> QED BY <1>4, <1>10, <1>11, <1>12 DEF Assured, n

(* Only what all branches assign is promoted, and only where one of them is    *)
(* taken whatever happens.                                                      *)
LEMMA PromotedEnds ==
  ASSUME NEW s, NEW depth, Shaped(s, depth), Len(s.assignment_contexts) >= 1,
         NEW branches, Assured(s, branches),
         NEW b \in branches, b.depth = Len(s.contexts), b.join = Len(s.assignment_contexts), b.blocks >= 1
  PROVE  Promotable(Last(s.assignment_contexts)) \subseteq b.ends
<1> DEFINE m == Len(s.assignment_contexts)
<1>1. m \in Nat /\ m \in 1..m /\ m /= 0 /\ Last(s.assignment_contexts) = s.assignment_contexts[m]
  BY ListShape DEF Shaped, Covered, Last
<1>2. Joined(s, b) /\ b.depth \in 1..Len(s.contexts) BY <1>1 DEF Assured, Placed
<1>3. Edge(s, b.depth) = s.context_uuid /\ Endings(s, b) = b.blocks BY <1>2 DEF Edge, Endings
<1>4. \A c \in Children(s, m) : c < s.context_uuid BY <1>1 DEF Assured, Dated, Numbered
<1>5. Ended(s, b) = Children(s, m) BY <1>3, <1>4 DEF Ended
<1> SUFFICES ASSUME NEW id \in Promotable(Last(s.assignment_contexts)) PROVE id \in b.ends OBVIOUS
<1>6. Children(s, m) \subseteq AssignedIn(s, m, id) BY <1>1 DEF Promotable, Children, AssignedIn
<1>7. Ended(s, b) \subseteq AssignedIn(s, b.join, id) BY <1>5, <1>6
<1> QED BY <1>2, <1>3, <1>7 DEF Joined

(* A construct is entered: it has no blocks yet, and what is sure before it is *)
(* what the scope is sure of.                                                   *)
Branched(s, t) ==
  /\ Rebuilt(s, t) /\ t.contexts = s.contexts /\ t.context_uuid = s.context_uuid /\ t.sure = s.sure
  /\ Len(t.assignment_contexts) \in Nat /\ Len(t.assignment_contexts) >= Len(s.assignment_contexts)
  /\ \A a \in 1..Len(t.assignment_contexts) :
       t.assignment_contexts[a] = IF a <= Len(s.assignment_contexts) THEN s.assignment_contexts[a]
                                  ELSE [children |-> {}, assigned |-> << >>]

LEMMA BranchedAssured ==
  ASSUME NEW s, NEW depth, Shaped(s, depth), Len(s.contexts) >= 1, NEW branches, Assured(s, branches),
         NEW t, Branched(s, t), NEW others,
         \A c \in others : \/ c \in branches
                           \/ /\ c.depth = Len(s.contexts) /\ c.blocks = 0 /\ c.before = s.sure
                              /\ c.join \in 0..Len(t.assignment_contexts)
                              /\ c.join /= 0 => c.join > Len(s.assignment_contexts)
  PROVE  Assured(t, others)
<1> DEFINE n == Len(s.contexts)
           m == Len(s.assignment_contexts)
           k == Len(t.assignment_contexts)
<1>1. n \in Nat /\ n \in 1..n /\ m \in Nat /\ k \in Nat /\ k >= m
  BY ListShape DEF Shaped, Covered, Branched
<1>2. /\ t.scope_depth = s.scope_depth /\ t.contexts = s.contexts /\ t.context_uuid = s.context_uuid
      /\ Own(t) = Own(s) /\ t.sure = s.sure
      /\ \A id : When(t, id) = When(s, id)
      /\ \A d : Uuid(t, d) = Uuid(s, d) /\ Edge(t, d) = Edge(s, d)
      /\ \A uuids : Numbered(s, uuids) <=> Numbered(t, uuids)
  BY DEF Branched, Rebuilt, Own, When, Uuid, Edge, Numbered
<1>3. ASSUME NEW a \in 1..k
      PROVE  \/ a \in 1..m /\ t.assignment_contexts[a] = s.assignment_contexts[a]
             \/ a > m /\ t.assignment_contexts[a] = [children |-> {}, assigned |-> << >>]
  BY <1>1 DEF Branched
<1>4. ASSUME NEW a \in 1..k
      PROVE  \/ /\ a \in 1..m /\ t.assignment_contexts[a] = s.assignment_contexts[a]
                /\ Children(t, a) = Children(s, a) /\ \A id : AssignedIn(t, a, id) = AssignedIn(s, a, id)
             \/ /\ a > m /\ Children(t, a) = {} /\ \A id : AssignedIn(t, a, id) = {}
                /\ DOMAIN t.assignment_contexts[a] = {"children", "assigned"}
  <2>1. CASE a \in 1..m /\ t.assignment_contexts[a] = s.assignment_contexts[a]
    BY <2>1 DEF Children, AssignedIn
  <2>2. CASE a > m /\ t.assignment_contexts[a] = [children |-> {}, assigned |-> << >>]
    <3>1. /\ t.assignment_contexts[a].children = {} /\ t.assignment_contexts[a].assigned = << >>
          /\ DOMAIN t.assignment_contexts[a] = {"children", "assigned"}
      BY <2>2
    <3>2. DOMAIN << >> = {} OBVIOUS
    <3> QED BY <2>2, <3>1, <3>2 DEF Children, AssignedIn
  <2> QED BY <2>1, <2>2, <1>3
<1> HIDE DEF n, m, k
<1>5. Dated(t)
  <2>1. Dated(s) BY DEF Assured
  <2>2. \A id \in Own(t) : /\ When(t, id).scope_depth = t.scope_depth /\ When(t, id).depth \in Nat \ {0}
                           /\ Numbered(t, {When(t, id).uuid})
    BY <2>1, <1>2 DEF Dated
  <2>3. \A d \in 1..n : /\ t.contexts[d].scope_depth = t.scope_depth
                        /\ \A e \in 1..n : d < e => Uuid(t, d) < Uuid(t, e)
    BY <2>1, <1>2 DEF Dated, n
  <2>4. ASSUME NEW a \in 1..k
        PROVE  /\ DOMAIN t.assignment_contexts[a] = {"children", "assigned"}
               /\ Numbered(t, Children(t, a)) /\ \A id : Numbered(t, AssignedIn(t, a, id))
    <3>1. CASE /\ a \in 1..m /\ t.assignment_contexts[a] = s.assignment_contexts[a]
               /\ Children(t, a) = Children(s, a) /\ \A id : AssignedIn(t, a, id) = AssignedIn(s, a, id)
      BY <3>1, <2>1, <1>2 DEF Dated, m
    <3>2. CASE /\ a > m /\ Children(t, a) = {} /\ \A id : AssignedIn(t, a, id) = {}
               /\ DOMAIN t.assignment_contexts[a] = {"children", "assigned"}
      BY <3>2 DEF Numbered
    <3> QED BY <3>1, <3>2, <1>4
  <2> QED BY <2>2, <2>3, <2>4, <1>2 DEF Dated, n, k
<1>6. ASSUME NEW d \in 1..n, NEW id, Told(t, d, id) PROVE SureOf(t, others, d, id)
  <2>1. Told(s, d, id)
    <3>1. CASE id \in Own(t) /\ When(t, id).uuid = Uuid(t, d) BY <3>1, <1>2 DEF Told
    <3>2. CASE \E a \in 1..k : Uuid(t, d) \in AssignedIn(t, a, id) BY <3>2, <1>2, <1>4 DEF Told, m
    <3> QED BY <3>1, <3>2, <1>6 DEF Told, k
  <2>2. SureOf(s, branches, d, id) BY <2>1 DEF Assured, n
  <2> QED BY <2>2, <1>2 DEF SureOf
<1>7. ASSUME NEW c \in others PROVE Placed(t, c) /\ (c.join /= 0 => Joined(t, c))
  <2>1. CASE c \in branches
    <3>1. Placed(s, c) /\ (c.join /= 0 => Joined(s, c)) BY <2>1 DEF Assured
    <3>2. Placed(t, c) BY <3>1, <1>1, <1>2 DEF Placed, m, k
    <3>3. ASSUME c.join /= 0 PROVE Joined(t, c)
      <4>1. c.join \in 1..k /\ c.join <= m BY <3>1, <3>3, <1>1 DEF Placed, m
      <4>2. Children(t, c.join) = Children(s, c.join) /\ \A id : AssignedIn(t, c.join, id) = AssignedIn(s, c.join, id)
        BY <4>1, <1>1, <1>4
      <4>3. Ended(t, c) = Ended(s, c) /\ Endings(t, c) = Endings(s, c) BY <4>2, <1>2 DEF Ended, Endings
      <4> QED BY <3>1, <3>3, <4>2, <4>3, <1>2 DEF Joined
    <3> QED BY <3>2, <3>3
  <2>2. CASE /\ c.depth = n /\ c.blocks = 0 /\ c.before = s.sure
             /\ c.join \in 0..k /\ (c.join /= 0 => c.join > m)
    <3>1. Placed(t, c) BY <2>2, <1>1, <1>2 DEF Placed, k, n
    <3>2. ASSUME c.join /= 0 PROVE Joined(t, c)
      <4>1. c.join \in 1..k /\ c.join > m BY <2>2, <3>2, <1>1
      <4>2. Children(t, c.join) = {} BY <4>1, <1>1, <1>4
      <4>3. ~(Endings(t, c) >= 1) /\ ~(c.depth < Len(t.contexts)) BY <2>2, <1>1, <1>2 DEF Endings, n
      <4> QED BY <4>2, <4>3 DEF Joined
    <3> QED BY <3>1, <3>2
  <2> QED BY <2>1, <2>2 DEF n, m, k
<1> QED BY <1>2, <1>5, <1>6, <1>7 DEF Assured, n

------------------------------------------------------------------------------
(* What the operations on a scope track. *)

LEMMA TracksItself ==
  ASSUME NEW s, NEW t, SameContexts(s, t), t.assignment_contexts = s.assignment_contexts,
         t.local_variables = s.local_variables, \A id \in Own(s) : When(t, id) = When(s, id), NEW ids
  PROVE  Tracks(s, t, ids)
BY DEF Tracks, Own, Children, AssignedIn

LEMMA TracksTransitive ==
  ASSUME NEW s, NEW t, NEW u, NEW ids, Tracks(s, t, ids), Tracks(t, u, ids)
  PROVE  Tracks(s, u, ids)
<1>1. current_context(t) = current_context(s) BY DEF Tracks, SameContexts, current_context
<1>2. SameContexts(s, u) /\ Len(u.assignment_contexts) = Len(s.assignment_contexts)
  BY DEF Tracks, SameContexts
<1>3. \A id \in Own(u) : \/ id \in Own(s) /\ When(u, id) = When(s, id)
                         \/ id \in ids /\ When(u, id) = current_context(s)
  BY <1>1 DEF Tracks
<1>4. ASSUME NEW a \in 1..Len(s.assignment_contexts), DOMAIN s.assignment_contexts[a] = {"children", "assigned"}
      PROVE  /\ DOMAIN u.assignment_contexts[a] = {"children", "assigned"}
             /\ Children(u, a) = Children(s, a)
             /\ \A id : AssignedIn(u, a, id) \subseteq
                          AssignedIn(s, a, id) \cup IF id \in ids THEN {current_context(s).uuid} ELSE {}
  <2>1. /\ DOMAIN t.assignment_contexts[a] = {"children", "assigned"}
        /\ Children(t, a) = Children(s, a)
        /\ \A id : AssignedIn(t, a, id) \subseteq
                     AssignedIn(s, a, id) \cup IF id \in ids THEN {current_context(s).uuid} ELSE {}
    BY <1>4 DEF Tracks
  <2>2. a \in 1..Len(t.assignment_contexts) BY DEF Tracks
  <2>3. /\ DOMAIN u.assignment_contexts[a] = {"children", "assigned"}
        /\ Children(u, a) = Children(t, a)
        /\ \A id : AssignedIn(u, a, id) \subseteq
                     AssignedIn(t, a, id) \cup IF id \in ids THEN {current_context(s).uuid} ELSE {}
    BY <2>1, <2>2, <1>1 DEF Tracks
  <2> QED BY <2>1, <2>3
<1> QED BY <1>2, <1>3, <1>4 DEF Tracks

LEMMA TracksRegistered ==
  ASSUME NEW s, DOMAIN s = ScopeFields, IsList(s.assignment_contexts), NEW ids, NEW t,
         t = RegisterAssigned(s, ids)
  PROVE  /\ Tracks(s, t, ids) /\ t.sure = s.sure
         /\ t.classified = s.classified /\ t.local_variables = s.local_variables /\ (t.flat => s.flat)
         /\ \A a \in 1..Len(s.assignment_contexts) :
              DOMAIN s.assignment_contexts[a] = {"children", "assigned"} =>
                \A id : /\ AssignedIn(s, a, id) \subseteq AssignedIn(t, a, id)
                        /\ a = Len(s.assignment_contexts) /\ id \in ids =>
                             current_context(s).uuid \in AssignedIn(t, a, id)
<1> DEFINE ac == s.assignment_contexts
           n == Len(ac)
           uuid == current_context(s).uuid
           context == [ac[n] EXCEPT !.assigned = register_assignment(@, ids, uuid)]
           e == Replaced(ac, n, context)
<1>1. CASE ac = <<>>
  <2>1. t = s BY <1>1 DEF RegisterAssigned
  <2>2. Len(ac) = 0 BY <1>1
  <2>3. \A a : ~(a \in 1..0) OBVIOUS
  <2>4. Tracks(s, t, ids) BY <2>1, TracksItself DEF SameContexts
  <2> QED BY <2>1, <2>2, <2>3, <2>4
<1>2. CASE ac /= <<>>
  <2>1. t = [s EXCEPT !.assignment_contexts = e]
    BY <1>2 DEF RegisterAssigned, ScopeFields, Replaced
  <2>2. n \in Nat /\ n \in 1..n
    <3>1. n \in Nat BY ListShape
    <3>2. n /= 0 BY <1>2, EmptySeq DEF IsList
    <3> QED BY <3>1, <3>2
  <2>3. Len(e) = n /\ e[n] = context /\ \A a \in 1..n : a /= n => e[a] = ac[a]
    <3>1. e = Replaced(ac, n, context) /\ n = Len(ac) /\ IsList(ac) OBVIOUS
    <3> HIDE DEF e, n, ac, context
    <3> QED BY <2>2, <3>1, ListExcept
  <2> HIDE DEF e
  <2>4. /\ t.assignment_contexts = e /\ t.classified = s.classified /\ t.local_variables = s.local_variables
        /\ SameContexts(s, t) /\ t.sure = s.sure /\ (t.flat => s.flat)
    BY <2>1 DEF ScopeFields, SameContexts
  <2>5. \A id \in Own(t) : id \in Own(s) /\ When(t, id) = When(s, id) BY <2>4 DEF Own, When
  <2>6. ASSUME NEW a \in 1..n, DOMAIN ac[a] = {"children", "assigned"}
        PROVE  /\ DOMAIN e[a] = {"children", "assigned"}
               /\ Children(t, a) = Children(s, a)
               /\ \A id : AssignedIn(t, a, id) \subseteq
                            AssignedIn(s, a, id) \cup IF id \in ids THEN {uuid} ELSE {}
               /\ \A id : /\ AssignedIn(s, a, id) \subseteq AssignedIn(t, a, id)
                          /\ a = n /\ id \in ids => uuid \in AssignedIn(t, a, id)
    <3>1. CASE a /= n
      <4>1. e[a] = ac[a] BY <3>1, <2>3
      <4>2. Children(t, a) = Children(s, a) /\ \A id : AssignedIn(t, a, id) = AssignedIn(s, a, id)
        BY <4>1, <2>4 DEF Children, AssignedIn
      <4> HIDE DEF e, uuid, n
      <4> QED BY <4>1, <4>2, <3>1, <2>6
    <3>2. CASE a = n
      <4> DEFINE f == ac[n].assigned
                 g == register_assignment(f, ids, uuid)
      <4>1. /\ DOMAIN e[a] = {"children", "assigned"} /\ e[a].children = ac[a].children
            /\ e[a].assigned = g
        BY <3>2, <2>3, <2>6
      <4>2. /\ DOMAIN g = DOMAIN f \cup ids
            /\ \A id \in DOMAIN g : g[id] = (IF id \in DOMAIN f THEN f[id] ELSE {})
                                              \cup (IF id \in ids THEN {uuid} ELSE {})
        BY DEF register_assignment
      <4>3. /\ Children(t, a) = Children(s, a)
            /\ \A id : AssignedIn(t, a, id) = IF id \in DOMAIN g THEN g[id] ELSE {}
        BY <4>1, <2>4 DEF Children, AssignedIn
      <4>4. \A id : AssignedIn(s, a, id) = IF id \in DOMAIN f THEN f[id] ELSE {} BY <3>2 DEF AssignedIn
      <4> HIDE DEF f, g
      <4>5. \A id : AssignedIn(t, a, id) = AssignedIn(s, a, id) \cup IF id \in ids THEN {uuid} ELSE {}
        BY <4>2, <4>3, <4>4
      <4> HIDE DEF uuid
      <4> QED BY <4>1, <4>3, <4>5
    <3> QED BY <3>1, <3>2
  <2> HIDE DEF n, ac, uuid, context
  <2>7. Len(t.assignment_contexts) = n BY <2>3, <2>4
  <2> QED BY <2>4, <2>5, <2>6, <2>7 DEF Tracks, n, ac, uuid
<1> QED BY <1>1, <1>2

(* What is recorded of a scope and is neither sure nor assigned in a context. *)
Recorded(s, t) ==
  /\ SameContexts(s, t) /\ t.assignment_contexts = s.assignment_contexts
  /\ t.local_variables = s.local_variables /\ t.classified = s.classified
  /\ t.flat => s.flat

LEMMA RecordedTracks ==
  ASSUME NEW s, NEW t, Recorded(s, t), NEW ids
  PROVE  Tracks(s, t, ids)
<1>1. \A id \in Own(s) : When(t, id) = When(s, id) BY DEF Recorded, When
<1> QED BY <1>1, TracksItself DEF Recorded

LEMMA Recordings ==
  ASSUME NEW s, DOMAIN s = ScopeFields
  PROVE  /\ Recorded(s, s)
         /\ \A e : Recorded(s, [s EXCEPT !.sure = e]) /\ [s EXCEPT !.sure = e].sure = e
         /\ \A e : (e => s.flat) => Recorded(s, [s EXCEPT !.flat = e]) /\ [s EXCEPT !.flat = e].sure = s.sure
         /\ \A e : Recorded(s, [s EXCEPT !.reported = e]) /\ [s EXCEPT !.reported = e].sure = s.sure
         /\ \A e : Recorded(s, [s EXCEPT !.parameters = e]) /\ [s EXCEPT !.parameters = e].sure = s.sure
         /\ \A e : Recorded(s, [s EXCEPT !.assigned = e]) /\ [s EXCEPT !.assigned = e].sure = s.sure
         /\ \A e : Recorded(s, [s EXCEPT !.called = e]) /\ [s EXCEPT !.called = e].sure = s.sure
BY DEF Recorded, SameContexts, ScopeFields

LEMMA RecordedAdvances ==
  ASSUME NEW s, NEW t, NEW ids, Advances(s, t, ids), NEW u, Recorded(t, u)
  PROVE  Advances(s, u, ids)
<1>1. /\ Own(u) = Own(t) /\ DOMAIN u.classified = DOMAIN t.classified /\ (u.flat => t.flat)
      /\ \A id : When(u, id) = When(t, id)
      /\ \A a, id : AssignedIn(u, a, id) = AssignedIn(t, a, id)
  BY DEF Recorded, Own, When, AssignedIn
<1> QED BY <1>1 DEF Advances

LEMMA AdvancesItself ==
  ASSUME NEW s, NEW t, Recorded(s, t)
  PROVE  Advances(s, t, {})
<1>1. /\ Own(t) = Own(s) /\ DOMAIN t.classified = DOMAIN s.classified /\ (t.flat => s.flat)
      /\ \A id : When(t, id) = When(s, id)
      /\ \A a, id : AssignedIn(t, a, id) = AssignedIn(s, a, id)
  BY DEF Recorded, Own, When, AssignedIn
<1> QED BY <1>1 DEF Advances

LEMMA RecordedAssigns ==
  ASSUME NEW s, NEW t, NEW ids, Assigns(s, t, ids), NEW u, Recorded(t, u), u.sure = t.sure
  PROVE  Assigns(s, u, ids)
BY RecordedTracks, RecordedAdvances, TracksTransitive DEF Assigns

(* Nothing is assigned twice over. *)
LEMMA AssignsNothing ==
  ASSUME NEW s, NEW t, Assigns(s, t, {}), NEW u, Assigns(t, u, {})
  PROVE  Assigns(s, u, {})
<1>1. Tracks(s, u, {}) /\ u.sure = s.sure \cup {} BY TracksTransitive DEF Assigns
<1>2. /\ Own(t) = Own(s) /\ Own(u) = Own(t) /\ (u.flat => s.flat)
      /\ DOMAIN s.classified \subseteq DOMAIN u.classified
  BY DEF Assigns, Advances
<1>3. \A id \in Own(s) : When(t, id) = When(s, id) /\ When(u, id) = When(t, id)
  BY <1>2 DEF Assigns, Tracks
<1>4. ASSUME NEW a \in 1..Len(s.assignment_contexts), DOMAIN s.assignment_contexts[a] = {"children", "assigned"}
      PROVE  \A id : AssignedIn(s, a, id) \subseteq AssignedIn(u, a, id)
  <2>1. /\ DOMAIN t.assignment_contexts[a] = {"children", "assigned"} /\ a \in 1..Len(t.assignment_contexts)
        /\ \A id : AssignedIn(s, a, id) \subseteq AssignedIn(t, a, id)
    BY <1>4 DEF Assigns, Tracks, Advances
  <2>2. \A id : AssignedIn(t, a, id) \subseteq AssignedIn(u, a, id) BY <2>1 DEF Assigns, Advances
  <2> QED BY <2>1, <2>2
<1>5. Advances(s, u, {}) BY <1>2, <1>3, <1>4 DEF Advances
<1> QED BY <1>1, <1>5 DEF Assigns

(* What is classified is new to the scope, or the variable it was. *)
LEMMA ClassifiedTracks ==
  ASSUME NEW s, DOMAIN s = ScopeFields, Own(s) \subseteq DOMAIN s.classified,
         NEW id, NEW info, id \in Own(s) => info.context = When(s, id),
         NEW t, t = Classify(s, id, info), NEW ids
  PROVE  /\ Tracks(s, t, ids) /\ t.sure = s.sure
         /\ ids \subseteq {id} /\ ids \cap Own(s) = {} => Advances(s, t, ids)
<1> DEFINE c == Bind(s.classified, id, info)
<1>1. t = [s EXCEPT !.classified = c] BY DEF Classify
<1>2. /\ DOMAIN c = DOMAIN s.classified \cup {id}
      /\ \A i \in DOMAIN s.classified \cup {id} : c[i] = IF i = id THEN info ELSE s.classified[i]
  BY DEF Bind
<1> HIDE DEF c
<1>3. /\ SameContexts(s, t) /\ t.assignment_contexts = s.assignment_contexts
      /\ t.local_variables = s.local_variables /\ t.classified = c /\ t.sure = s.sure /\ (t.flat => s.flat)
  BY <1>1 DEF ScopeFields, SameContexts
<1>4. ASSUME NEW i \in Own(s) PROVE When(t, i) = When(s, i)
  <2>1. c[i] = IF i = id THEN info ELSE s.classified[i] BY <1>2
  <2> QED BY <2>1, <1>3 DEF When
<1>5. Tracks(s, t, ids) BY <1>3, <1>4, TracksItself
<1>6. ASSUME ids \subseteq {id}, ids \cap Own(s) = {} PROVE Advances(s, t, ids)
  <2>1. Own(t) = Own(s) /\ \A a, i : AssignedIn(t, a, i) = AssignedIn(s, a, i) BY <1>3 DEF Own, AssignedIn
  <2>2. DOMAIN s.classified \subseteq DOMAIN t.classified /\ ids \subseteq DOMAIN t.classified
    BY <1>2, <1>3, <1>6
  <2> QED BY <2>1, <2>2, <1>3, <1>4, <1>6 DEF Advances
<1> QED BY <1>3, <1>5, <1>6

LEMMA OwnKnown ==
  ASSUME NEW s, Known(s)
  PROVE  DOMAIN s = ScopeFields /\ Own(s) \subseteq DOMAIN s.classified
BY DEF Known, Own

LEMMA ImportAssigns ==
  ASSUME NEW open, Sound(open), Len(open) >= 1, NEW x
  PROVE  Assigns(Last(open), register_fully_qualified_import(open, x).scope, {})
<1> DEFINE s == Last(open)
<1>1. DOMAIN s = ScopeFields /\ Own(s) \subseteq DOMAIN s.classified BY StaysItself, OwnKnown
<1>2. \/ register_fully_qualified_import(open, x).scope = s
      \/ /\ Id(x) \notin DOMAIN s.classified
         /\ \E info : register_fully_qualified_import(open, x).scope = Classify(s, Id(x), info)
  BY DEF register_fully_qualified_import
<1> HIDE DEF s
<1>3. Assigns(s, s, {}) BY <1>1, Recordings, RecordedTracks, AdvancesItself DEF Assigns
<1>4. ASSUME NEW info, Id(x) \notin DOMAIN s.classified PROVE Assigns(s, Classify(s, Id(x), info), {})
  <2>1. Id(x) \notin Own(s) BY <1>1, <1>4
  <2> DEFINE t == Classify(s, Id(x), info)
  <2> HIDE DEF t
  <2>2. Tracks(s, t, {}) /\ Advances(s, t, {}) /\ t.sure = s.sure BY <1>1, <2>1, ClassifiedTracks DEF t
  <2> QED BY <2>2 DEF Assigns, t
<1> QED BY <1>2, <1>3, <1>4 DEF s

(* A variable of the scope is found as it is. *)
LEMMA ReferenceAssigns ==
  ASSUME NEW open, Sound(open), Len(open) >= 1, NEW id, NEW r, r = register_identifier_reference(open, id)
  PROVE  /\ Assigns(Last(open), r.scope, {})
         /\ id \in Own(Last(open)) =>
              is_variable(lookup_variable(open, Len(open), id)) /\ (r.success <=> Visible(Last(open), When(Last(open), id)))
<1> DEFINE s == Last(open)
           inherited == lookup_variable(open, Len(open), id)
           info == IF Inherits(open, id, inherited) THEN inherited ELSE FunctionInfo(open, id)
<1>1. DOMAIN s = ScopeFields /\ Own(s) \subseteq DOMAIN s.classified /\ Known(s) BY StaysItself, OwnKnown
<1>2. r.scope = Classify(s, id, info) /\ (r.success <=> (is_variable(info) => Visible(s, info.context)))
  BY DEF register_identifier_reference
<1>3. ASSUME id \in Own(s) PROVE info = s.classified[id] /\ is_variable(info) /\ is_variable(inherited)
  <2>1. id \in DOMAIN s.classified /\ is_variable(s.classified[id]) BY <1>1, <1>3 DEF Known, Own
  <2>2. Len(open) \in Nat \ {0} /\ s = open[Len(open)] BY ListShape DEF Sound, Last
  <2>3. inherited = s.classified[id] BY <2>1, <2>2, LookupHere
  <2>4. inherited /= NoInfo BY <2>1, <2>3, NoInfoIsNone
  <2>5. Inherits(open, id, inherited) BY <2>1, <2>4 DEF Inherits
  <2> QED BY <2>1, <2>3, <2>5
<1> HIDE DEF s, info
<1>4. id \in Own(s) => info.context = When(s, id) BY <1>3 DEF When
<1>5. id \in Own(s) => is_variable(inherited) /\ (r.success <=> Visible(s, When(s, id))) BY <1>2, <1>3, <1>4
<1>6. Tracks(s, r.scope, {}) /\ Advances(s, r.scope, {}) /\ r.scope.sure = s.sure
  BY <1>1, <1>2, <1>4, ClassifiedTracks
<1> QED BY <1>5, <1>6 DEF Assigns, s

(* Before it counts for what the scope is sure of. *)
Notes(s, t, ids) == Tracks(s, t, ids) /\ Advances(s, t, ids) /\ t.sure = s.sure

LEMMA NewVariableTracks ==
  ASSUME NEW open, NEW s, s = Last(open), DOMAIN s = ScopeFields, Own(s) \subseteq DOMAIN s.classified,
         IsList(s.assignment_contexts), NEW made, NEW id, id \notin DOMAIN s.classified, NEW is_parameter,
         NEW r, r = NewVariable(open, made, id, is_parameter)
  PROVE  Notes(s, r.scope, {id}) /\ r.success
<1> DEFINE inherited == lookup_variable(open, Len(open) - 1, id)
           handle == <<"variable", made + 1>>
           here == current_context(s)
           shared == Classify(s, id, [inherited EXCEPT !.context = here])
           c == Bind(s.classified, id, VariableInfo(id, s, handle))
           l == Bind(s.local_variables, id, handle)
           t == [[s EXCEPT !.classified = c] EXCEPT !.local_variables = l]
<1>1. /\ r.success
      /\ r.scope = shared \/ r.scope = RegisterAssigned(t, {id})
  <2> DEFINE u == Classify(s, id, VariableInfo(id, s, handle))
             v == [u EXCEPT !.local_variables = Bind(@, id, handle)]
  <2>1. r.success /\ (r.scope = shared \/ r.scope = RegisterAssigned(v, {id}))
    <3> HIDE DEF inherited, handle
    <3> QED BY DEF NewVariable, inherited, handle
  <2>2. u = [s EXCEPT !.classified = c] BY DEF Classify
  <2>3. DOMAIN u = ScopeFields /\ u.local_variables = s.local_variables
    <3> HIDE DEF c, u
    <3> QED BY <2>2 DEF ScopeFields
  <2>4. v = t
    <3> HIDE DEF c, u, handle
    <3> QED BY <2>2, <2>3 DEF ScopeFields
  <2> QED BY <2>1, <2>4
<1>2. c[id].context = here BY DEF Bind, VariableInfo
<1>3. \A i \in DOMAIN s.classified : c[i] = s.classified[i] BY DEF Bind
<1>4. DOMAIN l = Own(s) \cup {id} /\ DOMAIN c = DOMAIN s.classified \cup {id} BY DEF Bind, Own
<1> HIDE DEF c, l, here
<1>5. /\ DOMAIN t = ScopeFields /\ t.classified = c /\ t.local_variables = l
      /\ SameContexts(s, t) /\ t.assignment_contexts = s.assignment_contexts /\ t.sure = s.sure
      /\ (t.flat => s.flat)
  BY DEF ScopeFields, SameContexts
<1> HIDE DEF t
<1>6. Tracks(s, t, {id})
  <2>1. ASSUME NEW i \in Own(t)
        PROVE  \/ i \in Own(s) /\ When(t, i) = When(s, i)
               \/ i \in {id} /\ When(t, i) = here
    <3>1. CASE i = id BY <3>1, <1>2, <1>5 DEF When
    <3>2. CASE i /= id
      <4>1. i \in Own(s) /\ i \in DOMAIN s.classified BY <3>2, <1>4, <1>5 DEF Own
      <4> QED BY <4>1, <1>3, <1>5 DEF When
    <3> QED BY <3>1, <3>2
  <2> QED BY <2>1, <1>5 DEF Tracks, Children, AssignedIn, here
<1>7. Tracks(s, RegisterAssigned(t, {id}), {id}) /\ RegisterAssigned(t, {id}).sure = s.sure
  <2>1. Tracks(t, RegisterAssigned(t, {id}), {id}) /\ RegisterAssigned(t, {id}).sure = t.sure
    BY <1>5, TracksRegistered
  <2> QED BY <2>1, <1>5, <1>6, TracksTransitive
<1>8. Tracks(s, shared, {id}) /\ Advances(s, shared, {id}) /\ shared.sure = s.sure
  <2>1. id \notin Own(s) /\ {id} \cap Own(s) = {} OBVIOUS
  <2> HIDE DEF shared, inherited
  <2> QED BY <2>1, ClassifiedTracks DEF shared
<1>9. Advances(s, RegisterAssigned(t, {id}), {id})
  <2> DEFINE u == RegisterAssigned(t, {id})
  <2>1. /\ u.classified = c /\ DOMAIN u.local_variables = DOMAIN l /\ (u.flat => s.flat)
        /\ \A a \in 1..Len(s.assignment_contexts) :
             DOMAIN s.assignment_contexts[a] = {"children", "assigned"} =>
               \A i : /\ AssignedIn(t, a, i) \subseteq AssignedIn(u, a, i)
                      /\ a = Len(s.assignment_contexts) /\ i \in {id} => current_context(t).uuid \in AssignedIn(u, a, i)
    BY <1>5, TracksRegistered
  <2> HIDE DEF u
  <2>2. current_context(t) = here BY <1>5 DEF here, current_context, SameContexts
  <2>3. Own(u) = Own(s) \cup {id} /\ id \notin Own(s) BY <2>1, <1>4 DEF Own
  <2>4. When(u, id) = here /\ \A i \in Own(s) : When(u, i) = When(s, i) BY <2>1, <1>2, <1>3 DEF When
  <2>5. \A a, i : AssignedIn(t, a, i) = AssignedIn(s, a, i) BY <1>5 DEF AssignedIn
  <2>6. DOMAIN u.classified = DOMAIN s.classified \cup {id} BY <2>1, <1>4
  <2>7. \A a \in 1..Len(s.assignment_contexts) :
          DOMAIN s.assignment_contexts[a] = {"children", "assigned"} =>
            \A i : /\ AssignedIn(s, a, i) \subseteq AssignedIn(u, a, i)
                   /\ a = Len(s.assignment_contexts) /\ i \in {id} \cap Own(u) => here.uuid \in AssignedIn(u, a, i)
    BY <2>1, <2>2, <2>5
  <2> QED BY <2>1, <2>3, <2>4, <2>6, <2>7 DEF Advances, here, u
<1> QED BY <1>1, <1>7, <1>8, <1>9 DEF Notes

LEMMA OldVariableTracks ==
  ASSUME NEW s, DOMAIN s = ScopeFields, Own(s) \subseteq DOMAIN s.classified,
         IsList(s.assignment_contexts), NEW id, id \in DOMAIN s.classified, IsInfo(s.classified[id]),
         NEW r, r = OldVariable(s, id)
  PROVE  /\ r.success => Notes(s, r.scope, {id})
         /\ ~r.success => r.scope = s
<1> DEFINE here == current_context(s)
           c == [s.classified EXCEPT ![id] = [s.classified[id] EXCEPT !.context = here]]
           t == [s EXCEPT !.classified = c]
<1>1. [s EXCEPT !.classified[id].context = here] = t BY DEF ScopeFields
<1>2. \/ ~r.success /\ r.scope = s
      \/ /\ r.success
         /\ \E u \in {IF Len(s.contexts) <= s.classified[id].context.depth
                      THEN [s EXCEPT !.classified[id].context = here] ELSE s} : r.scope = RegisterAssigned(u, {id})
  <2> HIDE DEF here
  <2> QED BY DEF OldVariable, here, current_context_depth
<1>3. DOMAIN c = DOMAIN s.classified /\ \A i \in DOMAIN s.classified : i /= id => c[i] = s.classified[i] OBVIOUS
<1>4. c[id].context = here BY DEF IsInfo
<1> HIDE DEF c, here
<1>5. /\ DOMAIN t = ScopeFields /\ t.classified = c /\ t.local_variables = s.local_variables
      /\ SameContexts(s, t) /\ t.assignment_contexts = s.assignment_contexts /\ t.sure = s.sure
      /\ (t.flat => s.flat)
  BY DEF ScopeFields, SameContexts
<1> HIDE DEF t
<1>6. Tracks(s, t, {id})
  <2>1. ASSUME NEW i \in Own(t)
        PROVE  \/ i \in Own(s) /\ When(t, i) = When(s, i)
               \/ i \in {id} /\ When(t, i) = here
    <3>1. i \in Own(s) /\ i \in DOMAIN s.classified BY <1>5 DEF Own
    <3> QED BY <3>1, <1>3, <1>4, <1>5 DEF When
  <2> QED BY <2>1, <1>5 DEF Tracks, Children, AssignedIn, here
<1>7. Tracks(s, s, {id}) BY RecordedTracks, Recordings
<1>8. ASSUME NEW u \in {s, t}
      PROVE  Tracks(s, RegisterAssigned(u, {id}), {id}) /\ RegisterAssigned(u, {id}).sure = s.sure
  <2>1. Tracks(u, RegisterAssigned(u, {id}), {id}) /\ RegisterAssigned(u, {id}).sure = u.sure
    BY <1>5, TracksRegistered
  <2> QED BY <2>1, <1>5, <1>6, <1>7, TracksTransitive
<1>9. ASSUME NEW u, u = IF Len(s.contexts) <= s.classified[id].context.depth THEN t ELSE s
      PROVE  Advances(s, RegisterAssigned(u, {id}), {id})
  <2> DEFINE v == RegisterAssigned(u, {id})
  <2>1. /\ u.local_variables = s.local_variables /\ DOMAIN u.classified = DOMAIN s.classified
        /\ u.assignment_contexts = s.assignment_contexts /\ DOMAIN u = ScopeFields /\ u.contexts = s.contexts
        /\ (u.flat => s.flat)
    BY <1>3, <1>5, <1>9 DEF SameContexts
  <2>2. /\ v.classified = u.classified /\ v.local_variables = u.local_variables /\ (v.flat => u.flat)
        /\ \A a \in 1..Len(s.assignment_contexts) :
             DOMAIN s.assignment_contexts[a] = {"children", "assigned"} =>
               \A i : /\ AssignedIn(u, a, i) \subseteq AssignedIn(v, a, i)
                      /\ a = Len(s.assignment_contexts) /\ i \in {id} => current_context(u).uuid \in AssignedIn(v, a, i)
    BY <2>1, TracksRegistered
  <2> HIDE DEF v
  <2>3. Own(v) = Own(s) /\ \A a, i : AssignedIn(u, a, i) = AssignedIn(s, a, i) BY <2>1, <2>2 DEF Own, AssignedIn
  <2>4. current_context(u) = here BY <2>1 DEF here, current_context
  <2>5. \A i \in Own(s) : i /= id => When(v, i) = When(s, i)
    <3>1. \A i \in Own(s) : i \in DOMAIN s.classified OBVIOUS
    <3> QED BY <3>1, <2>2, <1>3, <1>5, <1>9 DEF When
  <2>6. id \in Own(s) => \/ When(v, id) = here /\ Len(s.contexts) <= When(s, id).depth
                         \/ When(v, id) = When(s, id) /\ ~(Len(s.contexts) <= When(s, id).depth)
    BY <2>2, <1>4, <1>5, <1>9 DEF When
  <2>7. \A a \in 1..Len(s.assignment_contexts) :
          DOMAIN s.assignment_contexts[a] = {"children", "assigned"} =>
            \A i : /\ AssignedIn(s, a, i) \subseteq AssignedIn(v, a, i)
                   /\ a = Len(s.assignment_contexts) /\ i \in {id} \cap Own(v) => here.uuid \in AssignedIn(v, a, i)
    BY <2>2, <2>3, <2>4
  <2> QED BY <2>1, <2>2, <2>3, <2>5, <2>6, <2>7 DEF Advances, here, v
<1> DEFINE w == IF Len(s.contexts) <= s.classified[id].context.depth THEN t ELSE s
<1>10. \/ ~r.success /\ r.scope = s
       \/ r.success /\ r.scope = RegisterAssigned(w, {id})
  BY <1>1, <1>2
<1>11. w \in {s, t} OBVIOUS
<1>12. Advances(s, RegisterAssigned(w, {id}), {id}) BY <1>9
<1> HIDE DEF w
<1> QED BY <1>8, <1>10, <1>11, <1>12 DEF Notes

(* An assignment that is not refused counts for the context it is in. *)
(* A name is assigned, or is that of a function. *)
Settles(s, id, ids) == id \in ids \/ id \in DOMAIN s.classified \ Own(s)

LEMMA AssignedAssigns ==
  ASSUME NEW open, Sound(open), Len(open) >= 1, Covered(Last(open)), NEW x, NEW made,
         NEW is_parameter \in BOOLEAN, NEW a, a = Assigned(open, made, x, is_parameter)
  PROVE  \E ids \in SUBSET {Id(x)} : Assigns(Last(open), a.scope, ids) /\ Settles(Last(open), Id(x), ids)
<1> DEFINE id == Id(x)
           s == Last(open)
           result == IF id \in DOMAIN s.classified THEN OldVariable(s, id)
                     ELSE NewVariable(open, made, id, is_parameter)
           u == result.scope
           c == u.sure \cup {id}
           t == [u EXCEPT !.sure = c]
           r == register_variable_assignment(open, made, id, is_parameter)
<1>1. DOMAIN s = ScopeFields /\ Own(s) \subseteq DOMAIN s.classified /\ Known(s) BY StaysItself, OwnKnown
<1>2. IsList(s.assignment_contexts) BY DEF Covered
<1>3. /\ result.success => Notes(s, u, {id})
      /\ ~result.success => u = s /\ Settles(s, id, {})
  <2> HIDE DEF id
  <2>1. CASE id \in DOMAIN s.classified
    <3>1. IsInfo(s.classified[id]) BY <2>1, <1>1 DEF Known
    <3>2. result = OldVariable(s, id) BY <2>1
    <3>3. ~result.success => ~is_variable(s.classified[id]) BY <3>2 DEF OldVariable
    <3>4. id \in Own(s) => is_variable(s.classified[id]) BY <1>1 DEF Known, Own
    <3>5. ~result.success => Settles(s, id, {}) BY <2>1, <3>3, <3>4 DEF Settles
    <3> HIDE DEF result
    <3> QED BY <2>1, <3>1, <3>2, <3>5, <1>1, <1>2, OldVariableTracks
  <2>2. CASE id \notin DOMAIN s.classified
    <3>1. result = NewVariable(open, made, id, is_parameter) /\ s = Last(open) BY <2>2
    <3>2. result.success BY <3>1 DEF NewVariable
    <3> HIDE DEF result, s
    <3> QED BY <3>1, <3>2, <2>2, <1>1, <1>2, NewVariableTracks
  <2> QED BY <2>1, <2>2
<1>4. DOMAIN r.scope = ScopeFields
  <2> HIDE DEF id
  <2>1. is_parameter => id \in {id} OBVIOUS
  <2>2. r = register_variable_assignment(open, made, id, is_parameter) OBVIOUS
  <2> HIDE DEF r, s
  <2>3. Becomes(open, r.scope, {id}) BY <2>1, <2>2, AssignmentBecomes
  <2> QED BY <2>3 DEF Becomes, Known
<1>5. r.scope = (IF result.success THEN t ELSE u) /\ (r.success <=> result.success)
  <2>1. r = IF result.success THEN [result EXCEPT !.scope.sure = @ \cup {id}] ELSE result
    BY Zenon DEF register_variable_assignment
  <2>2. DOMAIN result = {"scope", "success", "was_initialization"} BY DEF OldVariable, NewVariable
  <2> HIDE DEF result, r, id
  <2> QED BY <2>1, <2>2
<1>6. DOMAIN u = ScopeFields
  <2>1. DOMAIN t = DOMAIN u OBVIOUS
  <2> HIDE DEF t, u, result, r
  <2> QED BY <1>4, <1>5, <2>1
<1> HIDE DEF result, r, c
<1>7. ~result.success => Assigns(s, r.scope, {})
  <2>1. Tracks(s, s, {}) /\ Advances(s, s, {}) BY <1>1, RecordedTracks, AdvancesItself, Recordings
  <2> QED BY <2>1, <1>3, <1>5 DEF Assigns
<1>8. result.success => Assigns(s, r.scope, {id})
  <2>1. Recorded(u, t) /\ t.sure = c BY <1>6, Recordings
  <2> HIDE DEF t, u, s, id
  <2>2. Tracks(u, t, {id}) BY <2>1, RecordedTracks
  <2>3. result.success => Advances(s, t, {id}) BY <2>1, <1>3, RecordedAdvances DEF Notes
  <2> QED BY <2>1, <2>2, <2>3, <1>3, <1>5, TracksTransitive DEF Assigns, Notes, c
<1>9. PICK ids \in SUBSET {id} : Assigns(s, r.scope, ids) /\ Settles(s, id, ids)
  <2>1. Settles(s, id, {id}) BY DEF Settles
  <2> QED BY <2>1, <1>3, <1>7, <1>8
<1> DEFINE e == r.scope.reported \cup {id}
           reported == [r.scope EXCEPT !.reported = e]
           v == IF r.success THEN r.scope ELSE reported
           d == v.assigned \cup {id}
<1> HIDE DEF e, s, id, u, t
<1>10. Recorded(r.scope, v) /\ v.sure = r.scope.sure /\ DOMAIN v = ScopeFields
  <2>1. Recorded(r.scope, reported) /\ reported.sure = r.scope.sure /\ DOMAIN reported = ScopeFields
    BY <1>4, Recordings
  <2>2. Recorded(r.scope, r.scope) BY <1>4, Recordings
  <2> HIDE DEF reported
  <2> QED BY <1>4, <2>1, <2>2
<1>11. a.scope = [v EXCEPT !.assigned = d]
  <2>1. a.scope = [(IF r.success THEN r.scope ELSE Report(r.scope, id)) EXCEPT !.assigned = @ \cup {id}]
    BY DEF Assigned, r, id
  <2>2. Report(r.scope, id) = reported BY DEF Report, e
  <2> QED BY <2>1, <2>2
<1> HIDE DEF v, d
<1>12. Recorded(v, a.scope) /\ a.scope.sure = v.sure BY <1>10, <1>11, Recordings
<1>13. Assigns(s, v, ids) BY <1>9, <1>10, RecordedAssigns
<1>14. Assigns(s, a.scope, ids) BY <1>12, <1>13, RecordedAssigns
<1> QED BY <1>9, <1>14 DEF s, id

------------------------------------------------------------------------------
(* The converse, for a scope without constructs within constructs: what is     *)
(* sure has been assigned in a context that is still open, or by each branch    *)
(* of the construct that has ended.                                             *)

(* The context of the variable is open. *)
Lives(s, id) == When(s, id).depth \in 1..Len(s.contexts) /\ Uuid(s, When(s, id).depth) = When(s, id).uuid

(* Only what has been classified is sure. *)
Seen(s, branches) ==
  /\ s.sure \subseteq DOMAIN s.classified
  /\ \A b \in branches : b.before \subseteq DOMAIN s.classified /\ b.ends \subseteq DOMAIN s.classified

(* Each branch of the construct has assigned what is sure at its end and was    *)
(* not before.                                                                   *)
Tight(s, b) ==
  /\ \A c \in Children(s, b.join) : c <= Edge(s, b.depth)
  /\ Endings(s, b) = 0 => Ended(s, b) = {}
  /\ Endings(s, b) >= 1 => \A id \in (Own(s) \cap b.ends) \ b.before : Ended(s, b) \subseteq AssignedIn(s, b.join, id)
  /\ b.depth < Len(s.contexts) =>
       \A id \in (Own(s) \cap s.sure) \ b.before : Uuid(s, b.depth + 1) \in AssignedIn(s, b.join, id)

Single(branches) == \A b, c \in branches : b = c

Plain(s, branches) ==
  /\ Single(branches)
  /\ \A id \in Own(s) \cap s.sure : Lives(s, id)
  /\ branches = {} => \A id \in Own(s) : When(s, id).depth <= Len(s.contexts) => Lives(s, id)
  /\ \A b \in branches :
       /\ \A id \in Own(s) : When(s, id).depth <= b.depth => Lives(s, id)
       /\ \A id \in Own(s) \cap b.before : When(s, id).depth <= b.depth
       /\ b.depth = Len(s.contexts) => s.sure \subseteq b.before
       /\ Len(s.contexts) <= b.depth + 1
       /\ b.join /= 0 => b.join = Len(s.assignment_contexts) /\ Tight(s, b)

Warranted(s, branches) ==
  Assured(s, branches) /\ Seen(s, branches) /\ (s.flat => Plain(s, branches))

(* Constructs in one context are one. *)
Apart(branches) == \A b, c \in branches : b.depth = c.depth => b = c

(* The constructs around an assignment: only those in its context grow. *)
GrowsBy(s, b, c, ids) ==
  /\ Grows(b, c) /\ c.before \subseteq b.before \cup ids \cup (DOMAIN s.classified \ Own(s))
  /\ b.depth >= Len(s.contexts) \/ c.before = b.before

LEMMA LivesStill ==
  ASSUME NEW s, NEW t, SameContexts(s, t), NEW id, When(t, id) = When(s, id)
  PROVE  Lives(s, id) <=> Lives(t, id)
BY DEF Lives, Uuid, SameContexts

(* What has the context at hand lives. *)
LEMMA LivesHere ==
  ASSUME NEW s, NEW depth, Shaped(s, depth), Len(s.contexts) >= 1, NEW t, SameContexts(s, t),
         NEW id, When(t, id) = current_context(s)
  PROVE  Lives(t, id) /\ When(t, id).depth = Len(s.contexts)
<1> DEFINE n == Len(s.contexts)
<1>1. n \in Nat /\ n \in 1..n /\ current_context(s) = s.contexts[n] BY ListShape DEF Shaped, current_context, Last
<1>2. s.contexts[n].depth = n BY <1>1 DEF Shaped
<1>3. t.contexts = s.contexts BY DEF SameContexts
<1> QED BY <1>1, <1>2, <1>3 DEF Lives, Uuid

LEMMA AssignsPlain ==
  ASSUME NEW s, NEW depth, Shaped(s, depth), Len(s.contexts) >= 1, NEW branches, Assured(s, branches),
         Seen(s, branches), Plain(s, branches),
         NEW t, NEW ids, Assigns(s, t, ids), NEW others, Apart(others), others = {} => branches = {},
         \A c \in others : /\ \E b \in branches : GrowsBy(s, b, c, ids)
                           /\ c.depth >= Len(s.contexts) => ids \subseteq c.before
  PROVE  Plain(t, others)
<1> DEFINE n == Len(s.contexts)
           m == Len(s.assignment_contexts)
           here == current_context(s)
<1>1. n \in Nat /\ n >= 1 /\ m \in Nat /\ here = s.contexts[n] /\ Uuid(s, n) = here.uuid
  BY ListShape DEF Shaped, Covered, current_context, Last, Uuid
<1>2. /\ SameContexts(s, t) /\ Len(t.contexts) = n /\ Len(t.assignment_contexts) = m /\ t.sure = s.sure \cup ids
      /\ \A d : Uuid(t, d) = Uuid(s, d) /\ Edge(t, d) = Edge(s, d)
  BY DEF Assigns, Tracks, SameContexts, Uuid, Edge
<1>3. \A id : When(t, id) = here => Lives(t, id) /\ When(t, id).depth = n BY <1>2, LivesHere
<1>4. \A id : When(t, id) = When(s, id) => (Lives(s, id) <=> Lives(t, id)) BY <1>2, LivesStill
<1>5. \A id \in Own(t) \ Own(s) : id \in ids /\ id \notin DOMAIN s.classified BY DEF Assigns, Advances
<1>6. \A id \in Own(s) : When(t, id) = When(s, id) \/ (When(t, id) = here /\ n <= When(s, id).depth)
  BY DEF Assigns, Advances
<1>7. \A id \in ids \cap Own(t) :
        \/ When(t, id) = here
        \/ id \in Own(s) /\ When(t, id) = When(s, id) /\ ~(n <= When(s, id).depth)
  BY DEF Assigns, Advances
<1>8. \A id \in Own(s) : When(s, id).depth \in Nat BY DEF Assured, Dated
<1>9. \A b \in branches : b.depth \in 1..n /\ b.join \in 0..m /\ b.blocks \in Nat BY DEF Assured, Placed
<1> HIDE DEF n, m, here
<1>10. \A b, c \in branches : b = c BY DEF Plain, Single
<1>11. Single(others)
  <2>1. \A c \in others : \E b \in branches : c.depth = b.depth BY DEF GrowsBy, Grows
  <2>2. \A b, c \in others : b.depth = c.depth BY <2>1, <1>10
  <2> QED BY <2>2 DEF Apart, Single
  (* What the context at hand or one around it has, lives. *)
<1>12. \A id \in Own(s) : ~(n <= When(s, id).depth) => Lives(s, id)
  <2> SUFFICES ASSUME NEW id \in Own(s), ~(n <= When(s, id).depth) PROVE Lives(s, id) OBVIOUS
  <2>1. CASE branches = {} BY <2>1, <1>1, <1>8 DEF Plain, n
  <2>2. CASE branches /= {}
    <3>1. PICK b \in branches : TRUE BY <2>2
    <3>2. n <= b.depth + 1 BY DEF Plain, n
    <3>3. When(s, id).depth <= b.depth BY <3>2, <1>1, <1>8, <1>9
    <3> QED BY <3>3 DEF Plain
  <2> QED BY <2>1, <2>2
<1>13. \A id \in ids \cap Own(t) : Lives(t, id) BY <1>3, <1>4, <1>7, <1>12
<1>14. \A id \in Own(t) : id \in Own(s) \/ Lives(t, id) BY <1>5, <1>13
<1>15. \A id \in Own(s) : Lives(s, id) => Lives(t, id) BY <1>3, <1>4, <1>6
<1>16. ASSUME NEW id \in Own(t), id \in t.sure PROVE Lives(t, id)
  <2>1. CASE id \in ids BY <2>1, <1>13
  <2>2. CASE id \notin ids
    <3>1. id \in Own(s) /\ id \in s.sure BY <2>2, <1>2, <1>5, <1>16
    <3> QED BY <3>1, <1>15 DEF Plain
  <2> QED BY <2>1, <2>2
<1>17. ASSUME others = {}, NEW id \in Own(t), When(t, id).depth <= n PROVE Lives(t, id)
  <2>1. CASE id \in Own(s) /\ When(t, id) = When(s, id)
    <3>1. Lives(s, id) BY <2>1, <1>17 DEF Plain, n
    <3> QED BY <2>1, <3>1, <1>15
  <2> QED BY <2>1, <1>3, <1>6, <1>14
<1>18. ASSUME NEW c \in others
       PROVE  /\ \A id \in Own(t) : When(t, id).depth <= c.depth => Lives(t, id)
              /\ \A id \in Own(t) \cap c.before : When(t, id).depth <= c.depth
              /\ c.depth = n => t.sure \subseteq c.before
              /\ n <= c.depth + 1
              /\ c.join /= 0 => c.join = m /\ Tight(t, c)
  <2>1. PICK b \in branches : GrowsBy(s, b, c, ids) OBVIOUS
  <2>2. /\ c.depth = b.depth /\ c.join = b.join /\ c.blocks = b.blocks /\ c.ends = b.ends
        /\ b.before \subseteq c.before /\ (b.depth >= n \/ c.before = b.before)
        /\ c.before \subseteq b.before \cup ids \cup (DOMAIN s.classified \ Own(s))
        /\ c.depth >= n => ids \subseteq c.before
    BY <2>1 DEF GrowsBy, Grows, n
  <2>3. /\ \A id \in Own(s) : When(s, id).depth <= b.depth => Lives(s, id)
        /\ \A id \in Own(s) \cap b.before : When(s, id).depth <= b.depth
        /\ b.depth = n => s.sure \subseteq b.before
        /\ n <= b.depth + 1
        /\ b.join /= 0 => b.join = m /\ Tight(s, b)
    BY DEF Plain, n, m
  <2>4. b.before \subseteq DOMAIN s.classified /\ b.ends \subseteq DOMAIN s.classified BY DEF Seen
  <2>5. b.depth \in 1..n /\ b.join \in 0..m /\ b.blocks \in Nat BY <1>9
  <2>6. ASSUME NEW id \in Own(t), When(t, id).depth <= c.depth PROVE Lives(t, id)
    <3>1. CASE id \in Own(s) /\ When(t, id) = When(s, id)
      <4>1. Lives(s, id) BY <3>1, <2>2, <2>3, <2>6
      <4> QED BY <3>1, <4>1, <1>15
    <3> QED BY <3>1, <1>3, <1>6, <1>14
  <2>7. ASSUME NEW id \in Own(t), id \in c.before PROVE When(t, id).depth <= c.depth
    <3>1. CASE id \in b.before
      <4>1. id \in Own(s) BY <3>1, <2>4, <1>5
      <4>2. When(s, id).depth <= b.depth BY <3>1, <4>1, <2>3
      <4>3. CASE When(t, id) = When(s, id) BY <4>2, <4>3, <2>2
      <4>4. CASE When(t, id) = here /\ n <= When(s, id).depth
        <5>1. When(t, id).depth = n BY <4>4, <1>3
        <5> QED BY <5>1, <4>1, <4>2, <4>4, <2>2, <2>5, <1>1, <1>8
      <4> QED BY <4>1, <4>3, <4>4, <1>6
    <3>2. CASE id \notin b.before
      <4>1. id \in ids /\ b.depth >= n BY <3>2, <2>2, <2>7, <1>5
      <4>2. CASE When(t, id) = here
        <5>1. When(t, id).depth = n BY <4>2, <1>3
        <5> QED BY <5>1, <4>1, <2>2
      <4>3. CASE id \in Own(s) /\ When(t, id) = When(s, id) /\ ~(n <= When(s, id).depth)
        BY <4>1, <4>3, <2>2, <2>5, <1>1, <1>8
      <4> QED BY <4>1, <4>2, <4>3, <1>7
    <3> QED BY <3>1, <3>2
  <2>8. c.depth = n => t.sure \subseteq c.before BY <2>2, <2>3, <2>5, <1>1, <1>2
  <2>9. ASSUME c.join /= 0 PROVE Tight(t, c)
    <3>1. b.join = m /\ m \in 1..m /\ Tight(s, b) BY <2>2, <2>3, <2>5, <2>9, <1>1
    <3>2. DOMAIN s.assignment_contexts[m] = {"children", "assigned"} BY <3>1 DEF Assured, Dated, m
    <3>3. /\ Children(t, m) = Children(s, m) /\ \A id : AssignedIn(s, m, id) \subseteq AssignedIn(t, m, id)
          /\ \A id \in ids \cap Own(t) : Uuid(s, n) \in AssignedIn(t, m, id)
      BY <3>1, <3>2, <1>1 DEF Assigns, Tracks, Advances, m, here
    <3>4. Ended(t, c) = Ended(s, b) /\ Endings(t, c) = Endings(s, b) /\ Edge(t, c.depth) = Edge(s, b.depth)
      BY <3>1, <3>3, <2>2, <1>2 DEF Ended, Endings, n
    <3>5. ASSUME Endings(t, c) >= 1, NEW id \in Own(t), id \in c.ends, id \notin c.before
          PROVE  Ended(t, c) \subseteq AssignedIn(t, c.join, id)
      <4>1. id \in Own(s) /\ id \in b.ends /\ id \notin b.before BY <3>5, <2>2, <2>4, <1>5
      <4>2. Ended(s, b) \subseteq AssignedIn(s, b.join, id) BY <4>1, <3>1, <3>4, <3>5 DEF Tight
      <4> QED BY <4>2, <3>1, <3>3, <3>4, <2>2
    <3>6. ASSUME c.depth < n, NEW id \in Own(t), id \in t.sure, id \notin c.before
          PROVE  Uuid(t, c.depth + 1) \in AssignedIn(t, c.join, id)
      <4>1. CASE id \in ids
        <5>1. c.depth + 1 = n BY <3>6, <2>2, <2>3, <2>5, <1>1
        <5> QED BY <5>1, <4>1, <3>1, <3>3, <2>2, <1>2, <3>6
      <4>2. CASE id \notin ids
        <5>1. id \in Own(s) /\ id \in s.sure /\ id \notin b.before BY <4>2, <3>6, <2>2, <1>2, <1>5
        <5>2. Uuid(s, b.depth + 1) \in AssignedIn(s, b.join, id) BY <5>1, <3>1, <3>6, <2>2 DEF Tight, n
        <5> QED BY <5>2, <3>1, <3>3, <2>2, <1>2
      <4> QED BY <4>1, <4>2
    <3>7. \A x \in Children(t, c.join) : x <= Edge(t, c.depth) BY <3>1, <3>3, <3>4, <2>2 DEF Tight
    <3>8. Endings(t, c) = 0 => Ended(t, c) = {} BY <3>1, <3>4 DEF Tight
    <3> QED BY <3>5, <3>6, <3>7, <3>8, <1>2 DEF Tight
  <2>10. c.join /= 0 => c.join = m BY <2>2, <2>3
  <2> QED BY <2>2, <2>3, <2>6, <2>7, <2>8, <2>9, <2>10
<1> QED BY <1>2, <1>11, <1>16, <1>17, <1>18 DEF Plain

LEMMA AssignsWarranted ==
  ASSUME NEW s, NEW depth, Shaped(s, depth), Len(s.contexts) >= 1, NEW branches, Warranted(s, branches),
         NEW t, NEW ids, Assigns(s, t, ids), NEW others, Apart(others), others = {} => branches = {},
         \A c \in others : /\ \E b \in branches : GrowsBy(s, b, c, ids)
                           /\ c.depth >= Len(s.contexts) => ids \subseteq c.before
  PROVE  Warranted(t, others)
<1>1. Assured(s, branches) /\ Seen(s, branches) BY DEF Warranted
<1>2. Assured(t, others)
  <2>1. \A c \in others : \E b \in branches : Grows(b, c) BY DEF GrowsBy
  <2> QED BY <1>1, <2>1, AssignsAssured
<1>3. Seen(t, others)
  <2>1. DOMAIN s.classified \subseteq DOMAIN t.classified /\ ids \subseteq DOMAIN t.classified /\ t.sure = s.sure \cup ids
    BY DEF Assigns, Advances
  <2>2. \A c \in others : \E b \in branches : c.before \subseteq b.before \cup ids \cup DOMAIN s.classified /\ c.ends = b.ends
    BY DEF GrowsBy, Grows
  <2> QED BY <1>1, <2>1, <2>2 DEF Seen
<1>4. ASSUME t.flat PROVE Plain(t, others)
  <2>1. s.flat BY <1>4 DEF Assigns, Advances
  <2>2. Plain(s, branches) BY <2>1 DEF Warranted
  <2> QED BY <1>1, <2>2, AssignsPlain
<1> QED BY <1>2, <1>3, <1>4 DEF Warranted

(* A variable whose context stays open goes on living. *)
LEMMA LivesOn ==
  ASSUME NEW s, NEW t, NEW id, When(t, id) = When(s, id), Lives(s, id),
         When(t, id).depth \in 1..Len(t.contexts),
         t.contexts[When(s, id).depth] = s.contexts[When(s, id).depth]
  PROVE  Lives(t, id)
BY DEF Lives, Uuid

LEMMA DeepenedPlain ==
  ASSUME NEW s, NEW depth, Shaped(s, depth), NEW branches, Assured(s, branches), Plain(s, branches),
         NEW t, Deepened(s, t), NEW others, others /= {}, Apart(others),
         NEW b \in branches, b.depth = Len(s.contexts),
         \A c \in others :
           \/ c \in branches /\ c.depth < Len(s.contexts)
           \/ \E a \in branches : Resumed(a, c) /\ a.depth = Len(s.contexts)
  PROVE  Plain(t, others)
<1> DEFINE n == Len(s.contexts)
           m == Len(s.assignment_contexts)
           u == s.context_uuid
<1>1. n \in Nat /\ m \in Nat /\ u \in Nat BY ListShape DEF Shaped, Covered
<1>2. /\ Len(t.contexts) = n + 1 /\ Uuid(t, n + 1) = u /\ t.sure = s.sure /\ Len(t.assignment_contexts) = m
      /\ \A d \in 1..n : t.contexts[d] = s.contexts[d]
      /\ Own(t) = Own(s) /\ \A id : When(t, id) = When(s, id)
  BY DEF Deepened, Rebuilt, Uuid, Own, When
<1>3. \A a \in 1..m : /\ Children(t, a) = Children(s, a) \cup IF a = m THEN {u} ELSE {}
                      /\ \A id : AssignedIn(t, a, id) = AssignedIn(s, a, id)
  BY DEF Deepened, AssignedIn
<1>4. b.depth \in 1..n /\ b.join \in 0..m /\ b.blocks \in Nat BY DEF Assured, Placed
<1>5. \A a \in 1..m : \A x \in Children(s, a) : x \in Nat /\ x < u BY DEF Assured, Dated, Numbered
<1>6. b.depth = n OBVIOUS
<1>7. \A a \in branches : a = b BY DEF Plain, Single
<1>8. \A c \in others : Resumed(b, c)
  <2>1. n < n => FALSE BY <1>1
  <2> QED BY <2>1, <1>6, <1>7
<1>9. /\ \A id \in Own(s) : When(s, id).depth <= b.depth => Lives(s, id)
      /\ \A id \in Own(s) \cap b.before : When(s, id).depth <= b.depth
      /\ s.sure \subseteq b.before
      /\ b.join /= 0 => b.join = m /\ Tight(s, b)
  BY DEF Plain
<1> HIDE DEF n, m, u
<1>10. ASSUME NEW id, Lives(s, id) PROVE Lives(t, id)
  <2>1. When(s, id).depth \in 1..n /\ When(t, id) = When(s, id) BY <1>2, <1>10 DEF Lives, n
  <2>2. When(t, id).depth \in 1..Len(t.contexts) BY <2>1, <1>1, <1>2
  <2>3. t.contexts[When(s, id).depth] = s.contexts[When(s, id).depth] BY <2>1, <1>2
  <2> QED BY <2>1, <2>2, <2>3, <1>10, LivesOn
<1>11. Single(others)
  <2>1. \A c \in others : c.depth = b.depth BY <1>8 DEF Resumed
  <2> QED BY <2>1 DEF Apart, Single
<1>12. ASSUME NEW id \in Own(t) \cap t.sure PROVE Lives(t, id) BY <1>2, <1>10 DEF Plain
<1>13. ASSUME NEW c \in others
       PROVE  /\ \A id \in Own(t) : When(t, id).depth <= c.depth => Lives(t, id)
              /\ \A id \in Own(t) \cap c.before : When(t, id).depth <= c.depth
              /\ c.depth = n + 1 => t.sure \subseteq c.before
              /\ n + 1 <= c.depth + 1
              /\ c.join /= 0 => c.join = m /\ Tight(t, c)
  <2>1. c.depth = n /\ c.join = b.join /\ c.before = b.before /\ c.ends = b.ends /\ c.blocks = b.blocks + 1
    BY <1>6, <1>8 DEF Resumed
  <2>2. \A id \in Own(t) : When(t, id).depth <= c.depth => Lives(t, id) BY <2>1, <1>2, <1>6, <1>9, <1>10
  <2>3. \A id \in Own(t) \cap c.before : When(t, id).depth <= c.depth BY <2>1, <1>2, <1>6, <1>9
  <2>4. c.depth /= n + 1 /\ n + 1 <= c.depth + 1 BY <2>1, <1>1
  <2>5. ASSUME c.join /= 0 PROVE Tight(t, c)
    <3>1. c.join = m /\ b.join = m /\ m \in 1..m /\ Tight(s, b) BY <2>1, <2>5, <1>1, <1>4, <1>9
    <3>2. Edge(t, n) = u /\ Edge(s, n) = u /\ Endings(t, c) = Endings(s, b)
      BY <2>1, <1>1, <1>2, <1>4, <1>6 DEF Edge, Endings, n, u
    <3>3. Children(t, m) = Children(s, m) \cup {u} BY <3>1, <1>3
    <3>4. \A x \in Children(t, c.join) : x <= Edge(t, c.depth) BY <3>1, <3>2, <3>3, <2>1, <1>1, <1>5
    <3>5. Ended(t, c) = Children(s, m) /\ Ended(s, b) = Children(s, m)
      BY <3>1, <3>2, <3>3, <2>1, <1>1, <1>5, <1>6 DEF Ended
    <3>6. Endings(t, c) = 0 => Ended(t, c) = {} BY <3>1, <3>2, <3>5 DEF Tight
    <3>7. Endings(t, c) >= 1 => \A id \in (Own(t) \cap c.ends) \ c.before : Ended(t, c) \subseteq AssignedIn(t, c.join, id)
      BY <3>1, <3>2, <3>5, <2>1, <1>2, <1>3 DEF Tight
    <3>8. \A id \in (Own(t) \cap t.sure) \ c.before : FALSE BY <2>1, <1>2, <1>9
    <3> QED BY <3>4, <3>6, <3>7, <3>8 DEF Tight
  <2>6. c.join /= 0 => c.join = m BY <2>1, <1>9
  <2> QED BY <2>2, <2>3, <2>4, <2>5, <2>6
<1> QED BY <1>2, <1>11, <1>12, <1>13 DEF Plain

LEMMA DeepenedWarranted ==
  ASSUME NEW s, NEW depth, Shaped(s, depth), NEW branches, Warranted(s, branches),
         NEW t, Deepened(s, t), NEW others, others /= {}, Apart(others),
         NEW b \in branches, b.depth = Len(s.contexts),
         \A c \in others :
           \/ c \in branches /\ c.depth < Len(s.contexts)
           \/ \E a \in branches : /\ Resumed(a, c) /\ a.depth = Len(s.contexts)
                                  /\ a.join \in {0, Len(s.assignment_contexts)}
  PROVE  Warranted(t, others)
<1>1. Assured(s, branches) /\ Seen(s, branches) BY DEF Warranted
<1>2. Assured(t, others) BY <1>1, DeepenedAssured
<1>3. \A c \in others : \E a \in branches : c.before = a.before /\ c.ends = a.ends BY DEF Resumed
<1>4. t.classified = s.classified /\ t.sure = s.sure /\ (t.flat => s.flat) BY DEF Deepened, Rebuilt
<1>5. Seen(t, others) BY <1>1, <1>3, <1>4 DEF Seen
<1>6. ASSUME t.flat PROVE Plain(t, others)
  <2>1. Plain(s, branches) BY <1>4, <1>6 DEF Warranted
  <2> QED BY <1>1, <2>1, DeepenedPlain
<1> QED BY <1>2, <1>5, <1>6 DEF Warranted

LEMMA ShallowedPlain ==
  ASSUME NEW s, NEW depth, Shaped(s, depth), Len(s.contexts) >= 2, NEW branches, Assured(s, branches),
         Plain(s, branches),
         NEW b \in branches, b.depth = Len(s.contexts) - 1, b.blocks >= 1,
         NEW t, Shallowed(s, t), t.sure = b.before, NEW others, others /= {}, Apart(others),
         \A c \in others : \/ c \in branches /\ c.depth < b.depth
                           \/ Finished(b, c, s.sure)
  PROVE  Plain(t, others)
<1> DEFINE n == Len(s.contexts)
           m == Len(s.assignment_contexts)
           u == s.context_uuid
<1>1. n \in Nat /\ n >= 2 /\ m \in Nat /\ u \in Nat BY ListShape DEF Shaped, Covered
<1>2. /\ Len(t.contexts) = n - 1 /\ Len(t.assignment_contexts) = m /\ t.context_uuid = u
      /\ \A d \in 1..n - 1 : t.contexts[d] = s.contexts[d]
      /\ Own(t) = Own(s) /\ \A id : When(t, id) = When(s, id)
      /\ \A a : Children(t, a) = Children(s, a) /\ \A id : AssignedIn(t, a, id) = AssignedIn(s, a, id)
  BY DEF Shallowed, Rebuilt, Own, When, Children, AssignedIn
<1>3. b.depth \in 1..n /\ b.join \in 0..m /\ b.blocks \in Nat BY DEF Assured, Placed
<1>4. \A a \in 1..m : \A x \in Children(s, a) : x \in Nat /\ x < u BY DEF Assured, Dated, Numbered
<1>5. b.depth = n - 1 OBVIOUS
<1>6. \A a \in branches : a = b BY DEF Plain, Single
<1>7. \A c \in others : Finished(b, c, s.sure)
  <2>1. b.depth < b.depth => FALSE BY <1>3
  <2> QED BY <2>1, <1>6
<1>8. /\ \A id \in Own(s) : When(s, id).depth <= b.depth => Lives(s, id)
      /\ \A id \in Own(s) \cap b.before : When(s, id).depth <= b.depth
      /\ b.join /= 0 => b.join = m /\ Tight(s, b)
  BY DEF Plain
<1>9. Uuid(s, n) \in Nat BY <1>1 DEF Shaped, Uuid
<1> HIDE DEF n, m, u
<1>10. ASSUME NEW id \in Own(t), When(t, id).depth <= n - 1 PROVE Lives(t, id)
  <2>1. Lives(s, id) /\ When(t, id) = When(s, id) BY <1>2, <1>5, <1>8, <1>10
  <2>2. When(s, id).depth \in 1..n - 1 BY <2>1, <1>1, <1>10 DEF Lives, n
  <2>3. When(t, id).depth \in 1..Len(t.contexts) BY <2>1, <2>2, <1>1, <1>2
  <2>4. t.contexts[When(s, id).depth] = s.contexts[When(s, id).depth] BY <2>2, <1>2
  <2> QED BY <2>1, <2>3, <2>4, LivesOn
<1>11. Single(others)
  <2>1. \A c \in others : c.depth = b.depth BY <1>7 DEF Finished
  <2> QED BY <2>1 DEF Apart, Single
<1>12. ASSUME NEW id \in Own(t) \cap t.sure PROVE Lives(t, id) BY <1>2, <1>5, <1>8, <1>10
<1>13. ASSUME NEW c \in others
       PROVE  /\ \A id \in Own(t) : When(t, id).depth <= c.depth => Lives(t, id)
              /\ \A id \in Own(t) \cap c.before : When(t, id).depth <= c.depth
              /\ c.depth = n - 1 => t.sure \subseteq c.before
              /\ n - 1 <= c.depth + 1
              /\ c.join /= 0 => c.join = m /\ Tight(t, c)
  <2>1. /\ c.depth = n - 1 /\ c.join = b.join /\ c.before = b.before /\ c.blocks = b.blocks
        /\ c.ends = IF b.blocks = 1 THEN s.sure ELSE b.ends \cap s.sure
    BY <1>5, <1>7 DEF Finished
  <2>2. \A id \in Own(t) : When(t, id).depth <= c.depth => Lives(t, id) BY <2>1, <1>10
  <2>3. \A id \in Own(t) \cap c.before : When(t, id).depth <= c.depth BY <2>1, <1>2, <1>5, <1>8
  <2>4. t.sure \subseteq c.before /\ n - 1 <= c.depth + 1 BY <2>1, <1>1
  <2>5. ASSUME c.join /= 0 PROVE Tight(t, c)
    <3>1. c.join = m /\ b.join = m /\ m \in 1..m /\ Tight(s, b) BY <2>1, <2>5, <1>1, <1>3, <1>8
    <3>2. /\ Edge(t, n - 1) = u /\ Edge(s, n - 1) = Uuid(s, n) /\ Endings(t, c) = b.blocks
          /\ Endings(s, b) = b.blocks - 1
      BY <2>1, <1>1, <1>2, <1>5 DEF Edge, Endings, n, u
    <3>3. \A x \in Children(t, c.join) : x <= Edge(t, c.depth) BY <3>1, <3>2, <2>1, <1>1, <1>2, <1>4
    <3>4. ASSUME NEW x \in Ended(t, c) PROVE x \in Ended(s, b) \/ x = Uuid(s, n)
      <4>1. x \in Children(s, m) BY <3>1, <1>2 DEF Ended
      <4>2. x <= Uuid(s, n) BY <4>1, <3>1, <3>2, <1>5 DEF Tight
      <4>3. x < Uuid(s, n) \/ x = Uuid(s, n) BY <4>1, <4>2, <3>1, <1>4, <1>9
      <4> QED BY <4>1, <4>3, <3>1, <3>2, <1>5 DEF Ended
    <3>5. Endings(t, c) >= 1 /\ Endings(t, c) /= 0 BY <3>2, <1>3
    <3>6. ASSUME NEW id \in (Own(t) \cap c.ends) \ c.before PROVE Ended(t, c) \subseteq AssignedIn(t, c.join, id)
      <4>1. id \in Own(s) /\ id \in s.sure /\ id \notin b.before BY <2>1, <1>2, <3>6
      <4>2. Uuid(s, n) \in AssignedIn(s, m, id)
        <5>1. b.depth < n /\ b.depth + 1 = n BY <1>1, <1>5
        <5> QED BY <4>1, <5>1, <3>1 DEF Tight, n
      <4>3. Ended(s, b) \subseteq AssignedIn(s, m, id)
        <5>1. CASE b.blocks = 1
          <6>1. Endings(s, b) = 0 BY <5>1, <3>2
          <6> QED BY <6>1, <3>1 DEF Tight
        <5>2. CASE b.blocks /= 1
          <6>1. Endings(s, b) >= 1 /\ id \in b.ends BY <5>2, <3>2, <3>6, <2>1, <1>3
          <6> QED BY <6>1, <4>1, <3>1 DEF Tight
        <5> QED BY <5>1, <5>2
      <4> QED BY <4>2, <4>3, <3>1, <3>4, <1>2
    <3>7. ~(c.depth < Len(t.contexts)) BY <2>1, <1>1, <1>2
    <3> QED BY <3>3, <3>5, <3>6, <3>7 DEF Tight
  <2>6. c.join /= 0 => c.join = m BY <2>1, <1>8
  <2> QED BY <2>2, <2>3, <2>4, <2>5, <2>6
<1> QED BY <1>2, <1>11, <1>12, <1>13 DEF Plain

LEMMA ShallowedWarranted ==
  ASSUME NEW s, NEW depth, Shaped(s, depth), Len(s.contexts) >= 2, NEW branches, Warranted(s, branches),
         NEW b \in branches, b.depth = Len(s.contexts) - 1, b.blocks >= 1,
         NEW t, Shallowed(s, t), t.sure = b.before, NEW others, others /= {}, Apart(others),
         \A c \in others : \/ c \in branches /\ c.depth < b.depth
                           \/ Finished(b, c, s.sure)
  PROVE  Warranted(t, others)
<1>1. Assured(s, branches) /\ Seen(s, branches) BY DEF Warranted
<1>2. Assured(t, others) BY <1>1, ShallowedAssured
<1>3. \A c \in others : \E a \in branches : c.before = a.before /\ c.ends \subseteq a.ends \cup s.sure BY DEF Finished
<1>4. t.classified = s.classified /\ (t.flat => s.flat) BY DEF Shallowed, Rebuilt
<1>5. Seen(t, others) BY <1>1, <1>3, <1>4 DEF Seen
<1>6. ASSUME t.flat PROVE Plain(t, others)
  <2>1. Plain(s, branches) BY <1>4, <1>6 DEF Warranted
  <2> QED BY <1>1, <2>1, ShallowedPlain
<1> QED BY <1>2, <1>5, <1>6 DEF Warranted

(* A construct is left: no other is open where no branch is within another. *)
LEMMA LeftPlain ==
  ASSUME NEW s, NEW depth, Shaped(s, depth), Len(s.contexts) >= 1, NEW branches, Assured(s, branches),
         Plain(s, branches),
         NEW b \in branches, b.depth = Len(s.contexts),
         NEW t, NEW promoted, Left(s, t, promoted), NEW others,
         \A c \in others : c \in branches /\ c.depth < b.depth,
         \A id \in (Own(s) \cap t.sure) \ b.before : When(t, id) = current_context(s)
  PROVE  Plain(t, others)
<1> DEFINE n == Len(s.contexts)
           here == current_context(s)
<1>1. n \in Nat /\ b.depth = n BY ListShape DEF Shaped
<1>2. t.contexts = s.contexts /\ t.scope_depth = s.scope_depth /\ Own(t) = Own(s) /\ Len(t.contexts) = n
  BY DEF Left, Own
<1>3. \A id \in Own(s) : When(t, id) = When(s, id) \/ When(t, id) = here BY DEF Left
<1>4. ASSUME NEW id, When(t, id) = here PROVE Lives(t, id)
  <2>2. here = s.contexts[n] /\ n \in 1..n BY <1>1, ListShape DEF Shaped, current_context, Last
  <2>3. here.depth = n BY <2>2 DEF Shaped
  <2> QED BY <1>2, <1>4, <2>2, <2>3 DEF Lives, Uuid
<1>5. ASSUME NEW id, When(t, id) = When(s, id), Lives(s, id) PROVE Lives(t, id)
  BY <1>2, <1>5 DEF Lives, Uuid
<1>6. /\ \A id \in Own(s) : When(s, id).depth <= b.depth => Lives(s, id)
      /\ \A id \in Own(s) \cap b.before : When(s, id).depth <= b.depth
  BY DEF Plain
<1>7. \A c \in branches : c = b BY DEF Plain, Single
<1> HIDE DEF n, here
<1>8. others = {}
  <2>1. b.depth < b.depth => FALSE BY <1>1
  <2> QED BY <2>1, <1>7
<1>9. ASSUME NEW id \in Own(t), When(t, id).depth <= n PROVE Lives(t, id)
  <2>1. CASE When(t, id) = here BY <2>1, <1>4
  <2>2. CASE When(t, id) = When(s, id)
    <3>1. Lives(s, id) BY <2>2, <1>1, <1>2, <1>6, <1>9
    <3> QED BY <3>1, <2>2, <1>5
  <2> QED BY <2>1, <2>2, <1>2, <1>3
<1>10. ASSUME NEW id \in Own(t) \cap t.sure PROVE Lives(t, id)
  <2>1. CASE When(t, id) = here BY <2>1, <1>4
  <2>2. CASE When(t, id) = When(s, id) /\ id \in b.before
    <3>1. When(s, id).depth <= n BY <2>2, <1>1, <1>2, <1>6
    <3> QED BY <3>1, <2>2, <1>9
  <2> QED BY <2>1, <2>2, <1>2, <1>3 DEF here
<1> QED BY <1>2, <1>8, <1>9, <1>10 DEF Plain, Single

LEMMA LeftWarranted ==
  ASSUME NEW s, NEW depth, Shaped(s, depth), Len(s.contexts) >= 1, NEW branches, Warranted(s, branches),
         NEW b \in branches, b.depth = Len(s.contexts),
         NEW t, NEW promoted, Left(s, t, promoted), b.before \subseteq t.sure, promoted \subseteq t.sure,
         t.sure \subseteq b.before \cup b.ends,
         NEW others,
         \A c \in others : c \in branches /\ c.depth < b.depth /\ c.join <= Len(t.assignment_contexts),
         t.flat => \A id \in (Own(s) \cap t.sure) \ b.before : When(t, id) = current_context(s)
  PROVE  Warranted(t, others)
<1>1. Assured(s, branches) /\ Seen(s, branches) BY DEF Warranted
<1>2. Assured(t, others) BY <1>1, LeftAssured
<1>3. DOMAIN t.classified = DOMAIN s.classified /\ (t.flat => s.flat) BY DEF Left
<1>4. Seen(t, others) BY <1>1, <1>3 DEF Seen
<1>5. ASSUME t.flat PROVE Plain(t, others)
  <2>1. Plain(s, branches) BY <1>3, <1>5 DEF Warranted
  <2> QED BY <1>1, <1>5, <2>1, LeftPlain
<1> QED BY <1>2, <1>4, <1>5 DEF Warranted

(* Where no branch is within another, all that is sure at the ends of the       *)
(* branches is promoted.                                                        *)
LEMMA EndsPromoted ==
  ASSUME NEW s, NEW depth, Shaped(s, depth), Len(s.assignment_contexts) >= 1,
         NEW branches, Warranted(s, branches), s.flat,
         NEW b \in branches, b.depth = Len(s.contexts), b.join = Len(s.assignment_contexts), b.blocks >= 1
  PROVE  (Own(s) \cap b.ends) \ b.before \subseteq Promotable(Last(s.assignment_contexts))
<1> DEFINE m == Len(s.assignment_contexts)
<1>1. m \in Nat /\ m \in 1..m /\ m /= 0 /\ Last(s.assignment_contexts) = s.assignment_contexts[m]
  BY ListShape DEF Shaped, Covered, Last
<1>2. Assured(s, branches) /\ Plain(s, branches) BY DEF Warranted
<1>3. Joined(s, b) /\ b.depth \in 1..Len(s.contexts) /\ Tight(s, b) BY <1>1, <1>2 DEF Assured, Placed, Plain
<1>4. Edge(s, b.depth) = s.context_uuid /\ Endings(s, b) = b.blocks BY <1>3 DEF Edge, Endings
<1>5. \A c \in Children(s, m) : c < s.context_uuid BY <1>1, <1>2 DEF Assured, Dated, Numbered
<1>6. Ended(s, b) = Children(s, m) /\ Ended(s, b) /= {} BY <1>3, <1>4, <1>5 DEF Ended, Joined
<1> SUFFICES ASSUME NEW id \in (Own(s) \cap b.ends) \ b.before
             PROVE  id \in Promotable(Last(s.assignment_contexts))
  OBVIOUS
<1>7. Children(s, m) \subseteq AssignedIn(s, m, id) BY <1>3, <1>4, <1>6 DEF Tight
<1>8. id \in DOMAIN s.assignment_contexts[m].assigned BY <1>6, <1>7 DEF AssignedIn
<1> QED BY <1>1, <1>7, <1>8 DEF Promotable, Children, AssignedIn

(* A construct is entered. *)
LEMMA BranchedPlain ==
  ASSUME NEW s, NEW depth, Shaped(s, depth), Len(s.contexts) >= 1, NEW branches, Assured(s, branches),
         Plain(s, branches), branches = {},
         NEW t, Branched(s, t), NEW others, others /= {}, Apart(others),
         \A c \in others : /\ c.depth = Len(s.contexts) /\ c.blocks = 0 /\ c.before = s.sure
                           /\ c.join \in {0, Len(t.assignment_contexts)} /\ (c.join /= 0 => c.join > Len(s.assignment_contexts))
  PROVE  Plain(t, others)
<1> DEFINE n == Len(s.contexts)
           m == Len(s.assignment_contexts)
           k == Len(t.assignment_contexts)
<1>1. n \in Nat /\ m \in Nat /\ k \in Nat /\ k >= m BY ListShape DEF Shaped, Covered, Branched
<1>2. /\ t.contexts = s.contexts /\ Own(t) = Own(s) /\ t.sure = s.sure /\ Len(t.contexts) = n
      /\ \A id : When(t, id) = When(s, id) /\ (Lives(t, id) <=> Lives(s, id))
  BY DEF Branched, Rebuilt, Own, When, Lives, Uuid
<1>3. /\ \A id \in Own(s) \cap s.sure : Lives(s, id)
      /\ \A id \in Own(s) : When(s, id).depth <= n => Lives(s, id)
  BY DEF Plain
<1>4. ASSUME NEW c \in others PROVE c.join /= 0 => c.join = k /\ Tight(t, c)
  <2> SUFFICES ASSUME c.join /= 0 PROVE c.join = k /\ Tight(t, c) OBVIOUS
  <2>1. c.join = k /\ k > m /\ k \in 1..k BY <1>1
  <2>2. t.assignment_contexts[k] = [children |-> {}, assigned |-> << >>] BY <2>1, <1>1 DEF Branched
  <2>3. Children(t, c.join) = {} BY <2>1, <2>2 DEF Children
  <2>4. Ended(t, c) = {} BY <2>3 DEF Ended
  <2>5. ~(c.depth < n) BY <1>1
  <2>6. Endings(t, c) = 0 BY <2>5, <1>2 DEF Endings
  <2> QED BY <2>1, <2>3, <2>4, <2>5, <2>6, <1>2 DEF Tight
<1>5. ASSUME NEW c \in others
      PROVE  /\ c.depth = n /\ c.before = s.sure
             /\ \A id \in Own(s) \cap s.sure : When(s, id).depth <= n
  <2>1. \A id \in Own(s) \cap s.sure : When(s, id).depth \in 1..n BY <1>3 DEF Lives
  <2> QED BY <2>1, <1>1
<1>6. Single(others) BY DEF Apart, Single
<1>7. n <= n + 1 BY <1>1
<1> HIDE DEF n, m, k
<1> QED BY <1>2, <1>3, <1>4, <1>5, <1>6, <1>7 DEF Plain, k

LEMMA BranchedWarranted ==
  ASSUME NEW s, NEW depth, Shaped(s, depth), Len(s.contexts) >= 1, NEW branches, Warranted(s, branches),
         NEW t, Branched(s, t), NEW others, others /= {}, Apart(others),
         \A c \in others : \/ c \in branches
                           \/ /\ c.depth = Len(s.contexts) /\ c.blocks = 0 /\ c.before = s.sure /\ c.ends = {}
                              /\ c.join \in {0, Len(t.assignment_contexts)}
                              /\ c.join /= 0 => c.join > Len(s.assignment_contexts),
         t.flat => branches = {}
  PROVE  Warranted(t, others)
<1>1. Assured(s, branches) /\ Seen(s, branches) BY DEF Warranted
<1>2. t.classified = s.classified /\ t.sure = s.sure /\ (t.flat => s.flat)
      /\ Len(t.assignment_contexts) \in Nat
  BY DEF Branched, Rebuilt
<1>3. Assured(t, others)
  <2>1. \A c \in others : \/ c \in branches
                          \/ /\ c.depth = Len(s.contexts) /\ c.blocks = 0 /\ c.before = s.sure
                             /\ c.join \in 0..Len(t.assignment_contexts)
                             /\ c.join /= 0 => c.join > Len(s.assignment_contexts)
    BY <1>2
  <2> QED BY <1>1, <2>1, BranchedAssured
<1>4. Seen(t, others)
  <2>1. \A c \in others : c \in branches \/ (c.before = s.sure /\ c.ends = {}) OBVIOUS
  <2> QED BY <1>1, <1>2, <2>1 DEF Seen
<1>5. ASSUME t.flat PROVE Plain(t, others)
  <2>1. Plain(s, branches) /\ branches = {} BY <1>2, <1>5 DEF Warranted
  <2>2. \A c \in others :
          /\ c.depth = Len(s.contexts) /\ c.blocks = 0 /\ c.before = s.sure
          /\ c.join \in {0, Len(t.assignment_contexts)} /\ (c.join /= 0 => c.join > Len(s.assignment_contexts))
    BY <2>1
  <2> QED BY <1>1, <2>1, <2>2, BranchedPlain
<1> QED BY <1>3, <1>4, <1>5 DEF Warranted

(* A scope in which no construct has been open yet: what it has lives. *)
Fresh(s) == Warranted(s, {}) /\ \A id \in Own(s) : Lives(s, id)

LEMMA FreshAssigns ==
  ASSUME NEW s, NEW depth, Shaped(s, depth), Len(s.contexts) >= 1, Fresh(s),
         NEW t, NEW ids, Assigns(s, t, ids)
  PROVE  Fresh(t)
<1>1. Warranted(t, {})
  <2>1. Apart({}) BY DEF Apart
  <2> QED BY <2>1, AssignsWarranted DEF Fresh
<1>2. ASSUME NEW id \in Own(t) PROVE Lives(t, id)
  <2>1. SameContexts(s, t) BY DEF Assigns, Tracks
  <2>2. CASE id \in Own(s) /\ When(t, id) = When(s, id) BY <2>1, <2>2, LivesStill DEF Fresh
  <2>3. CASE When(t, id) = current_context(s) BY <2>1, <2>3, LivesHere
  <2> QED BY <2>2, <2>3 DEF Assigns, Tracks
<1> QED BY <1>1, <1>2 DEF Fresh

LEMMA FreshDeepened ==
  ASSUME NEW s, NEW depth, Shaped(s, depth), Len(s.contexts) >= 1, Fresh(s), NEW t, Deepened(s, t)
  PROVE  Warranted(t, {})
<1> DEFINE n == Len(s.contexts)
<1>1. Assured(s, {}) /\ Seen(s, {}) BY DEF Fresh, Warranted
<1>2. Assured(t, {}) BY <1>1, DeepenedAssured
<1>3. /\ t.classified = s.classified /\ t.sure = s.sure /\ Own(t) = Own(s) /\ Len(t.contexts) = n + 1
      /\ \A d \in 1..n : t.contexts[d] = s.contexts[d]
      /\ \A id : When(t, id) = When(s, id)
  BY DEF Deepened, Rebuilt, Own, When
<1>4. Seen(t, {}) BY <1>1, <1>3 DEF Seen
<1>5. n \in Nat BY ListShape DEF Shaped
<1> HIDE DEF n
<1>6. ASSUME NEW id \in Own(t) PROVE Lives(t, id)
  <2>1. Lives(s, id) /\ When(t, id) = When(s, id) BY <1>3 DEF Fresh
  <2>2. When(s, id).depth \in 1..n BY <2>1 DEF Lives, n
  <2>3. When(t, id).depth \in 1..Len(t.contexts) BY <2>1, <2>2, <1>3, <1>5
  <2>4. t.contexts[When(s, id).depth] = s.contexts[When(s, id).depth] BY <2>2, <1>3
  <2> QED BY <2>1, <2>3, <2>4, LivesOn
<1>7. Plain(t, {}) BY <1>6 DEF Plain, Single
<1> QED BY <1>2, <1>4, <1>7 DEF Warranted

Grown(around, entered) ==
  /\ DOMAIN entered = {"open", "errors", "made"}
  /\ Sound(entered.open) /\ Len(entered.open) = Len(around) + 1
  /\ \A i \in 1..Len(around) : entered.open[i] = around[i]
  /\ Holds(Last(entered.open), Len(around), 1, 0) /\ Fresh(Last(entered.open))

Parametrised(s, id) == [s EXCEPT !.parameters = @ \cup {id}]

LEMMA ParameterAdded ==
  ASSUME NEW open, NEW s, NEW id, Becomes(open, s, {id}), NEW t, t = Parametrised(s, id)
  PROVE  Known(t) /\ Fits(open, Len(open), t, {}) /\ SameShape(s, t)
<1> DEFINE p == s.parameters \cup {id}
<1>1. DOMAIN s = ScopeFields BY DEF Becomes, Known
<1>2. t = [s EXCEPT !.parameters = p] BY <1>1 DEF ScopeFields, Parametrised
<1>3. /\ DOMAIN t = ScopeFields /\ t.parameters = p
      /\ t.classified = s.classified /\ t.local_variables = s.local_variables
      /\ t.assigned = s.assigned /\ t.called = s.called /\ t.reported = s.reported
  BY <1>1, <1>2 DEF ScopeFields
<1>4. Known(t) BY <1>3 DEF Becomes, Known
<1>5. Fits(open, Len(open), t, {}) BY <1>3 DEF Becomes, Fits
<1> HIDE DEF p
<1>6. SameShape(s, [s EXCEPT !.parameters = p]) BY <1>1, ShapeRecorded
<1>7. SameShape(s, t) BY <1>2, <1>6
<1> QED BY <1>4, <1>5, <1>7

LEMMA GrownBy ==
  ASSUME NEW around, IsList(around), NEW entered, Grown(around, entered),
         NEW t, Known(t), Fits(entered.open, Len(entered.open), t, {}), SameShape(Last(entered.open), t),
         Fresh(t), NEW grown, DOMAIN grown = {"open", "errors", "made"},
         grown.open = Replaced(entered.open, Len(entered.open), t)
  PROVE  Grown(around, grown)
<1> DEFINE p == entered.open
           q == grown.open
           n == Len(around)
<1>1. /\ n \in Nat /\ Sound(p) /\ Len(p) = n + 1 /\ \A i \in 1..n : p[i] = around[i]
      /\ Holds(Last(p), n, 1, 0)
  BY ListShape DEF Grown
<1>2. Known(t) /\ Fits(p, Len(p), t, {}) /\ SameShape(Last(p), t) /\ q = Replaced(p, Len(p), t) OBVIOUS
<1> HIDE DEF p, q, n
<1>3. Sound(q) /\ Len(q) = Len(p) /\ Last(q) = t /\ \A i \in 1..Len(p) - 1 : q[i] = p[i]
  <2>1. Len(p) >= 1 BY <1>1
  <2>2. Sound(p) /\ Known(t) /\ Fits(p, Len(p), t, {}) /\ q = Replaced(p, Len(p), t) BY <1>1, <1>2
  <2> QED BY <2>1, <2>2, UpdateSound
<1>4. Holds(t, n, 1, 0) BY <1>1, <1>2, ShapeHolds
<1>5. \A i \in 1..n : q[i] = around[i] BY <1>1, <1>3
<1> QED BY <1>1, <1>3, <1>4, <1>5 DEF Grown, q, n

LEMMA AssignedNew ==
  ASSUME NEW around, NEW entered, Grown(around, entered), NEW t, NEW ids,
         Assigns(Last(entered.open), t, ids)
  PROVE  Fresh(t)
<1> DEFINE s == Last(entered.open)
<1>1. Shaped(s, Len(around)) /\ Len(s.contexts) = 1 /\ Fresh(s) BY DEF Grown, Holds
<1>2. Assigns(s, t, ids) OBVIOUS
<1> HIDE DEF s
<1>3. Len(s.contexts) >= 1 BY <1>1
<1> QED BY <1>1, <1>2, <1>3, FreshAssigns

LEMMA RegisteredGrown ==
  ASSUME NEW around, IsList(around), NEW entered, Grown(around, entered), NEW what, NEW x
  PROVE  Grown(around, Registered(what, x, entered))
<1> DEFINE p == entered.open
<1>1. /\ Sound(p) /\ Len(p) >= 1 /\ p = entered.open
      /\ DOMAIN entered = {"open", "errors", "made"}
  BY ListShape DEF Grown
<1> HIDE DEF p
<1>2. Grown(around, register_import(x, entered))
  <2> DEFINE result == register_fully_qualified_import(p, x)
             t == result.scope
             grown == register_import(x, entered)
  <2>1. Known(t) /\ Fits(p, Len(p), t, {}) BY <1>1, ImportBecomes DEF Becomes
  <2>2. SameShape(Last(p), t) BY <1>1, ShapeImport
  <2>a. Fresh(t)
    <3>1. Assigns(Last(p), t, {}) BY <1>1, ImportAssigns
    <3> HIDE DEF t
    <3> QED BY <3>1, <1>1, AssignedNew
  <2>3. /\ DOMAIN grown = {"open", "errors", "made"}
        /\ grown.open = Replaced(entered.open, Len(entered.open), t)
    <3> HIDE DEF result
    <3> QED BY <1>1 DEF register_import, Replaced, result
  <2> HIDE DEF t, grown
  <2>4. Grown(around, grown) BY <1>1, <2>1, <2>2, <2>a, <2>3, GrownBy
  <2> QED BY <2>4 DEF grown
<1>3. Grown(around, Parameter(x, entered))
  <2> DEFINE result == Assigned(p, entered.made, x, TRUE)
             t == Parametrised(result.scope, Id(x))
             grown == Parameter(x, entered)
  <2>1. Becomes(p, result.scope, {Id(x)})
    <3>1. result = Assigned(p, entered.made, x, TRUE) OBVIOUS
    <3> HIDE DEF result
    <3> QED BY <3>1, <1>1, AssignedBecomes
  <2>2. SameShape(Last(p), result.scope) BY <1>1, ShapeAssigned
  <2>a. \E ids \in SUBSET {Id(x)} : Assigns(Last(p), result.scope, ids)
    <3>1. result = Assigned(p, entered.made, x, TRUE) OBVIOUS
    <3> HIDE DEF result
    <3>2. Covered(Last(p)) BY <1>1 DEF Grown, Holds, Shaped
    <3> QED BY <3>1, <3>2, <1>1, AssignedAssigns
  <2>3. /\ DOMAIN grown = {"open", "errors", "made"}
        /\ grown.open = Replaced(entered.open, Len(entered.open), t)
    <3> HIDE DEF result
    <3> QED BY <1>1 DEF Parameter, Parametrised, Replaced, result
  <2> HIDE DEF result, grown
  <2>4. Known(t) /\ Fits(p, Len(p), t, {}) /\ SameShape(result.scope, t) BY <2>1, ParameterAdded
  <2>5. SameShape(Last(p), t) BY <2>2, <2>4, SameShapeTransitive
  <2>b. Recorded(result.scope, t) /\ t.sure = result.scope.sure
    <3>1. DOMAIN result.scope = ScopeFields BY <2>1 DEF Becomes, Known
    <3> DEFINE e == result.scope.parameters \cup {Id(x)}
    <3>2. t = [result.scope EXCEPT !.parameters = e] BY <3>1 DEF ScopeFields, Parametrised
    <3> HIDE DEF e, t
    <3> QED BY <3>1, <3>2, Recordings
  <2> HIDE DEF t
  <2>c. Fresh(t)
    <3>1. PICK ids \in SUBSET {Id(x)} : Assigns(Last(p), result.scope, ids) BY <2>a
    <3>2. Assigns(Last(p), t, ids) BY <3>1, <2>b, RecordedAssigns
    <3> QED BY <3>2, <1>1, AssignedNew
  <2>6. Grown(around, grown) BY <1>1, <2>3, <2>4, <2>5, <2>c, GrownBy
  <2> QED BY <2>6 DEF grown
<1> QED BY <1>2, <1>3 DEF Registered

LEMMA FoldGrown ==
  ASSUME NEW around, IsList(around), NEW entered, Grown(around, entered), NEW what,
         NEW names, IsFiniteSet(names), NEW iter,
         IsFold(what, entered, names, iter)
  PROVE  Grown(around, iter[names])
<1> DEFINE Bad == {n \in Nat : \E s \in SUBSET names : Cardinality(s) = n /\ ~Grown(around, iter[s])}
<1>1. CASE Bad /= {}
  <2>1. PICK n \in Bad : \A m \in Bad : n <= m BY <1>1, SmallestIndex
  <2>2. PICK s \in SUBSET names : Cardinality(s) = n /\ ~Grown(around, iter[s]) OBVIOUS
  <2>3. iter[s] = Folded(what, entered, s, iter) BY Zenon DEF IsFold
  <2>4. s /= {} BY <2>2, <2>3 DEF Folded
  <2>5. /\ s \ {Chosen(s)} \in SUBSET names /\ Cardinality(s) \in Nat
        /\ Cardinality(s) /= 0 /\ Cardinality(s \ {Chosen(s)}) = Cardinality(s) - 1
    BY <2>4, Removed
  <2>6. Grown(around, iter[s \ {Chosen(s)}])
    <3>1. n - 1 \in Nat /\ ~(n <= n - 1) BY <2>2, <2>5
    <3>2. n - 1 \notin Bad BY <2>1, <3>1
    <3> QED BY <2>2, <2>5, <3>1, <3>2
  <2>7. iter[s] = Registered(what, Chosen(s), iter[s \ {Chosen(s)}]) BY <2>3, <2>4 DEF Folded
  <2>8. Grown(around, iter[s]) BY <2>6, <2>7, RegisteredGrown
  <2> QED BY <2>2, <2>8
<1>2. CASE Bad = {}
  <2>1. names \in SUBSET names /\ Cardinality(names) \in Nat BY FS_CardinalityType
  <2> QED BY <2>1, <1>2
<1> QED BY <1>1, <1>2

LEMMA NewScopeHolds ==
  ASSUME NEW n \in Nat, NEW functions, NEW imports, NEW s, s = NewScope(n, functions, imports)
  PROVE  /\ Known(s) /\ Holds(s, n, 1, 0) /\ Fresh(s) /\ s.local_functions = functions
         /\ DOMAIN s.classified = {} /\ DOMAIN s.local_variables = {}
<1> DEFINE context == [depth |-> 1, scope_depth |-> n, uuid |-> 0]
           bare == [scope_depth |-> n, local_functions |-> functions, imports |-> imports,
                    classified |-> << >>, local_variables |-> << >>, contexts |-> << >>, context_uuid |-> 0,
                    assignment_contexts |-> << >>, reported |-> {},
                    parameters |-> {}, sure |-> {}, assigned |-> {}, called |-> {}, flat |-> TRUE]
<1>1. IsList(<< >>) /\ Len(<< >>) = 0 /\ DOMAIN << >> = {}
  <2>1. << >> \in Seq({}) /\ Len(<< >>) = 0 BY EmptySeq
  <2>2. IsList(<< >>) BY <2>1, ListOf
  <2> QED BY <2>1, <2>2, ListShape
<1> DEFINE contexts == Append(<< >>, context)
<1>2. s = push_context(bare) BY DEF NewScope
<1>3. s = [bare EXCEPT !.context_uuid = 1, !.contexts = contexts]
  <2>1. /\ bare.assignment_contexts = << >> /\ bare.context_uuid = 0 /\ bare.contexts = << >>
        /\ bare.scope_depth = n
    OBVIOUS
  <2> HIDE DEF bare
  <2>2. push_context(bare) = [bare EXCEPT !.context_uuid = 0 + 1,
          !.contexts = Append(@, [depth |-> Len(bare.contexts) + 1, scope_depth |-> bare.scope_depth, uuid |-> 0])]
    BY <2>1, Zenon DEF push_context
  <2>3. [depth |-> Len(bare.contexts) + 1, scope_depth |-> bare.scope_depth, uuid |-> 0] = context
    BY <2>1, <1>1
  <2>4. 0 + 1 = 1 OBVIOUS
  <2>5. push_context(bare) = [bare EXCEPT !.context_uuid = 1, !.contexts = Append(@, context)]
    BY <2>2, <2>3, <2>4, Zenon
  <2>6. [bare EXCEPT !.context_uuid = 1, !.contexts = Append(@, context)]
          = [bare EXCEPT !.context_uuid = 1, !.contexts = contexts]
    <3> HIDE DEF context
    <3> QED BY <2>1
  <2> QED BY <1>2, <2>5, <2>6
<1>4. IsList(contexts) /\ Len(contexts) = 1 /\ contexts[1] = context
  <2> DEFINE empty == << >>
  <2>1. IsList(empty) /\ Len(empty) = 0 BY <1>1
  <2> HIDE DEF context, empty
  <2>2. IsList(Append(empty, context)) /\ Len(Append(empty, context)) = 1 /\ Append(empty, context)[1] = context
    <3> DEFINE one == Append(empty, context)
    <3>1. IsList(one) /\ Len(one) = Len(empty) + 1 /\ one[Len(empty) + 1] = context BY <2>1, ListAppend
    <3> HIDE DEF one
    <3>2. Len(empty) + 1 = 1 BY <2>1
    <3>3. IsList(one) /\ Len(one) = 1 /\ one[1] = context BY <3>1, <3>2
    <3> QED BY <3>3 DEF one
  <2> QED BY <2>2 DEF empty
<1>5. context.depth = 1 /\ context.uuid = 0 OBVIOUS
<1>b. context.scope_depth = n OBVIOUS
<1> HIDE DEF context, contexts
<1>6. /\ DOMAIN s = ScopeFields /\ s.scope_depth = n /\ s.local_functions = functions
      /\ s.classified = << >> /\ s.local_variables = << >> /\ s.contexts = contexts /\ s.context_uuid = 1
      /\ s.assignment_contexts = << >> /\ s.assigned = {} /\ s.called = {}
  BY <1>3 DEF ScopeFields, contexts
<1>c. s.sure = {} BY <1>3 DEF ScopeFields
<1>7. Known(s) BY <1>1, <1>6 DEF Known
<1>8. Covered(s) BY <1>1, <1>6 DEF Covered
<1>9. Holds(s, n, 1, 0) BY <1>1, <1>4, <1>5, <1>6, <1>8 DEF Holds, Shaped
<1>10. Assured(s, {})
  <2>1. /\ Own(s) = {} /\ Len(s.contexts) = 1 /\ s.contexts[1].scope_depth = s.scope_depth
        /\ Len(s.assignment_contexts) = 0
    BY <1>1, <1>4, <1>b, <1>6 DEF Own
  <2>2. Dated(s)
    <3>1. \A d, e \in 1..1 : ~(d < e) OBVIOUS
    <3> QED BY <2>1, <3>1 DEF Dated
  <2>3. \A d, id : ~Told(s, d, id)
    <3>1. 1..0 = {} OBVIOUS
    <3> QED BY <2>1, <3>1 DEF Told
  <2> QED BY <2>2, <2>3 DEF Assured
<1>11. Fresh(s)
  <2>1. Own(s) = {} /\ s.sure = {} BY <1>1, <1>6, <1>c DEF Own
  <2>2. Seen(s, {}) /\ Plain(s, {}) BY <2>1 DEF Seen, Plain, Single
  <2> QED BY <1>10, <2>1, <2>2 DEF Fresh, Warranted
<1> QED BY <1>1, <1>6, <1>7, <1>9, <1>11

(* An anonymous function before its parameters, ... *)
LEMMA OpenedGrown ==
  ASSUME NEW around, Sound(around), NEW functions, NEW imports, NEW open,
         open = Append(around, NewScope(Len(around), functions, imports)), NEW found, NEW made
  PROVE  /\ Grown(around, [open |-> open, errors |-> found, made |-> made])
         /\ Last(open) = NewScope(Len(around), functions, imports)
<1> DEFINE n == Len(around)
           s == NewScope(n, functions, imports)
           entered == [open |-> open, errors |-> found, made |-> made]
<1>1. n \in Nat BY ListShape DEF Sound
<1>2. Known(s) /\ Holds(s, n, 1, 0) /\ Fresh(s) /\ DOMAIN s.classified = {} /\ DOMAIN s.local_variables = {}
  BY <1>1, NewScopeHolds
<1>3. Fits(around, n + 1, s, {}) BY <1>2 DEF Fits
<1> HIDE DEF s, n
<1>4. open = Longer(around, s) /\ n = Len(around) BY DEF Longer, s, n
<1>5. /\ Sound(open) /\ Len(open) = n + 1 /\ Last(open) = s
      /\ \A i \in 1..n : open[i] = around[i]
  <2>1. Fits(around, Len(around) + 1, s, {}) BY <1>3, <1>4
  <2>2. /\ Sound(open) /\ Len(open) = Len(around) + 1 /\ Last(open) = s
        /\ \A i \in 1..Len(around) : open[i] = around[i]
    BY <1>2, <1>4, <2>1, OpenSound
  <2> QED BY <2>2, <1>4
<1>6. Grown(around, entered) BY <1>2, <1>4, <1>5 DEF Grown
<1> QED BY <1>5, <1>6 DEF s, n

(* ... a function with its local functions and its imports, ... *)
LEMMA EnteredGrown ==
  ASSUME NEW around, Sound(around), NEW found, NEW made, NEW functions,
         NEW imports, IsFiniteSet(imports)
  PROVE  Grown(around, Entered(around, found, made, functions, imports))
<1> DEFINE ids == {Id(f) : f \in functions}
           open == Append(around, NewScope(Len(around), ids, imports))
           first == [open |-> open, errors |-> found, made |-> made]
           s == Last(open)
           c == [id \in ids |-> FunctionInfo(open, id)]
           t == [s EXCEPT !.classified = c]
           second == [open |-> register_local_functions(open), errors |-> found, made |-> made]
<1>0. open = Append(around, NewScope(Len(around), ids, imports)) OBVIOUS
<1> HIDE DEF open, ids
<1>1. Grown(around, first) /\ s = NewScope(Len(around), ids, imports) BY <1>0, OpenedGrown
<1>2. Len(around) \in Nat /\ IsList(around) BY ListShape DEF Sound
<1>3. Known(s) /\ s.local_functions = ids /\ DOMAIN s.classified = {} /\ DOMAIN s.local_variables = {}
  BY <1>1, <1>2, NewScopeHolds
<1>4. Len(open) \in Nat /\ Len(open) \in DOMAIN open /\ Last(open) = open[Len(open)]
  BY <1>1, <1>2, ListShape DEF Grown, Sound, Last
<1>5. register_local_functions(open) = Replaced(open, Len(open), t)
  <2> DEFINE known == DOMAIN s.classified \ s.local_functions
  <2>1. known = {} /\ s.local_functions \cup known = ids BY <1>3
  <2>2. register_local_functions(open) =
          [open EXCEPT ![Len(open)].classified = [id \in s.local_functions \cup known |->
             IF id \in known THEN s.classified[id] ELSE FunctionInfo(open, id)]]
    BY DEF register_local_functions
  <2>3. [id \in s.local_functions \cup known |->
             IF id \in known THEN s.classified[id] ELSE FunctionInfo(open, id)] = c
    BY <2>1
  <2> HIDE DEF c, known
  <2>4. register_local_functions(open) = [open EXCEPT ![Len(open)].classified = c] BY <2>2, <2>3
  <2> QED BY <2>4, <1>4 DEF Replaced
<1>6. \A id \in ids : IsInfo(c[id]) /\ is_function(c[id]) /\ ~is_variable(c[id])
  BY FunctionInfoIsFunction
<1>7. DOMAIN c = ids OBVIOUS
<1> HIDE DEF c, s
<1>8. /\ DOMAIN t = ScopeFields /\ t.classified = c /\ t.local_variables = s.local_variables
      /\ t.assigned = s.assigned /\ t.called = s.called
  BY <1>3 DEF Known, ScopeFields
<1>9. s.assigned = {} /\ s.called = {} BY <1>3 DEF Known
<1>10. Known(t) BY <1>3, <1>6, <1>7, <1>8, <1>9 DEF Known
<1>11. Fits(open, Len(open), t, {}) BY <1>3, <1>6, <1>7, <1>8 DEF Fits
<1>a. Fresh(t)
  <2>1. /\ Own(s) = {} /\ t.local_variables = s.local_variables /\ t.sure = s.sure /\ SameContexts(s, t)
        /\ t.assignment_contexts = s.assignment_contexts /\ t.flat = s.flat
    BY <1>3 DEF Own, Known, ScopeFields, SameContexts
  <2> HIDE DEF t
  <2>b. Own(t) = {} /\ \A a, id : AssignedIn(t, a, id) = AssignedIn(s, a, id) BY <2>1 DEF Own, AssignedIn
  <2>c. Advances(s, t, {}) BY <1>3, <2>1, <2>b DEF Advances
  <2>2. Assigns(s, t, {}) BY <2>1, <2>c, TracksItself DEF Assigns
  <2>3. Assigns(Last(first.open), t, {}) BY <2>2 DEF s
  <2> HIDE DEF first
  <2> QED BY <1>1, <2>3, AssignedNew
<1>12. SameShape(s, t)
  <2>1. DOMAIN s.classified \subseteq DOMAIN c => SameShape(s, [s EXCEPT !.classified = c])
    BY <1>3, ShapeRecorded DEF Known
  <2> QED BY <2>1, <1>3
<1> HIDE DEF t
<1>13. Grown(around, second)
  <2>1. DOMAIN second = {"open", "errors", "made"} /\ second.open = Replaced(first.open, Len(first.open), t)
    BY <1>5
  <2>2. first.open = open /\ Last(first.open) = s BY DEF s
  <2> HIDE DEF first, second
  <2> QED BY <1>1, <1>2, <1>10, <1>11, <1>a, <1>12, <2>1, <2>2, GrownBy
<1>14. Entered(around, found, made, functions, imports) = FoldSet(register_import, second, imports)
  BY DEF Entered, open, ids
<1> HIDE DEF second
<1>15. PICK iter : /\ IsFold("import", second, imports, iter)
                   /\ FoldSet(register_import, second, imports) = iter[imports]
  BY ImportsFolded
<1>16. Grown(around, iter[imports]) BY <1>2, <1>13, <1>15, FoldGrown
<1> QED BY <1>14, <1>15, <1>16

(* ... and either with its parameters. *)
LEMMA ParametersGrown ==
  ASSUME NEW around, Sound(around), NEW entered, Grown(around, entered), NEW names, IsFiniteSet(names)
  PROVE  Grown(around, Parameters(entered, names))
<1>1. PICK iter : /\ IsFold("parameter", entered, names, iter)
                  /\ Parameters(entered, names) = iter[names]
  BY ParametersFolded
<1>2. IsList(around) BY DEF Sound
<1>3. Grown(around, iter[names]) BY <1>1, <1>2, FoldGrown
<1> QED BY <1>1, <1>3

------------------------------------------------------------------------------
(* The scopes open are the constructs that have one; a frame belongs to the    *)
(* innermost of those around it, itself included.                               *)

Delimiters(fs, j) == {k \in 1..j : fs[k].kind \in Delimiting}
Rank(fs, j) == Cardinality(Delimiters(fs, j))
Owned(fs, i, kinds) == {j \in 1..Len(fs) : Rank(fs, j) = i /\ fs[j].kind \in kinds}
Count(fs, i, kinds) == Cardinality(Owned(fs, i, kinds))

(* The frames of gs are those of fs, and one more. *)
Extends(fs, gs) ==
  Len(gs) = Len(fs) + 1 /\ \A k \in 1..Len(fs) : gs[k].kind = fs[k].kind

LEMMA RankStep ==
  ASSUME NEW fs, NEW j \in Nat
  PROVE  /\ IsFiniteSet(Delimiters(fs, j)) /\ Rank(fs, j) \in Nat
         /\ Rank(fs, j + 1) = Rank(fs, j) + IF fs[j + 1].kind \in Delimiting THEN 1 ELSE 0
<1> DEFINE S == Delimiters(fs, j)
           T == Delimiters(fs, j + 1)
<1>1. IsFiniteSet(S)
  <2>1. IsFiniteSet(1..j) BY FS_Interval
  <2> QED BY <2>1, FS_Subset DEF Delimiters
<1>2. \A k : k \in 1..j + 1 <=> k \in 1..j \/ k = j + 1 OBVIOUS
<1>3. j + 1 \notin S BY DEF Delimiters
<1>4. T = IF fs[j + 1].kind \in Delimiting THEN S \cup {j + 1} ELSE S BY <1>2 DEF Delimiters
<1> HIDE DEF S, T
<1>5. Cardinality(S) \in Nat /\ Cardinality(S \cup {j + 1}) = Cardinality(S) + 1
  BY <1>1, <1>3, FS_AddElement, FS_CardinalityType
<1> QED BY <1>1, <1>4, <1>5 DEF Rank, S, T

LEMMA RankMonotonic ==
  ASSUME NEW fs, NEW m \in Nat, NEW n \in Nat, m <= n
  PROVE  Rank(fs, m) <= Rank(fs, n)
<1>1. Delimiters(fs, m) \subseteq Delimiters(fs, n) BY DEF Delimiters
<1>2. IsFiniteSet(Delimiters(fs, n)) BY RankStep
<1> QED BY <1>1, <1>2, FS_Subset DEF Rank

LEMMA SameRank ==
  ASSUME NEW fs, NEW gs, NEW n \in Nat, \A k \in 1..n : gs[k].kind = fs[k].kind, NEW j \in 0..n
  PROVE  Rank(gs, j) = Rank(fs, j)
<1>1. Delimiters(gs, j) = Delimiters(fs, j) BY DEF Delimiters
<1> QED BY <1>1 DEF Rank

LEMMA SameCounts ==
  ASSUME NEW fs, NEW gs, Len(fs) \in Nat, Len(gs) = Len(fs), \A k \in 1..Len(fs) : gs[k].kind = fs[k].kind,
         NEW i, NEW kinds
  PROVE  Rank(gs, Len(gs)) = Rank(fs, Len(fs)) /\ Count(gs, i, kinds) = Count(fs, i, kinds)
<1>1. \A j \in 0..Len(fs) : Rank(gs, j) = Rank(fs, j) BY SameRank
<1>2. Owned(gs, i, kinds) = Owned(fs, i, kinds) BY <1>1 DEF Owned
<1> QED BY <1>1, <1>2 DEF Count

LEMMA MoreCounts ==
  ASSUME NEW fs, NEW gs, Len(fs) \in Nat, Extends(fs, gs), NEW i, NEW kinds
  PROVE  /\ Rank(fs, Len(fs)) \in Nat /\ Count(fs, i, kinds) \in Nat
         /\ Rank(gs, Len(gs)) = Rank(fs, Len(fs)) + IF gs[Len(gs)].kind \in Delimiting THEN 1 ELSE 0
         /\ Count(gs, i, kinds) = Count(fs, i, kinds)
              + IF Rank(gs, Len(gs)) = i /\ gs[Len(gs)].kind \in kinds THEN 1 ELSE 0
<1> DEFINE n == Len(fs)
           S == Owned(fs, i, kinds)
           T == Owned(gs, i, kinds)
<1>1. n \in Nat /\ Len(gs) = n + 1 /\ \A k \in 1..n : gs[k].kind = fs[k].kind BY DEF Extends
<1>2. \A j \in 0..n : Rank(gs, j) = Rank(fs, j) BY <1>1, SameRank
<1>3. IsFiniteSet(S)
  <2>1. IsFiniteSet(1..n) BY <1>1, FS_Interval
  <2> QED BY <2>1, FS_Subset DEF Owned
<1>4. n + 1 \notin S BY <1>1 DEF Owned
<1>5. \A k : k \in 1..n + 1 <=> k \in 1..n \/ k = n + 1 BY <1>1
<1>6. T = IF Rank(gs, n + 1) = i /\ gs[n + 1].kind \in kinds THEN S \cup {n + 1} ELSE S
  <2>1. \A k \in 1..n : k \in T <=> k \in S BY <1>1, <1>2, <1>5 DEF Owned
  <2>2. n + 1 \in T <=> Rank(gs, n + 1) = i /\ gs[n + 1].kind \in kinds BY <1>1, <1>5 DEF Owned
  <2>3. \A k \in T : k \in 1..n \/ k = n + 1 BY <1>1, <1>5 DEF Owned
  <2>4. \A k \in S : k \in 1..n BY DEF Owned
  <2> DEFINE m == n + 1
  <2> HIDE DEF S, T, m
  <2>5. \A k : k \in T <=> k \in S \/ (k = m /\ m \in T) BY <2>1, <2>3, <2>4 DEF m
  <2>6. CASE m \in T
    <3>1. T = S \cup {m} BY <2>5, <2>6
    <3> QED BY <3>1, <2>2, <2>6 DEF m
  <2>7. CASE m \notin T
    <3>1. T = S BY <2>5, <2>7
    <3> QED BY <3>1, <2>2, <2>7 DEF m
  <2> QED BY <2>6, <2>7
<1> HIDE DEF S, T
<1>7. Cardinality(S) \in Nat /\ Cardinality(S \cup {n + 1}) = Cardinality(S) + 1
  BY <1>3, <1>4, FS_AddElement, FS_CardinalityType
<1>8. Count(fs, i, kinds) = Cardinality(S) /\ Count(gs, i, kinds) = Cardinality(T) BY DEF Count, S, T
<1>9. Rank(gs, n + 1) = Rank(gs, n) + IF gs[n + 1].kind \in Delimiting THEN 1 ELSE 0 BY <1>1, RankStep
<1>10. Rank(gs, n) = Rank(fs, n) /\ Rank(fs, n) \in Nat
  <2>1. n \in 0..n BY <1>1
  <2>2. Rank(fs, n) \in Nat BY <1>1, RankStep
  <2> QED BY <1>2, <2>1, <2>2
<1> HIDE DEF n
<1>11. Count(gs, i, kinds) = Count(fs, i, kinds)
         + IF Rank(gs, n + 1) = i /\ gs[n + 1].kind \in kinds THEN 1 ELSE 0
  BY <1>6, <1>7, <1>8
<1> QED BY <1>1, <1>7, <1>8, <1>9, <1>10, <1>11 DEF n

LEMMA NoneOwned ==
  ASSUME NEW fs, Len(fs) \in Nat, NEW kinds
  PROVE  Count(fs, Rank(fs, Len(fs)) + 1, kinds) = 0
<1>1. ASSUME NEW j \in 1..Len(fs) PROVE Rank(fs, j) /= Rank(fs, Len(fs)) + 1
  <2>1. j \in Nat /\ j <= Len(fs) OBVIOUS
  <2>2. Rank(fs, j) <= Rank(fs, Len(fs)) BY <2>1, RankMonotonic
  <2>3. Rank(fs, j) \in Nat /\ Rank(fs, Len(fs)) \in Nat BY <2>1, RankStep
  <2> QED BY <2>2, <2>3
<1>2. Owned(fs, Rank(fs, Len(fs)) + 1, kinds) = {} BY <1>1 DEF Owned
<1> QED BY <1>2, FS_EmptySet DEF Count

------------------------------------------------------------------------------
(* The scopes fit the constructs that are open. *)

Framable(fs) ==
  /\ IsList(fs) /\ Len(fs) >= 1
  /\ \A i \in 1..Len(fs) : "kind" \in DOMAIN fs[i] /\ (fs[i].kind = "root" <=> i = 1)

Blocks == {"block", "body"}
Joining == {"if", "switch", "try"}
Fitting(open, fs, i) == Holds(open[i], i - 1, 1 + Count(fs, i, Blocks), Count(fs, i, Joining))

Well(open, fs) ==
  /\ Sound(open) /\ Framable(fs) /\ Len(open) = Rank(fs, Len(fs))
  /\ \A i \in 1..Len(open) : Fitting(open, fs, i)

(* What was settled stays so. *)
Stable(open, next) ==
  \A i \in DOMAIN open \cap DOMAIN next : Keeps(open[i], next[i])

LEMMA WellOpen ==
  ASSUME NEW open, NEW fs, Well(open, fs)
  PROVE  /\ Len(fs) \in Nat /\ Len(fs) >= 1 /\ Len(open) \in Nat /\ Len(open) >= 1
         /\ Sound(open) /\ Fitting(open, fs, Len(open))
         /\ DOMAIN open = 1..Len(open) /\ Last(open) = open[Len(open)]
<1>1. /\ Len(fs) \in Nat /\ Len(fs) >= 1 /\ Len(open) \in Nat /\ DOMAIN open = 1..Len(open)
  BY ListShape DEF Well, Framable, Sound
<1>2. fs[1].kind = "root" BY <1>1 DEF Well, Framable
<1>3. Rank(fs, 1) = Rank(fs, 0) + 1 /\ Rank(fs, 0) \in Nat
  <2>1. 0 + 1 = 1 OBVIOUS
  <2>2. Rank(fs, 0 + 1) = Rank(fs, 0) + IF fs[0 + 1].kind \in Delimiting THEN 1 ELSE 0 BY RankStep
  <2>3. Rank(fs, 0) \in Nat BY RankStep
  <2>4. fs[1].kind \in Delimiting BY <1>2 DEF Delimiting
  <2> QED BY <2>1, <2>2, <2>3, <2>4
<1>4. Rank(fs, 1) <= Rank(fs, Len(fs)) /\ Rank(fs, Len(fs)) \in Nat BY <1>1, RankMonotonic, RankStep
<1>5. Len(open) >= 1 BY <1>3, <1>4 DEF Well
<1>6. Len(open) \in 1..Len(open) BY <1>1, <1>5
<1> QED BY <1>1, <1>5, <1>6 DEF Well, Last

LEMMA KeepsItself ==
  ASSUME NEW s
  PROVE  Keeps(s, s)
BY DEF Keeps

(* A step within the construct at hand. *)
LEMMA StaysWell ==
  ASSUME NEW open, NEW fs, Well(open, fs), NEW t, Becomes(open, t, {}), SameShape(Last(open), t),
         NEW gs, Framable(gs), Len(gs) = Len(fs), \A k \in 1..Len(fs) : gs[k].kind = fs[k].kind,
         NEW next, next = Replaced(open, Len(open), t)
  PROVE  Well(next, gs) /\ Stable(open, next)
<1> DEFINE n == Len(open)
<1>1. /\ Len(fs) \in Nat /\ n \in Nat /\ n >= 1 /\ Sound(open) /\ DOMAIN open = 1..n /\ Last(open) = open[n]
      /\ n = Rank(fs, Len(fs)) /\ \A i \in 1..n : Fitting(open, fs, i)
  BY WellOpen DEF Well
<1>2. /\ Sound(next) /\ Len(next) = n /\ Last(next) = t /\ \A i \in 1..n - 1 : next[i] = open[i]
  BY <1>1, UpdateSound DEF Becomes
<1>3. next[n] = t BY <1>2 DEF Last
<1> HIDE DEF n
<1>4. /\ Rank(gs, Len(gs)) = n
      /\ \A i, kinds : Count(gs, i, kinds) = Count(fs, i, kinds)
  BY <1>1, SameCounts
<1>5. ASSUME NEW i \in 1..n PROVE Fitting(next, gs, i)
  <2>1. Holds(open[i], i - 1, 1 + Count(fs, i, Blocks), Count(fs, i, Joining)) BY <1>1 DEF Fitting
  <2>2. CASE i = n
    <3>1. Holds(t, i - 1, 1 + Count(fs, i, Blocks), Count(fs, i, Joining))
      BY <2>1, <2>2, <1>1, ShapeHolds
    <3> QED BY <3>1, <2>2, <1>3, <1>4 DEF Fitting
  <2>3. CASE i /= n
    <3>1. next[i] = open[i] BY <2>3, <1>1, <1>2
    <3> QED BY <3>1, <2>1, <1>4 DEF Fitting
  <2> QED BY <2>2, <2>3
<1>6. Well(next, gs) BY <1>2, <1>4, <1>5 DEF Well
<1>7. ASSUME NEW i \in DOMAIN open \cap DOMAIN next PROVE Keeps(open[i], next[i])
  <2>1. i \in 1..n BY <1>1
  <2>2. CASE i = n BY <2>2, <1>1, <1>3 DEF Becomes
  <2>3. CASE i /= n
    <3>1. next[i] = open[i] BY <2>1, <2>3, <1>1, <1>2
    <3> QED BY <3>1, KeepsItself
  <2> QED BY <2>2, <2>3
<1> QED BY <1>6, <1>7 DEF Stable

(* A construct without a scope is entered ... *)
LEMMA DeeperWell ==
  ASSUME NEW open, NEW fs, Well(open, fs), NEW gs, Framable(gs), Extends(fs, gs),
         NEW kind, kind = gs[Len(gs)].kind, kind \notin Delimiting,
         NEW t, Becomes(open, t, {}),
         Holds(t, Len(open) - 1,
               Len(Last(open).contexts) + (IF kind \in Blocks THEN 1 ELSE 0),
               Len(Last(open).assignment_contexts) + (IF kind \in Joining THEN 1 ELSE 0)),
         NEW next, next = Replaced(open, Len(open), t)
  PROVE  Well(next, gs) /\ Stable(open, next)
<1> DEFINE n == Len(open)
<1>1. /\ Len(fs) \in Nat /\ n \in Nat /\ n >= 1 /\ Sound(open) /\ DOMAIN open = 1..n /\ Last(open) = open[n]
      /\ n = Rank(fs, Len(fs)) /\ \A i \in 1..n : Fitting(open, fs, i)
  BY WellOpen DEF Well
<1>2. /\ Sound(next) /\ Len(next) = n /\ Last(next) = t /\ \A i \in 1..n - 1 : next[i] = open[i]
  BY <1>1, UpdateSound DEF Becomes
<1>3. next[n] = t BY <1>2 DEF Last
<1> HIDE DEF n
<1>4. /\ Rank(gs, Len(gs)) = n
      /\ \A i, kinds : /\ Count(gs, i, kinds) = Count(fs, i, kinds) + IF n = i /\ kind \in kinds THEN 1 ELSE 0
                       /\ Count(fs, i, kinds) \in Nat
  <2>1. Rank(gs, Len(gs)) = n
    <3>1. Rank(gs, Len(gs)) = Rank(fs, Len(fs)) + IF gs[Len(gs)].kind \in Delimiting THEN 1 ELSE 0
      BY <1>1, MoreCounts
    <3> QED BY <3>1, <1>1
  <2>2. ASSUME NEW i, NEW kinds
        PROVE  /\ Count(gs, i, kinds) = Count(fs, i, kinds) + IF n = i /\ kind \in kinds THEN 1 ELSE 0
               /\ Count(fs, i, kinds) \in Nat
    <3>1. /\ Count(fs, i, kinds) \in Nat
          /\ Count(gs, i, kinds) = Count(fs, i, kinds)
               + IF Rank(gs, Len(gs)) = i /\ gs[Len(gs)].kind \in kinds THEN 1 ELSE 0
      BY <1>1, MoreCounts
    <3> QED BY <3>1, <2>1
  <2> QED BY <2>1, <2>2
<1>5. ASSUME NEW i \in 1..n PROVE Fitting(next, gs, i)
  <2>1. Holds(open[i], i - 1, 1 + Count(fs, i, Blocks), Count(fs, i, Joining)) BY <1>1 DEF Fitting
  <2>2. CASE i = n
    <3>1. /\ Len(Last(open).contexts) = 1 + Count(fs, n, Blocks)
          /\ Len(Last(open).assignment_contexts) = Count(fs, n, Joining)
      BY <2>1, <2>2, <1>1 DEF Holds
    <3>2. /\ Len(Last(open).contexts) + (IF kind \in Blocks THEN 1 ELSE 0) = 1 + Count(gs, n, Blocks)
          /\ Len(Last(open).assignment_contexts) + (IF kind \in Joining THEN 1 ELSE 0) = Count(gs, n, Joining)
      BY <3>1, <1>4
    <3>3. Holds(t, n - 1, 1 + Count(gs, n, Blocks), Count(gs, n, Joining)) BY <3>2 DEF n
    <3> QED BY <3>3, <2>2, <1>3 DEF Fitting
  <2>3. CASE i /= n
    <3>1. next[i] = open[i] BY <2>3, <1>1, <1>2
    <3>2. Count(gs, i, Blocks) = Count(fs, i, Blocks) /\ Count(gs, i, Joining) = Count(fs, i, Joining)
      BY <2>3, <1>4
    <3> QED BY <3>1, <3>2, <2>1 DEF Fitting
  <2> QED BY <2>2, <2>3
<1>6. Well(next, gs) BY <1>2, <1>4, <1>5 DEF Well
<1>7. ASSUME NEW i \in DOMAIN open \cap DOMAIN next PROVE Keeps(open[i], next[i])
  <2>1. i \in 1..n BY <1>1
  <2>2. CASE i = n BY <2>2, <1>1, <1>3 DEF Becomes
  <2>3. CASE i /= n
    <3>1. next[i] = open[i] BY <2>1, <2>3, <1>1, <1>2
    <3> QED BY <3>1, KeepsItself
  <2> QED BY <2>2, <2>3
<1> QED BY <1>6, <1>7 DEF Stable

(* ... or left. *)
LEMMA ShallowerWell ==
  ASSUME NEW open, NEW fs, Well(open, fs), NEW gs, Framable(gs), Extends(gs, fs),
         NEW kind, kind = fs[Len(fs)].kind, kind \notin Delimiting,
         NEW t, Becomes(open, t, {}),
         Holds(t, Len(open) - 1,
               Len(Last(open).contexts) - (IF kind \in Blocks THEN 1 ELSE 0),
               Len(Last(open).assignment_contexts) - (IF kind \in Joining THEN 1 ELSE 0)),
         NEW next, next = Replaced(open, Len(open), t)
  PROVE  Well(next, gs) /\ Stable(open, next)
<1> DEFINE n == Len(open)
<1>1. /\ Len(gs) \in Nat /\ n \in Nat /\ n >= 1 /\ Sound(open) /\ DOMAIN open = 1..n /\ Last(open) = open[n]
      /\ n = Rank(fs, Len(fs)) /\ \A i \in 1..n : Fitting(open, fs, i)
  BY WellOpen, ListShape DEF Well, Framable
<1>2. /\ Sound(next) /\ Len(next) = n /\ Last(next) = t /\ \A i \in 1..n - 1 : next[i] = open[i]
  BY <1>1, UpdateSound DEF Becomes
<1>3. next[n] = t BY <1>2 DEF Last
<1> HIDE DEF n
<1>4. /\ Rank(gs, Len(gs)) = n
      /\ \A i, kinds : /\ Count(fs, i, kinds) = Count(gs, i, kinds) + IF n = i /\ kind \in kinds THEN 1 ELSE 0
                       /\ Count(gs, i, kinds) \in Nat
  <2>1. Rank(gs, Len(gs)) = n
    <3>1. /\ Rank(fs, Len(fs)) = Rank(gs, Len(gs)) + IF fs[Len(fs)].kind \in Delimiting THEN 1 ELSE 0
          /\ Rank(gs, Len(gs)) \in Nat
      BY <1>1, MoreCounts
    <3> QED BY <3>1, <1>1
  <2>2. ASSUME NEW i, NEW kinds
        PROVE  /\ Count(fs, i, kinds) = Count(gs, i, kinds) + IF n = i /\ kind \in kinds THEN 1 ELSE 0
               /\ Count(gs, i, kinds) \in Nat
    <3>1. /\ Count(gs, i, kinds) \in Nat
          /\ Count(fs, i, kinds) = Count(gs, i, kinds)
               + IF Rank(fs, Len(fs)) = i /\ fs[Len(fs)].kind \in kinds THEN 1 ELSE 0
      BY <1>1, MoreCounts
    <3> QED BY <3>1, <1>1
  <2> QED BY <2>1, <2>2
<1>5. ASSUME NEW i \in 1..n PROVE Fitting(next, gs, i)
  <2>1. Holds(open[i], i - 1, 1 + Count(fs, i, Blocks), Count(fs, i, Joining)) BY <1>1 DEF Fitting
  <2>2. CASE i = n
    <3>1. /\ Len(Last(open).contexts) = 1 + Count(fs, n, Blocks)
          /\ Len(Last(open).assignment_contexts) = Count(fs, n, Joining)
      BY <2>1, <2>2, <1>1 DEF Holds
    <3>2. /\ Len(Last(open).contexts) - (IF kind \in Blocks THEN 1 ELSE 0) = 1 + Count(gs, n, Blocks)
          /\ Len(Last(open).assignment_contexts) - (IF kind \in Joining THEN 1 ELSE 0) = Count(gs, n, Joining)
      BY <3>1, <1>4
    <3>3. Holds(t, n - 1, 1 + Count(gs, n, Blocks), Count(gs, n, Joining)) BY <3>2 DEF n
    <3> QED BY <3>3, <2>2, <1>3 DEF Fitting
  <2>3. CASE i /= n
    <3>1. next[i] = open[i] BY <2>3, <1>1, <1>2
    <3>2. Count(gs, i, Blocks) = Count(fs, i, Blocks) /\ Count(gs, i, Joining) = Count(fs, i, Joining)
      BY <2>3, <1>4
    <3> QED BY <3>1, <3>2, <2>1 DEF Fitting
  <2> QED BY <2>2, <2>3
<1>6. Well(next, gs) BY <1>2, <1>4, <1>5 DEF Well
<1>7. ASSUME NEW i \in DOMAIN open \cap DOMAIN next PROVE Keeps(open[i], next[i])
  <2>1. i \in 1..n BY <1>1
  <2>2. CASE i = n BY <2>2, <1>1, <1>3 DEF Becomes
  <2>3. CASE i /= n
    <3>1. next[i] = open[i] BY <2>1, <2>3, <1>1, <1>2
    <3> QED BY <3>1, KeepsItself
  <2> QED BY <2>2, <2>3
<1> QED BY <1>6, <1>7 DEF Stable

(* A function is entered ... *)
LEMMA EntersWell ==
  ASSUME NEW open, NEW fs, Well(open, fs), NEW gs, Framable(gs), Extends(fs, gs),
         NEW kind, kind = gs[Len(gs)].kind, kind \in {"body", "anonymous"},
         NEW next, IsList(next), Sound(next), Len(next) = Len(open) + 1,
         \A i \in 1..Len(open) : next[i] = open[i],
         Holds(Last(next), Len(open), 1 + (IF kind = "body" THEN 1 ELSE 0), 0)
  PROVE  Well(next, gs) /\ Stable(open, next)
<1> DEFINE n == Len(open)
<1>1. /\ Len(fs) \in Nat /\ n \in Nat /\ DOMAIN open = 1..n /\ DOMAIN next = 1..n + 1
      /\ n = Rank(fs, Len(fs)) /\ \A i \in 1..n : Fitting(open, fs, i)
  BY WellOpen, ListShape DEF Well
<1>2. kind \in Delimiting /\ (kind \in Blocks <=> kind = "body") /\ kind \notin Joining
  BY DEF Delimiting, Blocks, Joining
<1>3. Last(next) = next[n + 1] BY DEF Last
<1>4. Holds(next[n + 1], n, 1 + (IF kind = "body" THEN 1 ELSE 0), 0) BY <1>3
<1> HIDE DEF n
<1>5. /\ Rank(gs, Len(gs)) = n + 1
      /\ \A i, kinds : /\ Count(gs, i, kinds) = Count(fs, i, kinds) + IF n + 1 = i /\ kind \in kinds THEN 1 ELSE 0
                       /\ Count(fs, i, kinds) \in Nat
  <2>1. Rank(gs, Len(gs)) = n + 1
    <3>1. Rank(gs, Len(gs)) = Rank(fs, Len(fs)) + IF gs[Len(gs)].kind \in Delimiting THEN 1 ELSE 0
      BY <1>1, MoreCounts
    <3> QED BY <3>1, <1>1, <1>2
  <2>2. ASSUME NEW i, NEW kinds
        PROVE  /\ Count(gs, i, kinds) = Count(fs, i, kinds) + IF n + 1 = i /\ kind \in kinds THEN 1 ELSE 0
               /\ Count(fs, i, kinds) \in Nat
    <3>1. /\ Count(fs, i, kinds) \in Nat
          /\ Count(gs, i, kinds) = Count(fs, i, kinds)
               + IF Rank(gs, Len(gs)) = i /\ gs[Len(gs)].kind \in kinds THEN 1 ELSE 0
      BY <1>1, MoreCounts
    <3> QED BY <3>1, <2>1
  <2> QED BY <2>1, <2>2
<1>6. \A kinds : Count(fs, n + 1, kinds) = 0 BY <1>1, NoneOwned
<1>7. ASSUME NEW i \in 1..n + 1 PROVE Fitting(next, gs, i)
  <2>1. CASE i = n + 1
    <3>1. /\ 1 + (IF kind = "body" THEN 1 ELSE 0) = 1 + Count(gs, n + 1, Blocks)
          /\ 0 = Count(gs, n + 1, Joining)
      <4>1. /\ Count(gs, n + 1, Blocks) = Count(fs, n + 1, Blocks) + IF kind \in Blocks THEN 1 ELSE 0
            /\ Count(gs, n + 1, Joining) = Count(fs, n + 1, Joining) + IF kind \in Joining THEN 1 ELSE 0
        BY <1>5
      <4>2. Count(fs, n + 1, Blocks) = 0 /\ Count(fs, n + 1, Joining) = 0 BY <1>6
      <4> QED BY <4>1, <4>2, <1>2
    <3>2. Holds(next[n + 1], n, 1 + Count(gs, n + 1, Blocks), Count(gs, n + 1, Joining)) BY <3>1, <1>4
    <3>3. i - 1 = n BY <2>1, <1>1
    <3> QED BY <3>2, <3>3, <2>1 DEF Fitting
  <2>2. CASE i /= n + 1
    <3>1. i \in 1..n /\ next[i] = open[i] BY <2>2, <1>1 DEF n
    <3>2. Holds(open[i], i - 1, 1 + Count(fs, i, Blocks), Count(fs, i, Joining)) BY <3>1, <1>1 DEF Fitting
    <3>3. Count(gs, i, Blocks) = Count(fs, i, Blocks) /\ Count(gs, i, Joining) = Count(fs, i, Joining)
      BY <2>2, <1>5
    <3> QED BY <3>1, <3>2, <3>3 DEF Fitting
  <2> QED BY <2>1, <2>2
<1>8. Len(next) = n + 1 BY DEF n
<1>9. Well(next, gs) BY <1>5, <1>7, <1>8 DEF Well
<1>10. ASSUME NEW i \in DOMAIN open \cap DOMAIN next PROVE Keeps(open[i], next[i])
  <2>1. next[i] = open[i] BY <1>1 DEF n
  <2> QED BY <2>1, KeepsItself
<1> QED BY <1>9, <1>10 DEF Stable

(* ... or left. *)
LEMMA LeavesWell ==
  ASSUME NEW open, NEW fs, Well(open, fs), NEW gs, Framable(gs), Extends(gs, fs),
         fs[Len(fs)].kind \in {"body", "anonymous"}, NEW next, next = Front(open)
  PROVE  Well(next, gs) /\ Stable(open, next)
<1> DEFINE n == Len(open)
<1>1. /\ Len(gs) \in Nat /\ n \in Nat /\ n >= 1 /\ DOMAIN open = 1..n /\ Sound(open) /\ IsList(open)
      /\ n = Rank(fs, Len(fs)) /\ \A i \in 1..n : Fitting(open, fs, i)
  BY WellOpen, ListShape DEF Well, Framable, Sound
<1>2. Sound(next) /\ IsList(next) /\ Len(next) = n - 1 /\ \A i \in 1..n - 1 : next[i] = open[i]
  BY <1>1, LeaveSound, ListFront
<1>3. DOMAIN next = 1..n - 1 BY <1>2, ListShape
<1>4. fs[Len(fs)].kind \in Delimiting BY DEF Delimiting
<1> HIDE DEF n
<1>5. Rank(gs, Len(gs)) = n - 1 /\ \A i \in 1..n - 1 : \A kinds : Count(gs, i, kinds) = Count(fs, i, kinds)
  <2>1. Rank(gs, Len(gs)) = n - 1
    <3>1. /\ Rank(fs, Len(fs)) = Rank(gs, Len(gs)) + IF fs[Len(fs)].kind \in Delimiting THEN 1 ELSE 0
          /\ Rank(gs, Len(gs)) \in Nat
      BY <1>1, MoreCounts
    <3> QED BY <3>1, <1>1, <1>4
  <2>2. ASSUME NEW i \in 1..n - 1, NEW kinds PROVE Count(gs, i, kinds) = Count(fs, i, kinds)
    <3>1. /\ Count(gs, i, kinds) \in Nat
          /\ Count(fs, i, kinds) = Count(gs, i, kinds)
               + IF Rank(fs, Len(fs)) = i /\ fs[Len(fs)].kind \in kinds THEN 1 ELSE 0
      BY <1>1, MoreCounts
    <3>2. Rank(fs, Len(fs)) /= i BY <1>1
    <3> QED BY <3>1, <3>2
  <2> QED BY <2>1, <2>2
<1>6. ASSUME NEW i \in 1..n - 1 PROVE Fitting(next, gs, i)
  <2>1. i \in 1..n /\ next[i] = open[i] BY <1>1, <1>2
  <2>2. Holds(open[i], i - 1, 1 + Count(fs, i, Blocks), Count(fs, i, Joining)) BY <2>1, <1>1 DEF Fitting
  <2>3. Count(gs, i, Blocks) = Count(fs, i, Blocks) /\ Count(gs, i, Joining) = Count(fs, i, Joining)
    BY <1>5
  <2> QED BY <2>1, <2>2, <2>3 DEF Fitting
<1>7. Well(next, gs) BY <1>2, <1>5, <1>6 DEF Well
<1>8. ASSUME NEW i \in DOMAIN open \cap DOMAIN next PROVE Keeps(open[i], next[i])
  <2>1. next[i] = open[i] BY <1>1, <1>2, <1>3
  <2> QED BY <2>1, KeepsItself
<1> QED BY <1>7, <1>8 DEF Stable

------------------------------------------------------------------------------
(* Contexts are entered and left. *)

LEMMA PushedHolds ==
  ASSUME NEW s, DOMAIN s = ScopeFields, NEW depth, NEW contexts, NEW branches,
         Holds(s, depth, contexts, branches)
  PROVE  Holds(push_context(s), depth, contexts + 1, branches)
<1> DEFINE uuid == s.context_uuid
           n == Len(s.contexts)
           context == [depth |-> n + 1, scope_depth |-> s.scope_depth, uuid |-> uuid]
           e == Longer(s.contexts, context)
           u == [s EXCEPT !.context_uuid = uuid + 1, !.contexts = e]
           ac == s.assignment_contexts
           m == Len(ac)
           last == [ac[m] EXCEPT !.children = @ \cup {uuid}]
           a == Replaced(ac, m, last)
           t == push_context(s)
<1>1. /\ IsList(s.contexts) /\ n \in Nat /\ uuid \in Nat /\ n = contexts /\ s.scope_depth = depth
      /\ \A d \in 1..n : /\ s.contexts[d].depth = d
                         /\ s.contexts[d].uuid \in Nat /\ s.contexts[d].uuid < uuid
      /\ Covered(s) /\ m = branches
  BY ListShape DEF Holds, Shaped
<1>2. /\ IsList(e) /\ Len(e) = n + 1 /\ e[n + 1] = context /\ \A d \in 1..n : e[d] = s.contexts[d]
  <2>1. e = Append(s.contexts, context) BY DEF Longer
  <2> HIDE DEF e, context, n
  <2>2. IsList(Append(s.contexts, context)) /\ Len(Append(s.contexts, context)) = n + 1
        /\ Append(s.contexts, context)[n + 1] = context
        /\ \A d \in 1..n : Append(s.contexts, context)[d] = s.contexts[d]
    BY <1>1, ListAppend DEF n
  <2> QED BY <2>1, <2>2
<1>3. context.depth = n + 1 /\ context.uuid = uuid OBVIOUS
<1>4. t = IF ac = <<>> THEN u ELSE [u EXCEPT !.assignment_contexts = a]
  <2>1. t = IF s.assignment_contexts = <<>> THEN [s EXCEPT !.context_uuid = uuid + 1, !.contexts = Append(@, context)]
          ELSE [[s EXCEPT !.context_uuid = uuid + 1, !.contexts = Append(@, context)]
                  EXCEPT !.assignment_contexts[Len(s.assignment_contexts)].children = @ \cup {uuid}]
    BY Zenon DEF push_context
  <2> HIDE DEF uuid, context, t
  <2>2. [s EXCEPT !.context_uuid = uuid + 1, !.contexts = Append(@, context)] = u BY DEF Longer, ScopeFields
  <2>3. DOMAIN u = ScopeFields /\ u.assignment_contexts = ac BY DEF ScopeFields
  <2> HIDE DEF u, e
  <2>4. [u EXCEPT !.assignment_contexts[Len(s.assignment_contexts)].children = @ \cup {uuid}]
          = [u EXCEPT !.assignment_contexts = a]
    BY <2>3 DEF ScopeFields, Replaced
  <2> QED BY <2>1, <2>2, <2>4
<1> HIDE DEF t, e, context
<1>5. /\ t.scope_depth = s.scope_depth /\ t.contexts = e /\ t.context_uuid = uuid + 1
      /\ t.classified = s.classified
      /\ t.assignment_contexts = IF ac = <<>> THEN ac ELSE a
  <2> HIDE DEF a
  <2> QED BY <1>4 DEF ScopeFields
<1>6. Covered(t) /\ Len(t.assignment_contexts) = m
  <2>1. CASE ac = <<>> BY <2>1, <1>1, <1>5 DEF Covered
  <2>2. CASE ac /= <<>>
    <3>1. IsList(ac) /\ m \in Nat /\ m \in 1..Len(ac)
      <4>1. IsList(ac) BY <1>1 DEF Covered
      <4>2. m \in Nat BY <4>1, ListShape
      <4>3. m /= 0 BY <2>2, <4>1, EmptySeq DEF IsList
      <4> QED BY <4>1, <4>2, <4>3
    <3>2. \A i \in 1..m : "assigned" \in DOMAIN ac[i] /\ DOMAIN ac[i].assigned \subseteq DOMAIN s.classified
      BY <1>1 DEF Covered
    <3>3. "assigned" \in DOMAIN last /\ DOMAIN last.assigned \subseteq DOMAIN s.classified
      <4>1. "assigned" \in DOMAIN ac[m] /\ DOMAIN ac[m].assigned \subseteq DOMAIN s.classified BY <3>1, <3>2
      <4> DEFINE f == ac[m]
      <4> HIDE DEF f
      <4>2. "assigned" \in DOMAIN f => "assigned" \in DOMAIN [f EXCEPT !.children = @ \cup {uuid}]
                                       /\ [f EXCEPT !.children = @ \cup {uuid}].assigned = f.assigned
        OBVIOUS
      <4> QED BY <4>1, <4>2 DEF f
    <3> HIDE DEF last
    <3>4. /\ IsList(a) /\ Len(a) = m /\ a[m] = last
          /\ \A i \in 1..m : i /= m => a[i] = ac[i]
      <4>1. a = Replaced(ac, m, last) /\ m = Len(ac) OBVIOUS
      <4> HIDE DEF a, ac, m
      <4> QED BY <3>1, <4>1, ListExcept
    <3> HIDE DEF a, ac, m
    <3>5. \A i \in 1..m : "assigned" \in DOMAIN a[i] /\ DOMAIN a[i].assigned \subseteq DOMAIN s.classified
      BY <3>2, <3>3, <3>4
    <3>6. t.assignment_contexts = a BY <1>5, <2>2
    <3> QED BY <3>4, <3>5, <3>6, <1>5 DEF Covered
  <2> QED BY <2>1, <2>2
<1>7. ASSUME NEW d \in 1..n + 1
      PROVE  e[d].depth = d /\ e[d].uuid \in Nat /\ e[d].uuid < uuid + 1
  <2>1. CASE d = n + 1 BY <2>1, <1>1, <1>2, <1>3
  <2>2. CASE d /= n + 1
    <3>1. d \in 1..n BY <2>2, <1>1
    <3> HIDE DEF n, uuid
    <3> QED BY <3>1, <1>1, <1>2
  <2> QED BY <2>1, <2>2
<1> HIDE DEF n, uuid, m
<1> QED BY <1>1, <1>2, <1>5, <1>6, <1>7 DEF Holds, Shaped, t

LEMMA PoppedHolds ==
  ASSUME NEW s, DOMAIN s = ScopeFields, NEW depth, NEW contexts \in Nat \ {0}, NEW branches,
         Holds(s, depth, contexts, branches)
  PROVE  Holds(pop_context(s), depth, contexts - 1, branches)
<1> DEFINE e == Front(s.contexts)
           t == pop_context(s)
<1>1. /\ IsList(s.contexts) /\ Len(s.contexts) = contexts /\ s.scope_depth = depth /\ s.context_uuid \in Nat
      /\ \A d \in 1..contexts : /\ s.contexts[d].depth = d
                                /\ s.contexts[d].uuid \in Nat /\ s.contexts[d].uuid < s.context_uuid
      /\ Covered(s) /\ Len(s.assignment_contexts) = branches
  BY DEF Holds, Shaped
<1>2. IsList(e) /\ Len(e) = contexts - 1 /\ \A d \in 1..contexts - 1 : e[d] = s.contexts[d]
  <2> DEFINE k == s.contexts
  <2>1. IsList(k) /\ Len(k) >= 1 /\ Len(k) = contexts BY <1>1
  <2>2. e = Front(k) OBVIOUS
  <2> HIDE DEF k, e
  <2>3. IsList(e) /\ Len(e) = Len(k) - 1 /\ \A d \in 1..Len(k) - 1 : e[d] = k[d] BY <2>1, <2>2, ListFront
  <2> QED BY <2>1, <2>3 DEF k
<1> HIDE DEF e
<1>3. /\ t.scope_depth = s.scope_depth /\ t.contexts = e /\ t.context_uuid = s.context_uuid
      /\ t.classified = s.classified /\ t.assignment_contexts = s.assignment_contexts
  BY DEF pop_context, ScopeFields, e
<1> HIDE DEF t
<1>4. \A d \in 1..contexts - 1 : /\ e[d].depth = d
                                 /\ e[d].uuid \in Nat /\ e[d].uuid < s.context_uuid
  BY <1>1, <1>2
<1>5. Covered(t) BY <1>1, <1>3 DEF Covered
<1> QED BY <1>1, <1>2, <1>3, <1>4, <1>5 DEF Holds, Shaped, t

LEMMA BranchingHolds ==
  ASSUME NEW s, DOMAIN s = ScopeFields, NEW depth, NEW contexts, NEW branches,
         Holds(s, depth, contexts, branches)
  PROVE  Holds(push_variable_assignment_context(s), depth, contexts, branches + 1)
<1> DEFINE new == [children |-> {}, assigned |-> << >>]
           ac == s.assignment_contexts
           m == Len(ac)
           e == Append(ac, new)
           t == push_variable_assignment_context(s)
<1>1. /\ IsList(s.contexts) /\ Len(s.contexts) = contexts /\ s.scope_depth = depth /\ s.context_uuid \in Nat
      /\ \A d \in 1..contexts : /\ s.contexts[d].depth = d
                                /\ s.contexts[d].uuid \in Nat /\ s.contexts[d].uuid < s.context_uuid
      /\ Covered(s) /\ m = branches
  BY DEF Holds, Shaped
<1>2. /\ IsList(ac) /\ m \in Nat
      /\ \A i \in 1..m : "assigned" \in DOMAIN ac[i] /\ DOMAIN ac[i].assigned \subseteq DOMAIN s.classified
  BY <1>1, ListShape DEF Covered
<1>3. "assigned" \in DOMAIN new /\ DOMAIN new.assigned = {}
  OBVIOUS
<1>8. t = [s EXCEPT !.assignment_contexts = Append(@, new)] BY Zenon DEF push_variable_assignment_context
<1> HIDE DEF new
<1>4. IsList(e) /\ Len(e) = m + 1 /\ e[m + 1] = new /\ \A i \in 1..m : e[i] = ac[i]
  BY <1>2, ListAppend
<1> HIDE DEF e
<1>5. /\ t.scope_depth = s.scope_depth /\ t.contexts = s.contexts /\ t.context_uuid = s.context_uuid
      /\ t.classified = s.classified /\ t.assignment_contexts = e
  <2>1. s.assignment_contexts = ac OBVIOUS
  <2>2. t = [s EXCEPT !.assignment_contexts = e]
    <3> HIDE DEF t
    <3> QED BY <1>8 DEF e, ScopeFields
  <2> HIDE DEF t, ac
  <2> QED BY <2>2 DEF ScopeFields
<1> HIDE DEF t, ac, m
<1>6. ASSUME NEW i \in 1..m + 1
      PROVE  "assigned" \in DOMAIN e[i] /\ DOMAIN e[i].assigned \subseteq DOMAIN s.classified
  <2>1. CASE i = m + 1 BY <2>1, <1>3, <1>4
  <2>2. CASE i /= m + 1
    <3>1. i \in 1..m BY <2>2, <1>2
    <3> QED BY <3>1, <1>2, <1>4
  <2> QED BY <2>1, <2>2
<1>7. Covered(t) /\ Len(t.assignment_contexts) = m + 1 BY <1>4, <1>5, <1>6 DEF Covered
<1> QED BY <1>1, <1>5, <1>7 DEF Holds, Shaped, t

LEMMA JoinedHolds ==
  ASSUME NEW s, DOMAIN s = ScopeFields, NEW depth, NEW contexts, NEW branches \in Nat \ {0},
         Holds(s, depth, contexts, branches)
  PROVE  Holds(pop_variable_assignment_context(s), depth, contexts, branches - 1)
<1> DEFINE ac == s.assignment_contexts
           f == Front(ac)
           promoted == Promotable(Last(ac))
           c == current_context(s)
           e == [id \in DOMAIN s.classified |->
                   IF id \in promoted THEN [s.classified[id] EXCEPT !.context = c] ELSE s.classified[id]]
           t == [s EXCEPT !.assignment_contexts = f, !.classified = e]
<1>1. /\ IsList(s.contexts) /\ Len(s.contexts) = contexts /\ s.scope_depth = depth /\ s.context_uuid \in Nat
      /\ \A d \in 1..contexts : /\ s.contexts[d].depth = d
                                /\ s.contexts[d].uuid \in Nat /\ s.contexts[d].uuid < s.context_uuid
      /\ IsList(ac) /\ Len(ac) = branches
      /\ \A i \in 1..branches : /\ "assigned" \in DOMAIN ac[i]
                                /\ DOMAIN ac[i].assigned \subseteq DOMAIN s.classified
  BY DEF Holds, Shaped, Covered
<1>2. promoted \subseteq DOMAIN s.classified
  <2>1. Last(ac) = ac[branches] /\ branches \in 1..branches BY <1>1 DEF Last
  <2>2. DOMAIN Last(ac).assigned \subseteq DOMAIN s.classified BY <1>1, <2>1
  <2>3. promoted \subseteq DOMAIN Last(ac).assigned BY DEF Promotable
  <2> QED BY <2>2, <2>3
<1>3. pop_variable_assignment_context(s) = RegisterAssigned(t, promoted)
  BY DEF pop_variable_assignment_context, PopPromoting, ScopeFields
<1>4. IsList(f) /\ Len(f) = branches - 1 /\ \A i \in 1..branches - 1 : f[i] = ac[i]
  BY <1>1, ListFront
<1>5. DOMAIN e = DOMAIN s.classified OBVIOUS
<1> HIDE DEF f, e, promoted, ac, c
<1>6. /\ t.scope_depth = s.scope_depth /\ t.contexts = s.contexts /\ t.context_uuid = s.context_uuid
      /\ t.classified = e /\ t.assignment_contexts = f /\ DOMAIN t = ScopeFields
  BY DEF ScopeFields
<1> HIDE DEF t
<1>7. \A i \in 1..branches - 1 : "assigned" \in DOMAIN f[i] /\ DOMAIN f[i].assigned \subseteq DOMAIN e
  BY <1>1, <1>4, <1>5
<1>8. Covered(t) BY <1>4, <1>6, <1>7 DEF Covered
<1>9. Holds(t, depth, contexts, branches - 1) BY <1>1, <1>4, <1>6, <1>8 DEF Holds, Shaped
<1>10. SameShape(t, RegisterAssigned(t, promoted)) BY <1>2, <1>5, <1>6, ShapeRegistered
<1> QED BY <1>3, <1>9, <1>10, ShapeHolds

------------------------------------------------------------------------------
(* The steps.  Every program the model makes up is within a bound. *)

Inv == Well(scopes, frames) /\ program \in Bounds

Called(s, id) == [s EXCEPT !.called = @ \cup {id}]

LEMMA MarkedCalled ==
  ASSUME NEW open, NEW u, Becomes(open, u, {}), NEW id, id \in DOMAIN u.classified,
         is_function(u.classified[id]), NEW t, t = Called(u, id)
  PROVE  Becomes(open, t, {}) /\ SameShape(u, t)
<1> DEFINE c == u.called \cup {id}
<1>1. DOMAIN u = ScopeFields BY DEF Becomes, Known
<1>2. t = [u EXCEPT !.called = c] BY <1>1 DEF Called, ScopeFields
<1>3. c = u.called \cup {id} OBVIOUS
<1> HIDE DEF c
<1>4. /\ DOMAIN t = ScopeFields /\ t.called = c
      /\ t.classified = u.classified /\ t.local_variables = u.local_variables
      /\ t.parameters = u.parameters /\ t.assigned = u.assigned /\ t.reported = u.reported
  BY <1>1, <1>2 DEF ScopeFields
<1>5. Known(t) BY <1>3, <1>4 DEF Becomes, Known
<1>6. Fits(open, Len(open), t, {}) BY <1>4 DEF Becomes, Fits
<1>7. Keeps(Last(open), t) BY <1>4 DEF Becomes, Keeps
<1>8. SameShape(u, [u EXCEPT !.called = c]) BY <1>1, ShapeRecorded
<1> QED BY <1>2, <1>5, <1>6, <1>7, <1>8 DEF Becomes

LEMMA FramesChanged ==
  ASSUME NEW fs, Framable(fs), NEW i \in 1..Len(fs), NEW f, "kind" \in DOMAIN f, f.kind = fs[i].kind,
         NEW gs, gs = Replaced(fs, i, f)
  PROVE  /\ Framable(gs) /\ Len(gs) = Len(fs) /\ \A k \in 1..Len(fs) : gs[k].kind = fs[k].kind
         /\ gs[i] = f
<1>1. IsList(gs) /\ Len(gs) = Len(fs) /\ gs[i] = f /\ \A j \in 1..Len(fs) : j /= i => gs[j] = fs[j]
  BY ListExcept DEF Framable
<1>2. \A k \in 1..Len(fs) : gs[k].kind = fs[k].kind /\ "kind" \in DOMAIN gs[k] BY <1>1 DEF Framable
<1> QED BY <1>1, <1>2 DEF Framable

LEMMA FramesOpened ==
  ASSUME NEW fs, Framable(fs), NEW f, "kind" \in DOMAIN f, f.kind /= "root", NEW gs, gs = Longer(fs, f)
  PROVE  Framable(gs) /\ Extends(fs, gs) /\ gs[Len(gs)] = f
<1>1. Len(fs) \in Nat /\ IsList(fs) BY ListShape DEF Framable
<1>2. IsList(gs) /\ Len(gs) = Len(fs) + 1 /\ gs[Len(fs) + 1] = f /\ \A i \in 1..Len(fs) : gs[i] = fs[i]
  BY <1>1, ListAppend DEF Longer
<1>3. ASSUME NEW i \in 1..Len(fs) + 1 PROVE "kind" \in DOMAIN gs[i] /\ (gs[i].kind = "root" <=> i = 1)
  <2>1. Len(fs) >= 1 /\ \A k \in 1..Len(fs) : "kind" \in DOMAIN fs[k] /\ (fs[k].kind = "root" <=> k = 1)
    BY DEF Framable
  <2>2. CASE i = Len(fs) + 1
    <3>1. gs[i] = f /\ i /= 1 BY <2>1, <2>2, <1>1, <1>2
    <3> QED BY <3>1
  <2>3. CASE i /= Len(fs) + 1
    <3>1. i \in 1..Len(fs) BY <2>3, <1>1
    <3> QED BY <3>1, <2>1, <1>2
  <2> QED BY <2>2, <2>3
<1>4. Framable(gs)
  <2>1. Len(gs) >= 1 BY <1>1, <1>2
  <2> QED BY <2>1, <1>2, <1>3 DEF Framable
<1>5. Extends(fs, gs) BY <1>2 DEF Extends
<1> QED BY <1>2, <1>4, <1>5

LEMMA FramesClosed ==
  ASSUME NEW fs, Framable(fs), fs[Len(fs)].kind /= "root", NEW gs, gs = Front(fs)
  PROVE  Framable(gs) /\ Extends(gs, fs)
<1>1. Len(fs) \in Nat /\ IsList(fs) /\ Len(fs) >= 1 BY ListShape DEF Framable
<1>2. Len(fs) /= 1 BY <1>1 DEF Framable
<1>3. IsList(gs) /\ Len(gs) = Len(fs) - 1 /\ \A i \in 1..Len(fs) - 1 : gs[i] = fs[i] BY <1>1, ListFront
<1>4. \A k \in 1..Len(fs) - 1 : "kind" \in DOMAIN gs[k] /\ (gs[k].kind = "root" <=> k = 1)
  BY <1>1, <1>3 DEF Framable
<1>5. Framable(gs)
  <2>1. Len(gs) >= 1 BY <1>1, <1>2, <1>3
  <2> QED BY <2>1, <1>3, <1>4 DEF Framable
<1>6. Extends(gs, fs)
  <2>1. Len(fs) = Len(gs) + 1 BY <1>1, <1>3
  <2> QED BY <2>1, <1>3 DEF Extends
<1> QED BY <1>5, <1>6

LEMMA FramesUnchanged ==
  ASSUME NEW open, NEW fs, Well(open, fs), NEW t, Becomes(open, t, {}), SameShape(Last(open), t),
         NEW next, next = Replaced(open, Len(open), t)
  PROVE  Well(next, fs) /\ Stable(open, next)
BY StaysWell DEF Well

LEMMA NothingChanged ==
  ASSUME NEW open
  PROVE  Stable(open, open)
BY KeepsItself DEF Stable

LEMMA InvOpen ==
  ASSUME Inv
  PROVE  /\ Well(scopes, frames) /\ Sound(scopes) /\ Len(scopes) >= 1 /\ Len(scopes) \in Nat
         /\ Framable(frames) /\ Len(frames) \in Nat /\ Len(frames) >= 1
         /\ top = frames[Len(frames)] /\ current = Last(scopes)
         /\ Becomes(scopes, current, {}) /\ DOMAIN current = ScopeFields
<1>1. Well(scopes, frames) BY DEF Inv
<1>2. Becomes(scopes, Last(scopes), {}) /\ Known(Last(scopes)) BY <1>1, WellOpen, StaysItself
<1> QED BY <1>1, <1>2, WellOpen DEF Well, top, current, Last, Known

LEMMA UpdateIs ==
  ASSUME NEW t
  PROVE  Update(t) <=> scopes' = Replaced(scopes, Len(scopes), t)
BY DEF Update, Replaced

LEMMA ReferenceStep ==
  ASSUME Inv, NEW x, NEW kind, Reference(x, kind)
  PROVE  Well(scopes', frames') /\ Stable(scopes, scopes')
<1> DEFINE n == Len(scopes)
           first == register_identifier_reference(scopes, Id(x))
           was_variable == has_variable(Id(x))
           warned == Warned(first, Id(x))
           compound == kind = "member" /\ ~was_variable
           open == Replaced(scopes, n, warned)
           second == register_identifier_reference(open, Member(x))
           scope == IF compound THEN second.scope ELSE warned
           t == IF was_variable THEN scope ELSE Called(scope, Id(x))
<1>1. Well(scopes, frames) /\ Sound(scopes) /\ n >= 1 /\ n \in Nat BY InvOpen
<1>2. scopes' = Replaced(scopes, n, t) /\ frames' = frames
  <2>1. Update(t) /\ frames' = frames
    <3> HIDE DEF first, was_variable
    <3> QED BY DEF Reference, Called, Replaced, first, was_variable
  <2> QED BY <2>1, UpdateIs
<1>3. /\ Becomes(scopes, first.scope, {}) /\ SameShape(Last(scopes), first.scope)
      /\ Id(x) \in DOMAIN first.scope.classified
      /\ ~was_variable => is_function(first.scope.classified[Id(x)])
  <2>1. first = register_identifier_reference(scopes, Id(x)) OBVIOUS
  <2>2. was_variable <=> is_variable(lookup_variable(scopes, n, Id(x))) BY DEF has_variable
  <2> HIDE DEF first, was_variable
  <2> QED BY <1>1, <2>1, <2>2, ReferenceBecomes, ShapeReference
<1> HIDE DEF first, was_variable
<1>4. /\ Becomes(scopes, warned, {}) /\ SameShape(first.scope, warned) /\ warned.classified = first.scope.classified
  <2>1. warned = first.scope \/ warned = Report(first.scope, Id(x)) BY DEF Warned
  <2>2. DOMAIN first.scope = ScopeFields BY <1>3 DEF Becomes, Known
  <2>3. Becomes(scopes, Report(first.scope, Id(x)), {}) BY <1>3, ReportedBecomes
  <2>4. SameShape(first.scope, Report(first.scope, Id(x))) /\ SameShape(first.scope, first.scope)
    BY <2>2, ShapeRecorded DEF Report
  <2>5. Report(first.scope, Id(x)).classified = first.scope.classified BY <2>2 DEF Report, ScopeFields
  <2> HIDE DEF warned
  <2> QED BY <1>3, <2>1, <2>3, <2>4, <2>5
<1> HIDE DEF warned
<1>5. SameShape(Last(scopes), warned) BY <1>3, <1>4, SameShapeTransitive
<1>6. /\ Sound(open) /\ Len(open) = n /\ Last(open) = warned /\ \A i \in 1..n - 1 : open[i] = scopes[i]
  <2>1. open = Replaced(scopes, Len(scopes), warned) OBVIOUS
  <2> HIDE DEF open
  <2> QED BY <1>1, <1>4, <2>1, UpdateSound DEF Becomes
<1> HIDE DEF open
<1>7. /\ Becomes(open, second.scope, {}) /\ SameShape(warned, second.scope)
  <2>1. second = register_identifier_reference(open, Member(x)) OBVIOUS
  <2> HIDE DEF second
  <2> QED BY <1>1, <1>6, <2>1, ReferenceBecomes, ShapeReference
<1> HIDE DEF second
<1>8. Becomes(scopes, second.scope, {})
  <2>1. Known(second.scope) /\ Fits(open, n, second.scope, {}) /\ Keeps(warned, second.scope)
    BY <1>6, <1>7 DEF Becomes
  <2>2. \A i \in 1..n - 1 : open[i] = scopes[i] BY <1>6
  <2>3. Fits(scopes, n, second.scope, {})
    <3> HIDE DEF n
    <3> QED BY <1>1, <2>1, <2>2, FitsElsewhere
  <2>4. Keeps(Last(scopes), second.scope) BY <1>4, <2>1, KeepsTransitive DEF Becomes
  <2> QED BY <2>1, <2>3, <2>4 DEF Becomes
<1>9. /\ Becomes(scopes, scope, {}) /\ SameShape(Last(scopes), scope) /\ Keeps(warned, scope)
  <2>1. SameShape(Last(scopes), second.scope) BY <1>5, <1>7, SameShapeTransitive
  <2>2. Keeps(warned, second.scope) /\ Keeps(warned, warned) BY <1>6, <1>7, KeepsItself DEF Becomes
  <2> QED BY <1>4, <1>5, <1>8, <2>1, <2>2
<1> HIDE DEF scope
<1>10. ~was_variable => Id(x) \in DOMAIN scope.classified /\ is_function(scope.classified[Id(x)])
  BY <1>3, <1>4, <1>9 DEF Keeps, is_function
<1>11. Becomes(scopes, t, {}) /\ SameShape(Last(scopes), t)
  <2>1. ~was_variable => Becomes(scopes, Called(scope, Id(x)), {}) /\ SameShape(scope, Called(scope, Id(x)))
    BY <1>9, <1>10, MarkedCalled
  <2>2. ~was_variable => SameShape(Last(scopes), Called(scope, Id(x))) BY <1>9, <2>1, SameShapeTransitive
  <2> QED BY <1>9, <2>1, <2>2
<1> HIDE DEF t
<1> QED BY <1>1, <1>2, <1>11, FramesUnchanged

LEMMA FunctionReferenceStep ==
  ASSUME Inv, NEW x, FunctionReference(x)
  PROVE  Well(scopes', frames') /\ Stable(scopes, scopes')
<1> DEFINE n == Len(scopes)
           result == register_identifier_reference(scopes, Id(x))
           t == IF is_function(result.info) THEN Called(result.scope, Id(x)) ELSE Report(result.scope, Id(x))
<1>1. Well(scopes, frames) /\ Sound(scopes) /\ n >= 1 BY InvOpen
<1>2. scopes' = Replaced(scopes, n, t) /\ frames' = frames
  <2>1. Update(t) /\ frames' = frames
    <3> HIDE DEF result
    <3> QED BY DEF FunctionReference, Called, result
  <2> QED BY <2>1, UpdateIs
<1>3. /\ Becomes(scopes, result.scope, {}) /\ SameShape(Last(scopes), result.scope)
      /\ Id(x) \in DOMAIN result.scope.classified
      /\ is_function(result.info) => is_function(result.scope.classified[Id(x)])
  <2>1. result = register_identifier_reference(scopes, Id(x)) OBVIOUS
  <2> HIDE DEF result
  <2> QED BY <1>1, <2>1, ReferenceBecomes, ShapeReference
<1> HIDE DEF result
<1>4. Becomes(scopes, t, {}) /\ SameShape(result.scope, t)
  <2>1. DOMAIN result.scope = ScopeFields BY <1>3 DEF Becomes, Known
  <2>2. Becomes(scopes, Report(result.scope, Id(x)), {}) BY <1>3, ReportedBecomes
  <2>3. SameShape(result.scope, Report(result.scope, Id(x))) BY <2>1, ShapeRecorded DEF Report
  <2>4. is_function(result.info) =>
          Becomes(scopes, Called(result.scope, Id(x)), {}) /\ SameShape(result.scope, Called(result.scope, Id(x)))
    BY <1>3, MarkedCalled
  <2> QED BY <2>2, <2>3, <2>4
<1> HIDE DEF t
<1>5. SameShape(Last(scopes), t) BY <1>3, <1>4, SameShapeTransitive
<1> QED BY <1>1, <1>2, <1>4, <1>5, FramesUnchanged

LEMMA CurrentHolds ==
  ASSUME Inv
  PROVE  /\ Len(current.contexts) \in Nat \ {0} /\ Len(current.assignment_contexts) \in Nat
         /\ Holds(current, Len(scopes) - 1, Len(current.contexts), Len(current.assignment_contexts))
         /\ top.kind \in Joining => Len(current.assignment_contexts) /= 0
<1> DEFINE n == Len(scopes)
<1>1. /\ Well(scopes, frames) /\ n \in Nat /\ n >= 1 /\ current = scopes[n] /\ top = frames[Len(frames)]
      /\ Len(frames) \in Nat /\ Len(frames) >= 1 /\ n = Rank(frames, Len(frames)) /\ Fitting(scopes, frames, n)
  BY InvOpen, WellOpen DEF Well
<1> HIDE DEF n
<1>2. Holds(current, n - 1, 1 + Count(frames, n, Blocks), Count(frames, n, Joining)) BY <1>1 DEF Fitting
<1>3. /\ Len(current.contexts) = 1 + Count(frames, n, Blocks)
      /\ Len(current.assignment_contexts) = Count(frames, n, Joining)
  BY <1>2 DEF Holds
<1>4. \A kinds : IsFiniteSet(Owned(frames, n, kinds)) /\ Count(frames, n, kinds) \in Nat
  <2>1. IsFiniteSet(1..Len(frames)) BY <1>1, FS_Interval
  <2>2. \A kinds : IsFiniteSet(Owned(frames, n, kinds)) BY <2>1, FS_Subset DEF Owned
  <2> QED BY <2>2, FS_CardinalityType DEF Count
<1>5. ASSUME top.kind \in Joining PROVE Count(frames, n, Joining) /= 0
  <2>1. Len(frames) \in Owned(frames, n, Joining) BY <1>1, <1>5 DEF Owned
  <2> QED BY <2>1, <1>4, FS_EmptySet DEF Count
<1>6. Count(frames, n, Blocks) \in Nat /\ Count(frames, n, Joining) \in Nat BY <1>4
<1> HIDE DEF top, current
<1> QED BY <1>2, <1>3, <1>5, <1>6 DEF n

LEMMA AnonymousFunctionStep ==
  ASSUME Inv, NEW names \in SUBSET program.names, AnonymousFunction(names)
  PROVE  Well(scopes', frames') /\ Stable(scopes, scopes')
<1> DEFINE open == Append(scopes, NewScope(Len(scopes), {}, {}))
           entered == [open |-> open, errors |-> errors, made |-> variables]
           result == Parameters(entered, names)
           f == [kind |-> "anonymous"]
<1>1. Well(scopes, frames) /\ Sound(scopes) /\ Framable(frames) BY InvOpen
<1>2. scopes' = result.open /\ frames' = Longer(frames, f)
  <2> HIDE DEF result
  <2> QED BY DEF AnonymousFunction, Open, Longer, result
<1>3. IsFiniteSet(names)
  <2>1. IsFiniteSet(program.names) BY BoundsAssumption DEF WithinBounds, Inv
  <2> QED BY <2>1, FS_Subset
<1>4. Grown(scopes, result)
  <2>1. open = Append(scopes, NewScope(Len(scopes), {}, {})) OBVIOUS
  <2> HIDE DEF open
  <2>2. Grown(scopes, entered) BY <1>1, <2>1, OpenedGrown
  <2> HIDE DEF entered
  <2> QED BY <1>1, <1>3, <2>2, ParametersGrown
<1>5. "kind" \in DOMAIN f /\ f.kind = "anonymous" OBVIOUS
<1> HIDE DEF result, f
<1>6. Framable(frames') /\ Extends(frames, frames') /\ frames'[Len(frames')].kind = "anonymous"
  BY <1>1, <1>2, <1>5, FramesOpened
<1>7. /\ Sound(scopes') /\ IsList(scopes') /\ Len(scopes') = Len(scopes) + 1
      /\ \A i \in 1..Len(scopes) : scopes'[i] = scopes[i]
      /\ Holds(Last(scopes'), Len(scopes), 1 + (IF "anonymous" = "body" THEN 1 ELSE 0), 0)
  BY <1>2, <1>4 DEF Grown, Sound
<1> QED BY <1>1, <1>6, <1>7, EntersWell

LEMMA EndAnonymousFunctionStep ==
  ASSUME Inv, EndAnonymousFunction
  PROVE  Well(scopes', frames') /\ Stable(scopes, scopes')
<1>1. Well(scopes, frames) /\ Framable(frames) /\ top = frames[Len(frames)] BY InvOpen
<1>2. top.kind = "anonymous" /\ scopes' = Front(scopes) /\ frames' = Front(frames) BY DEF EndAnonymousFunction
<1>3. frames[Len(frames)].kind = "anonymous" BY <1>1, <1>2
<1>4. Framable(frames') /\ Extends(frames', frames) BY <1>1, <1>2, <1>3, FramesClosed
<1> QED BY <1>1, <1>2, <1>3, <1>4, LeavesWell

LEMMA EndFunctionDefStep ==
  ASSUME Inv, EndFunctionDef
  PROVE  Well(scopes', frames') /\ Stable(scopes, scopes')
<1>1. Well(scopes, frames) /\ Framable(frames) /\ top = frames[Len(frames)] BY InvOpen
<1>2. top.kind = "body" /\ scopes' = Front(scopes) /\ frames' = Front(frames) BY DEF EndFunctionDef
<1>3. frames[Len(frames)].kind = "body" BY <1>1, <1>2
<1>4. Framable(frames') /\ Extends(frames', frames) BY <1>1, <1>2, <1>3, FramesClosed
<1> QED BY <1>1, <1>2, <1>3, <1>4, LeavesWell

(* An assignment, and the report of it. *)
LEMMA AssignedHere ==
  ASSUME Inv, NEW x, NEW result, result = Assigned(scopes, variables, x, FALSE), NEW t,
         t = result.scope \/ t = Report(result.scope, Id(x)) \/ t = Nesting(result.scope)
  PROVE  Becomes(scopes, t, {}) /\ SameShape(Last(scopes), t)
<1> DEFINE s == result.scope
<1>1. Sound(scopes) /\ Len(scopes) >= 1 BY InvOpen
<1>2. Becomes(scopes, s, {}) /\ SameShape(Last(scopes), s) BY <1>1, AssignedBecomes, ShapeAssigned
<1> HIDE DEF s
<1>3. DOMAIN s = ScopeFields BY <1>2 DEF Becomes, Known
<1>4. Alike(s, Report(s, Id(x))) /\ SameShape(s, Report(s, Id(x)))
  <2>1. Alike(s, Report(s, Id(x))) BY <1>2, ReportedBecomes
  <2> QED BY <1>3, <2>1, ShapeRecorded DEF Report
<1>5. Alike(s, Nesting(s)) /\ SameShape(s, Nesting(s))
  <2> DEFINE e == s.flat /\ ~Enclosed
  <2>1. Nesting(s) = [s EXCEPT !.flat = e] BY <1>3 DEF Nesting, ScopeFields
  <2> HIDE DEF e
  <2>2. Alike(s, [s EXCEPT !.flat = e]) BY <1>3, AlikeRecorded
  <2>3. SameShape(s, [s EXCEPT !.flat = e]) BY <1>3, ShapeRecorded
  <2> QED BY <2>1, <2>2, <2>3
<1>6. Alike(s, s) /\ SameShape(s, s) BY <1>3, AlikeRecorded, ShapeRecorded
<1>7. Alike(s, t) /\ SameShape(s, t) BY <1>4, <1>5, <1>6 DEF s
<1> QED BY <1>2, <1>7, AlikeBecomes, SameShapeTransitive

LEMMA AssignStep ==
  ASSUME Inv, NEW x, NEW subscripted, Assign(x, subscripted)
  PROVE  Well(scopes', frames') /\ Stable(scopes, scopes')
<1> DEFINE result == Assigned(scopes, variables, x, FALSE)
           t == IF subscripted /\ result.was_initialization THEN Report(result.scope, Id(x)) ELSE result.scope
<1>1. Update(t) /\ frames' = frames
  <2> HIDE DEF result
  <2> QED BY DEF Assign, result
<1>2. result = Assigned(scopes, variables, x, FALSE) OBVIOUS
<1> HIDE DEF result
<1>3. Becomes(scopes, t, {}) /\ SameShape(Last(scopes), t) BY <1>2, AssignedHere
<1> HIDE DEF t
<1>4. scopes' = Replaced(scopes, Len(scopes), t) BY <1>1, UpdateIs
<1> QED BY <1>1, <1>3, <1>4, InvOpen, FramesUnchanged

LEMMA VariableDeclarationStep ==
  ASSUME Inv, NEW x, VariableDeclaration(x)
  PROVE  Well(scopes', frames') /\ Stable(scopes, scopes')
<1> DEFINE result == Assigned(scopes, variables, x, FALSE)
           t == result.scope
<1>1. Update(t) /\ frames' = frames
  <2> HIDE DEF result
  <2> QED BY DEF VariableDeclaration, result
<1>2. result = Assigned(scopes, variables, x, FALSE) OBVIOUS
<1> HIDE DEF result
<1>3. Becomes(scopes, t, {}) /\ SameShape(Last(scopes), t) BY <1>2, AssignedHere
<1> HIDE DEF t
<1>4. scopes' = Replaced(scopes, Len(scopes), t) BY <1>1, UpdateIs
<1> QED BY <1>1, <1>3, <1>4, InvOpen, FramesUnchanged

LEMMA OpenForStep ==
  ASSUME Inv, NEW x, OpenFor(x)
  PROVE  Well(scopes', frames') /\ Stable(scopes, scopes')
<1> DEFINE result == Assigned(scopes, variables, x, FALSE)
           t == Nesting(result.scope)
           f == [Branches("loop") EXCEPT !.before = result.scope.sure]
<1>1. Update(t) /\ frames' = Longer(frames, f)
  <2> HIDE DEF result
  <2> QED BY DEF OpenFor, Open, Longer, result
<1>2. result = Assigned(scopes, variables, x, FALSE) OBVIOUS
<1>3. "kind" \in DOMAIN f /\ f.kind = "loop" BY DEF Branches
<1> HIDE DEF result, f
<1>4. Becomes(scopes, t, {}) /\ SameShape(Last(scopes), t) BY <1>2, AssignedHere
<1> HIDE DEF t
<1>5. Well(scopes, frames) /\ Framable(frames) BY InvOpen
<1>6. Framable(frames') /\ Extends(frames, frames') /\ frames'[Len(frames')].kind = "loop"
  BY <1>1, <1>3, <1>5, FramesOpened
<1>7. scopes' = Replaced(scopes, Len(scopes), t) BY <1>1, UpdateIs
<1>8. Holds(t, Len(scopes) - 1, Len(Last(scopes).contexts), Len(Last(scopes).assignment_contexts))
  BY <1>4, CurrentHolds, ShapeHolds DEF current
<1>9. "loop" \notin Delimiting /\ "loop" \notin Blocks /\ "loop" \notin Joining
      /\ Len(Last(scopes).contexts) + 0 = Len(Last(scopes).contexts)
      /\ Len(Last(scopes).assignment_contexts) + 0 = Len(Last(scopes).assignment_contexts)
  BY CurrentHolds DEF Delimiting, Blocks, Joining, current
<1>10. Holds(t, Len(scopes) - 1, Len(Last(scopes).contexts) + (IF "loop" \in Blocks THEN 1 ELSE 0),
             Len(Last(scopes).assignment_contexts) + (IF "loop" \in Joining THEN 1 ELSE 0))
  BY <1>8, <1>9
<1> QED BY <1>4, <1>5, <1>6, <1>7, <1>9, <1>10, DeeperWell

LEMMA SuperclassMethodStep ==
  ASSUME Inv, NEW x, NEW kind, SuperclassMethod(x, kind)
  PROVE  Well(scopes', frames') /\ Stable(scopes, scopes')
<1>1. scopes' = scopes /\ frames' = frames BY DEF SuperclassMethod
<1>2. Well(scopes, frames) BY DEF Inv
<1>3. Stable(scopes, scopes) BY NothingChanged
<1> QED BY <1>1, <1>2, <1>3

(* A construct that does not change the scope. *)
LEMMA SameScope ==
  ASSUME Inv, scopes' = scopes, Framable(frames'), Len(frames') = Len(frames),
         \A k \in 1..Len(frames) : frames'[k].kind = frames[k].kind
  PROVE  Well(scopes', frames') /\ Stable(scopes, scopes')
<1>1. Well(scopes, frames) /\ Len(frames) \in Nat BY InvOpen
<1>2. \A i, kinds : /\ Rank(frames', Len(frames')) = Rank(frames, Len(frames))
                    /\ Count(frames', i, kinds) = Count(frames, i, kinds)
  BY <1>1, SameCounts
<1>3. Well(scopes, frames') BY <1>1, <1>2 DEF Well, Fitting
<1>4. Stable(scopes, scopes) BY NothingChanged
<1> QED BY <1>3, <1>4

LEMMA ConditionStep ==
  ASSUME Inv, Condition
  PROVE  Well(scopes', frames') /\ Stable(scopes, scopes')
<1> DEFINE n == Len(frames)
           f == [frames[n] EXCEPT !.condition = TRUE]
<1>1. Framable(frames) /\ n \in Nat /\ n >= 1 BY InvOpen
<1>2. scopes' = scopes /\ frames' = Replaced(frames, n, f) BY DEF Condition, Replaced
<1>3. "kind" \in DOMAIN f /\ f.kind = frames[n].kind BY <1>1 DEF Framable
<1> HIDE DEF f
<1>4. /\ Framable(frames') /\ Len(frames') = n
      /\ \A k \in 1..n : frames'[k].kind = frames[k].kind
  BY <1>1, <1>2, <1>3, FramesChanged
<1> QED BY <1>2, <1>4, SameScope

LEMMA CatchIdentifierStep ==
  ASSUME Inv, NEW x, CatchIdentifier(x)
  PROVE  Well(scopes', frames') /\ Stable(scopes, scopes')
<1> DEFINE result == Assigned(scopes, variables, x, FALSE)
           t == result.scope
           n == Len(frames)
           f == [frames[n] EXCEPT !.before = @ \cup {Id(x)}, !.named = @ \cup {Id(x)}]
<1>1. Framable(frames) /\ n \in Nat /\ n >= 1 /\ Well(scopes, frames) BY InvOpen
<1>2. Update(t) /\ frames' = Replaced(frames, n, f)
  <2> HIDE DEF result
  <2>1. frames' = [frames EXCEPT ![n].before = @ \cup {Id(x)}, ![n].named = @ \cup {Id(x)}]
        /\ Update(result.scope)
    BY DEF CatchIdentifier, result
  <2> QED BY <2>1 DEF Replaced
<1>3. result = Assigned(scopes, variables, x, FALSE) OBVIOUS
<1> HIDE DEF result
<1>4. Becomes(scopes, t, {}) /\ SameShape(Last(scopes), t) BY <1>3, AssignedHere
<1>5. "kind" \in DOMAIN f /\ f.kind = frames[n].kind BY <1>1 DEF Framable
<1> HIDE DEF t, f
<1>6. /\ Framable(frames') /\ Len(frames') = n
      /\ \A k \in 1..n : frames'[k].kind = frames[k].kind
  BY <1>1, <1>2, <1>5, FramesChanged
<1>7. scopes' = Replaced(scopes, Len(scopes), t) BY <1>2, UpdateIs
<1> QED BY <1>1, <1>4, <1>6, <1>7, StaysWell

(* What is recorded of a scope leaves its contexts. *)
LEMMA Certain ==
  ASSUME NEW open, NEW s, Becomes(open, s, {}), NEW depth, NEW contexts, NEW branches,
         Holds(s, depth, contexts, branches), NEW e, NEW t, t = [s EXCEPT !.sure = e]
  PROVE  Becomes(open, t, {}) /\ Holds(t, depth, contexts, branches)
<1>1. DOMAIN s = ScopeFields BY DEF Becomes, Known
<1>2. Alike(s, t) BY <1>1, AlikeRecorded
<1>3. SameShape(s, [s EXCEPT !.sure = e]) BY <1>1, ShapeRecorded
<1>4. SameShape(s, t) BY <1>3
<1> HIDE DEF Alike
<1> QED BY <1>2, <1>4, AlikeBecomes, ShapeHolds

LEMMA NestingBecomes ==
  ASSUME NEW s, Becomes(scopes, s, {}), NEW depth, NEW contexts, NEW branches,
         Holds(s, depth, contexts, branches)
  PROVE  Becomes(scopes, Nesting(s), {}) /\ Holds(Nesting(s), depth, contexts, branches)
<1> DEFINE e == s.flat /\ ~Enclosed
<1>1. DOMAIN s = ScopeFields BY DEF Becomes, Known
<1>2. Nesting(s) = [s EXCEPT !.flat = e] BY <1>1 DEF Nesting, ScopeFields
<1> HIDE DEF e
<1>3. Alike(s, [s EXCEPT !.flat = e]) BY <1>1, AlikeRecorded
<1>4. SameShape(s, [s EXCEPT !.flat = e]) BY <1>1, ShapeRecorded
<1>5. Alike(s, Nesting(s)) /\ SameShape(s, Nesting(s)) BY <1>2, <1>3, <1>4
<1> QED BY <1>5, AlikeBecomes, ShapeHolds

LEMMA OpenBranchesStep ==
  ASSUME Inv, NEW kind \in Branching, OpenBranches(kind)
  PROVE  Well(scopes', frames') /\ Stable(scopes, scopes')
<1> DEFINE s == current
           contexts == Len(s.contexts)
           branches == Len(s.assignment_contexts)
           u == IF kind = "loop" THEN s ELSE push_variable_assignment_context(s)
           f == Branches(kind)
           joins == IF kind \in Joining THEN 1 ELSE 0
<1>1. /\ Well(scopes, frames) /\ Framable(frames) /\ s = Last(scopes) /\ Len(scopes) \in Nat
      /\ Becomes(scopes, s, {}) /\ DOMAIN s = ScopeFields
  BY InvOpen
<1>2. contexts \in Nat \ {0} /\ branches \in Nat /\ Holds(s, Len(scopes) - 1, contexts, branches)
  BY CurrentHolds
<1>3. /\ kind \notin Delimiting /\ kind \notin Blocks /\ (kind \in Joining <=> kind /= "loop")
      /\ kind /= "root"
  BY DEF Branching, Delimiting, Blocks, Joining
<1>4. Update(Nesting(u)) /\ frames' = Longer(frames, f)
  <2> HIDE DEF s, f
  <2> QED BY DEF OpenBranches, Open, Longer, f, s
<1>5. "kind" \in DOMAIN f /\ f.kind = kind BY DEF Branches
<1> HIDE DEF s, f, contexts, branches
<1>6. Becomes(scopes, u, {}) /\ Holds(u, Len(scopes) - 1, contexts, branches + joins)
  <2>1. CASE kind = "loop"
    <3>1. branches + joins = branches BY <1>2, <1>3, <2>1
    <3> QED BY <3>1, <1>1, <1>2, <2>1
  <2>2. CASE kind /= "loop"
    <3>1. branches + joins = branches + 1 BY <1>3, <2>2
    <3>2. Holds(push_variable_assignment_context(s), Len(scopes) - 1, contexts, branches + 1)
      BY <1>1, <1>2, BranchingHolds
    <3>3. Becomes(scopes, push_variable_assignment_context(s), {}) BY <1>1, AlikeBranching, AlikeBecomes
    <3> QED BY <3>1, <3>2, <3>3, <2>2
  <2> QED BY <2>1, <2>2
<1> HIDE DEF u
<1>7. /\ Becomes(scopes, Nesting(u), {})
      /\ Holds(Nesting(u), Len(scopes) - 1, contexts, branches + joins)
  BY <1>6, NestingBecomes
<1> DEFINE t == Nesting(u)
<1>8. scopes' = Replaced(scopes, Len(scopes), t) BY <1>4, UpdateIs
<1> HIDE DEF t
<1>9. Framable(frames') /\ Extends(frames, frames') /\ frames'[Len(frames')].kind = kind
  BY <1>1, <1>3, <1>4, <1>5, FramesOpened
<1>10. Holds(t, Len(scopes) - 1,
             Len(Last(scopes).contexts) + (IF kind \in Blocks THEN 1 ELSE 0),
             Len(Last(scopes).assignment_contexts) + (IF kind \in Joining THEN 1 ELSE 0))
  <2>1. contexts + (IF kind \in Blocks THEN 1 ELSE 0) = contexts BY <1>2, <1>3
  <2> QED BY <2>1, <1>1, <1>7 DEF t, contexts, branches
<1>11. Becomes(scopes, t, {}) BY <1>7 DEF t
<1> HIDE DEF joins
<1> QED BY <1>1, <1>3, <1>8, <1>9, <1>10, <1>11, DeeperWell

LEMMA OpenBlockStep ==
  ASSUME Inv, NEW last, OpenBlock(last)
  PROVE  Well(scopes', frames') /\ Stable(scopes, scopes')
<1> DEFINE n == Len(frames)
           f == [frames[n] EXCEPT !.last = last, !.condition = FALSE, !.blocks = @ + 1]
           fs == Replaced(frames, n, f)
           b == Block("block", {})
           s == current
           t == push_context(s)
           contexts == Len(s.contexts)
           branches == Len(s.assignment_contexts)
<1>1. /\ Well(scopes, frames) /\ Framable(frames) /\ n \in Nat /\ n >= 1 /\ s = Last(scopes)
      /\ Becomes(scopes, s, {}) /\ DOMAIN s = ScopeFields
  BY InvOpen
<1>2. contexts \in Nat \ {0} /\ branches \in Nat /\ Holds(s, Len(scopes) - 1, contexts, branches)
  BY CurrentHolds
<1>3. Update(t) /\ frames' = Longer(fs, b)
  <2>1. frames' = Append([frames EXCEPT ![n].last = last, ![n].condition = FALSE, ![n].blocks = @ + 1], b)
        /\ Update(t)
    <3> HIDE DEF t, b
    <3> QED BY DEF OpenBlock, t, b
  <2>2. [frames EXCEPT ![n].last = last, ![n].condition = FALSE, ![n].blocks = @ + 1] = fs BY DEF Replaced
  <2> HIDE DEF fs, t, b
  <2> QED BY <2>1, <2>2 DEF Longer
<1>4. /\ "kind" \in DOMAIN f /\ f.kind = frames[n].kind
  BY <1>1 DEF Framable
<1>5. "kind" \in DOMAIN b /\ b.kind = "block" BY DEF Block
<1>6. fs = Replaced(frames, n, f) OBVIOUS
<1> HIDE DEF f, fs, b, s, contexts, branches
<1>7. Framable(fs) /\ Len(fs) = n /\ \A k \in 1..n : fs[k].kind = frames[k].kind
  BY <1>1, <1>4, <1>6, FramesChanged
<1>8. /\ Framable(frames') /\ Extends(fs, frames') /\ frames'[Len(frames')].kind = "block"
  BY <1>3, <1>5, <1>7, FramesOpened
<1>9. Extends(frames, frames') BY <1>7, <1>8 DEF Extends
<1>10. Becomes(scopes, t, {}) /\ Holds(t, Len(scopes) - 1, contexts + 1, branches)
  <2>1. Alike(s, t) BY <1>1, AlikePushed
  <2>2. Holds(t, Len(scopes) - 1, contexts + 1, branches) BY <1>1, <1>2, PushedHolds
  <2> HIDE DEF t
  <2> QED BY <1>1, <2>1, <2>2, AlikeBecomes
<1>11. "block" \notin Delimiting /\ "block" \in Blocks /\ "block" \notin Joining
  BY DEF Delimiting, Blocks, Joining
<1> DEFINE kind == frames'[Len(frames')].kind
<1>12. Holds(t, Len(scopes) - 1,
             Len(Last(scopes).contexts) + (IF kind \in Blocks THEN 1 ELSE 0),
             Len(Last(scopes).assignment_contexts) + (IF kind \in Joining THEN 1 ELSE 0))
  <2>1. kind \in Blocks /\ kind \notin Joining BY <1>8, <1>11
  <2>2. contexts + (IF kind \in Blocks THEN 1 ELSE 0) = contexts + 1 BY <2>1
  <2>3. branches + (IF kind \in Joining THEN 1 ELSE 0) = branches BY <2>1, <1>2
  <2> HIDE DEF kind, t
  <2> QED BY <2>2, <2>3, <1>1, <1>10 DEF contexts, branches
<1>13. kind \notin Delimiting BY <1>8, <1>11
<1>14. scopes' = Replaced(scopes, Len(scopes), t) BY <1>3, UpdateIs
<1> HIDE DEF kind, t
<1> QED BY <1>1, <1>8, <1>9, <1>10, <1>12, <1>13, <1>14, DeeperWell DEF kind

LEMMA CloseBlockStep ==
  ASSUME Inv, CloseBlock
  PROVE  Well(scopes', frames') /\ Stable(scopes, scopes')
<1> DEFINE n == Len(frames)
           fs == Front(frames)
           f == [frames[n - 1] EXCEPT !.ends = IF frames[n - 1].blocks = 1 THEN current.sure ELSE @ \cap current.sure]
           s == current
           u == pop_context(s)
           t == [u EXCEPT !.sure = frames[n - 1].before]
           contexts == Len(s.contexts)
           branches == Len(s.assignment_contexts)
<1>1. /\ Well(scopes, frames) /\ Framable(frames) /\ n \in Nat /\ n >= 1 /\ s = Last(scopes)
      /\ Becomes(scopes, s, {}) /\ DOMAIN s = ScopeFields /\ top = frames[n]
  BY InvOpen
<1>2. contexts \in Nat \ {0} /\ branches \in Nat /\ Holds(s, Len(scopes) - 1, contexts, branches)
  BY CurrentHolds
<1>3. top.kind = "block" BY DEF CloseBlock
<1>4. /\ Framable(fs) /\ Extends(fs, frames) /\ Len(fs) = n - 1
      /\ n - 1 >= 1 /\ fs[n - 1] = frames[n - 1]
  <2>1. frames[n].kind /= "root" BY <1>1, <1>3
  <2>2. n /= 1 BY <1>1, <2>1 DEF Framable
  <2>3. Framable(fs) /\ Extends(fs, frames) BY <1>1, <2>1, FramesClosed
  <2>4. Len(fs) = n - 1 /\ \A i \in 1..n - 1 : fs[i] = frames[i] BY <1>1, ListFront DEF Framable
  <2> HIDE DEF fs, n
  <2> QED BY <1>1, <2>2, <2>3, <2>4
<1>5. Update(t) /\ frames' = Replaced(fs, n - 1, f)
  <2>1. /\ frames' = [fs EXCEPT ![n - 1].ends = IF frames[n - 1].blocks = 1 THEN current.sure ELSE @ \cap current.sure]
        /\ Update(t)
    <3> HIDE DEF fs, s
    <3> QED BY DEF CloseBlock, fs, s
  <2>2. [fs EXCEPT ![n - 1].ends = IF frames[n - 1].blocks = 1 THEN current.sure ELSE @ \cap current.sure]
          = Replaced(fs, n - 1, f)
    <3> HIDE DEF fs, n
    <3> QED BY <1>4 DEF Replaced
  <2> HIDE DEF fs, t, f
  <2> QED BY <2>1, <2>2
<1>6. "kind" \in DOMAIN f /\ f.kind = fs[n - 1].kind
  <2>1. "kind" \in DOMAIN frames[n - 1] BY <1>1, <1>4 DEF Framable
  <2>2. f.kind = frames[n - 1].kind BY <2>1
  <2> HIDE DEF fs
  <2> QED BY <2>1, <2>2, <1>4
<1> HIDE DEF f, fs, s, contexts, branches
<1>7. /\ Framable(frames') /\ Len(frames') = n - 1
      /\ \A k \in 1..n - 1 : frames'[k].kind = fs[k].kind
  <2>1. n - 1 \in 1..Len(fs) BY <1>1, <1>4
  <2> QED BY <2>1, <1>4, <1>5, <1>6, FramesChanged
<1>8. Extends(frames', frames) BY <1>4, <1>7 DEF Extends
<1>9. Becomes(scopes, u, {}) /\ Holds(u, Len(scopes) - 1, contexts - 1, branches)
  <2>1. Alike(s, u) BY <1>1, AlikePopped
  <2>2. Holds(u, Len(scopes) - 1, contexts - 1, branches) BY <1>1, <1>2, PoppedHolds
  <2> HIDE DEF u
  <2> QED BY <1>1, <2>1, <2>2, AlikeBecomes
<1> HIDE DEF u
<1>10. Becomes(scopes, t, {}) /\ Holds(t, Len(scopes) - 1, contexts - 1, branches) BY <1>9, Certain
<1> DEFINE kind == frames[n].kind
<1>11. kind \notin Delimiting /\ kind \in Blocks /\ kind \notin Joining
  BY <1>1, <1>3 DEF Delimiting, Blocks, Joining
<1> HIDE DEF kind, t
<1>12. Holds(t, Len(scopes) - 1,
             Len(Last(scopes).contexts) - (IF kind \in Blocks THEN 1 ELSE 0),
             Len(Last(scopes).assignment_contexts) - (IF kind \in Joining THEN 1 ELSE 0))
  <2>1. contexts - (IF kind \in Blocks THEN 1 ELSE 0) = contexts - 1 BY <1>11
  <2>2. branches - (IF kind \in Joining THEN 1 ELSE 0) = branches BY <1>2, <1>11
  <2> QED BY <2>1, <2>2, <1>1, <1>10 DEF contexts, branches
<1>13. scopes' = Replaced(scopes, Len(scopes), t) BY <1>5, UpdateIs
<1> QED BY <1>1, <1>7, <1>8, <1>10, <1>11, <1>12, <1>13, ShallowerWell DEF kind

LEMMA CloseBranchesStep ==
  ASSUME Inv, CloseBranches
  PROVE  Well(scopes', frames') /\ Stable(scopes, scopes')
<1> DEFINE n == Len(frames)
           s == current
           u == AfterBranches(s)
           e == top.before \cup top.named \cup IF top.last /\ top.kind /= "loop" THEN top.ends ELSE {}
           t == [u EXCEPT !.sure = e]
           contexts == Len(s.contexts)
           branches == Len(s.assignment_contexts)
           joins == IF top.kind \in Joining THEN 1 ELSE 0
<1>1. /\ Well(scopes, frames) /\ Framable(frames) /\ n \in Nat /\ n >= 1 /\ s = Last(scopes)
      /\ Becomes(scopes, s, {}) /\ DOMAIN s = ScopeFields /\ top = frames[n] /\ Known(s)
  BY InvOpen DEF Becomes
<1>2. /\ contexts \in Nat \ {0} /\ branches \in Nat /\ Holds(s, Len(scopes) - 1, contexts, branches)
      /\ top.kind \in Joining => branches /= 0
  BY CurrentHolds
<1>3. top.kind \in Branching /\ Update(t) /\ frames' = Front(frames)
  <2> HIDE DEF s, u, e
  <2> QED BY DEF CloseBranches, s, u, e
<1>4. /\ top.kind \notin Delimiting /\ top.kind \notin Blocks /\ (top.kind \in Joining <=> top.kind /= "loop")
      /\ top.kind /= "root"
  BY <1>3 DEF Branching, Delimiting, Blocks, Joining
<1> HIDE DEF s, e, contexts, branches
<1>5. Becomes(scopes, u, {}) /\ Holds(u, Len(scopes) - 1, contexts, branches - joins)
  <2>1. CASE top.kind = "loop"
    <3>1. u = s /\ branches - joins = branches BY <2>1, <1>2, <1>4 DEF AfterBranches
    <3> QED BY <3>1, <1>1, <1>2
  <2>2. CASE top.kind /= "loop"
    <3>1. branches \in Nat \ {0} /\ branches - joins = branches - 1 BY <2>2, <1>2, <1>4
    <3> DEFINE p == push_context(s)
               q == pop_context(p)
               v == IF top.last THEN s ELSE q
    <3>2. u = pop_variable_assignment_context(v) BY <2>2 DEF AfterBranches
    <3>3. Alike(s, p) /\ Holds(p, Len(scopes) - 1, contexts + 1, branches) /\ DOMAIN p = ScopeFields
      BY <1>1, <1>2, AlikePushed, PushedHolds DEF Alike
    <3> HIDE DEF p
    <3>4. Alike(p, q) BY <3>3, AlikePopped
    <3>5. Holds(q, Len(scopes) - 1, contexts, branches)
      <4> DEFINE deeper == contexts + 1
      <4>1. deeper \in Nat \ {0} /\ deeper - 1 = contexts BY <1>2
      <4>2. Holds(p, Len(scopes) - 1, deeper, branches) BY <3>3
      <4> HIDE DEF deeper
      <4>3. Holds(pop_context(p), Len(scopes) - 1, deeper - 1, branches) BY <3>3, <4>1, <4>2, PoppedHolds
      <4> QED BY <4>1, <4>3
    <3> HIDE DEF q
    <3>6. Becomes(scopes, q, {}) BY <1>1, <3>3, <3>4, AlikeTransitive, AlikeBecomes
    <3>7. Becomes(scopes, v, {}) /\ Holds(v, Len(scopes) - 1, contexts, branches)
      BY <1>1, <1>2, <3>5, <3>6
    <3> HIDE DEF v, u
    <3>8. Known(v) /\ DOMAIN v = ScopeFields BY <3>7 DEF Becomes, Known
    <3>9. Alike(v, u) BY <3>2, <3>8, AlikeJoined
    <3>10. Holds(u, Len(scopes) - 1, contexts, branches - 1) BY <3>1, <3>2, <3>7, <3>8, JoinedHolds
    <3> QED BY <3>1, <3>7, <3>9, <3>10, AlikeBecomes
  <2> QED BY <2>1, <2>2
<1> HIDE DEF u
<1>6. Becomes(scopes, t, {}) /\ Holds(t, Len(scopes) - 1, contexts, branches - joins) BY <1>5, Certain
<1> HIDE DEF t
<1>7. Framable(frames') /\ Extends(frames', frames)
  <2>1. frames[Len(frames)].kind /= "root" BY <1>1, <1>4
  <2> QED BY <2>1, <1>1, <1>3, FramesClosed
<1> DEFINE kind == frames[n].kind
<1>8. kind = top.kind BY <1>1
<1> HIDE DEF kind
<1>9. Holds(t, Len(scopes) - 1,
             Len(Last(scopes).contexts) - (IF kind \in Blocks THEN 1 ELSE 0),
             Len(Last(scopes).assignment_contexts) - (IF kind \in Joining THEN 1 ELSE 0))
  <2>1. contexts - (IF kind \in Blocks THEN 1 ELSE 0) = contexts BY <1>2, <1>4, <1>8
  <2> QED BY <2>1, <1>1, <1>6, <1>8 DEF contexts, branches
<1>10. scopes' = Replaced(scopes, Len(scopes), t) BY <1>3, UpdateIs
<1>11. kind \notin Delimiting BY <1>4, <1>8
<1> QED BY <1>1, <1>6, <1>7, <1>9, <1>10, <1>11, ShallowerWell DEF kind

(* The scope of a function is made out of one that has its parameters. *)
LEMMA FunctionOpened ==
  ASSUME Inv, NEW result, Grown(scopes, result), NEW p, p = push_context(Last(result.open)),
         NEW next, next = Longer(scopes, p)
  PROVE  /\ Sound(next) /\ IsList(next) /\ Len(next) = Len(scopes) + 1
         /\ \A i \in 1..Len(scopes) : next[i] = scopes[i]
         /\ Holds(Last(next), Len(scopes), 2, 0)
<1> DEFINE n == Len(scopes)
           open == result.open
           s == Last(open)
<1>1. Sound(scopes) /\ n \in Nat BY InvOpen
<1>2. /\ Sound(open) /\ Len(open) = n + 1 /\ \A i \in 1..n : open[i] = scopes[i]
      /\ Holds(s, n, 1, 0)
  BY DEF Grown
<1>3. s = open[n + 1] BY <1>2 DEF Last
<1>4. Known(s) /\ Fits(open, n + 1, s, {})
  <2>1. n + 1 \in 1..Len(open) BY <1>1, <1>2
  <2> HIDE DEF n, open, s
  <2> QED BY <1>2, <1>3, <2>1 DEF Sound
<1> HIDE DEF s, open, n
<1>5. DOMAIN s = ScopeFields BY <1>4 DEF Known
<1>6. p = push_context(s) BY DEF s, open
<1>7. Alike(s, p) BY <1>5, <1>6, AlikePushed
<1>8. Holds(p, n, 2, 0)
  <2>1. Holds(push_context(s), n, 1 + 1, 0) BY <1>2, <1>5, PushedHolds
  <2> QED BY <2>1, <1>6
<1>9. Known(p) /\ Fits(open, n + 1, p, {}) BY <1>4, <1>7, AlikeKnown, AlikeFits
<1>10. Fits(scopes, n + 1, p, {})
  <2> DEFINE within == n + 1
  <2>1. within \in Nat \ {0} /\ \A j \in 1..within - 1 : open[j] = scopes[j] BY <1>1, <1>2
  <2>2. Fits(open, within, p, {}) BY <1>9
  <2> HIDE DEF within
  <2>3. Fits(scopes, within, p, {}) BY <2>1, <2>2, FitsElsewhere
  <2> QED BY <2>3 DEF within
<1>11. Sound(next) /\ Len(next) = n + 1 /\ Last(next) = p /\ \A i \in 1..n : next[i] = scopes[i]
  BY <1>1, <1>9, <1>10, OpenSound DEF n
<1> QED BY <1>8, <1>11 DEF n, Sound

LEMMA FunctionDefStep ==
  ASSUME Inv, NEW f, NEW signature \in program.signatures, FunctionDef(f, signature)
  PROVE  Well(scopes', frames') /\ Stable(scopes, scopes')
<1> DEFINE n == Len(frames)
           entered == Entered(scopes, errors, variables, signature.functions, signature.imports)
           result == Parameters(entered, signature.parameters)
           p == push_context(Last(result.open))
           d == [frames[n] EXCEPT !.pending = @ \ {f}, !.defining = TRUE]
           fs == Replaced(frames, n, d)
           b == Block("body", signature.functions)
<1>1. /\ Well(scopes, frames) /\ Framable(frames) /\ n \in Nat /\ n >= 1 /\ Sound(scopes)
  BY InvOpen
<1>2. IsFiniteSet(signature.imports) /\ IsFiniteSet(signature.parameters)
  <2>1. IsFiniteSet(program.names) BY BoundsAssumption DEF WithinBounds, Inv
  <2>2. UNION {signature.functions, signature.imports, signature.parameters} \subseteq program.names
    BY BoundsAssumption DEF WithinBounds, Inv
  <2>3. signature.imports \subseteq program.names /\ signature.parameters \subseteq program.names BY <2>2
  <2> QED BY <2>1, <2>3, FS_Subset
<1>3. Grown(scopes, result)
  <2>1. Grown(scopes, entered) BY <1>1, <1>2, EnteredGrown
  <2> HIDE DEF entered
  <2> QED BY <1>1, <1>2, <2>1, ParametersGrown
<1>4. scopes' = Longer(scopes, p) /\ frames' = Longer(fs, b)
  <2>1. /\ scopes' = Append(scopes, push_context(Last(result.open)))
        /\ frames' = Append([frames EXCEPT ![n].pending = @ \ {f}, ![n].defining = TRUE], b)
    <3> HIDE DEF entered, b
    <3>1. result = Parameters(entered, signature.parameters) OBVIOUS
    <3> HIDE DEF result
    <3> QED BY <3>1 DEF FunctionDef, entered, b
  <2>2. [frames EXCEPT ![n].pending = @ \ {f}, ![n].defining = TRUE] = fs BY DEF Replaced
  <2> HIDE DEF result, fs, b
  <2> QED BY <2>1, <2>2 DEF Longer
<1>5. "kind" \in DOMAIN d /\ d.kind = frames[n].kind BY <1>1 DEF Framable
<1>6. "kind" \in DOMAIN b /\ b.kind = "body" BY DEF Block
<1>7. fs = Replaced(frames, n, d) /\ p = push_context(Last(result.open)) OBVIOUS
<1> HIDE DEF d, fs, b, entered, result, p
<1>8. Framable(fs) /\ Len(fs) = n /\ \A k \in 1..n : fs[k].kind = frames[k].kind
  BY <1>1, <1>5, <1>7, FramesChanged
<1>9. Framable(frames') /\ Extends(fs, frames') /\ frames'[Len(frames')].kind = "body"
  BY <1>4, <1>6, <1>8, FramesOpened
<1>10. Extends(frames, frames') BY <1>8, <1>9 DEF Extends
<1>11. /\ Sound(scopes') /\ IsList(scopes') /\ Len(scopes') = Len(scopes) + 1
       /\ \A i \in 1..Len(scopes) : scopes'[i] = scopes[i]
       /\ Holds(Last(scopes'), Len(scopes), 2, 0)
  BY <1>3, <1>4, <1>7, FunctionOpened
<1>12. Holds(Last(scopes'), Len(scopes), 1 + (IF "body" = "body" THEN 1 ELSE 0), 0) BY <1>11
<1> QED BY <1>1, <1>9, <1>10, <1>11, <1>12, EntersWell

(* The file and its local functions. *)
LEMMA Initially ==
  ASSUME Init
  PROVE  Inv
<1>1. PICK bound \in Bounds :
        LET entered == Entered(<< >>, {}, 0, bound.functions, bound.imports)
        IN  program = bound /\ scopes = entered.open /\ frames = <<Block("root", bound.functions)>>
  BY DEF Init
<1> DEFINE entered == Entered(<< >>, {}, 0, bound.functions, bound.imports)
           b == Block("root", bound.functions)
<1>2. program = bound /\ scopes = entered.open /\ frames = <<b>> BY <1>1
<1>3. Sound(<< >>)
  <2>1. << >> \in Seq({}) /\ Len(<< >>) = 0 BY EmptySeq
  <2>2. IsList(<< >>) BY <2>1, ListOf
  <2> QED BY <2>1, <2>2 DEF Sound
<1>4. IsFiniteSet(bound.imports)
  <2>1. IsFiniteSet(bound.names) /\ bound.imports \subseteq bound.names BY BoundsAssumption DEF WithinBounds
  <2> QED BY <2>1, FS_Subset
<1>5. Grown(<< >>, entered) BY <1>3, <1>4, EnteredGrown
<1>6. b.kind = "root" /\ "kind" \in DOMAIN b BY DEF Block
<1> HIDE DEF entered, b
<1>7. Sound(scopes) /\ Len(scopes) = 1 /\ Holds(scopes[1], 0, 1, 0)
  <2>1. Len(<< >>) = 0 /\ Last(scopes) = scopes[Len(scopes)] BY DEF Last
  <2> QED BY <1>2, <1>5, <2>1 DEF Grown
<1>8. Framable(frames) /\ Len(frames) = 1 /\ frames[1].kind = "root"
  <2>1. frames \in Seq({b}) /\ Len(frames) = 1 /\ frames[1] = b BY <1>2
  <2>2. IsList(frames) BY <2>1, ListOf
  <2> QED BY <1>6, <2>1, <2>2 DEF Framable
<1>9. Rank(frames, 1) = 1
  <2>1. Rank(frames, 0) = 0
    <3>1. Delimiters(frames, 0) = {} BY DEF Delimiters
    <3> QED BY <3>1, FS_EmptySet DEF Rank
  <2>2. Rank(frames, 0 + 1) = Rank(frames, 0) + IF frames[0 + 1].kind \in Delimiting THEN 1 ELSE 0 BY RankStep
  <2> QED BY <2>1, <2>2, <1>8 DEF Delimiting
<1>10. Count(frames, 1, Blocks) = 0 /\ Count(frames, 1, Joining) = 0
  <2>1. Owned(frames, 1, Blocks) = {} /\ Owned(frames, 1, Joining) = {}
    BY <1>8 DEF Owned, Blocks, Joining
  <2> QED BY <2>1, FS_EmptySet DEF Count
<1>11. Fitting(scopes, frames, 1) BY <1>7, <1>10 DEF Fitting
<1>12. Well(scopes, frames)
  <2>1. \A i \in 1..Len(scopes) : i = 1 BY <1>7
  <2> QED BY <2>1, <1>7, <1>8, <1>9, <1>11 DEF Well
<1> QED BY <1>2, <1>12 DEF Inv

LEMMA Stepwise ==
  ASSUME Inv, Next
  PROVE  Well(scopes', frames') /\ Stable(scopes, scopes') /\ program' = program
<1>1. program' = program
  BY DEF Next, Reference, FunctionReference, SuperclassMethod, AnonymousFunction, EndAnonymousFunction, Assign,
         VariableDeclaration, OpenBranches, OpenFor, CatchIdentifier, Condition, OpenBlock, CloseBlock,
         CloseBranches, FunctionDef, EndFunctionDef, Visit, Unvisited
<1>2. Well(scopes', frames') /\ Stable(scopes, scopes')
  <2>1. ASSUME NEW x, NEW kind, Reference(x, kind) PROVE Well(scopes', frames') /\ Stable(scopes, scopes')
    BY <2>1, ReferenceStep
  <2>2. ASSUME NEW x, FunctionReference(x) PROVE Well(scopes', frames') /\ Stable(scopes, scopes')
    BY <2>2, FunctionReferenceStep
  <2>3. ASSUME NEW x, NEW kind, SuperclassMethod(x, kind) PROVE Well(scopes', frames') /\ Stable(scopes, scopes')
    BY <2>3, SuperclassMethodStep
  <2>4. ASSUME NEW names \in SUBSET program.names, AnonymousFunction(names)
        PROVE  Well(scopes', frames') /\ Stable(scopes, scopes')
    BY <2>4, AnonymousFunctionStep
  <2>5. ASSUME NEW x, NEW subscripted, Assign(x, subscripted)
        PROVE  Well(scopes', frames') /\ Stable(scopes, scopes')
    BY <2>5, AssignStep
  <2>6. ASSUME NEW x, VariableDeclaration(x) PROVE Well(scopes', frames') /\ Stable(scopes, scopes')
    BY <2>6, VariableDeclarationStep
  <2>7. ASSUME NEW kind \in Branching, OpenBranches(kind) PROVE Well(scopes', frames') /\ Stable(scopes, scopes')
    BY <2>7, OpenBranchesStep
  <2>8. ASSUME NEW x, OpenFor(x) PROVE Well(scopes', frames') /\ Stable(scopes, scopes')
    BY <2>8, OpenForStep
  <2>9. ASSUME NEW x, CatchIdentifier(x) PROVE Well(scopes', frames') /\ Stable(scopes, scopes')
    BY <2>9, CatchIdentifierStep
  <2>10. ASSUME NEW last, OpenBlock(last) PROVE Well(scopes', frames') /\ Stable(scopes, scopes')
    BY <2>10, OpenBlockStep
  <2>11. ASSUME NEW f, NEW signature \in program.signatures, FunctionDef(f, signature)
         PROVE  Well(scopes', frames') /\ Stable(scopes, scopes')
    BY <2>11, FunctionDefStep
  <2> QED BY <2>1, <2>2, <2>3, <2>4, <2>5, <2>6, <2>7, <2>8, <2>9, <2>10, <2>11, ConditionStep, CloseBlockStep,
             CloseBranchesStep, EndAnonymousFunctionStep, EndFunctionDefStep DEF Next
<1> QED BY <1>1, <1>2

(* The invariant. *)
LEMMA Preserved ==
  ASSUME Inv, [Next]_vars
  PROVE  Inv'
<1>1. CASE Next BY <1>1, Stepwise DEF Inv
<1>2. CASE UNCHANGED vars
  <2>1. scopes' = scopes /\ frames' = frames /\ program' = program BY <1>2 DEF vars
  <2>2. Well(scopes', frames') <=> Well(scopes, frames) BY <2>1
  <2> QED BY <2>1, <2>2 DEF Inv
<1> QED BY <1>1, <1>2

LEMMA AlwaysInv == Spec => []Inv
<1>1. Init => Inv BY Initially
<1>2. Inv /\ [Next]_vars => Inv' BY Preserved
<1> QED BY <1>1, <1>2, PTL DEF Spec

------------------------------------------------------------------------------
(* What follows from the invariant. *)

(* An identifier that a scope assigns to and calls is reported, however far     *)
(* apart the two are and whatever is between them                                *)
(* (register_variable_assignment, function_reference_expr).                     *)
THEOREM UsesAreConsistent == Spec => []ConsistentUse
<1>1. Inv => ConsistentUse
  <2> SUFFICES ASSUME Inv, NEW i \in DOMAIN scopes
               PROVE  scopes[i].assigned \cap scopes[i].called \subseteq scopes[i].reported
    BY DEF ConsistentUse
  <2>1. Known(scopes[i])
    <3>1. Well(scopes, frames) BY InvOpen
    <3>2. i \in 1..Len(scopes) BY <3>1, WellOpen
    <3> QED BY <3>1, <3>2 DEF Well, Sound
  <2>2. ASSUME NEW id \in scopes[i].assigned \cap scopes[i].called PROVE id \in scopes[i].reported
    <3>1. IsInfo(scopes[i].classified[id]) /\ is_function(scopes[i].classified[id]) BY <2>1 DEF Known
    <3>2. is_variable(scopes[i].classified[id]) \/ id \in scopes[i].reported BY <2>1 DEF Known
    <3> QED BY <3>1, <3>2, KindOfInfo
  <2> QED BY <2>2
<1> QED BY <1>1, AlwaysInv, PTL

(* What an identifier is in a scope is settled by its first use: no step        *)
(* changes its kind or its definition while the scope is open                    *)
(* (register_identifier_reference, register_variable_assignment).                *)
THEOREM UseIsSettled == Spec => ClassificationStable
<1>1. Inv /\ [Next]_vars =>
        [\A i \in DOMAIN scopes \cap DOMAIN scopes' : \A id \in DOMAIN scopes[i].classified :
           /\ id \in DOMAIN scopes'[i].classified
           /\ <<scopes'[i].classified[id].type, scopes'[i].classified[id].handle>> = Settled(i, id)]_vars
  <2> SUFFICES ASSUME Inv, Next, NEW i \in DOMAIN scopes \cap DOMAIN scopes',
                      NEW id \in DOMAIN scopes[i].classified
               PROVE  /\ id \in DOMAIN scopes'[i].classified
                      /\ <<scopes'[i].classified[id].type, scopes'[i].classified[id].handle>> = Settled(i, id)
    OBVIOUS
  <2>1. Keeps(scopes[i], scopes'[i]) BY Stepwise DEF Stable
  <2> QED BY <2>1 DEF Keeps, Settled
<1> QED BY <1>1, AlwaysInv, PTL DEF Spec, ClassificationStable

LEMMA LocalLookupHere ==
  ASSUME NEW open, NEW i \in Nat \ {0}, NEW id
  PROVE  lookup_local_variable(open, i, id) = IF id \in DOMAIN open[i].local_variables
                                              THEN open[i].local_variables[id]
                                              ELSE lookup_local_variable(open, i - 1, id)
<1> DEFINE S == {j \in 1..i : id \in DOMAIN open[j].local_variables}
           T == {j \in 1..i - 1 : id \in DOMAIN open[j].local_variables}
<1>1. CASE id \in DOMAIN open[i].local_variables
  <2>1. i \in S BY <1>1
  <2>2. Max(S) \in S /\ Max(S) >= i BY <2>1, Greatest
  <2>3. Max(S) = i BY <2>2
  <2> QED BY <2>1, <2>3, <1>1 DEF lookup_local_variable
<1>2. CASE id \notin DOMAIN open[i].local_variables
  <2>1. \A j \in 1..i : j = i \/ j \in 1..i - 1 OBVIOUS
  <2>2. S = T BY <2>1, <1>2
  <2> QED BY <2>2, <1>2 DEF lookup_local_variable
<1> QED BY <1>1, <1>2

(* Where the classifier finds a variable, the scopes of the parser find the    *)
(* definition it has.                                                           *)
Agreed(open, i) ==
  \A id : is_variable(lookup_variable(open, i, id)) =>
            lookup_local_variable(open, i, id) = lookup_variable(open, i, id).handle

LEMMA AgreedNext ==
  ASSUME NEW open, Sound(open), NEW i \in 1..Len(open), Agreed(open, i - 1)
  PROVE  Agreed(open, i)
<1>1. i \in Nat \ {0} BY ListShape DEF Sound
<1>2. Known(open[i]) /\ Fits(open, i, open[i], {}) BY DEF Sound
<1> SUFFICES ASSUME NEW id, is_variable(lookup_variable(open, i, id))
             PROVE  lookup_local_variable(open, i, id) = lookup_variable(open, i, id).handle
  BY DEF Agreed
<1>3. CASE id \in DOMAIN open[i].local_variables
  <2>1. id \in DOMAIN open[i].classified /\ open[i].classified[id].handle = open[i].local_variables[id]
    BY <1>2, <1>3 DEF Known
  <2> QED BY <2>1, <1>1, <1>3, LookupHere, LocalLookupHere
<1>4. CASE id \notin DOMAIN open[i].local_variables
  <2>1. lookup_local_variable(open, i, id) = lookup_local_variable(open, i - 1, id)
    BY <1>1, <1>4, LocalLookupHere
  <2>2. CASE id \in DOMAIN open[i].classified
    <3>1. lookup_variable(open, i, id) = open[i].classified[id] BY <1>1, <2>2, LookupHere
    <3>2. /\ is_variable(lookup_variable(open, i - 1, id))
          /\ lookup_variable(open, i - 1, id).handle = open[i].classified[id].handle
      BY <1>2, <1>4, <2>2, <3>1 DEF Fits
    <3> QED BY <2>1, <3>1, <3>2 DEF Agreed
  <2>3. CASE id \notin DOMAIN open[i].classified
    <3>1. lookup_variable(open, i, id) = lookup_variable(open, i - 1, id) BY <1>1, <2>3, LookupHere
    <3> QED BY <2>1, <3>1 DEF Agreed
  <2> QED BY <2>2, <2>3
<1> QED BY <1>3, <1>4

LEMMA AgreedEverywhere ==
  ASSUME NEW open, Sound(open), NEW i \in 0..Len(open)
  PROVE  Agreed(open, i)
<1> DEFINE S == {j \in 0..Len(open) : ~Agreed(open, j)}
<1>1. Len(open) \in Nat BY ListShape DEF Sound
<1>2. ASSUME S /= {} PROVE FALSE
  <2>1. S \subseteq Nat BY <1>1
  <2> HIDE DEF S
  <2>2. PICK j \in S : \A k \in S : j <= k BY <1>2, <2>1, SmallestIndex
  <2> USE DEF S
  <2>3. j \in 0..Len(open) /\ ~Agreed(open, j) OBVIOUS
  <2>4. j /= 0
    <3>1. \A id : lookup_variable(open, 0, id) = NoInfo BY DEF lookup_variable
    <3>2. Agreed(open, 0) BY <3>1, NoInfoIsNone DEF Agreed
    <3> QED BY <3>2, <2>3
  <2>5. j \in 1..Len(open) /\ j - 1 \in 0..Len(open) /\ ~(j <= j - 1) BY <1>1, <2>3, <2>4
  <2>6. Agreed(open, j - 1) BY <2>2, <2>5
  <2> QED BY <2>3, <2>5, <2>6, AgreedNext
<1> QED BY <1>2

(* The frames of the scope at hand. *)
LEMMA FramesOfScope ==
  ASSUME Inv, NEW kinds
  PROVE  /\ Len(scopes) = Cardinality(Framed(Delimiting))
         /\ Within(kinds) = Count(frames, Len(scopes), kinds)
<1> DEFINE n == Len(frames)
           D == Framed(Delimiting)
<1>1. n \in Nat /\ n >= 1 /\ Framable(frames) /\ Len(scopes) = Rank(frames, n) /\ DOMAIN frames = 1..n
  BY InvOpen, ListShape DEF Well, Framable
<1>2. D = Delimiters(frames, n) BY <1>1 DEF Framed, Delimiters
<1>3. D \subseteq 1..n /\ 1 \in D
  BY <1>1 DEF Framed, Delimiting, Framable
<1>4. OwnFrames = Max(D) BY DEF OwnFrames
<1>5. OwnFrames \in D /\ \A j \in D : OwnFrames >= j BY <1>1, <1>3, <1>4, Greatest
<1>6. IsFiniteSet(D) BY <1>1, <1>2, RankStep
<1> HIDE DEF D, n
<1>7. ASSUME NEW j \in 1..n PROVE j >= OwnFrames <=> Rank(frames, j) = Rank(frames, n)
  <2>1. CASE j >= OwnFrames
    <3>1. ASSUME NEW k \in D PROVE k \in Delimiters(frames, j)
      <4>1. k \in 1..n /\ OwnFrames >= k /\ OwnFrames \in 1..n BY <1>3, <1>5
      <4>2. k \in 1..j BY <4>1, <2>1, <1>1
      <4> QED BY <4>2, <1>2 DEF Delimiters
    <3>2. Delimiters(frames, j) \subseteq D BY <1>1, <1>2 DEF Delimiters
    <3>3. Delimiters(frames, j) = D BY <3>1, <3>2
    <3> QED BY <3>3, <1>2, <2>1 DEF Rank
  <2>2. CASE ~(j >= OwnFrames)
    <3>1. Delimiters(frames, j) \subseteq D BY <1>1, <1>2 DEF Delimiters
    <3>2. OwnFrames \notin Delimiters(frames, j)
      <4>1. OwnFrames \notin 1..j BY <2>2, <1>3, <1>5
      <4> QED BY <4>1 DEF Delimiters
    <3>3. Delimiters(frames, j) /= D BY <3>2, <1>5
    <3>4. Cardinality(Delimiters(frames, j)) /= Cardinality(D) BY <3>1, <3>3, <1>6, FS_Subset
    <3> QED BY <3>4, <1>2, <2>2 DEF Rank
  <2> QED BY <2>1, <2>2
<1>8. {i \in Framed(kinds) : i >= OwnFrames} = Owned(frames, Len(scopes), kinds)
  <2>1. \A i \in Framed(kinds) : i \in 1..n /\ frames[i].kind \in kinds BY <1>1 DEF Framed
  <2>2. \A i \in 1..n : frames[i].kind \in kinds => i \in Framed(kinds) BY <1>1 DEF Framed
  <2>3. Owned(frames, Len(scopes), kinds) = {i \in 1..n : Rank(frames, i) = Len(scopes) /\ frames[i].kind \in kinds}
    BY DEF Owned, n
  <2> QED BY <2>1, <2>2, <2>3, <1>1, <1>7
<1>9. Len(scopes) = Cardinality(D) BY <1>1, <1>2 DEF Rank
<1> QED BY <1>8, <1>9 DEF Within, Count, D

(* The scopes of the classifier fit the constructs that are open, with a       *)
(* context for each block and one of assignment for each if, switch and try;    *)
(* every variable has the definition that a later lookup in the scopes of the   *)
(* parser finds; and no function makes a definition of its own for a variable    *)
(* of the functions around it, its parameters excepted                           *)
(* (push_context, lookup_local_variable, register_variable_assignment).          *)
THEOREM ParserScopesAgree == Spec => []ScopesAgree
<1>1. Inv => TypeOK
  <2> SUFFICES ASSUME Inv PROVE TypeOK OBVIOUS
  <2> DEFINE n == Len(scopes)
  <2>1. /\ Well(scopes, frames) /\ n \in Nat /\ n >= 1 /\ DOMAIN scopes = 1..n
        /\ current = scopes[n] /\ current = Last(scopes)
    BY InvOpen, WellOpen
  <2>2. ASSUME NEW i \in 1..n
        PROVE  Known(scopes[i]) /\ Holds(scopes[i], i - 1, 1 + Count(frames, i, Blocks), Count(frames, i, Joining))
    BY <2>1 DEF Well, Sound, Fitting
  <2>3. /\ n = Cardinality(Framed(Delimiting))
        /\ Within(Blocks) = Count(frames, n, Blocks) /\ Within(Joining) = Count(frames, n, Joining)
    BY FramesOfScope
  <2> HIDE DEF n
  <2>4. ASSUME NEW i \in DOMAIN scopes
        PROVE  /\ scopes[i].scope_depth = i - 1
               /\ \A d \in DOMAIN scopes[i].contexts :
                    scopes[i].contexts[d].depth = d /\ scopes[i].contexts[d].uuid < scopes[i].context_uuid
               /\ \A id \in DOMAIN scopes[i].classified :
                    scopes[i].classified[id].type \in {"variable", "local_function", "external_function"}
    <3>1. i \in 1..n BY <2>1
    <3>2. Known(scopes[i]) /\ Shaped(scopes[i], i - 1) BY <2>2, <3>1 DEF Holds
    <3>3. DOMAIN scopes[i].contexts = 1..Len(scopes[i].contexts) BY <3>2, ListShape DEF Shaped
    <3> QED BY <3>2, <3>3 DEF Known, IsInfo, Shaped
  <2>5. /\ Len(current.contexts) = 1 + Within(Blocks) /\ Len(current.assignment_contexts) = Within(Joining)
        /\ Covered(current)
    <3>1. n \in 1..n BY <2>1
    <3>2. Holds(scopes[n], n - 1, 1 + Count(frames, n, Blocks), Count(frames, n, Joining)) BY <2>2, <3>1
    <3>3. Holds(current, n - 1, 1 + Within(Blocks), Within(Joining)) BY <2>1, <2>3, <3>2
    <3> HIDE DEF current
    <3> QED BY <3>3 DEF Holds, Shaped
  <2>6. \A a \in DOMAIN current.assignment_contexts :
          DOMAIN current.assignment_contexts[a].assigned \subseteq DOMAIN current.classified
    <3>1. DOMAIN current.assignment_contexts = 1..Len(current.assignment_contexts)
      BY <2>5, ListShape DEF Covered
    <3> QED BY <3>1, <2>5 DEF Covered
  <2> QED BY <2>3, <2>4, <2>5, <2>6 DEF TypeOK, Blocks, Joining, n
<1>2. Inv => LookupAgrees
  <2> SUFFICES ASSUME Inv, NEW i \in DOMAIN scopes, NEW id \in DOMAIN scopes[i].classified,
                      is_variable(scopes[i].classified[id])
               PROVE  lookup_local_variable(scopes, i, id) = scopes[i].classified[id].handle
    BY DEF LookupAgrees
  <2>1. Sound(scopes) /\ DOMAIN scopes = 1..Len(scopes) /\ Len(scopes) \in Nat BY InvOpen, WellOpen
  <2>2. i \in Nat \ {0} /\ i \in 0..Len(scopes) BY <2>1
  <2>3. lookup_variable(scopes, i, id) = scopes[i].classified[id] BY <2>2, LookupHere
  <2>4. Agreed(scopes, i) BY <2>1, <2>2, AgreedEverywhere
  <2> QED BY <2>3, <2>4 DEF Agreed
<1>3. Inv => NestedShare
  <2> SUFFICES ASSUME Inv, NEW i \in DOMAIN scopes,
                      NEW id \in DOMAIN scopes[i].local_variables \ scopes[i].parameters
               PROVE  ~is_variable(lookup_variable(scopes, i - 1, id))
    BY DEF NestedShare
  <2>1. Sound(scopes) /\ i \in 1..Len(scopes) BY InvOpen, WellOpen
  <2>2. Fits(scopes, i, scopes[i], {}) BY <2>1 DEF Sound
  <2> QED BY <2>2 DEF Fits
<1>4. Inv => ScopesAgree BY <1>1, <1>2, <1>3 DEF ScopesAgree
<1> QED BY <1>4, AlwaysInv, PTL

------------------------------------------------------------------------------
(* The constructs with branches that are open in a scope, each with the         *)
(* context and the context of assignment it is in.                              *)

Inner(fs, p, kinds) == {q \in 1..p : Rank(fs, q) = Rank(fs, p) /\ fs[q].kind \in kinds}
Depth(fs, p) == 1 + Cardinality(Inner(fs, p, Blocks))
Joins(fs, p) == IF fs[p].kind \in Joining THEN Cardinality(Inner(fs, p, Joining)) ELSE 0

View(fs, p) ==
  [depth |-> Depth(fs, p), join |-> Joins(fs, p), before |-> fs[p].before, ends |-> fs[p].ends,
   blocks |-> fs[p].blocks]
Opened(fs, i) == {View(fs, p) : p \in Owned(fs, i, Branching)}

(* A construct with branches has a block or an expression of its own on top. *)
Formed(f) ==
  /\ f.kind \in Delimiting \cup Branching \cup {"block"}
  /\ f.kind \in Branching => /\ DOMAIN f = {"kind", "blocks", "last", "condition", "before", "ends", "named"}
                             /\ f.blocks \in Nat /\ (f.last => f.blocks >= 1)
                             /\ f.named \subseteq f.before
Follows(f, g) ==
  /\ f.kind \in Branching => g.kind \in {"block", "anonymous"}
  /\ g.kind = "block" => f.kind \in Branching /\ f.blocks >= 1
Stacked(fs) ==
  /\ \A p \in 1..Len(fs) : Formed(fs[p])
  /\ \A p \in 1..Len(fs) - 1 : Follows(fs[p], fs[p + 1])

LEMMA InnerFinite ==
  ASSUME NEW fs, NEW p \in Nat, NEW kinds
  PROVE  IsFiniteSet(Inner(fs, p, kinds)) /\ Cardinality(Inner(fs, p, kinds)) \in Nat
<1>1. IsFiniteSet(1..p) BY FS_Interval
<1>2. IsFiniteSet(Inner(fs, p, kinds)) BY <1>1, FS_Subset DEF Inner
<1> QED BY <1>2, FS_CardinalityType

(* Of two constructs of a scope, the inner one is in more. *)
LEMMA InnerMore ==
  ASSUME NEW fs, NEW p \in Nat, NEW q \in Nat, p <= q, Rank(fs, p) = Rank(fs, q), NEW kinds
  PROVE  /\ Cardinality(Inner(fs, p, kinds)) <= Cardinality(Inner(fs, q, kinds))
         /\ \A k \in p + 1..q : fs[k].kind \in kinds /\ Rank(fs, k) = Rank(fs, q) =>
              Cardinality(Inner(fs, p, kinds)) < Cardinality(Inner(fs, q, kinds))
<1> DEFINE S == Inner(fs, p, kinds)
           T == Inner(fs, q, kinds)
<1>1. IsFiniteSet(S) /\ IsFiniteSet(T) /\ Cardinality(S) \in Nat /\ Cardinality(T) \in Nat BY InnerFinite
<1>2. S \subseteq T BY DEF Inner
<1>3. ASSUME NEW k \in p + 1..q, fs[k].kind \in kinds, Rank(fs, k) = Rank(fs, q) PROVE k \in T /\ k \notin S
  BY <1>3 DEF Inner
<1> HIDE DEF S, T
<1>4. Cardinality(S) <= Cardinality(T) BY <1>1, <1>2, FS_Subset
<1>5. S /= T => Cardinality(S) /= Cardinality(T) BY <1>1, <1>2, FS_Subset
<1>6. ASSUME NEW k \in p + 1..q, fs[k].kind \in kinds, Rank(fs, k) = Rank(fs, q)
      PROVE  Cardinality(S) < Cardinality(T)
  <2>1. S /= T BY <1>3, <1>6
  <2> QED BY <2>1, <1>1, <1>4, <1>5
<1> QED BY <1>4, <1>6 DEF S, T

LEMMA RankBetween ==
  ASSUME NEW fs, NEW p \in Nat, NEW q \in Nat, NEW k \in Nat, p <= k, k <= q, Rank(fs, p) = Rank(fs, q)
  PROVE  Rank(fs, k) = Rank(fs, q)
<1>1. Rank(fs, p) <= Rank(fs, k) /\ Rank(fs, k) <= Rank(fs, q) BY RankMonotonic
<1>2. Rank(fs, p) \in Nat /\ Rank(fs, k) \in Nat /\ Rank(fs, q) \in Nat BY RankStep
<1> QED BY <1>1, <1>2

(* Over a construct with branches there is a block, unless a scope was opened. *)
LEMMA BlockOver ==
  ASSUME NEW fs, Len(fs) \in Nat, Stacked(fs), NEW p \in 1..Len(fs), fs[p].kind \in Branching,
         NEW q \in 1..Len(fs), p < q, Rank(fs, p) = Rank(fs, q)
  PROVE  p + 1 \in p + 1..q /\ fs[p + 1].kind \in Blocks /\ Rank(fs, p + 1) = Rank(fs, q)
<1>1. p \in Nat /\ q \in Nat /\ p + 1 \in p + 1..q /\ p \in 1..Len(fs) - 1 /\ p + 1 \in Nat OBVIOUS
<1>2. Rank(fs, p + 1) = Rank(fs, q) BY <1>1, RankBetween
<1>3. Rank(fs, p + 1) = Rank(fs, p) + (IF fs[p + 1].kind \in Delimiting THEN 1 ELSE 0) /\ Rank(fs, p) \in Nat
  BY <1>1, RankStep
<1>4. fs[p + 1].kind \notin Delimiting BY <1>2, <1>3
<1>5. fs[p + 1].kind \in {"block", "anonymous"} BY <1>1 DEF Stacked, Follows
<1> QED BY <1>1, <1>2, <1>4, <1>5 DEF Delimiting, Blocks

LEMMA InnerDeeper ==
  ASSUME NEW fs, Len(fs) \in Nat, Stacked(fs), NEW p \in 1..Len(fs), fs[p].kind \in Branching,
         NEW q \in 1..Len(fs), p < q, Rank(fs, p) = Rank(fs, q)
  PROVE  /\ Depth(fs, p) < Depth(fs, q) /\ Depth(fs, p) \in Nat /\ Depth(fs, q) \in Nat
         /\ Cardinality(Inner(fs, p, Joining)) <= Cardinality(Inner(fs, q, Joining))
         /\ fs[q].kind \in Joining => Cardinality(Inner(fs, p, Joining)) < Cardinality(Inner(fs, q, Joining))
<1>1. p \in Nat /\ q \in Nat /\ p <= q /\ q \in p + 1..q OBVIOUS
<1>2. p + 1 \in p + 1..q /\ fs[p + 1].kind \in Blocks /\ Rank(fs, p + 1) = Rank(fs, q) BY BlockOver
<1>3. Cardinality(Inner(fs, p, Blocks)) < Cardinality(Inner(fs, q, Blocks)) BY <1>1, <1>2, InnerMore
<1>4. Cardinality(Inner(fs, p, Blocks)) \in Nat /\ Cardinality(Inner(fs, q, Blocks)) \in Nat
  BY <1>1, InnerFinite
<1>5. /\ Cardinality(Inner(fs, p, Joining)) <= Cardinality(Inner(fs, q, Joining))
      /\ fs[q].kind \in Joining => Cardinality(Inner(fs, p, Joining)) < Cardinality(Inner(fs, q, Joining))
  BY <1>1, InnerMore
<1> QED BY <1>3, <1>4, <1>5 DEF Depth

(* No two constructs of a scope are in one context. *)
LEMMA ViewsApart ==
  ASSUME NEW fs, Len(fs) \in Nat, Stacked(fs), NEW i
  PROVE  Apart(Opened(fs, i))
<1> SUFFICES ASSUME NEW p \in Owned(fs, i, Branching), NEW q \in Owned(fs, i, Branching),
                    View(fs, p).depth = View(fs, q).depth
             PROVE  View(fs, p) = View(fs, q)
  BY DEF Apart, Opened
<1>1. /\ p \in 1..Len(fs) /\ q \in 1..Len(fs) /\ Rank(fs, p) = Rank(fs, q)
      /\ fs[p].kind \in Branching /\ fs[q].kind \in Branching
  BY DEF Owned
<1>2. Depth(fs, p) = Depth(fs, q) BY DEF View
<1>3. ~(p < q)
  <2>1. p < q => Depth(fs, p) < Depth(fs, q) /\ Depth(fs, p) \in Nat BY <1>1, InnerDeeper
  <2> QED BY <2>1, <1>2
<1>4. ~(q < p)
  <2>1. q < p => Depth(fs, q) < Depth(fs, p) /\ Depth(fs, q) \in Nat BY <1>1, InnerDeeper
  <2> QED BY <2>1, <1>2
<1>5. p = q BY <1>1, <1>3, <1>4
<1> QED BY <1>5

(* A construct is seen as before while those it is in stay. *)
LEMMA SameView ==
  ASSUME NEW fs, NEW gs, NEW p \in Nat, \A k \in 1..p : gs[k].kind = fs[k].kind
  PROVE  /\ Rank(gs, p) = Rank(fs, p) /\ \A kinds : Inner(gs, p, kinds) = Inner(fs, p, kinds)
         /\ Depth(gs, p) = Depth(fs, p) /\ (p >= 1 => Joins(gs, p) = Joins(fs, p))
<1>1. \A j \in 0..p : Rank(gs, j) = Rank(fs, j) BY SameRank
<1>2. p \in 0..p /\ \A j \in 1..p : j \in 0..p OBVIOUS
<1>3. Rank(gs, p) = Rank(fs, p) /\ \A j \in 1..p : Rank(gs, j) = Rank(fs, j) BY <1>1, <1>2
<1>4. \A kinds : Inner(gs, p, kinds) = Inner(fs, p, kinds) BY <1>3 DEF Inner
<1>5. p >= 1 => gs[p].kind = fs[p].kind OBVIOUS
<1> QED BY <1>3, <1>4, <1>5 DEF Depth, Joins

(* The scope at hand has the contexts that the constructs in it ask for. *)
LEMMA ScopeDepth ==
  ASSUME NEW open, NEW fs, Well(open, fs), NEW s, s = Last(open)
  PROVE  /\ Len(s.contexts) = Depth(fs, Len(fs)) /\ Len(s.contexts) \in Nat /\ Len(s.contexts) >= 1
         /\ Len(s.assignment_contexts) = Cardinality(Inner(fs, Len(fs), Joining))
         /\ Len(s.assignment_contexts) \in Nat
         /\ Shaped(s, Len(open) - 1)
         /\ \A kinds : Owned(fs, Len(open), kinds) = Inner(fs, Len(fs), kinds)
<1>1. /\ Len(fs) \in Nat /\ Len(open) = Rank(fs, Len(fs)) /\ Fitting(open, fs, Len(open)) /\ s = open[Len(open)]
  BY WellOpen DEF Well
<1>2. \A kinds : Owned(fs, Len(open), kinds) = Inner(fs, Len(fs), kinds) BY <1>1 DEF Owned, Inner
<1>3. \A kinds : Count(fs, Len(open), kinds) = Cardinality(Inner(fs, Len(fs), kinds)) BY <1>2 DEF Count
<1>4. \A kinds : Cardinality(Inner(fs, Len(fs), kinds)) \in Nat BY <1>1, InnerFinite
<1>5. Holds(s, Len(open) - 1, 1 + Count(fs, Len(open), Blocks), Count(fs, Len(open), Joining))
  BY <1>1 DEF Fitting
<1>6. /\ Len(s.contexts) = 1 + Cardinality(Inner(fs, Len(fs), Blocks))
      /\ Len(s.assignment_contexts) = Cardinality(Inner(fs, Len(fs), Joining))
      /\ Shaped(s, Len(open) - 1)
  BY <1>3, <1>5 DEF Holds
<1>7. Cardinality(Inner(fs, Len(fs), Blocks)) \in Nat /\ Cardinality(Inner(fs, Len(fs), Joining)) \in Nat
  BY <1>4
<1> QED BY <1>2, <1>6, <1>7 DEF Depth

(* The constructs around the one on top are in contexts before the last. *)
LEMMA OuterViews ==
  ASSUME NEW open, NEW fs, Well(open, fs), Stacked(fs), NEW s, s = Last(open),
         NEW p \in Owned(fs, Len(open), Branching)
  PROVE  /\ p \in 1..Len(fs) /\ fs[p].kind \in Branching /\ Rank(fs, p) = Rank(fs, Len(fs))
         /\ p < Len(fs) => /\ Depth(fs, p) \in Nat /\ Depth(fs, p) < Len(s.contexts)
                           /\ Joins(fs, p) \in Nat /\ Joins(fs, p) <= Len(s.assignment_contexts)
                           /\ fs[Len(fs)].kind \in Joining => Joins(fs, p) < Len(s.assignment_contexts)
         /\ p = Len(fs) => /\ Depth(fs, p) = Len(s.contexts)
                           /\ Joins(fs, p) = IF fs[p].kind \in Joining THEN Len(s.assignment_contexts) ELSE 0
<1>1. /\ Len(s.contexts) = Depth(fs, Len(fs)) /\ Len(s.contexts) \in Nat
      /\ Len(s.assignment_contexts) = Cardinality(Inner(fs, Len(fs), Joining))
      /\ Len(s.assignment_contexts) \in Nat
  BY ScopeDepth
<1>2. /\ p \in 1..Len(fs) /\ fs[p].kind \in Branching /\ Rank(fs, p) = Rank(fs, Len(fs))
      /\ Len(fs) \in Nat /\ Len(fs) \in 1..Len(fs)
  BY WellOpen DEF Owned, Well
<1>3. ASSUME p < Len(fs)
      PROVE  /\ Depth(fs, p) \in Nat /\ Depth(fs, p) < Len(s.contexts)
             /\ Joins(fs, p) \in Nat /\ Joins(fs, p) <= Len(s.assignment_contexts)
             /\ fs[Len(fs)].kind \in Joining => Joins(fs, p) < Len(s.assignment_contexts)
  <2> DEFINE m == Len(fs)
             j == Cardinality(Inner(fs, p, Joining))
             k == Cardinality(Inner(fs, m, Joining))
  <2>1. /\ Depth(fs, p) < Depth(fs, m) /\ Depth(fs, p) \in Nat
        /\ j <= k /\ (fs[m].kind \in Joining => j < k)
    BY <1>2, <1>3, InnerDeeper
  <2>2. j \in Nat /\ k \in Nat BY <1>2, InnerFinite
  <2>3. Joins(fs, p) \in {0, j} BY DEF Joins
  <2>4. k = Len(s.assignment_contexts) BY <1>1
  <2> HIDE DEF j, k
  <2>5. /\ Joins(fs, p) \in Nat /\ Joins(fs, p) <= k
        /\ fs[m].kind \in Joining => Joins(fs, p) < k
    BY <2>1, <2>2, <2>3
  <2> QED BY <1>1, <2>1, <2>4, <2>5
<1> QED BY <1>1, <1>2, <1>3 DEF Joins

(* The block on top belongs to the construct below, which is in the context    *)
(* that the block is in.                                                        *)
LEMMA BlockView ==
  ASSUME NEW open, NEW fs, Well(open, fs), Stacked(fs), NEW s, s = Last(open),
         NEW m, m = Len(fs), fs[m].kind = "block"
  PROVE  /\ m \in Nat /\ m - 1 \in 1..m /\ m - 1 \in Nat /\ m - 1 \in Owned(fs, Len(open), Branching)
         /\ Depth(fs, m - 1) = Len(s.contexts) - 1 /\ fs[m - 1].blocks \in Nat /\ fs[m - 1].blocks >= 1
         /\ \A p \in Owned(fs, Len(open), Branching) : p = m - 1 \/ (p < m - 1 /\ Depth(fs, p) < Depth(fs, m - 1))
<1>1. /\ m \in Nat /\ m >= 1 /\ Framable(fs) /\ Len(open) = Rank(fs, m)
  BY WellOpen DEF Well
<1>2. m /= 1 BY <1>1 DEF Framable
<1>3. m - 1 \in 1..m /\ m - 1 \in Nat /\ m \in Nat /\ m \in 1..m /\ (m - 1) + 1 = m /\ m - 1 < m /\ m - 1 \in 1..m - 1
  BY <1>1, <1>2
<1>4. fs[m - 1].kind \in Branching /\ fs[m - 1].blocks >= 1
  <2>1. Follows(fs[m - 1], fs[(m - 1) + 1]) BY <1>3 DEF Stacked
  <2> QED BY <2>1, <1>3 DEF Follows
<1>5. fs[m - 1].blocks \in Nat BY <1>3, <1>4 DEF Stacked, Formed
<1>6. Rank(fs, m - 1) = Rank(fs, m) /\ Rank(fs, m) \in Nat
  <2>1. /\ Rank(fs, (m - 1) + 1) = Rank(fs, m - 1) + (IF fs[(m - 1) + 1].kind \in Delimiting THEN 1 ELSE 0)
        /\ Rank(fs, m - 1) \in Nat
    BY <1>3, RankStep
  <2>2. fs[(m - 1) + 1].kind \notin Delimiting BY <1>3 DEF Delimiting
  <2> QED BY <2>1, <2>2, <1>3
<1>7. m - 1 \in Owned(fs, Len(open), Branching) BY <1>1, <1>3, <1>4, <1>6 DEF Owned
<1>8. Depth(fs, m) = Depth(fs, m - 1) + 1
  <2> DEFINE S == Inner(fs, m - 1, Blocks)
             T == Inner(fs, m, Blocks)
  <2>1. IsFiniteSet(S) BY <1>3, InnerFinite
  <2>2. m \notin S BY <1>3 DEF Inner
  <2>3. \A q : q \in 1..m <=> q \in 1..m - 1 \/ q = m BY <1>3
  <2>4. fs[m].kind \in Blocks BY DEF Blocks
  <2>5. T = S \cup {m} BY <2>3, <2>4, <1>6 DEF Inner
  <2> HIDE DEF S, T
  <2>6. Cardinality(T) = Cardinality(S) + 1 /\ Cardinality(S) \in Nat
    BY <2>1, <2>2, <2>5, FS_AddElement, FS_CardinalityType
  <2> QED BY <2>6 DEF Depth, S, T
<1>9. Len(s.contexts) = Depth(fs, m) BY ScopeDepth
<1>10. Cardinality(Inner(fs, m - 1, Blocks)) \in Nat BY <1>3, InnerFinite
<1>11. Depth(fs, m - 1) = Len(s.contexts) - 1 BY <1>8, <1>9, <1>10 DEF Depth
<1>12. ASSUME NEW p \in Owned(fs, Len(open), Branching)
       PROVE  p = m - 1 \/ (p < m - 1 /\ Depth(fs, p) < Depth(fs, m - 1))
  <2>1. p \in 1..m /\ fs[p].kind \in Branching /\ Rank(fs, p) = Rank(fs, m - 1) BY <1>1, <1>6 DEF Owned
  <2>2. p /= m BY <2>1 DEF Branching
  <2>3. p = m - 1 \/ p < m - 1 BY <2>1, <2>2, <1>3
  <2>4. p < m - 1 => Depth(fs, p) < Depth(fs, m - 1) BY <2>1, <1>3, InnerDeeper
  <2> QED BY <2>3, <2>4
<1> QED BY <1>3, <1>4, <1>5, <1>7, <1>11, <1>12

(* What every scope that is open is sure of. *)
Telling(open, fs) == \A i \in 1..Len(open) : Warranted(open[i], Opened(fs, i))

(* The frames of gs are those of fs before the m-th, one of the scope at hand. *)
Changed(fs, gs, m) ==
  /\ m \in 1..Len(fs) /\ Rank(fs, m) = Rank(fs, Len(fs))
  /\ \A k \in 1..m - 1 : gs[k] = fs[k]
  /\ Len(gs) \in Nat /\ Len(gs) >= m - 1 /\ (m <= Len(gs) => gs[m].kind = fs[m].kind)

LEMMA ViewBefore ==
  ASSUME NEW fs, NEW gs, NEW m \in Nat, \A k \in 1..m - 1 : gs[k] = fs[k], NEW p \in 1..m - 1
  PROVE  View(gs, p) = View(fs, p) /\ Rank(gs, p) = Rank(fs, p)
<1>1. p \in Nat /\ p >= 1 /\ gs[p] = fs[p] /\ \A k \in 1..p : gs[k].kind = fs[k].kind OBVIOUS
<1>2. Rank(gs, p) = Rank(fs, p) /\ Depth(gs, p) = Depth(fs, p) /\ Joins(gs, p) = Joins(fs, p)
  BY <1>1, SameView
<1> QED BY <1>1, <1>2 DEF View

LEMMA OpenedChanged ==
  ASSUME NEW fs, Len(fs) \in Nat, NEW gs, NEW m, Changed(fs, gs, m), NEW i, NEW c \in Opened(gs, i)
  PROVE  \/ \E p \in Owned(fs, i, Branching) : p < m /\ c = View(fs, p)
         \/ /\ i = Rank(fs, Len(fs)) \/ i > Rank(fs, Len(fs))
            /\ \E p \in m..Len(gs) : gs[p].kind \in Branching /\ Rank(gs, p) = i /\ c = View(gs, p)
<1>1. m \in Nat /\ m >= 1 /\ Len(gs) \in Nat BY DEF Changed
<1>2. PICK p \in Owned(gs, i, Branching) : c = View(gs, p) BY DEF Opened
<1>3. p \in 1..Len(gs) /\ p \in Nat /\ Rank(gs, p) = i /\ gs[p].kind \in Branching BY <1>1, <1>2 DEF Owned
<1>4. CASE p < m
  <2>1. p \in 1..m - 1 BY <1>1, <1>3, <1>4
  <2>2. View(gs, p) = View(fs, p) /\ Rank(gs, p) = Rank(fs, p) /\ gs[p] = fs[p]
    BY <1>1, <2>1, ViewBefore DEF Changed
  <2>3. p \in 1..Len(fs) BY <1>1, <2>1 DEF Changed
  <2>4. p \in Owned(fs, i, Branching) BY <1>3, <2>2, <2>3 DEF Owned
  <2> QED BY <1>2, <1>4, <2>2, <2>4
<1>5. CASE ~(p < m)
  <2>1. p \in m..Len(gs) /\ m <= p /\ m <= Len(gs) BY <1>1, <1>3, <1>5
  <2>2. \A k \in 1..m : gs[k].kind = fs[k].kind BY <1>1, <2>1 DEF Changed
  <2>3. Rank(gs, m) = Rank(fs, m) BY <1>1, <2>2, SameView
  <2>4. Rank(gs, m) <= Rank(gs, p) BY <1>1, <1>3, <2>1, RankMonotonic
  <2>5. Rank(gs, m) \in Nat /\ Rank(gs, p) \in Nat /\ Rank(fs, Len(fs)) \in Nat
    BY <1>1, <1>3, RankStep
  <2>6. i = Rank(fs, Len(fs)) \/ i > Rank(fs, Len(fs)) BY <1>3, <2>3, <2>4, <2>5 DEF Changed
  <2> QED BY <1>2, <1>3, <2>1, <2>6
<1> QED BY <1>4, <1>5

LEMMA OpenedElsewhere ==
  ASSUME NEW fs, Len(fs) \in Nat, NEW gs, NEW m, Changed(fs, gs, m), NEW i \in Nat, i < Rank(fs, Len(fs))
  PROVE  Opened(gs, i) = Opened(fs, i)
<1>1. Rank(fs, Len(fs)) \in Nat BY RankStep
<1>2. ASSUME NEW c \in Opened(gs, i) PROVE c \in Opened(fs, i)
  <2>1. ~(i = Rank(fs, Len(fs)) \/ i > Rank(fs, Len(fs))) BY <1>1
  <2>2. \E p \in Owned(fs, i, Branching) : c = View(fs, p) BY <2>1, OpenedChanged
  <2> QED BY <2>2 DEF Opened
<1>3. ASSUME NEW c \in Opened(fs, i) PROVE c \in Opened(gs, i)
  <2>1. PICK p \in Owned(fs, i, Branching) : c = View(fs, p) BY DEF Opened
  <2>2. p \in 1..Len(fs) /\ p \in Nat /\ Rank(fs, p) = i /\ fs[p].kind \in Branching /\ m \in Nat
    BY <2>1 DEF Owned, Changed
  <2>3. p < m
    <3>1. m <= p => Rank(fs, m) <= Rank(fs, p) BY <2>2, RankMonotonic
    <3> QED BY <3>1, <2>2, <1>1 DEF Changed
  <2>4. p \in 1..m - 1 /\ p \in 1..Len(gs) BY <2>2, <2>3 DEF Changed
  <2>5. View(gs, p) = View(fs, p) /\ Rank(gs, p) = Rank(fs, p) /\ gs[p] = fs[p]
    BY <2>2, <2>4, ViewBefore DEF Changed
  <2>6. p \in Owned(gs, i, Branching) BY <2>2, <2>4, <2>5 DEF Owned
  <2> QED BY <2>1, <2>5, <2>6 DEF Opened
<1> QED BY <1>2, <1>3

(* A step within the scope at hand. *)
LEMMA StaysTelling ==
  ASSUME NEW open, NEW fs, Well(open, fs), Telling(open, fs), NEW gs, NEW m, Changed(fs, gs, m),
         NEW t, Warranted(t, Opened(gs, Len(open))), NEW next, next = Replaced(open, Len(open), t)
  PROVE  Telling(next, gs)
<1> DEFINE n == Len(open)
<1>a. Sound(open) /\ n \in Nat /\ n >= 1 /\ Len(fs) \in Nat /\ n = Rank(fs, Len(fs)) BY WellOpen DEF Well
<1>b. n \in 1..n BY <1>a
<1>1. /\ Len(fs) \in Nat /\ n \in Nat /\ n >= 1 /\ n \in 1..n /\ IsList(open) /\ n = Rank(fs, Len(fs))
  BY <1>a, <1>b DEF Sound
<1>2. Len(next) = n /\ next[n] = t /\ \A j \in 1..n : j /= n => next[j] = open[j] BY <1>1, ListExcept
<1> HIDE DEF n
<1>3. ASSUME NEW i \in 1..n PROVE Warranted(next[i], Opened(gs, i))
  <2>1. CASE i = n BY <2>1, <1>2 DEF n
  <2>2. CASE i /= n
    <3>1. i \in Nat /\ i < n BY <2>2, <1>1
    <3>2. Opened(gs, i) = Opened(fs, i) BY <3>1, <1>1, OpenedElsewhere
    <3>3. Warranted(open[i], Opened(fs, i)) /\ next[i] = open[i] BY <2>2, <1>2 DEF Telling, n
    <3> QED BY <3>2, <3>3
  <2> QED BY <2>1, <2>2
<1> QED BY <1>2, <1>3 DEF Telling

(* A function is left ... *)
LEMMA LeavesTelling ==
  ASSUME NEW open, NEW fs, Well(open, fs), Telling(open, fs), NEW next, next = Front(open),
         NEW gs, gs = Front(fs)
  PROVE  Telling(next, gs)
<1> DEFINE n == Len(open)
           m == Len(fs)
<1>a. Sound(open) /\ Framable(fs) /\ n \in Nat /\ n >= 1 /\ m \in Nat /\ m >= 1 /\ n = Rank(fs, m)
  BY WellOpen DEF Well
<1>b. m \in 1..m BY <1>a
<1>c. IsList(open) /\ IsList(fs) BY <1>a DEF Sound, Framable
<1>1. /\ m \in Nat /\ m >= 1 /\ m \in 1..m /\ n \in Nat /\ n >= 1 /\ IsList(open) /\ IsList(fs) /\ n = Rank(fs, m)
  BY <1>a, <1>b, <1>c
<1>2. Len(next) = n - 1 /\ \A i \in 1..n - 1 : next[i] = open[i] BY <1>1, ListFront
<1>3. Len(gs) = m - 1 /\ \A k \in 1..m - 1 : gs[k] = fs[k] BY <1>1, ListFront
<1>4. Changed(fs, gs, m) BY <1>1, <1>3 DEF Changed
<1> HIDE DEF n
<1>5. ASSUME NEW i \in 1..n - 1 PROVE Warranted(next[i], Opened(gs, i))
  <2>1. i \in Nat /\ i < n /\ i \in 1..n BY <1>1
  <2>2. Opened(gs, i) = Opened(fs, i) BY <2>1, <1>1, <1>4, OpenedElsewhere
  <2>3. Warranted(open[i], Opened(fs, i)) BY <2>1 DEF Telling, n
  <2> QED BY <2>2, <2>3, <1>2
<1> QED BY <1>2, <1>5 DEF Telling

(* ... or entered, from a construct that stays as it is. *)
LEMMA EntersTelling ==
  ASSUME NEW open, NEW fs, Well(open, fs), Telling(open, fs),
         NEW gs, Extends(fs, gs), gs[Len(gs)].kind \in {"body", "anonymous"},
         \A p \in 1..Len(fs) : fs[p].kind \in Branching => gs[p] = fs[p],
         NEW next, Len(next) = Len(open) + 1, \A i \in 1..Len(open) : next[i] = open[i],
         Warranted(next[Len(open) + 1], {})
  PROVE  Telling(next, gs)
<1> DEFINE n == Len(open)
           m == Len(fs)
<1>1. m \in Nat /\ n \in Nat /\ n = Rank(fs, m) /\ Len(gs) = m + 1 /\ \A k \in 1..m : gs[k].kind = fs[k].kind
  BY WellOpen DEF Well, Extends
<1>2. gs[m + 1].kind \notin Branching /\ gs[m + 1].kind \in Delimiting BY <1>1 DEF Branching, Delimiting
<1> HIDE DEF n, m
<1>a. ASSUME NEW p \in 1..m
      PROVE  /\ Rank(gs, p) = Rank(fs, p) /\ gs[p].kind = fs[p].kind
             /\ fs[p].kind \in Branching => View(gs, p) = View(fs, p)
  <2>1. p \in Nat /\ p >= 1 /\ \A k \in 1..p : gs[k].kind = fs[k].kind BY <1>1
  <2>2. Rank(gs, p) = Rank(fs, p) /\ Depth(gs, p) = Depth(fs, p) /\ Joins(gs, p) = Joins(fs, p)
    BY <2>1, SameView
  <2>3. fs[p].kind \in Branching => gs[p] = fs[p] BY DEF m
  <2> QED BY <1>1, <2>2, <2>3 DEF View
<1>3. \A i : Opened(gs, i) = Opened(fs, i)
  <2> SUFFICES ASSUME NEW i PROVE Opened(gs, i) = Opened(fs, i) OBVIOUS
  <2>1. ASSUME NEW p \in Owned(gs, i, Branching)
        PROVE  p \in Owned(fs, i, Branching) /\ View(gs, p) = View(fs, p)
    <3>1. p \in 1..m + 1 /\ Rank(gs, p) = i /\ gs[p].kind \in Branching BY <1>1 DEF Owned
    <3>2. p \in 1..m BY <3>1, <1>1, <1>2
    <3> QED BY <3>1, <3>2, <1>a DEF Owned, m
  <2>2. ASSUME NEW p \in Owned(fs, i, Branching)
        PROVE  p \in Owned(gs, i, Branching) /\ View(gs, p) = View(fs, p)
    <3>1. p \in 1..m /\ Rank(fs, p) = i /\ fs[p].kind \in Branching BY DEF Owned, m
    <3>2. p \in 1..Len(gs) BY <3>1, <1>1
    <3> QED BY <3>1, <3>2, <1>a DEF Owned
  <2> QED BY <2>1, <2>2 DEF Opened
<1>4. Opened(gs, n + 1) = {}
  <2>1. ASSUME NEW p \in Owned(fs, n + 1, Branching) PROVE FALSE
    <3>1. p \in Nat /\ p <= m /\ Rank(fs, p) = n + 1 BY <1>1 DEF Owned, m
    <3>2. Rank(fs, p) <= Rank(fs, m) BY <3>1, <1>1, RankMonotonic
    <3> QED BY <3>1, <3>2, <1>1
  <2>2. Opened(fs, n + 1) = {} BY <2>1 DEF Opened
  <2> QED BY <2>2, <1>3
<1>5. ASSUME NEW i \in 1..n + 1 PROVE Warranted(next[i], Opened(gs, i))
  <2>1. CASE i = n + 1 BY <2>1, <1>4 DEF n
  <2>2. CASE i /= n + 1
    <3>1. i \in 1..n BY <2>2, <1>1
    <3>2. Warranted(open[i], Opened(fs, i)) /\ next[i] = open[i] BY <3>1 DEF Telling, n
    <3>3. Opened(gs, i) = Opened(fs, i) BY <1>3
    <3> QED BY <3>2, <3>3
  <2> QED BY <2>1, <2>2
<1> QED BY <1>5 DEF Telling, n

TellsIn(open, fs) == Stacked(fs) /\ Telling(open, fs)
Tells == TellsIn(scopes, frames)

LEMMA StackedLonger ==
  ASSUME NEW fs, Framable(fs), Stacked(fs), NEW f, Formed(f), Follows(fs[Len(fs)], f), NEW gs, gs = Longer(fs, f)
  PROVE  Stacked(gs) /\ Changed(fs, gs, Len(fs))
<1> DEFINE n == Len(fs)
<1>1. IsList(fs) /\ n \in Nat /\ n >= 1 /\ n \in 1..n BY ListShape DEF Framable
<1>2. Len(gs) = n + 1 /\ gs[n + 1] = f /\ \A i \in 1..n : gs[i] = fs[i] BY <1>1, ListAppend DEF Longer
<1>3. Follows(fs[n], f) /\ \A p \in 1..n - 1 : Follows(fs[p], fs[p + 1]) BY DEF Stacked
<1>4. \A p \in 1..n : Formed(fs[p]) BY DEF Stacked
<1>5. Changed(fs, gs, n) BY <1>1, <1>2 DEF Changed
<1> HIDE DEF n
<1>6. \A p \in 1..n + 1 : Formed(gs[p])
  <2>1. \A p \in 1..n + 1 : p \in 1..n \/ p = n + 1 BY <1>1
  <2> QED BY <2>1, <1>2, <1>4
<1>7. ASSUME NEW p \in 1..(n + 1) - 1 PROVE Follows(gs[p], gs[p + 1])
  <2>1. p \in 1..n /\ gs[p] = fs[p] BY <1>1, <1>2
  <2>2. CASE p = n BY <2>1, <2>2, <1>2, <1>3
  <2>3. CASE p /= n
    <3>1. p \in 1..n - 1 /\ p + 1 \in 1..n BY <2>1, <2>3, <1>1
    <3> QED BY <3>1, <2>1, <1>2, <1>3
  <2> QED BY <2>2, <2>3
<1> QED BY <1>2, <1>5, <1>6, <1>7 DEF Stacked, n

LEMMA StackedFront ==
  ASSUME NEW fs, Framable(fs), Stacked(fs), NEW gs, gs = Front(fs)
  PROVE  Stacked(gs) /\ Changed(fs, gs, Len(fs))
<1> DEFINE n == Len(fs)
<1>1. IsList(fs) /\ n \in Nat /\ n >= 1 /\ n \in 1..n BY ListShape DEF Framable
<1>2. Len(gs) = n - 1 /\ \A i \in 1..n - 1 : gs[i] = fs[i] BY <1>1, ListFront
<1>3. \A p \in 1..n - 1 : Follows(fs[p], fs[p + 1]) BY DEF Stacked
<1>4. \A p \in 1..n : Formed(fs[p]) BY DEF Stacked
<1>5. Changed(fs, gs, n) BY <1>1, <1>2 DEF Changed
<1> HIDE DEF n
<1>6. \A p \in 1..n - 1 : Formed(gs[p])
  <2>1. \A p \in 1..n - 1 : p \in 1..n BY <1>1
  <2> QED BY <2>1, <1>2, <1>4
<1>7. ASSUME NEW p \in 1..(n - 1) - 1 PROVE Follows(gs[p], gs[p + 1])
  <2>1. p \in 1..n - 1 /\ p + 1 \in 1..n - 1 BY <1>1
  <2> QED BY <2>1, <1>2, <1>3
<1> QED BY <1>2, <1>5, <1>6, <1>7 DEF Stacked, n

LEMMA StackedReplaced ==
  ASSUME NEW fs, IsList(fs), Len(fs) >= 1, Stacked(fs), NEW f, Formed(f), f.kind = fs[Len(fs)].kind,
         NEW gs, gs = Replaced(fs, Len(fs), f)
  PROVE  /\ Stacked(gs) /\ Len(gs) = Len(fs) /\ gs[Len(fs)] = f
         /\ \A i \in 1..Len(fs) - 1 : gs[i] = fs[i]
<1> DEFINE n == Len(fs)
<1>1. IsList(fs) /\ n \in Nat /\ n >= 1 /\ n \in 1..n BY ListShape
<1>2. Len(gs) = n /\ gs[n] = f /\ \A i \in 1..n : i /= n => gs[i] = fs[i] BY <1>1, ListExcept
<1>3. \A p \in 1..n - 1 : Follows(fs[p], fs[p + 1]) BY DEF Stacked
<1>4. \A p \in 1..n : Formed(fs[p]) BY DEF Stacked
<1>5. f.kind = fs[n].kind OBVIOUS
<1> HIDE DEF n
<1>6. \A p \in 1..n : Formed(gs[p])
  <2>1. \A p \in 1..n : p = n \/ gs[p] = fs[p] BY <1>2
  <2> QED BY <2>1, <1>2, <1>4
<1>7. ASSUME NEW p \in 1..n - 1 PROVE Follows(gs[p], gs[p + 1])
  <2>1. gs[p] = fs[p] /\ gs[p + 1].kind = fs[p + 1].kind BY <1>1, <1>2, <1>5
  <2>2. Follows(fs[p], fs[p + 1]) BY <1>3
  <2> QED BY <2>1, <2>2 DEF Follows
<1>8. \A i \in 1..n - 1 : gs[i] = fs[i] BY <1>1, <1>2
<1> QED BY <1>2, <1>6, <1>7, <1>8 DEF Stacked, n

LEMMA InvTells ==
  ASSUME Inv, Tells
  PROVE  /\ Well(scopes, frames) /\ Telling(scopes, frames) /\ Stacked(frames)
         /\ Len(scopes) \in 1..Len(scopes) /\ current = scopes[Len(scopes)] /\ current = Last(scopes)
         /\ Warranted(current, Opened(frames, Len(scopes)))
         /\ Shaped(current, Len(scopes) - 1) /\ Len(current.contexts) >= 1
         /\ Changed(frames, frames, Len(frames)) /\ Len(frames) \in Nat
<1>1. /\ Well(scopes, frames) /\ Len(scopes) >= 1 /\ Len(scopes) \in Nat /\ Len(frames) \in Nat /\ Len(frames) >= 1
      /\ current = Last(scopes)
  BY InvOpen
<1>2. Telling(scopes, frames) /\ Stacked(frames) BY DEF Tells, TellsIn
<1>3. Len(scopes) \in 1..Len(scopes) /\ current = scopes[Len(scopes)] BY <1>1 DEF Last
<1>4. Warranted(current, Opened(frames, Len(scopes))) BY <1>2, <1>3 DEF Telling
<1>5. Shaped(current, Len(scopes) - 1) /\ Len(current.contexts) >= 1
  <2> HIDE DEF current
  <2> QED BY <1>1, ScopeDepth
<1>6. Changed(frames, frames, Len(frames)) BY <1>1 DEF Changed
<1> QED BY <1>1, <1>2, <1>3, <1>4, <1>5, <1>6

(* Where no branch or loop is within another, a construct is entered from none. *)
LEMMA NotEnclosed ==
  ASSUME Inv, Tells, ~Enclosed
  PROVE  Opened(frames, Len(scopes)) = {}
<1> DEFINE n == Len(frames)
<1>1. /\ n \in Nat /\ Stacked(frames) /\ Len(scopes) = Rank(frames, n) /\ DOMAIN frames = 1..n
  BY InvTells, InvOpen, ListShape DEF Well, Framable
<1> HIDE DEF n
<1> SUFFICES ASSUME NEW p \in Owned(frames, Len(scopes), Branching) PROVE FALSE BY DEF Opened
<1>2. p \in 1..n /\ Rank(frames, p) = Rank(frames, n) /\ frames[p].kind \in Branching BY <1>1 DEF Owned, n
<1>3. ASSUME NEW k \in p..n PROVE frames[k].kind \in Branching \cup {"block"}
  <2>1. CASE k = p BY <2>1, <1>2
  <2>2. CASE k /= p
    <3>1. k - 1 \in Nat /\ k \in Nat /\ p <= k - 1 /\ k - 1 <= n /\ p <= k /\ k <= n /\ k \in 1..n /\ (k - 1) + 1 = k
      BY <2>2, <1>1, <1>2
    <3>2. Rank(frames, k - 1) = Rank(frames, n) /\ Rank(frames, k) = Rank(frames, n)
      BY <3>1, <1>1, <1>2, RankBetween
    <3>3. /\ Rank(frames, (k - 1) + 1) =
               Rank(frames, k - 1) + (IF frames[(k - 1) + 1].kind \in Delimiting THEN 1 ELSE 0)
          /\ Rank(frames, k - 1) \in Nat
      BY <3>1, RankStep
    <3>4. frames[k].kind \notin Delimiting BY <3>1, <3>2, <3>3
    <3>5. Formed(frames[k]) BY <3>1, <1>1 DEF Stacked, n
    <3> QED BY <3>4, <3>5 DEF Formed
  <2> QED BY <2>1, <2>2
<1> QED BY <1>1, <1>2, <1>3 DEF Enclosed, n

(* A scope that is assigned to in a block ... *)
LEMMA WarrantedInStatements ==
  ASSUME Inv, Tells, IsBlock(top), NEW t, NEW ids, Assigns(current, t, ids)
  PROVE  Warranted(t, Opened(frames, Len(scopes)))
<1> DEFINE branches == Opened(frames, Len(scopes))
<1>1. /\ Warranted(current, branches) /\ Shaped(current, Len(scopes) - 1) /\ Len(current.contexts) >= 1
      /\ Well(scopes, frames) /\ Stacked(frames) /\ current = Last(scopes)
  BY InvTells
<1>2. top = frames[Len(frames)] BY InvOpen
<1>3. ASSUME NEW c \in branches
      PROVE  (\E b \in branches : GrowsBy(current, b, c, ids)) /\ ~(c.depth >= Len(current.contexts))
  <2>1. PICK p \in Owned(frames, Len(scopes), Branching) : c = View(frames, p) BY DEF Opened
  <2>2. /\ p \in 1..Len(frames) /\ frames[p].kind \in Branching
        /\ p < Len(frames) => Depth(frames, p) \in Nat /\ Depth(frames, p) < Len(current.contexts)
    <3> HIDE DEF current
    <3> QED BY <1>1, OuterViews
  <2>3. p /= Len(frames) BY <2>2, <1>2 DEF IsBlock, Branching
  <2>4. p < Len(frames) BY <2>2, <2>3, InvOpen
  <2>5. c.depth = Depth(frames, p) BY <2>1 DEF View
  <2>6. Len(current.contexts) \in Nat BY <1>1, ListShape DEF Shaped
  <2>7. GrowsBy(current, c, c, ids) BY DEF GrowsBy, Grows
  <2> HIDE DEF branches, current
  <2> QED BY <2>2, <2>4, <2>5, <2>6, <2>7
<1>4. Apart(branches) BY <1>1, InvTells, ViewsApart
<1> HIDE DEF branches, current
<1>5. Warranted(t, branches) BY <1>1, <1>3, <1>4, AssignsWarranted
<1> QED BY <1>5 DEF branches

(* ... and one in which nothing is assigned. *)
LEMMA WarrantedUnassigned ==
  ASSUME Inv, Tells, NEW t, Assigns(current, t, {})
  PROVE  Warranted(t, Opened(frames, Len(scopes)))
<1> DEFINE branches == Opened(frames, Len(scopes))
<1>1. /\ Warranted(current, branches) /\ Shaped(current, Len(scopes) - 1) /\ Len(current.contexts) >= 1
  BY InvTells
<1>2. \A c \in branches : (\E b \in branches : GrowsBy(current, b, c, {})) /\ {} \subseteq c.before
  BY DEF GrowsBy, Grows
<1>3. Apart(branches) BY InvTells, ViewsApart
<1> HIDE DEF branches, current
<1>4. Warranted(t, branches) BY <1>1, <1>2, <1>3, AssignsWarranted
<1> QED BY <1>4 DEF branches

LEMMA TellsUpdated ==
  ASSUME Inv, Tells, NEW t, Warranted(t, Opened(frames, Len(scopes))),
         scopes' = Replaced(scopes, Len(scopes), t), frames' = frames
  PROVE  Tells'
<1>1. /\ Well(scopes, frames) /\ Telling(scopes, frames) /\ Stacked(frames)
      /\ Changed(frames, frames, Len(frames))
  BY InvTells
<1> DEFINE next == Replaced(scopes, Len(scopes), t)
<1>2. Telling(next, frames)
  <2>1. next = Replaced(scopes, Len(scopes), t) OBVIOUS
  <2> HIDE DEF next
  <2> QED BY <1>1, <2>1, StaysTelling
<1>3. TellsIn(scopes', frames') BY <1>1, <1>2 DEF TellsIn
<1> QED BY <1>3 DEF Tells

(* A variable that may be read where it is, is sure there. *)
LEMMA VisibleIsSure ==
  ASSUME NEW s, NEW depth \in Nat, Shaped(s, depth), Len(s.contexts) >= 1, NEW branches, Assured(s, branches),
         NEW id \in Own(s), Visible(s, When(s, id))
  PROVE  id \in s.sure
<1> DEFINE c == When(s, id)
           n == Len(s.contexts)
<1>1. n \in Nat /\ n \in 1..n /\ current_context(s) = s.contexts[n] /\ current_context_depth(s) = n
  BY ListShape DEF Shaped, current_context, current_context_depth, Last
<1>2. c.scope_depth = s.scope_depth /\ c.depth \in Nat \ {0} BY DEF Assured, Dated
<1>3. current_context(s).scope_depth = s.scope_depth BY <1>1 DEF Assured, Dated
<1>4. ~(s.scope_depth < s.scope_depth)
  <2>1. s.scope_depth = depth BY DEF Shaped
  <2> QED BY <2>1
<1> HIDE DEF c, n
<1>5. c.depth <= n /\ Context(s, c.depth).uuid = c.uuid
  <2>1. IF c.depth <= n THEN Context(s, c.depth).uuid = c.uuid ELSE c.scope_depth < current_context(s).scope_depth
    BY <1>1 DEF Visible, c
  <2> QED BY <2>1, <1>2, <1>3, <1>4
<1>6. c.depth \in 1..n /\ Uuid(s, c.depth) = c.uuid BY <1>1, <1>2, <1>5 DEF Context, Uuid
<1>7. Told(s, c.depth, id) BY <1>6 DEF Told, c
<1> QED BY <1>6, <1>7 DEF Assured, SureOf, n

(* ... and one whose context lives may be read. *)
LEMMA LivesVisible ==
  ASSUME NEW s, NEW id, Lives(s, id)
  PROVE  Visible(s, When(s, id))
<1>1. When(s, id).depth <= Len(s.contexts) BY DEF Lives
<1> QED BY <1>1 DEF Lives, Visible, Context, Uuid, current_context_depth

LEMMA ReferenceTells ==
  ASSUME Inv, Tells, NEW x, NEW kind, Reference(x, kind)
  PROVE  Tells' /\ NoMissedWarning' /\ NoSpuriousWarning'
<1> DEFINE n == Len(scopes)
           first == register_identifier_reference(scopes, Id(x))
           was_variable == has_variable(Id(x))
           warned == Warned(first, Id(x))
           compound == kind = "member" /\ ~was_variable
           open == Replaced(scopes, n, warned)
           second == register_identifier_reference(open, Member(x))
           scope == IF compound THEN second.scope ELSE warned
           t == IF was_variable THEN scope ELSE Called(scope, Id(x))
           s == Last(scopes)
<1>1. Well(scopes, frames) /\ Sound(scopes) /\ n >= 1 /\ n \in Nat /\ current = s BY InvOpen
<1>2. scopes' = Replaced(scopes, n, t) /\ frames' = frames /\ node'.id = Id(x) /\ node'.success = first.success
  <2>1. Update(t) /\ frames' = frames /\ node'.id = Id(x) /\ node'.success = first.success
    <3> HIDE DEF first, was_variable
    <3> QED BY DEF Reference, Called, Replaced, first, was_variable
  <2> QED BY <2>1, UpdateIs
<1>3. /\ Assigns(s, first.scope, {})
      /\ Id(x) \in Own(s) => was_variable /\ (first.success <=> Visible(s, When(s, Id(x))))
      /\ Becomes(scopes, first.scope, {})
  <2>1. first = register_identifier_reference(scopes, Id(x)) OBVIOUS
  <2>2. was_variable <=> is_variable(lookup_variable(scopes, n, Id(x))) BY DEF has_variable
  <2> HIDE DEF first, was_variable
  <2> QED BY <1>1, <2>1, <2>2, ReferenceAssigns, ReferenceBecomes
<1> HIDE DEF first, was_variable
<1>4. /\ Recorded(first.scope, warned) /\ warned.sure = first.scope.sure /\ Becomes(scopes, warned, {})
      /\ ~first.success => Id(x) \in warned.reported
  <2>1. warned = IF first.success THEN first.scope ELSE Report(first.scope, Id(x)) BY DEF Warned
  <2>2. DOMAIN first.scope = ScopeFields BY <1>3 DEF Becomes, Known
  <2>3. Becomes(scopes, Report(first.scope, Id(x)), {}) BY <1>3, ReportedBecomes
  <2> DEFINE e == first.scope.reported \cup {Id(x)}
  <2>4. Report(first.scope, Id(x)) = [first.scope EXCEPT !.reported = e] BY DEF Report
  <2>5. Id(x) \in Report(first.scope, Id(x)).reported BY <2>2 DEF Report, ScopeFields
  <2> HIDE DEF e
  <2>6. /\ Recorded(first.scope, Report(first.scope, Id(x))) /\ Report(first.scope, Id(x)).sure = first.scope.sure
        /\ Recorded(first.scope, first.scope)
    BY <2>2, <2>4, Recordings
  <2> HIDE DEF warned
  <2> QED BY <1>3, <2>1, <2>3, <2>5, <2>6
<1> HIDE DEF warned, s
<1>5. Assigns(s, warned, {}) BY <1>3, <1>4, RecordedAssigns
<1>6. /\ Sound(open) /\ Len(open) = n /\ Last(open) = warned
  <2>1. open = Replaced(scopes, Len(scopes), warned) OBVIOUS
  <2> HIDE DEF open
  <2> QED BY <1>1, <1>4, <2>1, UpdateSound DEF Becomes
<1> HIDE DEF open
<1>7. Assigns(warned, second.scope, {}) /\ Becomes(open, second.scope, {})
  <2>1. second = register_identifier_reference(open, Member(x)) OBVIOUS
  <2> HIDE DEF second
  <2> QED BY <1>1, <1>6, <2>1, ReferenceAssigns, ReferenceBecomes
<1> HIDE DEF second
<1>8. Assigns(s, scope, {}) /\ DOMAIN scope = ScopeFields
  <2>1. Assigns(s, second.scope, {}) BY <1>5, <1>7, AssignsNothing
  <2>2. DOMAIN second.scope = ScopeFields /\ DOMAIN warned = ScopeFields BY <1>4, <1>7 DEF Becomes, Known
  <2> QED BY <1>5, <2>1, <2>2
<1>9. was_variable => t = warned OBVIOUS
<1> HIDE DEF scope
<1>10. Assigns(s, t, {})
  <2> DEFINE e == scope.called \cup {Id(x)}
  <2>1. Called(scope, Id(x)) = [scope EXCEPT !.called = e] BY DEF Called
  <2> HIDE DEF e
  <2>2. Recorded(scope, Called(scope, Id(x))) /\ Called(scope, Id(x)).sure = scope.sure BY <1>8, <2>1, Recordings
  <2>3. Assigns(s, Called(scope, Id(x)), {}) BY <1>8, <2>2, RecordedAssigns
  <2> QED BY <1>8, <2>3
<1> HIDE DEF t
<1>11. Tells'
  <2>1. Warranted(t, Opened(frames, n)) BY <1>1, <1>10, WarrantedUnassigned
  <2> QED BY <1>2, <2>1, TellsUpdated
<1>a. current' = t
  <2>1. IsList(scopes) /\ n \in 1..n BY <1>1 DEF Sound
  <2>2. scopes' = Replaced(scopes, n, t) BY <1>2
  <2>3. Len(scopes') = n /\ scopes'[n] = t BY <2>1, <2>2, ListExcept
  <2> QED BY <2>3 DEF Last, current
<1>b. Warranted(s, Opened(frames, n)) /\ Shaped(s, n - 1) /\ Len(s.contexts) >= 1 BY <1>1, InvTells
<1>c. s.sure = t.sure /\ (t.flat => s.flat) /\ (Id(x) \in DOMAIN t.local_variables => Id(x) \in Own(s))
  BY <1>10 DEF Assigns, Tracks, Advances, Own
<1>12. NoMissedWarning'
  <2> SUFFICES ASSUME Id(x) \in DOMAIN t.local_variables, Id(x) \notin t.sure PROVE Id(x) \in t.reported
    <3> HIDE DEF current
    <3> QED BY <1>2, <1>a DEF NoMissedWarning, OwnVariable
  <2>1. Id(x) \in Own(s) BY <1>c
  <2>2. was_variable /\ (first.success => Visible(s, When(s, Id(x)))) BY <2>1, <1>3
  <2>3. ~first.success
    <3>1. Assured(s, Opened(frames, n)) /\ n - 1 \in Nat BY <1>1, <1>b DEF Warranted
    <3>2. Visible(s, When(s, Id(x))) => Id(x) \in s.sure BY <2>1, <3>1, <1>b, VisibleIsSure
    <3> QED BY <2>2, <1>c, <3>2
  <2> QED BY <1>4, <1>9, <2>2, <2>3
<1>13. NoSpuriousWarning'
  <2> SUFFICES ASSUME Id(x) \in DOMAIN t.local_variables, Id(x) \in t.sure, t.flat PROVE first.success
    <3> HIDE DEF current
    <3> QED BY <1>2, <1>a DEF NoSpuriousWarning, OwnVariable
  <2>1. Id(x) \in Own(s) \cap s.sure /\ s.flat BY <1>c
  <2>2. Lives(s, Id(x)) BY <2>1, <1>b DEF Warranted, Plain
  <2> QED BY <2>1, <2>2, <1>3, LivesVisible
<1> QED BY <1>11, <1>12, <1>13

LEMMA FunctionReferenceTells ==
  ASSUME Inv, Tells, NEW x, FunctionReference(x)
  PROVE  Tells'
<1> DEFINE n == Len(scopes)
           result == register_identifier_reference(scopes, Id(x))
           t == IF is_function(result.info) THEN Called(result.scope, Id(x)) ELSE Report(result.scope, Id(x))
           s == Last(scopes)
<1>1. Well(scopes, frames) /\ Sound(scopes) /\ n >= 1 /\ current = s BY InvOpen
<1>2. scopes' = Replaced(scopes, n, t) /\ frames' = frames
  <2>1. Update(t) /\ frames' = frames
    <3> HIDE DEF result
    <3> QED BY DEF FunctionReference, Called, result
  <2> QED BY <2>1, UpdateIs
<1>3. Assigns(s, result.scope, {}) /\ DOMAIN result.scope = ScopeFields
  <2>1. result = register_identifier_reference(scopes, Id(x)) OBVIOUS
  <2> HIDE DEF result
  <2> QED BY <1>1, <2>1, ReferenceAssigns, ReferenceBecomes DEF Becomes, Known
<1> HIDE DEF result, s
<1>4. Recorded(result.scope, t) /\ t.sure = result.scope.sure
  <2> DEFINE e == result.scope.reported \cup {Id(x)}
             c == result.scope.called \cup {Id(x)}
  <2>1. /\ Report(result.scope, Id(x)) = [result.scope EXCEPT !.reported = e]
        /\ Called(result.scope, Id(x)) = [result.scope EXCEPT !.called = c]
    BY DEF Report, Called
  <2> HIDE DEF e, c
  <2>2. Recorded(result.scope, Report(result.scope, Id(x))) /\ Report(result.scope, Id(x)).sure = result.scope.sure
    BY <1>3, <2>1, Recordings
  <2>3. Recorded(result.scope, Called(result.scope, Id(x))) /\ Called(result.scope, Id(x)).sure = result.scope.sure
    BY <1>3, <2>1, Recordings
  <2> QED BY <2>2, <2>3
<1> HIDE DEF t
<1>5. Assigns(current, t, {}) BY <1>1, <1>3, <1>4, RecordedAssigns
<1>6. Warranted(t, Opened(frames, n)) BY <1>5, WarrantedUnassigned
<1> QED BY <1>2, <1>6, TellsUpdated

LEMMA AssignedTells ==
  ASSUME Inv, NEW x, NEW result, result = Assigned(scopes, variables, x, FALSE), NEW t,
         t = result.scope \/ t = Report(result.scope, Id(x)) \/ t = Nesting(result.scope)
  PROVE  /\ \E ids \in SUBSET {Id(x)} : Assigns(current, t, ids) /\ Settles(current, Id(x), ids)
         /\ t.sure = result.scope.sure /\ DOMAIN t = ScopeFields
<1> DEFINE s == result.scope
<1>1. Sound(scopes) /\ Len(scopes) >= 1 /\ current = Last(scopes) BY InvOpen
<1>2. Covered(Last(scopes)) BY <1>1, CurrentHolds DEF Holds, Shaped
<1>3. PICK ids \in SUBSET {Id(x)} : Assigns(current, s, ids) /\ Settles(current, Id(x), ids)
  <2> HIDE DEF current
  <2>1. \E ids \in SUBSET {Id(x)} : Assigns(Last(scopes), result.scope, ids) /\ Settles(Last(scopes), Id(x), ids)
    BY <1>1, <1>2, AssignedAssigns
  <2> QED BY <1>1, <2>1
<1>4. DOMAIN s = ScopeFields BY <1>1, AssignedBecomes DEF Becomes, Known
<1>5. DOMAIN t = ScopeFields
  <2>1. Becomes(scopes, t, {}) BY AssignedHere
  <2> QED BY <2>1 DEF Becomes, Known
<1> DEFINE e == s.reported \cup {Id(x)}
           f == s.flat /\ ~Enclosed
<1>6. Report(s, Id(x)) = [s EXCEPT !.reported = e] BY DEF Report
<1>7. Nesting(s) = [s EXCEPT !.flat = f] BY <1>4 DEF Nesting, ScopeFields
<1>8. t = s \/ t = Report(s, Id(x)) \/ t = Nesting(s) OBVIOUS
<1> HIDE DEF e, f, s
<1>9. Recorded(s, t) /\ t.sure = s.sure
  <2>1. Recorded(s, s) /\ s.sure = s.sure BY <1>4, Recordings
  <2>2. Recorded(s, Report(s, Id(x))) /\ Report(s, Id(x)).sure = s.sure BY <1>4, <1>6, Recordings
  <2>3. Recorded(s, Nesting(s)) /\ Nesting(s).sure = s.sure
    <3>1. f => s.flat BY DEF f
    <3> QED BY <1>4, <1>7, <3>1, Recordings
  <2> QED BY <1>8, <2>1, <2>2, <2>3
<1>10. Assigns(current, t, ids) BY <1>3, <1>9, RecordedAssigns
<1> QED BY <1>3, <1>5, <1>9, <1>10 DEF s

LEMMA AssignTells ==
  ASSUME Inv, Tells, NEW x, NEW subscripted, Assign(x, subscripted)
  PROVE  Tells'
<1> DEFINE result == Assigned(scopes, variables, x, FALSE)
           t == IF subscripted /\ result.was_initialization THEN Report(result.scope, Id(x)) ELSE result.scope
<1>1. Update(t) /\ frames' = frames /\ IsBlock(top)
  <2> HIDE DEF result
  <2> QED BY DEF Assign, InStatements, result
<1>2. result = Assigned(scopes, variables, x, FALSE) OBVIOUS
<1> HIDE DEF result
<1>3. PICK ids \in SUBSET {Id(x)} : Assigns(current, t, ids) BY <1>2, AssignedTells
<1> HIDE DEF t
<1>4. scopes' = Replaced(scopes, Len(scopes), t) BY <1>1, UpdateIs
<1>5. Warranted(t, Opened(frames, Len(scopes))) BY <1>1, <1>3, WarrantedInStatements
<1> QED BY <1>1, <1>4, <1>5, TellsUpdated

LEMMA VariableDeclarationTells ==
  ASSUME Inv, Tells, NEW x, VariableDeclaration(x)
  PROVE  Tells'
<1> DEFINE result == Assigned(scopes, variables, x, FALSE)
           t == result.scope
<1>1. Update(t) /\ frames' = frames /\ IsBlock(top)
  <2> HIDE DEF result
  <2> QED BY DEF VariableDeclaration, InStatements, result
<1>2. result = Assigned(scopes, variables, x, FALSE) OBVIOUS
<1> HIDE DEF result
<1>3. PICK ids \in SUBSET {Id(x)} : Assigns(current, t, ids) BY <1>2, AssignedTells
<1> HIDE DEF t
<1>4. scopes' = Replaced(scopes, Len(scopes), t) BY <1>1, UpdateIs
<1>5. Warranted(t, Opened(frames, Len(scopes))) BY <1>1, <1>3, WarrantedInStatements
<1> QED BY <1>1, <1>4, <1>5, TellsUpdated

LEMMA EndFunctionTells ==
  ASSUME Inv, Tells, EndAnonymousFunction \/ EndFunctionDef
  PROVE  Tells'
<1>1. scopes' = Front(scopes) /\ frames' = Front(frames) BY DEF EndAnonymousFunction, EndFunctionDef
<1>2. Well(scopes, frames) /\ Telling(scopes, frames) /\ Stacked(frames) /\ Framable(frames)
  BY InvTells, InvOpen
<1>3. Stacked(frames') BY <1>1, <1>2, StackedFront
<1>4. Telling(scopes', frames') BY <1>1, <1>2, LeavesTelling
<1> QED BY <1>3, <1>4 DEF Tells, TellsIn

------------------------------------------------------------------------------
(* What entering and leaving blocks and constructs makes of a scope. *)

LEMMA PushedDeepens ==
  ASSUME NEW s, DOMAIN s = ScopeFields, NEW depth, Shaped(s, depth), NEW branches, Assured(s, branches),
         NEW t, t = push_context(s)
  PROVE  Deepened(s, t) /\ DOMAIN t = ScopeFields
<1> DEFINE uuid == s.context_uuid
           n == Len(s.contexts)
           context == [depth |-> n + 1, scope_depth |-> s.scope_depth, uuid |-> uuid]
           e == Longer(s.contexts, context)
           u == [s EXCEPT !.context_uuid = uuid + 1, !.contexts = e]
           ac == s.assignment_contexts
           m == Len(ac)
           last == [ac[m] EXCEPT !.children = @ \cup {uuid}]
           a == Replaced(ac, m, last)
<1>1. /\ IsList(s.contexts) /\ n \in Nat /\ IsList(ac) /\ m \in Nat
      /\ \A i \in 1..m : DOMAIN ac[i] = {"children", "assigned"}
  BY ListShape DEF Shaped, Covered, Assured, Dated
<1>2. /\ IsList(e) /\ Len(e) = n + 1 /\ e[n + 1] = context /\ \A d \in 1..n : e[d] = s.contexts[d]
  <2>1. e = Append(s.contexts, context) BY DEF Longer
  <2> HIDE DEF e, context, n
  <2>2. IsList(Append(s.contexts, context)) /\ Len(Append(s.contexts, context)) = n + 1
        /\ Append(s.contexts, context)[n + 1] = context
        /\ \A d \in 1..n : Append(s.contexts, context)[d] = s.contexts[d]
    BY <1>1, ListAppend DEF n
  <2> QED BY <2>1, <2>2
<1>3. t = IF ac = <<>> THEN u ELSE [u EXCEPT !.assignment_contexts = a]
  <2>1. t = IF s.assignment_contexts = <<>> THEN [s EXCEPT !.context_uuid = uuid + 1, !.contexts = Append(@, context)]
          ELSE [[s EXCEPT !.context_uuid = uuid + 1, !.contexts = Append(@, context)]
                  EXCEPT !.assignment_contexts[Len(s.assignment_contexts)].children = @ \cup {uuid}]
    BY Zenon DEF push_context
  <2> HIDE DEF uuid, context
  <2>2. [s EXCEPT !.context_uuid = uuid + 1, !.contexts = Append(@, context)] = u BY DEF Longer, ScopeFields
  <2>3. DOMAIN u = ScopeFields /\ u.assignment_contexts = ac BY DEF ScopeFields
  <2> HIDE DEF u, e
  <2>4. [u EXCEPT !.assignment_contexts[Len(s.assignment_contexts)].children = @ \cup {uuid}]
          = [u EXCEPT !.assignment_contexts = a]
    BY <2>3 DEF ScopeFields, Replaced
  <2> QED BY <2>1, <2>2, <2>4
<1> HIDE DEF e, context
<1>4. /\ t.scope_depth = s.scope_depth /\ t.contexts = e /\ t.context_uuid = uuid + 1
      /\ t.classified = s.classified /\ t.local_variables = s.local_variables /\ t.sure = s.sure /\ t.flat = s.flat
      /\ t.assignment_contexts = (IF ac = <<>> THEN ac ELSE a) /\ DOMAIN t = ScopeFields
  <2> HIDE DEF a
  <2> QED BY <1>3 DEF ScopeFields
<1> DEFINE b == t.assignment_contexts
           after == IF ac = <<>> THEN ac ELSE a
<1>5. /\ Len(after) = m
      /\ \A i \in 1..m : /\ DOMAIN after[i] = {"children", "assigned"} /\ after[i].assigned = ac[i].assigned
                         /\ after[i].children = ac[i].children \cup IF i = m THEN {uuid} ELSE {}
  <2>1. CASE ac = <<>>
    <3>1. m = 0 /\ after = ac
      <4>1. Len(<<>>) = 0 OBVIOUS
      <4> QED BY <4>1, <2>1
    <3> QED BY <3>1
  <2>2. CASE ac /= <<>>
    <3>1. m \in 1..m
      <4>1. m /= 0 BY <2>2, <1>1, EmptySeq DEF IsList
      <4> QED BY <4>1, <1>1
    <3>2. DOMAIN last = {"children", "assigned"} /\ last.assigned = ac[m].assigned /\ last.children = ac[m].children \cup {uuid}
      <4>1. DOMAIN ac[m] = {"children", "assigned"} BY <1>1, <3>1
      <4> DEFINE f == ac[m]
      <4> HIDE DEF f, uuid
      <4>2. DOMAIN f = {"children", "assigned"} =>
              LET g == [f EXCEPT !.children = @ \cup {uuid}]
              IN  DOMAIN g = {"children", "assigned"} /\ g.assigned = f.assigned /\ g.children = f.children \cup {uuid}
        OBVIOUS
      <4> QED BY <4>1, <4>2 DEF f
    <3> HIDE DEF last
    <3>3. Len(a) = m /\ a[m] = last /\ \A i \in 1..m : i /= m => a[i] = ac[i]
      <4>1. a = Replaced(ac, m, last) /\ m = Len(ac) OBVIOUS
      <4> HIDE DEF a, ac, m
      <4> QED BY <1>1, <3>1, <4>1, ListExcept
    <3>4. after = a BY <2>2
    <3> HIDE DEF after, a, ac, m, uuid
    <3>5. ASSUME NEW i \in 1..m
          PROVE  /\ DOMAIN a[i] = {"children", "assigned"} /\ a[i].assigned = ac[i].assigned
                 /\ a[i].children = ac[i].children \cup IF i = m THEN {uuid} ELSE {}
      <4>1. CASE i = m BY <4>1, <3>2, <3>3
      <4>2. CASE i /= m BY <4>2, <1>1, <3>3
      <4> QED BY <4>1, <4>2
    <3> QED BY <3>3, <3>4, <3>5
  <2> QED BY <2>1, <2>2
<1>6. b = after BY <1>4
<1> HIDE DEF after, ac, a
<1>7. \A i \in 1..m : /\ DOMAIN b[i] = {"children", "assigned"} /\ b[i].assigned = s.assignment_contexts[i].assigned
                      /\ Children(t, i) = Children(s, i) \cup IF i = m THEN {uuid} ELSE {}
  BY <1>5, <1>6 DEF Children, ac
<1>8. Len(b) = Len(s.assignment_contexts) /\ m = Len(s.assignment_contexts) BY <1>5, <1>6 DEF ac
<1>9. Rebuilt(s, t) BY <1>4 DEF Rebuilt
<1>10. t.contexts[n + 1] = context /\ Len(t.contexts) = n + 1 /\ \A d \in 1..n : t.contexts[d] = s.contexts[d]
  BY <1>2, <1>4
<1> QED BY <1>4, <1>7, <1>8, <1>9, <1>10 DEF Deepened, context

LEMMA PoppedShallows ==
  ASSUME NEW s, DOMAIN s = ScopeFields, NEW depth, Shaped(s, depth), Len(s.contexts) >= 1,
         NEW e, NEW t, t = [pop_context(s) EXCEPT !.sure = e]
  PROVE  Shallowed(s, t) /\ t.sure = e
<1> DEFINE k == s.contexts
           f == Front(k)
<1>1. IsList(k) /\ Len(k) >= 1 /\ f = Front(k) BY DEF Shaped
<1> HIDE DEF k, f
<1>2. Len(f) = Len(k) - 1 /\ \A d \in 1..Len(k) - 1 : f[d] = k[d] BY <1>1, ListFront
<1>3. pop_context(s) = [s EXCEPT !.contexts = f] BY DEF pop_context, f, k
<1>4. t = [s EXCEPT !.contexts = f, !.sure = e]
  <2> DEFINE u == pop_context(s)
  <2>1. t = [u EXCEPT !.sure = e] /\ u = [s EXCEPT !.contexts = f] BY <1>3
  <2> HIDE DEF u
  <2> QED BY <2>1 DEF ScopeFields
<1>5. /\ t.scope_depth = s.scope_depth /\ t.contexts = f /\ t.context_uuid = s.context_uuid /\ t.sure = e
      /\ t.classified = s.classified /\ t.local_variables = s.local_variables
      /\ t.assignment_contexts = s.assignment_contexts /\ t.flat = s.flat
  BY <1>4 DEF ScopeFields
<1> QED BY <1>2, <1>5 DEF Shallowed, Rebuilt, k

LEMMA BranchingBranches ==
  ASSUME NEW s, DOMAIN s = ScopeFields, NEW depth, Shaped(s, depth), NEW joins,
         NEW u, u = IF joins THEN push_variable_assignment_context(s) ELSE s
  PROVE  /\ Branched(s, u) /\ DOMAIN u = ScopeFields
         /\ Len(u.assignment_contexts) = Len(s.assignment_contexts) + IF joins THEN 1 ELSE 0
         /\ Len(s.assignment_contexts) \in Nat
<1> DEFINE new == [children |-> {}, assigned |-> << >>]
           ac == s.assignment_contexts
           m == Len(ac)
           e == Append(ac, new)
<1>1. IsList(ac) /\ m \in Nat BY ListShape DEF Shaped, Covered
<1>2. CASE ~joins
  <2>1. u = s BY <1>2
  <2>2. \A i \in 1..m : i <= m BY <1>1
  <2> QED BY <1>1, <1>2, <2>1, <2>2 DEF Branched, Rebuilt
<1>3. CASE joins
  <2>1. u = [s EXCEPT !.assignment_contexts = Append(@, new)]
    BY <1>3, Zenon DEF push_variable_assignment_context
  <2>2. Len(e) = m + 1 /\ e[m + 1] = new /\ \A i \in 1..m : e[i] = ac[i]
    <3> HIDE DEF new
    <3> QED BY <1>1, ListAppend
  <2>3. u = [s EXCEPT !.assignment_contexts = e]
    <3> HIDE DEF new
    <3> QED BY <2>1 DEF ScopeFields
  <2> HIDE DEF e, new
  <2>4. /\ u.scope_depth = s.scope_depth /\ u.contexts = s.contexts /\ u.context_uuid = s.context_uuid
        /\ u.classified = s.classified /\ u.local_variables = s.local_variables /\ u.sure = s.sure /\ u.flat = s.flat
        /\ u.assignment_contexts = e /\ DOMAIN u = ScopeFields
    BY <2>3 DEF ScopeFields
  <2> HIDE DEF ac, m
  <2>5. \A i \in 1..m + 1 : e[i] = IF i <= m THEN ac[i] ELSE new
    <3>1. ASSUME NEW i \in 1..m + 1 PROVE e[i] = IF i <= m THEN ac[i] ELSE new
      <4>1. CASE i <= m
        <5>1. i \in 1..m BY <4>1, <1>1
        <5> QED BY <4>1, <5>1, <2>2
      <4>2. CASE ~(i <= m)
        <5>1. i = m + 1 BY <4>2, <1>1
        <5> QED BY <4>2, <5>1, <2>2
      <4> QED BY <4>1, <4>2
    <3> QED BY <3>1
  <2>6. m + 1 \in Nat /\ m + 1 >= m /\ m = Len(s.assignment_contexts) BY <1>1 DEF m, ac
  <2> QED BY <1>1, <1>3, <2>2, <2>4, <2>5, <2>6 DEF Branched, Rebuilt, ac, new
<1> QED BY <1>2, <1>3

LEMMA NestingBranched ==
  ASSUME NEW s, NEW u, Branched(s, u), DOMAIN u = ScopeFields, NEW t, t = Nesting(u)
  PROVE  Branched(s, t) /\ t.assignment_contexts = u.assignment_contexts /\ (t.flat => ~Enclosed)
<1> DEFINE f == u.flat /\ ~Enclosed
<1>1. t = [u EXCEPT !.flat = f] BY DEF Nesting, ScopeFields
<1> HIDE DEF f
<1>2. /\ t.scope_depth = u.scope_depth /\ t.contexts = u.contexts /\ t.context_uuid = u.context_uuid
      /\ t.classified = u.classified /\ t.local_variables = u.local_variables /\ t.sure = u.sure
      /\ t.assignment_contexts = u.assignment_contexts /\ t.flat = (u.flat /\ ~Enclosed)
  BY <1>1 DEF ScopeFields, f
<1> QED BY <1>2 DEF Branched, Rebuilt

LEMMA ListSame ==
  ASSUME NEW s, NEW t, IsList(s), IsList(t), Len(s) = Len(t), \A i \in 1..Len(s) : s[i] = t[i]
  PROVE  s = t
<1> DEFINE S == Range(s) \cup Range(t)
<1>1. s \in Seq(S) /\ t \in Seq(S) BY SeqMonotonic DEF IsList
<1> HIDE DEF S
<1> QED BY <1>1, SeqEqual

(* The context of assignment of a construct goes with it. *)
LEMMA JoinedLeaves ==
  ASSUME NEW s, Known(s), NEW depth, Shaped(s, depth), Len(s.assignment_contexts) >= 1,
         \A a \in 1..Len(s.assignment_contexts) : DOMAIN s.assignment_contexts[a] = {"children", "assigned"},
         NEW u, u = pop_variable_assignment_context(s)
  PROVE  /\ Left(s, u, Promotable(Last(s.assignment_contexts))) /\ DOMAIN u = ScopeFields /\ SameContexts(s, u)
         /\ Len(u.assignment_contexts) = Len(s.assignment_contexts) - 1
<1> DEFINE ac == s.assignment_contexts
           m == Len(ac)
           f == Front(ac)
           promoted == Promotable(Last(ac))
           c == current_context(s)
           e == [id \in DOMAIN s.classified |->
                   IF id \in promoted THEN [s.classified[id] EXCEPT !.context = c] ELSE s.classified[id]]
           t == [s EXCEPT !.assignment_contexts = f, !.classified = e]
<1>1. DOMAIN s = ScopeFields /\ Own(s) \subseteq DOMAIN s.classified BY OwnKnown
<1>2. IsList(ac) /\ m \in Nat /\ m >= 1 BY ListShape DEF Shaped, Covered
<1>3. u = RegisterAssigned(t, promoted)
  BY <1>1 DEF pop_variable_assignment_context, PopPromoting, ScopeFields
<1>4. IsList(f) /\ Len(f) = m - 1 /\ \A a \in 1..m - 1 : f[a] = ac[a] BY <1>2, ListFront
<1> HIDE DEF promoted, c
<1>5. \A id \in DOMAIN s.classified :
        e[id].context = s.classified[id].context \/ (id \in promoted /\ e[id].context = c)
  OBVIOUS
<1>a. \A id \in DOMAIN s.classified : id \in promoted => e[id].context = c BY DEF Known, IsInfo
<1>b. DOMAIN e = DOMAIN s.classified OBVIOUS
<1> HIDE DEF f, e
<1>6. /\ SameContexts(s, t) /\ t.classified = e /\ t.assignment_contexts = f /\ DOMAIN t = ScopeFields
      /\ t.local_variables = s.local_variables /\ t.flat = s.flat
  BY <1>1 DEF ScopeFields, SameContexts
<1> HIDE DEF t
<1>7. current_context(t) = c BY <1>6 DEF current_context, SameContexts, c
<1>8. Tracks(t, u, promoted) /\ u.classified = t.classified /\ (u.flat => t.flat)
  BY <1>3, <1>4, <1>6, TracksRegistered
<1>9. DOMAIN u = ScopeFields /\ u.local_variables = s.local_variables
  <2>1. Alike(s, pop_variable_assignment_context(s)) BY AlikeJoined
  <2>2. Alike(s, u) BY <2>1
  <2> QED BY <2>2 DEF Alike
<1>10. Len(u.assignment_contexts) = m - 1 /\ SameContexts(s, u) BY <1>4, <1>6, <1>8 DEF Tracks, SameContexts
<1>11. ASSUME NEW id \in Own(s) PROVE When(u, id) = When(s, id) \/ (id \in promoted /\ When(u, id) = c)
  <2>1. id \in Own(u) /\ id \in DOMAIN s.classified BY <1>1, <1>9 DEF Own
  <2>2. When(u, id) = When(t, id) \/ (id \in promoted /\ When(u, id) = c) BY <2>1, <1>7, <1>8 DEF Tracks
  <2>3. When(t, id) = When(s, id) \/ (id \in promoted /\ When(t, id) = c) BY <2>1, <1>5, <1>6 DEF When
  <2> QED BY <2>2, <2>3
<1>c. /\ DOMAIN u.classified = DOMAIN s.classified /\ (u.flat => s.flat)
      /\ \A id \in Own(s) \cap promoted : When(u, id) = c
  <2>1. u.classified = e BY <1>6, <1>8
  <2>2. \A id \in Own(s) : id \in DOMAIN s.classified BY <1>1
  <2> QED BY <2>1, <2>2, <1>6, <1>8, <1>a, <1>b DEF When
<1>12. ASSUME NEW a \in 1..m - 1
       PROVE  /\ DOMAIN u.assignment_contexts[a] = {"children", "assigned"}
              /\ Children(u, a) = Children(s, a)
              /\ \A id : AssignedIn(u, a, id) \subseteq
                           AssignedIn(s, a, id) \cup IF id \in promoted THEN {c.uuid} ELSE {}
  <2>1. a \in 1..m /\ a \in 1..Len(t.assignment_contexts) BY <1>2, <1>4, <1>6
  <2>2. t.assignment_contexts[a] = s.assignment_contexts[a] BY <1>4, <1>6
  <2>3. DOMAIN s.assignment_contexts[a] = {"children", "assigned"} BY <2>1
  <2>4. Children(t, a) = Children(s, a) /\ \A id : AssignedIn(t, a, id) = AssignedIn(s, a, id)
    BY <2>2 DEF Children, AssignedIn
  <2>5. /\ DOMAIN u.assignment_contexts[a] = {"children", "assigned"} /\ Children(u, a) = Children(t, a)
        /\ \A id : AssignedIn(u, a, id) \subseteq
                     AssignedIn(t, a, id) \cup IF id \in promoted THEN {current_context(t).uuid} ELSE {}
    BY <2>1, <2>2, <2>3, <1>8 DEF Tracks
  <2> QED BY <2>4, <2>5, <1>7
<1> HIDE DEF ac, m
<1>13. m - 1 \in Nat /\ m - 1 <= m /\ m = Len(s.assignment_contexts) BY <1>2 DEF m, ac
<1>14. Left(s, u, promoted) BY <1>9, <1>10, <1>11, <1>c, <1>12, <1>13 DEF Left, SameContexts, c
<1> QED BY <1>9, <1>10, <1>13, <1>14 DEF promoted, ac, m

(* A context that is entered and left again has been one of the construct. *)
LEMMA AgainHere ==
  ASSUME NEW s, Known(s), NEW depth, Shaped(s, depth), Len(s.contexts) >= 1,
         NEW branches, Assured(s, branches), NEW v, v = pop_context(push_context(s))
  PROVE  /\ Known(v) /\ Shaped(v, depth) /\ v.contexts = s.contexts /\ v.context_uuid = s.context_uuid + 1
         /\ Rebuilt(s, v) /\ Len(v.assignment_contexts) = Len(s.assignment_contexts)
         /\ \A a \in 1..Len(s.assignment_contexts) :
              /\ DOMAIN v.assignment_contexts[a] = {"children", "assigned"}
              /\ v.assignment_contexts[a].assigned = s.assignment_contexts[a].assigned
              /\ Children(v, a) = Children(s, a)
                                    \cup IF a = Len(s.assignment_contexts) THEN {s.context_uuid} ELSE {}
<1> DEFINE p == push_context(s)
           n == Len(s.contexts)
           m == Len(s.assignment_contexts)
<1>1. DOMAIN s = ScopeFields /\ n \in Nat /\ n >= 1 /\ IsList(s.contexts) BY ListShape DEF Known, Shaped
<1>2. Deepened(s, p) /\ DOMAIN p = ScopeFields BY <1>1, PushedDeepens
<1>3. Holds(s, depth, n, m) BY DEF Holds
<1>4. Holds(p, depth, n + 1, m) BY <1>1, <1>3, PushedHolds
<1>5. Alike(s, p) BY <1>1, AlikePushed
<1> HIDE DEF p, n, m
<1>6. v = pop_context(p) BY DEF p
<1>7. Alike(p, v) BY <1>2, <1>6, AlikePopped
<1>8. Known(v) BY <1>5, <1>7, AlikeKnown
<1> DEFINE deeper == n + 1
<1>9. deeper \in Nat \ {0} /\ deeper - 1 = n BY <1>1
<1>10. Holds(p, depth, deeper, m) BY <1>4
<1> HIDE DEF deeper
<1>11. Holds(v, depth, n, m)
  <2>1. Holds(pop_context(p), depth, deeper - 1, m) BY <1>2, <1>9, <1>10, PoppedHolds
  <2> QED BY <2>1, <1>6, <1>9
<1> DEFINE e == Front(p.contexts)
<1>12. v = [p EXCEPT !.contexts = e] BY <1>6 DEF pop_context
<1>13. /\ v.contexts = e /\ v.context_uuid = p.context_uuid /\ v.classified = p.classified
       /\ v.local_variables = p.local_variables /\ v.scope_depth = p.scope_depth
       /\ v.assignment_contexts = p.assignment_contexts /\ v.flat = p.flat
  <2> HIDE DEF e
  <2> QED BY <1>2, <1>12 DEF ScopeFields
<1>14. v.contexts = s.contexts
  <2>1. IsList(p.contexts) /\ Len(p.contexts) = n + 1 BY <1>4 DEF Holds, Shaped
  <2>2. Len(p.contexts) >= 1 BY <2>1, <1>1
  <2>3. IsList(e) /\ \A d \in 1..Len(p.contexts) - 1 : e[d] = p.contexts[d] BY <2>1, <2>2, ListFront
  <2>4. IsList(v.contexts) /\ Len(v.contexts) = n BY <1>11 DEF Holds, Shaped
  <2>5. \A d \in 1..n : p.contexts[d] = s.contexts[d] BY <1>2 DEF Deepened, n
  <2>6. \A d \in 1..n : d \in 1..Len(p.contexts) - 1 BY <2>1, <1>1
  <2> HIDE DEF e
  <2>7. \A d \in 1..n : v.contexts[d] = s.contexts[d] BY <2>3, <2>5, <2>6, <1>13
  <2> QED BY <2>4, <2>7, <1>1, ListSame DEF n
<1>15. Rebuilt(s, v) /\ v.context_uuid = s.context_uuid + 1 BY <1>2, <1>13 DEF Deepened, Rebuilt
<1>16. Shaped(v, depth) /\ Len(v.assignment_contexts) = m BY <1>11 DEF Holds
<1>17. \A a \in 1..m :
         /\ DOMAIN v.assignment_contexts[a] = {"children", "assigned"}
         /\ v.assignment_contexts[a].assigned = s.assignment_contexts[a].assigned
         /\ Children(v, a) = Children(s, a) \cup IF a = m THEN {s.context_uuid} ELSE {}
  BY <1>2, <1>13 DEF Deepened, Children, m
<1> QED BY <1>8, <1>14, <1>15, <1>16, <1>17 DEF m

(* Where no branch may have been taken, nothing is promoted. *)
LEMMA PassedLeaves ==
  ASSUME NEW s, Known(s), NEW depth, Shaped(s, depth), Len(s.contexts) >= 1, Len(s.assignment_contexts) >= 1,
         NEW branches, Assured(s, branches),
         NEW u, u = pop_variable_assignment_context(pop_context(push_context(s)))
  PROVE  /\ Left(s, u, {}) /\ DOMAIN u = ScopeFields
         /\ Len(u.assignment_contexts) = Len(s.assignment_contexts) - 1
<1> DEFINE v == pop_context(push_context(s))
           m == Len(s.assignment_contexts)
           promoted == Promotable(Last(v.assignment_contexts))
<1>1. m \in Nat /\ m >= 1 /\ m \in 1..m BY ListShape DEF Shaped, Covered
<1>2. /\ Known(v) /\ Shaped(v, depth) /\ v.contexts = s.contexts /\ v.context_uuid = s.context_uuid + 1
      /\ Rebuilt(s, v) /\ Len(v.assignment_contexts) = m
      /\ \A a \in 1..m :
           /\ DOMAIN v.assignment_contexts[a] = {"children", "assigned"}
           /\ v.assignment_contexts[a].assigned = s.assignment_contexts[a].assigned
           /\ Children(v, a) = Children(s, a) \cup IF a = m THEN {s.context_uuid} ELSE {}
  BY AgainHere
<1>3. u = pop_variable_assignment_context(v) OBVIOUS
<1> HIDE DEF v, m
<1>4. promoted = {}
  <2>1. Last(v.assignment_contexts) = v.assignment_contexts[m] BY <1>2 DEF Last
  <2>2. s.context_uuid \in v.assignment_contexts[m].children BY <1>1, <1>2 DEF Children
  <2>3. ASSUME NEW id \in DOMAIN v.assignment_contexts[m].assigned
        PROVE  s.context_uuid \notin v.assignment_contexts[m].assigned[id]
    <3>1. id \in DOMAIN s.assignment_contexts[m].assigned
          /\ v.assignment_contexts[m].assigned[id] = s.assignment_contexts[m].assigned[id]
      BY <2>3, <1>1, <1>2
    <3>2. AssignedIn(s, m, id) = s.assignment_contexts[m].assigned[id] BY <3>1 DEF AssignedIn
    <3>3. Numbered(s, AssignedIn(s, m, id)) BY <1>1 DEF Assured, Dated, m
    <3>4. s.context_uuid \in Nat BY DEF Shaped
    <3>5. ~(s.context_uuid < s.context_uuid) BY <3>4
    <3> QED BY <3>1, <3>2, <3>3, <3>5 DEF Numbered
  <2> QED BY <2>1, <2>2, <2>3 DEF Promotable
<1>5. /\ Left(v, u, promoted) /\ DOMAIN u = ScopeFields /\ SameContexts(v, u)
      /\ Len(u.assignment_contexts) = Len(v.assignment_contexts) - 1
  BY <1>1, <1>2, <1>3, JoinedLeaves
<1>6. Left(v, u, {}) /\ Len(u.assignment_contexts) = m - 1 BY <1>2, <1>4, <1>5
<1> HIDE DEF promoted
<1>7. /\ u.scope_depth = s.scope_depth /\ u.contexts = s.contexts /\ u.local_variables = s.local_variables
      /\ u.context_uuid \in {v.context_uuid, v.context_uuid + 1}
      /\ DOMAIN u.classified = DOMAIN s.classified /\ (u.flat => s.flat)
      /\ \A id \in Own(s) : When(u, id) = When(s, id)
  BY <1>2, <1>6 DEF Left, Rebuilt, Own, When
<1>8. u.context_uuid = s.context_uuid + 1 BY <1>2, <1>5 DEF SameContexts
<1>9. ASSUME NEW a \in 1..m - 1
      PROVE  /\ DOMAIN u.assignment_contexts[a] = {"children", "assigned"}
             /\ Children(u, a) = Children(s, a)
             /\ \A id : AssignedIn(u, a, id) \subseteq AssignedIn(s, a, id)
  <2>1. a \in 1..m /\ a /= m BY <1>1
  <2>2. /\ DOMAIN u.assignment_contexts[a] = {"children", "assigned"}
        /\ Children(u, a) = Children(v, a) /\ \A id : AssignedIn(u, a, id) \subseteq AssignedIn(v, a, id)
    BY <1>6 DEF Left
  <2>3. Children(v, a) = Children(s, a) /\ \A id : AssignedIn(v, a, id) = AssignedIn(s, a, id)
    BY <2>1, <1>2 DEF AssignedIn
  <2> QED BY <2>2, <2>3
<1>10. m - 1 \in Nat /\ m - 1 <= m BY <1>1
<1> QED BY <1>5, <1>6, <1>7, <1>8, <1>9, <1>10 DEF Left, m

------------------------------------------------------------------------------
(* The steps that open and close blocks and constructs. *)

LEMMA WithinTells ==
  ASSUME Inv, Tells, NEW m, Changed(frames, frames', m), Stacked(frames'),
         NEW t, Warranted(t, Opened(frames', Len(scopes))), scopes' = Replaced(scopes, Len(scopes), t)
  PROVE  Tells'
<1>1. Well(scopes, frames) /\ Telling(scopes, frames) BY InvTells
<1>2. Telling(scopes', frames') BY <1>1, StaysTelling
<1> QED BY <1>2 DEF Tells, TellsIn

LEMMA OpenBlockTells ==
  ASSUME Inv, Tells, NEW last, OpenBlock(last)
  PROVE  Tells'
<1> DEFINE n == Len(frames)
           f == [frames[n] EXCEPT !.last = last, !.condition = FALSE, !.blocks = @ + 1]
           fs == Replaced(frames, n, f)
           b == Block("block", {})
           s == current
           t == push_context(s)
           gs == frames'
           branches == Opened(frames, Len(scopes))
<1>1. /\ Well(scopes, frames) /\ Framable(frames) /\ n \in Nat /\ n >= 1 /\ s = Last(scopes)
      /\ DOMAIN s = ScopeFields /\ top = frames[n] /\ IsList(frames) /\ n \in 1..n
  BY InvOpen DEF Framable
<1>2. Stacked(frames) /\ Warranted(s, branches) /\ Shaped(s, Len(scopes) - 1) BY InvTells
<1>3. Update(t) /\ frames' = Longer(fs, b) /\ top.kind \in Branching
  <2>1. frames' = Append([frames EXCEPT ![n].last = last, ![n].condition = FALSE, ![n].blocks = @ + 1], b)
        /\ Update(t) /\ top.kind \in Branching
    <3> HIDE DEF t, b
    <3> QED BY DEF OpenBlock, t, b
  <2>2. [frames EXCEPT ![n].last = last, ![n].condition = FALSE, ![n].blocks = @ + 1] = fs BY DEF Replaced
  <2> HIDE DEF fs, t, b
  <2> QED BY <2>1, <2>2 DEF Longer
<1>4. Formed(frames[n]) /\ frames[n].kind \in Branching BY <1>1, <1>2, <1>3 DEF Stacked
<1>5. /\ Formed(f) /\ f.kind = frames[n].kind /\ f.blocks = frames[n].blocks + 1 /\ frames[n].blocks \in Nat
      /\ f.before = frames[n].before /\ f.ends = frames[n].ends
  BY <1>4 DEF Formed
<1>6. b.kind = "block" BY DEF Block
<1>7. fs = Replaced(frames, n, f) OBVIOUS
<1> HIDE DEF f, fs, b, s, t, branches
<1>8. Stacked(fs) /\ Len(fs) = n /\ fs[n] = f /\ \A i \in 1..n - 1 : fs[i] = frames[i]
  BY <1>1, <1>2, <1>5, <1>7, StackedReplaced
<1>9. Framable(fs)
  <2>1. "kind" \in DOMAIN f BY <1>4, <1>5 DEF Formed
  <2> QED BY <2>1, <1>1, <1>5, <1>7, FramesChanged
<1>10. Stacked(gs)
  <2>1. Formed(b) BY <1>6 DEF Formed, Branching
  <2>2. Follows(fs[Len(fs)], b) BY <1>4, <1>5, <1>6, <1>8 DEF Follows
  <2> QED BY <2>1, <2>2, <1>3, <1>8, <1>9, StackedLonger
<1>11. Len(gs) = n + 1 /\ gs[n + 1] = b /\ gs[n] = f /\ \A i \in 1..n - 1 : gs[i] = frames[i]
  <2>1. IsList(fs) BY <1>9 DEF Framable
  <2>2. Len(gs) = n + 1 /\ gs[n + 1] = b /\ \A i \in 1..n : gs[i] = fs[i] BY <2>1, <1>3, <1>8, ListAppend DEF Longer
  <2>3. \A i \in 1..n - 1 : i \in 1..n BY <1>1
  <2> QED BY <2>2, <2>3, <1>1, <1>8
<1> HIDE DEF gs, n
<1>12. Changed(frames, gs, n)
  <2>1. n + 1 \in Nat /\ n + 1 >= n - 1 BY <1>1
  <2> QED BY <2>1, <1>1, <1>5, <1>11 DEF Changed, n
<1> DEFINE a == View(frames, n)
<1>a. \A k \in 1..n : gs[k].kind = frames[k].kind
  <2>1. \A k \in 1..n : k \in 1..n - 1 \/ k = n BY <1>1
  <2> QED BY <2>1, <1>5, <1>11
<1>b. Rank(gs, n) = Rank(frames, n) /\ Depth(gs, n) = Depth(frames, n) /\ Joins(gs, n) = Joins(frames, n)
  BY <1>a, <1>1, SameView
<1>c. n \in Owned(frames, Len(scopes), Branching) BY <1>1, <1>4 DEF Owned, Well, n
<1>d. n \in Owned(gs, Len(scopes), Branching) BY <1>b, <1>c, <1>1, <1>4, <1>5, <1>11 DEF Owned
<1>e. a \in branches /\ a.depth = Len(s.contexts) /\ a.join \in {0, Len(s.assignment_contexts)}
  <2>1. /\ Depth(frames, n) = Len(s.contexts)
        /\ Joins(frames, n) \in {0, Len(s.assignment_contexts)}
    BY <1>c, <1>1, <1>2, OuterViews DEF n
  <2> QED BY <2>1, <1>c DEF Opened, View, branches
<1>f. Opened(gs, Len(scopes)) /= {} BY <1>d DEF Opened
<1>13. ASSUME NEW c \in Opened(gs, Len(scopes))
       PROVE  \/ c \in branches /\ c.depth < Len(s.contexts)
              \/ \E o \in branches : /\ Resumed(o, c) /\ o.depth = Len(s.contexts)
                                     /\ o.join \in {0, Len(s.assignment_contexts)}
  <2>1. CASE \E p \in Owned(frames, Len(scopes), Branching) : p < n /\ c = View(frames, p)
    <3>1. PICK p \in Owned(frames, Len(scopes), Branching) : p < n /\ c = View(frames, p) BY <2>1
    <3>2. Depth(frames, p) < Len(s.contexts) BY <3>1, <1>1, <1>2, OuterViews DEF n
    <3> QED BY <3>1, <3>2 DEF Opened, View, branches
  <2>2. CASE \E p \in n..Len(gs) : gs[p].kind \in Branching /\ Rank(gs, p) = Len(scopes) /\ c = View(gs, p)
    <3>1. PICK p \in n..Len(gs) : gs[p].kind \in Branching /\ Rank(gs, p) = Len(scopes) /\ c = View(gs, p) BY <2>2
    <3>2. p /= n + 1 BY <3>1, <1>6, <1>11 DEF Branching
    <3>3. p = n BY <3>1, <3>2, <1>1, <1>11
    <3>4. Resumed(a, c) BY <3>1, <3>3, <1>b, <1>5, <1>11 DEF Resumed, View
    <3> QED BY <3>4, <1>e
  <2>3. Len(frames) \in Nat BY <1>1 DEF n
  <2> QED BY <2>1, <2>2, <2>3, <1>12, OpenedChanged
<1>14. Deepened(s, t) BY <1>1, <1>2, PushedDeepens DEF t, Warranted
<1>15. Warranted(t, Opened(gs, Len(scopes)))
  <2>1. Apart(Opened(gs, Len(scopes))) BY <1>1, <1>10, <1>11, ViewsApart
  <2> HIDE DEF a
  <2> QED BY <2>1, <1>2, <1>e, <1>f, <1>13, <1>14, DeepenedWarranted
<1>16. scopes' = Replaced(scopes, Len(scopes), t) BY <1>3, UpdateIs
<1> QED BY <1>10, <1>12, <1>15, <1>16, WithinTells DEF gs

LEMMA CloseBlockTells ==
  ASSUME Inv, Tells, CloseBlock
  PROVE  Tells'
<1> DEFINE n == Len(frames)
           fs == Front(frames)
           f == [frames[n - 1] EXCEPT !.ends = IF frames[n - 1].blocks = 1 THEN current.sure ELSE @ \cap current.sure]
           s == current
           e == frames[n - 1].before
           t == [pop_context(s) EXCEPT !.sure = e]
           gs == frames'
           branches == Opened(frames, Len(scopes))
           b == View(frames, n - 1)
<1>1. /\ Well(scopes, frames) /\ Framable(frames) /\ n \in Nat /\ n >= 1 /\ s = Last(scopes)
      /\ DOMAIN s = ScopeFields /\ top = frames[n]
  BY InvOpen
<1>2. /\ Stacked(frames) /\ Warranted(s, branches) /\ Shaped(s, Len(scopes) - 1) /\ Len(s.contexts) >= 1
  BY InvTells
<1>3. top.kind = "block" BY DEF CloseBlock
<1>4. /\ n - 1 \in 1..n /\ n - 1 \in Nat /\ n - 1 \in Owned(frames, Len(scopes), Branching)
      /\ Depth(frames, n - 1) = Len(s.contexts) - 1 /\ frames[n - 1].blocks \in Nat /\ frames[n - 1].blocks >= 1
      /\ \A p \in Owned(frames, Len(scopes), Branching) :
           p = n - 1 \/ (p < n - 1 /\ Depth(frames, p) < Depth(frames, n - 1))
  <2> HIDE DEF s
  <2>1. frames[n].kind = "block" BY <1>1, <1>3
  <2> QED BY <1>1, <1>2, <2>1, BlockView
<1>5. /\ Framable(fs) /\ Stacked(fs) /\ Len(fs) = n - 1 /\ IsList(fs) /\ Len(fs) >= 1
      /\ \A i \in 1..n - 1 : fs[i] = frames[i]
  <2>1. frames[n].kind /= "root" BY <1>1, <1>3
  <2>2. Framable(fs) BY <1>1, <2>1, FramesClosed
  <2>3. Len(fs) = n - 1 /\ \A i \in 1..n - 1 : fs[i] = frames[i] BY <1>1, ListFront DEF Framable
  <2>4. Stacked(fs) BY <1>1, <1>2, StackedFront
  <2>5. IsList(fs) /\ Len(fs) >= 1 BY <2>2 DEF Framable
  <2> HIDE DEF fs, n
  <2> QED BY <2>2, <2>3, <2>4, <2>5
<1>6. Update(t) /\ frames' = Replaced(fs, n - 1, f)
  <2>1. /\ frames' = [fs EXCEPT ![n - 1].ends = IF frames[n - 1].blocks = 1 THEN current.sure ELSE @ \cap current.sure]
        /\ Update(t)
    <3> HIDE DEF fs, s
    <3> QED BY DEF CloseBlock, fs, s
  <2>2. [fs EXCEPT ![n - 1].ends = IF frames[n - 1].blocks = 1 THEN current.sure ELSE @ \cap current.sure]
          = Replaced(fs, n - 1, f)
    <3>1. n - 1 \in 1..n - 1 BY <1>4
    <3>2. fs[n - 1] = frames[n - 1] BY <3>1, <1>5
    <3> HIDE DEF fs, n
    <3> QED BY <3>2 DEF Replaced
  <2> HIDE DEF fs, t, f
  <2> QED BY <2>1, <2>2
<1>7. Formed(frames[n - 1]) /\ frames[n - 1].kind \in Branching BY <1>2, <1>4 DEF Stacked, Owned
<1>8. /\ Formed(f) /\ f.kind = frames[n - 1].kind /\ f.blocks = frames[n - 1].blocks
      /\ f.before = frames[n - 1].before
      /\ f.ends = IF frames[n - 1].blocks = 1 THEN s.sure ELSE frames[n - 1].ends \cap s.sure
  BY <1>7 DEF Formed
<1> HIDE DEF f, fs, s, t, branches, b, e
<1>9. fs[n - 1] = frames[n - 1] /\ n - 1 \in 1..n - 1
  <2>1. n - 1 \in 1..n - 1 BY <1>4
  <2> QED BY <2>1, <1>5
<1>10. Stacked(gs) /\ Len(gs) = n - 1 /\ gs[n - 1] = f /\ \A i \in 1..(n - 1) - 1 : gs[i] = frames[i]
  <2>1. f.kind = fs[Len(fs)].kind /\ frames' = Replaced(fs, Len(fs), f) BY <1>5, <1>6, <1>8, <1>9
  <2>2. /\ Stacked(frames') /\ Len(frames') = Len(fs) /\ frames'[Len(fs)] = f
        /\ \A i \in 1..Len(fs) - 1 : frames'[i] = fs[i]
    BY <1>5, <1>8, <2>1, StackedReplaced
  <2>3. \A i \in 1..(n - 1) - 1 : i \in 1..n - 1 BY <1>4
  <2> HIDE DEF n
  <2> QED BY <2>2, <2>3, <1>5
<1> DEFINE m == n - 1
<1>11. Changed(frames, gs, m)
  <2>1. Rank(frames, m) = Rank(frames, n) BY <1>1, <1>4 DEF Owned, Well
  <2> HIDE DEF n, gs
  <2>2. m \in 1..Len(frames) /\ Rank(frames, m) = Rank(frames, Len(frames)) BY <1>4, <2>1 DEF n
  <2>3. Len(gs) \in Nat /\ Len(gs) >= m - 1 /\ gs[m].kind = frames[m].kind /\ \A k \in 1..m - 1 : gs[k] = frames[k]
    BY <1>4, <1>8, <1>10
  <2> HIDE DEF m
  <2> QED BY <2>2, <2>3 DEF Changed
<1>12. b \in branches /\ b.depth = Len(s.contexts) - 1 /\ b.blocks >= 1 /\ b.before = e
  BY <1>4 DEF b, e, Opened, View, branches
<1> HIDE DEF n, gs
<1>13. Len(s.contexts) >= 2
  <2>1. b.depth \in 1..Len(s.contexts) BY <1>2, <1>12 DEF Warranted, Assured, Placed
  <2>2. Len(s.contexts) \in Nat BY <1>2, ListShape DEF Shaped
  <2> QED BY <2>1, <2>2, <1>12
<1>14. ASSUME NEW c \in Opened(gs, Len(scopes))
       PROVE  (c \in branches /\ c.depth < b.depth) \/ Finished(b, c, s.sure)
  <2>1. CASE \E p \in Owned(frames, Len(scopes), Branching) : p < m /\ c = View(frames, p)
    <3>1. PICK p \in Owned(frames, Len(scopes), Branching) : p < m /\ c = View(frames, p) BY <2>1
    <3>2. p /= m BY <3>1, <1>4
    <3>3. Depth(frames, p) < Depth(frames, m) BY <3>2, <1>4
    <3> QED BY <3>1, <3>3 DEF Opened, View, branches, b
  <2>2. CASE \E p \in m..Len(gs) : gs[p].kind \in Branching /\ Rank(gs, p) = Len(scopes) /\ c = View(gs, p)
    <3>1. PICK p \in m..Len(gs) : c = View(gs, p) BY <2>2
    <3>2. p = m BY <3>1, <1>4, <1>10
    <3>3. \A k \in 1..m : gs[k].kind = frames[k].kind
      <4>1. \A k \in 1..m : k \in 1..m - 1 \/ k = m BY <1>4
      <4> QED BY <4>1, <1>8, <1>10
    <3>4. m \in Nat /\ m >= 1 BY <1>4
    <3>5. Depth(gs, m) = Depth(frames, m) /\ Joins(gs, m) = Joins(frames, m) BY <3>3, <3>4, SameView
    <3> QED BY <3>1, <3>2, <3>5, <1>8, <1>10 DEF Finished, View, b
  <2>3. Len(frames) \in Nat BY <1>1 DEF n
  <2> QED BY <2>1, <2>2, <2>3, <1>11, OpenedChanged
<1>15. Shallowed(s, t) /\ t.sure = b.before BY <1>1, <1>2, <1>12, PoppedShallows DEF t, Warranted
<1>16. Warranted(t, Opened(gs, Len(scopes)))
  <2>1. Apart(Opened(gs, Len(scopes))) BY <1>4, <1>10, ViewsApart
  <2>2. Opened(gs, Len(scopes)) /= {}
    <3>1. \A k \in 1..m : gs[k].kind = frames[k].kind
      <4>1. \A k \in 1..m : k \in 1..m - 1 \/ k = m BY <1>4
      <4> QED BY <4>1, <1>8, <1>10
    <3>2. m \in Nat /\ m >= 1 /\ m \in 1..m BY <1>4
    <3>3. Rank(gs, m) = Rank(frames, m) BY <3>1, <3>2, SameView
    <3>4. m \in Owned(gs, Len(scopes), Branching) BY <3>1, <3>2, <3>3, <1>4, <1>10 DEF Owned
    <3> QED BY <3>4 DEF Opened
  <2> HIDE DEF m
  <2> QED BY <2>1, <2>2, <1>2, <1>12, <1>13, <1>14, <1>15, ShallowedWarranted
<1>17. scopes' = Replaced(scopes, Len(scopes), t) BY <1>6, UpdateIs
<1> QED BY <1>10, <1>11, <1>16, <1>17, WithinTells DEF gs

LEMMA LeftRecorded ==
  ASSUME NEW s, NEW u, NEW promoted, Left(s, u, promoted), DOMAIN u = ScopeFields, NEW e, NEW t, t = [u EXCEPT !.sure = e]
  PROVE  Left(s, t, promoted) /\ t.sure = e /\ t.assignment_contexts = u.assignment_contexts
<1>1. /\ t.scope_depth = u.scope_depth /\ t.contexts = u.contexts /\ t.context_uuid = u.context_uuid
      /\ t.classified = u.classified /\ t.local_variables = u.local_variables
      /\ t.assignment_contexts = u.assignment_contexts /\ t.flat = u.flat /\ t.sure = e
  BY DEF ScopeFields
<1>2. /\ \A id : When(t, id) = When(u, id) /\ \A a : Children(t, a) = Children(u, a)
      /\ \A a, id : AssignedIn(t, a, id) = AssignedIn(u, a, id)
  BY <1>1 DEF When, Children, AssignedIn
<1> QED BY <1>1, <1>2 DEF Left

LEMMA CloseBranchesTells ==
  ASSUME Inv, Tells, CloseBranches
  PROVE  Tells'
<1> DEFINE n == Len(frames)
           s == current
           u == AfterBranches(s)
           e == top.before \cup top.named \cup IF top.last /\ top.kind /= "loop" THEN top.ends ELSE {}
           t == [u EXCEPT !.sure = e]
           gs == frames'
           branches == Opened(frames, Len(scopes))
           b == View(frames, n)
           m == Len(s.assignment_contexts)
           joins == IF top.kind \in Joining THEN 1 ELSE 0
<1>1. /\ Well(scopes, frames) /\ Framable(frames) /\ n \in Nat /\ n >= 1 /\ n \in 1..n /\ s = Last(scopes)
      /\ DOMAIN s = ScopeFields /\ top = frames[n] /\ Known(s)
  BY InvOpen DEF Becomes
<1>2. /\ Stacked(frames) /\ Warranted(s, branches) /\ Assured(s, branches) /\ Shaped(s, Len(scopes) - 1)
      /\ Len(s.contexts) >= 1
  BY InvTells DEF Warranted
<1>3. top.kind \in Branching /\ Update(t) /\ frames' = Front(frames)
  <2> HIDE DEF s, u, e
  <2> QED BY DEF CloseBranches, s, u, e
<1>4. (top.kind \in Joining <=> top.kind /= "loop") BY <1>3 DEF Branching, Joining
<1>5. top.blocks \in Nat /\ (top.last => top.blocks >= 1) /\ top.named \subseteq top.before
  BY <1>1, <1>2, <1>3 DEF Stacked, Formed
<1>6. n \in Owned(frames, Len(scopes), Branching) BY <1>1, <1>3 DEF Owned, Well
<1>7. /\ Depth(frames, n) = Len(s.contexts)
      /\ Joins(frames, n) = IF frames[n].kind \in Joining THEN Len(s.assignment_contexts) ELSE 0
  <2> HIDE DEF s
  <2> QED BY <1>1, <1>2, <1>6, OuterViews
<1>8. m \in Nat /\ (top.kind \in Joining => m >= 1)
  <2>1. m \in Nat BY <1>2, ListShape DEF Shaped, Covered
  <2>2. top.kind \in Joining => m /= 0 BY CurrentHolds
  <2> HIDE DEF m, top
  <2> QED BY <2>1, <2>2
<1>9. /\ b \in branches /\ b.depth = Len(s.contexts) /\ b.before = top.before /\ b.ends = top.ends
      /\ b.blocks = top.blocks /\ (top.kind \in Joining => b.join = m)
  BY <1>1, <1>6, <1>7 DEF View, Opened
<1>a. /\ b.before \subseteq e /\ e \subseteq b.before \cup b.ends
      /\ ~(top.kind /= "loop" /\ top.last) => e \subseteq b.before
  BY <1>5, <1>9
<1> HIDE DEF s, e, b, branches
<1>10. \E promoted : /\ Left(s, u, promoted) /\ DOMAIN u = ScopeFields /\ promoted \subseteq e
                     /\ s.flat => (Own(s) \cap e) \ b.before \subseteq promoted
                     /\ Len(u.assignment_contexts) = m - joins
  <2>1. CASE top.kind = "loop"
    <3>1. u = s /\ m - joins = m BY <2>1, <1>4, <1>8 DEF AfterBranches
    <3>2. \A a \in 1..m : DOMAIN s.assignment_contexts[a] = {"children", "assigned"} BY <1>2 DEF Assured, Dated
    <3>3. m <= m BY <1>8
    <3>4. Left(s, s, {}) BY <1>8, <3>2, <3>3 DEF Left
    <3>5. {} \subseteq e /\ (Own(s) \cap e) \ b.before \subseteq {} BY <2>1, <1>a
    <3> HIDE DEF m, joins, u
    <3> QED BY <3>1, <3>4, <3>5, <1>1 DEF m
  <2>2. CASE top.kind /= "loop" /\ ~top.last
    <3>1. u = pop_variable_assignment_context(pop_context(push_context(s))) BY <2>2 DEF AfterBranches
    <3>2. top.kind \in Joining BY <2>2, <1>4
    <3>3. m >= 1 /\ m - joins = m - 1 BY <3>2, <1>8
    <3> HIDE DEF u
    <3>4. Left(s, u, {}) /\ DOMAIN u = ScopeFields /\ Len(u.assignment_contexts) = m - 1
      BY <3>1, <3>3, <1>1, <1>2, PassedLeaves
    <3> HIDE DEF m, joins
    <3>5. {} \subseteq e /\ (Own(s) \cap e) \ b.before \subseteq {} BY <2>2, <1>a
    <3> QED BY <3>3, <3>4, <3>5
  <2>3. CASE top.kind /= "loop" /\ top.last
    <3> DEFINE promoted == Promotable(Last(s.assignment_contexts))
    <3>1. u = pop_variable_assignment_context(s) BY <2>3 DEF AfterBranches
    <3>2. top.kind \in Joining BY <2>3, <1>4
    <3>3. m >= 1 /\ m - joins = m - 1 BY <3>2, <1>8
    <3> HIDE DEF u
    <3>4. \A a \in 1..m : DOMAIN s.assignment_contexts[a] = {"children", "assigned"} BY <1>2 DEF Assured, Dated
    <3>5. Left(s, u, promoted) /\ DOMAIN u = ScopeFields /\ Len(u.assignment_contexts) = m - 1
      BY <3>1, <3>3, <3>4, <1>1, <1>2, JoinedLeaves
    <3>6. promoted \subseteq b.ends /\ (s.flat => (Own(s) \cap b.ends) \ b.before \subseteq promoted)
      <4>1. b.depth = Len(s.contexts) /\ b.join = Len(s.assignment_contexts) /\ b.blocks >= 1
        BY <2>3, <3>2, <1>5, <1>9
      <4>2. promoted \subseteq b.ends BY <4>1, <3>3, <1>2, <1>9, PromotedEnds
      <4>3. s.flat => (Own(s) \cap b.ends) \ b.before \subseteq promoted BY <4>1, <3>3, <1>2, <1>9, EndsPromoted
      <4> QED BY <4>2, <4>3
    <3>7. b.ends \subseteq e BY <2>3, <1>9 DEF e
    <3> HIDE DEF m, joins, promoted
    <3>8. promoted \subseteq e /\ (s.flat => (Own(s) \cap e) \ b.before \subseteq promoted) BY <3>6, <3>7, <1>a
    <3> QED BY <3>3, <3>5, <3>8
  <2> QED BY <2>1, <2>2, <2>3
<1>11. PICK promoted : /\ Left(s, u, promoted) /\ DOMAIN u = ScopeFields /\ promoted \subseteq e
                       /\ s.flat => (Own(s) \cap e) \ b.before \subseteq promoted
                       /\ Len(u.assignment_contexts) = m - joins
  BY <1>10
<1> HIDE DEF u
<1>12. Left(s, t, promoted) /\ t.sure = e /\ Len(t.assignment_contexts) = m - joins
  <2> HIDE DEF m, joins
  <2>1. t = [u EXCEPT !.sure = e] OBVIOUS
  <2> HIDE DEF t
  <2>2. Left(s, t, promoted) /\ t.sure = e /\ t.assignment_contexts = u.assignment_contexts
    BY <2>1, <1>11, LeftRecorded
  <2>3. Len(t.assignment_contexts) = Len(u.assignment_contexts) BY <2>2
  <2> QED BY <2>2, <2>3, <1>11
<1> HIDE DEF t, gs, n
<1>13. Stacked(gs) /\ Changed(frames, gs, n) /\ Len(gs) = n - 1
  <2>1. Stacked(gs) /\ Changed(frames, gs, Len(frames)) BY <1>1, <1>2, <1>3, StackedFront DEF gs
  <2>2. Len(gs) = Len(frames) - 1 BY <1>1, <1>3, ListFront DEF Framable, gs, n
  <2> QED BY <2>1, <2>2 DEF n
<1>14. ASSUME NEW c \in Opened(gs, Len(scopes))
       PROVE  c \in branches /\ c.depth < b.depth /\ c.join <= Len(t.assignment_contexts)
  <2>1. CASE \E p \in Owned(frames, Len(scopes), Branching) : p < n /\ c = View(frames, p)
    <3>1. PICK p \in Owned(frames, Len(scopes), Branching) : p < n /\ c = View(frames, p) BY <2>1
    <3>2. /\ Depth(frames, p) < Len(s.contexts)
          /\ Joins(frames, p) \in Nat /\ Joins(frames, p) <= m
          /\ top.kind \in Joining => Joins(frames, p) < m
      BY <3>1, <1>1, <1>2, OuterViews DEF n
    <3> HIDE DEF m, top
    <3>3. Joins(frames, p) <= m - joins BY <3>2, <1>8
    <3> HIDE DEF joins
    <3> QED BY <3>1, <3>2, <3>3, <1>9, <1>12 DEF Opened, View, branches
  <2>2. CASE \E p \in n..Len(gs) : gs[p].kind \in Branching /\ Rank(gs, p) = Len(scopes) /\ c = View(gs, p)
    <3>1. PICK p \in n..Len(gs) : TRUE BY <2>2
    <3>2. FALSE BY <3>1, <1>1, <1>13
    <3> QED BY <3>2
  <2>3. Len(frames) \in Nat BY <1>1 DEF n
  <2> QED BY <2>1, <2>2, <2>3, <1>13, OpenedChanged
<1>15. Warranted(t, Opened(gs, Len(scopes)))
  <2>1. b.before \subseteq t.sure /\ promoted \subseteq t.sure /\ t.sure \subseteq b.before \cup b.ends
    BY <1>11, <1>12, <1>a
  <2>2. t.flat => \A id \in (Own(s) \cap t.sure) \ b.before : When(t, id) = current_context(s)
    BY <1>11, <1>12 DEF Left
  <2> QED BY <2>1, <2>2, <1>2, <1>9, <1>12, <1>14, LeftWarranted
<1>16. scopes' = Replaced(scopes, Len(scopes), t) BY <1>3, UpdateIs
<1> QED BY <1>13, <1>15, <1>16, WithinTells DEF gs

(* A construct with branches is opened on top of a block. *)
LEMMA BranchesTells ==
  ASSUME Inv, Tells, IsBlock(top), Well(scopes', frames'),
         NEW f, Formed(f), f.kind \in Branching, f.blocks = 0, f.ends = {}, frames' = Longer(frames, f),
         NEW s, Warranted(s, Opened(frames, Len(scopes))), Shaped(s, Len(scopes) - 1), f.before = s.sure,
         s.contexts = current.contexts,
         NEW t, Branched(s, t), t.flat => ~Enclosed, scopes' = Replaced(scopes, Len(scopes), t),
         f.kind \in Joining => Len(t.assignment_contexts) > Len(s.assignment_contexts)
  PROVE  Tells'
<1> DEFINE n == Len(frames)
           gs == frames'
           branches == Opened(frames, Len(scopes))
<1>1. /\ Well(scopes, frames) /\ Framable(frames) /\ n \in Nat /\ n >= 1 /\ n \in 1..n
      /\ top = frames[n] /\ Len(scopes) \in Nat /\ Len(scopes) >= 1 /\ IsList(scopes) /\ IsList(frames)
  BY InvOpen DEF Sound, Framable
<1>2. Stacked(frames) /\ Len(s.contexts) >= 1 BY InvTells
<1>3. Stacked(gs) /\ Changed(frames, gs, n)
  <2>1. Follows(frames[n], f) BY <1>1 DEF Follows, IsBlock, Branching
  <2> HIDE DEF n
  <2> QED BY <2>1, <1>1, <1>2, StackedLonger DEF n
<1>4. Len(gs) = n + 1 /\ gs[n + 1] = f /\ \A i \in 1..n : gs[i] = frames[i] BY <1>1, ListAppend DEF Longer
<1>5. Last(scopes') = t /\ Len(scopes') = Len(scopes)
  <2>1. Len(scopes) \in 1..Len(scopes) BY <1>1
  <2>2. Len(scopes') = Len(scopes) /\ scopes'[Len(scopes)] = t BY <2>1, <1>1, ListExcept
  <2> QED BY <2>2 DEF Last
<1> HIDE DEF gs, n, branches
<1>6. /\ Len(t.contexts) = Depth(gs, n + 1)
      /\ Len(t.assignment_contexts) = Cardinality(Inner(gs, n + 1, Joining))
      /\ Len(t.assignment_contexts) \in Nat
  <2>1. Well(scopes', gs) /\ t = Last(scopes') BY <1>5 DEF gs
  <2>2. /\ Len(t.contexts) = Depth(gs, Len(gs)) /\ Len(t.assignment_contexts) = Cardinality(Inner(gs, Len(gs), Joining))
        /\ Len(t.assignment_contexts) \in Nat
    <3> DEFINE open == scopes'
    <3>1. Well(open, gs) /\ t = Last(open) BY <2>1
    <3> HIDE DEF open
    <3> QED BY <3>1, ScopeDepth
  <2> QED BY <2>2, <1>4
<1>7. ASSUME NEW c \in Opened(gs, Len(scopes))
      PROVE  \/ c \in branches
             \/ /\ c.depth = Len(s.contexts) /\ c.blocks = 0 /\ c.before = s.sure /\ c.ends = {}
                /\ c.join \in {0, Len(t.assignment_contexts)}
                /\ c.join /= 0 => c.join > Len(s.assignment_contexts)
  <2>1. CASE \E p \in Owned(frames, Len(scopes), Branching) : p < n /\ c = View(frames, p)
    BY <2>1 DEF Opened, branches
  <2>2. CASE \E p \in n..Len(gs) : gs[p].kind \in Branching /\ Rank(gs, p) = Len(scopes) /\ c = View(gs, p)
    <3>1. PICK p \in n..Len(gs) : gs[p].kind \in Branching /\ c = View(gs, p) BY <2>2
    <3>2. gs[n].kind \notin Branching BY <1>1, <1>4 DEF IsBlock, Branching
    <3>3. p /= n BY <3>1, <3>2
    <3>4. p = n + 1 BY <3>1, <3>3, <1>1, <1>4
    <3>5. /\ c.depth = Depth(gs, n + 1) /\ c.join = Joins(gs, n + 1) /\ c.blocks = 0 /\ c.before = s.sure
          /\ c.ends = {}
      BY <3>1, <3>4, <1>4 DEF View
    <3>6. c.depth = Len(s.contexts) BY <3>5, <1>6 DEF Branched
    <3>7. c.join = IF f.kind \in Joining THEN Len(t.assignment_contexts) ELSE 0 BY <3>5, <1>4, <1>6 DEF Joins
    <3>8. c.join \in {0, Len(t.assignment_contexts)} BY <3>7
    <3>9. c.join /= 0 => c.join > Len(s.assignment_contexts) BY <3>7
    <3> QED BY <3>5, <3>6, <3>8, <3>9
  <2>3. Len(frames) \in Nat BY <1>1 DEF n
  <2> QED BY <2>1, <2>2, <2>3, <1>3, OpenedChanged
<1>8. Warranted(t, Opened(gs, Len(scopes)))
  <2>1. Apart(Opened(gs, Len(scopes))) BY <1>1, <1>3, <1>4, ViewsApart
  <2>2. Opened(gs, Len(scopes)) /= {}
    <3>1. n + 1 \in 1..Len(gs) /\ gs[n + 1].kind \in Branching BY <1>1, <1>4
    <3>2. Rank(gs, n + 1) = Len(scopes)
      <4> DEFINE open == scopes'
      <4>1. Well(open, gs) /\ Len(open) = Len(scopes) BY <1>5 DEF gs
      <4> HIDE DEF open
      <4> QED BY <4>1, <1>4 DEF Well
    <3> QED BY <3>1, <3>2 DEF Opened, Owned
  <2>3. t.flat => branches = {} BY NotEnclosed DEF branches
  <2> QED BY <2>1, <2>2, <2>3, <1>2, <1>7, BranchedWarranted DEF branches
<1> QED BY <1>3, <1>8, WithinTells DEF gs

LEMMA OpenBranchesTells ==
  ASSUME Inv, Tells, NEW kind \in Branching, OpenBranches(kind)
  PROVE  Tells'
<1> DEFINE s == current
           joins == kind /= "loop"
           u == IF joins THEN push_variable_assignment_context(s) ELSE s
           f == Branches(kind)
           t == Nesting(u)
<1>1. s = Last(scopes) /\ DOMAIN s = ScopeFields BY InvOpen
<1>2. Warranted(s, Opened(frames, Len(scopes))) /\ Shaped(s, Len(scopes) - 1) BY InvTells
<1>3. Update(t) /\ frames' = Longer(frames, f) /\ IsBlock(top)
  <2>1. /\ Update(Nesting(IF kind = "loop" THEN s ELSE push_variable_assignment_context(s)))
        /\ frames' = Longer(frames, f) /\ IsBlock(top)
    <3> HIDE DEF s, f
    <3> QED BY DEF OpenBranches, Open, InStatements, Longer, f, s
  <2>2. u = IF kind = "loop" THEN s ELSE push_variable_assignment_context(s) OBVIOUS
  <2> HIDE DEF u
  <2> QED BY <2>1, <2>2
<1>4. Formed(f) /\ f.kind = kind /\ f.blocks = 0 /\ f.before = s.sure /\ f.ends = {} BY DEF Branches, Formed
<1> HIDE DEF s, f
<1>5. /\ Branched(s, u) /\ DOMAIN u = ScopeFields
      /\ Len(u.assignment_contexts) = Len(s.assignment_contexts) + IF joins THEN 1 ELSE 0
      /\ Len(s.assignment_contexts) \in Nat
  BY <1>1, <1>2, BranchingBranches
<1> HIDE DEF u
<1>6. Branched(s, t) /\ t.assignment_contexts = u.assignment_contexts /\ (t.flat => ~Enclosed)
  <2>1. t = Nesting(u) OBVIOUS
  <2> HIDE DEF t
  <2> QED BY <2>1, <1>5, NestingBranched
<1> HIDE DEF t
<1>7. kind \in Joining => Len(t.assignment_contexts) > Len(s.assignment_contexts)
  <2>1. kind \in Joining => joins BY DEF Joining
  <2>2. Len(t.assignment_contexts) = Len(u.assignment_contexts) BY <1>6
  <2> HIDE DEF joins
  <2> QED BY <2>1, <2>2, <1>5
<1>8. scopes' = Replaced(scopes, Len(scopes), t) BY <1>3, UpdateIs
<1>9. Well(scopes', frames') BY OpenBranchesStep
<1>10. s.contexts = current.contexts BY DEF s
<1> QED BY <1>2, <1>3, <1>4, <1>6, <1>7, <1>8, <1>9, <1>10, BranchesTells

LEMMA OpenForTells ==
  ASSUME Inv, Tells, NEW x, OpenFor(x)
  PROVE  Tells'
<1> DEFINE result == Assigned(scopes, variables, x, FALSE)
           s == result.scope
           t == Nesting(s)
           f == [Branches("loop") EXCEPT !.before = s.sure]
<1>1. Update(t) /\ frames' = Longer(frames, f) /\ IsBlock(top)
  <2> HIDE DEF result
  <2> QED BY DEF OpenFor, Open, InStatements, Longer, result
<1>2. result = Assigned(scopes, variables, x, FALSE) OBVIOUS
<1>3. Formed(f) /\ f.kind = "loop" /\ f.blocks = 0 /\ f.before = s.sure /\ f.ends = {}
  <2> HIDE DEF result
  <2> DEFINE g == Branches("loop")
             before == s.sure
  <2>1. f = [g EXCEPT !.before = before] OBVIOUS
  <2>2. /\ DOMAIN g = {"kind", "blocks", "last", "condition", "before", "ends", "named"}
        /\ g.kind = "loop" /\ g.blocks = 0 /\ g.last = FALSE /\ g.ends = {} /\ g.named = {}
    BY DEF Branches
  <2> HIDE DEF g, before, f
  <2>3. /\ DOMAIN f = {"kind", "blocks", "last", "condition", "before", "ends", "named"}
        /\ f.kind = "loop" /\ f.blocks = 0 /\ f.last = FALSE /\ f.ends = {} /\ f.named = {} /\ f.before = before
    BY <2>1, <2>2
  <2>4. Formed(f) BY <2>3 DEF Formed, Branching
  <2> QED BY <2>3, <2>4 DEF before
<1> HIDE DEF result
<1>4. /\ \E ids \in SUBSET {Id(x)} : Assigns(current, s, ids)
      /\ DOMAIN s = ScopeFields
  BY <1>2, AssignedTells
<1>5. SameShape(Last(scopes), s) BY <1>2, AssignedHere
<1> HIDE DEF s, f
<1>6. Warranted(s, Opened(frames, Len(scopes)))
  <2>1. PICK ids \in SUBSET {Id(x)} : Assigns(current, s, ids) BY <1>4
  <2> QED BY <2>1, <1>1, WarrantedInStatements
<1>7. Shaped(s, Len(scopes) - 1) /\ s.contexts = current.contexts
  <2>1. Holds(current, Len(scopes) - 1, Len(current.contexts), Len(current.assignment_contexts)) BY CurrentHolds
  <2>2. current = Last(scopes) BY InvOpen
  <2> HIDE DEF current
  <2>3. Holds(s, Len(scopes) - 1, Len(current.contexts), Len(current.assignment_contexts))
    BY <2>1, <2>2, <1>5, ShapeHolds
  <2> QED BY <2>2, <2>3, <1>5 DEF Holds, SameShape, SameContexts
<1>8. Branched(s, s)
  <2>1. Branched(s, IF FALSE THEN push_variable_assignment_context(s) ELSE s) BY <1>4, <1>7, BranchingBranches
  <2> QED BY <2>1
<1>9. Branched(s, t) /\ (t.flat => ~Enclosed)
  <2>1. t = Nesting(s) OBVIOUS
  <2> HIDE DEF t
  <2> QED BY <2>1, <1>4, <1>8, NestingBranched
<1> HIDE DEF t
<1>10. scopes' = Replaced(scopes, Len(scopes), t) BY <1>1, UpdateIs
<1>11. Well(scopes', frames') BY OpenForStep
<1>12. f.kind \in Branching /\ f.kind \notin Joining BY <1>3 DEF Branching, Joining
<1> QED BY <1>1, <1>3, <1>6, <1>7, <1>9, <1>10, <1>11, <1>12, BranchesTells

LEMMA CatchIdentifierTells ==
  ASSUME Inv, Tells, NEW x, CatchIdentifier(x)
  PROVE  Tells'
<1> DEFINE result == Assigned(scopes, variables, x, FALSE)
           t == result.scope
           n == Len(frames)
           f == [frames[n] EXCEPT !.before = @ \cup {Id(x)}, !.named = @ \cup {Id(x)}]
           s == current
           gs == frames'
           branches == Opened(frames, Len(scopes))
<1>1. /\ Framable(frames) /\ n \in Nat /\ n >= 1 /\ n \in 1..n /\ Well(scopes, frames) /\ top = frames[n]
      /\ IsList(frames) /\ s = Last(scopes)
  BY InvOpen DEF Framable
<1>2. /\ Stacked(frames) /\ Warranted(s, branches) /\ Shaped(s, Len(scopes) - 1) /\ Len(s.contexts) >= 1
  BY InvTells
<1>3. Update(t) /\ frames' = Replaced(frames, n, f) /\ top.kind = "try"
  <2> HIDE DEF result
  <2>1. frames' = [frames EXCEPT ![n].before = @ \cup {Id(x)}, ![n].named = @ \cup {Id(x)}]
        /\ Update(result.scope) /\ top.kind = "try"
    BY DEF CatchIdentifier, result
  <2> QED BY <2>1 DEF Replaced
<1>4. Formed(frames[n]) /\ frames[n].kind \in Branching BY <1>1, <1>2, <1>3 DEF Stacked, Branching
<1>5. /\ Formed(f) /\ f.kind = frames[n].kind /\ f.blocks = frames[n].blocks /\ f.ends = frames[n].ends
      /\ f.before = frames[n].before \cup {Id(x)}
  BY <1>4 DEF Formed
<1>6. result = Assigned(scopes, variables, x, FALSE) OBVIOUS
<1> HIDE DEF result, f
<1>7. PICK ids \in SUBSET {Id(x)} : Assigns(s, t, ids) /\ Settles(s, Id(x), ids) BY <1>6, AssignedTells
<1> HIDE DEF t, s, branches
<1>8. /\ Stacked(gs) /\ Len(gs) = n /\ gs[n] = f /\ \A i \in 1..n - 1 : gs[i] = frames[i]
  BY <1>1, <1>2, <1>3, <1>5, StackedReplaced
<1> HIDE DEF gs, n
<1>9. Changed(frames, gs, n) BY <1>1, <1>5, <1>8 DEF Changed, n
<1>10. ASSUME NEW c \in Opened(gs, Len(scopes))
       PROVE  (\E b \in branches : GrowsBy(s, b, c, ids)) /\ (c.depth >= Len(s.contexts) => ids \subseteq c.before)
  <2>1. CASE \E p \in Owned(frames, Len(scopes), Branching) : p < n /\ c = View(frames, p)
    <3>1. PICK p \in Owned(frames, Len(scopes), Branching) : p < n /\ c = View(frames, p) BY <2>1
    <3>2. Depth(frames, p) < Len(s.contexts) /\ Depth(frames, p) \in Nat BY <3>1, <1>1, <1>2, OuterViews DEF n
    <3>3. Len(s.contexts) \in Nat BY <1>2, ListShape DEF Shaped
    <3>4. ~(c.depth >= Len(s.contexts)) BY <3>1, <3>2, <3>3 DEF View
    <3>5. c \in branches /\ GrowsBy(s, c, c, ids) BY <3>1 DEF Opened, branches, Grows, GrowsBy
    <3> QED BY <3>4, <3>5
  <2>2. CASE \E p \in n..Len(gs) : gs[p].kind \in Branching /\ Rank(gs, p) = Len(scopes) /\ c = View(gs, p)
    <3>1. PICK p \in n..Len(gs) : Rank(gs, p) = Len(scopes) /\ c = View(gs, p) BY <2>2
    <3>2. p = n BY <3>1, <1>1, <1>8
    <3>3. \A k \in 1..n : gs[k].kind = frames[k].kind
      <4>1. \A k \in 1..n : k \in 1..n - 1 \/ k = n BY <1>1
      <4> QED BY <4>1, <1>5, <1>8
    <3>4. Rank(gs, n) = Rank(frames, n) /\ Depth(gs, n) = Depth(frames, n) /\ Joins(gs, n) = Joins(frames, n)
      BY <3>3, <1>1, SameView
    <3> DEFINE b == View(frames, n)
    <3>5. n \in Owned(frames, Len(scopes), Branching) BY <3>1, <3>2, <3>4, <1>1, <1>4 DEF Owned, n
    <3>6. b \in branches BY <3>5 DEF Opened, branches
    <3>7. Grows(b, c) /\ b.before = frames[n].before BY <3>1, <3>2, <3>4, <1>5, <1>8 DEF Grows, View
    <3>8. c.before = frames[n].before \cup {Id(x)} BY <3>1, <3>2, <1>5, <1>8 DEF View
    <3>9. b.depth >= Len(s.contexts)
      <4>1. Depth(frames, n) = Len(s.contexts) BY <3>5, <1>1, <1>2, OuterViews DEF n
      <4>2. Len(s.contexts) \in Nat BY <1>2, ListShape DEF Shaped
      <4> QED BY <4>1, <4>2 DEF View
    <3> HIDE DEF b
    <3>10. GrowsBy(s, b, c, ids) BY <3>7, <3>8, <3>9, <1>7 DEF GrowsBy, Settles
    <3> QED BY <3>6, <3>8, <3>10
  <2>3. Len(frames) \in Nat BY <1>1 DEF n
  <2> QED BY <2>1, <2>2, <2>3, <1>9, OpenedChanged
<1>11. Warranted(t, Opened(gs, Len(scopes)))
  <2>1. Apart(Opened(gs, Len(scopes))) BY <1>1, <1>8, ViewsApart
  <2>2. branches /= {} => Opened(gs, Len(scopes)) /= {}
    <3>1. \A k \in 1..n : gs[k].kind = frames[k].kind
      <4>1. \A k \in 1..n : k \in 1..n - 1 \/ k = n BY <1>1
      <4> QED BY <4>1, <1>5, <1>8
    <3>2. Rank(gs, n) = Rank(frames, n) BY <3>1, <1>1, SameView
    <3>3. n \in Owned(gs, Len(scopes), Branching) BY <3>1, <3>2, <1>1, <1>4, <1>8 DEF Owned, Well, n
    <3> QED BY <3>3 DEF Opened
  <2> QED BY <2>1, <2>2, <1>2, <1>7, <1>10, AssignsWarranted
<1>12. scopes' = Replaced(scopes, Len(scopes), t) BY <1>3, UpdateIs
<1> QED BY <1>8, <1>9, <1>11, <1>12, WithinTells DEF gs

LEMMA ConditionTells ==
  ASSUME Inv, Tells, Condition
  PROVE  Tells'
<1> DEFINE n == Len(frames)
           f == [frames[n] EXCEPT !.condition = TRUE]
           gs == frames'
<1>1. Framable(frames) /\ IsList(frames) /\ n \in Nat /\ n >= 1 /\ top = frames[n] /\ n \in 1..n
  BY InvOpen DEF Framable
<1>2. Stacked(frames) /\ Telling(scopes, frames) BY InvTells
<1>3. scopes' = scopes /\ gs = Replaced(frames, n, f) /\ top.kind \in Branching BY DEF Condition, Replaced
<1>4. Formed(frames[n]) BY <1>1, <1>2 DEF Stacked
<1>5. /\ Formed(f) /\ f.kind = frames[n].kind /\ f.before = frames[n].before /\ f.ends = frames[n].ends
      /\ f.blocks = frames[n].blocks
  BY <1>1, <1>3, <1>4 DEF Formed
<1> HIDE DEF f, gs
<1>6. Stacked(gs) /\ Len(gs) = n /\ gs[n] = f /\ \A i \in 1..n - 1 : gs[i] = frames[i]
  BY <1>1, <1>2, <1>3, <1>5, StackedReplaced
<1>7. \A p \in 1..n : /\ gs[p].kind = frames[p].kind /\ gs[p].before = frames[p].before
                      /\ gs[p].ends = frames[p].ends /\ gs[p].blocks = frames[p].blocks
  <2>1. \A p \in 1..n : p \in 1..n - 1 \/ p = n BY <1>1
  <2> QED BY <2>1, <1>5, <1>6
<1> HIDE DEF n
<1>8. ASSUME NEW p \in 1..n PROVE View(gs, p) = View(frames, p) /\ Rank(gs, p) = Rank(frames, p)
  <2>1. p \in Nat /\ p >= 1 /\ \A k \in 1..p : k \in 1..n BY <1>1
  <2>2. \A k \in 1..p : gs[k].kind = frames[k].kind BY <2>1, <1>7
  <2>3. Rank(gs, p) = Rank(frames, p) /\ Depth(gs, p) = Depth(frames, p) /\ Joins(gs, p) = Joins(frames, p)
    BY <2>1, <2>2, SameView
  <2> QED BY <2>3, <1>7 DEF View
<1>9. \A i : Opened(gs, i) = Opened(frames, i) BY <1>6, <1>7, <1>8 DEF Opened, Owned, n
<1>10. Telling(scopes, gs) BY <1>2, <1>9 DEF Telling
<1> QED BY <1>3, <1>6, <1>10 DEF Tells, TellsIn, gs

------------------------------------------------------------------------------
(* Functions are entered, and the whole. *)

LEMMA AnonymousFunctionTells ==
  ASSUME Inv, Tells, NEW names \in SUBSET program.names, AnonymousFunction(names)
  PROVE  Tells'
<1> DEFINE open == Append(scopes, NewScope(Len(scopes), {}, {}))
           entered == [open |-> open, errors |-> errors, made |-> variables]
           result == Parameters(entered, names)
           f == [kind |-> "anonymous"]
           n == Len(frames)
<1>1. /\ Sound(scopes) /\ Framable(frames) /\ n \in Nat /\ n >= 1
  BY InvOpen
<1>2. Well(scopes, frames) /\ Telling(scopes, frames) /\ Stacked(frames) BY InvTells
<1>3. scopes' = result.open /\ frames' = Longer(frames, f)
  <2> HIDE DEF result
  <2> QED BY DEF AnonymousFunction, Open, Longer, result
<1>4. IsFiniteSet(names)
  <2>1. IsFiniteSet(program.names) BY BoundsAssumption DEF WithinBounds, Inv
  <2> QED BY <2>1, FS_Subset
<1>5. Grown(scopes, result)
  <2>1. open = Append(scopes, NewScope(Len(scopes), {}, {})) OBVIOUS
  <2> HIDE DEF open
  <2>2. Grown(scopes, entered) BY <1>1, <2>1, OpenedGrown
  <2> HIDE DEF entered
  <2> QED BY <1>1, <1>4, <2>2, ParametersGrown
<1>6. Formed(f) /\ Follows(frames[n], f) /\ "kind" \in DOMAIN f /\ f.kind = "anonymous"
  BY DEF Formed, Follows, Branching, Delimiting
<1> HIDE DEF result, f
<1>7. Extends(frames, frames') /\ frames'[Len(frames')] = f BY <1>1, <1>3, <1>6, FramesOpened
<1>8. Stacked(frames') BY <1>1, <1>2, <1>3, <1>6, StackedLonger
<1>9. \A p \in 1..n : frames'[p] = frames[p] BY <1>1, <1>3, ListAppend DEF Framable, Longer
<1>10. /\ Len(scopes') = Len(scopes) + 1 /\ \A i \in 1..Len(scopes) : scopes'[i] = scopes[i]
       /\ Warranted(scopes'[Len(scopes) + 1], {})
  BY <1>3, <1>5 DEF Grown, Fresh, Last
<1>11. Telling(scopes', frames')
  <2> DEFINE next == scopes'
             gs == frames'
  <2>1. gs[Len(gs)].kind \in {"body", "anonymous"} BY <1>6, <1>7
  <2>2. /\ Extends(frames, gs) /\ \A p \in 1..Len(frames) : frames[p].kind \in Branching => gs[p] = frames[p]
    BY <1>7, <1>9
  <2>3. /\ Len(next) = Len(scopes) + 1 /\ \A i \in 1..Len(scopes) : next[i] = scopes[i]
        /\ Warranted(next[Len(scopes) + 1], {})
    BY <1>10
  <2> HIDE DEF next, gs, n
  <2>4. Telling(next, gs) BY <1>2, <2>1, <2>2, <2>3, EntersTelling
  <2> QED BY <2>4 DEF next, gs
<1> QED BY <1>8, <1>11 DEF Tells, TellsIn

LEMMA FunctionDefTells ==
  ASSUME Inv, Tells, NEW f, NEW signature \in program.signatures, FunctionDef(f, signature)
  PROVE  Tells'
<1> DEFINE n == Len(frames)
           entered == Entered(scopes, errors, variables, signature.functions, signature.imports)
           result == Parameters(entered, signature.parameters)
           s == Last(result.open)
           p == push_context(s)
           d == [frames[n] EXCEPT !.pending = @ \ {f}, !.defining = TRUE]
           fs == Replaced(frames, n, d)
           b == Block("body", signature.functions)
<1>1. /\ Well(scopes, frames) /\ Framable(frames) /\ n \in Nat /\ n >= 1 /\ Sound(scopes)
      /\ top = frames[n] /\ IsList(frames) /\ n \in 1..n
  BY InvOpen DEF Framable
<1>2. IsFiniteSet(signature.imports) /\ IsFiniteSet(signature.parameters)
  <2>1. IsFiniteSet(program.names) BY BoundsAssumption DEF WithinBounds, Inv
  <2>2. UNION {signature.functions, signature.imports, signature.parameters} \subseteq program.names
    BY BoundsAssumption DEF WithinBounds, Inv
  <2>3. signature.imports \subseteq program.names /\ signature.parameters \subseteq program.names BY <2>2
  <2> QED BY <2>1, <2>3, FS_Subset
<1>3. Grown(scopes, result)
  <2>1. Grown(scopes, entered) BY <1>1, <1>2, EnteredGrown
  <2> HIDE DEF entered
  <2> QED BY <1>1, <1>2, <2>1, ParametersGrown
<1>4. scopes' = Longer(scopes, p) /\ frames' = Longer(fs, b) /\ IsBlock(top)
  <2>1. /\ scopes' = Append(scopes, push_context(Last(result.open)))
        /\ frames' = Append([frames EXCEPT ![n].pending = @ \ {f}, ![n].defining = TRUE], b)
        /\ IsBlock(top)
    <3> HIDE DEF entered, b
    <3>1. result = Parameters(entered, signature.parameters) OBVIOUS
    <3> HIDE DEF result
    <3> QED BY <3>1 DEF FunctionDef, entered, b
  <2>2. [frames EXCEPT ![n].pending = @ \ {f}, ![n].defining = TRUE] = fs BY DEF Replaced
  <2> HIDE DEF result, fs, b
  <2> QED BY <2>1, <2>2 DEF Longer
<1>5. "kind" \in DOMAIN d /\ d.kind = frames[n].kind BY <1>1 DEF Framable
<1>6. b.kind = "body" BY DEF Block
<1>7. fs = Replaced(frames, n, d) OBVIOUS
<1> HIDE DEF d, fs, b, entered, result
<1>8. d.kind \notin Branching BY <1>1, <1>4, <1>5 DEF IsBlock, Branching
<1>9. Stacked(frames) /\ Telling(scopes, frames) BY InvTells
<1>10. Stacked(fs) /\ Len(fs) = n /\ fs[n] = d /\ \A i \in 1..n - 1 : fs[i] = frames[i]
  <2>1. Formed(d) BY <1>5, <1>1, <1>8, <1>9 DEF Formed, Stacked
  <2> QED BY <2>1, <1>1, <1>5, <1>7, <1>9, StackedReplaced
<1>11. Framable(fs) /\ \A k \in 1..n : fs[k].kind = frames[k].kind BY <1>1, <1>5, <1>7, FramesChanged
<1>12. Stacked(frames')
  <2>1. Formed(b) /\ Follows(fs[Len(fs)], b) BY <1>6, <1>8, <1>10 DEF Formed, Follows, Branching, Delimiting
  <2> QED BY <2>1, <1>4, <1>10, <1>11, StackedLonger
<1>13. Len(frames') = n + 1 /\ frames'[n + 1] = b /\ \A i \in 1..n : frames'[i] = fs[i]
  BY <1>4, <1>10, <1>11, ListAppend DEF Framable, Longer
<1>14. Extends(frames, frames') /\ \A i \in 1..n : frames[i].kind \in Branching => frames'[i] = frames[i]
  <2>1. Extends(frames, frames') BY <1>11, <1>13 DEF Extends
  <2>2. \A i \in 1..n : i \in 1..n - 1 \/ i = n BY <1>1
  <2>3. \A i \in 1..n - 1 : i \in 1..n BY <1>1
  <2>4. frames[n].kind \notin Branching BY <1>5, <1>8
  <2> HIDE DEF n
  <2> QED BY <2>1, <2>2, <2>3, <2>4, <1>10, <1>13
<1>15. /\ Len(scopes') = Len(scopes) + 1 /\ \A i \in 1..Len(scopes) : scopes'[i] = scopes[i]
       /\ scopes'[Len(scopes) + 1] = p
  <2> HIDE DEF p
  <2> QED BY <1>1, <1>4, ListAppend DEF Sound, Longer
<1>16. Warranted(p, {})
  <2>1. /\ Fresh(s) /\ Shaped(s, Len(scopes)) /\ Len(s.contexts) >= 1 /\ Sound(result.open) /\ Len(result.open) = Len(scopes) + 1
    BY <1>3 DEF Grown, Holds
  <2>2. DOMAIN s = ScopeFields
    <3> DEFINE open == result.open
    <3>1. Sound(open) /\ Len(open) = Len(scopes) + 1 /\ s = Last(open) BY <2>1
    <3>2. Len(scopes) \in Nat BY InvOpen
    <3> HIDE DEF open, s
    <3>3. Len(open) >= 1 BY <3>1, <3>2
    <3>4. Known(Last(open)) BY <3>1, <3>3, StaysItself
    <3> QED BY <3>1, <3>4 DEF Known
  <2> HIDE DEF s
  <2>3. Deepened(s, p) BY <2>1, <2>2, PushedDeepens DEF Fresh, Warranted
  <2> HIDE DEF p
  <2> QED BY <2>1, <2>3, FreshDeepened
<1> HIDE DEF p
<1>17. Telling(scopes', frames')
  <2> DEFINE next == scopes'
             gs == frames'
  <2>1. gs[Len(gs)].kind \in {"body", "anonymous"} BY <1>6, <1>13
  <2>2. /\ Extends(frames, gs) /\ \A i \in 1..Len(frames) : frames[i].kind \in Branching => gs[i] = frames[i]
    BY <1>14
  <2>3. /\ Len(next) = Len(scopes) + 1 /\ \A i \in 1..Len(scopes) : next[i] = scopes[i]
        /\ Warranted(next[Len(scopes) + 1], {})
    BY <1>15, <1>16
  <2> HIDE DEF next, gs, n
  <2>4. Telling(next, gs) BY <1>1, <1>9, <2>1, <2>2, <2>3, EntersTelling
  <2> QED BY <2>4 DEF next, gs
<1> QED BY <1>12, <1>17 DEF Tells, TellsIn

(* A reference to a variable of the scope itself is reported as it has to be. *)
WarnedRightly == NoMissedWarning /\ NoSpuriousWarning

LEMMA InitiallyTells ==
  ASSUME Init
  PROVE  Tells /\ WarnedRightly
<1>1. PICK bound \in Bounds :
        LET entered == Entered(<< >>, {}, 0, bound.functions, bound.imports)
        IN  program = bound /\ scopes = entered.open /\ frames = <<Block("root", bound.functions)>>
  BY DEF Init
<1> DEFINE entered == Entered(<< >>, {}, 0, bound.functions, bound.imports)
           b == Block("root", bound.functions)
<1>2. scopes = entered.open /\ frames = <<b>> BY <1>1
<1>3. Sound(<< >>)
  <2>1. << >> \in Seq({}) /\ Len(<< >>) = 0 BY EmptySeq
  <2>2. IsList(<< >>) BY <2>1, ListOf
  <2> QED BY <2>1, <2>2 DEF Sound
<1>4. IsFiniteSet(bound.imports)
  <2>1. IsFiniteSet(bound.names) /\ bound.imports \subseteq bound.names BY BoundsAssumption DEF WithinBounds
  <2> QED BY <2>1, FS_Subset
<1>5. Grown(<< >>, entered) BY <1>3, <1>4, EnteredGrown
<1>6. b.kind = "root" BY DEF Block
<1> HIDE DEF entered, b
<1>7. Len(scopes) = 1 /\ Warranted(scopes[1], {})
  <2>1. Len(<< >>) = 0 /\ Last(scopes) = scopes[Len(scopes)] BY DEF Last
  <2> QED BY <1>2, <1>5, <2>1 DEF Grown, Fresh
<1>8. Len(frames) = 1 /\ frames[1] = b BY <1>2
<1>9. \A i : Opened(frames, i) = {} BY <1>6, <1>8 DEF Opened, Owned, Branching
<1>10. Telling(scopes, frames)
  <2>1. \A i \in 1..Len(scopes) : i = 1 BY <1>7
  <2> QED BY <2>1, <1>7, <1>9 DEF Telling
<1>11. Stacked(frames)
  <2>1. \A q \in 1..1 : q = 1 OBVIOUS
  <2>2. 1..1 - 1 = {} OBVIOUS
  <2>3. Formed(b) BY <1>6 DEF Formed, Branching, Delimiting
  <2> QED BY <2>1, <2>2, <2>3, <1>8 DEF Stacked
<1>12. node = NoNode BY DEF Init
<1>13. WarnedRightly BY <1>12 DEF WarnedRightly, NoMissedWarning, NoSpuriousWarning, OwnVariable, NoNode
<1> QED BY <1>10, <1>11, <1>13 DEF Tells, TellsIn

LEMMA NothingToWarnOf ==
  ASSUME node'.kind /= "variable"
  PROVE  WarnedRightly'
BY DEF WarnedRightly, NoMissedWarning, NoSpuriousWarning, OwnVariable

LEMMA TellingStep ==
  ASSUME Inv, Tells, Next
  PROVE  Tells' /\ WarnedRightly'
<1>1. ASSUME NEW x, NEW kind, Reference(x, kind) PROVE Tells' /\ WarnedRightly'
  BY <1>1, ReferenceTells DEF WarnedRightly
<1>2. ASSUME NEW x, FunctionReference(x) PROVE Tells' /\ WarnedRightly'
  <2>1. node'.kind = "handle" BY <1>2 DEF FunctionReference
  <2> QED BY <1>2, <2>1, FunctionReferenceTells, NothingToWarnOf
<1>3. ASSUME NEW x, NEW kind, SuperclassMethod(x, kind) PROVE Tells' /\ WarnedRightly'
  <2>1. node'.kind /= "variable" /\ scopes' = scopes /\ frames' = frames BY <1>3 DEF SuperclassMethod, NoNode
  <2>2. Tells' BY <2>1 DEF Tells
  <2> QED BY <2>1, <2>2, NothingToWarnOf
<1>4. ASSUME node' = NoNode PROVE WarnedRightly' BY <1>4, NothingToWarnOf DEF NoNode
<1>5. ASSUME NEW names \in SUBSET program.names, AnonymousFunction(names) PROVE Tells' /\ WarnedRightly'
  BY <1>4, <1>5, AnonymousFunctionTells DEF AnonymousFunction
<1>6. ASSUME EndAnonymousFunction \/ EndFunctionDef PROVE Tells' /\ WarnedRightly'
  BY <1>4, <1>6, EndFunctionTells DEF EndAnonymousFunction, EndFunctionDef
<1>7. ASSUME NEW x, NEW subscripted, Assign(x, subscripted) PROVE Tells' /\ WarnedRightly'
  BY <1>4, <1>7, AssignTells DEF Assign
<1>8. ASSUME NEW x, VariableDeclaration(x) PROVE Tells' /\ WarnedRightly'
  BY <1>4, <1>8, VariableDeclarationTells DEF VariableDeclaration
<1>9. ASSUME NEW kind \in Branching, OpenBranches(kind) PROVE Tells' /\ WarnedRightly'
  BY <1>4, <1>9, OpenBranchesTells DEF OpenBranches
<1>10. ASSUME NEW x, OpenFor(x) PROVE Tells' /\ WarnedRightly'
  BY <1>4, <1>10, OpenForTells DEF OpenFor
<1>11. ASSUME NEW x, CatchIdentifier(x) PROVE Tells' /\ WarnedRightly'
  BY <1>4, <1>11, CatchIdentifierTells DEF CatchIdentifier
<1>12. ASSUME Condition PROVE Tells' /\ WarnedRightly' BY <1>4, <1>12, ConditionTells DEF Condition
<1>13. ASSUME NEW last, OpenBlock(last) PROVE Tells' /\ WarnedRightly'
  BY <1>4, <1>13, OpenBlockTells DEF OpenBlock
<1>14. ASSUME CloseBlock PROVE Tells' /\ WarnedRightly' BY <1>4, <1>14, CloseBlockTells DEF CloseBlock
<1>15. ASSUME CloseBranches PROVE Tells' /\ WarnedRightly' BY <1>4, <1>15, CloseBranchesTells DEF CloseBranches
<1>16. ASSUME NEW f, NEW signature \in program.signatures, FunctionDef(f, signature)
       PROVE  Tells' /\ WarnedRightly'
  BY <1>4, <1>16, FunctionDefTells DEF FunctionDef
<1> HIDE DEF Tells, WarnedRightly
<1> QED BY <1>1, <1>2, <1>3, <1>5, <1>6, <1>7, <1>8, <1>9, <1>10, <1>11, <1>12, <1>13, <1>14, <1>15, <1>16 DEF Next

LEMMA AlwaysTells == Spec => [](Tells /\ WarnedRightly)
<1>1. Init => Tells /\ WarnedRightly BY InitiallyTells
<1>2. Inv /\ Tells /\ WarnedRightly /\ [Next]_vars => Tells' /\ WarnedRightly'
  <2>1. CASE UNCHANGED vars
    BY <2>1 DEF vars, Tells, WarnedRightly, NoMissedWarning, NoSpuriousWarning, OwnVariable, current
  <2> QED BY <2>1, TellingStep
<1> QED BY <1>1, <1>2, AlwaysInv, PTL DEF Spec

(* A variable that some path to a reference has not assigned is reported      *)
(* (register_identifier_reference, pop_variable_assignment_context).  What a    *)
(* context that is open tells of is sure there, and was at the start of every   *)
(* construct as deep (Assured): what is promoted out of a construct has been     *)
(* assigned by each of its branches, and one of them is taken.                    *)
THEOREM NoWarningIsMissed == Spec => []NoMissedWarning
<1>1. WarnedRightly => NoMissedWarning BY DEF WarnedRightly
<1> QED BY <1>1, AlwaysTells, PTL

(* Where no branch or loop is within another, only a variable that some path   *)
(* to a reference has not assigned is reported (register_identifier_reference,   *)
(* pop_variable_assignment_context).  What is sure has the context of a            *)
(* construct that is still open (Plain): what all the branches of a construct        *)
(* have assigned is promoted out of it, since each branch that has ended, and the     *)
(* one at hand, has noted what is sure in it and was not before (Tight).               *)
THEOREM NoWarningIsSpurious == Spec => []NoSpuriousWarning
<1>1. WarnedRightly => NoSpuriousWarning BY DEF WarnedRightly
<1> QED BY <1>1, AlwaysTells, PTL

==============================================================================
