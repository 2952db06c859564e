------------------------ MODULE AstGenerator_proofs -------------------------
(* Proofs about the parser. Whatever tokens it is given, and wherever it fails *)
(* and goes on, its state is as deep in blocks, scopes, attributes, schemes,   *)
(* exports, namespaces and classes as the destructors still to run say.        *)
EXTENDS AstProperties, SequenceTheorems, FiniteSetTheorems, TLAPS

------------------------------------------------------------------------------
(* Lists of any elements. *)

IsList(s) == s \in Seq(Range(s))

LEMMA ListOf ==
  ASSUME NEW S, NEW s \in Seq(S)
  PROVE  IsList(s)
BY SeqOfRange DEF IsList

LEMMA ListShape ==
  ASSUME NEW s, IsList(s)
  PROVE  Len(s) \in Nat /\ DOMAIN s = 1..Len(s)
BY LenProperties DEF IsList

LEMMA ListTail ==
  ASSUME NEW s, IsList(s), s /= <<>>
  PROVE  /\ IsList(Tail(s)) /\ Len(Tail(s)) = Len(s) - 1 /\ Len(s) >= 1
         /\ Head(s) = s[1]
         /\ \A i \in 1..Len(s) - 1 : Tail(s)[i] = s[i + 1]
<1>1. /\ Tail(s) \in Seq(Range(s)) /\ Len(Tail(s)) = Len(s) - 1
      /\ \A i \in 1..Len(Tail(s)) : Tail(s)[i] = s[i + 1]
  BY HeadTailProperties DEF IsList
<1>2. Len(s) \in Nat \ {0} BY EmptySeq DEF IsList
<1>3. Head(s) = s[1] BY <1>2 DEF IsList
<1>4. IsList(Tail(s)) BY <1>1, ListOf
<1> QED BY <1>1, <1>2, <1>3, <1>4

LEMMA ListConcat ==
  ASSUME NEW s, NEW t, IsList(s), IsList(t)
  PROVE  /\ IsList(s \o t) /\ Len(s \o t) = Len(s) + Len(t)
         /\ \A i \in 1..Len(s) : (s \o t)[i] = s[i]
         /\ \A i \in 1..Len(t) : (s \o t)[Len(s) + i] = t[i]
<1> DEFINE S == Range(s) \cup Range(t)
<1>1. s \in Seq(S) /\ t \in Seq(S) BY SeqMonotonic DEF IsList
<1>2. Len(s) \in Nat /\ Len(t) \in Nat BY ListShape
<1>3. /\ s \o t \in Seq(S) /\ Len(s \o t) = Len(s) + Len(t)
      /\ \A i \in 1..Len(s) + Len(t) : (s \o t)[i] = IF i <= Len(s) THEN s[i] ELSE t[i - Len(s)]
  BY <1>1, ConcatProperties
<1>4. IsList(s \o t) BY <1>3, ListOf
<1>5. ASSUME NEW i \in 1..Len(s) PROVE (s \o t)[i] = s[i] BY <1>2, <1>3, <1>5
<1>6. ASSUME NEW i \in 1..Len(t) PROVE (s \o t)[Len(s) + i] = t[i]
  <2>1. Len(s) + i \in 1..Len(s) + Len(t) /\ ~(Len(s) + i <= Len(s)) /\ Len(s) + i - Len(s) = i
    BY <1>2, <1>6
  <2> QED BY <1>3, <2>1
<1> QED BY <1>3, <1>4, <1>5, <1>6

LEMMA ListAppend ==
  ASSUME NEW s, NEW e, IsList(s)
  PROVE  IsList(Append(s, e)) /\ Len(Append(s, e)) = Len(s) + 1
<1>1. s \in Seq(Range(s) \cup {e}) BY SeqMonotonic DEF IsList
<1>2. Append(s, e) \in Seq(Range(s) \cup {e}) /\ Len(Append(s, e)) = Len(s) + 1
  BY <1>1, AppendProperties
<1>3. IsList(Append(s, e)) BY <1>2, ListOf
<1> QED BY <1>2, <1>3

LEMMA ListFront ==
  ASSUME NEW s, IsList(s), Len(s) >= 1
  PROVE  IsList(Front(s)) /\ Len(Front(s)) = Len(s) - 1
<1> DEFINE n == Len(s)
           f == Front(s)
<1>1. n \in Nat /\ n >= 1 /\ \A i \in 1..n - 1 : s[i] \in Range(s)
  BY ListShape, ElementOfSeq DEF IsList
<1>2. f \in Seq(Range(s)) /\ Len(f) = IF 1 <= n - 1 THEN n - 1 - 1 + 1 ELSE 0
  BY <1>1, SubSeqProperties DEF Front
<1>3. IsList(f) BY <1>2, ListOf
<1> HIDE DEF n, f
<1>4. Len(f) = n - 1 BY <1>1, <1>2
<1> QED BY <1>3, <1>4 DEF n, f

LEMMA ListExcept ==
  ASSUME NEW s, IsList(s), NEW i, NEW e
  PROVE  IsList([s EXCEPT ![i] = e]) /\ Len([s EXCEPT ![i] = e]) = Len(s)
<1> DEFINE t == [s EXCEPT ![i] = e]
           S == Range(s) \cup {e}
<1>1. Len(s) \in Nat /\ DOMAIN s = 1..Len(s) /\ \A j \in 1..Len(s) : s[j] \in Range(s)
  BY ListShape, ElementOfSeq DEF IsList
<1>2. t \in [1..Len(s) -> S] BY <1>1
<1>3. t \in Seq(S) BY <1>1, <1>2, SeqDef
<1>4. Len(t) = Len(s)
  <2>1. Len(t) \in Nat /\ DOMAIN t = 1..Len(t) BY <1>3, LenProperties
  <2>2. 1..Len(t) = 1..Len(s) BY <2>1, <1>2
  <2> QED BY <2>1, <2>2, <1>1
<1> QED BY <1>3, <1>4, ListOf

------------------------------------------------------------------------------
(* The destructors still to run, counted. *)

IsLeave(item, kinds) == item[1] = "leave" /\ item[2] \in kinds
Leaves(s, kinds) == {i \in DOMAIN s : IsLeave(s[i], kinds)}
HeldIn(s, kinds) == Cardinality(Leaves(s, kinds))

LEMMA HeldIsHeldIn == \A kinds : Held(kinds) = HeldIn(gen.todo, kinds)
BY DEF Held, HeldIn, Leaves, IsLeave

LEMMA LeavesFinite ==
  ASSUME NEW s, IsList(s), NEW kinds
  PROVE  /\ Leaves(s, kinds) \subseteq 1..Len(s) /\ IsFiniteSet(Leaves(s, kinds))
         /\ HeldIn(s, kinds) \in Nat
<1>1. Len(s) \in Nat /\ DOMAIN s = 1..Len(s) BY ListShape
<1>2. Leaves(s, kinds) \subseteq 1..Len(s) BY <1>1 DEF Leaves
<1>3. IsFiniteSet(1..Len(s)) BY <1>1, FS_Interval
<1>4. IsFiniteSet(Leaves(s, kinds)) BY <1>2, <1>3, FS_Subset
<1> QED BY <1>2, <1>4, FS_CardinalityType DEF HeldIn

ShiftedBy(S, n) == {i + n : i \in S}

LEMMA Shifted ==
  ASSUME NEW m \in Nat, NEW n \in Nat, NEW S, S \subseteq 1..m
  PROVE  /\ IsFiniteSet(ShiftedBy(S, n)) /\ Cardinality(ShiftedBy(S, n)) = Cardinality(S)
         /\ Cardinality(ShiftedBy(S, n) \cup {n}) = Cardinality(S) + 1
<1> DEFINE T == {i + n : i \in S}
           f == [i \in S |-> i + n]
<1>1. IsFiniteSet(S)
  <2>1. IsFiniteSet(1..m) BY FS_Interval
  <2> QED BY <2>1, FS_Subset
<1>2. \A i \in S : i \in Int /\ i >= 1 OBVIOUS
<1>3. f \in Bijection(S, T)
  <2>1. f \in [S -> T] OBVIOUS
  <2>2. IsInjective(f) BY <1>2 DEF IsInjective
  <2>3. \A t \in T : \E i \in S : f[i] = t OBVIOUS
  <2> QED BY <2>1, <2>2, <2>3 DEF Bijection, Injection, Surjection
<1>4. IsFiniteSet(T) /\ Cardinality(T) = Cardinality(S)
  <2>1. ExistsBijection(S, T) BY <1>3 DEF ExistsBijection
  <2> QED BY <2>1, <1>1, FS_Bijection
<1>5. n \notin T BY <1>2
<1>6. Cardinality(T \cup {n}) = Cardinality(S) + 1 BY <1>4, <1>5, FS_AddElement
<1> QED BY <1>4, <1>6 DEF ShiftedBy

(* t is n items and then s; of the n only the last may be a destructor. *)
Behind(t, n, s) == n \in Nat /\ Len(t) = n + Len(s) /\ \A i \in 1..Len(s) : t[n + i] = s[i]
OnlyLast(t, n, kinds) == \A i \in 1..n : IsLeave(t[i], kinds) => i = n

LEMMA HeldBehind ==
  ASSUME NEW s, NEW t, IsList(s), IsList(t), NEW n, NEW kinds,
         Behind(t, n, s), OnlyLast(t, n, kinds)
  PROVE  HeldIn(t, kinds) = HeldIn(s, kinds)
                              + (IF n > 0 /\ IsLeave(t[n], kinds) THEN 1 ELSE 0)
<1> DEFINE S == Leaves(s, kinds)
           T == ShiftedBy(S, n)
<1>0. /\ n \in Nat /\ Len(t) = n + Len(s) /\ \A i \in 1..Len(s) : t[n + i] = s[i]
      /\ \A i \in 1..n : IsLeave(t[i], kinds) => i = n
  BY DEF Behind, OnlyLast
<1>1. /\ Len(s) \in Nat /\ DOMAIN s = 1..Len(s) /\ DOMAIN t = 1..n + Len(s)
      /\ S \subseteq 1..Len(s) /\ Cardinality(S) \in Nat
  BY <1>0, ListShape, LeavesFinite DEF HeldIn
<1>2. \A i \in S : i \in 1..Len(s) /\ IsLeave(s[i], kinds) BY <1>1 DEF Leaves
<1>3. \A i \in 1..Len(s) : IsLeave(s[i], kinds) => i \in S BY <1>1 DEF Leaves
<1>4. \A j \in Leaves(t, kinds) : j \in 1..n + Len(s) /\ IsLeave(t[j], kinds) BY <1>1 DEF Leaves
<1>5. \A j \in 1..n + Len(s) : IsLeave(t[j], kinds) => j \in Leaves(t, kinds) BY <1>1 DEF Leaves
<1>6. T \subseteq Leaves(t, kinds)
  <2> SUFFICES ASSUME NEW i \in S PROVE i + n \in Leaves(t, kinds) BY DEF ShiftedBy
  <2>1. i \in 1..Len(s) /\ IsLeave(s[i], kinds) BY <1>2
  <2>2. i + n = n + i /\ i + n \in 1..n + Len(s) BY <2>1, <1>0, <1>1
  <2>3. t[i + n] = s[i] BY <2>1, <2>2, <1>0
  <2> QED BY <2>1, <2>2, <2>3, <1>5
<1>7. \A j \in Leaves(t, kinds) : j \in T \/ (j = n /\ n > 0)
  <2> SUFFICES ASSUME NEW j \in Leaves(t, kinds), ~(j = n /\ n > 0) PROVE j \in T OBVIOUS
  <2>1. j \in 1..n + Len(s) /\ IsLeave(t[j], kinds) BY <1>4
  <2>2. j \notin 1..n BY <2>1, <1>0
  <2>3. j - n \in 1..Len(s) /\ n + (j - n) = j /\ (j - n) + n = j BY <2>1, <2>2, <1>0, <1>1
  <2>4. t[n + (j - n)] = s[j - n] BY <2>3, <1>0
  <2>5. j - n \in S BY <2>1, <2>3, <2>4, <1>3
  <2> QED BY <2>5, <2>3 DEF ShiftedBy
<1> HIDE DEF T, S
<1>8. /\ IsFiniteSet(T) /\ Cardinality(T) = Cardinality(S)
      /\ Cardinality(T \cup {n}) = Cardinality(S) + 1
  <2>1. n \in Nat /\ Len(s) \in Nat /\ S \subseteq 1..Len(s) BY <1>0, <1>1
  <2> QED BY <2>1, Shifted DEF T
<1>9. CASE n > 0 /\ IsLeave(t[n], kinds)
  <2>1. n \in 1..n + Len(s) BY <1>9, <1>0, <1>1
  <2>2. n \in Leaves(t, kinds) BY <2>1, <1>9, <1>5
  <2>3. Leaves(t, kinds) = T \cup {n} BY <2>2, <1>6, <1>7
  <2>4. HeldIn(t, kinds) = Cardinality(S) + 1 BY <2>3, <1>8 DEF HeldIn
  <2> QED BY <2>4, <1>9 DEF HeldIn, S
<1>10. CASE ~(n > 0 /\ IsLeave(t[n], kinds))
  <2>1. n > 0 => n \notin Leaves(t, kinds) BY <1>10, <1>4
  <2>2. Leaves(t, kinds) = T BY <2>1, <1>6, <1>7
  <2>3. HeldIn(t, kinds) = Cardinality(S) BY <2>2, <1>8 DEF HeldIn
  <2> QED BY <2>3, <1>1, <1>10 DEF HeldIn, S
<1> QED BY <1>9, <1>10

(* What is done is taken off the list. *)
LEMMA HeldTail ==
  ASSUME NEW s, IsList(s), s /= <<>>, NEW kinds
  PROVE  HeldIn(s, kinds) = HeldIn(Tail(s), kinds) + (IF IsLeave(s[1], kinds) THEN 1 ELSE 0)
<1>1. /\ IsList(Tail(s)) /\ Len(Tail(s)) = Len(s) - 1 /\ Len(s) >= 1
      /\ \A i \in 1..Len(s) - 1 : Tail(s)[i] = s[i + 1]
  BY ListTail
<1>2. Len(s) \in Nat BY ListShape
<1>3. \A i \in 1..Len(Tail(s)) : s[1 + i] = Tail(s)[i]
  <2> SUFFICES ASSUME NEW i \in 1..Len(Tail(s)) PROVE s[1 + i] = Tail(s)[i] OBVIOUS
  <2>1. i \in 1..Len(s) - 1 /\ 1 + i = i + 1 BY <1>1, <1>2
  <2> QED BY <2>1, <1>1
<1>4. Len(s) = 1 + Len(Tail(s)) BY <1>1, <1>2
<1>5. Behind(s, 1, Tail(s)) /\ OnlyLast(s, 1, kinds) BY <1>3, <1>4 DEF Behind, OnlyLast
<1>6. HeldIn(s, kinds) = HeldIn(Tail(s), kinds) + (IF 1 > 0 /\ IsLeave(s[1], kinds) THEN 1 ELSE 0)
  BY <1>1, <1>5, HeldBehind
<1> QED BY <1>6

(* A method adds no destructor of its own ... *)
LEMMA HeldConcat ==
  ASSUME NEW s, NEW items, IsList(s), IsList(items), NEW kinds,
         \A i \in 1..Len(items) : ~IsLeave(items[i], kinds)
  PROVE  HeldIn(items \o s, kinds) = HeldIn(s, kinds)
<1> DEFINE n == Len(items)
           t == items \o s
<1>1. n \in Nat BY ListShape
<1>2. /\ IsList(t) /\ Len(t) = n + Len(s) /\ \A i \in 1..n : t[i] = items[i]
      /\ \A i \in 1..Len(s) : t[n + i] = s[i]
  BY ListConcat
<1>3. \A i \in 1..n : ~IsLeave(t[i], kinds) BY <1>2
<1> HIDE DEF n, t
<1>4. HeldIn(t, kinds) = HeldIn(s, kinds) + (IF n > 0 /\ IsLeave(t[n], kinds) THEN 1 ELSE 0)
  <2>1. Behind(t, n, s) /\ OnlyLast(t, n, kinds) BY <1>1, <1>2, <1>3 DEF Behind, OnlyLast
  <2> QED BY <2>1, <1>2, HeldBehind
<1>5. ~(n > 0 /\ IsLeave(t[n], kinds)) BY <1>1, <1>3
<1>6. HeldIn(s, kinds) \in Nat BY LeavesFinite
<1>7. HeldIn(t, kinds) = HeldIn(s, kinds) BY <1>4, <1>5, <1>6
<1> QED BY <1>7 DEF t

(* ... and what it enters adds one. *)
LEMMA HeldWithin ==
  ASSUME NEW s, NEW items, IsList(s), IsList(items), NEW kinds, NEW kind,
         \A i \in 1..Len(items) : ~IsLeave(items[i], kinds)
  PROVE  HeldIn(items \o <<Leave(kind)>> \o s, kinds)
           = HeldIn(s, kinds) + (IF kind \in kinds THEN 1 ELSE 0)
<1> DEFINE one == <<Leave(kind)>>
           u == items \o one
           t == u \o s
           n == Len(u)
<1>1. IsList(one) /\ Len(one) = 1 /\ one[1] = Leave(kind)
  <2>1. one \in Seq({Leave(kind)}) OBVIOUS
  <2> QED BY <2>1, ListOf
<1>2. /\ IsList(u) /\ Len(u) = Len(items) + 1 /\ u[Len(items) + 1] = Leave(kind)
      /\ \A i \in 1..Len(items) : u[i] = items[i]
  <2> HIDE DEF one
  <2>1. /\ IsList(u) /\ Len(u) = Len(items) + Len(one)
        /\ \A i \in 1..Len(items) : u[i] = items[i]
        /\ \A i \in 1..Len(one) : u[Len(items) + i] = one[i]
    <3>1. IsList(one) BY <1>1
    <3> QED BY <3>1, ListConcat
  <2>2. 1 \in 1..Len(one) BY <1>1
  <2>3. u[Len(items) + 1] = one[1] BY <2>1, <2>2
  <2> QED BY <2>1, <2>3, <1>1
<1> HIDE DEF u, one
<1>3. /\ IsList(t) /\ Len(t) = n + Len(s) /\ \A i \in 1..n : t[i] = u[i]
      /\ \A i \in 1..Len(s) : t[n + i] = s[i]
  BY <1>2, ListConcat
<1>4. Len(items) \in Nat /\ n = Len(items) + 1 /\ n \in Nat /\ n > 0 BY <1>2, ListShape
<1> HIDE DEF n, t
<1>5. t[n] = Leave(kind) BY <1>2, <1>3, <1>4
<1>6. \A i \in 1..n : IsLeave(t[i], kinds) => i = n
  <2> SUFFICES ASSUME NEW i \in 1..n, i /= n PROVE ~IsLeave(t[i], kinds) OBVIOUS
  <2>1. i \in 1..Len(items) BY <1>4
  <2>2. t[i] = items[i] BY <2>1, <1>2, <1>3
  <2> QED BY <2>1, <2>2
<1>7. HeldIn(t, kinds) = HeldIn(s, kinds) + (IF n > 0 /\ IsLeave(t[n], kinds) THEN 1 ELSE 0)
  <2>1. Behind(t, n, s) /\ OnlyLast(t, n, kinds) BY <1>3, <1>4, <1>6 DEF Behind, OnlyLast
  <2> QED BY <2>1, <1>3, HeldBehind
<1>8. IsLeave(t[n], kinds) <=> kind \in kinds BY <1>5 DEF IsLeave, Leave
<1> QED BY <1>4, <1>7, <1>8 DEF t, u, one

------------------------------------------------------------------------------
(* What a method has to do is made of known parts, and of no destructor: those *)
(* are added when something is entered. What a loop catches it goes on from:   *)
(* the item after a "catch" is that of the loop.                               *)

ExpressionEffects ==
  {"literal_field", "dynamic_field", "reference", "subscript", "group", "argument",
   "attach_subscript", "check_subscript", "superclass_method", "function_reference",
   "anonymous_function", "check_varargin", "group_part", "frame", "ignored", "literal", "complete",
   "postfix_unary", "pending_unary", "pending_binary", "settle", "finish", "finish_or_empty"}

SharedEffects ==
  {"advance", "drop", "one_identifier", "no_names", "gather", "advance_to_right_parens",
   "advance_to_right_brace"}

Effects == SharedEffects \cup TypeEffects \cup StatementEffects \cup ExpressionEffects

Loops == {"block", "script", "sub_block"}
Handlers == Loops \cup {"annotations"}
TypeLists == {"types_to_]", "types_to_)", "types_to_}", "types_to_>"}

(* What fails without a report of its own: the token that get_silently misses, *)
(* and the end of a loop that has caught a failure.                            *)
Mute(item) ==
  \/ item[1] = "get_silently"
  \/ item[1] = "do" /\ item[2] = "fail"
  \/ item[1] \in Loops /\ item[2] /= FALSE

(* An item of a list that may hold such items, or that may not.                *)
Plain(item, mute) ==
  /\ mute \/ ~Mute(item)
  /\ \/ item[1] \in Methods /\ (item[1] = "type_delimiter" => item[2] \in TypeLists)
     \/ item[1] = "do" /\ item[2] \in Effects \cup {"fail"}
     \/ item[1] \in {"get", "get_silently", "error"}
     \/ item[1] = "catch" /\ item[2][1] \in Handlers

Encloses(item) == item[1] = "within" /\ item[2][1] \in Kinds
Caught(s) == \A i \in 1..Len(s) : s[i][1] = "catch" => i < Len(s) /\ s[i + 1][1] /= "leave"

(* Lists nest: what is within a function is within two of them. The parser's  *)
(* own list, which holds destructors too, is one of level 3.                   *)
Body0(s, mute) == IsList(s) /\ Caught(s) /\ \A i \in 1..Len(s) : Plain(s[i], mute)

Body1(s, mute) ==
  /\ IsList(s) /\ Caught(s)
  /\ \A i \in 1..Len(s) : Plain(s[i], mute) \/ (Encloses(s[i]) /\ Body0(s[i][2][2], mute))

Element(item, level, mute) ==
  \/ Plain(item, mute)
  \/ Encloses(item) /\ \/ level = 1 /\ Body0(item[2][2], mute)
                       \/ level \in {2, 3} /\ Body1(item[2][2], mute)
  \/ level = 3 /\ item[1] = "leave" /\ item[2] \in Kinds

Body(s, level, mute) == IsList(s) /\ Caught(s) /\ \A i \in 1..Len(s) : Element(s[i], level, mute)
Single(item, level, mute) == Element(item, level, mute) /\ item[1] /= "catch"

LEMMA BodyLevels ==
  ASSUME NEW s, NEW mute \in BOOLEAN
  PROVE  /\ Body(s, 0, mute) <=> Body0(s, mute)
         /\ Body(s, 1, mute) <=> Body1(s, mute)
         /\ Body0(s, mute) => Body1(s, mute)
BY DEF Body, Body0, Body1, Element

LEMMA Singles ==
  ASSUME NEW level \in 0..2, NEW mute \in BOOLEAN
  PROVE  /\ \A m \in Methods \ (Loops \cup {"type_delimiter"}) : \A a : Single(Nt(m, a), level, mute)
         /\ \A m \in Loops : \A a : mute \/ a = FALSE => Single(Nt(m, a), level, mute)
         /\ \A m \in TypeLists : Single(Nt("type_delimiter", m), level, mute)
         /\ \A e \in Effects : Single(Do(e), level, mute)
         /\ mute => Single(Do("fail"), level, mute)
         /\ Single(Advance, level, mute) /\ Single(Drop, level, mute)
         /\ \A t : Single(Get(t), level, mute) /\ Single(GetOneOf(t), level, mute)
         /\ mute => \A t : Single(GetSilently(t), level, mute)
         /\ \A e : Single(add_error(e), level, mute)
<1>1. \A m \in Methods : m /= "catch" /\ m /= "do" /\ m /= "get_silently"
  BY DEF Methods, ExpressionMethods, TypeMethods, StatementMethods, ClassMethods
<1>2. ASSUME NEW m \in Methods \ (Loops \cup {"type_delimiter"}), NEW a
      PROVE  Single(Nt(m, a), level, mute)
  <2>1. ~Mute(Nt(m, a)) BY <1>1 DEF Mute, Nt
  <2> QED BY <1>1, <2>1 DEF Single, Element, Plain, Nt
<1>3. "type_delimiter" \in Methods BY DEF Methods, TypeMethods
<1>4. ASSUME NEW m \in TypeLists PROVE Single(Nt("type_delimiter", m), level, mute)
  <2>1. ~Mute(Nt("type_delimiter", m)) BY DEF Mute, Nt, Loops
  <2> QED BY <1>1, <1>3, <2>1 DEF Single, Element, Plain, Nt
<1>5. ASSUME NEW e \in Effects PROVE Single(Do(e), level, mute)
  <2>1. ~Mute(Do(e))
    BY DEF Mute, Do, Loops, Effects, SharedEffects, TypeEffects, StatementEffects, ExpressionEffects
  <2> QED BY <2>1 DEF Single, Element, Plain, Do
<1>6. Single(Advance, level, mute) /\ Single(Drop, level, mute)
  <2>1. "advance" \in Effects /\ "drop" \in Effects BY DEF Effects, SharedEffects
  <2>2. ~Mute(Advance) /\ ~Mute(Drop) BY DEF Mute, Advance, Drop, Loops
  <2> QED BY <2>1, <2>2 DEF Single, Element, Plain, Advance, Drop
<1>7. ASSUME NEW t
      PROVE  /\ Single(Get(t), level, mute) /\ Single(GetOneOf(t), level, mute)
             /\ mute => Single(GetSilently(t), level, mute)
  <2>1. ~Mute(Get(t)) /\ ~Mute(GetOneOf(t)) BY DEF Mute, Get, GetOneOf, Loops
  <2> QED BY <2>1 DEF Single, Element, Plain, Get, GetOneOf, GetSilently
<1>8. ASSUME NEW e PROVE Single(add_error(e), level, mute)
  <2>1. ~Mute(add_error(e)) BY DEF Mute, add_error, Loops
  <2> QED BY <2>1 DEF Single, Element, Plain, add_error
<1>9. ASSUME NEW m \in Loops, NEW a, mute \/ a = FALSE PROVE Single(Nt(m, a), level, mute)
  <2>1. m \in Methods /\ m /= "type_delimiter" BY DEF Loops, Methods, StatementMethods
  <2>2. mute \/ ~Mute(Nt(m, a)) BY <1>1, <1>9, <2>1 DEF Mute, Nt
  <2> QED BY <1>1, <2>1, <2>2 DEF Single, Element, Plain, Nt
<1>10. ASSUME mute PROVE Single(Do("fail"), level, mute)
  BY <1>10 DEF Single, Element, Plain, Do
<1> QED BY <1>2, <1>4, <1>5, <1>6, <1>7, <1>8, <1>9, <1>10

LEMMA SingleWithin ==
  ASSUME NEW kind \in Kinds, NEW s, NEW mute \in BOOLEAN
  PROVE  /\ Body(s, 0, mute) => Single(Within(kind, s), 1, mute) /\ Single(Within(kind, s), 2, mute)
         /\ Body(s, 1, mute) => Single(Within(kind, s), 2, mute)
BY BodyLevels DEF Single, Element, Encloses, Within

LEMMA SinglesMakeBody ==
  ASSUME NEW s, NEW level, NEW mute, IsList(s), \A i \in 1..Len(s) : Single(s[i], level, mute)
  PROVE  Body(s, level, mute)
BY DEF Body, Single, Caught

LEMMA Lists ==
  /\ IsList(<<>>)
  /\ \A a : IsList(<<a>>)
  /\ \A a, b : IsList(<<a, b>>)
  /\ \A a, b, c : IsList(<<a, b, c>>)
  /\ \A a, b, c, d : IsList(<<a, b, c, d>>)
  /\ \A a, b, c, d, e : IsList(<<a, b, c, d, e>>)
  /\ \A a, b, c, d, e, f : IsList(<<a, b, c, d, e, f>>)
<1>1. IsList(<<>>) BY ListOf, EmptySeq
<1>2. ASSUME NEW a PROVE IsList(<<a>>)
  <2>1. <<a>> \in Seq({a}) OBVIOUS
  <2> QED BY <2>1, ListOf
<1>3. ASSUME NEW a, NEW b PROVE IsList(<<a, b>>)
  <2>1. <<a, b>> \in Seq({a, b}) OBVIOUS
  <2> QED BY <2>1, ListOf
<1>4. ASSUME NEW a, NEW b, NEW c PROVE IsList(<<a, b, c>>)
  <2>1. <<a, b, c>> \in Seq({a, b, c}) OBVIOUS
  <2> QED BY <2>1, ListOf
<1>5. ASSUME NEW a, NEW b, NEW c, NEW d PROVE IsList(<<a, b, c, d>>)
  <2>1. <<a, b, c, d>> \in Seq({a, b, c, d}) OBVIOUS
  <2> QED BY <2>1, ListOf
<1>6. ASSUME NEW a, NEW b, NEW c, NEW d, NEW e PROVE IsList(<<a, b, c, d, e>>)
  <2>1. <<a, b, c, d, e>> \in Seq({a, b, c, d, e}) OBVIOUS
  <2> QED BY <2>1, ListOf
<1>7. ASSUME NEW a, NEW b, NEW c, NEW d, NEW e, NEW f PROVE IsList(<<a, b, c, d, e, f>>)
  <2>1. <<a, b, c, d, e, f>> \in Seq({a, b, c, d, e, f}) OBVIOUS
  <2> QED BY <2>1, ListOf
<1> QED BY <1>1, <1>2, <1>3, <1>4, <1>5, <1>6, <1>7

LEMMA Bodies ==
  ASSUME NEW level, NEW mute
  PROVE  /\ Body(<<>>, level, mute)
         /\ \A a : Single(a, level, mute) => Body(<<a>>, level, mute)
         /\ \A a, b : Single(a, level, mute) /\ Single(b, level, mute) => Body(<<a, b>>, level, mute)
         /\ \A a, b, c :
              Single(a, level, mute) /\ Single(b, level, mute) /\ Single(c, level, mute) => Body(<<a, b, c>>, level, mute)
         /\ \A a, b, c, d :
              Single(a, level, mute) /\ Single(b, level, mute) /\ Single(c, level, mute) /\ Single(d, level, mute)
                => Body(<<a, b, c, d>>, level, mute)
         /\ \A a, b, c, d, e :
              Single(a, level, mute) /\ Single(b, level, mute) /\ Single(c, level, mute) /\ Single(d, level, mute)
                /\ Single(e, level, mute) => Body(<<a, b, c, d, e>>, level, mute)
         /\ \A a, b, c, d, e, f :
              Single(a, level, mute) /\ Single(b, level, mute) /\ Single(c, level, mute) /\ Single(d, level, mute)
                /\ Single(e, level, mute) /\ Single(f, level, mute) => Body(<<a, b, c, d, e, f>>, level, mute)
<1>1. Body(<<>>, level, mute) BY Lists, SinglesMakeBody
<1>2. ASSUME NEW a, Single(a, level, mute) PROVE Body(<<a>>, level, mute)
  BY <1>2, Lists, SinglesMakeBody
<1>3. ASSUME NEW a, NEW b, Single(a, level, mute), Single(b, level, mute) PROVE Body(<<a, b>>, level, mute)
  BY <1>3, Lists, SinglesMakeBody
<1>4. ASSUME NEW a, NEW b, NEW c, Single(a, level, mute), Single(b, level, mute), Single(c, level, mute)
      PROVE Body(<<a, b, c>>, level, mute)
  BY <1>4, Lists, SinglesMakeBody
<1>5. ASSUME NEW a, NEW b, NEW c, NEW d, Single(a, level, mute), Single(b, level, mute), Single(c, level, mute),
             Single(d, level, mute)
      PROVE Body(<<a, b, c, d>>, level, mute)
  BY <1>5, Lists, SinglesMakeBody
<1>6. ASSUME NEW a, NEW b, NEW c, NEW d, NEW e, Single(a, level, mute), Single(b, level, mute),
             Single(c, level, mute), Single(d, level, mute), Single(e, level, mute)
      PROVE Body(<<a, b, c, d, e>>, level, mute)
  BY <1>6, Lists, SinglesMakeBody
<1>7. ASSUME NEW a, NEW b, NEW c, NEW d, NEW e, NEW f, Single(a, level, mute), Single(b, level, mute),
             Single(c, level, mute), Single(d, level, mute), Single(e, level, mute), Single(f, level, mute)
      PROVE Body(<<a, b, c, d, e, f>>, level, mute)
  BY <1>7, Lists, SinglesMakeBody
<1> QED BY <1>1, <1>2, <1>3, <1>4, <1>5, <1>6, <1>7

LEMMA CatchBody ==
  ASSUME NEW level, NEW mute, NEW a, NEW b, NEW c, NEW d, Single(a, level, mute), Single(b, level, mute),
         Element(c, level, mute), Single(d, level, mute), d[1] /= "leave"
  PROVE  Body(<<a, b, c, d>>, level, mute)
<1> DEFINE s == <<a, b, c, d>>
<1>1. IsList(s) /\ Len(s) = 4 /\ s[1] = a /\ s[2] = b /\ s[3] = c /\ s[4] = d BY Lists
<1> HIDE DEF s
<1>2. \A i \in 1..4 : i = 1 \/ i = 2 \/ i = 3 \/ i = 4 OBVIOUS
<1>3. \A i \in 1..Len(s) : Element(s[i], level, mute) BY <1>1, <1>2 DEF Single
<1>4. Caught(s) BY <1>1, <1>2 DEF Caught, Single
<1>5. Body(s, level, mute) BY <1>1, <1>3, <1>4 DEF Body
<1> QED BY <1>5 DEF s

LEMMA BodyConcat ==
  ASSUME NEW s, NEW t, NEW level, NEW mute, Body(s, level, mute), Body(t, level, mute)
  PROVE  Body(s \o t, level, mute)
<1> DEFINE u == s \o t
           n == Len(s)
<1>1. /\ IsList(u) /\ Len(u) = n + Len(t)
      /\ \A i \in 1..n : u[i] = s[i]
      /\ \A i \in 1..Len(t) : u[n + i] = t[i]
  BY ListConcat DEF Body
<1>2. n \in Nat /\ Len(t) \in Nat BY ListShape DEF Body
<1>3. ASSUME NEW i \in 1..Len(u) PROVE i \in 1..n \/ (i - n \in 1..Len(t) /\ i = n + (i - n))
  BY <1>1, <1>2
<1>4. \A i \in 1..Len(u) : Element(u[i], level, mute) BY <1>1, <1>3 DEF Body
<1>5. Caught(u)
  <2> SUFFICES ASSUME NEW i \in 1..Len(u), u[i][1] = "catch"
               PROVE  i < Len(u) /\ u[i + 1][1] /= "leave"
    BY DEF Caught
  <2>1. CASE i \in 1..n
    <3>1. s[i][1] = "catch" BY <2>1, <1>1
    <3>2. i < n /\ s[i + 1][1] /= "leave" BY <3>1, <2>1 DEF Body, Caught
    <3>3. i + 1 \in 1..n /\ i < Len(u) BY <3>2, <2>1, <1>1, <1>2
    <3> QED BY <3>2, <3>3, <1>1
  <2>2. CASE i - n \in 1..Len(t) /\ i = n + (i - n)
    <3>1. t[i - n][1] = "catch" BY <2>2, <1>1
    <3>2. i - n < Len(t) /\ t[i - n + 1][1] /= "leave" BY <3>1, <2>2 DEF Body, Caught
    <3>3. i - n + 1 \in 1..Len(t) /\ i < Len(u) /\ n + (i - n + 1) = i + 1
      BY <3>2, <2>2, <1>1, <1>2
    <3>4. u[n + (i - n + 1)] = t[i - n + 1] BY <3>3, <1>1
    <3> QED BY <3>2, <3>3, <3>4
  <2> QED BY <1>3, <2>1, <2>2
<1> QED BY <1>1, <1>4, <1>5 DEF Body

------------------------------------------------------------------------------
(* What each method does next is such a list. *)

LEMMA ExpressionNames ==
  /\ ExpressionMethods \subseteq Methods \ (Loops \cup {"type_delimiter"})
  /\ ExpressionEffects \subseteq Effects /\ SharedEffects \subseteq Effects
BY DEF Methods, ExpressionMethods, Effects, Loops

LEMMA ExpressionBodies ==
  ASSUME NEW g, NEW m \in ExpressionMethods, NEW a, NEW mute \in BOOLEAN
  PROVE  Body(ExpressionItems(g, m, a), 2, mute)
<1>1. /\ \A n \in ExpressionMethods : \A b : Single(Nt(n, b), 2, mute) /\ Single(Nt(n, b), 0, mute)
      /\ \A e \in ExpressionEffects \cup SharedEffects : Single(Do(e), 2, mute) /\ Single(Do(e), 0, mute)
      /\ Single(Advance, 2, mute) /\ Single(Advance, 0, mute)
      /\ \A t : Single(Get(t), 2, mute) /\ Single(Get(t), 0, mute)
      /\ \A t : Single(GetOneOf(t), 2, mute)
      /\ \A e : Single(add_error(e), 2, mute)
  <2>1. ASSUME NEW level \in 0..2
        PROVE  /\ \A n \in ExpressionMethods : \A b : Single(Nt(n, b), level, mute)
               /\ \A e \in ExpressionEffects \cup SharedEffects : Single(Do(e), level, mute)
               /\ Single(Advance, level, mute)
               /\ \A t : Single(Get(t), level, mute) /\ Single(GetOneOf(t), level, mute)
               /\ \A e : Single(add_error(e), level, mute)
    BY Singles, ExpressionNames
  <2>2. 0 \in 0..2 /\ 2 \in 0..2 OBVIOUS
  <2> QED BY <2>1, <2>2
<1>2. Body(literal_field_reference_expr, 2, mute)
  BY <1>1, Bodies DEF literal_field_reference_expr, ExpressionEffects, SharedEffects
<1>3. Body(dynamic_field_reference_expr, 2, mute)
  BY <1>1, Bodies DEF dynamic_field_reference_expr, ExpressionEffects, ExpressionMethods
<1>4. Body(period_subscript(g), 2, mute)
  <2>1. Body(<<Advance>>, 2, mute) /\ Body(<<add_error("expected_token")>>, 2, mute) BY <1>1, Bodies
  <2> QED BY <2>1, <1>2, <1>3, BodyConcat DEF period_subscript
<1>5. ASSUME NEW t PROVE Body(non_period_subscript(t), 2, mute)
  BY <1>1, Bodies DEF non_period_subscript, ExpressionEffects, ExpressionMethods
<1>6. Body(identifier_reference_expr, 2, mute)
  BY <1>1, Bodies DEF identifier_reference_expr, ExpressionEffects, SharedEffects, ExpressionMethods
<1>7. Body(subscripts(g, a), 2, mute)
  <2> DEFINE then == <<Do("attach_subscript"), Nt("subscripts", Look(g))>>
             last == IF a = "(" THEN <<add_error("reference_after_parens")>> ELSE then
  <2>1. Body(then, 2, mute) /\ Body(<<add_error("reference_after_parens")>>, 2, mute) /\ Body(<<>>, 2, mute)
    BY <1>1, Bodies DEF ExpressionEffects, ExpressionMethods
  <2>2. Body(last, 2, mute) BY <2>1
  <2> HIDE DEF then, last
  <2>3. /\ Body(period_subscript(g) \o then, 2, mute) /\ Body(non_period_subscript(")") \o last, 2, mute)
        /\ Body(non_period_subscript("}") \o last, 2, mute)
    BY <2>1, <2>2, <1>4, <1>5, BodyConcat
  <2> QED BY <2>1, <2>3 DEF subscripts, then, last
<1>8. Body(arguments(g, a), 2, mute) /\ Body(more_arguments(g, a), 2, mute)
  BY <1>1, Bodies DEF arguments, more_arguments, ExpressionEffects, ExpressionMethods
<1>9. Body(superclass_reference(g), 2, mute)
  BY <1>1, Bodies DEF superclass_reference, ExpressionEffects, ExpressionMethods
<1>10. Body(function_expr(g), 2, mute)
  <2>1. Body(function_reference_expr, 2, mute)
    BY <1>1, Bodies DEF function_reference_expr, ExpressionEffects, SharedEffects, ExpressionMethods
  <2>2. Body(<<Do("no_names"), Nt("parameters", TRUE), Get(","), Nt("expr", FALSE),
               Do("anonymous_function")>>, 0, mute)
    BY <1>1, Bodies DEF ExpressionEffects, SharedEffects, ExpressionMethods
  <2>3. "scope" \in Kinds BY DEF Kinds
  <2>4. Body(anonymous_function_expr, 2, mute)
    BY <2>2, <2>3, <1>1, SingleWithin, Bodies DEF anonymous_function_expr
  <2> QED BY <2>1, <2>4 DEF function_expr
<1>11. Body(parameters(g, a), 2, mute) /\ Body(components(g, a), 2, mute)
  BY <1>1, Bodies
  DEF parameters, components, ExpressionEffects, SharedEffects, ExpressionMethods
<1>12. Body(grouping_expr(g), 2, mute)
  BY <1>1, Bodies DEF grouping_expr, ExpressionEffects, ExpressionMethods
<1>13. Body(group_parts(g, a), 2, mute)
  BY <1>1, Bodies DEF group_parts, ExpressionMethods
<1>14. Body(group_delimiter(g, a), 2, mute)
  <2>1. /\ Body(<<>>, 2, mute) /\ Body(<<Advance>>, 2, mute) /\ Body(<<add_error("expected_token")>>, 2, mute)
        /\ Body(<<Advance, add_error("multiple_exprs_in_parens")>>, 2, mute)
        /\ Body(<<Do("group_part"), Nt("group_parts", a)>>, 2, mute)
    BY <1>1, Bodies DEF ExpressionEffects, ExpressionMethods
  <2>2. /\ Body(<<>> \o <<Do("group_part"), Nt("group_parts", a)>>, 2, mute)
        /\ Body(<<Advance>> \o <<Do("group_part"), Nt("group_parts", a)>>, 2, mute)
    BY <2>1, BodyConcat
  <2> QED BY <2>1, <2>2 DEF group_delimiter
<1>15. Body(expr(a), 2, mute)
  BY <1>1, Bodies DEF expr, ExpressionEffects, ExpressionMethods
<1>16. Body(operand(g, a), 2, mute)
  <2> DEFINE loop == Nt("operand", a)
             completed == <<Do("complete"), Nt("postfix", ""), Do("settle"), loop>>
  <2>1. /\ Body(completed, 2, mute)
        /\ Body(<<Do("finish_or_empty")>>, 2, mute) /\ Body(<<Do("finish")>>, 2, mute)
        /\ Body(<<Nt("superclass_reference", "")>>, 2, mute)
        /\ Body(<<Do("ignored"), Advance>>, 2, mute) /\ Body(<<Do("literal"), Advance>>, 2, mute)
        /\ Body(<<Do("pending_unary"), Advance, Do("settle"), loop>>, 2, mute)
        /\ Body(<<Advance, Do("pending_binary"), Do("settle"), loop>>, 2, mute)
        /\ Body(<<add_error("invalid_expr_token")>>, 2, mute)
    BY <1>1, Bodies DEF ExpressionEffects, ExpressionMethods
  <2> HIDE DEF completed, loop
  <2>2. /\ Body(identifier_reference_expr \o <<Nt("superclass_reference", "")>> \o completed, 2, mute)
        /\ Body(<<Do("ignored"), Advance>> \o completed, 2, mute)
        /\ Body(<<Do("literal"), Advance>> \o completed, 2, mute)
        /\ Body(grouping_expr(g) \o completed, 2, mute) /\ Body(function_expr(g) \o completed, 2, mute)
    BY <2>1, <1>6, <1>10, <1>12, BodyConcat
  <2>3. Body(<<Do(IF a THEN "finish_or_empty" ELSE "finish")>>, 2, mute)
    BY <2>1
  <2> QED BY <2>1, <2>2, <2>3 DEF operand, completed, loop
<1>17. Body(handle_postfix_unary_exprs(g), 2, mute)
  BY <1>1, Bodies DEF handle_postfix_unary_exprs, ExpressionEffects, ExpressionMethods
<1>18. \A t, b : Body(identifier_sequence(g, t, b), 2, mute)
  BY <1>1, Bodies DEF identifier_sequence, SharedEffects, ExpressionMethods
<1>19. m \in {"expr", "operand", "postfix", "superclass_reference", "subscripts", "arguments",
              "more_arguments", "group_parts", "group_delimiter", "components", "parameters",
              "identifiers_to_]", "identifiers_to_>"}
  BY DEF ExpressionMethods
<1> QED
  BY <1>7, <1>8, <1>9, <1>11, <1>13, <1>14, <1>15, <1>16, <1>17, <1>18, <1>19
  DEF ExpressionItems

LEMMA TypeNames ==
  /\ TypeMethods \ {"type_delimiter"} \subseteq Methods \ (Loops \cup {"type_delimiter"})
  /\ (StatementMethods \cup ClassMethods) \ Loops \subseteq Methods \ (Loops \cup {"type_delimiter"})
  /\ TypeEffects \subseteq Effects /\ StatementEffects \subseteq Effects
BY DEF Methods, TypeMethods, StatementMethods, ClassMethods, Effects, Loops

LEMMA TypeSingles ==
  ASSUME NEW level \in 0..2, NEW mute \in BOOLEAN
  PROVE  /\ \A n \in (TypeMethods \ {"type_delimiter"}) \cup {"expr", "components", "identifiers_to_>"} :
              \A b : Single(Nt(n, b), level, mute)
         /\ Single(Nt("function_def", ""), level, mute) /\ Single(Nt("stmt", ""), level, mute)
         /\ Single(Nt("expr_stmt", ""), level, mute)
         /\ \A t \in TypeLists : Single(Nt("type_delimiter", t), level, mute) /\ Single(Nt(t, ""), level, mute)
         /\ \A e \in TypeEffects \cup SharedEffects : Single(Do(e), level, mute)
         /\ Single(Advance, level, mute) /\ Single(Drop, level, mute)
         /\ \A t : Single(Get(t), level, mute) /\ Single(GetOneOf(t), level, mute)
         /\ \A e : Single(add_error(e), level, mute)
<1>1. /\ "expr" \in ExpressionMethods /\ "components" \in ExpressionMethods
      /\ "identifiers_to_>" \in ExpressionMethods
  BY DEF ExpressionMethods
<1>2. {"function_def", "stmt", "expr_stmt"} \subseteq StatementMethods \ Loops
  BY DEF StatementMethods, Loops
<1>3. TypeLists \subseteq TypeMethods \ {"type_delimiter"} BY DEF TypeLists, TypeMethods
<1>4. {"function_def", "stmt", "expr_stmt"} \subseteq Methods \ (Loops \cup {"type_delimiter"})
  BY <1>2, TypeNames
<1> QED BY <1>1, <1>3, <1>4, Singles, TypeNames, ExpressionNames

LEMMA TypeBodies ==
  ASSUME NEW g, NEW m \in TypeMethods, NEW a, NEW mute \in BOOLEAN,
         m = "type_delimiter" => a \in TypeLists
  PROVE  Body(TypeItems(g, m, a), 2, mute)
<1>1. 0 \in 0..2 /\ 1 \in 0..2 /\ 2 \in 0..2 OBVIOUS
<1>2. Body(type(g, a), 2, mute) /\ Body(union(g), 2, mute)
  BY <1>1, TypeSingles, Bodies DEF type, union, TypeMethods, TypeEffects
<1>3. Body(type_arguments(g), 2, mute)
  BY <1>1, TypeSingles, Bodies DEF type_arguments, TypeMethods
<1>4. Body(one_type(g), 2, mute)
  <2>1. Body(function_type, 2, mute)
    BY <1>1, TypeSingles, Bodies DEF function_type, TypeMethods, TypeEffects
  <2>2. Body(scalar_type, 2, mute)
    BY <1>1, TypeSingles, Bodies DEF scalar_type, TypeMethods, TypeEffects, SharedEffects
  <2>3. /\ Body(<<Advance, Nt("types_to_}", ""), Do("type")>>, 2, mute)
        /\ Body(<<Advance, Do("type")>>, 2, mute)
        /\ Body(<<Advance, Get("<"), Nt("types_to_>", ""), Do("type")>>, 2, mute)
        /\ Body(<<add_error("expected_token")>>, 2, mute)
    BY <1>1, TypeSingles, Bodies DEF TypeMethods, TypeEffects
  <2> QED BY <2>1, <2>2, <2>3 DEF one_type
<1>5. ASSUME NEW t \in TypeLists PROVE Body(type_sequence(g, t), 2, mute) /\ Body(type_delimiter(g, t), 2, mute)
  <2>1. /\ Body(<<Nt("type", FALSE), Drop, Nt("type_delimiter", t)>>, 2, mute)
        /\ Body(<<Get(TypesTo[t])>>, 2, mute)
        /\ Body(<<Advance, Nt(t, "")>>, 2, mute) /\ Body(<<Nt(t, "")>>, 2, mute)
        /\ Body(<<add_error("expected_token")>>, 2, mute)
    BY <1>1, <1>5, TypeSingles, Bodies DEF TypeMethods
  <2> QED BY <2>1 DEF type_sequence, type_delimiter
<1>6. /\ "scheme" \in Kinds /\ "no_scheme" \in Kinds /\ "export" \in Kinds
      /\ "non_export" \in Kinds /\ "namespace" \in Kinds
  BY DEF Kinds
<1>7. Body(type_scheme, 2, mute)
  <2>1. Body(<<Nt("type", FALSE), Do("scheme")>>, 0, mute)
    BY <1>1, TypeSingles, Bodies DEF TypeMethods, TypeEffects
  <2>2. Single(Within("scheme", <<Nt("type", FALSE), Do("scheme")>>), 2, mute)
    BY <2>1, <1>6, SingleWithin
  <2> QED BY <2>2, <1>1, TypeSingles, Bodies DEF type_scheme, TypeMethods, TypeEffects
<1>8. Body(type_variable_identifiers(g), 2, mute)
  BY <1>1, TypeSingles, Bodies DEF type_variable_identifiers, TypeEffects, SharedEffects
<1>9. Body(type_annotation_macro, 2, mute)
  BY <1>1, TypeSingles, Bodies DEF type_annotation_macro, TypeMethods
<1>10. Body(type_record, 2, mute)
  <2> DEFINE fields == <<Do("no_names"), Nt("record_fields", ""), Do("register_over_one")>>
  <2>1. Body(fields, 0, mute)
    BY <1>1, TypeSingles, Bodies DEF TypeMethods, TypeEffects, SharedEffects
  <2>2. Single(Within("no_scheme", fields), 2, mute) BY <2>1, <1>6, SingleWithin
  <2> HIDE DEF fields
  <2>3. Body(<<Advance, Do("one_identifier"), Within("no_scheme", fields)>>, 2, mute)
    BY <2>2, <1>1, TypeSingles, Bodies DEF SharedEffects
  <2> QED BY <2>3 DEF type_record, fields
<1>11. Body(type_annotation(g, a), 2, mute)
  <2>1. Body(type_begin(g), 2, mute)
    <3> DEFINE inner == <<Nt("annotations", ""), Get("end@T"), Do("annotation")>>
    <3>1. Body(inner, 0, mute) BY <1>1, TypeSingles, Bodies DEF TypeMethods, TypeEffects
    <3>2. Single(Within("export", inner), 2, mute) /\ Single(Within("non_export", inner), 2, mute)
      BY <3>1, <1>6, SingleWithin
    <3> HIDE DEF inner
    <3>3. Body(<<Within("export", inner)>>, 2, mute) /\ Body(<<Within("non_export", inner)>>, 2, mute)
      BY <3>2, Bodies
    <3>4. Body(<<Advance, Advance>>, 2, mute) /\ Body(<<Advance>>, 2, mute) BY <1>1, TypeSingles, Bodies
    <3>5. /\ Body(<<Advance, Advance>> \o <<Within("export", inner)>>, 2, mute)
          /\ Body(<<Advance>> \o <<Within("non_export", inner)>>, 2, mute)
      BY <3>3, <3>4, BodyConcat
    <3> QED BY <3>5 DEF type_begin, inner
  <2>2. Body(type_namespace, 2, mute)
    <3> DEFINE inner == <<Nt("annotations", ""), Get("end@T"), Do("annotation")>>
    <3>1. Body(inner, 0, mute) BY <1>1, TypeSingles, Bodies DEF TypeMethods, TypeEffects
    <3>2. Single(Within("namespace", inner), 2, mute) BY <3>1, <1>6, SingleWithin
    <3> HIDE DEF inner
    <3>3. Body(<<Advance, Do("one_identifier"), Within("namespace", inner)>>, 2, mute)
      BY <3>2, <1>1, TypeSingles, Bodies DEF SharedEffects
    <3> QED BY <3>3 DEF type_namespace, inner
  <2>3. Body(type_scheme_declaration, 2, mute)
    <3>1. Body(<<Nt("scheme_target", "")>>, 0, mute) BY <1>1, TypeSingles, Bodies DEF TypeMethods
    <3>2. Single(Within("scheme", <<Nt("scheme_target", "")>>), 2, mute) BY <3>1, <1>6, SingleWithin
    <3> QED BY <3>2, <1>1, TypeSingles, Bodies DEF type_scheme_declaration, TypeMethods
  <2>4. Body(type_let, 2, mute)
    BY <1>1, TypeSingles, Bodies DEF type_let, TypeMethods, TypeEffects, SharedEffects
  <2>5. Body(type_fun, 2, mute)
    BY <1>1, TypeSingles, Bodies DEF type_fun, TypeMethods
  <2>6. Body(type_import, 2, mute)
    BY <1>1, TypeSingles, Bodies DEF type_import, TypeMethods, TypeEffects, SharedEffects
  <2>7. Body(constructor_type, 2, mute)
    BY <1>1, TypeSingles, Bodies DEF constructor_type, TypeEffects
  <2>8. Body(cast_type, 2, mute)
    BY <1>1, TypeSingles, Bodies DEF cast_type, TypeMethods, TypeEffects
  <2>9. /\ Body(<<Nt("type_assertion", <<a, TRUE>>)>>, 2, mute)
        /\ Body(<<Advance, Nt("declare_type", "")>>, 2, mute)
        /\ Body(<<add_error("expected_token")>>, 2, mute)
    BY <1>1, TypeSingles, Bodies DEF TypeMethods
  <2> QED
    BY <1>10, <2>1, <2>2, <2>3, <2>4, <2>5, <2>6, <2>7, <2>8, <2>9 DEF type_annotation
<1>12. ASSUME NEW e, NEW s PROVE Body(type_assertion(e, s), 2, mute)
  <2>1. /\ Body(<<Advance, Nt("type", s), GetOneOf({"end@T", "newline"})>>, 2, mute)
        /\ Body(<<Nt("stmt_or_function_def", ""), Do("assertion_of")>>, 2, mute)
        /\ Body(<<Do("assertion")>>, 2, mute)
    BY <1>1, TypeSingles, Bodies DEF TypeMethods, TypeEffects
  <2>2. /\ Body(<<Advance, Nt("type", s), GetOneOf({"end@T", "newline"})>>
                  \o <<Nt("stmt_or_function_def", ""), Do("assertion_of")>>, 2, mute)
        /\ Body(<<Advance, Nt("type", s), GetOneOf({"end@T", "newline"})>> \o <<Do("assertion")>>, 2, mute)
    BY <2>1, BodyConcat
  <2> QED BY <2>2 DEF type_assertion
<1>13. Body(stmt_or_function_def(g), 2, mute) /\ Body(fun_target(g), 2, mute)
  BY <1>1, TypeSingles, Bodies DEF stmt_or_function_def, fun_target, TypeEffects
<1>14. Body(scheme_target(g), 2, mute)
  <2>1. Body(<<add_error("expected_token")>>, 2, mute) BY <1>1, TypeSingles, Bodies
  <2> QED BY <2>1, <1>10 DEF scheme_target
<1>15. Body(maybe_record_fields(g), 2, mute)
  <2>1. /\ Body(<<Get("end@T")>>, 2, mute) /\ Body(<<Advance, Nt("record_fields", "")>>, 2, mute)
        /\ Body(<<Do("check_field"), Nt("record_fields", "")>>, 2, mute)
        /\ Body(record_field, 2, mute)
    BY <1>1, TypeSingles, Bodies DEF record_field, TypeMethods, TypeEffects, SharedEffects
  <2>2. Body(record_field \o <<Do("check_field"), Nt("record_fields", "")>>, 2, mute)
    BY <2>1, BodyConcat
  <2> QED BY <2>1, <2>2 DEF maybe_record_fields
<1>16. Body(type_annotation_block(g), 2, mute)
  <2> DEFINE items == <<Nt("type_annotation", "enclosing"), Drop, Catch(<<"annotations", Len(g.vals)>>),
                        Nt("annotations", "")>>
  <2>1. Body(<<>>, 2, mute) /\ Body(<<Advance, Nt("annotations", "")>>, 2, mute)
    BY <1>1, TypeSingles, Bodies DEF TypeMethods
  <2>2. /\ Single(Nt("type_annotation", "enclosing"), 2, mute) /\ Single(Drop, 2, mute)
        /\ Single(Nt("annotations", ""), 2, mute)
    BY <1>1, TypeSingles DEF TypeMethods
  <2>3. Element(Catch(<<"annotations", Len(g.vals)>>), 2, mute)
    BY DEF Element, Plain, Mute, Loops, Catch, Handlers
  <2>4. Nt("annotations", "")[1] /= "leave" BY DEF Nt
  <2>5. Body(items, 2, mute) BY <2>2, <2>3, <2>4, CatchBody
  <2> QED BY <2>1, <2>5 DEF type_annotation_block
<1>17. Body(maybe_end_type(g), 2, mute)
  BY <1>1, TypeSingles, Bodies DEF maybe_end_type
<1>18. Body(declare_type(g), 2, mute)
  <2>1. Body(underlying_type_of_assertion, 2, mute)
    BY <1>1, TypeSingles, Bodies DEF underlying_type_of_assertion, TypeMethods, TypeEffects
  <2>2. /\ Body(<<Do("no_names"), Nt("components", TRUE), Do("method_name"), Advance>>, 2, mute)
        /\ Body(<<Do("declare_method")>>, 2, mute)
        /\ Body(<<Advance, Do("one_identifier")>>, 2, mute) /\ Body(<<Do("declare_function")>>, 2, mute)
        /\ Body(<<Advance, Do("one_identifier"), Do("no_names"), Nt("record_fields", ""),
                  Do("declare_class")>>, 2, mute)
        /\ Body(<<Advance, Do("one_identifier"), Do("register")>>, 2, mute)
        /\ Body(<<Advance>>, 2, mute)
        /\ Body(<<add_error("unrecognized_type_declaration_kind")>>, 2, mute)
        /\ Body(<<add_error("expected_token")>>, 2, mute)
    BY <1>1, TypeSingles, Bodies DEF TypeMethods, TypeEffects, SharedEffects
  <2>3. Body(method_type_declaration, 2, mute)
    BY <2>1, <2>2, BodyConcat DEF method_type_declaration
  <2>4. /\ Body(<<Advance>> \o method_type_declaration, 2, mute)
        /\ Body(<<Advance, Do("one_identifier")>> \o underlying_type_of_assertion
                  \o <<Do("declare_function")>>, 2, mute)
    BY <2>1, <2>2, <2>3, BodyConcat
  <2> QED BY <2>2, <2>4 DEF declare_type
<1>19. m \in {"type", "one_type", "union", "type_arguments", "types_to_]", "types_to_)", "types_to_}",
              "types_to_>", "type_delimiter", "type_scheme", "type_variables", "type_annotation_macro",
              "type_annotation", "type_assertion", "stmt_or_function_def", "fun_target",
              "scheme_target", "record_fields", "annotations", "maybe_end_type", "declare_type"}
  BY DEF TypeMethods
<1>20. \A t \in {"types_to_]", "types_to_)", "types_to_}", "types_to_>"} : t \in TypeLists
  BY DEF TypeLists
<1> QED
  BY <1>2, <1>3, <1>4, <1>5, <1>7, <1>8, <1>9, <1>11, <1>12, <1>13, <1>14, <1>15, <1>16, <1>17, <1>18,
     <1>19, <1>20
  DEF TypeItems

LEMMA StatementSingles ==
  ASSUME NEW level \in 0..2, NEW mute \in BOOLEAN
  PROVE  /\ \A n \in (StatementMethods \cup ClassMethods) \ Loops : \A b : Single(Nt(n, b), level, mute)
         /\ \A n \in Loops : \A b : mute \/ b = FALSE => Single(Nt(n, b), level, mute)
         /\ Single(Nt("sub_block", FALSE), level, mute)
         /\ \A n \in {"expr", "components", "parameters", "identifiers_to_]", "type",
                      "type_annotation_macro", "type_assertion"} : \A b : Single(Nt(n, b), level, mute)
         /\ \A e \in StatementEffects \cup SharedEffects : Single(Do(e), level, mute)
         /\ Single(Advance, level, mute) /\ Single(Drop, level, mute)
         /\ mute => Single(Do("fail"), level, mute)
         /\ \A t : Single(Get(t), level, mute) /\ Single(GetOneOf(t), level, mute)
         /\ mute => \A t : Single(GetSilently(t), level, mute)
         /\ \A e : Single(add_error(e), level, mute)
<1>1. {"expr", "components", "parameters", "identifiers_to_]"} \subseteq ExpressionMethods
  BY DEF ExpressionMethods
<1>2. {"type", "type_annotation_macro", "type_assertion"} \subseteq TypeMethods \ {"type_delimiter"}
  BY DEF TypeMethods
<1>3. "sub_block" \in Loops BY DEF Loops
<1> QED BY <1>1, <1>2, <1>3, Singles, TypeNames, ExpressionNames

LEMMA Levels == 0 \in 0..2 /\ 1 \in 0..2 /\ 2 \in 0..2
OBVIOUS

LEMMA LoopBody ==
  ASSUME NEW g, NEW method, NEW loop \in Loops, NEW mute \in BOOLEAN, NEW any_error,
         mute \/ any_error = FALSE, Single(Nt(method, ""), 2, mute)
  PROVE  Body(InBlock(g, method, loop, any_error), 2, mute)
<1>1. Single(Drop, 2, mute) /\ Single(Nt(loop, any_error), 2, mute)
  BY Levels, StatementSingles
<1>2. Element(Catch(<<loop, Len(g.vals)>>), 2, mute) BY DEF Element, Plain, Mute, Loops, Catch, Handlers
<1>3. Nt(loop, any_error)[1] /= "leave" BY DEF Nt, Loops
<1> QED BY <1>1, <1>2, <1>3, CatchBody DEF InBlock

(* The for statement whose range ends in a token that is taken silently.       *)
Wrapped(g) == Look(g) \in {"for", "parfor"} /\ La(g, 1) = "("

LEMMA StatementBodies ==
  ASSUME NEW g, NEW m \in StatementMethods, NEW a, NEW mute \in BOOLEAN,
         m \in Loops => mute \/ a = FALSE, m = "stmt" /\ Wrapped(g) => mute
  PROVE  Body(StatementItems(g, m, a), 2, mute)
<1>1. 0 \in 0..2 /\ 1 \in 0..2 /\ 2 \in 0..2 OBVIOUS
<1>2. ASSUME mute \/ a = FALSE PROVE Body(BlockDone(a), 2, mute)
  BY <1>2, <1>1, StatementSingles, Bodies DEF BlockDone, SharedEffects
<1>3. ASSUME NEW method \in {"type_annotation_macro", "class_def", "function_def", "stmt"},
             NEW loop \in Loops, mute \/ a = FALSE
      PROVE  Body(InBlock(g, method, loop, a), 2, mute)
  <2>1. Single(Nt(method, ""), 2, mute)
    BY <1>1, StatementSingles, TypeNames DEF StatementMethods, ClassMethods, Loops
  <2> QED BY <2>1, <1>3, LoopBody
<1>4. ASSUME mute \/ a = FALSE PROVE Body(block(g, a), 2, mute) /\ Body(sub_block(g, a), 2, mute)
  <2>1. Body(<<Advance, Nt("block", a)>>, 2, mute) /\ Body(<<Advance, Nt("sub_block", a)>>, 2, mute)
    BY <1>1, <1>4, StatementSingles, Bodies DEF Loops
  <2>2. /\ "block" \in Loops /\ "script" \in Loops /\ "sub_block" \in Loops
    BY DEF Loops
  <2> QED BY <2>1, <2>2, <1>2, <1>3, <1>4 DEF block, sub_block
<1>5. ASSUME mute \/ a = FALSE PROVE Body(script(a), 2, mute)
  BY <1>1, <1>5, StatementSingles, Bodies DEF script, Loops, StatementEffects
<1>6. {"function_def", "scope", "for_stmt", "while_stmt", "if_stmt", "switch_stmt", "try_stmt"}
        \subseteq Kinds
  BY DEF Kinds, BlockKinds
<1>7. Body(function_def, 2, mute)
  <2> DEFINE closed == IF tokens.end_terminated THEN <<Get("end")>> ELSE <<>>
             body == <<Nt("sub_block", FALSE)>> \o closed
             inner == <<Do("check_location"), Nt("function_header", ""), Within("scope", body),
                        Do("define_function")>>
  <2>1. Body(<<Nt("sub_block", FALSE)>>, 0, mute) /\ Body(closed, 0, mute)
    BY <1>1, StatementSingles, Bodies DEF StatementMethods, Loops
  <2> HIDE DEF closed
  <2>2. Body(body, 0, mute) BY <2>1, BodyConcat
  <2> HIDE DEF body
  <2>3. Single(Within("scope", body), 1, mute) BY <2>2, <1>6, SingleWithin
  <2>4. Body(inner, 1, mute)
    BY <2>3, <1>1, StatementSingles, Bodies DEF StatementMethods, StatementEffects, Loops
  <2> HIDE DEF inner
  <2>5. Single(Within("function_def", inner), 2, mute) BY <2>4, <1>6, SingleWithin
  <2>6. Body(<<Advance, Do("mark_visited_function"), Within("function_def", inner)>>, 2, mute)
    BY <2>5, <1>1, StatementSingles, Bodies DEF StatementEffects
  <2> QED BY <2>6 DEF function_def, inner, body, closed
<1>8. Body(function_header, 2, mute)
  BY <1>1, StatementSingles, Bodies
  DEF function_header, StatementMethods, StatementEffects, SharedEffects, Loops
<1>9. Body(function_outputs(g), 2, mute)
  BY <1>1, StatementSingles, Bodies
  DEF function_outputs, StatementMethods, StatementEffects, SharedEffects, Loops
<1>10. Body(compound_function_name(g), 2, mute)
  BY <1>1, StatementSingles, Bodies DEF compound_function_name
<1>11. Body(function_inputs(g), 2, mute)
  BY <1>1, StatementSingles, Bodies DEF function_inputs, SharedEffects
<1>12. Body(EndOfStatement, 0, mute) /\ Body(EndOfStatement, 2, mute)
  BY <1>1, StatementSingles, Bodies DEF EndOfStatement, StatementEffects
<1>13. Body(if_branch, 0, mute) /\ Body(if_branch, 2, mute)
  BY <1>1, StatementSingles, Bodies DEF if_branch, StatementMethods, Loops
<1>14. ASSUME La(g, 1) = "(" => mute PROVE Body(for_stmt(g), 2, mute)
  <2> DEFINE ranges == <<Do("one_identifier"), Drop, Get("="), Nt("expr", FALSE), Drop>>
             head == IF La(g, 1) = "("
                     THEN <<Advance>> \o ranges \o <<GetSilently(")")>> ELSE ranges
             inner == head \o <<Nt("sub_block", FALSE)>> \o EndOfStatement
  <2>1. /\ Body(ranges, 0, mute) /\ Body(<<Advance>>, 0, mute)
        /\ mute => Body(<<GetSilently(")")>>, 0, mute)
        /\ Body(<<Nt("sub_block", FALSE)>>, 0, mute)
    BY <1>1, StatementSingles, Bodies DEF StatementMethods, SharedEffects, Loops
  <2> HIDE DEF ranges
  <2>2. mute => Body(<<Advance>> \o ranges \o <<GetSilently(")")>>, 0, mute) BY <2>1, BodyConcat
  <2>3. Body(head, 0, mute) BY <2>1, <2>2, <1>14
  <2> HIDE DEF head
  <2>4. Body(inner, 0, mute) BY <2>1, <2>3, <1>12, BodyConcat
  <2> HIDE DEF inner
  <2>5. Single(Within("for_stmt", inner), 2, mute) BY <2>4, <1>6, SingleWithin
  <2>6. Body(<<Advance, Within("for_stmt", inner)>>, 2, mute)
    BY <2>5, <1>1, StatementSingles, Bodies
  <2> QED BY <2>6 DEF for_stmt, inner, head, ranges
<1>15. Body(while_stmt, 2, mute)
  <2> DEFINE inner == <<Nt("expr", FALSE), Drop, Nt("sub_block", FALSE)>> \o EndOfStatement
  <2>1. Body(<<Nt("expr", FALSE), Drop, Nt("sub_block", FALSE)>>, 0, mute)
    BY <1>1, StatementSingles, Bodies DEF StatementMethods, Loops
  <2>2. Body(inner, 0, mute) BY <2>1, <1>12, BodyConcat
  <2> HIDE DEF inner
  <2>3. Single(Within("while_stmt", inner), 2, mute) BY <2>2, <1>6, SingleWithin
  <2>4. Body(<<Advance, Within("while_stmt", inner)>>, 2, mute)
    BY <2>3, <1>1, StatementSingles, Bodies
  <2> QED BY <2>4 DEF while_stmt, inner
<1>16. Body(if_stmt, 2, mute)
  <2> DEFINE inner == if_branch \o <<Nt("else_branches", "")>> \o EndOfStatement
  <2>1. Body(<<Nt("else_branches", "")>>, 0, mute)
    BY <1>1, StatementSingles, Bodies DEF StatementMethods, Loops
  <2>2. Body(inner, 0, mute) BY <2>1, <1>12, <1>13, BodyConcat
  <2> HIDE DEF inner
  <2>3. Single(Within("if_stmt", inner), 2, mute) BY <2>2, <1>6, SingleWithin
  <2>4. Body(<<Within("if_stmt", inner)>>, 2, mute) BY <2>3, Bodies
  <2> QED BY <2>4 DEF if_stmt, inner
<1>17. Body(switch_stmt, 2, mute)
  <2> DEFINE inner == <<Nt("expr", FALSE), Drop, Nt("cases", FALSE)>> \o EndOfStatement
  <2>1. Body(<<Nt("expr", FALSE), Drop, Nt("cases", FALSE)>>, 0, mute)
    BY <1>1, StatementSingles, Bodies DEF StatementMethods, Loops
  <2>2. Body(inner, 0, mute) BY <2>1, <1>12, BodyConcat
  <2> HIDE DEF inner
  <2>3. Single(Within("switch_stmt", inner), 2, mute) BY <2>2, <1>6, SingleWithin
  <2>4. Body(<<Advance, Within("switch_stmt", inner)>>, 2, mute)
    BY <2>3, <1>1, StatementSingles, Bodies
  <2> QED BY <2>4 DEF switch_stmt, inner
<1>18. Body(try_stmt, 2, mute)
  <2> DEFINE inner == <<Nt("sub_block", FALSE), Nt("catch_block", "")>> \o EndOfStatement
  <2>1. Body(<<Nt("sub_block", FALSE), Nt("catch_block", "")>>, 0, mute)
    BY <1>1, StatementSingles, Bodies DEF StatementMethods, Loops
  <2>2. Body(inner, 0, mute) BY <2>1, <1>12, BodyConcat
  <2> HIDE DEF inner
  <2>3. Single(Within("try_stmt", inner), 2, mute) BY <2>2, <1>6, SingleWithin
  <2>4. Body(<<Advance, Within("try_stmt", inner)>>, 2, mute)
    BY <2>3, <1>1, StatementSingles, Bodies
  <2> QED BY <2>4 DEF try_stmt, inner
<1>19. Body(else_branches(g), 2, mute)
  <2>1. /\ Body(<<Nt("else_branches", "")>>, 2, mute) /\ Body(<<Advance, Nt("sub_block", FALSE)>>, 2, mute)
        /\ Body(<<>>, 2, mute)
    BY <1>1, StatementSingles, Bodies DEF StatementMethods, Loops
  <2>2. Body(if_branch \o <<Nt("else_branches", "")>>, 2, mute) BY <2>1, <1>13, BodyConcat
  <2> QED BY <2>1, <2>2 DEF else_branches
<1>20. Body(cases(g, a), 2, mute)
  BY <1>1, StatementSingles, Bodies DEF cases, StatementMethods, Loops
<1>21. Body(catch_block(g), 2, mute) /\ Body(declared_variables(g), 2, mute)
  BY <1>1, StatementSingles, Bodies
  DEF catch_block, declared_variables, StatementMethods, StatementEffects, Loops
<1>22. Body(imports(g), 2, mute) /\ Body(more_imports(g), 2, mute) /\ Body(one_import(g, a), 2, mute)
  BY <1>1, StatementSingles, Bodies
  DEF imports, more_imports, one_import, StatementMethods, StatementEffects, SharedEffects, Loops
<1>23. Body(command_arguments(g), 2, mute)
  BY <1>1, StatementSingles, Bodies DEF command_arguments, StatementMethods, StatementEffects, Loops
<1>24. Body(expr_stmt, 2, mute)
  BY <1>1, StatementSingles, Bodies DEF expr_stmt, StatementMethods, Loops
<1>25. Body(assignment_stmt(g), 2, mute)
  BY <1>1, StatementSingles, Bodies DEF assignment_stmt, StatementEffects
<1>26. ASSUME Wrapped(g) => mute PROVE Body(stmt(g), 2, mute)
  <2>1. /\ Body(<<Advance, Do("control")>>, 2, mute) /\ Body(variable_declaration_stmt, 2, mute)
        /\ Body(import_stmt, 2, mute) /\ Body(command_stmt, 2, mute)
    BY <1>1, StatementSingles, Bodies
    DEF variable_declaration_stmt, import_stmt, command_stmt, StatementMethods, StatementEffects, Loops
  <2>2. Look(g) \in {"for", "parfor"} => Body(for_stmt(g), 2, mute) BY <1>14, <1>26 DEF Wrapped
  <2> QED BY <2>1, <2>2, <1>15, <1>16, <1>17, <1>18, <1>24 DEF stmt
<1>27. m \in {"block", "script", "sub_block", "stmt", "else_branches", "cases", "catch_block",
              "declared_variables", "imports", "more_imports", "one_import", "command_arguments",
              "expr_stmt", "assignment", "function_def", "function_header", "function_outputs",
              "qualified_name", "function_inputs"}
  BY DEF StatementMethods
<1>28. m \in {"block", "script", "sub_block"} => mute \/ a = FALSE BY DEF Loops
<1> QED
  BY <1>28, <1>4, <1>5, <1>7, <1>8, <1>9, <1>10, <1>11, <1>19, <1>20, <1>21, <1>22, <1>23, <1>24, <1>25,
     <1>26, <1>27
  DEF StatementItems

LEMMA ClassBodies ==
  ASSUME NEW g, NEW m \in ClassMethods, NEW mute \in BOOLEAN
  PROVE  Body(ClassItems(g, m), 2, mute)
<1>1. 0 \in 0..2 /\ 1 \in 0..2 /\ 2 \in 0..2 OBVIOUS
<1>2. "class_def" \in Kinds /\ "class" \in Kinds /\ "attributes" \in Kinds
  BY DEF Kinds, BlockKinds
<1>3. Body(class_def, 2, mute)
  <2> DEFINE body == <<Nt("class_body", ""), Get("end"), Do("define_class")>>
             inner == <<Do("enter_class_file"), Nt("skipped_attributes", ""), Do("one_identifier"),
                        Nt("superclasses", ""), Within("class", body)>>
  <2>1. Body(body, 0, mute)
    BY <1>1, StatementSingles, Bodies DEF ClassMethods, StatementEffects, Loops
  <2> HIDE DEF body
  <2>2. Single(Within("class", body), 1, mute) BY <2>1, <1>2, SingleWithin
  <2>3. Body(inner, 1, mute)
    BY <2>2, <1>1, StatementSingles, Bodies DEF ClassMethods, StatementEffects, SharedEffects, Loops
  <2> HIDE DEF inner
  <2>4. Single(Within("class_def", inner), 2, mute) BY <2>3, <1>2, SingleWithin
  <2>5. Body(<<Advance, Do("register_class_file"), Within("class_def", inner)>>, 2, mute)
    BY <2>4, <1>1, StatementSingles, Bodies DEF StatementEffects
  <2> QED BY <2>5 DEF class_def, inner, body
<1>4. Body(skipped_attributes(g), 2, mute) /\ Body(superclasses(g), 2, mute)
  BY <1>1, StatementSingles, Bodies
  DEF skipped_attributes, superclasses, ClassMethods, SharedEffects, Loops
<1>5. Body(superclass(g), 2, mute) /\ Body(more_superclasses(g), 2, mute)
  BY <1>1, StatementSingles, Bodies
  DEF superclass, more_superclasses, ClassMethods, SharedEffects, Loops
<1>6. Body(class_body(g), 2, mute)
  BY <1>1, StatementSingles, Bodies DEF class_body, ClassMethods, Loops
<1>7. Body(method_attributes, 2, mute) /\ Body(attribute(g), 2, mute) /\ Body(attribute_comma(g), 2, mute)
  BY <1>1, StatementSingles, Bodies
  DEF method_attributes, attribute, attribute_comma, ClassMethods, StatementEffects, SharedEffects, Loops
<1>8. Body(attribute_value(g), 2, mute) /\ Body(access_specifier(g), 2, mute)
  BY <1>1, StatementSingles, Bodies
  DEF attribute_value, access_specifier, ClassMethods, StatementEffects, SharedEffects, Loops
<1>9. Body(methods_block(g), 2, mute)
  <2> DEFINE inner == <<Nt("methods_body", ""), Get("end")>>
             attributes == IF La(g, 1) = "(" THEN <<Nt("method_attributes", "")>> ELSE <<Do("no_names")>>
  <2>1. Body(inner, 0, mute) /\ Body(<<Advance>>, 2, mute) /\ Body(attributes, 2, mute)
    BY <1>1, StatementSingles, Bodies DEF ClassMethods, SharedEffects, Loops
  <2> HIDE DEF inner, attributes
  <2>2. Single(Within("attributes", inner), 2, mute) BY <2>1, <1>2, SingleWithin
  <2>3. Body(<<Within("attributes", inner)>>, 2, mute) BY <2>2, Bodies
  <2>4. Body(<<Advance>> \o attributes \o <<Within("attributes", inner)>>, 2, mute)
    BY <2>1, <2>3, BodyConcat
  <2> QED BY <2>4 DEF methods_block, inner, attributes
<1>10. Body(methods_body(g), 2, mute)
  <2>1. /\ Body(<<>>, 2, mute) /\ Body(<<Advance, Nt("methods_body", "")>>, 2, mute)
        /\ Body(<<Nt("methods_body", "")>>, 2, mute)
        /\ Body(<<Nt("method", ""), Nt("methods_body", "")>>, 2, mute)
        /\ Body(typed_method_dispatch, 2, mute)
    BY <1>1, StatementSingles, Bodies DEF typed_method_dispatch, ClassMethods, Loops
  <2>2. Body(typed_method_dispatch \o <<Nt("methods_body", "")>>, 2, mute) BY <2>1, BodyConcat
  <2> QED BY <2>1, <2>2 DEF methods_body
<1>11. Body(untyped_method_dispatch(g), 2, mute)
  BY <1>1, StatementSingles, Bodies
  DEF untyped_method_dispatch, StatementMethods, StatementEffects, Loops
<1>12. Body(properties_block, 2, mute)
  BY <1>1, StatementSingles, Bodies DEF properties_block, ClassMethods, Loops
<1>13. Body(properties_body(g), 2, mute)
  <2>1. /\ Body(<<>>, 2, mute) /\ Body(<<Advance, Nt("properties_body", "")>>, 2, mute)
        /\ Body(<<Do("emplace_property"), Nt("properties_body", "")>>, 2, mute)
        /\ Body(<<Do("one_identifier"), Nt("initializer", ""), Do("emplace_property"),
                  Nt("properties_body", "")>>, 2, mute)
        /\ Body(typed_property, 2, mute)
    BY <1>1, StatementSingles, Bodies
    DEF typed_property, ClassMethods, StatementEffects, SharedEffects, Loops
  <2>2. Body(typed_property \o <<Do("emplace_property"), Nt("properties_body", "")>>, 2, mute)
    BY <2>1, BodyConcat
  <2> QED BY <2>1, <2>2 DEF properties_body
<1>14. Body(initializer(g), 2, mute)
  BY <1>1, StatementSingles, Bodies DEF initializer
<1>15. m \in {"class_def", "skipped_attributes", "superclasses", "superclass", "more_superclasses",
              "class_body", "method_attributes", "attribute", "attribute_value", "attribute_comma",
              "access_specifier", "methods_block", "methods_body", "method", "properties_block",
              "properties_body", "initializer"}
  BY DEF ClassMethods
<1> QED
  BY <1>3, <1>4, <1>5, <1>6, <1>7, <1>8, <1>9, <1>10, <1>11, <1>12, <1>13, <1>14, <1>15
  DEF ClassItems

LEMMA ItemBodies ==
  ASSUME NEW g, NEW m \in Methods, NEW a, NEW mute \in BOOLEAN,
         m = "type_delimiter" => a \in TypeLists,
         m \in Loops => mute \/ a = FALSE, m = "stmt" /\ Wrapped(g) => mute
  PROVE  Body(Items(g, m, a), 2, mute)
<1>1. m \in ExpressionMethods \cup TypeMethods \cup StatementMethods \cup ClassMethods
  BY DEF Methods
<1>2. m \in ExpressionMethods => Body(ExpressionItems(g, m, a), 2, mute) BY ExpressionBodies
<1>3. m \in TypeMethods => Body(TypeItems(g, m, a), 2, mute) BY TypeBodies
<1>4. m \in StatementMethods => Body(StatementItems(g, m, a), 2, mute) BY StatementBodies
<1>5. m \in ClassMethods => Body(ClassItems(g, m), 2, mute) BY ClassBodies
<1> QED BY <1>1, <1>2, <1>3, <1>4, <1>5 DEF Items

------------------------------------------------------------------------------
(* What an effect changes, and what it does not. *)

FieldNames ==
  {"pos", "todo", "vals", "failing", "status", "depth", "class_def_file", "scopes", "attrs",
   "schemes", "exports", "spaces", "classes", "errors", "file_type", "visited", "entry",
   "entry_class", "asserts", "declared", "pending_imports", "pending_methods", "external"}

Shape(g) ==
  /\ DOMAIN g = FieldNames
  /\ g.status \in {"parsing", "parsed", "had_error", "crashed"}
  /\ g.failing \in BOOLEAN
  /\ g.pos \in Nat \ {0} /\ g.visited \in Nat
  /\ DOMAIN g.depth = BlockKinds
  /\ IsList(g.scopes) /\ IsList(g.attrs) /\ IsList(g.schemes) /\ IsList(g.exports)
  /\ IsList(g.spaces) /\ IsList(g.classes)

SameDepth(g, h) ==
  /\ h.depth = g.depth /\ h.external = g.external
  /\ Len(h.scopes) = Len(g.scopes) /\ Len(h.attrs) = Len(g.attrs)
  /\ Len(h.schemes) = Len(g.schemes) /\ Len(h.exports) = Len(g.exports)
  /\ Len(h.spaces) = Len(g.spaces) /\ Len(h.classes) = Len(g.classes)

(* Nothing is read again, and no failure and no report is taken back ... *)
Forward(g, h) ==
  /\ h.pos >= g.pos /\ g.errors \subseteq h.errors /\ (g.failing => h.failing)
  /\ h.errors /= g.errors => h.failing
  /\ h.status \in {g.status, "crashed"}

Kept(g, h) == Shape(h) /\ SameDepth(g, h) /\ h.todo = g.todo /\ Forward(g, h)

(* ... and what fails says so. *)
Steady(g, h) == Kept(g, h) /\ (h.failing => g.failing \/ h.errors /= {})

LEMMA SteadyThen ==
  ASSUME NEW g, NEW h, NEW i, Shape(g), Steady(g, h), Steady(h, i)
  PROVE  Steady(g, i)
<1>1. g.pos \in Nat /\ h.pos \in Nat /\ i.pos \in Nat BY DEF Steady, Kept, Shape
<1>2. i.pos >= g.pos BY <1>1 DEF Steady, Kept, Forward
<1>3. Forward(g, i) BY <1>2 DEF Steady, Kept, Forward
<1>4. SameDepth(g, i) /\ i.todo = g.todo BY DEF Steady, Kept, SameDepth
<1>5. i.failing => g.failing \/ i.errors /= {} BY DEF Steady, Kept, Forward
<1> QED BY <1>3, <1>4, <1>5 DEF Steady, Kept

LEMMA SteadySelf ==
  ASSUME NEW g, Shape(g)
  PROVE  Steady(g, g)
BY DEF Steady, Kept, Forward, Shape, SameDepth

Unrelated == {"vals", "class_def_file", "file_type", "entry", "entry_class", "asserts",
              "declared", "pending_imports", "pending_methods"}

LEMMA SetField ==
  ASSUME NEW g, Shape(g), NEW f \in Unrelated, NEW x
  PROVE  Steady(g, [g EXCEPT ![f] = x])
BY DEF Unrelated, Steady, Kept, Forward, Shape, SameDepth, FieldNames

LEMMA SteadyOps ==
  ASSUME NEW g, Shape(g)
  PROVE  /\ \A node : Steady(g, Push(g, node))
         /\ \A n, kind, names : Steady(g, Combine(g, n, kind, names))
         /\ Kept(g, Failed(g))
         /\ \A e : Steady(g, Error(g, e))
         /\ Steady(g, Advanced(g))
         /\ \A f : Steady(g, InFrame(g, f))
         /\ \A k : Steady(g, Renamed(g, k))
         /\ \A w : Steady(g, Crashed(g, w))
         /\ \A t : Steady(g, register_file_type(g, t))
         /\ \A n, e : Steady(g, emplace_type(g, n, e))
<1> USE DEF Steady, Kept, Forward, Shape, SameDepth, FieldNames
<1>1. ASSUME NEW node PROVE Steady(g, Push(g, node)) BY DEF Push
<1>2. ASSUME NEW n, NEW kind, NEW names PROVE Steady(g, Combine(g, n, kind, names)) BY DEF Combine
<1>3. Kept(g, Failed(g)) BY DEF Failed
<1>4. ASSUME NEW e PROVE Steady(g, Error(g, e)) BY DEF Error
<1>5. Steady(g, Advanced(g)) BY DEF Advanced
<1>6. ASSUME NEW f PROVE Steady(g, InFrame(g, f)) BY DEF InFrame
<1>7. ASSUME NEW k PROVE Steady(g, Renamed(g, k)) BY DEF Renamed
<1>8. ASSUME NEW w PROVE Steady(g, Crashed(g, w)) BY DEF Crashed
<1>9. ASSUME NEW t PROVE Steady(g, register_file_type(g, t)) BY DEF register_file_type
<1>10. ASSUME NEW n, NEW e PROVE Steady(g, emplace_type(g, n, e))
  <2> DEFINE i == Len(g.scopes)
             x == [g.scopes[i] EXCEPT !.types = @ \cup {n}]
             d == [g.scopes EXCEPT ![i] = x]
             y == [d[1] EXCEPT !.exports = @ \cup {n}]
             r == [d EXCEPT ![1] = y]
             s == IF e THEN r ELSE d
  <2>1. IsList(s) /\ Len(s) = Len(g.scopes)
    <3>1. IsList(d) /\ Len(d) = Len(g.scopes) BY ListExcept
    <3> HIDE DEF d
    <3>2. IsList(r) /\ Len(r) = Len(d) BY <3>1, ListExcept
    <3> QED BY <3>1, <3>2
  <2>2. emplace_type(g, n, e) = [g EXCEPT !.scopes = s] BY DEF emplace_type
  <2> HIDE DEF s
  <2>3. Steady(g, [g EXCEPT !.scopes = s]) BY <2>1
  <2> QED BY <2>2, <2>3
<1> QED BY <1>1, <1>2, <1>3, <1>4, <1>5, <1>6, <1>7, <1>8, <1>9, <1>10

LEMMA SmallestIndex ==
  ASSUME NEW S, S \subseteq Nat, S /= {}
  PROVE  \E i \in S : \A j \in S : i <= j
<1>1. PICK i \in S : \A j \in S : <<j, i>> \notin OpToRel(<, Nat)
  BY NatLessThanWellFounded, WFMin
<1>2. \A j \in S : ~(j < i) BY <1>1 DEF OpToRel
<1>3. \A j \in S : i <= j BY <1>2
<1> QED BY <1>3

LEMMA SkipSteady ==
  ASSUME NEW g, Shape(g), NEW types, Len(tokens.list) \in Nat
  PROVE  Steady(g, advance_to_one(g, types))
<1> DEFINE n == Len(tokens.list)
           hits == {i \in g.pos..n : TypeOf(tokens.list[i]) \in types}
           first == IF hits = {} THEN n + 1
                    ELSE CHOOSE i \in hits : \A j \in hits : i <= j
           to == IF HasNext(g) THEN first ELSE g.pos
<1>1. to \in Nat \ {0} /\ to >= g.pos
  <2>1. g.pos \in Nat \ {0} BY DEF Shape
  <2>2. CASE ~HasNext(g) BY <2>1, <2>2
  <2>3. CASE HasNext(g) /\ hits = {} BY <2>1, <2>3 DEF HasNext
  <2>4. CASE HasNext(g) /\ hits /= {}
    <3>1. hits \subseteq Nat \ {0} /\ hits \subseteq Nat BY <2>1
    <3>2. \E i \in hits : \A j \in hits : i <= j BY <3>1, <2>4, SmallestIndex
    <3> HIDE DEF hits
    <3>3. first \in hits BY <3>2, <2>4
    <3>4. first \in g.pos..n BY <3>3 DEF hits
    <3> HIDE DEF first
    <3>5. to = first BY <2>4
    <3> QED BY <3>4, <3>5, <2>1
  <2> QED BY <2>2, <2>3, <2>4
<1>2. advance_to_one(g, types) = [g EXCEPT !.pos = to] BY DEF advance_to_one
<1> HIDE DEF to
<1> QED BY <1>1, <1>2 DEF Steady, Kept, Forward, Shape, SameDepth, FieldNames

LEMMA ExpressionEffectSteady ==
  ASSUME NEW g, Shape(g), NEW e \in ExpressionEffects
  PROVE  Steady(g, ExpressionEffect(g, e))
<1>1. Steady(g, g) BY SteadySelf
<1>2. ASSUME NEW x PROVE Steady(g, [g EXCEPT !.vals = x])
  BY SetField DEF Unrelated
<1>3. Steady(g, attach_subscript(g)) /\ Steady(g, group_part(g)) /\ Steady(g, complete(g))
  BY <1>2 DEF attach_subscript, group_part, complete
<1>4. Steady(g, check_subscript(g)) BY <1>1, SteadyOps DEF check_subscript
<1>5. Steady(g, superclass_method(g)) BY SteadyOps DEF superclass_method
<1>6. Steady(g, anonymous_function(g)) BY SteadyOps DEF anonymous_function
<1>7. Steady(g, check_varargin(g)) BY <1>1, SteadyOps DEF check_varargin
<1>8. Steady(g, frame(g)) BY SteadyOps DEF frame
<1>9. Steady(g, postfix_unary(g)) BY SteadyOps DEF postfix_unary
<1>10. Steady(g, pending_unary(g)) BY SteadyOps DEF pending_unary
<1>11. Steady(g, pending_binary(g)) BY SteadyOps DEF pending_binary
<1>12. Steady(g, settle(g)) BY SteadyOps DEF settle
<1>13. ASSUME NEW a PROVE Steady(g, finish(g, a)) BY SteadyOps DEF finish
<1>14. e \in {"literal_field", "dynamic_field", "reference", "subscript", "group", "argument",
   "attach_subscript", "check_subscript", "superclass_method", "function_reference",
   "anonymous_function", "check_varargin", "group_part", "frame", "ignored", "literal", "complete",
   "postfix_unary", "pending_unary", "pending_binary", "settle", "finish", "finish_or_empty"}
  BY DEF ExpressionEffects
<1> QED
  BY <1>3, <1>4, <1>5, <1>6, <1>7, <1>8, <1>9, <1>10, <1>11, <1>12, <1>13, <1>14, SteadyOps
  DEF ExpressionEffect

LEMMA TypeEffectSteady ==
  ASSUME NEW g, Shape(g), NEW e \in TypeEffects
  PROVE  Steady(g, TypeEffect(g, e))
<1>1. Steady(g, g) BY SteadySelf
<1>2. ASSUME NEW f \in Unrelated, NEW x PROVE Steady(g, [g EXCEPT ![f] = x])
  BY SetField
<1>3. Steady(g, check_scheme(g)) /\ Steady(g, check_type_variables(g)) /\ Steady(g, check_field(g))
  BY <1>1, SteadyOps DEF check_scheme, check_type_variables, check_field
<1>4. Steady(g, as_annotation(g)) BY SteadyOps DEF as_annotation
<1>5. Steady(g, fun_assignment(g)) BY <1>4, SteadyOps DEF fun_assignment
<1>6. ASSUME NEW h, Steady(g, h), NEW n, NEW kind, NEW names
      PROVE  Steady(g, Combine(h, n, kind, names))
  <2>1. Steady(h, Combine(h, n, kind, names)) BY <1>6, SteadyOps DEF Steady, Kept
  <2> QED BY <2>1, <1>6, SteadyThen
<1>7. ASSUME NEW n, NEW kind PROVE Steady(g, register_type(g, n, kind))
  BY <1>6, SteadyOps DEF register_type
<1>8. ASSUME NEW h, Steady(g, h), NEW f \in Unrelated, NEW x PROVE Steady(g, [h EXCEPT ![f] = x])
  <2>1. Steady(h, [h EXCEPT ![f] = x]) BY <1>8, SetField DEF Steady, Kept
  <2> QED BY <2>1, <1>8, SteadyThen
<1>9. Steady(g, pending_import(g)) BY <1>4, <1>8 DEF pending_import, Unrelated
<1>10. Steady(g, underlying(g)) BY <1>2, SteadyOps DEF underlying, Unrelated
<1>11. Steady(g, declare_function(g))
  <2>1. ASSUME NEW name, NEW x
        PROVE  Steady(g, [Combine(g, 2, "annotation", name) EXCEPT !.declared = x])
    BY <1>8, SteadyOps DEF Unrelated
  <2> QED BY <2>1, SteadyOps DEF declare_function
<1>12. Steady(g, declare_class(g))
  <2>1. ASSUME NEW name, NEW x
        PROVE  Steady(g, [Combine(emplace_type(g, name, TRUE), 2, "annotation", name)
                            EXCEPT !.declared = x])
    BY <1>6, <1>8, SteadyOps DEF Unrelated
  <2> QED BY <2>1, SteadyOps DEF declare_class
<1>13. Steady(g, declare_method(g)) BY SteadyOps DEF declare_method
<1>14. Steady(g, cast(g)) BY <1>4, SteadyOps DEF cast
<1>15. Steady(g, constructor(g)) BY <1>4, SteadyOps DEF constructor
<1>16. e \in {"as_union", "type", "function_type", "check_scheme", "check_type_variables", "scheme",
   "assertion_of", "assertion", "as_annotation", "annotation", "fun_assignment", "register",
   "register_over_one", "check_field", "pending_import", "underlying", "declare_function",
   "declare_class", "method_name", "declare_method", "cast", "constructor"}
  BY DEF TypeEffects
<1> QED
  BY <1>3, <1>4, <1>5, <1>7, <1>9, <1>10, <1>11, <1>12, <1>13, <1>14, <1>15, <1>16, SteadyOps
  DEF TypeEffect

(* The innermost scope and the class at hand are changed in their places. *)
LEMMA InnermostSteady ==
  ASSUME NEW g, Shape(g), NEW s
  PROVE  /\ IsList(s) /\ Len(s) = Len(g.scopes) =>
              /\ Steady(g, [g EXCEPT !.scopes = s])
              /\ \A x : Steady(g, [g EXCEPT !.vals = x, !.scopes = s])
              /\ \A x, y : Steady(g, [g EXCEPT !.scopes = s, !.entry_class = x, !.asserts = y])
         /\ IsList(s) /\ Len(s) = Len(g.classes) =>
              \A x : Steady(g, [g EXCEPT !.classes = s, !.vals = x])
<1> USE DEF Steady, Kept, Forward, Shape, SameDepth, FieldNames
<1>1. ASSUME IsList(s), Len(s) = Len(g.scopes) PROVE Steady(g, [g EXCEPT !.scopes = s])
  BY <1>1
<1>2. ASSUME IsList(s), Len(s) = Len(g.scopes), NEW x
      PROVE  Steady(g, [g EXCEPT !.vals = x, !.scopes = s])
  BY <1>2
<1>3. ASSUME IsList(s), Len(s) = Len(g.scopes), NEW x, NEW y
      PROVE  Steady(g, [g EXCEPT !.scopes = s, !.entry_class = x, !.asserts = y])
  BY <1>3
<1>4. ASSUME IsList(s), Len(s) = Len(g.classes), NEW x
      PROVE  Steady(g, [g EXCEPT !.classes = s, !.vals = x])
  BY <1>4
<1> HIDE DEF Steady, Kept, Forward, Shape, SameDepth, FieldNames
<1> QED BY <1>1, <1>2, <1>3, <1>4

LEMMA StatementEffectSteady ==
  ASSUME NEW g, Shape(g), NEW e \in StatementEffects
  PROVE  Steady(g, StatementEffect(g, e))
<1>1. Steady(g, g) BY SteadySelf
<1>2. ASSUME NEW h, Steady(g, h), NEW f \in Unrelated, NEW x PROVE Steady(g, [h EXCEPT ![f] = x])
  <2>1. Steady(h, [h EXCEPT ![f] = x]) BY <1>2, SetField DEF Steady, Kept
  <2> QED BY <2>1, <1>2, SteadyThen
<1>3. ASSUME NEW i, NEW x
      PROVE  /\ IsList([g.scopes EXCEPT ![i] = x])
             /\ Len([g.scopes EXCEPT ![i] = x]) = Len(g.scopes)
             /\ IsList([g.classes EXCEPT ![i] = x])
             /\ Len([g.classes EXCEPT ![i] = x]) = Len(g.classes)
  BY ListExcept DEF Shape
<1>4. Steady(g, mark_visited_function(g))
  <2>1. ASSUME NEW h, Steady(g, h) PROVE Steady(g, [h EXCEPT !.visited = @ + 1])
    BY <2>1 DEF Steady, Kept, Forward, Shape, SameDepth, FieldNames
  <2> QED BY <2>1, SteadyOps DEF mark_visited_function
<1>5. Steady(g, check_location(g)) /\ Steady(g, check_varargout(g)) /\ Steady(g, check_target(g))
  BY <1>1, SteadyOps DEF check_location, check_varargout, check_target
<1>6. Steady(g, header(g)) BY SteadyOps DEF header
<1>7. Steady(g, define_function(g))
  <2> DEFINE n == Len(g.scopes)
             named == [g.vals EXCEPT ![Len(g.vals)].kind = "function"]
             known(f) == [g.scopes EXCEPT ![n] = [g.scopes[n] EXCEPT !.functions = f]]
             defined(f) == [g EXCEPT !.vals = named, !.scopes = known(f)]
  <2>1. ASSUME NEW f PROVE Steady(g, defined(f))
    <3>1. IsList(known(f)) /\ Len(known(f)) = Len(g.scopes) BY <1>3
    <3> HIDE DEF named, known
    <3> QED BY <3>1, InnermostSteady
  <2>2. ASSUME NEW h, Steady(g, h), NEW x, NEW y
        PROVE  Steady(g, [h EXCEPT !.entry = x, !.asserts = y])
    BY <2>2 DEF Steady, Kept, Forward, Shape, SameDepth, FieldNames
  <2>3. ASSUME NEW f, NEW name PROVE Steady(g, set_file_entry_function_ref(defined(f), name))
    <3> HIDE DEF defined
    <3> QED BY <2>1, <2>2 DEF set_file_entry_function_ref
  <2> DEFINE functions(x) == IF g.external \/ ~is_method(g) THEN g.scopes[n].functions \cup {x}
                             ELSE g.scopes[n].functions
  <2>4. define_function(g) \in {defined(functions(Value(g).names)),
                               set_file_entry_function_ref(defined(functions(Value(g).names)), Value(g).names)}
        \/ \E x : define_function(g) = Error(g, x)
    BY DEF define_function
  <2> HIDE DEF defined, functions
  <2> QED BY <2>1, <2>3, <2>4, SteadyOps
<1>8. Steady(g, control(g)) BY SteadyOps DEF control
<1>9. Steady(g, register_import(g))
  <2> DEFINE n == Len(g.scopes)
             s == [g.scopes EXCEPT ![n].imports = @ + 1]
             x == Front(g.vals)
  <2>1. IsList(s) /\ Len(s) = Len(g.scopes) BY <1>3
  <2>2. register_import(g) \in {Error(g, "incomplete_import_stmt"), [g EXCEPT !.vals = x, !.scopes = s]}
    BY DEF register_import
  <2> HIDE DEF s, x
  <2>3. Steady(g, [g EXCEPT !.vals = x, !.scopes = s]) BY <2>1, InnermostSteady
  <2> QED BY <2>2, <2>3, SteadyOps
<1>10. Steady(g, register_class_file(g)) BY SteadyOps DEF register_class_file
<1>11. Steady(g, [g EXCEPT !.class_def_file = @ + 1]) BY <1>1, <1>2 DEF Unrelated
<1>12. Steady(g, define_class(g))
  <2> DEFINE n == Len(g.scopes)
             s(c) == [g.scopes EXCEPT ![n] = [g.scopes[n] EXCEPT !.classes = c]]
             registered(c, x, y) == [g EXCEPT !.scopes = s(c), !.entry_class = x, !.asserts = y]
  <2>1. ASSUME NEW c, NEW x, NEW y PROVE Steady(g, registered(c, x, y))
    <3>1. IsList(s(c)) /\ Len(s(c)) = Len(g.scopes) BY <1>3
    <3> HIDE DEF s
    <3> QED BY <3>1, InnermostSteady
  <2>2. ASSUME NEW h, Steady(g, h)
        PROVE  /\ \A a : Steady(g, Error(h, a))
               /\ \A a, b, x, y : Steady(g, [emplace_type(h, a, b) EXCEPT !.pending_methods = x, !.vals = y])
    <3>1. Shape(h) BY <2>2 DEF Steady, Kept
    <3>2. \A a : Steady(h, Error(h, a)) BY <3>1, SteadyOps
    <3>3. \A a, b : Steady(h, emplace_type(h, a, b)) BY <3>1, SteadyOps
    <3>4. \A a, b : Steady(g, emplace_type(h, a, b)) BY <2>2, <3>3, SteadyThen
    <3>5. ASSUME NEW k, Steady(g, k), NEW x, NEW y
          PROVE  Steady(g, [k EXCEPT !.pending_methods = x, !.vals = y])
      BY <3>5 DEF Steady, Kept, Forward, Shape, SameDepth, FieldNames
    <3> QED BY <2>2, <3>2, <3>4, <3>5, SteadyThen
  <2> DEFINE r == registered(g.scopes[n].classes \cup {enclosing_class(g).name}, enclosing_class(g).name,
                            g.asserts \cup (IF g.entry_class = <<>> THEN {} ELSE {"file_entry_class_def"}))
  <2> DEFINE class == enclosing_class(g)
             name == TypeName(g, class.name)
             known == class.name \in Top(g.scopes).classes
             free == can_register_local_identifier(g, name, TRUE)
             made == [emplace_type(r, name, TRUE)
                        EXCEPT !.pending_methods = @ \o class.decls,
                               !.vals = Append(Front(@), Node(g, "class", class.name, <<>>))]
  <2>3. define_class(g) = CASE known -> Error(g, "duplicate_class_def")
                            [] ~free -> Error(r, "duplicate_type_identifier")
                            [] OTHER -> made
    BY DEF define_class
  <2>4. Steady(g, r) BY <2>1
  <2> HIDE DEF r
  <2>5. Steady(g, Error(r, "duplicate_type_identifier")) /\ Steady(g, made) BY <2>2, <2>4
  <2>6. Steady(g, Error(g, "duplicate_class_def")) BY SteadyOps
  <2> HIDE DEF made, known, free
  <2> QED BY <2>3, <2>5, <2>6
<1>13. Steady(g, attribute_name(g)) BY SteadyOps DEF attribute_name
<1>14. Steady(g, boolean_attribute_value(g))
  <2>1. ASSUME NEW x PROVE Steady(g, Advanced([g EXCEPT !.vals = x]))
    <3>1. Steady(g, [g EXCEPT !.vals = x]) BY SetField DEF Unrelated
    <3>2. Steady([g EXCEPT !.vals = x], Advanced([g EXCEPT !.vals = x]))
      BY <3>1, SteadyOps DEF Steady, Kept
    <3> QED BY <3>1, <3>2, SteadyThen
  <2> QED BY <2>1, SteadyOps DEF boolean_attribute_value
<1>15. Steady(g, access_value(g)) BY SteadyOps DEF access_value
<1>16. Steady(g, method_declaration(g)) /\ Steady(g, method_def(g))
  <2> DEFINE n == Len(g.classes)
             s(x) == [g.classes EXCEPT ![n] = [g.classes[n] EXCEPT !.methods = x]]
  <2>1. ASSUME NEW name PROVE Steady(g, WithMethod(g, name))
    <3> DEFINE t == s(g.classes[n].methods \cup {name})
               x == Front(g.vals)
    <3>1. IsList(t) /\ Len(t) = Len(g.classes) BY <1>3
    <3>2. WithMethod(g, name) = [g EXCEPT !.classes = t, !.vals = x] BY DEF WithMethod
    <3> HIDE DEF t, x
    <3>3. Steady(g, [g EXCEPT !.classes = t, !.vals = x]) BY <3>1, InnermostSteady
    <3> QED BY <3>2, <3>3
  <2>2. ASSUME NEW h, Steady(g, h), NEW i, NEW x
        PROVE  Steady(g, [h EXCEPT !.classes[i] = x])
    <3> DEFINE t == [h.classes EXCEPT ![i] = x]
    <3>1. IsList(t) /\ Len(t) = Len(h.classes) BY <2>2, ListExcept DEF Steady, Kept, Shape
    <3>2. [h EXCEPT !.classes[i] = x] = [h EXCEPT !.classes = t] OBVIOUS
    <3> HIDE DEF t
    <3>3. Steady(g, [h EXCEPT !.classes = t]) BY <2>2, <3>1 DEF Steady, Kept, Forward, Shape, SameDepth, FieldNames
    <3> QED BY <3>2, <3>3
  <2>3. ASSUME NEW name, NEW d, NEW i
        PROVE  Steady(g, [WithMethod(g, name) EXCEPT !.classes[i].decls = d])
    <3> DEFINE h == WithMethod(g, name)
               x == [h.classes[i] EXCEPT !.decls = d]
    <3>1. [h EXCEPT !.classes[i].decls = d] = [h EXCEPT !.classes[i] = x] OBVIOUS
    <3> HIDE DEF x
    <3>2. Steady(g, [h EXCEPT !.classes[i] = x]) BY <2>1, <2>2
    <3> QED BY <3>1, <3>2
  <2> HIDE DEF s
  <2>4. ASSUME NEW name
        PROVE  Steady(g, [WithMethod(g, name) EXCEPT !.classes[Len(g.classes)].decls = Append(@, name)])
    BY <2>3
  <2> QED BY <2>1, <2>4, SteadyOps DEF method_declaration, method_def
<1>17. Steady(g, name_property(g)) BY <1>1, <1>2, SteadyOps DEF name_property, Unrelated
<1>18. Steady(g, emplace_property(g))
  <2> DEFINE n == Len(g.classes)
             known == g.classes[n].properties \cup {Value(g).names}
             t == [g.classes EXCEPT ![n] = [g.classes[n] EXCEPT !.properties = known]]
             x == Front(g.vals)
  <2>1. IsList(t) /\ Len(t) = Len(g.classes) BY <1>3
  <2>2. emplace_property(g) \in {Error(g, "duplicate_class_property"), [g EXCEPT !.classes = t, !.vals = x]}
    BY DEF emplace_property
  <2> HIDE DEF t, x
  <2>3. Steady(g, [g EXCEPT !.classes = t, !.vals = x]) BY <2>1, InnermostSteady
  <2> QED BY <2>2, <2>3, SteadyOps
<1>19. e \in {"register_script", "mark_visited_function", "check_location", "check_varargout", "header",
   "define_function", "control", "statement", "null_statement", "register_import", "check_target",
   "assignment", "expr_stmt", "register_class_file", "enter_class_file", "define_class",
   "attribute_name", "boolean_attribute_value", "access_value", "method_declaration", "method_def",
   "name_property", "emplace_property"}
  BY DEF StatementEffects
<1> QED
  BY <1>4, <1>5, <1>6, <1>7, <1>8, <1>9, <1>10, <1>11, <1>12, <1>13, <1>14, <1>15, <1>16, <1>17, <1>18,
     <1>19, SteadyOps
  DEF StatementEffect
LEMMA EffectSteady ==
  ASSUME NEW g, Shape(g), NEW e \in Effects, Len(tokens.list) \in Nat
  PROVE  Steady(g, Effect(g, e))
<1>1. Steady(g, [g EXCEPT !.vals = Front(@)]) BY SetField DEF Unrelated
<1>2. Steady(g, Gather(g))
  <2>1. \A x : Steady(g, [g EXCEPT !.vals = x]) BY SetField DEF Unrelated
  <2> QED BY <2>1 DEF Gather
<1>3. Steady(g, NoNames(g)) BY SteadyOps DEF NoNames
<1>4. Steady(g, one_identifier(g))
  <2>1. ASSUME NEW node PROVE Steady(g, Advanced(Push(g, node)))
    <3>1. Steady(g, Push(g, node)) BY SteadyOps
    <3>2. Steady(Push(g, node), Advanced(Push(g, node))) BY <3>1, SteadyOps DEF Steady, Kept
    <3> QED BY <3>1, <3>2, SteadyThen
  <2> QED BY <2>1, SteadyOps DEF one_identifier
<1>5. \A t : Steady(g, advance_to_one(g, t)) BY SkipSteady
<1>6. CASE e \in TypeEffects
  <2>1. Steady(g, TypeEffect(g, e)) BY <1>6, TypeEffectSteady
  <2>2. Effect(g, e) = TypeEffect(g, e) BY <1>6 DEF Effect, TypeEffects, StatementEffects
  <2> QED BY <2>1, <2>2
<1>7. CASE e \in StatementEffects
  <2>1. Steady(g, StatementEffect(g, e)) BY <1>7, StatementEffectSteady
  <2>2. Effect(g, e) = StatementEffect(g, e) BY <1>7 DEF Effect, StatementEffects, TypeEffects
  <2> QED BY <2>1, <2>2
<1>8. CASE e \in ExpressionEffects
  <2>1. Steady(g, ExpressionEffect(g, e)) BY <1>8, ExpressionEffectSteady
  <2>2. Effect(g, e) = ExpressionEffect(g, e)
    BY <1>8 DEF Effect, StatementEffects, TypeEffects, ExpressionEffects
  <2> QED BY <2>1, <2>2
<1>9. CASE e \in SharedEffects
  BY <1>1, <1>2, <1>3, <1>4, <1>5, <1>9, SteadyOps
  DEF Effect, SharedEffects, TypeEffects, StatementEffects
<1> QED BY <1>6, <1>7, <1>8, <1>9 DEF Effects

------------------------------------------------------------------------------
(* What the parser has still to do. *)

LEMMA MethodNames ==
  Methods \cap {"do", "get", "get_silently", "within", "leave", "catch", "error"} = {}
BY DEF Methods, ExpressionMethods, TypeMethods, StatementMethods, ClassMethods

LEMMA BodyRises ==
  ASSUME NEW s, NEW mute, Body(s, 2, mute)
  PROVE  /\ Body(s, 3, mute) /\ \A kinds : \A i \in 1..Len(s) : ~IsLeave(s[i], kinds)
<1>1. ASSUME NEW item, Element(item, 2, mute) PROVE Element(item, 3, mute) /\ item[1] /= "leave"
  BY <1>1, MethodNames DEF Element, Plain, Encloses
<1> QED BY <1>1 DEF Body, IsLeave

LEMMA BodyTail ==
  ASSUME NEW s, NEW mute, Body(s, 3, mute), s /= <<>>
  PROVE  /\ Body(Tail(s), 3, mute) /\ Len(s) >= 1 /\ Head(s) = s[1] /\ Element(Head(s), 3, mute)
         /\ s[1][1] = "catch" => Tail(s) /= <<>> /\ Head(Tail(s))[1] /= "leave"
<1>1. /\ IsList(Tail(s)) /\ Len(Tail(s)) = Len(s) - 1 /\ Len(s) >= 1 /\ Head(s) = s[1]
      /\ \A i \in 1..Len(s) - 1 : Tail(s)[i] = s[i + 1]
  BY ListTail DEF Body
<1>2. Len(s) \in Nat BY ListShape DEF Body
<1>3. \A i \in 1..Len(Tail(s)) : i + 1 \in 1..Len(s) /\ Tail(s)[i] = s[i + 1]
  BY <1>1, <1>2
<1>4. \A i \in 1..Len(Tail(s)) : Element(Tail(s)[i], 3, mute) BY <1>3 DEF Body
<1>5. Caught(Tail(s))
  <2> SUFFICES ASSUME NEW i \in 1..Len(Tail(s)), Tail(s)[i][1] = "catch"
               PROVE  i < Len(Tail(s)) /\ Tail(s)[i + 1][1] /= "leave"
    BY DEF Caught
  <2>1. i + 1 \in 1..Len(s) /\ s[i + 1][1] = "catch" BY <1>3
  <2>2. i + 1 < Len(s) /\ s[i + 1 + 1][1] /= "leave" BY <2>1 DEF Body, Caught
  <2>3. i < Len(Tail(s)) /\ i + 1 \in 1..Len(Tail(s)) BY <2>2, <1>1, <1>2
  <2> QED BY <2>2, <2>3, <1>3
<1>6. Element(s[1], 3, mute) BY <1>1, <1>2 DEF Body
<1>7. ASSUME s[1][1] = "catch" PROVE Tail(s) /= <<>> /\ Head(Tail(s))[1] /= "leave"
  <2>1. 1 < Len(s) /\ s[1 + 1][1] /= "leave" BY <1>7, <1>1, <1>2 DEF Body, Caught
  <2>2. Len(Tail(s)) >= 1 /\ 1 \in 1..Len(s) - 1 BY <2>1, <1>1, <1>2
  <2>3. Tail(s) /= <<>>
    <3> DEFINE none == <<>>
               t == Tail(s)
    <3>1. Len(none) = 0 OBVIOUS
    <3> HIDE DEF none, t
    <3>2. Len(t) >= 1 BY <2>2 DEF t
    <3>3. t /= none BY <3>1, <3>2
    <3> QED BY <3>3 DEF none, t
  <2>4. Tail(s)[1] = s[1 + 1] BY <2>2, <1>1
  <2>5. Head(Tail(s)) = Tail(s)[1] BY <2>3, <1>1, ListTail
  <2> QED BY <2>1, <2>3, <2>4, <2>5
<1> QED BY <1>1, <1>4, <1>5, <1>6, <1>7 DEF Body

(* What is entered is a list like that of a method. *)
LEMMA WithinBody ==
  ASSUME NEW item, NEW mute \in BOOLEAN, Element(item, 3, mute), item[1] = "within"
  PROVE  item[2][1] \in Kinds /\ Body(item[2][2], 2, mute)
<1>1. item[2][1] \in Kinds /\ Body1(item[2][2], mute)
  BY MethodNames, BodyLevels DEF Element, Plain, Encloses
<1>2. ASSUME NEW i \in 1..Len(item[2][2]) PROVE Element(item[2][2][i], 2, mute)
  BY <1>1, BodyLevels DEF Body1, Element
<1> QED BY <1>1, <1>2 DEF Body, Body1

------------------------------------------------------------------------------
(* How deep the parser is, for what it has still to do. *)

Nesting(g, s) ==
  LET base == IF g.external THEN 1 ELSE 0
  IN  /\ \A k \in BlockKinds \ {"class_def"} : g.depth[k] = HeldIn(s, {k})
      /\ g.depth["class_def"] = base + HeldIn(s, {"class_def"})
      /\ Len(g.scopes) = 1 + HeldIn(s, {"scope"})
      /\ Len(g.attrs) = 1 + base + HeldIn(s, {"attributes"})
      /\ Len(g.schemes) = 1 + HeldIn(s, {"scheme", "no_scheme"})
      /\ Len(g.exports) = 1 + HeldIn(s, {"export", "non_export"})
      /\ Len(g.spaces) = HeldIn(s, {"namespace"})
      /\ Len(g.classes) = base + HeldIn(s, {"class"})

LEMMA NestingIs == NestingRestored <=> Nesting(gen, gen.todo)
BY HeldIsHeldIn DEF NestingRestored, Nesting

LEMMA NestingKept ==
  ASSUME NEW g, NEW h, NEW s, NEW t, Nesting(g, s), SameDepth(g, h),
         \A kinds : HeldIn(t, kinds) = HeldIn(s, kinds)
  PROVE  Nesting(h, t)
BY DEF Nesting, SameDepth

One(yes, d) == IF yes THEN d ELSE 0

(* One destructor of this kind is added to the list, or taken off it ... *)
Counts(s, t, kind, d) == \A kinds : HeldIn(t, kinds) = HeldIn(s, kinds) + One(kind \in kinds, d)

(* ... and the state is one deeper, or one less deep, in what it stands for. *)
Deeper(g, h, kind, d) ==
  /\ h.external = g.external
  /\ \A k \in BlockKinds : h.depth[k] = g.depth[k] + One(kind = k, d)
  /\ Len(h.scopes) = Len(g.scopes) + One(kind = "scope", d)
  /\ Len(h.attrs) = Len(g.attrs) + One(kind = "attributes", d)
  /\ Len(h.schemes) = Len(g.schemes) + One(kind \in {"scheme", "no_scheme"}, d)
  /\ Len(h.exports) = Len(g.exports) + One(kind \in {"export", "non_export"}, d)
  /\ Len(h.spaces) = Len(g.spaces) + One(kind = "namespace", d)
  /\ Len(h.classes) = Len(g.classes) + One(kind = "class", d)

LEMMA DeeperNests ==
  ASSUME NEW g, NEW h, NEW s, NEW t, IsList(s), Nesting(g, s), NEW kind, NEW d \in Int,
         Counts(s, t, kind, d), Deeper(g, h, kind, d)
  PROVE  Nesting(h, t)
<1> DEFINE base == IF g.external THEN 1 ELSE 0
<1>1. \A kinds : HeldIn(s, kinds) \in Nat BY LeavesFinite
<1>2. base \in Nat /\ (IF h.external THEN 1 ELSE 0) = base BY DEF Deeper
<1>3. \A yes : One(yes, d) \in Int BY DEF One
<1>4. \A k \in BlockKinds \ {"class_def"} : h.depth[k] = HeldIn(t, {k})
  <2> SUFFICES ASSUME NEW k \in BlockKinds \ {"class_def"} PROVE h.depth[k] = HeldIn(t, {k})
    OBVIOUS
  <2>1. g.depth[k] = HeldIn(s, {k}) BY DEF Nesting
  <2>2. h.depth[k] = g.depth[k] + One(kind = k, d) BY DEF Deeper
  <2>3. HeldIn(t, {k}) = HeldIn(s, {k}) + One(kind \in {k}, d) BY DEF Counts
  <2>4. One(kind \in {k}, d) = One(kind = k, d) BY DEF One
  <2> QED BY <2>1, <2>2, <2>3, <2>4
<1>5. h.depth["class_def"] = base + HeldIn(t, {"class_def"})
  <2>1. g.depth["class_def"] = base + HeldIn(s, {"class_def"}) BY DEF Nesting
  <2>2. h.depth["class_def"] = g.depth["class_def"] + One(kind = "class_def", d)
    BY DEF Deeper, BlockKinds
  <2>3. HeldIn(t, {"class_def"}) = HeldIn(s, {"class_def"}) + One(kind \in {"class_def"}, d)
    BY DEF Counts
  <2>4. One(kind \in {"class_def"}, d) = One(kind = "class_def", d) BY DEF One
  <2>5. HeldIn(s, {"class_def"}) \in Nat BY <1>1
  <2> QED BY <2>1, <2>2, <2>3, <2>4, <2>5, <1>2, <1>3
<1>6. Len(h.scopes) = 1 + HeldIn(t, {"scope"})
  <2>1. Len(g.scopes) = 1 + HeldIn(s, {"scope"}) BY DEF Nesting
  <2>2. Len(h.scopes) = Len(g.scopes) + One(kind = "scope", d) BY DEF Deeper
  <2>3. HeldIn(t, {"scope"}) = HeldIn(s, {"scope"}) + One(kind \in {"scope"}, d) BY DEF Counts
  <2>4. One(kind \in {"scope"}, d) = One(kind = "scope", d) BY DEF One
  <2>5. HeldIn(s, {"scope"}) \in Nat BY <1>1
  <2> QED BY <2>1, <2>2, <2>3, <2>4, <2>5, <1>3
<1>7. Len(h.attrs) = 1 + base + HeldIn(t, {"attributes"})
  <2>1. Len(g.attrs) = 1 + base + HeldIn(s, {"attributes"}) BY DEF Nesting
  <2>2. Len(h.attrs) = Len(g.attrs) + One(kind = "attributes", d) BY DEF Deeper
  <2>3. HeldIn(t, {"attributes"}) = HeldIn(s, {"attributes"}) + One(kind \in {"attributes"}, d)
    BY DEF Counts
  <2>4. One(kind \in {"attributes"}, d) = One(kind = "attributes", d) BY DEF One
  <2>5. HeldIn(s, {"attributes"}) \in Nat BY <1>1
  <2> HIDE DEF base
  <2> QED BY <2>1, <2>2, <2>3, <2>4, <2>5, <1>2, <1>3
<1>8. Len(h.schemes) = 1 + HeldIn(t, {"scheme", "no_scheme"})
  <2>1. Len(g.schemes) = 1 + HeldIn(s, {"scheme", "no_scheme"}) BY DEF Nesting
  <2>2. Len(h.schemes) = Len(g.schemes) + One(kind \in {"scheme", "no_scheme"}, d) BY DEF Deeper
  <2>3. HeldIn(t, {"scheme", "no_scheme"})
          = HeldIn(s, {"scheme", "no_scheme"}) + One(kind \in {"scheme", "no_scheme"}, d)
    BY DEF Counts
  <2>4. HeldIn(s, {"scheme", "no_scheme"}) \in Nat BY <1>1
  <2> QED BY <2>1, <2>2, <2>3, <2>4, <1>3
<1>9. Len(h.exports) = 1 + HeldIn(t, {"export", "non_export"})
  <2>1. Len(g.exports) = 1 + HeldIn(s, {"export", "non_export"}) BY DEF Nesting
  <2>2. Len(h.exports) = Len(g.exports) + One(kind \in {"export", "non_export"}, d) BY DEF Deeper
  <2>3. HeldIn(t, {"export", "non_export"})
          = HeldIn(s, {"export", "non_export"}) + One(kind \in {"export", "non_export"}, d)
    BY DEF Counts
  <2>4. HeldIn(s, {"export", "non_export"}) \in Nat BY <1>1
  <2> QED BY <2>1, <2>2, <2>3, <2>4, <1>3
<1>10. Len(h.spaces) = HeldIn(t, {"namespace"})
  <2>1. Len(g.spaces) = HeldIn(s, {"namespace"}) BY DEF Nesting
  <2>2. Len(h.spaces) = Len(g.spaces) + One(kind = "namespace", d) BY DEF Deeper
  <2>3. HeldIn(t, {"namespace"}) = HeldIn(s, {"namespace"}) + One(kind \in {"namespace"}, d)
    BY DEF Counts
  <2>4. One(kind \in {"namespace"}, d) = One(kind = "namespace", d) BY DEF One
  <2> QED BY <2>1, <2>2, <2>3, <2>4
<1>11. Len(h.classes) = base + HeldIn(t, {"class"})
  <2>1. Len(g.classes) = base + HeldIn(s, {"class"}) BY DEF Nesting
  <2>2. Len(h.classes) = Len(g.classes) + One(kind = "class", d) BY DEF Deeper
  <2>3. HeldIn(t, {"class"}) = HeldIn(s, {"class"}) + One(kind \in {"class"}, d) BY DEF Counts
  <2>4. One(kind \in {"class"}, d) = One(kind = "class", d) BY DEF One
  <2>5. HeldIn(s, {"class"}) \in Nat BY <1>1
  <2> HIDE DEF base
  <2> QED BY <2>1, <2>2, <2>3, <2>4, <2>5, <1>2, <1>3
<1> QED BY <1>2, <1>4, <1>5, <1>6, <1>7, <1>8, <1>9, <1>10, <1>11 DEF Nesting

(* What the state is deep in, one field each. *)
LEMMA Kinded ==
  \A kind \in Kinds :
    \/ kind \in BlockKinds
    \/ kind \in {"scope", "attributes", "scheme", "no_scheme", "export", "non_export", "namespace",
                 "class"} /\ kind \notin BlockKinds
BY DEF Kinds, BlockKinds

LEMMA NestingCounts ==
  ASSUME NEW g, Shape(g), NEW s, IsList(s), Nesting(g, s)
  PROVE  \A k \in BlockKinds : g.depth[k] \in Nat
<1>1. \A kinds : HeldIn(s, kinds) \in Nat BY LeavesFinite
<1>2. g.depth["class_def"] \in Nat
  <2>1. HeldIn(s, {"class_def"}) \in Nat BY <1>1
  <2> QED BY <2>1 DEF Nesting
<1> QED BY <1>1, <1>2 DEF Nesting

Nest(g, h) ==
  /\ Shape(h) /\ h.todo = g.todo /\ h.pos = g.pos /\ h.failing = g.failing /\ h.errors = g.errors
  /\ h.status = g.status

(* Which stack each kind is on. *)
StackOf(kind) ==
  CASE kind = "scope" -> "scopes"
    [] kind = "attributes" -> "attrs"
    [] kind \in {"scheme", "no_scheme"} -> "schemes"
    [] kind \in {"export", "non_export"} -> "exports"
    [] kind = "namespace" -> "spaces"
    [] kind = "class" -> "classes"

(* Only one stack is another, x, and perhaps the values. *)
Restacked(g, h, stack, x) ==
  DOMAIN h = FieldNames /\ \A f \in FieldNames \ {"vals"} : h[f] = IF f = stack THEN x ELSE g[f]

LEMMA RestackedDeeper ==
  ASSUME NEW g, Shape(g), \A k \in BlockKinds : g.depth[k] \in Nat,
         NEW kind \in Kinds \ BlockKinds, NEW x, IsList(x), NEW d \in Int,
         NEW h, Restacked(g, h, StackOf(kind), x), Len(x) = Len(g[StackOf(kind)]) + d
  PROVE  Nest(g, h) /\ Deeper(g, h, kind, d)
<1> DEFINE stack == StackOf(kind)
           stacks == {"scopes", "attrs", "schemes", "exports", "spaces", "classes"}
<1>1. \A f \in stacks : IsList(g[f]) /\ Len(g[f]) \in Nat BY ListShape DEF Shape
<1>2. stack \in stacks
      /\ \A f \in stacks : (f = stack) <=>
           CASE f = "scopes" -> kind = "scope"
             [] f = "attrs" -> kind = "attributes"
             [] f = "schemes" -> kind \in {"scheme", "no_scheme"}
             [] f = "exports" -> kind \in {"export", "non_export"}
             [] f = "spaces" -> kind = "namespace"
             [] f = "classes" -> kind = "class"
  BY Kinded DEF StackOf
<1>3. kind \notin BlockKinds OBVIOUS
<1> HIDE DEF stack
<1>4. DOMAIN h = FieldNames /\ \A f \in FieldNames \ {"vals"} : h[f] = IF f = stack THEN x ELSE g[f]
  BY DEF Restacked, stack
<1>5. Len(x) = Len(g[stack]) + d BY DEF stack
<1>6. \A f \in stacks : IsList(h[f]) /\ Len(h[f]) = Len(g[f]) + One(f = stack, d)
  <2> SUFFICES ASSUME NEW f \in stacks
               PROVE  IsList(h[f]) /\ Len(h[f]) = Len(g[f]) + One(f = stack, d)
    OBVIOUS
  <2>1. h[f] = IF f = stack THEN x ELSE g[f] BY <1>4 DEF FieldNames
  <2>2. IsList(g[f]) /\ Len(g[f]) \in Nat BY <1>1
  <2> HIDE DEF stacks
  <2>3. CASE f = stack BY <2>1, <2>3, <1>5 DEF One
  <2>4. CASE f /= stack BY <2>1, <2>2, <2>4 DEF One
  <2> QED BY <2>3, <2>4
<1>7. \A f \in FieldNames \ (stacks \cup {"vals"}) : h[f] = g[f] BY <1>2, <1>4
<1>8. Nest(g, h)
  <2>1. /\ h.status = g.status /\ h.failing = g.failing /\ h.pos = g.pos /\ h.visited = g.visited
        /\ h.depth = g.depth /\ h.todo = g.todo /\ h.errors = g.errors
    BY <1>7 DEF FieldNames
  <2> QED BY <2>1, <1>4, <1>6 DEF Nest, Shape
<1>9. Deeper(g, h, kind, d)
  <2>1. h.external = g.external /\ h.depth = g.depth BY <1>7 DEF FieldNames
  <2>2. \A k \in BlockKinds : h.depth[k] = g.depth[k] + One(kind = k, d)
    BY <2>1, <1>3 DEF One
  <2>3. /\ ("scopes" = stack) <=> kind = "scope"
        /\ ("attrs" = stack) <=> kind = "attributes"
        /\ ("schemes" = stack) <=> kind \in {"scheme", "no_scheme"}
        /\ ("exports" = stack) <=> kind \in {"export", "non_export"}
        /\ ("spaces" = stack) <=> kind = "namespace"
        /\ ("classes" = stack) <=> kind = "class"
    BY <1>2
  <2>4. /\ One("scopes" = stack, d) = One(kind = "scope", d)
        /\ One("attrs" = stack, d) = One(kind = "attributes", d)
        /\ One("schemes" = stack, d) = One(kind \in {"scheme", "no_scheme"}, d)
        /\ One("exports" = stack, d) = One(kind \in {"export", "non_export"}, d)
        /\ One("spaces" = stack, d) = One(kind = "namespace", d)
        /\ One("classes" = stack, d) = One(kind = "class", d)
    BY <2>3 DEF One
  <2> QED BY <1>6, <2>1, <2>2, <2>4 DEF Deeper
<1> QED BY <1>8, <1>9

(* Only one depth is another. *)
Deepened(g, h, kind, d) ==
  /\ DOMAIN h = FieldNames /\ \A f \in FieldNames \ {"depth"} : h[f] = g[f]
  /\ DOMAIN h.depth = BlockKinds
  /\ \A k \in BlockKinds : h.depth[k] = g.depth[k] + One(kind = k, d)

LEMMA DeepenedDeeper ==
  ASSUME NEW g, Shape(g), NEW kind \in BlockKinds, NEW d \in Int, NEW h, Deepened(g, h, kind, d)
  PROVE  Nest(g, h) /\ Deeper(g, h, kind, d)
<1>1. /\ DOMAIN h = FieldNames /\ DOMAIN h.depth = BlockKinds
      /\ h.status = g.status /\ h.failing = g.failing /\ h.pos = g.pos /\ h.visited = g.visited
      /\ h.todo = g.todo /\ h.external = g.external /\ h.errors = g.errors
      /\ h.scopes = g.scopes /\ h.attrs = g.attrs /\ h.schemes = g.schemes
      /\ h.exports = g.exports /\ h.spaces = g.spaces /\ h.classes = g.classes
  BY DEF Deepened, FieldNames
<1>2. Nest(g, h) BY <1>1 DEF Nest, Shape
<1>3. /\ Len(g.scopes) \in Nat /\ Len(g.attrs) \in Nat /\ Len(g.schemes) \in Nat
      /\ Len(g.exports) \in Nat /\ Len(g.spaces) \in Nat /\ Len(g.classes) \in Nat
  BY ListShape DEF Shape
<1>4. /\ One(kind = "scope", d) = 0 /\ One(kind = "attributes", d) = 0
      /\ One(kind \in {"scheme", "no_scheme"}, d) = 0
      /\ One(kind \in {"export", "non_export"}, d) = 0
      /\ One(kind = "namespace", d) = 0 /\ One(kind = "class", d) = 0
  BY DEF One, BlockKinds
<1>5. \A k \in BlockKinds : h.depth[k] = g.depth[k] + One(kind = k, d) BY DEF Deepened
<1>6. Deeper(g, h, kind, d) BY <1>1, <1>3, <1>4, <1>5 DEF Deeper
<1> QED BY <1>2, <1>6

LEMMA EnterDeeper ==
  ASSUME NEW g, Shape(g), \A k \in BlockKinds : g.depth[k] \in Nat, NEW kind \in Kinds
  PROVE  Nest(g, Enter(g, kind)) /\ Deeper(g, Enter(g, kind), kind, 1)
<1> DEFINE h == Enter(g, kind)
<1>0. 1 \in Int OBVIOUS
<1> HIDE DEF h
<1>1. CASE kind \in BlockKinds
  <2>1. h = [g EXCEPT !.depth[kind] = @ + 1] BY <1>1 DEF Enter, BlockKinds, h
  <2>2. Deepened(g, h, kind, 1)
    BY <2>1, <1>1 DEF Deepened, Shape, FieldNames, One
  <2>3. Nest(g, h) /\ Deeper(g, h, kind, 1) BY <2>2, <1>0, <1>1, DeepenedDeeper
  <2> QED BY <2>3 DEF h
<1>2. CASE kind \notin BlockKinds
  <2> DEFINE stack == StackOf(kind)
  <2>1. IsList(g[stack]) /\ stack \in FieldNames
    BY <1>2, Kinded DEF Shape, StackOf, FieldNames
  <2> HIDE DEF stack
  <2>2. \E e : Restacked(g, h, stack, Append(g[stack], e))
    <3> USE DEF stack
    <3>1. CASE kind = "scope"
      <4>1. stack = "scopes" BY <3>1 DEF StackOf
      <4>2. PICK e : h = [g EXCEPT !.scopes = Append(@, e)]
        BY <1>2, <3>1 DEF Enter, h
      <4>3. Restacked(g, h, stack, Append(g[stack], e))
        BY <4>1, <4>2 DEF Restacked, Shape, FieldNames
      <4> QED BY <4>3
    <3>2. CASE kind = "attributes"
      <4>1. stack = "attrs" BY <3>2 DEF StackOf
      <4>2. PICK e : h = [g EXCEPT !.attrs = Append(@, e), !.vals = Front(@)]
        BY <1>2, <3>2 DEF Enter, h
      <4>3. Restacked(g, h, stack, Append(g[stack], e))
        BY <4>1, <4>2 DEF Restacked, Shape, FieldNames
      <4> QED BY <4>3
    <3>3. CASE kind \in {"scheme", "no_scheme"}
      <4>1. stack = "schemes" BY <3>3 DEF StackOf
      <4>2. PICK e : h = [g EXCEPT !.schemes = Append(@, e)]
        BY <1>2, <3>3 DEF Enter, h
      <4>3. Restacked(g, h, stack, Append(g[stack], e))
        BY <4>1, <4>2 DEF Restacked, Shape, FieldNames
      <4> QED BY <4>3
    <3>4. CASE kind \in {"export", "non_export"}
      <4>1. stack = "exports" BY <3>4 DEF StackOf
      <4>2. PICK e : h = [g EXCEPT !.exports = Append(@, e)]
        BY <1>2, <3>4 DEF Enter, h
      <4>3. Restacked(g, h, stack, Append(g[stack], e))
        BY <4>1, <4>2 DEF Restacked, Shape, FieldNames
      <4> QED BY <4>3
    <3>5. CASE kind = "namespace"
      <4>1. stack = "spaces" BY <3>5 DEF StackOf
      <4>2. PICK e : h = [g EXCEPT !.spaces = Append(@, e), !.vals = Front(@)]
        BY <1>2, <3>5 DEF Enter, h
      <4>3. Restacked(g, h, stack, Append(g[stack], e))
        BY <4>1, <4>2 DEF Restacked, Shape, FieldNames
      <4> QED BY <4>3
    <3>6. CASE kind = "class"
      <4>1. stack = "classes" BY <3>6 DEF StackOf
      <4>2. PICK e : h = [g EXCEPT !.classes = Append(@, e)]
        BY <1>2, <3>6 DEF Enter, h
      <4>3. Restacked(g, h, stack, Append(g[stack], e))
        BY <4>1, <4>2 DEF Restacked, Shape, FieldNames
      <4> QED BY <4>3
    <3> QED BY <1>2, <3>1, <3>2, <3>3, <3>4, <3>5, <3>6, Kinded
  <2>3. PICK e : Restacked(g, h, stack, Append(g[stack], e)) BY <2>2
  <2> DEFINE x == Append(g[stack], e)
  <2>4. IsList(x) /\ Len(x) = Len(g[stack]) + 1 BY <2>1, ListAppend
  <2>5. Restacked(g, h, stack, x) BY <2>3
  <2> HIDE DEF x
  <2>6. Nest(g, h) /\ Deeper(g, h, kind, 1)
    BY <2>4, <2>5, <1>0, <1>2, RestackedDeeper DEF stack
  <2> QED BY <2>6 DEF h
<1> QED BY <1>1, <1>2

LEMMA LeaveDeeper ==
  ASSUME NEW g, Shape(g), \A k \in BlockKinds : g.depth[k] \in Nat, NEW kind \in Kinds,
         kind \notin BlockKinds => Len(g[StackOf(kind)]) >= 1
  PROVE  Nest(g, Leaving(g, kind)) /\ Deeper(g, Leaving(g, kind), kind, -1)
<1> DEFINE h == Leaving(g, kind)
<1>0. -1 \in Int OBVIOUS
<1> HIDE DEF h
<1>1. CASE kind \in BlockKinds
  <2>1. h = [g EXCEPT !.depth[kind] = @ - 1] BY <1>1 DEF Leaving, BlockKinds, h
  <2>2. Deepened(g, h, kind, -1)
    BY <2>1, <1>1 DEF Deepened, Shape, FieldNames, One
  <2>3. Nest(g, h) /\ Deeper(g, h, kind, -1) BY <2>2, <1>0, <1>1, DeepenedDeeper
  <2> QED BY <2>3 DEF h
<1>2. CASE kind \notin BlockKinds
  <2> DEFINE stack == StackOf(kind)
             x == Front(g[stack])
  <2>1. IsList(g[stack]) /\ stack \in FieldNames /\ Len(g[stack]) \in Nat
    BY <1>2, Kinded, ListShape DEF Shape, StackOf, FieldNames
  <2> HIDE DEF stack
  <2>2. Restacked(g, h, stack, x)
    <3> USE DEF stack
    <3>1. CASE kind = "scope"
      <4>1. stack = "scopes" BY <3>1 DEF StackOf
      <4>2. h = [g EXCEPT !.scopes = Front(@)] BY <1>2, <3>1 DEF Leaving, h
      <4> QED BY <4>1, <4>2 DEF Restacked, Shape, FieldNames
    <3>2. CASE kind = "attributes"
      <4>1. stack = "attrs" BY <3>2 DEF StackOf
      <4>2. h = [g EXCEPT !.attrs = Front(@)] BY <1>2, <3>2 DEF Leaving, h
      <4> QED BY <4>1, <4>2 DEF Restacked, Shape, FieldNames
    <3>3. CASE kind \in {"scheme", "no_scheme"}
      <4>1. stack = "schemes" BY <3>3 DEF StackOf
      <4>2. h = [g EXCEPT !.schemes = Front(@)] BY <1>2, <3>3 DEF Leaving, h
      <4> QED BY <4>1, <4>2 DEF Restacked, Shape, FieldNames
    <3>4. CASE kind \in {"export", "non_export"}
      <4>1. stack = "exports" BY <3>4 DEF StackOf
      <4>2. h = [g EXCEPT !.exports = Front(@)] BY <1>2, <3>4 DEF Leaving, h
      <4> QED BY <4>1, <4>2 DEF Restacked, Shape, FieldNames
    <3>5. CASE kind = "namespace"
      <4>1. stack = "spaces" BY <3>5 DEF StackOf
      <4>2. h = [g EXCEPT !.spaces = Front(@)] BY <1>2, <3>5 DEF Leaving, h
      <4> QED BY <4>1, <4>2 DEF Restacked, Shape, FieldNames
    <3>6. CASE kind = "class"
      <4>1. stack = "classes" BY <3>6 DEF StackOf
      <4>2. h = [g EXCEPT !.classes = Front(@)] BY <1>2, <3>6 DEF Leaving, h
      <4> QED BY <4>1, <4>2 DEF Restacked, Shape, FieldNames
    <3> QED BY <1>2, <3>1, <3>2, <3>3, <3>4, <3>5, <3>6, Kinded
  <2>3. IsList(x) /\ Len(x) = Len(g[stack]) - 1 BY <2>1, <1>2, ListFront DEF stack
  <2> HIDE DEF x
  <2>4. Len(x) = Len(g[stack]) + (-1) BY <2>1, <2>3
  <2>5. Nest(g, h) /\ Deeper(g, h, kind, -1)
    BY <2>2, <2>3, <2>4, <1>0, <1>2, RestackedDeeper DEF stack
  <2> QED BY <2>5 DEF h
<1> QED BY <1>1, <1>2

(* A destructor on the list has something to leave. *)
LEMMA SomethingToLeave ==
  ASSUME NEW g, Shape(g), NEW s, IsList(s), Nesting(g, s), NEW kind \in Kinds \ BlockKinds,
         \A kinds : kind \in kinds => HeldIn(s, kinds) >= 1
  PROVE  Len(g[StackOf(kind)]) >= 1
<1>1. \A kinds : HeldIn(s, kinds) \in Nat BY LeavesFinite
<1>2. CASE kind = "scope"
  <2>1. HeldIn(s, {"scope"}) \in Nat BY <1>1
  <2> QED BY <1>2, <2>1 DEF Nesting, StackOf
<1>3. CASE kind = "attributes"
  <2>1. HeldIn(s, {"attributes"}) \in Nat BY <1>1
  <2> QED BY <1>3, <2>1 DEF Nesting, StackOf
<1>4. CASE kind \in {"scheme", "no_scheme"}
  <2>1. HeldIn(s, {"scheme", "no_scheme"}) \in Nat BY <1>1
  <2> QED BY <1>4, <2>1 DEF Nesting, StackOf
<1>5. CASE kind \in {"export", "non_export"}
  <2>1. HeldIn(s, {"export", "non_export"}) \in Nat BY <1>1
  <2> QED BY <1>5, <2>1 DEF Nesting, StackOf
<1>6. CASE kind = "namespace"
  <2>1. HeldIn(s, {"namespace"}) >= 1 BY <1>6
  <2> QED BY <1>6, <2>1 DEF Nesting, StackOf
<1>7. CASE kind = "class"
  <2>1. HeldIn(s, {"class"}) \in Nat /\ HeldIn(s, {"class"}) >= 1 BY <1>1, <1>7
  <2> QED BY <1>7, <2>1 DEF Nesting, StackOf
<1> QED BY <1>2, <1>3, <1>4, <1>5, <1>6, <1>7, Kinded

------------------------------------------------------------------------------
(* The inductive invariant: what is still to be done is a list of known items  *)
(* in which a loop comes after each "catch", and the state is as deep as the   *)
(* destructors on that list say.                                               *)

Explained(g) == Shape(g) /\ Body(g.todo, 3, TRUE) /\ Nesting(g, g.todo)
IInv == Explained(gen) /\ Len(tokens.list) \in Nat

LEMMA InitExplained ==
  ASSUME Init
  PROVE  IInv
<1>1. PICK file \in Files :
        /\ tokens = [list |-> file.list, end_terminated |-> file.end_terminated,
                     package |-> file.package]
        /\ gen = IF file.start = "external"
                 THEN ViaExternalMethod(<<Nt("block", FALSE)>>, file.class, file.scope, FALSE)
                 ELSE Fresh(<<Nt(file.start, FALSE)>>)
  BY DEF Init
<1>2. file.list \in Seq(STRING) /\ file.start \in {"block", "expr", "external"}
  BY FilesAssumption
<1>3. Len(tokens.list) \in Nat BY <1>1, <1>2, LenProperties
<1> DEFINE start == IF file.start = "external" THEN "block" ELSE file.start
           todo == <<Nt(start, FALSE)>>
<1>4. Body(todo, 3, TRUE) /\ IsList(todo)
  <2>1. start \in Methods \ {"type_delimiter"} /\ start /= "catch"
    BY <1>2 DEF Methods, ExpressionMethods, StatementMethods
  <2>2. Single(Nt(start, FALSE), 3, TRUE) BY <2>1 DEF Single, Element, Plain, Nt
  <2> QED BY <2>2, Bodies, Lists
<1>5. \A kinds : HeldIn(todo, kinds) = 0
  <2>1. \A kinds : Leaves(todo, kinds) = {}
    <3>1. start /= "leave" BY <1>2
    <3>2. DOMAIN todo = {1} /\ todo[1][1] = start BY DEF Nt
    <3> HIDE DEF todo, start
    <3> QED BY <3>1, <3>2 DEF Leaves, IsLeave
  <2> QED BY <2>1, FS_EmptySet DEF HeldIn
<1>6. gen.todo = todo BY <1>1, <1>2 DEF Fresh, ViaExternalMethod
<1> HIDE DEF todo, start
<1>7. Shape(gen) /\ Nesting(gen, todo)
  <2>1. \A a : IsList(<<a>>) /\ Len(<<a>>) = 1 BY Lists
  <2>2. IsList(<<>>) /\ Len(<<>>) = 0 BY Lists
  <2>3. IsList(Append(<<FALSE>>, FALSE)) /\ Len(Append(<<FALSE>>, FALSE)) = 2
    <3> DEFINE one == <<FALSE>>
               static == FALSE
    <3>1. IsList(one) /\ Len(one) = 1 BY <2>1
    <3> HIDE DEF one, static
    <3>2. IsList(Append(one, static)) /\ Len(Append(one, static)) = Len(one) + 1
      BY <3>1, ListAppend
    <3>3. Len(Append(one, static)) = 2 BY <3>1, <3>2
    <3> QED BY <3>2, <3>3, Zenon DEF one, static
  <2>4. CASE file.start = "external"
    <3>1. PICK t, c, sc : gen = ViaExternalMethod(t, c, sc, FALSE) BY <1>1, <2>4
    <3>2. /\ DOMAIN gen = FieldNames /\ gen.status = "parsing" /\ gen.failing = FALSE
          /\ gen.pos = 1 /\ gen.visited = 0 /\ gen.external = TRUE
          /\ gen.depth = [[k \in BlockKinds |-> 0] EXCEPT !["class_def"] = 1]
          /\ gen.scopes = <<sc>> /\ gen.attrs = Append(<<FALSE>>, FALSE)
          /\ gen.schemes = <<FALSE>> /\ gen.exports = <<FALSE>> /\ gen.spaces = <<>>
          /\ \E x : gen.classes = <<x>>
      BY <3>1 DEF ViaExternalMethod, Fresh, FieldNames
    <3>3. /\ DOMAIN gen.depth = BlockKinds /\ gen.depth["class_def"] = 1
          /\ \A k \in BlockKinds \ {"class_def"} : gen.depth[k] = 0
      BY <3>2 DEF BlockKinds
    <3>4. Shape(gen)
      <4>1. IsList(gen.scopes) /\ IsList(gen.schemes) /\ IsList(gen.exports) /\ IsList(gen.classes)
        BY <3>2, <2>1
      <4>2. IsList(gen.attrs) /\ IsList(gen.spaces) BY <3>2, <2>2, <2>3
      <4>3. gen.pos \in Nat \ {0} /\ gen.visited \in Nat BY <3>2
      <4> QED BY <3>2, <3>3, <4>1, <4>2, <4>3 DEF Shape
    <3>5. Nesting(gen, todo) BY <3>2, <3>3, <2>1, <2>2, <2>3, <1>5 DEF Nesting
    <3> QED BY <3>4, <3>5
  <2>5. CASE file.start /= "external"
    <3>1. PICK t : gen = Fresh(t) BY <1>1, <2>5
    <3>2. /\ DOMAIN gen = FieldNames /\ gen.status = "parsing" /\ gen.failing = FALSE
          /\ gen.pos = 1 /\ gen.visited = 0 /\ gen.external = FALSE
          /\ gen.depth = [k \in BlockKinds |-> 0]
          /\ gen.scopes = <<EmptyScope>> /\ gen.attrs = <<FALSE>>
          /\ gen.schemes = <<FALSE>> /\ gen.exports = <<FALSE>> /\ gen.spaces = <<>>
          /\ gen.classes = <<>>
      BY <3>1 DEF Fresh, FieldNames
    <3>3. DOMAIN gen.depth = BlockKinds /\ \A k \in BlockKinds : gen.depth[k] = 0 BY <3>2
    <3>4. Shape(gen)
      <4>1. IsList(gen.scopes) /\ IsList(gen.attrs) /\ IsList(gen.schemes) /\ IsList(gen.exports)
        BY <3>2, <2>1
      <4>2. IsList(gen.classes) /\ IsList(gen.spaces) BY <3>2, <2>2
      <4>3. gen.pos \in Nat \ {0} /\ gen.visited \in Nat BY <3>2
      <4> QED BY <3>2, <3>3, <4>1, <4>2, <4>3 DEF Shape
    <3>5. "class_def" \in BlockKinds BY DEF BlockKinds
    <3>6. Nesting(gen, todo) BY <3>2, <3>3, <3>5, <2>1, <2>2, <1>5 DEF Nesting
    <3> QED BY <3>4, <3>6
  <2> QED BY <2>4, <2>5
<1> QED BY <1>3, <1>4, <1>6, <1>7 DEF IInv, Explained

(* The state without the item at hand. *)
LEMMA TakenOff ==
  ASSUME IInv, Parsing
  PROVE  /\ Shape(Rest) /\ Rest.todo = Tail(gen.todo) /\ Body(Tail(gen.todo), 3, TRUE)
         /\ SameDepth(gen, Rest)
         /\ Element(NextItem, 3, TRUE) /\ NextItem = gen.todo[1]
         /\ NextItem[1] /= "leave" => Explained(Rest)
         /\ NextItem[1] = "catch" => /\ Tail(gen.todo) /= <<>>
                                     /\ Head(Tail(gen.todo))[1] /= "leave"
         /\ \A kinds : HeldIn(gen.todo, kinds) = HeldIn(Tail(gen.todo), kinds)
                                                   + One(IsLeave(NextItem, kinds), 1)
<1> DEFINE s == gen.todo
<1>1. s /= <<>> /\ Shape(gen) /\ Body(s, 3, TRUE) /\ Nesting(gen, s)
  BY DEF Parsing, IInv, Explained
<1>2. /\ Rest.todo = Tail(s) /\ DOMAIN Rest = FieldNames
      /\ \A f \in FieldNames \ {"todo"} : Rest[f] = gen[f]
  BY <1>1 DEF Rest, Shape, FieldNames
<1> HIDE DEF s
<1>3. Shape(Rest) /\ SameDepth(gen, Rest) BY <1>1, <1>2 DEF Shape, SameDepth, FieldNames
<1>4. /\ Body(Tail(s), 3, TRUE) /\ Head(s) = s[1] /\ Element(Head(s), 3, TRUE)
      /\ s[1][1] = "catch" => Tail(s) /= <<>> /\ Head(Tail(s))[1] /= "leave"
  BY <1>1, BodyTail
<1>5. ASSUME NEW kinds
      PROVE  HeldIn(s, kinds) = HeldIn(Tail(s), kinds) + One(IsLeave(s[1], kinds), 1)
  <2>1. IsList(s) BY <1>1 DEF Body
  <2> QED BY <2>1, <1>1, HeldTail DEF One
<1>6. ASSUME s[1][1] /= "leave" PROVE Explained(Rest)
  <2>1. \A kinds : HeldIn(Tail(s), kinds) = HeldIn(s, kinds)
    <3> SUFFICES ASSUME NEW kinds PROVE HeldIn(Tail(s), kinds) = HeldIn(s, kinds) OBVIOUS
    <3>1. HeldIn(Tail(s), kinds) \in Nat BY <1>4, LeavesFinite DEF Body
    <3>2. ~IsLeave(s[1], kinds) BY <1>6 DEF IsLeave
    <3> QED BY <3>1, <3>2, <1>5 DEF One
  <2>2. Nesting(Rest, Tail(s)) BY <2>1, <1>1, <1>3, NestingKept
  <2> QED BY <2>2, <1>2, <1>3, <1>4 DEF Explained
<1> QED BY <1>2, <1>3, <1>4, <1>5, <1>6 DEF s, NextItem

(* What leaves the stacks and the list alone. *)
LEMMA KeptExplained ==
  ASSUME NEW g, NEW h, Explained(g), Kept(g, h)
  PROVE  Explained(h)
<1>1. Nesting(h, g.todo) BY NestingKept DEF Explained, Kept
<1> QED BY <1>1 DEF Explained, Kept

(* A destructor is run: when it is reached, and when a failure returns by it. *)
LEMMA LeaveNests ==
  ASSUME IInv, Parsing, NextItem[1] = "leave"
  PROVE  /\ Nest(Rest, Leaving(Rest, NextItem[2]))
         /\ Deeper(Rest, Leaving(Rest, NextItem[2]), NextItem[2], -1)
         /\ Nesting(Rest, gen.todo) /\ Counts(gen.todo, Tail(gen.todo), NextItem[2], -1)
         /\ NextItem[2] \in Kinds
<1> DEFINE s == gen.todo
           t == Tail(gen.todo)
           kind == NextItem[2]
           h == Leaving(Rest, kind)
<1>1. /\ Shape(Rest) /\ Rest.todo = t /\ Body(t, 3, TRUE) /\ SameDepth(gen, Rest)
      /\ Element(NextItem, 3, TRUE)
      /\ \A kinds : HeldIn(s, kinds) = HeldIn(t, kinds) + One(IsLeave(NextItem, kinds), 1)
  BY TakenOff
<1>2. Shape(gen) /\ Nesting(gen, s) /\ IsList(s) BY DEF IInv, Explained, Body
<1>3. kind \in Kinds BY <1>1, MethodNames DEF Element, Plain, Encloses
<1>4. \A kinds : IsLeave(NextItem, kinds) <=> kind \in kinds BY DEF IsLeave
<1> HIDE DEF s, t, kind, h
<1>5. ASSUME NEW kinds
      PROVE  /\ HeldIn(t, kinds) = HeldIn(s, kinds) + One(kind \in kinds, -1)
             /\ kind \in kinds => HeldIn(s, kinds) >= 1
  <2>1. HeldIn(t, kinds) \in Nat BY <1>1, LeavesFinite DEF Body
  <2>2. HeldIn(s, kinds) = HeldIn(t, kinds) + One(IsLeave(NextItem, kinds), 1) BY <1>1
  <2>3. CASE kind \in kinds BY <2>1, <2>2, <2>3, <1>4 DEF One
  <2>4. CASE kind \notin kinds BY <2>1, <2>2, <2>4, <1>4 DEF One
  <2> QED BY <2>3, <2>4
<1>6. Nesting(Rest, s) BY <1>1, <1>2, NestingKept
<1>7. \A k \in BlockKinds : Rest.depth[k] \in Nat BY <1>1, <1>2, <1>6, NestingCounts
<1>8. kind \notin BlockKinds => Len(Rest[StackOf(kind)]) >= 1
  BY <1>1, <1>2, <1>3, <1>5, <1>6, SomethingToLeave
<1>9. Nest(Rest, h) /\ Deeper(Rest, h, kind, -1)
  BY <1>1, <1>3, <1>7, <1>8, LeaveDeeper DEF h
<1>10. Counts(s, t, kind, -1) BY <1>5 DEF Counts
<1> QED BY <1>1, <1>3, <1>6, <1>9, <1>10 DEF s, t, h, kind

LEMMA LeaveExplained ==
  ASSUME IInv, Parsing, NextItem[1] = "leave"
  PROVE  Explained(Leaving(Rest, NextItem[2]))
<1> DEFINE s == gen.todo
           t == Tail(gen.todo)
           kind == NextItem[2]
           h == Leaving(Rest, kind)
<1>1. /\ Nest(Rest, h) /\ Deeper(Rest, h, kind, -1) /\ Nesting(Rest, s)
      /\ Counts(s, t, kind, -1) /\ kind \in Kinds
  BY LeaveNests
<1>2. Shape(Rest) /\ Rest.todo = t /\ Body(t, 3, TRUE) BY TakenOff
<1>3. Shape(gen) /\ IsList(s) BY DEF IInv, Explained, Body
<1> HIDE DEF s, t, kind, h
<1>4. -1 \in Int OBVIOUS
<1>5. Nesting(h, t) BY <1>1, <1>2, <1>3, <1>4, DeeperNests
<1>6. Explained(h) BY <1>1, <1>2, <1>5 DEF Nest, Explained
<1> QED BY <1>6 DEF h, kind

LEMMA CallExplained ==
  ASSUME IInv, Call
  PROVE  Explained(gen')
<1> DEFINE items == Items(gen, NextItem[1], NextItem[2])
           t == Tail(gen.todo)
<1>1. Parsing /\ NextItem[1] \in Methods /\ gen' = [Rest EXCEPT !.todo = items \o @]
  BY DEF Call
<1>2. Element(NextItem, 3, TRUE) /\ NextItem[1] /= "leave" BY <1>1, TakenOff, MethodNames
<1>3. Plain(NextItem, TRUE) BY <1>1, <1>2, MethodNames DEF Element, Encloses
<1>4. NextItem[1] = "type_delimiter" => NextItem[2] \in TypeLists
  BY <1>1, <1>3, MethodNames DEF Plain
<1>5. Body(items, 2, TRUE) BY <1>1, <1>4, ItemBodies
<1>6. Body(items, 3, TRUE) /\ \A kinds : \A i \in 1..Len(items) : ~IsLeave(items[i], kinds)
  BY <1>5, BodyRises
<1>7. Explained(Rest) /\ Rest.todo = t BY <1>1, <1>2, TakenOff
<1> HIDE DEF items, t
<1>8. Shape(Rest) /\ Body(t, 3, TRUE) /\ Nesting(Rest, t) BY <1>7 DEF Explained
<1>9. /\ Shape(gen') /\ SameDepth(Rest, gen') /\ gen'.todo = items \o t
  BY <1>1, <1>7, <1>8 DEF Shape, SameDepth, FieldNames
<1>10. Body(items \o t, 3, TRUE) BY <1>6, <1>8, BodyConcat
<1>11. \A kinds : HeldIn(items \o t, kinds) = HeldIn(t, kinds)
  BY <1>6, <1>8, HeldConcat DEF Body
<1>12. Nesting(gen', items \o t) BY <1>8, <1>9, <1>11, NestingKept
<1> QED BY <1>9, <1>10, <1>12 DEF Explained

LEMMA EnterExplained ==
  ASSUME IInv, EnterScope
  PROVE  Explained(gen')
<1> DEFINE kind == NextItem[2][1]
           items == NextItem[2][2]
           t == Tail(gen.todo)
           u == items \o <<Leave(kind)>> \o t
           r == [Rest EXCEPT !.todo = u]
<1>1. Parsing /\ NextItem[1] = "within" /\ gen' = Enter([Rest EXCEPT !.todo = items \o <<Leave(kind)>> \o @], kind)
  BY DEF EnterScope, Proceeds
<1>2. Element(NextItem, 3, TRUE) /\ Explained(Rest) /\ Rest.todo = t BY <1>1, TakenOff
<1>3. kind \in Kinds /\ Body(items, 2, TRUE) BY <1>1, <1>2, WithinBody
<1>4. Body(items, 3, TRUE) /\ \A kinds : \A i \in 1..Len(items) : ~IsLeave(items[i], kinds)
  BY <1>3, BodyRises
<1>5. gen' = Enter(r, kind)
  <2>1. [Rest EXCEPT !.todo = items \o <<Leave(kind)>> \o @] = r BY <1>2 DEF Explained, Shape, FieldNames
  <2> QED BY <1>1, <2>1
<1>6. Body(u, 3, TRUE)
  <2>1. Single(Leave(kind), 3, TRUE) BY <1>3 DEF Single, Element, Leave
  <2>2. Body(<<Leave(kind)>>, 3, TRUE) BY <2>1, Bodies
  <2>3. Body(items \o <<Leave(kind)>>, 3, TRUE) BY <1>4, <2>2, BodyConcat
  <2>4. Body(t, 3, TRUE) BY <1>2 DEF Explained
  <2> QED BY <2>3, <2>4, BodyConcat
<1> HIDE DEF kind, items, t
<1>7. Shape(Rest) /\ Body(t, 3, TRUE) /\ Nesting(Rest, t) /\ IsList(t) BY <1>2 DEF Explained, Body
<1>8. Counts(t, u, kind, 1)
  <2> SUFFICES ASSUME NEW kinds PROVE HeldIn(u, kinds) = HeldIn(t, kinds) + One(kind \in kinds, 1)
    BY DEF Counts
  <2>1. IsList(items) BY <1>4 DEF Body
  <2>2. IsList(t) /\ \A i \in 1..Len(items) : ~IsLeave(items[i], kinds) BY <1>4, <1>7
  <2>3. HeldIn(items \o <<Leave(kind)>> \o t, kinds)
          = HeldIn(t, kinds) + (IF kind \in kinds THEN 1 ELSE 0)
    BY <2>1, <2>2, HeldWithin
  <2> QED BY <2>3 DEF One
<1> HIDE DEF u
<1>9. Shape(r) /\ SameDepth(Rest, r) /\ r.todo = u BY <1>7 DEF Shape, SameDepth, FieldNames
<1> HIDE DEF r
<1>10. Nesting(r, t) BY <1>7, <1>9, NestingKept
<1>11. \A k \in BlockKinds : r.depth[k] \in Nat BY <1>7, <1>9, <1>10, NestingCounts
<1>12. Nest(r, gen') /\ Deeper(r, gen', kind, 1) BY <1>3, <1>5, <1>9, <1>11, EnterDeeper
<1>13. Nesting(gen', u) BY <1>7, <1>8, <1>10, <1>12, DeeperNests
<1> QED BY <1>6, <1>9, <1>12, <1>13 DEF Nest, Explained

(* A loop goes on from the item that comes after the one that caught. *)
LEMMA RecoverExplained ==
  ASSUME IInv, Recover
  PROVE  Explained(gen')
<1> DEFINE handler == NextItem[2][1]
           skipped == advance_to_one(Rest, Resumes(handler))
           t == Tail(gen.todo)
<1>1. /\ Parsing /\ NextItem[1] = "catch"
      /\ gen' = IF handler = "annotations"
                THEN skipped
                ELSE [skipped EXCEPT !.failing = FALSE,
                                     !.vals = SubSeq(@, 1, NextItem[2][2]),
                                     !.todo = <<Nt(handler, TRUE)>> \o Tail(@)]
  BY DEF Recover
<1>2. /\ Element(NextItem, 3, TRUE) /\ Explained(Rest) /\ Rest.todo = t
      /\ t /= <<>> /\ Head(t)[1] /= "leave"
  BY <1>1, TakenOff
<1>3. handler \in Handlers BY <1>1, <1>2, MethodNames DEF Element, Plain, Encloses
<1>4. Shape(Rest) /\ Len(tokens.list) \in Nat BY <1>2 DEF Explained, IInv
<1>5. Steady(Rest, skipped) BY <1>4, SkipSteady
<1>6. Explained(skipped) BY <1>2, <1>5, KeptExplained DEF Steady
<1>7. CASE handler = "annotations" BY <1>1, <1>6, <1>7
<1>8. CASE handler /= "annotations"
  <2> DEFINE one == <<Nt(handler, TRUE)>>
  <2>1. handler \in Methods \ {"type_delimiter", "catch", "leave"}
    BY <1>3, <1>8, MethodNames DEF Handlers, Loops, Methods, StatementMethods
  <2>2. Single(Nt(handler, TRUE), 3, TRUE) BY <2>1 DEF Single, Element, Plain, Nt
  <2>3. Body(one, 3, TRUE) BY <2>2, Bodies
  <2>4. \A kinds : \A i \in 1..Len(one) : ~IsLeave(one[i], kinds) BY <2>1 DEF IsLeave, Nt
  <2>5. skipped.todo = t BY <1>2, <1>5 DEF Steady, Kept
  <2> HIDE DEF one, t, skipped
  <2>6. Shape(skipped) /\ Body(t, 3, TRUE) /\ Nesting(skipped, t) BY <1>6, <2>5 DEF Explained
  <2>7. Body(Tail(t), 3, TRUE) /\ Head(t) = t[1] BY <1>2, <2>6, BodyTail
  <2> DEFINE u == one \o Tail(t)
  <2>8. gen' = [skipped EXCEPT !.failing = FALSE, !.vals = SubSeq(@, 1, NextItem[2][2]), !.todo = u]
    BY <1>1, <1>8, <2>5, <2>6 DEF one, Shape, FieldNames
  <2>9. Body(u, 3, TRUE) BY <2>3, <2>7, BodyConcat
  <2>10. ASSUME NEW kinds PROVE HeldIn(u, kinds) = HeldIn(t, kinds)
    <3>1. HeldIn(u, kinds) = HeldIn(Tail(t), kinds) BY <2>3, <2>4, <2>7, HeldConcat DEF Body
    <3>2. HeldIn(t, kinds) = HeldIn(Tail(t), kinds) + (IF IsLeave(t[1], kinds) THEN 1 ELSE 0)
      BY <1>2, <2>6, HeldTail DEF Body
    <3>3. ~IsLeave(t[1], kinds) BY <1>2, <2>7 DEF IsLeave
    <3>4. HeldIn(Tail(t), kinds) \in Nat BY <2>7, LeavesFinite DEF Body
    <3> QED BY <3>1, <3>2, <3>3, <3>4
  <2> HIDE DEF u
  <2>11. Shape(gen') /\ SameDepth(skipped, gen') /\ gen'.todo = u
    BY <2>6, <2>8 DEF Shape, SameDepth, FieldNames
  <2>12. Nesting(gen', u) BY <2>6, <2>10, <2>11, NestingKept
  <2> QED BY <2>9, <2>11, <2>12 DEF Explained
<1> QED BY <1>7, <1>8

LEMMA NextExplained ==
  ASSUME IInv, [Next]_vars
  PROVE  IInv'
<1>1. tokens' = tokens
  BY DEF Next, Call, Perform, Consume, Report, EnterScope, LeaveScope, PassCatch, Unwind, Recover,
         Finish, vars
<1>2. Len(tokens'.list) \in Nat BY <1>1 DEF IInv
<1>3. ASSUME Call PROVE Explained(gen') BY <1>3, CallExplained
<1>4. ASSUME Perform PROVE Explained(gen')
  <2>1. Parsing /\ NextItem[1] = "do" /\ gen' = Effect(Rest, NextItem[2])
    BY <1>4 DEF Perform, Proceeds
  <2>2. Element(NextItem, 3, TRUE) /\ Explained(Rest) BY <2>1, TakenOff
  <2>3. NextItem[2] \in Effects \cup {"fail"}
    BY <2>1, <2>2, MethodNames DEF Element, Plain, Encloses
  <2>4. Kept(Rest, Effect(Rest, NextItem[2]))
    <3>1. CASE NextItem[2] \in Effects
      BY <3>1, <2>2, <2>3, EffectSteady DEF Explained, IInv, Steady
    <3>2. CASE NextItem[2] = "fail"
      <4>1. Effect(Rest, "fail") = Failed(Rest) BY DEF Effect, TypeEffects, StatementEffects
      <4> QED BY <3>2, <4>1, <2>2, SteadyOps DEF Explained
    <3> QED BY <2>3, <3>1, <3>2
  <2> QED BY <2>1, <2>2, <2>4, KeptExplained
<1>5. ASSUME Consume PROVE Explained(gen')
  <2>1. /\ Parsing /\ NextItem[1] \in {"get", "get_silently"}
        /\ gen' \in {Advanced(Rest), Error(Rest, "expected_token"), Failed(Rest)}
    BY <1>5 DEF Consume
  <2>2. Explained(Rest) BY <2>1, TakenOff
  <2>3. Kept(Rest, gen') BY <2>1, <2>2, SteadyOps DEF Explained, Steady
  <2> QED BY <2>2, <2>3, KeptExplained
<1>6. ASSUME Report PROVE Explained(gen')
  <2>1. Parsing /\ NextItem[1] = "error" /\ gen' = Error(Rest, NextItem[2])
    BY <1>6 DEF Report, Proceeds
  <2>2. Explained(Rest) BY <2>1, TakenOff
  <2>3. Kept(Rest, gen') BY <2>1, <2>2, SteadyOps DEF Explained, Steady
  <2> QED BY <2>2, <2>3, KeptExplained
<1>7. ASSUME EnterScope PROVE Explained(gen') BY <1>7, EnterExplained
<1>8. ASSUME LeaveScope PROVE Explained(gen')
  <2>1. Parsing /\ NextItem[1] = "leave" /\ gen' = Leaving(Rest, NextItem[2])
    BY <1>8 DEF LeaveScope, Proceeds
  <2> QED BY <2>1, LeaveExplained
<1>9. ASSUME PassCatch PROVE Explained(gen')
  <2>1. Parsing /\ NextItem[1] = "catch" /\ gen' = Rest BY <1>9 DEF PassCatch, Proceeds
  <2> QED BY <2>1, TakenOff
<1>10. ASSUME Unwind PROVE Explained(gen')
  <2>1. Parsing /\ gen' = IF NextItem[1] = "leave" THEN Leaving(Rest, NextItem[2]) ELSE Rest
    BY <1>10 DEF Unwind
  <2>2. CASE NextItem[1] = "leave" BY <2>1, <2>2, LeaveExplained
  <2>3. CASE NextItem[1] /= "leave" BY <2>1, <2>3, TakenOff
  <2> QED BY <2>2, <2>3
<1>11. ASSUME Recover PROVE Explained(gen') BY <1>11, RecoverExplained
<1>12. ASSUME Finish PROVE Explained(gen')
  <2>1. \E status \in {"had_error", "parsed"} : gen' = [gen EXCEPT !.status = status]
    BY <1>12 DEF Finish
  <2>2. Explained(gen) BY DEF IInv
  <2>3. Shape(gen') /\ SameDepth(gen, gen') /\ gen'.todo = gen.todo
    BY <2>1, <2>2 DEF Explained, Shape, SameDepth, FieldNames
  <2>4. Nesting(gen', gen.todo) BY <2>2, <2>3, NestingKept DEF Explained
  <2> QED BY <2>2, <2>3, <2>4 DEF Explained
<1>13. ASSUME UNCHANGED vars PROVE Explained(gen') BY <1>13 DEF vars, IInv
<1>14. Explained(gen')
  BY <1>3, <1>4, <1>5, <1>6, <1>7, <1>8, <1>9, <1>10, <1>11, <1>12, <1>13 DEF Next
<1> QED BY <1>2, <1>14 DEF IInv, Explained

LEMMA ExplainedIsNested ==
  ASSUME IInv
  PROVE  WellNested
<1>1. Shape(gen) /\ Body(gen.todo, 3, TRUE) /\ Nesting(gen, gen.todo) BY DEF IInv, Explained
<1>2. NestingRestored BY <1>1, NestingIs
<1>3. TypeOK
  <2>1. \A k \in BlockKinds : gen.depth[k] \in Nat BY <1>1, NestingCounts DEF Body
  <2>2. \A i \in DOMAIN gen.todo : Element(gen.todo[i], 3, TRUE) BY <1>1, ListShape DEF Body
  <2>3. \A item : Element(item, 3, TRUE) =>
          item[1] \in Methods \cup {"do", "get", "get_silently", "within", "leave", "catch", "error"}
    BY DEF Element, Plain, Encloses
  <2> QED BY <1>1, <2>1, <2>2, <2>3 DEF TypeOK, Shape
<1> QED BY <1>2, <1>3 DEF WellNested

(* Whatever the tokens, and wherever the parser fails and goes on: its block   *)
(* depths and its stacks of scopes, attributes, schemes, exports, namespaces   *)
(* and classes are those of the statement it works on, so that a failed        *)
(* statement leaves nothing behind it entered (ast_gen.cpp:366-402), and every *)
(* item it meets is one that it knows how to do.                               *)
THEOREM ParserWellNested == Spec => []WellNested
<1>1. Init => IInv BY InitExplained
<1>2. IInv /\ [Next]_vars => IInv' BY NextExplained
<1>3. IInv => WellNested BY ExplainedIsNested
<1> QED BY <1>1, <1>2, <1>3, PTL DEF Spec

------------------------------------------------------------------------------
(* Failures and their reports. What fails without a report of its own is on    *)
(* the list only where one was made before, or where a wrapped range was met.  *)

Excused(g) == g.errors /= {} \/ WrappedRangeMet(g)
Accounted(g) == Excused(g) \/ (~g.failing /\ Body(g.todo, 3, FALSE))

(* After a report the parser fails, or a loop on its list is still to fail.    *)
Recalls(item) == (item[1] \in Loops /\ item[2] = TRUE) \/ (item[1] = "do" /\ item[2] = "fail")
Recalled(s) == \E i \in 1..Len(s) : Recalls(s[i])
Remembered(g) == g.errors = {} \/ g.failing \/ Recalled(g.todo)

Verdict(g) ==
  /\ Accounted(g) /\ Remembered(g)
  /\ g.status = "parsed" => ~g.failing /\ g.todo = <<>>

VInv == IInv /\ Verdict(gen)

(* What an item leaves behind it, whatever it does to the stacks. *)
Voiced(g, h) ==
  /\ h.pos \in Nat /\ h.todo = g.todo /\ Forward(g, h)
  /\ h.failing => g.failing \/ h.errors /= {}

LEMMA SteadyVoiced ==
  ASSUME NEW g, NEW h, Steady(g, h) \/ (Nest(g, h) /\ Shape(g))
  PROVE  Voiced(g, h)
<1>1. CASE Steady(g, h) BY <1>1 DEF Steady, Kept, Shape, Voiced
<1>2. CASE Nest(g, h) /\ Shape(g) BY <1>2 DEF Nest, Shape, Voiced, Forward
<1> QED BY <1>1, <1>2

LEMMA ExcusedOnward ==
  ASSUME NEW g, NEW h, g.pos \in Nat, h.pos \in Nat, h.pos >= g.pos, g.errors \subseteq h.errors,
         Excused(g)
  PROVE  Excused(h)
<1>1. CASE g.errors /= {} BY <1>1 DEF Excused
<1>2. CASE WrappedRangeMet(g)
  <2>1. 1..g.pos \subseteq 1..h.pos OBVIOUS
  <2> QED BY <1>2, <2>1 DEF Excused, WrappedRangeMet
<1> QED BY <1>1, <1>2 DEF Excused

LEMMA RecalledTail ==
  ASSUME NEW s, IsList(s), s /= <<>>, Recalled(s), ~Recalls(s[1])
  PROVE  Recalled(Tail(s))
<1>1. /\ Len(Tail(s)) = Len(s) - 1 /\ Len(s) \in Nat
      /\ \A i \in 1..Len(s) - 1 : Tail(s)[i] = s[i + 1]
  BY ListTail, ListShape
<1>2. PICK i \in 1..Len(s) : Recalls(s[i]) BY DEF Recalled
<1>3. i - 1 \in 1..Len(s) - 1 /\ i - 1 + 1 = i BY <1>1, <1>2
<1>4. Tail(s)[i - 1] = s[i] BY <1>1, <1>3
<1> QED BY <1>1, <1>2, <1>3, <1>4 DEF Recalled

LEMMA RecalledConcat ==
  ASSUME NEW s, NEW t, IsList(s), IsList(t), Recalled(s) \/ Recalled(t)
  PROVE  Recalled(s \o t)
<1>1. /\ Len(s \o t) = Len(s) + Len(t) /\ Len(s) \in Nat /\ Len(t) \in Nat
      /\ \A i \in 1..Len(s) : (s \o t)[i] = s[i]
      /\ \A i \in 1..Len(t) : (s \o t)[Len(s) + i] = t[i]
  BY ListConcat, ListShape
<1>2. CASE Recalled(s)
  <2>1. PICK i \in 1..Len(s) : Recalls(s[i]) BY <1>2 DEF Recalled
  <2>2. i \in 1..Len(s \o t) /\ (s \o t)[i] = s[i] BY <1>1, <2>1
  <2> QED BY <2>1, <2>2 DEF Recalled
<1>3. CASE Recalled(t)
  <2>1. PICK i \in 1..Len(t) : Recalls(t[i]) BY <1>3 DEF Recalled
  <2>2. Len(s) + i \in 1..Len(s \o t) /\ (s \o t)[Len(s) + i] = t[i] BY <1>1, <2>1
  <2> QED BY <2>1, <2>2 DEF Recalled
<1> QED BY <1>2, <1>3

(* A loop that has caught a failure goes on as one that has. *)
LEMMA LoopRecalls ==
  ASSUME NEW g, NEW m \in Loops
  PROVE  Recalled(Items(g, m, TRUE))
<1>1. ASSUME NEW loop \in Loops PROVE Recalls(Nt(loop, TRUE))
  BY DEF Recalls, Nt
<1>2. Recalled(BlockDone(TRUE))
  <2>1. Recalls(Do("fail")) BY DEF Recalls, Do
  <2>2. BlockDone(TRUE) = <<Do("fail")>> BY DEF BlockDone
  <2>3. 1 \in 1..Len(<<Do("fail")>>) /\ <<Do("fail")>>[1] = Do("fail") OBVIOUS
  <2> QED BY <2>1, <2>2, <2>3 DEF Recalled
<1>3. ASSUME NEW loop \in Loops, NEW a PROVE Recalled(<<a, Nt(loop, TRUE)>>)
  <2>1. Len(<<a, Nt(loop, TRUE)>>) = 2 /\ <<a, Nt(loop, TRUE)>>[2] = Nt(loop, TRUE) OBVIOUS
  <2>2. 2 \in 1..Len(<<a, Nt(loop, TRUE)>>) BY <2>1
  <2> QED BY <1>1, <2>1, <2>2 DEF Recalled
<1>4. ASSUME NEW loop \in Loops, NEW method PROVE Recalled(InBlock(g, method, loop, TRUE))
  <2> DEFINE s == InBlock(g, method, loop, TRUE)
  <2>1. Len(s) = 4 /\ s[4] = Nt(loop, TRUE) BY DEF InBlock
  <2> HIDE DEF s
  <2>2. 4 \in 1..Len(s) BY <2>1
  <2> QED BY <1>1, <2>1, <2>2 DEF Recalled, s
<1>5. "block" \in Loops /\ "script" \in Loops /\ "sub_block" \in Loops BY DEF Loops
<1>6. Recalled(block(g, TRUE)) BY <1>2, <1>3, <1>4, <1>5 DEF block
<1>7. Recalled(sub_block(g, TRUE)) BY <1>2, <1>3, <1>4, <1>5 DEF sub_block
<1>8. Recalled(script(TRUE)) BY <1>3, <1>5 DEF script
<1>9. /\ m \in StatementMethods /\ m \notin ExpressionMethods /\ m \notin TypeMethods
      /\ m \notin ClassMethods
  BY DEF Loops, StatementMethods, ExpressionMethods, TypeMethods, ClassMethods
<1>10. Items(g, m, TRUE) = StatementItems(g, m, TRUE) BY <1>9 DEF Items
<1>11. m = "block" \/ m = "script" \/ m = "sub_block" BY DEF Loops
<1> QED BY <1>6, <1>7, <1>8, <1>10, <1>11 DEF StatementItems

(* A statement whose range is wrapped stands where the parser is. *)
LEMMA WrappedIsMet ==
  ASSUME NEW g, g.pos \in Nat \ {0}, Len(tokens.list) \in Nat, Wrapped(g)
  PROVE  WrappedRangeMet(g)
<1>1. ASSUME NEW t, NEW c \in {"for", "parfor", "("}, TypeOf(t) = c PROVE t = c
  BY <1>1 DEF TypeOf, Identifier
<1>2. Lexeme(g, 0) \in {"for", "parfor"} /\ Lexeme(g, 1) = "("
  BY <1>1 DEF Wrapped, Look, La
<1>3. g.pos + 0 \in 1..Len(tokens.list) /\ tokens.list[g.pos + 0] \in {"for", "parfor"}
  BY <1>2 DEF Lexeme
<1>4. g.pos + 1 \in 1..Len(tokens.list) /\ tokens.list[g.pos + 1] = "(" BY <1>2 DEF Lexeme
<1>5. g.pos + 0 = g.pos /\ g.pos \in 1..g.pos /\ g.pos < Len(tokens.list) BY <1>4
<1> QED BY <1>3, <1>4, <1>5 DEF WrappedRangeMet

(* The state without the item at hand. *)
LEMMA VoicedRest ==
  ASSUME VInv, Parsing
  PROVE  /\ Rest.pos = gen.pos /\ Rest.errors = gen.errors /\ Rest.failing = gen.failing
         /\ Rest.status = "parsing" /\ Rest.pos \in Nat \ {0} /\ Rest.todo = Tail(gen.todo)
         /\ NextItem = gen.todo[1] /\ IsList(gen.todo) /\ IsList(Tail(gen.todo)) /\ gen.todo /= <<>>
         /\ Excused(gen) \/ /\ ~gen.failing /\ Body(Tail(gen.todo), 3, FALSE)
                            /\ Element(NextItem, 3, FALSE)
<1>1. Shape(gen) /\ Body(gen.todo, 3, TRUE) /\ gen.todo /= <<>> /\ gen.status = "parsing"
  BY DEF VInv, IInv, Explained, Parsing
<1>2. /\ Rest.pos = gen.pos /\ Rest.errors = gen.errors /\ Rest.failing = gen.failing
      /\ Rest.status = gen.status /\ Rest.todo = Tail(gen.todo)
  BY <1>1 DEF Rest, Shape, FieldNames
<1>3. IsList(gen.todo) /\ IsList(Tail(gen.todo)) /\ NextItem = gen.todo[1]
  BY <1>1, ListTail DEF Body, NextItem
<1>4. ASSUME ~Excused(gen)
      PROVE  ~gen.failing /\ Body(Tail(gen.todo), 3, FALSE) /\ Element(NextItem, 3, FALSE)
  <2>1. ~gen.failing /\ Body(gen.todo, 3, FALSE) BY <1>4 DEF VInv, Verdict, Accounted
  <2> QED BY <2>1, <1>1, BodyTail DEF NextItem
<1> QED BY <1>1, <1>2, <1>3, <1>4 DEF Shape

(* An item that is no failure of a loop, and that fails only with a report.    *)
LEMMA VoicedVerdict ==
  ASSUME VInv, Parsing, NEW h, Voiced(Rest, h), gen.failing \/ ~Recalls(NextItem)
  PROVE  Verdict(h)
<1>1. /\ Rest.pos = gen.pos /\ Rest.errors = gen.errors /\ Rest.failing = gen.failing
      /\ Rest.status = "parsing" /\ Rest.pos \in Nat /\ h.pos \in Nat
      /\ h.todo = Tail(gen.todo) /\ h.pos >= Rest.pos /\ Rest.errors \subseteq h.errors
  BY VoicedRest DEF Voiced, Forward
<1>2. Accounted(h)
  <2>1. CASE Excused(gen)
    <3>1. Excused(h) BY <2>1, <1>1, ExcusedOnward
    <3> QED BY <3>1 DEF Accounted
  <2>2. CASE ~Excused(gen)
    <3>1. ~gen.failing /\ Body(Tail(gen.todo), 3, FALSE) BY <2>2, VoicedRest
    <3>2. CASE h.failing
      <4>1. h.errors /= {} BY <3>1, <3>2, <1>1 DEF Voiced
      <4> QED BY <4>1 DEF Accounted, Excused
    <3>3. CASE ~h.failing BY <3>1, <3>3, <1>1 DEF Accounted
    <3> QED BY <3>2, <3>3
  <2> QED BY <2>1, <2>2
<1>3. Remembered(h)
  <2>1. gen.failing => h.failing BY <1>1 DEF Voiced, Forward
  <2>2. h.errors /= gen.errors => h.failing BY <1>1 DEF Voiced, Forward
  <2>3. ASSUME Recalled(gen.todo), ~gen.failing PROVE Recalled(h.todo)
    BY <2>3, <1>1, VoicedRest, RecalledTail
  <2> QED BY <2>1, <2>2, <2>3 DEF VInv, Verdict, Remembered
<1>4. h.status /= "parsed" BY <1>1 DEF Voiced, Forward
<1> QED BY <1>2, <1>3, <1>4 DEF Verdict

(* A failure of a loop, and a token that is missed silently. *)
LEMMA FailedVerdict ==
  ASSUME VInv, Parsing, Mute(NextItem)
  PROVE  Verdict(Failed(Rest))
<1> DEFINE h == Failed(Rest)
<1>1. Shape(Rest) BY TakenOff DEF VInv
<1>2. h.failing = TRUE /\ h.pos = Rest.pos /\ h.errors = Rest.errors /\ h.status = Rest.status
  BY <1>1 DEF Failed, Shape, FieldNames
<1> HIDE DEF h
<1>3. Excused(gen)
  <2>1. ASSUME Element(NextItem, 3, FALSE) PROVE FALSE
    <3>1. NextItem[1] \notin {"within", "leave"}
      BY MethodNames DEF Mute, Loops, Methods, StatementMethods
    <3> QED BY <2>1, <3>1 DEF Element, Plain, Encloses
  <2> QED BY <2>1, VoicedRest
<1>4. Excused(h)
  <2>1. h.pos = gen.pos /\ h.pos \in Nat /\ h.errors = gen.errors /\ h.pos >= gen.pos
    BY <1>2, VoicedRest
  <2> QED BY <2>1, <1>3, ExcusedOnward
<1>5. h.status /= "parsed" BY <1>2, VoicedRest
<1>6. Verdict(h) BY <1>2, <1>4, <1>5 DEF Verdict, Accounted, Remembered
<1> QED BY <1>6 DEF h

LEMMA CallVerdict ==
  ASSUME VInv, Call
  PROVE  Verdict(gen')
<1> DEFINE m == NextItem[1]
           a == NextItem[2]
           items == Items(gen, m, a)
           t == Tail(gen.todo)
<1>1. Parsing /\ ~gen.failing /\ m \in Methods /\ gen' = [Rest EXCEPT !.todo = items \o @]
  BY DEF Call
<1>2. Shape(Rest) /\ Rest.todo = t /\ Element(NextItem, 3, TRUE) BY <1>1, TakenOff DEF VInv
<1>3. m = "type_delimiter" => a \in TypeLists
  BY <1>1, <1>2, MethodNames DEF Element, Plain, Encloses
<1>4. Body(items, 2, TRUE) BY <1>1, <1>3, ItemBodies
<1> HIDE DEF items
<1>5. /\ gen'.pos = Rest.pos /\ gen'.errors = Rest.errors /\ gen'.failing = Rest.failing
      /\ gen'.status = Rest.status /\ gen'.todo = items \o t
  BY <1>1, <1>2 DEF Shape, FieldNames
<1>6. /\ Rest.pos = gen.pos /\ Rest.errors = gen.errors /\ Rest.failing = gen.failing
      /\ Rest.status = "parsing" /\ gen.pos \in Nat \ {0} /\ gen.pos >= gen.pos
      /\ NextItem = gen.todo[1] /\ IsList(gen.todo) /\ gen.todo /= <<>> /\ IsList(t)
  BY <1>1, VoicedRest
<1>7. Accounted(gen')
  <2>1. ASSUME Excused(gen) PROVE Excused(gen')
    BY <2>1, <1>5, <1>6, ExcusedOnward
  <2>2. ASSUME WrappedRangeMet(gen) PROVE Excused(gen')
    BY <2>1, <2>2 DEF Excused
  <2>3. CASE ~Excused(gen) /\ ~Wrapped(gen)
    <3>1. Body(t, 3, FALSE) /\ Element(NextItem, 3, FALSE) BY <1>1, <2>3, VoicedRest
    <3>2. m \in Loops => a = FALSE
      BY <3>1, <1>1, MethodNames DEF Element, Plain, Encloses, Mute
    <3>3. Body(items, 2, FALSE) BY <3>2, <2>3, <1>1, <1>3, ItemBodies DEF items
    <3>4. Body(items \o t, 3, FALSE) BY <3>1, <3>3, BodyRises, BodyConcat
    <3> QED BY <3>4, <1>1, <1>5, <1>6 DEF Accounted
  <2>4. CASE Wrapped(gen)
    <3>1. WrappedRangeMet(gen) BY <2>4, <1>6, WrappedIsMet DEF VInv, IInv
    <3> QED BY <3>1, <2>2 DEF Accounted
  <2> QED BY <2>1, <2>3, <2>4 DEF Accounted
<1>8. Remembered(gen')
  <2>1. CASE Recalls(NextItem)
    <3>1. m \in Loops /\ a = TRUE BY <2>1, <1>1, MethodNames DEF Recalls
    <3>2. Recalled(items) BY <3>1, LoopRecalls DEF items
    <3>3. Recalled(items \o t) BY <3>2, <1>4, <1>6, RecalledConcat DEF Body
    <3> QED BY <3>3, <1>5 DEF Remembered
  <2>2. CASE ~Recalls(NextItem)
    <3>1. ASSUME Recalled(gen.todo) PROVE Recalled(gen'.todo)
      <4>1. Recalled(t) BY <3>1, <2>2, <1>6, RecalledTail
      <4> QED BY <4>1, <1>4, <1>5, <1>6, RecalledConcat DEF Body
    <3> QED BY <3>1, <1>5, <1>6 DEF VInv, Verdict, Remembered
  <2> QED BY <2>1, <2>2
<1> QED BY <1>5, <1>6, <1>7, <1>8 DEF Verdict

LEMMA EnterVerdict ==
  ASSUME VInv, EnterScope
  PROVE  Verdict(gen')
<1> DEFINE kind == NextItem[2][1]
           items == NextItem[2][2]
           t == Tail(gen.todo)
           one == <<Leave(kind)>>
           u == items \o one \o t
           r == [Rest EXCEPT !.todo = u]
<1>1. /\ Parsing /\ ~gen.failing /\ NextItem[1] = "within"
      /\ gen' = Enter([Rest EXCEPT !.todo = items \o one \o @], kind)
  BY DEF EnterScope, Proceeds
<1>2. Shape(Rest) /\ Rest.todo = t /\ Element(NextItem, 3, TRUE) /\ Explained(Rest)
  BY <1>1, TakenOff DEF VInv
<1>3. kind \in Kinds /\ Body(items, 2, TRUE) BY <1>1, <1>2, WithinBody
<1>4. gen' = Enter(r, kind)
  <2>1. [Rest EXCEPT !.todo = items \o one \o @] = r BY <1>2 DEF Shape, FieldNames
  <2> QED BY <1>1, <2>1
<1>5. /\ Rest.pos = gen.pos /\ Rest.errors = gen.errors /\ Rest.failing = gen.failing
      /\ Rest.status = "parsing" /\ gen.pos \in Nat \ {0} /\ gen.pos >= gen.pos
      /\ NextItem = gen.todo[1] /\ IsList(gen.todo) /\ gen.todo /= <<>> /\ IsList(t)
  BY <1>1, VoicedRest
<1>6. ASSUME NEW mute \in BOOLEAN, Body(items, 2, mute), Body(t, 3, mute) PROVE Body(u, 3, mute)
  <2>1. Single(Leave(kind), 3, mute) BY <1>3 DEF Single, Element, Leave
  <2>2. Body(one, 3, mute) BY <2>1, Bodies
  <2>3. Body(items, 3, mute) BY <1>6, BodyRises
  <2> HIDE DEF one, items, t
  <2>4. Body(items \o one, 3, mute) BY <2>2, <2>3, BodyConcat
  <2> QED BY <2>4, <1>6, BodyConcat
<1>7. IsList(one) /\ IsList(items) BY <1>3, Lists DEF Body
<1> HIDE DEF kind, items, t, one
<1>8. Recalled(t) => Recalled(u)
  <2>1. IsList(items \o one) BY <1>7, ListConcat
  <2> QED BY <2>1, <1>5, RecalledConcat
<1> HIDE DEF u
<1>9. Shape(r) /\ SameDepth(Rest, r) /\ r.todo = u
      /\ r.pos = gen.pos /\ r.errors = gen.errors /\ r.failing = gen.failing /\ r.status = "parsing"
  BY <1>2, <1>5 DEF Shape, SameDepth, FieldNames
<1>10. Nest(r, gen')
  <2>1. Nesting(Rest, t) BY <1>2 DEF Explained
  <2> HIDE DEF r
  <2>2. Nesting(r, t) BY <2>1, <1>9, NestingKept
  <2>3. \A k \in BlockKinds : r.depth[k] \in Nat BY <2>2, <1>5, <1>9, NestingCounts
  <2> QED BY <2>3, <1>3, <1>4, <1>9, EnterDeeper
<1>11. /\ gen'.pos = gen.pos /\ gen'.errors = gen.errors /\ gen'.failing = gen.failing
       /\ gen'.status = "parsing" /\ gen'.todo = u
  BY <1>9, <1>10 DEF Nest
<1>12. Accounted(gen')
  <2>1. CASE Excused(gen)
    <3>1. Excused(gen') BY <2>1, <1>5, <1>11, ExcusedOnward
    <3> QED BY <3>1 DEF Accounted
  <2>2. CASE ~Excused(gen)
    <3>1. Body(t, 3, FALSE) /\ Element(NextItem, 3, FALSE)
      BY <1>1, <2>2, VoicedRest DEF t
    <3>2. Body(items, 2, FALSE) BY <3>1, <1>1, WithinBody DEF items
    <3>3. Body(u, 3, FALSE) BY <3>1, <3>2, <1>6
    <3> QED BY <3>3, <1>1, <1>11 DEF Accounted
  <2> QED BY <2>1, <2>2
<1>13. Remembered(gen')
  <2>1. ~Recalls(NextItem) BY <1>1 DEF Recalls, Loops
  <2>2. Recalled(gen.todo) => Recalled(t) BY <2>1, <1>5, RecalledTail DEF t
  <2> QED BY <2>2, <1>8, <1>11 DEF VInv, Verdict, Remembered
<1> QED BY <1>11, <1>12, <1>13 DEF Verdict

LEMMA RecoverVerdict ==
  ASSUME VInv, Recover
  PROVE  Verdict(gen')
<1> DEFINE handler == NextItem[2][1]
           skipped == advance_to_one(Rest, Resumes(handler))
           u == <<Nt(handler, TRUE)>> \o Tail(skipped.todo)
<1>1. /\ Parsing /\ gen.failing /\ NextItem[1] = "catch"
      /\ gen' = IF handler = "annotations"
                THEN skipped
                ELSE [skipped EXCEPT !.failing = FALSE,
                                     !.vals = SubSeq(@, 1, NextItem[2][2]),
                                     !.todo = <<Nt(handler, TRUE)>> \o Tail(@)]
  BY DEF Recover
<1>2. /\ Shape(Rest) /\ Rest.todo = Tail(gen.todo) /\ Element(NextItem, 3, TRUE)
      /\ Body(Tail(gen.todo), 3, TRUE) /\ Tail(gen.todo) /= <<>> /\ Len(tokens.list) \in Nat
  BY <1>1, TakenOff DEF VInv, IInv
<1>3. Steady(Rest, skipped) BY <1>2, SkipSteady
<1>4. Voiced(Rest, skipped) BY <1>3, SteadyVoiced
<1>5. CASE handler = "annotations" BY <1>1, <1>4, <1>5, VoicedVerdict
<1>6. CASE handler /= "annotations"
  <2>1. handler \in Loops
    BY <1>1, <1>2, <1>6, MethodNames DEF Element, Plain, Encloses, Handlers
  <2>2. Shape(skipped) /\ skipped.todo = Tail(gen.todo) BY <1>2, <1>3 DEF Steady, Kept
  <2> HIDE DEF skipped, handler
  <2>3. /\ gen'.pos = skipped.pos /\ gen'.errors = skipped.errors /\ gen'.status = skipped.status
        /\ gen'.todo = u
    BY <1>1, <1>6, <2>2 DEF Shape, FieldNames
  <2>4. Recalled(u)
    <3> DEFINE one == <<Nt(handler, TRUE)>>
    <3>1. Recalls(Nt(handler, TRUE)) BY <2>1 DEF Recalls, Nt
    <3>2. IsList(one) /\ Len(one) = 1 /\ one[1] = Nt(handler, TRUE) BY Lists
    <3> HIDE DEF one
    <3>3. 1 \in 1..Len(one) BY <3>2
    <3>4. Recalled(one) BY <3>1, <3>2, <3>3 DEF Recalled
    <3>5. IsList(Tail(skipped.todo)) BY <1>2, <2>2, BodyTail DEF Body
    <3>6. Recalled(one \o Tail(skipped.todo)) BY <3>2, <3>4, <3>5, RecalledConcat
    <3> QED BY <3>6 DEF one
  <2>5. Excused(gen) BY <1>1, VoicedRest
  <2>6. /\ skipped.pos \in Nat /\ gen.pos \in Nat /\ skipped.pos >= gen.pos
        /\ gen.errors \subseteq skipped.errors /\ skipped.status \in {"parsing", "crashed"}
    BY <1>1, <1>4, VoicedRest DEF Voiced, Forward
  <2>7. Excused(gen') BY <2>3, <2>5, <2>6, ExcusedOnward
  <2>8. gen'.status /= "parsed" BY <2>3, <2>6
  <2> QED BY <2>3, <2>4, <2>7, <2>8 DEF Verdict, Accounted, Remembered
<1> QED BY <1>5, <1>6

(* A destructor is run: when it is reached, and when a failure returns by it. *)
LEMMA LeaveVerdict ==
  ASSUME VInv, Parsing, NextItem[1] = "leave"
  PROVE  Verdict(Leaving(Rest, NextItem[2]))
<1>1. Nest(Rest, Leaving(Rest, NextItem[2])) BY LeaveNests DEF VInv
<1>2. Shape(Rest) BY TakenOff DEF VInv
<1>3. Voiced(Rest, Leaving(Rest, NextItem[2])) BY <1>1, <1>2, SteadyVoiced
<1>4. ~Recalls(NextItem) BY DEF Recalls, Loops
<1> QED BY <1>3, <1>4, VoicedVerdict

LEMMA NextVerdict ==
  ASSUME VInv, [Next]_vars
  PROVE  Verdict(gen')
<1>1. ASSUME Call PROVE Verdict(gen') BY <1>1, CallVerdict
<1>2. ASSUME Perform PROVE Verdict(gen')
  <2>1. Parsing /\ NextItem[1] = "do" /\ gen' = Effect(Rest, NextItem[2])
    BY <1>2 DEF Perform, Proceeds
  <2>2. Element(NextItem, 3, TRUE) /\ Shape(Rest) BY <2>1, TakenOff DEF VInv
  <2>3. NextItem[2] \in Effects \cup {"fail"}
    BY <2>1, <2>2, MethodNames DEF Element, Plain, Encloses
  <2>4. CASE NextItem[2] = "fail"
    <3>1. Effect(Rest, "fail") = Failed(Rest) BY DEF Effect, TypeEffects, StatementEffects
    <3>2. Mute(NextItem) BY <2>1, <2>4 DEF Mute
    <3> QED BY <2>1, <2>4, <3>1, <3>2, FailedVerdict
  <2>5. CASE NextItem[2] /= "fail"
    <3>1. Steady(Rest, gen') BY <2>1, <2>2, <2>3, <2>5, EffectSteady DEF VInv, IInv
    <3>2. ~Recalls(NextItem) BY <2>1, <2>5 DEF Recalls, Loops
    <3>3. Voiced(Rest, gen') BY <3>1, SteadyVoiced
    <3> QED BY <2>1, <3>2, <3>3, VoicedVerdict
  <2> QED BY <2>4, <2>5
<1>3. ASSUME Consume PROVE Verdict(gen')
  <2>1. /\ Parsing /\ NextItem[1] \in {"get", "get_silently"}
        /\ \/ gen' \in {Advanced(Rest), Error(Rest, "expected_token")}
           \/ gen' = Failed(Rest) /\ NextItem[1] = "get_silently"
    BY <1>3 DEF Consume
  <2>2. Shape(Rest) BY <2>1, TakenOff DEF VInv
  <2>3. CASE gen' \in {Advanced(Rest), Error(Rest, "expected_token")}
    <3>1. Steady(Rest, gen') BY <2>2, <2>3, SteadyOps
    <3>2. ~Recalls(NextItem) BY <2>1 DEF Recalls, Loops
    <3>3. Voiced(Rest, gen') BY <3>1, SteadyVoiced
    <3> QED BY <2>1, <3>2, <3>3, VoicedVerdict
  <2>4. CASE gen' = Failed(Rest) /\ NextItem[1] = "get_silently"
    <3>1. Mute(NextItem) BY <2>4 DEF Mute
    <3> QED BY <2>1, <2>4, <3>1, FailedVerdict
  <2> QED BY <2>1, <2>3, <2>4
<1>4. ASSUME Report PROVE Verdict(gen')
  <2>1. Parsing /\ NextItem[1] = "error" /\ gen' = Error(Rest, NextItem[2])
    BY <1>4 DEF Report, Proceeds
  <2>2. Shape(Rest) BY <2>1, TakenOff DEF VInv
  <2>3. Steady(Rest, gen') BY <2>1, <2>2, SteadyOps
  <2>4. ~Recalls(NextItem) BY <2>1 DEF Recalls, Loops
  <2>5. Voiced(Rest, gen') BY <2>3, SteadyVoiced
  <2> QED BY <2>1, <2>4, <2>5, VoicedVerdict
<1>5. ASSUME EnterScope PROVE Verdict(gen') BY <1>5, EnterVerdict
<1>6. ASSUME LeaveScope PROVE Verdict(gen')
  <2>1. Parsing /\ NextItem[1] = "leave" /\ gen' = Leaving(Rest, NextItem[2])
    BY <1>6 DEF LeaveScope, Proceeds
  <2> QED BY <2>1, LeaveVerdict
<1>7. ASSUME Parsing, gen' = Rest, gen.failing \/ NextItem[1] = "catch" PROVE Verdict(gen')
  <2>1. Shape(Rest) BY <1>7, TakenOff DEF VInv
  <2>2. Voiced(Rest, Rest) BY <2>1, SteadySelf, SteadyVoiced
  <2>3. gen.failing \/ ~Recalls(NextItem) BY <1>7 DEF Recalls, Loops
  <2> QED BY <1>7, <2>2, <2>3, VoicedVerdict
<1>8. ASSUME PassCatch PROVE Verdict(gen')
  <2>1. Parsing /\ NextItem[1] = "catch" /\ gen' = Rest BY <1>8 DEF PassCatch, Proceeds
  <2> QED BY <2>1, <1>7
<1>9. ASSUME Unwind PROVE Verdict(gen')
  <2>1. /\ Parsing /\ gen.failing
        /\ gen' = IF NextItem[1] = "leave" THEN Leaving(Rest, NextItem[2]) ELSE Rest
    BY <1>9 DEF Unwind
  <2>2. CASE NextItem[1] = "leave" BY <2>1, <2>2, LeaveVerdict
  <2>3. CASE NextItem[1] /= "leave" BY <2>1, <2>3, <1>7
  <2> QED BY <2>2, <2>3
<1>10. ASSUME Recover PROVE Verdict(gen') BY <1>10, RecoverVerdict
<1>11. ASSUME Finish PROVE Verdict(gen')
  <2>1. Shape(gen) BY DEF VInv, IInv, Explained
  <2>2. /\ gen'.pos = gen.pos /\ gen'.errors = gen.errors /\ gen'.failing = gen.failing
        /\ gen'.todo = gen.todo /\ gen.todo = <<>>
        /\ gen'.status = "parsed" => ~gen.failing
    BY <1>11, <2>1 DEF Finish, Shape, FieldNames
  <2>3. Accounted(gen') /\ Remembered(gen')
    BY <2>2 DEF VInv, Verdict, Accounted, Excused, WrappedRangeMet, Remembered
  <2> QED BY <2>2, <2>3 DEF Verdict
<1>12. ASSUME UNCHANGED vars PROVE Verdict(gen')
  BY <1>12 DEF vars, VInv
<1> QED BY <1>1, <1>2, <1>3, <1>4, <1>5, <1>6, <1>8, <1>9, <1>10, <1>11, <1>12 DEF Next

LEMMA VerdictKept ==
  ASSUME VInv, [Next]_vars
  PROVE  VInv'
<1>1. IInv' BY NextExplained DEF VInv
<1>2. Verdict(gen') BY NextVerdict
<1>3. tokens' = tokens
  BY DEF Next, Call, Perform, Consume, Report, EnterScope, LeaveScope, PassCatch, Unwind, Recover,
         Finish, vars
<1>4. WrappedRangeMet(gen') => WrappedRangeMet(gen)' BY <1>3 DEF WrappedRangeMet
<1> QED
  BY <1>1, <1>2, <1>4 DEF VInv, Verdict, Accounted, Excused, Remembered

LEMMA InitVerdict ==
  ASSUME Init
  PROVE  Verdict(gen)
<1>1. PICK file \in Files :
        gen = IF file.start = "external"
              THEN ViaExternalMethod(<<Nt("block", FALSE)>>, file.class, file.scope, FALSE)
              ELSE Fresh(<<Nt(file.start, FALSE)>>)
  BY DEF Init
<1>2. file.start \in {"block", "expr", "external"} BY FilesAssumption
<1> DEFINE start == IF file.start = "external" THEN "block" ELSE file.start
           todo == <<Nt(start, FALSE)>>
<1>3. gen.todo = todo /\ gen.failing = FALSE /\ gen.errors = {} /\ gen.status = "parsing"
  BY <1>1, <1>2 DEF Fresh, ViaExternalMethod
<1>4. Body(todo, 3, FALSE)
  <2>1. start \in Methods \ {"type_delimiter", "catch", "do", "get_silently"}
    BY <1>2 DEF Methods, ExpressionMethods, StatementMethods
  <2>2. ~Mute(Nt(start, FALSE)) BY <2>1 DEF Mute, Nt
  <2>3. Single(Nt(start, FALSE), 3, FALSE) BY <2>1, <2>2 DEF Single, Element, Plain, Nt
  <2> QED BY <2>3, Bodies
<1> QED BY <1>3, <1>4 DEF Verdict, Accounted, Remembered

LEMMA VerdictAgrees ==
  ASSUME VInv
  PROVE  VerdictReported
<1>1. NoErrorForgotten
  <2>1. ASSUME gen.todo = <<>> PROVE ~Recalled(gen.todo)
    BY <2>1 DEF Recalled
  <2> QED BY <2>1 DEF NoErrorForgotten, Parsed, VInv, Verdict, Remembered
<1>2. FailureReported BY DEF FailureReported, VInv, Verdict, Accounted, Excused
<1> QED BY <1>1, <1>2 DEF VerdictReported

(* Whatever the tokens: a file that parses has no error, though the loops of   *)
(* its blocks go on after each one they catch, and a parse fails only with an  *)
(* error to show for it, unless the range of a parenthesized for is at fault   *)
(* (block and sub_block, ast_gen.cpp:2511).                                    *)
THEOREM VerdictMatchesErrors == Spec => []VerdictReported
<1>1. Init => VInv BY InitExplained, InitVerdict DEF VInv
<1>2. VInv /\ [Next]_vars => VInv' BY VerdictKept
<1>3. VInv => VerdictReported BY VerdictAgrees
<1> QED BY <1>1, <1>2, <1>3, PTL DEF Spec
=============================================================================
