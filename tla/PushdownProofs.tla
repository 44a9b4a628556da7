---------------------------- MODULE PushdownProofs ----------------------------
(***************************************************************************)
(* Proofs about Pushdown, for every schema, every collection and predicates*)
(* of every size.                                                          *)
(***************************************************************************)
EXTENDS Pushdown, TLAPS

(***************************************************************************)
(* What is kept for a plain result and a document inference sampled.  The  *)
(* two properties need more than themselves: NOT turns what SQL finds false*)
(* into what it finds true, so the invariant also says when a result is    *)
(* true, false or NULL while a column is null.                             *)
(***************************************************************************)
Faithful(t, d) ==
    /\ t.pushed /\ d \in t.true => d \in t.match
    /\ t.exact /\ d \in t.match => d \in t.true
    /\ ~(d \in t.true /\ d \in t.false)
    /\ Guarded(d, t.columns) => d \in t.true \/ d \in t.false
    /\ d \in t.true /\ ~t.nullT => Guarded(d, t.columns)
    /\ d \in t.false /\ ~t.nullF => Guarded(d, t.columns)

Sound(t) ==
    /\ t \in Results
    /\ t.exact => t.pushed
    /\ t.plain => \A d \in Sampled : Faithful(t, d)

StackInv == TypeOK /\ \A i \in 1 .. Len(stack) : Sound(stack[i])
-------------------------------------------------------------------------------
(***************************************************************************)
(* Fields: for an unmixed scalar column of a sampled document, what SQL and*)
(* $match see is the same.                                                 *)
(***************************************************************************)
LEMMA OneItem ==
    ASSUME NEW d \in Sampled, NEW c \in Columns, ~Loose(c)
    PROVE  /\ d \in Docs
           /\ ~d[c].array
           /\ d[c] = Missing \/ \E s \in Scalars : /\ d[c].items = {s}
                                                   /\ s.of \in {"null", Home(Type[c])}
<1>1. d \in Docs /\ d[c] \in Fields
  BY PushdownAssumption DEF Sampled
<1>2. ~d[c].array /\ \A s \in d[c].items : s.of \in {"null", Home(Type[c])}
  BY DEF Sampled
<1>3. CASE d[c].items = {}
  BY <1>1, <1>2, <1>3 DEF Fields, Missing
<1>4. CASE d[c].items # {}
  <2>1. PICK s : s \in d[c].items
    BY <1>4
  <2>2. \A r \in d[c].items : s = r
    BY <1>1, <1>2, <2>1, PushdownAssumption
  <2>3. d[c].items = {s} /\ s \in Scalars
    BY <1>1, <2>1, <2>2 DEF Fields
  <2> QED BY <1>1, <1>2, <2>1, <2>3
<1> QED BY <1>1, <1>2, <1>3, <1>4

LEMMA HomeIsRead ==
    ASSUME NEW c \in Columns, ~Loose(c)
    PROVE  Home(Type[c]) \in Reads(Type[c]) /\ Home(Type[c]) # "null"
BY PushdownAssumption DEF Loose, Home, LiteralOf, Reads, Types, BsonTypes, Timestamps

LEMMA SameView ==
    ASSUME NEW d \in Sampled, NEW c \in Columns, ~Loose(c), NEW P
    PROVE  /\ SqlNull(c, d[c]) <=> FindsNull(d[c])
           /\ SqlIn(c, d[c], P) <=> Finds(d[c], Home(Type[c]), P)
           /\ Finds(d[c], Home(Type[c]), P) => ~FindsNull(d[c])
<1>1. CASE d[c] = Missing
  <2>1. SqlNull(c, d[c]) /\ FindsNull(d[c])
    BY <1>1 DEF SqlNull, Absent, FindsNull, Missing
  <2>2. ~SqlIn(c, d[c], P) /\ ~Finds(d[c], Home(Type[c]), P)
    BY <1>1, <2>1 DEF SqlIn, Finds, Missing
  <2> QED BY <2>1, <2>2
<1>2. CASE d[c] # Missing
  <2>1. PICK s \in Scalars : d[c].items = {s} /\ s.of \in {"null", Home(Type[c])}
    BY <1>2, OneItem
  <2>2. ~d[c].array
    BY OneItem
  <2>3. CASE s.of = "null"
    <3>1. SqlNull(c, d[c]) /\ FindsNull(d[c])
      BY <2>1, <2>2, <2>3 DEF SqlNull, Absent, FindsNull
    <3>2. ~SqlIn(c, d[c], P) /\ ~Finds(d[c], Home(Type[c]), P)
      BY <2>1, <2>3, <3>1, HomeIsRead DEF SqlIn, Finds
    <3> QED BY <3>1, <3>2
  <2>4. CASE s.of # "null"
    <3>1. ~SqlNull(c, d[c])
      BY <2>1, <2>2, <2>4, HomeIsRead DEF SqlNull, Absent
    <3>2. ~FindsNull(d[c])
      BY <1>2, <2>1, <2>4 DEF FindsNull
    <3>3. SqlIn(c, d[c], P) <=> Finds(d[c], Home(Type[c]), P)
      BY <2>1, <2>2, <2>4, <3>1 DEF SqlIn, Finds
    <3> QED BY <3>1, <3>2, <3>3
  <2> QED BY <2>3, <2>4
<1> QED BY <1>1, <1>2

-------------------------------------------------------------------------------
(***************************************************************************)
(* Leaves.                                                                 *)
(***************************************************************************)
LEMMA TestSound ==
    ASSUME NEW c \in Columns, NEW of, NEW P
    PROVE  Sound(Test(c, of, P))
<1> DEFINE t == Test(c, of, P)
<1>1. t \in Results /\ t.pushed
  BY DEF Test, Results, Loose
<1>2. ASSUME t.plain, NEW d \in Sampled PROVE Faithful(t, d)
  <2>1. ~Loose(c) /\ of = Home(Type[c])
    BY <1>2 DEF Test
  <2>2. d \in Docs
    BY OneItem, <2>1
  <2>3. /\ d \in t.true <=> SqlIn(c, d[c], P)
        /\ d \in t.false <=> ~SqlNull(c, d[c]) /\ ~SqlIn(c, d[c], P)
        /\ d \in t.match <=> Finds(d[c], of, P)
        /\ Guarded(d, t.columns) <=> ~FindsNull(d[c])
    BY <2>2 DEF Test, Guarded
  <2> QED BY <2>1, <2>3, SameView DEF Faithful
<1> QED BY <1>1, <1>2 DEF Sound

LEMMA TestNotSound ==
    ASSUME NEW c \in Columns, NEW of, NEW P
    PROVE  Sound(TestNot(c, of, P))
<1> DEFINE t == TestNot(c, of, P)
<1>1. t \in Results /\ t.pushed
  BY DEF TestNot, Test, Results, Loose
<1>2. ASSUME t.plain, NEW d \in Sampled PROVE Faithful(t, d)
  <2>1. ~Loose(c) /\ of = Home(Type[c])
    BY <1>2 DEF TestNot, Test
  <2>2. d \in Docs
    BY OneItem, <2>1
  <2>3. /\ d \in t.true <=> ~SqlNull(c, d[c]) /\ ~SqlIn(c, d[c], P)
        /\ d \in t.false <=> SqlIn(c, d[c], P)
        /\ d \in t.match <=> ~Finds(d[c], of, P) /\ ~FindsNull(d[c])
        /\ Guarded(d, t.columns) <=> ~FindsNull(d[c])
    BY <2>2 DEF TestNot, Test, Guarded
  <2> QED BY <2>1, <2>3, SameView DEF Faithful
<1> QED BY <1>1, <1>2 DEF Sound

LEMMA IsNullSound ==
    ASSUME NEW c \in Columns
    PROVE  Sound(IsNull(c))
<1> DEFINE t == IsNull(c)
<1>1. t \in Results /\ t.pushed
  BY DEF IsNull, Results, Loose
<1>2. ASSUME t.plain, NEW d \in Sampled PROVE Faithful(t, d)
  <2>1. ~Loose(c)
    BY <1>2 DEF IsNull
  <2>2. d \in Docs
    BY OneItem, <2>1
  <2>3. /\ d \in t.true <=> SqlNull(c, d[c])
        /\ d \in t.false <=> ~SqlNull(c, d[c])
        /\ d \in t.match <=> FindsNull(d[c])
        /\ Guarded(d, t.columns) <=> ~FindsNull(d[c])
        /\ t.nullT
    BY <2>2 DEF IsNull, Guarded
  <2> QED BY <2>1, <2>3, SameView DEF Faithful
<1> QED BY <1>1, <1>2 DEF Sound

LEMMA IsNotNullSound ==
    ASSUME NEW c \in Columns
    PROVE  Sound(IsNotNull(c))
<1> DEFINE t == IsNotNull(c)
<1>1. t \in Results /\ t.pushed
  BY DEF IsNotNull, IsNull, Results, Loose
<1>2. ASSUME t.plain, NEW d \in Sampled PROVE Faithful(t, d)
  <2>1. ~Loose(c)
    BY <1>2 DEF IsNotNull, IsNull
  <2>2. d \in Docs
    BY OneItem, <2>1
  <2>3. /\ d \in t.true <=> ~SqlNull(c, d[c])
        /\ d \in t.false <=> SqlNull(c, d[c])
        /\ d \in t.match <=> ~FindsNull(d[c])
        /\ Guarded(d, t.columns) <=> ~FindsNull(d[c])
        /\ t.nullF
    BY <2>2 DEF IsNotNull, IsNull, Guarded
  <2> QED BY <2>1, <2>3, SameView DEF Faithful
<1> QED BY <1>1, <1>2 DEF Sound

LEMMA IsBoolSound ==
    ASSUME NEW c \in Columns, NEW b
    PROVE  Sound(IsBool(c, b))
<1> DEFINE t == IsBool(c, b)
<1>1. t \in Results /\ t.pushed
  BY DEF IsBool, Test, Results, Loose
<1>2. ASSUME t.plain, NEW d \in Sampled PROVE Faithful(t, d)
  <2>1. ~Loose(c) /\ Home(Type[c]) = "bool"
    BY <1>2 DEF IsBool, Test
  <2>2. d \in Docs
    BY OneItem, <2>1
  <2>3. /\ d \in t.true <=> SqlIn(c, d[c], {b})
        /\ d \in t.false <=> ~SqlIn(c, d[c], {b})
        /\ d \in t.match <=> Finds(d[c], "bool", {b})
        /\ Guarded(d, t.columns) <=> ~FindsNull(d[c])
        /\ t.nullF
    BY <2>2 DEF IsBool, Test, Guarded
  <2> QED BY <2>1, <2>3, SameView DEF Faithful
<1> QED BY <1>1, <1>2 DEF Sound

LEMMA IsNotBoolSound ==
    ASSUME NEW c \in Columns, NEW b \in {0, 1}
    PROVE  Sound(IsNotBool(c, b))
<1> DEFINE t == IsNotBool(c, b)
<1>1. t \in Results /\ t.pushed
  BY DEF IsNotBool, Test, Results, Loose
<1>2. ASSUME t.plain, NEW d \in Sampled PROVE Faithful(t, d)
  <2>1. ~Loose(c) /\ Home(Type[c]) = "bool"
    BY <1>2 DEF IsNotBool, Test
  <2>2. d \in Docs
    BY OneItem, <2>1
  <2>3. /\ d \in t.true <=> ~SqlIn(c, d[c], {b})
        /\ d \in t.false <=> SqlIn(c, d[c], {b})
        /\ d \in t.match <=> Finds(d[c], "bool", {1 - b}) \/ FindsNull(d[c])
        /\ Guarded(d, t.columns) <=> ~FindsNull(d[c])
        /\ t.nullT
    BY <2>2 DEF IsNotBool, Test, Guarded
  <2>4. SqlIn(c, d[c], {b}) <=> Finds(d[c], "bool", {b})
    BY <2>1, SameView
  <2>5. Finds(d[c], "bool", {b}) => ~FindsNull(d[c])
    BY <2>1, SameView
  <2>6. ~Finds(d[c], "bool", {b}) <=> Finds(d[c], "bool", {1 - b}) \/ FindsNull(d[c])
    <3>1. CASE d[c] = Missing
      BY <3>1 DEF Finds, FindsNull, Missing
    <3>2. CASE d[c] # Missing
      <4>1. PICK s \in Scalars : d[c].items = {s} /\ s.of \in {"null", "bool"}
        BY <3>2, <2>1, OneItem
      <4>2. s.of = "bool" => s.n \in {0, 1}
        BY <4>1 DEF Scalars
      <4>3. FindsNull(d[c]) <=> s.of = "null"
        BY <3>2, <4>1 DEF FindsNull
      <4>4. \A k : Finds(d[c], "bool", {k}) <=> s.of = "bool" /\ s.n = k
        BY <4>1 DEF Finds
      <4>5. s.of = "bool" => (s.n # b <=> s.n = 1 - b)
        BY <4>2
      <4> QED BY <4>1, <4>3, <4>4, <4>5
    <3> QED BY <3>1, <3>2
  <2> QED BY <2>3, <2>4, <2>5, <2>6 DEF Faithful
<1> QED BY <1>1, <1>2 DEF Sound

LEMMA OpaqueSound ==
    ASSUME NEW c \in Columns, NEW P
    PROVE  Sound(Opaque(c, P))
<1> DEFINE t == Opaque(c, P)
<1>0. Test(c, "none", P) \in Results
  BY TestSound DEF Sound
<1>1. t \in Results /\ ~t.exact
  BY <1>0 DEF Opaque, Results, Loose
<1>2. ASSUME t.plain, NEW d \in Sampled PROVE Faithful(t, d)
  <2>1. ~Loose(c)
    BY <1>2 DEF Opaque, Test
  <2>2. d \in Docs
    BY OneItem, <2>1
  <2>3. /\ d \in t.true <=> SqlIn(c, d[c], P)
        /\ d \in t.false <=> ~SqlNull(c, d[c]) /\ ~SqlIn(c, d[c], P)
        /\ ~t.pushed /\ ~t.exact
        /\ Guarded(d, t.columns) <=> ~FindsNull(d[c])
    BY <2>2 DEF Opaque, Test, Guarded
  <2> QED BY <2>1, <2>3, SameView DEF Faithful
<1> QED BY <1>1, <1>2 DEF Sound

LEMMA LeafSound ==
    ASSUME NEW t \in Leaves
    PROVE  Sound(t)
BY TestSound, TestNotSound, IsNullSound, IsNotNullSound, IsBoolSound, IsNotBoolSound,
   OpaqueSound DEF Leaves
-------------------------------------------------------------------------------
(***************************************************************************)
(* Connectives.                                                            *)
(***************************************************************************)
LEMMA NotSound ==
    ASSUME NEW t, Sound(t)
    PROVE  Sound(Not(t))
<1> DEFINE u == Not(t)
<1>0. t \in Results
  BY DEF Sound
<1>1. u \in Results
  BY <1>0 DEF Not, Results
<1>2. u.exact => u.pushed
  BY DEF Not, Sound
<1>3. ASSUME u.plain, NEW d \in Sampled PROVE Faithful(u, d)
  <2>1. t.plain /\ ~t.nullF /\ (t.pushed => t.exact)
    BY <1>3, <1>0 DEF Not, Results
  <2>2. Faithful(t, d)
    BY <2>1 DEF Sound
  <2>3. d \in Docs
    BY DEF Sampled
  <2>4. /\ d \in u.true <=> d \in t.false
        /\ d \in u.false <=> d \in t.true
        /\ u.pushed = t.pushed /\ u.exact = t.exact
        /\ d \in u.match <=> d \notin t.match /\ Guarded(d, t.columns)
        /\ u.columns = t.columns
        /\ u.nullT = t.nullF /\ u.nullF = t.nullT
    BY <2>3 DEF Not
  <2>5. t.exact => t.pushed
    BY DEF Sound
  <2> QED BY <2>1, <2>2, <2>4, <2>5 DEF Faithful
<1> QED BY <1>1, <1>2, <1>3 DEF Sound

LEMMA AndSound ==
    ASSUME NEW s, NEW t, Sound(s), Sound(t)
    PROVE  Sound(And(s, t))
<1> DEFINE u == And(s, t)
<1>0. s \in Results /\ t \in Results /\ (s.exact => s.pushed) /\ (t.exact => t.pushed)
  BY DEF Sound
<1>1. u \in Results
  BY <1>0 DEF And, Share, Results
<1>2. u.exact => u.pushed
  BY <1>0 DEF And
<1>3. ASSUME u.plain, NEW d \in Sampled PROVE Faithful(u, d)
  <2>1. Faithful(s, d) /\ Faithful(t, d)
    BY <1>3 DEF And, Sound
  <2>2. d \in Docs
    BY DEF Sampled
  <2>3. /\ d \in u.true <=> d \in s.true /\ d \in t.true
        /\ d \in u.false <=> d \in s.false \/ d \in t.false
        /\ u.pushed <=> s.pushed \/ t.pushed
        /\ u.exact <=> s.exact /\ t.exact
        /\ d \in u.match <=> (s.pushed => d \in s.match) /\ (t.pushed => d \in t.match)
        /\ Guarded(d, u.columns) <=> Guarded(d, s.columns) /\ Guarded(d, t.columns)
        /\ u.nullT <=> s.nullT \/ t.nullT
        /\ u.nullF
    BY <2>2, <1>0 DEF And, Share, Guarded, Results
  <2> QED BY <1>0, <2>1, <2>3 DEF Faithful
<1> QED BY <1>1, <1>2, <1>3 DEF Sound

LEMMA OrSound ==
    ASSUME NEW s, NEW t, Sound(s), Sound(t)
    PROVE  Sound(Or(s, t))
<1> DEFINE u == Or(s, t)
<1>0. s \in Results /\ t \in Results /\ (s.exact => s.pushed) /\ (t.exact => t.pushed)
  BY DEF Sound
<1>1. u \in Results
  BY <1>0 DEF Or, Results
<1>2. u.exact => u.pushed
  BY <1>0 DEF Or
<1>3. ASSUME u.plain, NEW d \in Sampled PROVE Faithful(u, d)
  <2>1. Faithful(s, d) /\ Faithful(t, d)
    BY <1>3 DEF Or, Sound
  <2>2. /\ d \in u.true <=> d \in s.true \/ d \in t.true
        /\ d \in u.false <=> d \in s.false /\ d \in t.false
        /\ u.pushed <=> s.pushed /\ t.pushed
        /\ u.exact <=> s.exact /\ t.exact
        /\ d \in u.match <=> d \in s.match \/ d \in t.match
        /\ Guarded(d, u.columns) <=> Guarded(d, s.columns) /\ Guarded(d, t.columns)
        /\ u.nullT
        /\ u.nullF <=> s.nullF \/ t.nullF
    BY <1>0 DEF Or, Guarded, Results
  <2> QED BY <1>0, <2>1, <2>2 DEF Faithful
<1> QED BY <1>1, <1>2, <1>3 DEF Sound
-------------------------------------------------------------------------------
(***************************************************************************)
(* Steps.                                                                  *)
(***************************************************************************)
LEMMA LeafStep ==
    ASSUME StackInv, TranslateLeaf
    PROVE  StackInv'
<1>1. PICK t \in Leaves : stack' = Append(stack, t)
  BY DEF TranslateLeaf
<1>2. Sound(t)
  BY <1>1, LeafSound
<1>3. stack \in Seq(Results) /\ leaves \in 0 .. MaxLeaves /\ Len(stack) <= leaves
  BY DEF StackInv, TypeOK
<1>4. t \in Results
  BY <1>2 DEF Sound
<1>5. stack' \in Seq(Results) /\ Len(stack') = Len(stack) + 1
  BY <1>1, <1>3, <1>4
<1>6. TypeOK'
  BY <1>3, <1>5, PushdownAssumption DEF TypeOK, TranslateLeaf
<1>7. ASSUME NEW i \in 1 .. Len(stack') PROVE Sound(stack'[i])
  <2>1. CASE i \in 1 .. Len(stack)
    <3>1. stack'[i] = stack[i]
      BY <1>1, <1>3, <1>4, <2>1
    <3> QED BY <2>1, <3>1 DEF StackInv
  <2>2. CASE i = Len(stack) + 1
    <3>1. stack'[i] = t
      BY <1>1, <1>3, <1>4, <2>2
    <3> QED BY <1>2, <3>1
  <2> QED BY <1>3, <1>5, <2>1, <2>2
<1> QED BY <1>6, <1>7 DEF StackInv, Sound, Faithful, Guarded

LEMMA NotStep ==
    ASSUME StackInv, TranslateNot
    PROVE  StackInv'
<1> DEFINE n == Len(stack)
<1>1. stack \in Seq(Results) /\ leaves \in 0 .. MaxLeaves /\ n <= leaves /\ n >= 1
  BY DEF StackInv, TypeOK, TranslateNot
<1>2. Sound(Not(stack[n]))
  BY <1>1, NotSound DEF StackInv
<1>3. Not(stack[n]) \in Results
  BY <1>2 DEF Sound
<1>4. stack' = [stack EXCEPT ![n] = Not(stack[n])]
  BY DEF TranslateNot
<1>5. stack' \in Seq(Results) /\ Len(stack') = n
  BY <1>1, <1>3, <1>4
<1>6. TypeOK'
  BY <1>1, <1>5 DEF TypeOK, TranslateNot
<1>7. ASSUME NEW i \in 1 .. Len(stack') PROVE Sound(stack'[i])
  <2>1. CASE i = n
    <3>1. stack'[i] = Not(stack[n])
      BY <1>1, <1>4, <2>1
    <3> QED BY <1>2, <3>1
  <2>2. CASE i # n
    <3>1. i \in 1 .. n
      BY <1>5
    <3>2. i \in DOMAIN stack
      BY <1>1, <3>1
    <3>3. stack'[i] = stack[i]
      BY <1>4, <2>2, <3>2
    <3> QED BY <3>1, <3>3 DEF StackInv
  <2> QED BY <2>1, <2>2
<1> QED BY <1>6, <1>7 DEF StackInv

LEMMA CombineKeeps ==
    ASSUME StackInv, Len(stack) >= 2, NEW t, Sound(t), Combine(t)
    PROVE  StackInv'
<1> DEFINE n == Len(stack) - 1
<1>1. /\ stack \in Seq(Results) /\ leaves \in 0 .. MaxLeaves /\ Len(stack) <= leaves
      /\ n \in Nat /\ n < Len(stack)
  BY DEF StackInv, TypeOK
<1>2. stack' = [i \in 1 .. n |-> IF i = n THEN t ELSE stack[i]]
  BY DEF Combine
<1>3. t \in Results
  BY DEF Sound
<1>4. \A i \in 1 .. n : stack[i] \in Results
  BY <1>1
<1>5. stack' \in Seq(Results) /\ Len(stack') = n
  BY <1>1, <1>2, <1>3, <1>4
<1>6. leaves' = leaves
  BY DEF Combine
<1>7. TypeOK'
  BY <1>1, <1>5, <1>6 DEF TypeOK
<1>8. ASSUME NEW i \in 1 .. Len(stack') PROVE Sound(stack'[i])
  <2>1. i \in 1 .. n /\ i \in 1 .. Len(stack)
    BY <1>1, <1>5
  <2>2. stack'[i] = t \/ stack'[i] = stack[i]
    BY <1>2, <2>1
  <2> QED BY <2>1, <2>2 DEF StackInv
<1> QED BY <1>7, <1>8 DEF StackInv

LEMMA BinaryStep ==
    ASSUME StackInv, TranslateBinary
    PROVE  StackInv'
<1> DEFINE s == stack[Len(stack) - 1]
           t == stack[Len(stack)]
<1>1. Len(stack) \in Nat /\ Len(stack) >= 2
  BY DEF StackInv, TypeOK, TranslateBinary
<1>2. Sound(s) /\ Sound(t)
  BY <1>1 DEF StackInv
<1>3. Sound(And(s, t)) /\ Sound(Or(s, t))
  BY <1>2, AndSound, OrSound
<1>4. Combine(And(s, t)) \/ Combine(Or(s, t))
  BY DEF TranslateBinary
<1> QED BY <1>1, <1>3, <1>4, CombineKeeps

LEMMA StackInductive == Spec => []StackInv
<1>1. Init => StackInv
  BY PushdownAssumption DEF Init, StackInv, TypeOK
<1>2. StackInv /\ [Next]_vars => StackInv'
  <2> SUFFICES ASSUME StackInv, [Next]_vars PROVE StackInv'
    OBVIOUS
  <2>1. CASE TranslateLeaf
    BY <2>1, LeafStep
  <2>2. CASE TranslateNot
    BY <2>2, NotStep
  <2>3. CASE TranslateBinary
    BY <2>3, BinaryStep
  <2>4. CASE UNCHANGED vars
    BY <2>4 DEF vars, StackInv, TypeOK
  <2> QED BY <2>1, <2>2, <2>3, <2>4 DEF Next
<1> QED BY <1>1, <1>2, PTL DEF Spec
-------------------------------------------------------------------------------
(***************************************************************************)
(* Theorems.                                                               *)
(***************************************************************************)

\* translate() never leaves more results than it has seen leaves, and each of
\* them is a well-formed Translated, whatever the predicate and its size.
THEOREM TypeCorrect == Spec => []TypeOK
BY StackInductive, PTL DEF StackInv

\* pushdown.rs:5-9: for a plain predicate of any shape the $match, Exact or
\* Inexact, drops no document SQL would have returned.
THEOREM RowsAreKept == Spec => []PlainLosesNone
<1>1. StackInv => PlainLosesNone
  <2> SUFFICES ASSUME StackInv, NEW t \in Parts, t.plain, t.pushed,
                      NEW d \in t.true \cap Sampled
               PROVE  d \in t.match
    BY DEF PlainLosesNone, LosesNone
  <2>1. Sound(t)
    BY DEF StackInv, Parts
  <2> QED BY <2>1 DEF Sound, Faithful
<1> QED BY <1>1, StackInductive, PTL

\* pushdown.rs:5-16: for a plain predicate of any shape a $match claimed Exact
\* accepts no document SQL would not have returned, NULL results included.
THEOREM NothingIsAdded == Spec => []PlainAddsNone
<1>1. StackInv => PlainAddsNone
  <2> SUFFICES ASSUME StackInv, NEW t \in Parts, t.plain, t.exact,
                      NEW d \in t.match \cap Sampled
               PROVE  d \in t.true
    BY DEF PlainAddsNone, AddsNone
  <2>1. Sound(t)
    BY DEF StackInv, Parts
  <2> QED BY <2>1 DEF Sound, Faithful
<1> QED BY <1>1, StackInductive, PTL
-------------------------------------------------------------------------------
(***************************************************************************)
(* What a scan is given.  CollectionScan assumes of a predicate what       *)
(* supports_filters_pushdown() claims of a translation; here it is shown.  *)
(***************************************************************************)

\* The translation as a predicate of CollectionScan, over the sampled documents.
AsScanned(t) ==
    [sql |-> t.true \cap Sampled,
     match |-> IF t.pushed THEN t.match \cap Sampled ELSE Sampled,
     claim |-> IF ~t.pushed THEN "Unsupported" ELSE IF t.exact THEN "Exact" ELSE "Inexact"]

\* The clauses of ScanAssumption about one predicate.
FitForScan(p) ==
    /\ p.sql \subseteq p.match
    /\ p.claim = "Exact" => p.match = p.sql

\* provider.rs:79-86: a plain predicate, whatever its shape, is one that CollectionScan
\* is about: the rows of a scan are those of the query even when the planner drops
\* what was claimed Exact.
THEOREM PlainIsFitForScan ==
    Spec => [](\A t \in Parts : t.plain => FitForScan(AsScanned(t)))
<1>1. StackInv => \A t \in Parts : t.plain => FitForScan(AsScanned(t))
  <2> SUFFICES ASSUME StackInv, NEW t \in Parts, t.plain PROVE FitForScan(AsScanned(t))
    OBVIOUS
  <2>1. Sound(t)
    BY DEF StackInv, Parts
  <2> DEFINE p == AsScanned(t)
  <2>2. ASSUME NEW d \in p.sql PROVE d \in p.match
    BY <2>1 DEF AsScanned, Sound, Faithful
  <2>3. ASSUME p.claim = "Exact", NEW d \in p.match PROVE d \in p.sql
    <3>1. t.pushed /\ t.exact
      BY <2>3 DEF AsScanned
    <3> QED BY <2>1, <2>3, <3>1 DEF AsScanned, Sound, Faithful
  <2> HIDE DEF p
  <2>4. FitForScan(p)
    BY <2>2, <2>3 DEF FitForScan
  <2> QED BY <2>4 DEF p
<1> QED BY <1>1, StackInductive, PTL
===============================================================================
