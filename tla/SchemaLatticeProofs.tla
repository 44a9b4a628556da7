-------------------------- MODULE SchemaLatticeProofs --------------------------
(***************************************************************************)
(* What unify() guarantees for every nesting depth and every sample.       *)
(***************************************************************************)
EXTENDS SchemaLattice, TLAPS

\* b has room for what a has room for.
Le(a, b) == JoinBase(a, b) = b
-------------------------------------------------------------------------------
(***************************************************************************)
(* Bases: a finite join-semilattice, proved by cases.                      *)
(***************************************************************************)

LEMMA JoinClosed == \A a, b \in Bases : JoinBase(a, b) \in Bases
  BY DEF JoinBase, Bases

LEMMA JoinCommutes == \A a, b \in Bases : JoinBase(a, b) = JoinBase(b, a)
  BY DEF JoinBase, Widens, Coerces, Bases

LEMMA JoinLimits ==
    \A a \in Bases : /\ JoinBase("Unknown", a) = a
                     /\ JoinBase("Json", a) = "Json"
                     /\ JoinBase(a, a) = a
  BY DEF JoinBase, Widens, Coerces, Bases

LEMMA LeAntisymmetric == \A a, b \in Bases : Le(a, b) /\ Le(b, a) => a = b
  BY JoinCommutes DEF Le

LEMMA LeTransitive == \A a, b, c \in Bases : Le(a, b) /\ Le(b, c) => Le(a, c)
  BY DEF Le, JoinBase, Widens, Coerces, Bases

LEMMA JoinUpper == \A a, b \in Bases : Le(a, JoinBase(a, b)) /\ Le(b, JoinBase(a, b))
  BY DEF Le, JoinBase, Widens, Coerces, Bases

LEMMA JoinLeast ==
    \A a, b, u \in Bases : Le(a, u) /\ Le(b, u) => Le(JoinBase(a, b), u)
  BY DEF Le, JoinBase, Widens, Coerces, Bases

LEMMA WidensTransitive ==
    \A a, b, c \in Bases : Widens(a, b) /\ Widens(b, c) => Widens(a, c)
  BY DEF Widens, Bases
-------------------------------------------------------------------------------
(***************************************************************************)
(* Shapes.                                                                 *)
(***************************************************************************)

LEMMA UnifyClosed == \A x, y \in Shapes : unify(x, y) \in Shapes
  BY JoinClosed DEF unify, Shapes, Shape, Swallows

\* infer.rs:157: the join of two shapes does not depend on their order.
THEOREM UnifyCommutes == \A x, y \in Shapes : unify(x, y) = unify(y, x)
  <1> SUFFICES ASSUME NEW x \in Shapes, NEW y \in Shapes PROVE unify(x, y) = unify(y, x)
    OBVIOUS
  <1>1. x.depth \in Nat /\ y.depth \in Nat /\ x.base \in Bases /\ y.base \in Bases
    BY DEF Shapes
  <1>2. ~(Swallows(x, y) /\ Swallows(y, x))
    BY <1>1 DEF Swallows
  <1>3. JoinBase(x.base, y.base) = JoinBase(y.base, x.base)
    BY <1>1, JoinCommutes
  <1>4. (IF x.depth < y.depth THEN y.depth ELSE x.depth)
        = (IF y.depth < x.depth THEN x.depth ELSE y.depth)
    BY <1>1
  <1>5. QED
    BY <1>2, <1>3, <1>4 DEF unify

\* v has room in r: r is unchanged by another v.
Fits(v, r) == unify(r, v) = r

LEMMA FitsMeans ==
    \A v, r \in Shapes :
        Fits(v, r) <=> \/ Swallows(r, v)
                       \/ /\ ~Swallows(v, r)
                          /\ v.depth <= r.depth
                          /\ Le(v.base, r.base)
  <1> SUFFICES ASSUME NEW v \in Shapes, NEW r \in Shapes
               PROVE  Fits(v, r) <=> \/ Swallows(r, v)
                                     \/ /\ ~Swallows(v, r)
                                        /\ v.depth <= r.depth
                                        /\ Le(v.base, r.base)
    OBVIOUS
  <1>1. /\ v.depth \in Nat /\ r.depth \in Nat
        /\ v.base \in Bases /\ r.base \in Bases
        /\ r = [depth |-> r.depth, base |-> r.base]
    BY DEF Shapes
  <1>2. CASE Swallows(r, v)
    BY <1>2 DEF Fits, unify
  <1>3. CASE ~Swallows(r, v) /\ Swallows(v, r)
    BY <1>1, <1>3 DEF Fits, unify, Swallows
  <1>4. CASE ~Swallows(r, v) /\ ~Swallows(v, r)
    <2>1. Fits(v, r) <=> /\ (IF r.depth < v.depth THEN v.depth ELSE r.depth) = r.depth
                         /\ JoinBase(r.base, v.base) = r.base
      BY <1>1, <1>4 DEF Fits, unify, Shape
    <2>2. QED
      BY <1>1, <1>4, <2>1, JoinCommutes DEF Le
  <1>5. QED
    BY <1>2, <1>3, <1>4

\* What fitted before a join fits after it.
LEMMA FitsKept ==
    ASSUME NEW v \in Shapes, NEW r \in Shapes, NEW w \in Shapes, Fits(v, r)
    PROVE  Fits(v, unify(r, w))
  <1> DEFINE q == unify(r, w)
  <1>1. /\ v.depth \in Nat /\ r.depth \in Nat /\ w.depth \in Nat
        /\ v.base \in Bases /\ r.base \in Bases /\ w.base \in Bases
    BY DEF Shapes
  <1>2. q \in Shapes
    BY UnifyClosed
  <1>3. CASE Swallows(r, w)
    BY <1>3 DEF unify
  <1>4. CASE ~Swallows(r, w) /\ Swallows(w, r)
    <2>1. q = w /\ w.base = "Json" /\ w.depth < r.depth
      BY <1>4 DEF unify, Swallows
    <2>2. CASE w.depth < v.depth
      BY <2>1, <2>2, <1>2, FitsMeans DEF Swallows
    <2>3. CASE v.depth <= w.depth
      <3>1. ~Swallows(v, w)
        BY <1>1, <2>1, <2>3, FitsMeans DEF Swallows
      <3>2. Le(v.base, w.base)
        BY <1>1, <2>1, JoinLimits, JoinCommutes DEF Le
      <3>3. QED
        BY <2>1, <2>3, <3>1, <3>2, FitsMeans
    <2>4. QED
      BY <1>1, <2>2, <2>3
  <1>5. CASE ~Swallows(r, w) /\ ~Swallows(w, r)
    <2>1. /\ q.depth = IF r.depth < w.depth THEN w.depth ELSE r.depth
          /\ q.base = JoinBase(r.base, w.base)
      BY <1>5 DEF unify, Shape
    <2>2. CASE Swallows(r, v)
      <3>1. r.base = "Json" /\ r.depth < v.depth
        BY <2>2 DEF Swallows
      <3>2. q.base = "Json" /\ q.depth = r.depth
        BY <1>1, <1>5, <2>1, <3>1, JoinLimits DEF Swallows
      <3>3. QED
        BY <1>2, <3>1, <3>2, FitsMeans DEF Swallows
    <2>3. CASE ~Swallows(v, r) /\ v.depth <= r.depth /\ Le(v.base, r.base)
      <3>1. v.depth <= q.depth
        BY <1>1, <2>1, <2>3
      <3>2. Le(v.base, q.base)
        BY <1>1, <2>1, <2>3, JoinUpper, LeTransitive, JoinClosed
      <3>3. ~Swallows(v, q)
        <4> SUFFICES ASSUME v.base = "Json", v.depth < q.depth PROVE FALSE
          BY DEF Swallows
        <4>1. r.base = "Json" /\ v.depth = r.depth
          BY <1>1, <2>3, JoinLimits DEF Le, Swallows
        <4>2. QED
          BY <1>1, <1>5, <2>1, <4>1 DEF Swallows
      <3>4. QED
        BY <1>2, <3>1, <3>2, <3>3, FitsMeans
    <2>4. QED
      BY <2>2, <2>3, FitsMeans
  <1>6. QED
    BY <1>3, <1>4, <1>5

\* What was joined fits.
LEMMA FitsJoined == \A r, w \in Shapes : Fits(w, unify(r, w))
  <1> SUFFICES ASSUME NEW r \in Shapes, NEW w \in Shapes PROVE Fits(w, unify(r, w))
    OBVIOUS
  <1>1. /\ r.depth \in Nat /\ w.depth \in Nat
        /\ r.base \in Bases /\ w.base \in Bases
    BY DEF Shapes
  <1>2. unify(r, w) \in Shapes
    BY UnifyClosed
  <1>3. CASE Swallows(r, w)
    BY <1>3 DEF Fits, unify
  <1>4. CASE ~Swallows(r, w) /\ Swallows(w, r)
    <2>1. unify(r, w) = w /\ Le(w.base, w.base)
      BY <1>1, <1>4, JoinLimits DEF unify, Le
    <2>2. ~Swallows(w, w)
      BY <1>1 DEF Swallows
    <2>3. QED
      BY <1>1, <2>1, <2>2, FitsMeans
  <1>5. CASE ~Swallows(r, w) /\ ~Swallows(w, r)
    <2> DEFINE q == unify(r, w)
    <2>1. /\ q.depth = IF r.depth < w.depth THEN w.depth ELSE r.depth
          /\ q.base = JoinBase(r.base, w.base)
      BY <1>5 DEF unify, Shape
    <2>2. w.depth <= q.depth /\ Le(w.base, q.base)
      BY <1>1, <2>1, JoinUpper
    <2>3. ~Swallows(w, q)
      BY <1>1, <1>5, <2>1 DEF Swallows
    <2>4. QED
      BY <1>2, <2>2, <2>3, FitsMeans
  <1>6. QED
    BY <1>3, <1>4, <1>5
-------------------------------------------------------------------------------
(***************************************************************************)
(* The samplers.                                                           *)
(***************************************************************************)

LEMMA ValuesAreShapes == Values \subseteq Shapes
  BY SchemaLatticeAssumption DEF Values, Shapes

LEMMA UnknownIsShape == Unknown \in Shapes
  BY DEF Unknown, Shape, Shapes, Bases

\* infer.rs:158-276: sampling always has an answer, and it is a shape.
THEOREM TypeCorrect == Spec => []TypeOK
  <1>1. Init => TypeOK
    BY UnknownIsShape DEF Init, TypeOK
  <1>2. ASSUME TypeOK, [Next]_vars PROVE TypeOK'
    <2>1. CASE UNCHANGED vars
      BY <1>2, <2>1 DEF TypeOK, vars
    <2>2. ASSUME NEW s \in Samplers, ObserveNull(s) PROVE TypeOK'
      BY <1>2, <2>2 DEF TypeOK, ObserveNull
    <2>3. ASSUME NEW s \in Samplers, NEW v \in Values, ObserveValue(s, v) PROVE TypeOK'
      <3>1. unify(shape[s], v) \in Shapes
        BY <1>2, UnifyClosed, ValuesAreShapes DEF TypeOK
      <3>2. (mixed[s] \/ mixes(shape[s], v)) \in BOOLEAN
        BY DEF mixes
      <3>3. shape' \in [Samplers -> Shapes] /\ present' \in [Samplers -> Nat]
        BY <1>2, <2>3, <3>1 DEF TypeOK, ObserveValue
      <3>4. mixed' \in [Samplers -> BOOLEAN]
        BY <1>2, <2>3, <3>2 DEF TypeOK, ObserveValue
      <3>5. sampled' \in [Samplers -> SUBSET Values] /\ nulls' \in [Samplers -> Nat]
        BY <1>2, <2>3 DEF TypeOK, ObserveValue
      <3>6. QED
        BY <3>3, <3>4, <3>5 DEF TypeOK
    <2>4. QED
      BY <1>2, <2>1, <2>2, <2>3 DEF Next
  <1>3. QED
    BY <1>1, <1>2, PTL DEF Spec

\* What a step does to the sampler s: nothing but counting, or one join.
Idles(s) == /\ shape'[s] = shape[s]
            /\ mixed'[s] = mixed[s]
            /\ sampled'[s] = sampled[s]

Joins(s, v) == /\ v # Unknown
               /\ shape'[s] = unify(shape[s], v)
               /\ mixed'[s] = (mixed[s] \/ mixes(shape[s], v))
               /\ sampled'[s] = sampled[s] \cup {v}

LEMMA StepEffect ==
    ASSUME TypeOK, [Next]_vars
    PROVE  \A s \in Samplers : Idles(s) \/ \E v \in Values : Joins(s, v)
  <1>1. CASE UNCHANGED vars
    BY <1>1 DEF vars, Idles
  <1>2. ASSUME NEW r \in Samplers, ObserveNull(r) PROVE \A s \in Samplers : Idles(s)
    BY <1>2 DEF ObserveNull, Idles
  <1>3. ASSUME NEW r \in Samplers, NEW v \in Values, ObserveValue(r, v)
        PROVE  \A s \in Samplers : Idles(s) \/ Joins(s, v)
    <2>1. ASSUME NEW s \in Samplers, s # r PROVE Idles(s)
      BY <1>3, <2>1 DEF ObserveValue, TypeOK, Idles
    <2>2. Joins(r, v)
      BY <1>3 DEF ObserveValue, TypeOK, Joins
    <2>3. QED
      BY <2>1, <2>2
  <1>4. QED
    BY <1>1, <1>2, <1>3 DEF Next

\* infer.rs:8-16: no order of observation loses a value already observed: the
\* column has room for all of them.
THEOREM SampleIsCovered == Spec => []CoversSample
  <1>1. Init => CoversSample
    BY DEF Init, CoversSample
  <1>2. ASSUME TypeOK, CoversSample, [Next]_vars PROVE CoversSample'
    <2> SUFFICES ASSUME NEW s \in Samplers, NEW u \in sampled'[s]
                 PROVE  unify(shape'[s], u) = shape'[s]
      BY DEF CoversSample
    <2>1. CASE Idles(s)
      BY <1>2, <2>1 DEF CoversSample, Idles
    <2>2. ASSUME NEW v \in Values, Joins(s, v) PROVE Fits(u, shape'[s])
      <3>1. v \in Shapes /\ shape[s] \in Shapes
        BY <1>2, ValuesAreShapes DEF TypeOK
      <3>2. CASE u = v
        BY <2>2, <3>1, <3>2, FitsJoined DEF Joins
      <3>3. CASE u \in sampled[s]
        <4>1. u \in Shapes /\ Fits(u, shape[s])
          BY <1>2, <3>3, ValuesAreShapes DEF TypeOK, CoversSample, Fits
        <4>2. QED
          BY <2>2, <3>1, <4>1, FitsKept DEF Joins
      <3>4. QED
        BY <2>2, <3>2, <3>3 DEF Joins
    <2>3. QED
      BY <1>2, <2>1, <2>2, StepEffect DEF Fits
  <1>3. QED
    BY <1>1, <1>2, TypeCorrect, PTL DEF Spec

\* infer.rs:186-191: a column is nested no deeper than its most nested value.
THEOREM NestingIsSampled == Spec => []NoSpuriousNesting
  <1>1. Init => NoSpuriousNesting
    BY DEF Init, NoSpuriousNesting, Unknown, Shape
  <1>2. ASSUME TypeOK, NoSpuriousNesting, [Next]_vars PROVE NoSpuriousNesting'
    <2> SUFFICES ASSUME NEW s \in Samplers, shape'[s].depth > 0
                 PROVE  \E u \in sampled'[s] : shape'[s].depth <= u.depth
      BY DEF NoSpuriousNesting
    <2>1. CASE Idles(s)
      BY <1>2, <2>1 DEF NoSpuriousNesting, Idles
    <2>2. ASSUME NEW v \in Values, Joins(s, v)
          PROVE  \E u \in sampled'[s] : shape'[s].depth <= u.depth
      <3>1. v.depth \in Nat /\ shape[s].depth \in Nat
        BY <1>2, ValuesAreShapes DEF TypeOK, Shapes
      <3>2. shape'[s].depth \in {shape[s].depth, v.depth}
        BY <2>2 DEF Joins, unify, Shape
      <3>3. CASE shape'[s].depth = v.depth
        BY <2>2, <3>1, <3>3 DEF Joins
      <3>4. CASE shape'[s].depth = shape[s].depth
        <4>1. PICK u \in sampled[s] : shape[s].depth <= u.depth
          BY <1>2, <3>4 DEF NoSpuriousNesting
        <4>2. QED
          BY <2>2, <3>4, <4>1 DEF Joins
      <3>5. QED
        BY <3>2, <3>3, <3>4
    <2>3. QED
      BY <1>2, <2>1, <2>2, StepEffect
  <1>3. QED
    BY <1>1, <1>2, TypeCorrect, PTL DEF Spec
-------------------------------------------------------------------------------
(***************************************************************************)
(* The "mixed" flag, and scalars.                                          *)
(***************************************************************************)

\* An unmixed join is in the family of both operands.
LEMMA UnmixedJoin ==
    \A a, b \in Bases : ~MixesBase(a, b) => /\ Widens(a, JoinBase(a, b))
                                            /\ Widens(b, JoinBase(a, b))
  BY DEF MixesBase, JoinBase, Widens, Coerces, Bases

\* infer.rs:34-36: an unmixed column is in the family of every sampled value.
THEOREM UnmixedIsTrusted == Spec => []UnmixedIsFaithful
  <1>1. Init => UnmixedIsFaithful
    BY DEF Init, UnmixedIsFaithful
  <1>2. ASSUME TypeOK, UnmixedIsFaithful, [Next]_vars PROVE UnmixedIsFaithful'
    <2> SUFFICES ASSUME NEW s \in Samplers, ~mixed'[s], NEW u \in sampled'[s]
                 PROVE  Widens(u.base, shape'[s].base)
      BY DEF UnmixedIsFaithful
    <2>1. CASE Idles(s)
      BY <1>2, <2>1 DEF UnmixedIsFaithful, Idles
    <2>2. ASSUME NEW v \in Values, Joins(s, v) PROVE Widens(u.base, shape'[s].base)
      <3> DEFINE r == shape[s]
      <3>1. /\ v \in Shapes /\ r \in Shapes
            /\ v.base \in Bases /\ r.base \in Bases /\ r.depth \in Nat /\ v.depth \in Nat
        BY <1>2, ValuesAreShapes DEF TypeOK, Shapes
      <3>2. ~mixed[s] /\ ~mixes(r, v)
        BY <2>2 DEF Joins
      <3>3. Widens(r.base, shape'[s].base) /\ Widens(v.base, shape'[s].base)
        <4>1. CASE r = v
          <5>1. shape'[s] = Shape(r.depth, JoinBase(r.base, r.base))
            BY <2>2, <3>1, <4>1 DEF Joins, unify, Swallows
          <5>2. QED
            BY <3>1, <4>1, <5>1, JoinLimits DEF Shape, Widens
        <4>2. CASE r # v
          <5>1. ~Swallows(r, v) /\ ~Swallows(v, r) /\ ~MixesBase(r.base, v.base)
            BY <3>2, <4>2 DEF mixes
          <5>2. shape'[s].base = JoinBase(r.base, v.base)
            BY <2>2, <5>1 DEF Joins, unify, Shape
          <5>3. QED
            BY <3>1, <5>1, <5>2, UnmixedJoin
        <4>3. QED
          BY <4>1, <4>2
      <3>4. CASE u = v
        BY <3>3, <3>4
      <3>5. CASE u \in sampled[s]
        <4>1. Widens(u.base, r.base)
          BY <1>2, <3>2, <3>5 DEF UnmixedIsFaithful
        <4>2. u.base \in Bases
          BY <1>2, <3>5, ValuesAreShapes DEF TypeOK, Shapes
        <4>3. shape'[s].base \in Bases
          BY <2>2, <3>1, UnifyClosed DEF Joins, Shapes
        <4>4. QED
          BY <3>1, <3>3, <4>1, <4>2, <4>3, WidensTransitive
      <3>6. QED
        BY <2>2, <3>4, <3>5 DEF Joins
    <2>3. QED
      BY <1>2, <2>1, <2>2, StepEffect
  <1>3. QED
    BY <1>1, <1>2, TypeCorrect, PTL DEF Spec

\* A base of a scalar that was sampled, and their least upper bound.
Scalar(s) == \A v \in sampled[s] : v.depth = 0

Bounds(s, b) == \A v \in sampled[s] : Le(v.base, b)

\* Without arrays the shape is the least upper bound of what was sampled, and
\* mixed says that some value is outside its family: neither depends on order.
ScalarInv ==
    \A s \in Samplers : Scalar(s) =>
        /\ shape[s].depth = 0
        /\ Bounds(s, shape[s].base)
        /\ \A b \in Bases : Bounds(s, b) => Le(shape[s].base, b)
        /\ mixed[s] <=> \E v \in sampled[s] : ~Widens(v.base, shape[s].base)
        /\ Unknown \notin sampled[s]

\* A value outside the family of a join stays outside.
LEMMA StaysOutside ==
    \A a, b, c \in Bases :
        Le(a, b) /\ ~Widens(a, b) => ~Widens(a, JoinBase(b, c))
  BY DEF Le, JoinBase, Widens, Coerces, Bases

\* A join out of the family of b either leaves that of c too, or is c, and c is
\* a top of its family.
LEMMA MixedJoin ==
    \A b, c \in Bases :
        MixesBase(b, c) /\ Widens(c, JoinBase(b, c)) =>
            /\ JoinBase(b, c) = c
            /\ \A a \in Bases : Widens(a, c) => a \in {"Unknown", c}
  BY DEF MixesBase, JoinBase, Widens, Coerces, Bases

LEMMA BottomLe == \A a \in Bases : /\ Le("Unknown", a)
                                   /\ Le(a, "Unknown") => a = "Unknown"
                                   /\ ~MixesBase("Unknown", a)
                                   /\ ~MixesBase(a, a)
  BY DEF Le, JoinBase, MixesBase, Widens, Coerces, Bases

\* One join of a scalar keeps the invariant of its sampler.
LEMMA ScalarJoin ==
    ASSUME TypeOK, ScalarInv, NEW s \in Samplers, NEW v \in Values, Joins(s, v),
           Scalar(s)'
    PROVE  /\ shape'[s].depth = 0
           /\ Bounds(s, shape[s].base)'
           /\ \A b \in Bases : Bounds(s, b)' => Le(shape'[s].base, b)
           /\ mixed'[s] <=> \E u \in sampled'[s] : ~Widens(u.base, shape'[s].base)
           /\ Unknown \notin sampled'[s]
  <1> DEFINE r == shape[s]
             q == shape'[s]
  <1>1. sampled'[s] = sampled[s] \cup {v}
    BY DEF Joins
  <1>2. Scalar(s) /\ v.depth = 0
    BY <1>1 DEF Scalar
  <1>3. /\ r \in Shapes /\ v \in Shapes
        /\ r.base \in Bases /\ v.base \in Bases
        /\ \A u \in sampled[s] : u \in Shapes /\ u.base \in Bases /\ u.depth = 0
    BY <1>2, ValuesAreShapes DEF TypeOK, Shapes, Scalar
  <1>4. /\ r.depth = 0
        /\ \A u \in sampled[s] : Le(u.base, r.base)
        /\ \A b \in Bases : (\A u \in sampled[s] : Le(u.base, b)) => Le(r.base, b)
        /\ Unknown \notin sampled[s]
    BY <1>2 DEF ScalarInv, Bounds
  <1>5. mixed[s] <=> \E u \in sampled[s] : ~Widens(u.base, r.base)
    BY <1>2 DEF ScalarInv
  <1>6. /\ q.depth = 0 /\ q.base = JoinBase(r.base, v.base) /\ q.base \in Bases
        /\ ~Swallows(r, v) /\ ~Swallows(v, r)
    <2>1. ~Swallows(r, v) /\ ~Swallows(v, r)
      BY <1>2, <1>4 DEF Swallows
    <2>2. QED
      BY <1>2, <1>3, <1>4, <2>1, JoinClosed DEF Joins, unify, Shape
  <1>7. Bounds(s, shape[s].base)'
    <2> SUFFICES ASSUME NEW u \in sampled'[s] PROVE Le(u.base, q.base)
      BY DEF Bounds
    <2>1. CASE u = v
      BY <1>3, <1>6, <2>1, JoinUpper
    <2>2. CASE u \in sampled[s]
      BY <1>3, <1>4, <1>6, <2>2, JoinUpper, LeTransitive
    <2>3. QED
      BY <1>1, <2>1, <2>2
  <1>8. ASSUME NEW b \in Bases, Bounds(s, b)' PROVE Le(q.base, b)
    <2>1. Le(v.base, b) /\ \A u \in sampled[s] : Le(u.base, b)
      BY <1>1, <1>8 DEF Bounds
    <2>2. QED
      BY <1>3, <1>4, <1>6, <2>1, JoinLeast
  <1>9. ASSUME mixed'[s] PROVE \E u \in sampled'[s] : ~Widens(u.base, q.base)
    <2>1. CASE mixed[s]
      <3>1. PICK u \in sampled[s] : ~Widens(u.base, r.base)
        BY <1>5, <2>1
      <3>2. ~Widens(u.base, q.base)
        BY <1>3, <1>4, <1>6, <3>1, StaysOutside
      <3>3. QED
        BY <1>1, <3>2
    <2>2. CASE mixes(r, v)
      <3>1. MixesBase(r.base, v.base)
        BY <1>6, <2>2 DEF mixes
      <3>2. CASE ~Widens(v.base, q.base)
        BY <1>1, <3>2
      <3>3. CASE Widens(v.base, q.base)
        <4> SUFFICES ASSUME \A u \in sampled[s] : Widens(u.base, q.base) PROVE FALSE
          BY <1>1
        <4>1. /\ q.base = v.base
              /\ \A u \in sampled[s] : u.base \in {"Unknown", v.base}
          BY <1>3, <1>6, <3>1, <3>3, MixedJoin
        <4>2. CASE \E u \in sampled[s] : u.base = v.base
          <5>1. Le(v.base, r.base)
            BY <1>4, <4>2
          <5>2. Le(r.base, v.base)
            BY <1>3, <1>6, <4>1, JoinUpper
          <5>3. r.base = v.base
            BY <1>3, <5>1, <5>2, LeAntisymmetric
          <5>4. QED
            BY <1>3, <3>1, <5>3, BottomLe
        <4>3. CASE \A u \in sampled[s] : u.base = "Unknown"
          <5>1. "Unknown" \in Bases
            BY DEF Bases
          <5>2. \A u \in sampled[s] : Le(u.base, "Unknown")
            BY <4>3, <5>1, BottomLe
          <5>3. r.base = "Unknown"
            BY <1>3, <1>4, <5>1, <5>2, BottomLe
          <5>4. QED
            BY <1>3, <3>1, <5>3, BottomLe
        <4>4. QED
          BY <4>1, <4>2, <4>3
      <3>4. QED
        BY <3>2, <3>3
    <2>3. QED
      BY <1>9, <2>1, <2>2 DEF Joins
  <1>10. ASSUME ~mixed'[s], NEW u \in sampled'[s] PROVE Widens(u.base, q.base)
    <2>1. ~mixed[s] /\ ~mixes(r, v)
      BY <1>10 DEF Joins
    <2>2. Widens(r.base, q.base) /\ Widens(v.base, q.base)
      <3>1. CASE r = v
        BY <1>3, <1>6, <3>1, JoinLimits DEF Widens
      <3>2. CASE r # v
        BY <1>3, <1>6, <2>1, <3>2, UnmixedJoin DEF mixes
      <3>3. QED
        BY <3>1, <3>2
    <2>3. CASE u \in sampled[s]
      <3>1. Widens(u.base, r.base)
        BY <1>5, <2>1, <2>3
      <3>2. QED
        BY <1>3, <1>6, <2>2, <2>3, <3>1, WidensTransitive
    <2>4. QED
      BY <1>1, <2>2, <2>3
  <1>11. mixed'[s] <=> \E u \in sampled'[s] : ~Widens(u.base, q.base)
    BY <1>9, <1>10
  <1>12. Unknown \notin sampled'[s]
    BY <1>1, <1>4 DEF Joins
  <1>13. QED
    BY <1>6, <1>7, <1>8, <1>11, <1>12

LEMMA ScalarInvariant == Spec => []ScalarInv
  <1>1. Init => ScalarInv
    <2> SUFFICES ASSUME Init, NEW s \in Samplers, Scalar(s)
                 PROVE  /\ shape[s].depth = 0
                        /\ Bounds(s, shape[s].base)
                        /\ \A b \in Bases : Bounds(s, b) => Le(shape[s].base, b)
                        /\ mixed[s] <=> \E v \in sampled[s] : ~Widens(v.base, shape[s].base)
                        /\ Unknown \notin sampled[s]
      BY DEF ScalarInv
    <2>1. shape[s] = Shape(0, "Unknown") /\ mixed[s] = FALSE /\ sampled[s] = {}
      BY DEF Init, Unknown
    <2>2. QED
      BY <2>1, BottomLe DEF Shape, Bounds
  <1>2. ASSUME TypeOK, ScalarInv, [Next]_vars PROVE ScalarInv'
    <2> SUFFICES ASSUME NEW s \in Samplers, Scalar(s)'
                 PROVE  /\ shape'[s].depth = 0
                        /\ Bounds(s, shape[s].base)'
                        /\ \A b \in Bases : Bounds(s, b)' => Le(shape'[s].base, b)
                        /\ mixed'[s] <=> \E v \in sampled'[s] : ~Widens(v.base, shape'[s].base)
                        /\ Unknown \notin sampled'[s]
      BY DEF ScalarInv
    <2>1. CASE Idles(s)
      <3>1. Scalar(s)
        BY <2>1 DEF Idles, Scalar
      <3>2. /\ shape[s].depth = 0
            /\ Bounds(s, shape[s].base)
            /\ \A b \in Bases : Bounds(s, b) => Le(shape[s].base, b)
            /\ mixed[s] <=> \E v \in sampled[s] : ~Widens(v.base, shape[s].base)
            /\ Unknown \notin sampled[s]
        BY <1>2, <3>1 DEF ScalarInv
      <3>3. QED
        BY <2>1, <3>2 DEF Idles, Bounds
    <2>2. CASE \E v \in Values : Joins(s, v)
      BY <1>2, <2>2, ScalarJoin
    <2>3. QED
      BY <1>2, <2>1, <2>2, StepEffect
  <1>3. QED
    BY <1>1, <1>2, TypeCorrect, PTL DEF Spec

\* infer.rs:157: two samplings of the same scalars agree on the type and on the
\* "mixed" flag, whatever the orders they met the scalars in.
THEOREM ScalarOrderIsIrrelevant == Spec => []ScalarsInAnyOrder
  <1>1. TypeOK /\ ScalarInv => ScalarsInAnyOrder
    <2> SUFFICES ASSUME TypeOK, ScalarInv, NEW s \in Samplers, NEW r \in Samplers,
                        sampled[s] = sampled[r], Scalar(s)
                 PROVE  shape[s] = shape[r] /\ mixed[s] = mixed[r]
      BY DEF ScalarsInAnyOrder, Scalar
    <2>1. Scalar(r)
      BY DEF Scalar
    <2>2. /\ shape[s] \in Shapes /\ shape[r] \in Shapes
          /\ shape[s].base \in Bases /\ shape[r].base \in Bases
          /\ mixed[s] \in BOOLEAN /\ mixed[r] \in BOOLEAN
      BY DEF TypeOK, Shapes
    <2>3. /\ shape[s].depth = 0 /\ shape[r].depth = 0
          /\ Le(shape[s].base, shape[r].base) /\ Le(shape[r].base, shape[s].base)
      BY <2>1, <2>2 DEF ScalarInv, Bounds
    <2>4. shape[s].base = shape[r].base
      BY <2>2, <2>3, LeAntisymmetric
    <2>5. shape[s] = shape[r]
      BY <2>2, <2>3, <2>4 DEF Shapes
    <2>6. mixed[s] <=> mixed[r]
      BY <2>1, <2>5 DEF ScalarInv
    <2>7. QED
      BY <2>2, <2>5, <2>6
  <1>2. QED
    BY <1>1, TypeCorrect, ScalarInvariant, PTL
-------------------------------------------------------------------------------
(***************************************************************************)
(* What is mixed, in any order and at any depth.  The invariant says it of *)
(* the set of values observed: they mix when two of them clash, and until  *)
(* then the shape has the depth of the deepest and the base of the widest. *)
(***************************************************************************)

Clash(u, v) == Swallows(u, v) \/ Swallows(v, u) \/ MixesBase(u.base, v.base)

Clashes(values) == \E u, v \in values : Clash(u, v)

\* x is what values without a clash are joined to.
Encloses(x, values) ==
    /\ \A v \in values : v.depth <= x.depth /\ Widens(v.base, x.base)
    /\ values # {} => /\ \E v \in values : v.depth = x.depth
                      /\ \E v \in values : v.base = x.base

MixedInv ==
    \A s \in Samplers :
        /\ mixed[s] <=> Clashes(sampled[s])
        /\ ~mixed[s] => Encloses(shape[s], sampled[s])
        /\ sampled[s] = {} => shape[s] = Unknown
LEMMA ClashSymmetric == \A u, v : /\ Clash(u, v) <=> Clash(v, u)
                                  /\ Clash(u, v) \in BOOLEAN
  BY DEF Clash, MixesBase

LEMMA NoClashAlone == \A v \in Shapes : ~Clash(v, v)
  BY DEF Clash, Swallows, MixesBase, Widens, Shapes

\* Bases that widen to one base are a chain, and nothing widens Json.
LEMMA WidensChain ==
    /\ \A a, b, c \in Bases : Widens(a, c) /\ Widens(b, c) => Widens(a, b) \/ Widens(b, a)
    /\ \A a \in Bases : Widens("Json", a) => a = "Json"
    /\ \A a, b \in Bases : Widens(a, b) /\ Widens(b, a) => a = b
    /\ \A a \in Bases : Widens(a, a)
  BY DEF Widens, Bases

\* A join is reported exactly when the value clashes with one observed before.
LEMMA MixesWhenClashing ==
    ASSUME NEW values \in SUBSET Shapes, values # {}, ~Clashes(values),
           NEW x \in Shapes, Encloses(x, values), NEW v \in Shapes
    PROVE  mixes(x, v) <=> \E u \in values : Clash(u, v)
  <1> USE DEF Shapes
  <1>1. PICK d \in values : d.depth = x.depth
    BY DEF Encloses
  <1>2. PICK b \in values : b.base = x.base
    BY DEF Encloses
  <1>3. ASSUME Swallows(x, v) PROVE Swallows(b, v)
    BY <1>2, <1>3 DEF Swallows, Encloses
  <1>4. ASSUME Swallows(v, x) PROVE Swallows(v, d)
    BY <1>1, <1>4 DEF Swallows
  <1>5. ASSUME MixesBase(x.base, v.base) PROVE MixesBase(b.base, v.base)
    BY <1>2, <1>5
  <1>6. ASSUME NEW u \in values, Swallows(u, v) PROVE Swallows(x, v)
    <2>1. Widens(u.base, x.base) /\ u.base = "Json" /\ u.depth < v.depth /\ u.depth <= x.depth
      BY <1>6 DEF Encloses, Swallows
    <2>2. x.base = "Json"
      BY <2>1, WidensChain
    <2>3. ~Swallows(u, d)
      BY DEF Clashes, Clash
    <2>4. u.depth = x.depth
      BY <1>1, <2>1, <2>3 DEF Swallows
    <2>5. QED
      BY <2>1, <2>2, <2>4 DEF Swallows
  <1>7. ASSUME NEW u \in values, Swallows(v, u) PROVE Swallows(v, x)
    BY <1>7 DEF Swallows, Encloses
  <1>8. ASSUME NEW u \in values, MixesBase(u.base, v.base) PROVE MixesBase(x.base, v.base)
    <2>1. Widens(u.base, x.base) /\ u.base \in Bases /\ x.base \in Bases /\ v.base \in Bases
      BY DEF Encloses
    <2>2. ~Widens(x.base, v.base)
      BY <1>8, <2>1, WidensTransitive DEF MixesBase
    <2>3. ~Widens(v.base, x.base)
      BY <1>8, <2>1, WidensChain DEF MixesBase
    <2>4. QED
      BY <2>2, <2>3 DEF MixesBase
  <1>9. mixes(x, v) => \E u \in values : Clash(u, v)
    BY <1>3, <1>4, <1>5 DEF mixes, Clash
  <1>10. x = v => ~Swallows(x, v) /\ ~Swallows(v, x) /\ ~MixesBase(x.base, v.base)
    BY NoClashAlone DEF Clash
  <1>11. (\E u \in values : Clash(u, v)) => mixes(x, v)
    BY <1>6, <1>7, <1>8, <1>10 DEF mixes, Clash
  <1>12. QED
    BY <1>9, <1>11

\* An unreported join encloses what it was made of.
LEMMA UnmixedEncloses ==
    ASSUME NEW values \in SUBSET Shapes, values # {},
           NEW x \in Shapes, Encloses(x, values), NEW v \in Shapes, ~mixes(x, v)
    PROVE  Encloses(unify(x, v), values \cup {v})
  <1> USE DEF Shapes
  <1>1. ~Swallows(x, v) /\ ~Swallows(v, x) /\ ~MixesBase(x.base, v.base)
    <2>1. CASE x = v
      BY <2>1, NoClashAlone DEF Clash
    <2>2. CASE x # v
      BY <2>2 DEF mixes
    <2>3. QED
      BY <2>1, <2>2
  <1> DEFINE j == unify(x, v)
  <1>2. /\ j.depth = IF x.depth < v.depth THEN v.depth ELSE x.depth
        /\ j.base = JoinBase(x.base, v.base)
    BY <1>1 DEF unify, Shape
  <1>3. /\ Widens(x.base, j.base) /\ Widens(v.base, j.base) /\ j.base \in Bases
        /\ j.base \in {x.base, v.base}
    <2>1. j.base \in Bases /\ Widens(x.base, j.base) /\ Widens(v.base, j.base)
      BY <1>1, <1>2, UnmixedJoin, JoinClosed
    <2>2. JoinBase(x.base, v.base) \in {x.base, v.base}
      BY <1>1 DEF JoinBase, MixesBase
    <2>3. QED
      BY <1>2, <2>1, <2>2
  <1> HIDE DEF j
  <1>4. \A u \in values \cup {v} : u.depth <= j.depth /\ Widens(u.base, j.base)
    <2>1. ASSUME NEW u \in values PROVE u.depth <= j.depth /\ Widens(u.base, j.base)
      <3>1. u.depth <= x.depth /\ Widens(u.base, x.base) /\ u.base \in Bases /\ u.depth \in Nat
        BY DEF Encloses
      <3>2. QED
        BY <1>2, <1>3, <3>1, WidensTransitive
    <2>2. QED
      BY <1>2, <1>3, <2>1
  <1>5. \E u \in values \cup {v} : u.depth = j.depth
    BY <1>2 DEF Encloses
  <1>6. \E u \in values \cup {v} : u.base = j.base
    BY <1>3 DEF Encloses
  <1>7. QED
    BY <1>4, <1>5, <1>6 DEF Encloses, j

LEMMA MixedInvJoin ==
    ASSUME TypeOK, MixedInv, NEW s \in Samplers, NEW v \in Values, Joins(s, v)
    PROVE  /\ mixed'[s] <=> Clashes(sampled'[s])
           /\ ~mixed'[s] => Encloses(shape'[s], sampled'[s])
  <1> DEFINE values == sampled[s]
             x == shape[s]
  <1>1. values \in SUBSET Shapes /\ x \in Shapes /\ v \in Shapes
    BY ValuesAreShapes DEF TypeOK
  <1>2. sampled'[s] = values \cup {v} /\ mixed'[s] = (mixed[s] \/ mixes(x, v))
    BY DEF Joins
  <1>3. Clashes(values \cup {v}) <=> Clashes(values) \/ \E u \in values : Clash(u, v)
    BY <1>1, ClashSymmetric, NoClashAlone DEF Clashes
  <1>4. CASE values = {}
    <2>1. x = Unknown /\ ~mixed[s]
      BY <1>4 DEF MixedInv, Clashes
    <2>2. v.depth \in Nat /\ v.base \in Bases /\ v = Shape(v.depth, v.base)
      BY <1>1 DEF Shapes, Shape
    <2>3. ~mixes(x, v)
      BY <2>1, <2>2 DEF mixes, Swallows, MixesBase, Widens, Unknown, Shape
    <2>4. unify(x, v) = v
      <3>1. JoinBase("Unknown", v.base) = v.base
        BY <2>2, JoinLimits
      <3>2. x.depth = 0 /\ x.base = "Unknown"
        BY <2>1 DEF Unknown, Shape
      <3>3. ~Swallows(x, v) /\ ~Swallows(v, x)
        BY <2>2, <3>2 DEF Swallows
      <3>4. (IF x.depth < v.depth THEN v.depth ELSE x.depth) = v.depth
        BY <2>2, <3>2
      <3>5. QED
        BY <2>2, <3>1, <3>2, <3>3, <3>4 DEF unify
    <2>5. Encloses(v, {v})
      BY <2>2, WidensChain DEF Encloses
    <2>6. shape'[s] = v /\ sampled'[s] = {v}
      BY <1>2, <1>4, <2>4 DEF Joins
    <2>7. ~mixed'[s] /\ ~Clashes(sampled'[s])
      BY <1>2, <1>3, <1>4, <2>1, <2>3 DEF Clashes
    <2>8. QED
      BY <2>5, <2>6, <2>7
  <1>5. CASE values # {} /\ mixed[s]
    BY <1>2, <1>3, <1>5 DEF MixedInv
  <1>6. CASE values # {} /\ ~mixed[s]
    <2>1. ~Clashes(values) /\ Encloses(x, values)
      BY <1>6 DEF MixedInv
    <2>2. mixes(x, v) <=> \E u \in values : Clash(u, v)
      BY <1>1, <1>6, <2>1, MixesWhenClashing
    <2>3. mixed'[s] <=> Clashes(sampled'[s])
      BY <1>2, <1>3, <1>6, <2>1, <2>2
    <2>4. ~mixes(x, v) => Encloses(unify(x, v), values \cup {v})
      BY <1>1, <1>6, <2>1, UnmixedEncloses
    <2>5. QED
      BY <1>2, <2>3, <2>4 DEF Joins
  <1>7. QED
    BY <1>4, <1>5, <1>6

LEMMA MixedInvariant == Spec => []MixedInv
  <1>1. Init => MixedInv
    BY DEF Init, MixedInv, Clashes, Encloses
  <1>2. ASSUME TypeOK, MixedInv, [Next]_vars PROVE MixedInv'
    <2> SUFFICES ASSUME NEW s \in Samplers
                 PROVE  /\ mixed'[s] <=> Clashes(sampled'[s])
                        /\ ~mixed'[s] => Encloses(shape'[s], sampled'[s])
                        /\ sampled'[s] = {} => shape'[s] = Unknown
      BY DEF MixedInv
    <2>1. CASE Idles(s)
      BY <1>2, <2>1 DEF MixedInv, Idles
    <2>2. ASSUME NEW v \in Values, Joins(s, v) PROVE sampled'[s] # {}
      BY <2>2 DEF Joins
    <2>3. QED
      BY <1>2, <2>1, <2>2, MixedInvJoin, StepEffect
  <1>3. QED
    BY <1>1, <1>2, TypeCorrect, PTL DEF Spec

\* infer.rs:34-36, 157: the order in which the cursor returns the sample decides
\* neither whether the column is mixed nor, if it is not, its type, for arrays
\* of any depth: what a filter is trusted with does not vary from one inference
\* of the same documents to the next.
THEOREM MixingOrderIsIrrelevant == Spec => []UnmixedInAnyOrder
  <1>1. TypeOK /\ MixedInv => UnmixedInAnyOrder
    <2> SUFFICES ASSUME TypeOK, MixedInv, NEW s \in Samplers, NEW r \in Samplers,
                        sampled[s] = sampled[r]
                 PROVE  mixed[s] = mixed[r] /\ (~mixed[s] => shape[s] = shape[r])
      BY DEF UnmixedInAnyOrder
    <2> DEFINE values == sampled[s]
    <2>1. mixed[s] = mixed[r]
      <3>1. mixed[s] \in BOOLEAN /\ mixed[r] \in BOOLEAN
        BY DEF TypeOK
      <3>2. mixed[s] <=> mixed[r]
        BY DEF MixedInv
      <3>3. QED
        BY <3>1, <3>2
    <2>2. ASSUME ~mixed[s] PROVE shape[s] = shape[r]
      <3>1. values \in SUBSET Shapes /\ shape[s] \in Shapes /\ shape[r] \in Shapes
        BY ValuesAreShapes DEF TypeOK
      <3>2. CASE values = {}
        BY <3>2 DEF MixedInv
      <3>3. CASE values # {}
        <4>1. Encloses(shape[s], values) /\ Encloses(shape[r], values)
          BY <2>1, <2>2 DEF MixedInv
        <4>2. shape[s].depth = shape[r].depth
          BY <3>1, <3>3, <4>1 DEF Encloses, Shapes
        <4>3. Widens(shape[s].base, shape[r].base) /\ Widens(shape[r].base, shape[s].base)
          BY <3>3, <4>1 DEF Encloses
        <4>4. shape[s].base = shape[r].base
          BY <3>1, <4>3, WidensChain DEF Shapes
        <4>5. QED
          BY <3>1, <4>2, <4>4 DEF Shapes
      <3>4. QED
        BY <3>2, <3>3
    <2>3. QED
      BY <2>1, <2>2
  <1>2. QED
    BY <1>1, MixedInvariant, TypeCorrect, PTL
-------------------------------------------------------------------------------
(***************************************************************************)
(* Which joins of three shapes may be bracketed as one likes.              *)
(***************************************************************************)

LEMMA JoinAssociates ==
    \A a, b, c \in Bases : JoinBase(JoinBase(a, b), c) = JoinBase(a, JoinBase(b, c))
  <1> SUFFICES ASSUME NEW a \in Bases, NEW b \in Bases, NEW c \in Bases
               PROVE  JoinBase(JoinBase(a, b), c) = JoinBase(a, JoinBase(b, c))
    OBVIOUS
  <1> DEFINE l == JoinBase(JoinBase(a, b), c)
             r == JoinBase(a, JoinBase(b, c))
  <1>1. l \in Bases /\ r \in Bases /\ JoinBase(a, b) \in Bases /\ JoinBase(b, c) \in Bases
    BY JoinClosed
  <1>2. Le(a, l) /\ Le(b, l) /\ Le(c, l)
    BY <1>1, JoinUpper, LeTransitive
  <1>3. Le(a, r) /\ Le(b, r) /\ Le(c, r)
    BY <1>1, JoinUpper, LeTransitive
  <1>4. Le(l, r) /\ Le(r, l)
    BY <1>1, <1>2, <1>3, JoinLeast
  <1>5. QED
    BY <1>1, <1>4, LeAntisymmetric

\* Without a Json, or at one depth, unify() joins depths and bases separately.
LEMMA UnifySeparately ==
    ASSUME NEW x \in Shapes, NEW y \in Shapes,
           x.depth = y.depth \/ (x.base # "Json" /\ y.base # "Json")
    PROVE  unify(x, y) = Shape(IF x.depth < y.depth THEN y.depth ELSE x.depth,
                               JoinBase(x.base, y.base))
  BY DEF unify, Swallows, Shapes

\* infer.rs:157: "associative" holds of shapes of one depth, scalars among them,
\* and of shapes whose bases have a join short of Json, for arrays of any depth.
THEOREM UnifyAssociates ==
    \A x, y, z \in Shapes :
        \/ x.depth = y.depth /\ y.depth = z.depth
        \/ JoinBase(JoinBase(x.base, y.base), z.base) # "Json"
        => unify(unify(x, y), z) = unify(x, unify(y, z))
  <1> SUFFICES ASSUME NEW x \in Shapes, NEW y \in Shapes, NEW z \in Shapes,
                      \/ x.depth = y.depth /\ y.depth = z.depth
                      \/ JoinBase(JoinBase(x.base, y.base), z.base) # "Json"
               PROVE  unify(unify(x, y), z) = unify(x, unify(y, z))
    OBVIOUS
  <1> DEFINE deeper(m, n) == IF m < n THEN n ELSE m
             xy == Shape(deeper(x.depth, y.depth), JoinBase(x.base, y.base))
             yz == Shape(deeper(y.depth, z.depth), JoinBase(y.base, z.base))
  <1>1. /\ x.depth \in Nat /\ y.depth \in Nat /\ z.depth \in Nat
        /\ x.base \in Bases /\ y.base \in Bases /\ z.base \in Bases
    BY DEF Shapes
  <1>2. xy \in Shapes /\ yz \in Shapes
    BY <1>1, JoinClosed DEF Shapes, Shape
  <1>3. \/ x.depth = y.depth /\ y.depth = z.depth
        \/ "Json" \notin {x.base, y.base, z.base, xy.base, yz.base}
    <2>1. ASSUME JoinBase(JoinBase(x.base, y.base), z.base) # "Json"
          PROVE  "Json" \notin {x.base, y.base, z.base, xy.base, yz.base}
      BY <1>1, <2>1, JoinLimits, JoinCommutes, JoinAssociates, JoinClosed DEF Shape
    <2>2. QED
      BY <2>1
  <1>4. unify(x, y) = xy /\ unify(y, z) = yz
    BY <1>3, UnifySeparately
  <1>5. unify(xy, z) = Shape(deeper(xy.depth, z.depth), JoinBase(xy.base, z.base))
    BY <1>1, <1>2, <1>3, UnifySeparately DEF Shape
  <1>6. unify(x, yz) = Shape(deeper(x.depth, yz.depth), JoinBase(x.base, yz.base))
    BY <1>1, <1>2, <1>3, UnifySeparately DEF Shape
  <1>7. deeper(xy.depth, z.depth) = deeper(x.depth, yz.depth)
    BY <1>1 DEF Shape
  <1>8. JoinBase(xy.base, z.base) = JoinBase(x.base, yz.base)
    BY <1>1, JoinAssociates DEF Shape
  <1>9. QED
    BY <1>4, <1>5, <1>6, <1>7, <1>8

\* infer.rs:157: and of no more. A number, a string and an array of numbers are
\* joined to Json or to an array of it, depending on which two meet first.
THEOREM UnifyDoesNotAssociate ==
    \E x, y, z \in Shapes : unify(unify(x, y), z) # unify(x, unify(y, z))
  <1> DEFINE number == Shape(0, "Int32")
             text == Shape(0, "Utf8")
             list == Shape(1, "Int32")
  <1>1. number \in Shapes /\ text \in Shapes /\ list \in Shapes
    BY DEF Shape, Shapes, Bases
  <1>2. unify(number, text) = Shape(0, "Json") /\ unify(text, list) = Shape(1, "Json")
    BY DEF unify, Swallows, Shape, JoinBase, Widens, Coerces
  <1>3. unify(Shape(0, "Json"), list) = Shape(0, "Json")
    BY DEF unify, Swallows, Shape
  <1>4. unify(number, Shape(1, "Json")) = Shape(1, "Json")
    BY DEF unify, Swallows, Shape, JoinBase, Widens, Coerces
  <1>5. Shape(0, "Json") # Shape(1, "Json")
    BY DEF Shape
  <1>6. QED
    BY <1>1, <1>2, <1>3, <1>4, <1>5
===============================================================================
