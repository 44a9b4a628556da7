--------------------------- MODULE SchemaTreeProofs ---------------------------
(***************************************************************************)
(* Proofs about SchemaTree: what it promises of every collection of        *)
(* documents, whatever their fields and however deeply they are nested.    *)
(*                                                                         *)
(* SchemaTree's definitions call themselves through constants, and         *)
(* Recursion says that each of these is its definition, which is what the  *)
(* configuration assigns.  Inductions are over the levels of the values or *)
(* of the columns: LevelInduction.                                         *)
(***************************************************************************)
EXTENDS SchemaTree, FiniteSetTheorems, FunctionTheorems, SequenceTheorems, WellFoundedInduction, TLAPS

\* The constants that stand for the recursive calls are the definitions.
UnifyEq == \A a, b : unify_(a, b) = unify(a, b)
ShapeOfEq == (\A v : shape_of_(v) = shape_of(v)) /\ \A items : \A n \in Nat : joined_(items, n) = joined(items, n)
ArrowTypeEq == \A s, path, depth : arrow_type_(s, path, depth) = arrow_type(s, path, depth)
StoredEq == (\A f : from_arrow_(f) = from_arrow(f)) /\ \A s : to_arrow_(s) = to_arrow(s)
WithinEq == \A s, n : Within_(s, n) <=> Within(s, n)
LookupEq == \A v, path : lookup_path_(v, path) = lookup_path(v, path)
DecodeEq == \A type, v : decode_(type, v) = decode(type, v)
JsonEq == \A c : value_to_json_(c) = value_to_json(c)
IsValueEq == \A v, d, n : IsValue_(v, d, n) <=> IsValue(v, d, n)
WellFormedEq == \A s, d, n : WellFormed_(s, d, n) <=> WellFormed(s, d, n)
NestsWithinEq == \A type, n : NestsWithin_(type, n) <=> NestsWithin(type, n)
CarriesEq == \A json, v : Carries_(json, v) <=> Carries(json, v)
TrustedEq == \A field, values : Trusted_(field, values) <=> Trusted(field, values)
CountedEq == \A s, vs : Counted_(s, vs) <=> Counted(s, vs)
FitsEq == \A s, v, m : Fits_(s, v, m) <=> Fits(s, v, m)
LevelsEq == \A s : Depth_(s) = Depth(s) /\ Base_(s) = Base(s)

Recursion ==
    /\ UnifyEq /\ ShapeOfEq /\ ArrowTypeEq /\ StoredEq /\ WithinEq /\ LookupEq /\ DecodeEq
    /\ JsonEq /\ IsValueEq /\ WellFormedEq /\ NestsWithinEq /\ CarriesEq /\ TrustedEq
    /\ CountedEq /\ FitsEq /\ LevelsEq
-------------------------------------------------------------------------------
(***************************************************************************)
(* Induction over levels.                                                  *)
(***************************************************************************)

\* A set that holds a natural number whenever it holds the smaller ones holds them all.
LEMMA NatSetInduction ==
    ASSUME NEW S, \A n \in Nat : (\A m \in 0 .. n - 1 : m \in S) => n \in S
    PROVE  Nat \subseteq S
<1> DEFINE T == Nat \ S
<1> SUFFICES ASSUME T # {} PROVE FALSE
    OBVIOUS
<1> DEFINE R == OpToRel(<, Nat)
<1>1. IsWellFoundedOn(R, Nat)
    BY NatLessThanWellFounded
<1>2. T \subseteq Nat
    OBVIOUS
<1>3. \E x \in T : \A y \in T : ~(<<y, x>> \in R)
    <2> HIDE DEF T, R
    <2> QED BY <1>1, <1>2, WFMin
<1>4. PICK x \in T : \A y \in T : ~(<<y, x>> \in R)
    BY <1>3
<1>5. \A m \in 0 .. x - 1 : m \in S
    <2> SUFFICES ASSUME NEW m \in 0 .. x - 1, m \notin S PROVE FALSE
        OBVIOUS
    <2>1. m \in Nat /\ m < x /\ x \in Nat
        OBVIOUS
    <2>2. <<m, x>> \in R
        BY <2>1 DEF OpToRel
    <2> QED BY <2>1, <2>2, <1>4
<1> QED BY <1>4, <1>5

\* The same of pairs: the levels of documents first, the levels of arrays inside one
\* document second.
LEMMA LevelInduction ==
    ASSUME NEW S,
           \A d, n \in Nat :
              /\ d > 0 => \A m \in Nat : <<d - 1, m>> \in S
              /\ n > 0 => <<d, n - 1>> \in S
              => <<d, n>> \in S
    PROVE  \A d, n \in Nat : <<d, n>> \in S
<1> DEFINE D == {d \in Nat : \A n \in Nat : <<d, n>> \in S}
<1>1. ASSUME NEW d \in Nat, \A e \in 0 .. d - 1 : e \in D
      PROVE  d \in D
    <2>1. d > 0 => \A m \in Nat : <<d - 1, m>> \in S
        BY <1>1
    <2> DEFINE N == {n \in Nat : <<d, n>> \in S}
    <2>2. ASSUME NEW n \in Nat, \A m \in 0 .. n - 1 : m \in N
          PROVE  n \in N
        <3>1. n > 0 => n - 1 \in N
            BY <2>2
        <3>2. n > 0 => <<d, n - 1>> \in S
            BY <3>1
        <3>3. <<d, n>> \in S
            BY <2>1, <3>2
        <3> QED BY <3>3
    <2>3. Nat \subseteq N
        <3> HIDE DEF N
        <3> QED BY <2>2, NatSetInduction
    <2> QED BY <2>3
<1>2. Nat \subseteq D
    <2> HIDE DEF D
    <2> QED BY <1>1, NatSetInduction
<1> QED BY <1>2
-------------------------------------------------------------------------------
(***************************************************************************)
(* unify(): its cases, and that what it makes of shapes is one.            *)
(***************************************************************************)

\* A shape, or a value, by its kind.
Kinded(s) == s.k \in {"Document", "Array"} \/ Leaf(s)

\* JoinKinds() of two scalars is a scalar that takes what either took, and stays in
\* their family where it is not reported to mix.
LEMMA JoinKindsOfScalars ==
    ASSUME NEW x \in Scalars \ {"Json"}, NEW y \in Scalars \ {"Json"}, x # y,
           NEW J, J = JoinKinds({x, y}), J # "Json"
    PROVE  /\ J \in Scalars
           /\ Takes(x) \subseteq Takes(J) /\ Takes(y) \subseteq Takes(J)
           /\ {x, y} # {"ObjectId", "Utf8"} => Family(x) = Family(J) /\ Family(y) = Family(J)
<1> DEFINE K == {x, y}
<1>1. CASE K = {"Int32", "Int64"}
    <2>1. J = "Int64" /\ x \in {"Int32", "Int64"} /\ y \in {"Int32", "Int64"}
        BY <1>1 DEF JoinKinds
    <2> QED BY <2>1 DEF Takes, Family, Scalars
<1>2. CASE K \in {{n, "Double"} : n \in {"Int32", "Int64"}}
    <2>1. K # {"Int32", "Int64"} /\ x \in {"Int32", "Int64", "Double"} /\ y \in {"Int32", "Int64", "Double"}
        BY <1>2
    <2>2. J = "Double"
        BY <1>2, <2>1 DEF JoinKinds
    <2> QED BY <2>1, <2>2 DEF Takes, Family, Scalars
<1>3. CASE K \in {{n, "Decimal"} : n \in {"Int32", "Int64", "Double"}}
    <2>1. /\ K # {"Int32", "Int64"} /\ K \notin {{n, "Double"} : n \in {"Int32", "Int64"}}
          /\ x \in {"Int32", "Int64", "Double", "Decimal"} /\ y \in {"Int32", "Int64", "Double", "Decimal"}
        BY <1>3
    <2>2. J = "Decimal"
        BY <1>3, <2>1 DEF JoinKinds
    <2> QED BY <2>1, <2>2 DEF Takes, Family, Scalars
<1>4. CASE K = {"ObjectId", "Utf8"}
    <2>1. x \in {"ObjectId", "Utf8"} /\ y \in {"ObjectId", "Utf8"}
        BY <1>4
    <2>2. /\ K # {"Int32", "Int64"} /\ K \notin {{n, "Double"} : n \in {"Int32", "Int64"}}
          /\ K \notin {{n, "Decimal"} : n \in {"Int32", "Int64", "Double"}}
        BY <1>4
    <2>3. J = "Utf8"
        BY <1>4, <2>2 DEF JoinKinds
    <2> QED BY <1>4, <2>1, <2>3 DEF Takes, Scalars
<1>5. CASE K = {"DateTime", "BsonTimestamp"}
    <2>1. x \in {"DateTime", "BsonTimestamp"} /\ y \in {"DateTime", "BsonTimestamp"}
        BY <1>5
    <2>2. /\ K # {"Int32", "Int64"} /\ K \notin {{n, "Double"} : n \in {"Int32", "Int64"}}
          /\ K \notin {{n, "Decimal"} : n \in {"Int32", "Int64", "Double"}} /\ K # {"ObjectId", "Utf8"}
        BY <1>5
    <2>3. J = "DateTime"
        BY <1>5, <2>2 DEF JoinKinds
    <2> QED BY <2>1, <2>3 DEF Takes, Family, Scalars
<1>6. CASE /\ K # {"Int32", "Int64"} /\ K \notin {{n, "Double"} : n \in {"Int32", "Int64"}}
           /\ K \notin {{n, "Decimal"} : n \in {"Int32", "Int64", "Double"}} /\ K # {"ObjectId", "Utf8"}
           /\ K # {"DateTime", "BsonTimestamp"}
    BY <1>6 DEF JoinKinds
<1> QED BY <1>1, <1>2, <1>3, <1>4, <1>5, <1>6

\* A document and a scalar are joined into text.
LEMMA JoinKindsOfDocument ==
    ASSUME NEW kinds, "Document" \in kinds
    PROVE  JoinKinds(kinds) = "Json"
<1>1. kinds # {"Int32", "Int64"} /\ kinds # {"ObjectId", "Utf8"} /\ kinds # {"DateTime", "BsonTimestamp"}
    OBVIOUS
<1>2. kinds \notin {{n, "Double"} : n \in {"Int32", "Int64"}}
    OBVIOUS
<1>3. kinds \notin {{n, "Decimal"} : n \in {"Int32", "Int64", "Double"}}
    OBVIOUS
<1> QED BY <1>1, <1>2, <1>3 DEF JoinKinds

\* The ways through unify().  Equal shapes, or nothing on one side:
Keeps(a, b) ==
    \/ a = b /\ unify(a, b) = Joined(a, FALSE)
    \/ a = Null /\ unify(a, b) = Joined(b, FALSE)
    \/ b = Null /\ unify(a, b) = Joined(a, FALSE)

\* values that become text:
JoinsToText(a, b) ==
    /\ a # b /\ a # Null /\ b # Null /\ unify(a, b) = Joined(Json, TRUE)
    /\ \/ "Json" \in {a.k, b.k}
       \/ a.k # b.k /\ "Array" \notin {a.k, b.k} /\ JoinKinds({a.k, b.k}) = "Json"

\* an array's elements x with another's, or with a shape that is no array, y:
JoinsItems(a, b, x, y) ==
    /\ unify(a, b) = ArrayOf(unify_(x, y))
    /\ \/ a.k = "Array" /\ x = a.of /\ b.k = "Array" /\ y = b.of
       \/ a.k = "Array" /\ x = a.of /\ b.k \in {"Document"} \cup (Scalars \ {"Json"}) /\ y = b
       \/ b.k = "Array" /\ x = b.of /\ a.k \in {"Document"} \cup (Scalars \ {"Json"}) /\ y = a

\* two documents:
JoinsFields(a, b) ==
    /\ a.k = "Document" /\ b.k = "Document"
    /\ unify(a, b) = Joined([k |-> "Document", fields |-> Merge(a.fields, b.fields)], FALSE)

\* and two scalars with a type that holds both.
JoinsScalars(a, b) ==
    \E x, y \in Scalars \ {"Json"} :
        /\ x # y /\ a = [k |-> x] /\ b = [k |-> y] /\ JoinKinds({x, y}) # "Json"
        /\ unify(a, b) = Joined([k |-> JoinKinds({x, y})], {x, y} = {"ObjectId", "Utf8"})

\* There are no others.
LEMMA UnifyCases ==
    ASSUME NEW a, NEW b, Kinded(a), Kinded(b)
    PROVE  \/ Keeps(a, b) \/ JoinsToText(a, b) \/ (\E x, y : JoinsItems(a, b, x, y))
           \/ JoinsFields(a, b) \/ JoinsScalars(a, b)
<1>1. CASE a = b \/ a = Null \/ b = Null
    BY <1>1 DEF unify, Keeps
<1>2. CASE ~(a = b \/ a = Null \/ b = Null) /\ "Json" \in {a.k, b.k}
    BY <1>2 DEF unify, JoinsToText
<1> DEFINE Kinds == {"Document"} \cup (Scalars \ {"Json"})
<1>3. ASSUME NEW s, Kinded(s), s # Null, s.k # "Json", s.k # "Array"
      PROVE  s.k \in Kinds /\ (s.k # "Document" => s = [k |-> s.k])
    BY <1>3 DEF Kinded, Leaf, Null, Scalars
<1>4. CASE ~(a = b \/ a = Null \/ b = Null) /\ "Json" \notin {a.k, b.k} /\ "Array" \in {a.k, b.k}
    <2>1. unify(a, b) = JoinArray(a, b)
        BY <1>4 DEF unify
    <2>2. CASE a.k = "Array" /\ b.k = "Array"
        <3>1. JoinsItems(a, b, a.of, b.of)
            BY <2>1, <2>2 DEF JoinArray, JoinsItems
        <3> QED BY <3>1
    <2>3. CASE a.k = "Array" /\ b.k # "Array"
        <3>1. JoinsItems(a, b, a.of, b)
            BY <1>4, <2>1, <2>3, <1>3 DEF JoinArray, JoinsItems
        <3> QED BY <3>1
    <2>4. CASE a.k # "Array" /\ b.k = "Array"
        <3>1. JoinsItems(a, b, b.of, a)
            BY <1>4, <2>1, <2>4, <1>3 DEF JoinArray, JoinsItems
        <3> QED BY <3>1
    <2> QED BY <1>4, <2>2, <2>3, <2>4
<1>5. CASE ~(a = b \/ a = Null \/ b = Null) /\ "Json" \notin {a.k, b.k} /\ "Array" \notin {a.k, b.k}
    <2>1. a.k \in Kinds /\ b.k \in Kinds /\ (a.k # "Document" => a = [k |-> a.k])
          /\ (b.k # "Document" => b = [k |-> b.k])
        BY <1>3, <1>5
    <2>2. CASE a.k = "Document" /\ b.k = "Document"
        BY <1>5, <2>2 DEF unify, JoinsFields
    <2>3. CASE "Document" \in {a.k, b.k} /\ {a.k, b.k} # {"Document"}
        <3>1. unify(a, b) = Joined([k |-> JoinKinds({a.k, b.k})],
                    JoinKinds({a.k, b.k}) = "Json" \/ {a.k, b.k} = {"ObjectId", "Utf8"})
            BY <1>5, <2>3 DEF unify
        <3>2. JoinKinds({a.k, b.k}) = "Json"
            BY <2>3, JoinKindsOfDocument
        <3>3. a.k # b.k
            BY <2>3
        <3>4. unify(a, b) = Joined(Json, TRUE)
            BY <3>1, <3>2 DEF Joined, Json
        <3>5. JoinsToText(a, b)
            BY <1>5, <3>2, <3>3, <3>4 DEF JoinsToText
        <3> QED BY <3>5
    <2>4. CASE "Document" \notin {a.k, b.k}
        <3>1. unify(a, b) = Joined([k |-> JoinKinds({a.k, b.k})],
                    JoinKinds({a.k, b.k}) = "Json" \/ {a.k, b.k} = {"ObjectId", "Utf8"})
            BY <1>5, <2>4 DEF unify
        <3>2. a.k # b.k
            BY <1>5, <2>1, <2>4
        <3>3. CASE JoinKinds({a.k, b.k}) = "Json"
            <4>1. unify(a, b) = Joined(Json, TRUE)
                BY <3>1, <3>3 DEF Joined, Json
            <4>2. JoinsToText(a, b)
                BY <1>5, <3>2, <3>3, <4>1 DEF JoinsToText
            <4> QED BY <4>2
        <3>4. CASE JoinKinds({a.k, b.k}) # "Json"
            <4>1. unify(a, b) = Joined([k |-> JoinKinds({a.k, b.k})], {a.k, b.k} = {"ObjectId", "Utf8"})
                BY <3>1, <3>4
            <4>2. a.k \in Scalars \ {"Json"} /\ b.k \in Scalars \ {"Json"} /\ a = [k |-> a.k] /\ b = [k |-> b.k]
                BY <2>1, <2>4
            <4> QED BY <4>1, <4>2, <3>2, <3>4 DEF JoinsScalars
        <3> QED BY <3>3, <3>4
    <2> QED BY <2>1, <2>2, <2>3, <2>4
<1> QED BY <1>1, <1>2, <1>4, <1>5
\* A slot inside d levels of documents.
SlotWellFormed(slot, d) ==
    /\ WellFormed(slot.shape, d, MaxLevels)
    /\ slot.present \in Nat \ {0}
    /\ slot.nulls \in 0 .. slot.present
    /\ slot.mixed \in BOOLEAN

\* WellFormed by the kind of shape.
LEMMA WellFormedParts ==
    ASSUME WellFormedEq, NEW s, NEW d \in Nat, NEW n \in Nat, WellFormed(s, d, n)
    PROVE  /\ Kinded(s)
           /\ s.k = "Array" => n > 0 /\ n - 1 \in Nat /\ WellFormed(s.of, d, n - 1)
           /\ s.k = "Document" => /\ d > 0 /\ d - 1 \in Nat
                                  /\ \A f \in DOMAIN s.fields : SlotWellFormed(s.fields[f], d - 1)
           /\ s.k # "Array" => \A m \in Nat : WellFormed(s, d, m)
<1>1. Kinded(s)
    BY DEF WellFormed, Kinded
<1>2. ASSUME s.k = "Array" PROVE n > 0 /\ n - 1 \in Nat /\ WellFormed(s.of, d, n - 1)
    BY <1>2 DEF WellFormed, WellFormedEq, Leaf, Scalars
<1>3. ASSUME s.k = "Document"
      PROVE  /\ d > 0 /\ d - 1 \in Nat
             /\ \A f \in DOMAIN s.fields : SlotWellFormed(s.fields[f], d - 1)
    BY <1>3 DEF WellFormed, WellFormedEq, Leaf, Scalars, SlotWellFormed
<1>4. ASSUME s.k # "Array", NEW m \in Nat PROVE WellFormed(s, d, m)
    BY <1>4 DEF WellFormed
<1> QED BY <1>1, <1>2, <1>3, <1>4

LEMMA WellFormedWhole ==
    ASSUME WellFormedEq, NEW d \in Nat, NEW n \in Nat
    PROVE  /\ \A k \in Scalars \cup {"Unknown"} : WellFormed([k |-> k], d, n)
           /\ \A x : n > 0 /\ WellFormed(x, d, n - 1) => WellFormed([k |-> "Array", of |-> x], d, n)
           /\ \A F : d > 0 /\ (\A f \in DOMAIN F : SlotWellFormed(F[f], d - 1))
                        => WellFormed([k |-> "Document", fields |-> F], d, n)
<1>1. \A k \in Scalars \cup {"Unknown"} : WellFormed([k |-> k], d, n)
    BY DEF WellFormed, Leaf
<1>2. \A x : n > 0 /\ WellFormed(x, d, n - 1) => WellFormed([k |-> "Array", of |-> x], d, n)
    BY DEF WellFormed, WellFormedEq
<1>3. ASSUME NEW F, d > 0, \A f \in DOMAIN F : SlotWellFormed(F[f], d - 1),
             NEW s, s = [k |-> "Document", fields |-> F]
      PROVE  WellFormed(s, d, n)
    <2>1. s.k = "Document" /\ s.fields = F
        BY <1>3
    <2>2. \A f \in DOMAIN s.fields : SlotWellFormed(s.fields[f], d - 1)
        BY <1>3, <2>1
    <2> QED BY <1>3, <2>1, <2>2 DEF WellFormed, WellFormedEq, SlotWellFormed
<1> QED BY <1>1, <1>2, <1>3

\* unify() makes a shape of two, no deeper than the deeper one.
LEMMA UnifyWellFormed ==
    ASSUME UnifyEq, WellFormedEq
    PROVE  \A d, n \in Nat : \A a, b :
              WellFormed(a, d, n) /\ WellFormed(b, d, n)
              => WellFormed(unify(a, b).shape, d, n) /\ unify(a, b).mixed \in BOOLEAN
<1> DEFINE P(d, n) == \A a, b : WellFormed(a, d, n) /\ WellFormed(b, d, n)
                        => WellFormed(unify(a, b).shape, d, n) /\ unify(a, b).mixed \in BOOLEAN
           S == {p \in Nat \X Nat : P(p[1], p[2])}
<1>1. ASSUME NEW d \in Nat, NEW n \in Nat,
             d > 0 => \A m \in Nat : P(d - 1, m),
             n > 0 => P(d, n - 1)
      PROVE  P(d, n)
    <2> SUFFICES ASSUME NEW a, NEW b, WellFormed(a, d, n), WellFormed(b, d, n)
                 PROVE  WellFormed(unify(a, b).shape, d, n) /\ unify(a, b).mixed \in BOOLEAN
        OBVIOUS
    <2>1. /\ Kinded(a) /\ Kinded(b)
          /\ a.k = "Array" => n > 0 /\ WellFormed(a.of, d, n - 1)
          /\ b.k = "Array" => n > 0 /\ WellFormed(b.of, d, n - 1)
          /\ a.k # "Array" /\ n > 0 => WellFormed(a, d, n - 1)
          /\ b.k # "Array" /\ n > 0 => WellFormed(b, d, n - 1)
        BY WellFormedParts
    <2>2. CASE Keeps(a, b)
        <3>1. unify(a, b).shape \in {a, b} /\ unify(a, b).mixed = FALSE
            BY <2>2 DEF Joined, Keeps
        <3> QED BY <3>1
    <2>3. CASE JoinsToText(a, b)
        <3>1. unify(a, b).shape = [k |-> "Json"] /\ unify(a, b).mixed = TRUE
            BY <2>3 DEF Joined, Json, JoinsToText
        <3> QED BY <3>1, WellFormedWhole DEF Scalars
    <2>4. ASSUME NEW x, NEW y, JoinsItems(a, b, x, y)
          PROVE  WellFormed(unify(a, b).shape, d, n) /\ unify(a, b).mixed \in BOOLEAN
        <3>1. "Document" # "Array" /\ "Array" \notin Scalars
            BY DEF Scalars
        <3>2. n > 0 /\ WellFormed(x, d, n - 1) /\ WellFormed(y, d, n - 1)
            BY <2>1, <2>4, <3>1 DEF JoinsItems
        <3>3. WellFormed(unify(x, y).shape, d, n - 1) /\ unify(x, y).mixed \in BOOLEAN
            BY <1>1, <3>2
        <3>4. unify(a, b).shape = [k |-> "Array", of |-> unify(x, y).shape] /\ unify(a, b).mixed = unify(x, y).mixed
            BY <2>4 DEF ArrayOf, Joined, UnifyEq, JoinsItems
        <3> QED BY <3>3, <3>4, <3>2, WellFormedWhole
    <2>5. CASE JoinsFields(a, b)
        <3> DEFINE M == Merge(a.fields, b.fields)
        <3>1. /\ d > 0 /\ d - 1 \in Nat
              /\ \A f \in DOMAIN a.fields : SlotWellFormed(a.fields[f], d - 1)
              /\ \A f \in DOMAIN b.fields : SlotWellFormed(b.fields[f], d - 1)
            BY <2>5, WellFormedParts DEF JoinsFields
        <3>2. ASSUME NEW f \in DOMAIN a.fields, f \in DOMAIN b.fields
              PROVE  SlotWellFormed(M[f], d - 1)
            <4> DEFINE r == unify(a.fields[f].shape, b.fields[f].shape)
            <4>1. /\ M[f].shape = r.shape
                  /\ M[f].present = a.fields[f].present + b.fields[f].present
                  /\ M[f].nulls = a.fields[f].nulls + b.fields[f].nulls
                  /\ M[f].mixed = (a.fields[f].mixed \/ b.fields[f].mixed \/ r.mixed)
                BY <3>2 DEF Merge, UnifyEq
            <4> HIDE DEF M
            <4>2. /\ WellFormed(a.fields[f].shape, d - 1, MaxLevels)
                  /\ WellFormed(b.fields[f].shape, d - 1, MaxLevels)
                  /\ a.fields[f].present \in Nat \ {0} /\ b.fields[f].present \in Nat \ {0}
                  /\ a.fields[f].nulls \in 0 .. a.fields[f].present
                  /\ b.fields[f].nulls \in 0 .. b.fields[f].present
                BY <3>1, <3>2 DEF SlotWellFormed
            <4>3. WellFormed(r.shape, d - 1, MaxLevels)
                BY <1>1, <3>1, <4>2, SchemaTreeAssumption
            <4> HIDE DEF r
            <4>4. M[f].mixed \in BOOLEAN
                BY <4>1
            <4>5. M[f].present \in Nat \ {0} /\ M[f].nulls \in 0 .. M[f].present
                BY <4>1, <4>2
            <4> QED BY <4>1, <4>3, <4>4, <4>5 DEF SlotWellFormed
        <3>3. ASSUME NEW f \in DOMAIN M
              PROVE  SlotWellFormed(M[f], d - 1)
            <4>1. f \in DOMAIN a.fields \/ f \in DOMAIN b.fields
                BY DEF Merge
            <4>2. f \notin DOMAIN b.fields => M[f] = a.fields[f]
                BY DEF Merge
            <4>3. f \notin DOMAIN a.fields => M[f] = b.fields[f]
                BY <4>1 DEF Merge
            <4> HIDE DEF M
            <4> QED BY <3>1, <3>2, <4>1, <4>2, <4>3
        <3>4. unify(a, b).shape = [k |-> "Document", fields |-> M] /\ unify(a, b).mixed = FALSE
            BY <2>5 DEF Joined, JoinsFields
        <3> HIDE DEF M
        <3> QED BY <3>1, <3>3, <3>4, WellFormedWhole
    <2>6. CASE JoinsScalars(a, b)
        <3> PICK x \in Scalars \ {"Json"}, y \in Scalars \ {"Json"} :
                 /\ x # y /\ a = [k |-> x] /\ b = [k |-> y] /\ JoinKinds({x, y}) # "Json"
                 /\ unify(a, b) = Joined([k |-> JoinKinds({x, y})], {x, y} = {"ObjectId", "Utf8"})
            BY <2>6 DEF JoinsScalars
        <3>1. JoinKinds({x, y}) \in Scalars
            BY JoinKindsOfScalars
        <3>2. unify(a, b).shape = [k |-> JoinKinds({x, y})]
              /\ unify(a, b).mixed = ({x, y} = {"ObjectId", "Utf8"})
            BY DEF Joined
        <3>3. unify(a, b).mixed \in BOOLEAN
            BY <3>2
        <3> QED BY <3>1, <3>2, <3>3, WellFormedWhole
    <2> QED BY <2>1, <2>2, <2>3, <2>4, <2>5, <2>6, UnifyCases
<1>2. \A d, n \in Nat : <<d, n>> \in S
    <2>1. ASSUME NEW d \in Nat, NEW n \in Nat,
                 d > 0 => \A m \in Nat : <<d - 1, m>> \in S,
                 n > 0 => <<d, n - 1>> \in S
          PROVE  <<d, n>> \in S
        <3> HIDE DEF P
        <3> QED BY <1>1, <2>1
    <2> HIDE DEF S
    <2> QED BY <2>1, LevelInduction
<1> QED BY <1>2
-------------------------------------------------------------------------------
(***************************************************************************)
(* shape_of() and observe_value().                                         *)
(***************************************************************************)

\* What IsValue says of the parts of a value.
LEMMA IsValueParts ==
    ASSUME IsValueEq, NEW v, NEW d \in Nat, NEW n \in Nat, IsValue(v, d, n)
    PROVE  /\ Kinded(v)
           /\ v.k = "Array" =>
                 /\ n > 0 /\ Len(v.items) \in Nat /\ DOMAIN v.items = 1 .. Len(v.items)
                 /\ \A i \in DOMAIN v.items : IsValue(v.items[i], d, n - 1)
           /\ v.k = "Document" =>
                 d > 0 /\ \A f \in DOMAIN v.fields : IsValue(v.fields[f], d - 1, MaxLevels)
BY DEF IsValue, IsValueEq, Kinded, Leaf, Scalars

\* A slot that is observed first takes the value's shape.
LEMMA ObserveFirst ==
    ASSUME ShapeOfEq, NEW v
    PROVE  /\ observe_value(Empty, v).shape = shape_of(v)
           /\ observe_value(Empty, v).present = 1
           /\ observe_value(Empty, v).nulls \in 0 .. 1
           /\ observe_value(Empty, v).mixed = FALSE
<1>1. Empty.shape = Null /\ Empty.present = 0 /\ Empty.nulls = 0 /\ Empty.mixed = FALSE
    BY DEF Empty
<1>2. unify(Null, shape_of(v)).shape = shape_of(v) /\ unify(Null, shape_of(v)).mixed = FALSE
    BY DEF unify, Joined
<1>3. /\ observe_value(Empty, v).shape = unify(Null, shape_of(v)).shape
      /\ observe_value(Empty, v).present = 0 + 1
      /\ observe_value(Empty, v).nulls = IF v = Null THEN 0 + 1 ELSE 0
      /\ observe_value(Empty, v).mixed = (FALSE \/ unify(Null, shape_of(v)).mixed)
    BY <1>1 DEF observe_value, ShapeOfEq
<1>4. observe_value(Empty, v).mixed = FALSE
    BY <1>2, <1>3
<1> QED BY <1>2, <1>3, <1>4

\* joined() by its number of items.
LEMMA JoinedStep ==
    ASSUME ShapeOfEq, NEW items, NEW n \in Nat
    PROVE  /\ joined(items, 0) = Null
           /\ joined(items, n + 1) = unify(joined(items, n), shape_of(items[n + 1])).shape
BY DEF joined, ShapeOfEq

\* The items of an array join to a shape of their levels.
LEMMA JoinedWellFormed ==
    ASSUME UnifyEq, ShapeOfEq, WellFormedEq, NEW items, NEW l \in Nat, NEW d \in Nat, NEW n \in Nat,
           \A i \in 1 .. l : WellFormed(shape_of(items[i]), d, n)
    PROVE  \A i \in 0 .. l : WellFormed(joined(items, i), d, n)
<1> DEFINE S == {i \in Nat : i <= l => WellFormed(joined(items, i), d, n)}
<1>1. ASSUME NEW i \in Nat, \A m \in 0 .. i - 1 : m \in S
      PROVE  i \in S
    <2>1. CASE i = 0
        BY <2>1, JoinedStep DEF WellFormed, Leaf, Null
    <2>2. CASE i > 0 /\ i <= l
        <3>1. i - 1 \in S /\ i - 1 \in Nat /\ i = (i - 1) + 1
            BY <1>1, <2>2
        <3>2. WellFormed(joined(items, i - 1), d, n) /\ WellFormed(shape_of(items[i]), d, n)
            BY <2>2, <3>1
        <3>3. joined(items, i) = unify(joined(items, i - 1), shape_of(items[i])).shape
            BY <3>1, JoinedStep
        <3> QED BY <3>2, <3>3, UnifyWellFormed
    <2> QED BY <2>1, <2>2
<1>2. Nat \subseteq S
    <2> HIDE DEF S
    <2> QED BY <1>1, NatSetInduction
<1> QED BY <1>2

\* The shape of a value has its levels.
LEMMA ShapeOfWellFormed ==
    ASSUME UnifyEq, ShapeOfEq, WellFormedEq, IsValueEq
    PROVE  \A d, n \in Nat : \A v : IsValue(v, d, n) => WellFormed(shape_of(v), d, n)
<1> DEFINE P(d, n) == \A v : IsValue(v, d, n) => WellFormed(shape_of(v), d, n)
           S == {p \in Nat \X Nat : P(p[1], p[2])}
<1>1. ASSUME NEW d \in Nat, NEW n \in Nat,
             d > 0 => \A m \in Nat : P(d - 1, m),
             n > 0 => P(d, n - 1)
      PROVE  P(d, n)
    <2> SUFFICES ASSUME NEW v, IsValue(v, d, n)
                 PROVE  WellFormed(shape_of(v), d, n)
        OBVIOUS
    <2>1. CASE v.k = "Document"
        <3>1. d > 0 /\ \A f \in DOMAIN v.fields : IsValue(v.fields[f], d - 1, MaxLevels)
            BY <2>1, IsValueParts
        <3>2. \A f \in DOMAIN v.fields : WellFormed(shape_of(v.fields[f]), d - 1, MaxLevels)
            BY <1>1, <3>1, SchemaTreeAssumption
        <3> DEFINE F == [f \in DOMAIN v.fields |-> observe_value(Empty, v.fields[f])]
        <3>3. ASSUME NEW f \in DOMAIN F
              PROVE  SlotWellFormed(F[f], d - 1)
            <4>1. /\ WellFormed(F[f].shape, d - 1, MaxLevels) /\ F[f].present = 1 /\ F[f].nulls \in 0 .. 1
                  /\ F[f].mixed = FALSE
                BY <3>2, ObserveFirst
            <4> HIDE DEF F
            <4>2. F[f].mixed \in BOOLEAN
                BY <4>1
            <4> QED BY <4>1, <4>2 DEF SlotWellFormed
        <3>4. shape_of(v) = [k |-> "Document", fields |-> F]
            BY <2>1 DEF shape_of
        <3> HIDE DEF F
        <3> QED BY <3>1, <3>3, <3>4, WellFormedWhole
    <2>2. CASE v.k = "Array"
        <3>1. /\ n > 0 /\ Len(v.items) \in Nat /\ DOMAIN v.items = 1 .. Len(v.items)
              /\ \A i \in DOMAIN v.items : IsValue(v.items[i], d, n - 1)
            BY <2>2, IsValueParts
        <3>2. \A i \in 1 .. Len(v.items) : WellFormed(shape_of(v.items[i]), d, n - 1)
            BY <1>1, <3>1
        <3>3. WellFormed(joined(v.items, Len(v.items)), d, n - 1)
            <4>1. n - 1 \in Nat /\ Len(v.items) \in 0 .. Len(v.items)
                BY <3>1
            <4> QED BY <3>1, <3>2, <4>1, JoinedWellFormed
        <3>4. shape_of(v) = [k |-> "Array", of |-> joined(v.items, Len(v.items))]
            BY <2>2 DEF shape_of
        <3> QED BY <3>1, <3>3, <3>4, WellFormedWhole
    <2>3. CASE v.k \notin {"Document", "Array"}
        BY <2>3, IsValueParts DEF shape_of, WellFormed, Kinded
    <2> QED BY <2>1, <2>2, <2>3
<1>2. \A d, n \in Nat : <<d, n>> \in S
    <2>1. ASSUME NEW d \in Nat, NEW n \in Nat,
                 d > 0 => \A m \in Nat : <<d - 1, m>> \in S,
                 n > 0 => <<d, n - 1>> \in S
          PROVE  <<d, n>> \in S
        <3> HIDE DEF P
        <3> QED BY <1>1, <2>1
    <2> HIDE DEF S
    <2> QED BY <2>1, LevelInduction
<1> QED BY <1>2

\* A slot after the next value.
LEMMA ObserveWellFormed ==
    ASSUME UnifyEq, ShapeOfEq, WellFormedEq, IsValueEq, NEW d \in Nat,
           NEW slot, slot = Empty \/ SlotWellFormed(slot, d), NEW v, IsValue(v, d, MaxLevels)
    PROVE  SlotWellFormed(observe_value(slot, v), d)
<1> DEFINE r == unify(slot.shape, shape_of(v))
           new == observe_value(slot, v)
<1>1. /\ WellFormed(slot.shape, d, MaxLevels) /\ slot.present \in Nat /\ slot.nulls \in 0 .. slot.present
      /\ MaxLevels \in Nat
    BY SchemaTreeAssumption, WellFormedWhole DEF SlotWellFormed, Empty, Null
<1>2. WellFormed(r.shape, d, MaxLevels)
    BY <1>1, UnifyWellFormed, ShapeOfWellFormed
<1>3. /\ new.shape = r.shape
      /\ new.present = slot.present + 1
      /\ new.nulls = (IF v = Null THEN slot.nulls + 1 ELSE slot.nulls)
      /\ new.mixed = (slot.mixed \/ r.mixed)
    BY DEF observe_value, ShapeOfEq
<1> HIDE DEF r, new
<1>4. new.mixed \in BOOLEAN
    BY <1>3
<1>5. new.present \in Nat \ {0} /\ new.nulls \in 0 .. new.present
    BY <1>1, <1>3
<1>6. SlotWellFormed(new, d)
    BY <1>2, <1>3, <1>4, <1>5 DEF SlotWellFormed
<1> QED BY <1>6 DEF new
-------------------------------------------------------------------------------
(***************************************************************************)
(* Columns, and the way through the cache file.                            *)
(***************************************************************************)

\* A shape of some levels.
Shape(s) == \E d, n \in Nat : WellFormed(s, d, n)

LEMMA ShapeParts ==
    ASSUME WellFormedEq, NEW s, Shape(s)
    PROVE  /\ Kinded(s)
           /\ s.k = "Array" => Shape(s.of)
           /\ s.k = "Document" => \A f \in DOMAIN s.fields : Shape(s.fields[f].shape)
<1>1. PICK d \in Nat, n \in Nat : WellFormed(s, d, n)
    BY DEF Shape
<1>2. s.k = "Array" => Shape(s.of)
    BY <1>1, WellFormedParts DEF Shape
<1>3. ASSUME s.k = "Document", NEW f \in DOMAIN s.fields PROVE Shape(s.fields[f].shape)
    <2>1. d - 1 \in Nat /\ SlotWellFormed(s.fields[f], d - 1)
        BY <1>1, <1>3, WellFormedParts
    <2> QED BY <2>1, SchemaTreeAssumption DEF Shape, SlotWellFormed
<1> QED BY <1>1, <1>2, <1>3, WellFormedParts

\* What the fields of a struct are.
FieldOf(fs, path, total, depth) ==
    build_field(path, fs, total, arrow_type(fs.shape, path, depth))

\* The type and the tag of a column, by the shape it is made from.
LEMMA ArrowTypeCases ==
    ASSUME ArrowTypeEq, NEW s, Kinded(s), NEW path, NEW depth
    PROVE  \/ /\ s.k = "Document" /\ depth < max_depth
              /\ \E total : arrow_type(s, path, depth) =
                    [type |-> [t |-> "Struct",
                               fields |-> [f \in DOMAIN s.fields |->
                                              FieldOf(s.fields[f], Append(path, f), total, depth + 1)]],
                     tag |-> "Document"]
           \/ /\ s.k = "Array" /\ depth < max_depth
              /\ arrow_type(s, path, depth) =
                    [type |-> [t |-> "List",
                               item |-> [type |-> arrow_type(s.of, path, depth + 1).type, nullable |-> TRUE,
                                         meta |-> [bson |-> arrow_type(s.of, path, depth + 1).tag]]],
                     tag |-> "Array"]
           \/ /\ s.k \in {"Document", "Array"}
              /\ arrow_type(s, path, depth) = [type |-> [t |-> "Utf8"], tag |-> "Json"]
           \/ Leaf(s) /\ arrow_type(s, path, depth) = ScalarType(s.k)
<1>1. CASE Nests(s, depth) /\ s.k = "Document"
    <2> DEFINE total == Max({s.fields[f].present : f \in DOMAIN s.fields})
    <2>1. depth < max_depth
        BY <1>1 DEF Nests
    <2>2. arrow_type(s, path, depth) =
                    [type |-> [t |-> "Struct",
                               fields |-> [f \in DOMAIN s.fields |->
                                              build_field(Append(path, f), s.fields[f], total,
                                                arrow_type_(s.fields[f].shape, Append(path, f), depth + 1))]],
                     tag |-> "Document"]
        BY <1>1 DEF arrow_type
    <2>3. arrow_type(s, path, depth) =
                    [type |-> [t |-> "Struct",
                               fields |-> [f \in DOMAIN s.fields |->
                                              FieldOf(s.fields[f], Append(path, f), total, depth + 1)]],
                     tag |-> "Document"]
        <3> HIDE DEF total
        <3> QED BY <2>2 DEF FieldOf, ArrowTypeEq
    <2> HIDE DEF total
    <2> QED BY <1>1, <2>1, <2>3
<1>2. CASE Nests(s, depth) /\ s.k = "Array"
    BY <1>2 DEF arrow_type, ArrowTypeEq, Nests
<1>3. CASE ~Nests(s, depth) /\ s.k \in {"Document", "Array"}
    BY <1>3 DEF arrow_type, Utf8
<1>4. CASE s.k \notin {"Document", "Array"}
    BY <1>4 DEF arrow_type, Nests, Kinded
<1> QED BY <1>1, <1>2, <1>3, <1>4

\* The columns of scalars: tagged with what they stand for, and of a type that reads
\* every BSON type that was joined into them.
LEMMA ScalarColumns ==
    ASSUME NEW k \in Scalars \cup {"Unknown"}
    PROVE  \E t \in DOMAIN Stored \ {"Struct", "List"} :
              /\ ScalarType(k) = [type |-> [t |-> t], tag |-> k]
              /\ k \in {"Unknown", "Utf8", "ObjectId", "Json"} => t = "Utf8"
              /\ k \notin {"Unknown", "Utf8", "ObjectId", "Json"} => t # "Utf8" /\ Takes(k) \subseteq Reads(t)
<1>1. DOMAIN Stored = {"Bool", "Int32", "Int64", "Double", "Decimal", "Utf8", "Binary", "Timestamp",
                       "Struct", "List"}
    BY DEF Stored
<1>2. CASE k \in {"Unknown", "Utf8", "ObjectId", "Json"}
    <2>1. ScalarType(k) = [type |-> [t |-> "Utf8"], tag |-> k]
        BY <1>2 DEF ScalarType, Utf8
    <2> QED BY <1>1, <1>2, <2>1
<1>3. CASE k \in {"DateTime", "BsonTimestamp"}
    BY <1>1, <1>3 DEF ScalarType, Takes, Reads
<1>4. CASE k \in {"Bool", "Int32", "Int64", "Double", "Decimal", "Binary"}
    BY <1>1, <1>4 DEF ScalarType, Takes, Reads
<1> QED BY <1>2, <1>3, <1>4 DEF Scalars
\* No two types are stored under one name.
LEMMA StoredNames ==
    ASSUME NEW t \in DOMAIN Stored
    PROVE  /\ ArrowOf(Stored[t]) = t
           /\ t \notin {"Struct", "List"} => Stored[t] \notin {"struct", "list"}
<1>1. DOMAIN Stored = {"Bool", "Int32", "Int64", "Double", "Decimal", "Utf8", "Binary", "Timestamp",
                       "Struct", "List"}
    BY DEF Stored
<1>2. /\ Stored["Bool"] = "boolean" /\ Stored["Int32"] = "int32" /\ Stored["Int64"] = "int64"
      /\ Stored["Double"] = "float64" /\ Stored["Decimal"] = "decimal" /\ Stored["Utf8"] = "utf8"
      /\ Stored["Binary"] = "binary" /\ Stored["Timestamp"] = "timestamp_ms"
      /\ Stored["Struct"] = "struct" /\ Stored["List"] = "list"
    BY DEF Stored
<1> HIDE DEF Stored
<1>3. ASSUME NEW u \in DOMAIN Stored, Stored[u] = Stored[t]
      PROVE  u = t
    BY <1>1, <1>2, <1>3
<1> QED BY <1>1, <1>2, <1>3 DEF ArrowOf

\* A field of type type survives the cache file, in which it takes up l levels of JSON.
Survives(type, l) ==
    \A nullable, meta :
        LET f == [type |-> type, nullable |-> nullable, meta |-> meta]
        IN  to_arrow(from_arrow(f)) = f /\ \A n \in Nat : n >= l => Within(from_arrow(f), n)

LEMMA SurvivesScalar ==
    ASSUME NEW t \in DOMAIN Stored \ {"Struct", "List"}
    PROVE  Survives([t |-> t], 2)
<1> SUFFICES ASSUME NEW nullable, NEW meta, NEW f, f = [type |-> [t |-> t], nullable |-> nullable, meta |-> meta]
             PROVE  to_arrow(from_arrow(f)) = f /\ \A n \in Nat : n >= 2 => Within(from_arrow(f), n)
    BY DEF Survives
<1>1. Stored[t] \notin {"struct", "list"} /\ ArrowOf(Stored[t]) = t
    BY StoredNames
<1>2. from_arrow(f) = [ty |-> [k |-> Stored[t]], nullable |-> nullable, metadata |-> meta]
    <2> HIDE DEF Stored
    <2> QED BY DEF from_arrow
<1>3. to_arrow(from_arrow(f)) = [type |-> [t |-> ArrowOf(Stored[t])], nullable |-> nullable, meta |-> meta]
    <2> HIDE DEF Stored
    <2> QED BY <1>1, <1>2 DEF to_arrow
<1> HIDE DEF Stored
<1>4. \A n \in Nat : n >= 2 => Within(from_arrow(f), n)
    BY <1>1, <1>2 DEF Within
<1> QED BY <1>1, <1>3, <1>4

LEMMA SurvivesList ==
    ASSUME StoredEq, WithinEq, NEW type, NEW meta, NEW l \in Nat, Survives(type, l)
    PROVE  Survives([t |-> "List", item |-> [type |-> type, nullable |-> TRUE, meta |-> meta]], l + 2)
<1> DEFINE item == [type |-> type, nullable |-> TRUE, meta |-> meta]
<1>1. to_arrow(from_arrow(item)) = item /\ \A n \in Nat : n >= l => Within(from_arrow(item), n)
    BY DEF Survives
<1> HIDE DEF item
<1>2. SUFFICES ASSUME NEW nullable, NEW m, NEW f,
                      f = [type |-> [t |-> "List", item |-> item], nullable |-> nullable, meta |-> m]
               PROVE  to_arrow(from_arrow(f)) = f /\ \A n \in Nat : n >= l + 2 => Within(from_arrow(f), n)
    BY DEF Survives, item
<1>3. from_arrow(f) = [ty |-> [k |-> "list", item |-> from_arrow(item)], nullable |-> nullable, metadata |-> m]
    BY <1>2 DEF from_arrow, StoredEq
<1>4. to_arrow(from_arrow(f)) = [type |-> [t |-> "List", item |-> item], nullable |-> nullable, meta |-> m]
    BY <1>1, <1>3 DEF to_arrow, StoredEq
<1>5. ASSUME NEW n \in Nat, n >= l + 2 PROVE Within(from_arrow(f), n)
    <2>1. n - 2 \in Nat /\ n - 2 >= l
        BY <1>5
    <2>2. Within(from_arrow(item), n - 2)
        BY <1>1, <2>1
    <2> QED BY <1>3, <2>2 DEF Within, WithinEq
<1> QED BY <1>2, <1>4, <1>5

LEMMA SurvivesStruct ==
    ASSUME StoredEq, WithinEq, NEW N, NEW F, NEW l \in Nat,
           \A x \in N : /\ F[x] = [type |-> F[x].type, nullable |-> F[x].nullable, meta |-> F[x].meta]
                        /\ Survives(F[x].type, l)
    PROVE  Survives([t |-> "Struct", fields |-> [x \in N |-> F[x]]], l + 3)
<1>1. \A x \in N : to_arrow(from_arrow(F[x])) = F[x] /\ \A n \in Nat : n >= l => Within(from_arrow(F[x]), n)
    <2> TAKE x \in N
    <2>1. Survives(F[x].type, l) /\ F[x] = [type |-> F[x].type, nullable |-> F[x].nullable, meta |-> F[x].meta]
        OBVIOUS
    <2> QED BY <2>1 DEF Survives
<1> DEFINE G == [x \in N |-> F[x]]
           H == [x \in N |-> from_arrow(F[x])]
<1>2. SUFFICES ASSUME NEW nullable, NEW m, NEW f,
                      f = [type |-> [t |-> "Struct", fields |-> G], nullable |-> nullable, meta |-> m]
               PROVE  to_arrow(from_arrow(f)) = f /\ \A n \in Nat : n >= l + 3 => Within(from_arrow(f), n)
    BY DEF Survives
<1>3. H = [x \in DOMAIN G |-> from_arrow_(G[x])]
    BY DEF StoredEq
<1>4. G = [x \in DOMAIN H |-> to_arrow_(H[x])]
    BY <1>1 DEF StoredEq
<1>5. \A x \in DOMAIN H : \A n \in Nat : n >= l => Within_(H[x], n)
    BY <1>1 DEF WithinEq
<1> HIDE DEF G, H
<1>6. from_arrow(f) = [ty |-> [k |-> "struct", fields |-> H], nullable |-> nullable, metadata |-> m]
    BY <1>2, <1>3 DEF from_arrow
<1>7. to_arrow(from_arrow(f)) = [type |-> [t |-> "Struct", fields |-> G], nullable |-> nullable, meta |-> m]
    BY <1>4, <1>6 DEF to_arrow
<1>8. ASSUME NEW n \in Nat, n >= l + 3 PROVE Within(from_arrow(f), n)
    <2>1. n - 3 \in Nat /\ n - 3 >= l
        BY <1>8
    <2> QED BY <1>5, <1>6, <2>1 DEF Within
<1> QED BY <1>2, <1>7, <1>8
\* A column h levels above max_depth nests no deeper than that and survives the cache.
LEMMA ColumnOfLevel ==
    ASSUME WellFormedEq, ArrowTypeEq, StoredEq, WithinEq, NestsWithinEq
    PROVE  \A h \in Nat : \A s, path : \A depth \in Nat :
              Shape(s) /\ depth + h = max_depth
              => LET type == arrow_type(s, path, depth).type
                 IN  NestsWithin(type, h) /\ Survives(type, 2 + 3 * h)
<1> DEFINE P(h) == \A s, path : \A depth \in Nat :
                      Shape(s) /\ depth + h = max_depth
                      => /\ NestsWithin(arrow_type(s, path, depth).type, h)
                         /\ Survives(arrow_type(s, path, depth).type, 2 + 3 * h)
           S == {h \in Nat : P(h)}
<1>1. ASSUME NEW h \in Nat, h > 0 => P(h - 1)
      PROVE  P(h)
    <2> SUFFICES ASSUME NEW s, NEW path, NEW depth \in Nat, Shape(s), depth + h = max_depth,
                        NEW type, type = arrow_type(s, path, depth).type
                 PROVE  NestsWithin(type, h) /\ Survives(type, 2 + 3 * h)
        OBVIOUS
    <2>1. max_depth \in Nat
        BY SchemaTreeAssumption
    <2>2. ASSUME depth < max_depth, NEW x, Shape(x), NEW p
          PROVE  /\ NestsWithin(arrow_type(x, p, depth + 1).type, h - 1)
                 /\ Survives(arrow_type(x, p, depth + 1).type, 2 + 3 * (h - 1))
        <3>1. h > 0 /\ depth + 1 \in Nat /\ (depth + 1) + (h - 1) = max_depth
            BY <2>1, <2>2
        <3> QED BY <1>1, <2>2, <3>1
    <2>4. ASSUME NEW t, NEW l \in Nat, NEW m \in Nat, l <= m, Survives(t, l)
          PROVE  Survives(t, m)
        BY <2>4 DEF Survives
    <2>5. CASE /\ s.k = "Document" /\ depth < max_depth
               /\ \E total : arrow_type(s, path, depth) =
                    [type |-> [t |-> "Struct",
                               fields |-> [f \in DOMAIN s.fields |->
                                              FieldOf(s.fields[f], Append(path, f), total, depth + 1)]],
                     tag |-> "Document"]
        <3> PICK total : arrow_type(s, path, depth) =
                    [type |-> [t |-> "Struct",
                               fields |-> [f \in DOMAIN s.fields |->
                                              FieldOf(s.fields[f], Append(path, f), total, depth + 1)]],
                     tag |-> "Document"]
            BY <2>5
        <3> DEFINE F == [f \in DOMAIN s.fields |-> FieldOf(s.fields[f], Append(path, f), total, depth + 1)]
        <3>1. type = [t |-> "Struct", fields |-> F]
            OBVIOUS
        <3>2. h > 0
            BY <2>1, <2>5
        <3>3. ASSUME NEW f \in DOMAIN s.fields
              PROVE  /\ F[f].type = arrow_type(s.fields[f].shape, Append(path, f), depth + 1).type
                     /\ F[f] = [type |-> F[f].type, nullable |-> F[f].nullable, meta |-> F[f].meta]
            BY DEF FieldOf, build_field
        <3>4. \A f \in DOMAIN s.fields : Shape(s.fields[f].shape)
            BY <2>5, ShapeParts
        <3>5. \A f \in DOMAIN s.fields : NestsWithin(F[f].type, h - 1) /\ Survives(F[f].type, 2 + 3 * (h - 1))
            <4> TAKE f \in DOMAIN s.fields
            <4>1. /\ NestsWithin(arrow_type(s.fields[f].shape, Append(path, f), depth + 1).type, h - 1)
                  /\ Survives(arrow_type(s.fields[f].shape, Append(path, f), depth + 1).type, 2 + 3 * (h - 1))
                BY <2>2, <2>5, <3>4
            <4> HIDE DEF F
            <4> QED BY <3>3, <4>1
        <3>6. DOMAIN F = DOMAIN s.fields /\ F = [f \in DOMAIN s.fields |-> F[f]]
            OBVIOUS
        <3> HIDE DEF F
        <3>7. NestsWithin(type, h)
            BY <3>1, <3>2, <3>5, <3>6 DEF NestsWithin, NestsWithinEq
        <3>8. 2 + 3 * (h - 1) \in Nat /\ 2 + 3 * (h - 1) + 3 = 2 + 3 * h
            BY <3>2
        <3>9. Survives([t |-> "Struct", fields |-> [f \in DOMAIN s.fields |-> F[f]]], 2 + 3 * (h - 1) + 3)
            BY <3>3, <3>5, <3>8, SurvivesStruct
        <3> QED BY <3>1, <3>6, <3>7, <3>8, <3>9
    <2>6. CASE /\ s.k = "Array" /\ depth < max_depth
               /\ arrow_type(s, path, depth) =
                    [type |-> [t |-> "List",
                               item |-> [type |-> arrow_type(s.of, path, depth + 1).type, nullable |-> TRUE,
                                         meta |-> [bson |-> arrow_type(s.of, path, depth + 1).tag]]],
                     tag |-> "Array"]
        <3> DEFINE t == arrow_type(s.of, path, depth + 1).type
                   m == [bson |-> arrow_type(s.of, path, depth + 1).tag]
        <3>1. type = [t |-> "List", item |-> [type |-> t, nullable |-> TRUE, meta |-> m]]
            BY <2>6
        <3>2. h > 0 /\ 2 + 3 * (h - 1) \in Nat /\ 2 + 3 * (h - 1) + 2 \in Nat
              /\ 2 + 3 * h \in Nat /\ 2 + 3 * (h - 1) + 2 <= 2 + 3 * h
            BY <2>1, <2>6
        <3>3. NestsWithin(t, h - 1) /\ Survives(t, 2 + 3 * (h - 1))
            BY <2>2, <2>6, ShapeParts
        <3> HIDE DEF t, m
        <3>4. NestsWithin(type, h)
            BY <3>1, <3>2, <3>3 DEF NestsWithin, NestsWithinEq
        <3>5. Survives(type, 2 + 3 * (h - 1) + 2)
            BY <3>1, <3>2, <3>3, SurvivesList
        <3> QED BY <2>4, <3>2, <3>4, <3>5
    <2>7. ASSUME NEW t \in DOMAIN Stored \ {"Struct", "List"}, type = [t |-> t]
          PROVE  NestsWithin(type, h) /\ Survives(type, 2 + 3 * h)
        <3>1. NestsWithin(type, h)
            BY <2>7 DEF NestsWithin
        <3>2. Survives(type, 2)
            BY <2>7, SurvivesScalar
        <3> QED BY <2>4, <3>1, <3>2
    <2>8. CASE s.k \in {"Document", "Array"} /\ arrow_type(s, path, depth) = [type |-> [t |-> "Utf8"], tag |-> "Json"]
        BY <2>7, <2>8 DEF Stored
    <2>9. CASE Leaf(s) /\ arrow_type(s, path, depth) = ScalarType(s.k)
        <3>1. s.k \in Scalars \cup {"Unknown"}
            BY <2>9 DEF Leaf
        <3> PICK t \in DOMAIN Stored \ {"Struct", "List"} : ScalarType(s.k) = [type |-> [t |-> t], tag |-> s.k]
            BY <3>1, ScalarColumns
        <3> QED BY <2>7, <2>9
    <2> QED BY <2>5, <2>6, <2>8, <2>9, ArrowTypeCases, ShapeParts
<1>2. Nat \subseteq S
    <2>1. ASSUME NEW h \in Nat, \A m \in 0 .. h - 1 : m \in S PROVE h \in S
        <3>1. h > 0 => h - 1 \in S
            BY <2>1
        <3> HIDE DEF P
        <3> QED BY <1>1, <3>1
    <2> HIDE DEF S
    <2> QED BY <2>1, NatSetInduction
<1> QED BY <1>2
-------------------------------------------------------------------------------
(***************************************************************************)
(* Types, and the schema across a restart.                                 *)
(***************************************************************************)

LEMMA RootWellFormed ==
    ASSUME WellFormedEq, NEW r
    PROVE  WellFormed([k |-> "Document", fields |-> r], MaxLevels, MaxLevels)
           <=> \A c \in DOMAIN r : SlotWellFormed(r[c], MaxLevels - 1)
<1>1. MaxLevels \in Nat /\ MaxLevels > 0
    BY SchemaTreeAssumption
<1> DEFINE R == [k |-> "Document", fields |-> r]
<1>2. R.k = "Document" /\ R.fields = r
    OBVIOUS
<1>3. ASSUME WellFormed(R, MaxLevels, MaxLevels)
      PROVE  \A c \in DOMAIN r : SlotWellFormed(r[c], MaxLevels - 1)
    <2> HIDE DEF R
    <2> QED BY <1>1, <1>2, <1>3, WellFormedParts
<1> QED BY <1>1, <1>3, WellFormedWhole

\* A slot of the root after one more document.
LEMMA ObservedSlot ==
    ASSUME Recursion, NEW d \in SampleDocs, NEW c \in DOMAIN d.fields,
           NEW slot, slot = Empty \/ SlotWellFormed(slot, MaxLevels - 1)
    PROVE  SlotWellFormed(observe_value(slot, d.fields[c]), MaxLevels - 1)
<1>1. MaxLevels - 1 \in Nat /\ MaxLevels \in Nat
    BY SchemaTreeAssumption
<1>2. d.k = "Document" /\ IsValue(d, MaxLevels, MaxLevels)
    BY SchemaTreeAssumption
<1>3. IsValue(d.fields[c], MaxLevels - 1, MaxLevels)
    BY <1>1, <1>2, IsValueParts DEF Recursion
<1> QED BY <1>1, <1>3, ObserveWellFormed DEF Recursion

\* The columns finish() makes.
LEMMA FinishedColumns ==
    ASSUME Recursion, WellFormed(Root, MaxLevels, MaxLevels), NEW c \in DOMAIN root
    PROVE  /\ Shape(root[c].shape)
           /\ finish[c] = [type |-> finish[c].type, nullable |-> finish[c].nullable, meta |-> finish[c].meta]
           /\ finish[c].type = arrow_type(root[c].shape, <<c>>, 0).type
           /\ finish[c].meta.bson = arrow_type(root[c].shape, <<c>>, 0).tag
           /\ finish[c].meta.mixed = root[c].mixed
           /\ NestsWithin(finish[c].type, max_depth)
           /\ Survives(finish[c].type, 2 + 3 * max_depth)
<1>1. SlotWellFormed(root[c], MaxLevels - 1)
    <2>1. WellFormed([k |-> "Document", fields |-> root], MaxLevels, MaxLevels) /\ WellFormedEq
        BY DEF Root, Recursion
    <2> QED BY <2>1, RootWellFormed
<1>2. Shape(root[c].shape)
    <2>1. MaxLevels - 1 \in Nat /\ MaxLevels \in Nat
        BY SchemaTreeAssumption
    <2> QED BY <1>1, <2>1 DEF SlotWellFormed, Shape
<1>3. finish[c] = build_field(<<c>>, root[c], docs_seen, arrow_type(root[c].shape, <<c>>, 0))
    BY DEF finish
<1>4. NestsWithin(arrow_type(root[c].shape, <<c>>, 0).type, max_depth)
      /\ Survives(arrow_type(root[c].shape, <<c>>, 0).type, 2 + 3 * max_depth)
    <2>1. max_depth \in Nat /\ 0 + max_depth = max_depth
        BY SchemaTreeAssumption
    <2> QED BY <1>2, <2>1, ColumnOfLevel DEF Recursion
<1> QED BY <1>2, <1>3, <1>4 DEF build_field

\* What was persisted is read back as it was, or not at all; where the columns' levels
\* of JSON are within serde_json's limit, as it was.
LEMMA ReadBack ==
    ASSUME Recursion, WellFormed(Root, MaxLevels, MaxLevels), schema = finish,
           NEW file, file = [c \in DOMAIN schema |-> from_arrow(schema[c])]
    PROVE  /\ [c \in DOMAIN file |-> to_arrow(file[c])] = schema
           /\ 6 + 3 * max_depth <= ReadLimit => Readable(file)
<1>1. DOMAIN finish = DOMAIN root /\ finish = [c \in DOMAIN root |-> finish[c]]
    BY DEF finish
<1>2. \A c \in DOMAIN root : to_arrow(from_arrow(finish[c])) = finish[c]
                             /\ \A n \in Nat : n >= 2 + 3 * max_depth => Within(from_arrow(finish[c]), n)
    <2> TAKE c \in DOMAIN root
    <2>1. finish[c] = [type |-> finish[c].type, nullable |-> finish[c].nullable, meta |-> finish[c].meta]
          /\ Survives(finish[c].type, 2 + 3 * max_depth)
        BY FinishedColumns
    <2> QED BY <2>1 DEF Survives
<1>3. [c \in DOMAIN file |-> to_arrow(file[c])] = schema
    BY <1>1, <1>2
<1>4. ASSUME 6 + 3 * max_depth <= ReadLimit PROVE Readable(file)
    <2>1. ReadLimit - 4 \in Nat /\ ReadLimit - 4 >= 2 + 3 * max_depth
        BY <1>4, SchemaTreeAssumption
    <2> QED BY <1>1, <1>2, <2>1 DEF Readable
<1> QED BY <1>3, <1>4

\* The part of the inductive invariant that types and the restart rest on.
ShapesInv ==
    /\ WellFormed(Root, MaxLevels, MaxLevels)
    /\ docs_seen = Len(seen) /\ docs_seen <= MaxDocs
    /\ seen \in Seq(SampleDocs)
    /\ schema # NoSchema => schema = finish

LEMMA ShapesInvInit == ASSUME Recursion, Init PROVE ShapesInv
<1>1. DOMAIN root = {}
    BY DEF Init
<1>2. WellFormed(Root, MaxLevels, MaxLevels)
    BY <1>1, RootWellFormed DEF Root, Recursion
<1> QED BY <1>2, SchemaTreeAssumption DEF Init, ShapesInv

LEMMA ShapesInvStep == ASSUME Recursion, ShapesInv, [Next]_vars PROVE ShapesInv'
<1> USE DEF ShapesInv
<1>1. ASSUME NEW d \in SampleDocs, Observe(d) PROVE ShapesInv'
    <2>1. \A c \in DOMAIN root : SlotWellFormed(root[c], MaxLevels - 1)
        BY RootWellFormed DEF Root, Recursion
    <2>2. \A c \in DOMAIN root' : SlotWellFormed(root'[c], MaxLevels - 1)
        <3> TAKE c \in DOMAIN root'
        <3> DEFINE slot == IF c \in DOMAIN root THEN root[c] ELSE Empty
        <3>1. c \in DOMAIN root \cup DOMAIN d.fields
              /\ root'[c] = IF c \in DOMAIN d.fields THEN observe_value(slot, d.fields[c]) ELSE slot
            BY <1>1 DEF Observe
        <3>2. slot = Empty \/ SlotWellFormed(slot, MaxLevels - 1)
            BY <2>1
        <3>3. CASE c \in DOMAIN d.fields
            BY <3>1, <3>2, <3>3, ObservedSlot
        <3>4. CASE c \notin DOMAIN d.fields
            BY <2>1, <3>1, <3>4
        <3> QED BY <3>3, <3>4
    <2>3. WellFormed(Root, MaxLevels, MaxLevels)'
        BY <2>2, RootWellFormed DEF Root, Recursion
    <2>4. docs_seen' = Len(seen') /\ docs_seen' <= MaxDocs /\ seen' \in Seq(SampleDocs)
        BY <1>1, AppendProperties, SchemaTreeAssumption DEF Observe
    <2>5. schema' = NoSchema
        BY <1>1 DEF Observe
    <2> QED BY <2>3, <2>4, <2>5
<1>2. ASSUME UNCHANGED <<root, docs_seen, seen>>
      PROVE  WellFormed(Root, MaxLevels, MaxLevels)' /\ finish' = finish
             /\ docs_seen' = Len(seen') /\ docs_seen' <= MaxDocs /\ seen' \in Seq(SampleDocs)
    BY <1>2 DEF Root, finish
<1>3. CASE Infer
    BY <1>2, <1>3 DEF Infer
<1>4. CASE Reload
    <2>1. schema = finish
        BY <1>4 DEF Reload
    <2>2. schema' \in {schema, NoSchema}
        <3> DEFINE file == [c \in DOMAIN schema |-> from_arrow(schema[c])]
        <3>1. [c \in DOMAIN file |-> to_arrow(file[c])] = schema
            BY <2>1, ReadBack
        <3>2. schema' = IF Readable(file) THEN [c \in DOMAIN file |-> to_arrow(file[c])] ELSE NoSchema
            BY <1>4 DEF Reload
        <3> QED BY <3>1, <3>2
    <2> QED BY <1>2, <1>4, <2>1, <2>2 DEF Reload
<1>5. CASE UNCHANGED vars
    BY <1>2, <1>5 DEF vars
<1> QED BY <1>1, <1>3, <1>4, <1>5 DEF Next
LEMMA ShapesInvHolds == ASSUME Recursion PROVE Spec => []ShapesInv
<1>1. Init => ShapesInv
    BY ShapesInvInit
<1>2. ShapesInv /\ [Next]_vars => ShapesInv'
    BY ShapesInvStep
<1> QED BY <1>1, <1>2, PTL DEF Spec

\* The slots are shapes of the documents' levels with counters that make sense, and a
\* schema nests no deeper than inference.max_depth says, however deep the documents are.
THEOREM TypesOfTree == ASSUME Recursion PROVE Spec => []TypeOK
<1>1. ShapesInv => TypeOK
    <2> SUFFICES ASSUME ShapesInv, NEW c \in DOMAIN schema
                 PROVE  NestsWithin(schema[c].type, max_depth)
        BY DEF ShapesInv, TypeOK
    <2>1. DOMAIN NoSchema = {}
        BY DEF NoSchema
    <2>2. schema = finish
        BY <2>1 DEF ShapesInv
    <2>3. c \in DOMAIN root
        BY <2>2 DEF finish
    <2> QED BY <2>2, <2>3, FinishedColumns DEF ShapesInv
<1> QED BY <1>1, ShapesInvHolds, PTL

\* The schema in the catalog is the one finish() made until the gateway restarts and
\* still after it, to the last tag of a list's items, if the deepest columns are within
\* serde_json's limit; with its 128 levels that is every max_depth up to 40.
THEOREM SchemaSurvivesRestart ==
    ASSUME Recursion, 6 + 3 * max_depth <= ReadLimit
    PROVE  Spec => FrozenAcrossRestart
<1>1. ShapesInv /\ [Next]_vars => (schema # NoSchema => schema' = schema)
    <2> SUFFICES ASSUME ShapesInv, [Next]_vars, schema # NoSchema
                 PROVE  schema' = schema
        OBVIOUS
    <2>1. CASE Reload
        <3> DEFINE file == [c \in DOMAIN schema |-> from_arrow(schema[c])]
        <3>1. [c \in DOMAIN file |-> to_arrow(file[c])] = schema /\ Readable(file)
            BY ReadBack DEF ShapesInv
        <3>2. schema' = IF Readable(file) THEN [c \in DOMAIN file |-> to_arrow(file[c])] ELSE NoSchema
            BY <2>1 DEF Reload
        <3> QED BY <3>1, <3>2
    <2>2. CASE Infer \/ (\E d \in SampleDocs : Observe(d)) \/ UNCHANGED vars
        BY <2>2 DEF Infer, Observe, vars
    <2> QED BY <2>1, <2>2 DEF Next
<1> QED BY <1>1, ShapesInvHolds, PTL DEF Spec, FrozenAcrossRestart
-------------------------------------------------------------------------------
(***************************************************************************)
(* Sending.                                                                *)
(***************************************************************************)

\* Where there is a schema its columns are the root's, as finish() makes them.
LEMMA SchemaColumns ==
    ASSUME ShapesInv, NEW c \in Columns
    PROVE  schema = finish /\ c \in DOMAIN root
<1>1. DOMAIN NoSchema = {}
    BY DEF NoSchema
<1>2. schema = finish
    BY <1>1 DEF ShapesInv, Columns
<1> QED BY <1>2 DEF finish, Columns

\* The cells of a column are of its type.
LEMMA CellsOfType ==
    ASSUME NEW type, NEW v, NEW c, c = decode(type, v)
    PROVE  \/ c = NoValue
           \/ type.t = "Struct" /\ c.cell = "struct"
           \/ type.t = "List" /\ c.cell = "list"
           \/ type.t \notin {"Struct", "List"} /\ c.cell = type.t
<1>1. CASE type.t = "Struct"
    BY <1>1 DEF decode, NoValue
<1>2. CASE type.t = "List"
    BY <1>2 DEF decode, NoValue
<1>3. CASE type.t = "Utf8"
    BY <1>3 DEF decode, NoValue
<1>4. CASE type.t \notin {"Struct", "List", "Utf8"}
    BY <1>4 DEF decode, NoValue
<1> QED BY <1>1, <1>2, <1>3, <1>4

\* encode_value() and pg_type_of() agree on every type, but for what is out of range.
LEMMA EncodedAsDescribed ==
    ASSUME NEW t \in DOMAIN Stored, NEW c,
           \/ c = NoValue
           \/ t = "Struct" /\ c.cell = "struct"
           \/ t = "List" /\ c.cell = "list"
           \/ t \notin {"Struct", "List"} /\ c.cell = t,
           NEW sent \in encode_value(c)
    PROVE  /\ sent.pg = "null" <=> c = NoValue
           /\ \/ sent.pg \in {"null", pg_type_of(t)}
              \/ /\ \/ pg_type_of(t) = "timestamptz" /\ c.of.k # "BsonTimestamp"
                    \/ pg_type_of(t) = "numeric" /\ c.of.k # "Int32"
                 /\ sent = [pg |-> "text", of |-> c]
<1>1. t \in {"Bool", "Int32", "Int64", "Double", "Decimal", "Utf8", "Binary", "Timestamp",
             "Struct", "List"}
    BY DEF Stored
<1>2. CASE c = NoValue
    <2>1. c.cell = "null"
        BY <1>2 DEF NoValue
    <2>2. sent = [pg |-> "null"]
        BY <2>1 DEF encode_value
    <2> QED BY <1>2, <2>2
<1>3. CASE t \in {"Struct", "List"} /\ c.cell \in {"struct", "list"}
    <2>1. c # NoValue
        BY <1>3 DEF NoValue
    <2>2. sent.pg = "text"
        BY <1>3 DEF encode_value
    <2>3. pg_type_of(t) = "text"
        BY <1>3 DEF pg_type_of
    <2> QED BY <2>1, <2>2, <2>3
<1>4. CASE t \notin {"Struct", "List"} /\ c.cell = t
    <2>1. c # NoValue
        BY <1>1, <1>4 DEF NoValue
    <2>2. \/ sent = [pg |-> Encodes(t), of |-> c]
          \/ MayOverflow(c) /\ sent = [pg |-> "text", of |-> c]
        BY <1>1, <1>4 DEF encode_value
    <2>3. Encodes(t) = pg_type_of(t) /\ Encodes(t) # "null"
        BY <1>1, <1>4 DEF Encodes, pg_type_of
    <2>4. MayOverflow(c) => \/ pg_type_of(t) = "timestamptz" /\ c.of.k # "BsonTimestamp"
                            \/ pg_type_of(t) = "numeric" /\ c.of.k # "Int32"
        BY <1>4 DEF MayOverflow, pg_type_of
    <2> QED BY <2>1, <2>2, <2>3, <2>4
<1> QED BY <1>2, <1>3, <1>4

\* The type of a column is one of those the cache file has a name for.
LEMMA ColumnTypes ==
    ASSUME ArrowTypeEq, NEW s, Kinded(s), NEW path, NEW depth
    PROVE  arrow_type(s, path, depth).type.t \in DOMAIN Stored
<1>1. DOMAIN Stored = {"Bool", "Int32", "Int64", "Double", "Decimal", "Utf8", "Binary", "Timestamp",
                       "Struct", "List"}
    BY DEF Stored
<1>2. CASE Leaf(s) /\ arrow_type(s, path, depth) = ScalarType(s.k)
    <2>1. s.k \in Scalars \cup {"Unknown"}
        BY <1>2 DEF Leaf
    <2> PICK t \in DOMAIN Stored : ScalarType(s.k) = [type |-> [t |-> t], tag |-> s.k]
        BY <2>1, ScalarColumns
    <2> QED BY <1>2
<1> HIDE DEF Stored
<1> QED BY <1>1, <1>2, ArrowTypeCases

\* Every value is sent in the format its column was described with, or, out of range,
\* as the text of it; none is dropped.
THEOREM FormatsAgree == ASSUME Recursion PROVE Spec => []SentAsDescribed
<1>1. ShapesInv => SentAsDescribed
    <2> SUFFICES ASSUME ShapesInv, NEW c \in Columns, NEW d \in Observed,
                        NEW sent \in encode_value(Cell(c, d))
                 PROVE  /\ sent.pg = "null" <=> Cell(c, d) = NoValue
                        /\ \/ sent.pg \in {"null", pg_type_of(schema[c].type.t)}
                           \/ /\ \/ /\ pg_type_of(schema[c].type.t) = "timestamptz"
                                    /\ Cell(c, d).of.k # "BsonTimestamp"
                                 \/ /\ pg_type_of(schema[c].type.t) = "numeric"
                                    /\ Cell(c, d).of.k # "Int32"
                              /\ sent = [pg |-> "text", of |-> Cell(c, d)]
        BY DEF SentAsDescribed
    <2>1. schema = finish /\ c \in DOMAIN root
        BY SchemaColumns
    <2>2. Shape(root[c].shape) /\ schema[c].type = arrow_type(root[c].shape, <<c>>, 0).type
        BY <2>1, FinishedColumns DEF ShapesInv
    <2>3. Kinded(root[c].shape)
        BY <2>2, ShapeParts DEF Recursion
    <2>4. schema[c].type.t \in DOMAIN Stored
        BY <2>2, <2>3, ColumnTypes DEF Recursion
    <2>5. Cell(c, d) = decode(schema[c].type, lookup_path(d, Parts[c]))
        BY DEF Cell
    <2> DEFINE t == schema[c].type.t
               cell == Cell(c, d)
    <2>6. \/ cell = NoValue
          \/ t = "Struct" /\ cell.cell = "struct"
          \/ t = "List" /\ cell.cell = "list"
          \/ t \notin {"Struct", "List"} /\ cell.cell = t
        BY <2>5, CellsOfType
    <2>7. t \in DOMAIN Stored /\ sent \in encode_value(cell)
        BY <2>4
    <2> HIDE DEF t, cell
    <2>8. /\ sent.pg = "null" <=> cell = NoValue
          /\ \/ sent.pg \in {"null", pg_type_of(t)}
             \/ /\ \/ pg_type_of(t) = "timestamptz" /\ cell.of.k # "BsonTimestamp"
                   \/ pg_type_of(t) = "numeric" /\ cell.of.k # "Int32"
                /\ sent = [pg |-> "text", of |-> cell]
        BY <2>6, <2>7, EncodedAsDescribed
    <2> QED BY <2>8 DEF t, cell
<1> QED BY <1>1, ShapesInvHolds, PTL
-------------------------------------------------------------------------------
(***************************************************************************)
(* What a shape takes in stays at home in it.                              *)
(***************************************************************************)

\* Raising a slot's flag asks for less.
LEMMA FitsWeaker ==
    ASSUME NEW s, NEW v, NEW m, NEW w, Fits(s, v, m), m => w
    PROVE  Fits(s, v, w)
BY DEF Fits

\* Fits by the kind of shape.
LEMMA FitsParts ==
    ASSUME FitsEq, NEW s, NEW v, NEW m, v # Null
    PROVE  /\ s.k = "Array" => (Fits(s, v, m) <=> \A i \in DOMAIN Items(v) : Fits(s.of, Items(v)[i], TRUE))
           /\ s.k = "Document" =>
                 (Fits(s, v, m) <=> /\ v.k = "Document"
                                    /\ \A f \in DOMAIN v.fields :
                                          /\ f \in DOMAIN s.fields
                                          /\ Fits(s.fields[f].shape, v.fields[f], s.fields[f].mixed))
           /\ s.k \in Scalars \ {"Json"} =>
                 (Fits(s, v, m) <=> v.k \in Takes(s.k) /\ (m \/ Family(v.k) = Family(s.k)))
           /\ s.k = "Unknown" => ~Fits(s, v, m)
<1>1. "Array" \notin Scalars /\ "Document" \notin Scalars /\ "Unknown" \notin Scalars
    BY DEF Scalars
<1>2. ASSUME s.k = "Array"
      PROVE  Fits(s, v, m) <=> \A i \in DOMAIN Items(v) : Fits(s.of, Items(v)[i], TRUE)
    BY <1>1, <1>2 DEF Fits, FitsEq
<1>3. ASSUME s.k = "Document"
      PROVE  Fits(s, v, m) <=> /\ v.k = "Document"
                               /\ \A f \in DOMAIN v.fields :
                                     /\ f \in DOMAIN s.fields
                                     /\ Fits(s.fields[f].shape, v.fields[f], s.fields[f].mixed)
    <2>1. Fits(s, v, m) <=> /\ v.k = "Document"
                            /\ \A f \in DOMAIN v.fields :
                                  /\ f \in DOMAIN s.fields
                                  /\ Fits_(s.fields[f].shape, v.fields[f], s.fields[f].mixed)
        BY <1>1, <1>3 DEF Fits
    <2> QED BY <2>1 DEF FitsEq
<1>4. ASSUME s.k \in Scalars \ {"Json"}
      PROVE  Fits(s, v, m) <=> v.k \in Takes(s.k) /\ (m \/ Family(v.k) = Family(s.k))
    BY <1>1, <1>4 DEF Fits
<1>5. ASSUME s.k = "Unknown" PROVE ~Fits(s, v, m)
    BY <1>1, <1>5 DEF Fits
<1> QED BY <1>2, <1>3, <1>4, <1>5

LEMMA FitsScalar ==
    ASSUME FitsEq, NEW x \in Scalars \ {"Json"}, NEW v, v # Null, NEW m
    PROVE  Fits([k |-> x], v, m) <=> v.k \in Takes(x) /\ (m \/ Family(v.k) = Family(x))
<1> DEFINE s == [k |-> x]
<1>1. s.k = x
    OBVIOUS
<1> HIDE DEF s
<1>2. "Array" \notin Scalars /\ "Document" \notin Scalars
    BY DEF Scalars
<1>3. Fits(s, v, m) <=> v.k \in Takes(x) /\ (m \/ Family(v.k) = Family(x))
    BY <1>1, <1>2 DEF Fits
<1> QED BY <1>3 DEF s

\* Only scalars are joined into a column of scalars.
LEMMA TakesScalars ==
    ASSUME NEW k \in Scalars
    PROVE  Takes(k) \subseteq Scalars /\ k \in Takes(k)
BY DEF Takes, Scalars

\* A value that fits one of two shapes fits what unify() makes of them, where the join
\* raises the flag if it leaves the value's family.
LEMMA UnifyFits ==
    ASSUME UnifyEq, WellFormedEq, FitsEq
    PROVE  \A d, n \in Nat : \A a, b : WellFormed(a, d, n) /\ WellFormed(b, d, n) =>
              \A v, m, w : /\ Fits(a, v, m) \/ Fits(b, v, m)
                           /\ m => w
                           /\ unify(a, b).mixed => w
                           => Fits(unify(a, b).shape, v, w)
<1> DEFINE Q(a, b) == \A v, m, w : /\ Fits(a, v, m) \/ Fits(b, v, m)
                                   /\ m => w
                                   /\ unify(a, b).mixed => w
                                   => Fits(unify(a, b).shape, v, w)
           P(d, n) == \A a, b : WellFormed(a, d, n) /\ WellFormed(b, d, n) => Q(a, b)
           S == {p \in Nat \X Nat : P(p[1], p[2])}
<1>1. ASSUME NEW d \in Nat, NEW n \in Nat,
             d > 0 => \A m \in Nat : P(d - 1, m),
             n > 0 => P(d, n - 1)
      PROVE  P(d, n)
    <2> SUFFICES ASSUME NEW a, NEW b, WellFormed(a, d, n), WellFormed(b, d, n)
                 PROVE  Q(a, b)
        OBVIOUS
    <2> SUFFICES ASSUME NEW v, NEW m, NEW w, Fits(a, v, m) \/ Fits(b, v, m),
                        m => w, unify(a, b).mixed => w
                 PROVE  v # Null => Fits(unify(a, b).shape, v, w)
        BY DEF Fits
    <2> HAVE v # Null
    <2>1. /\ Kinded(a) /\ Kinded(b)
          /\ a.k = "Array" => n > 0 /\ WellFormed(a.of, d, n - 1)
          /\ b.k = "Array" => n > 0 /\ WellFormed(b.of, d, n - 1)
          /\ a.k # "Array" /\ n > 0 => WellFormed(a, d, n - 1)
          /\ b.k # "Array" /\ n > 0 => WellFormed(b, d, n - 1)
        BY WellFormedParts
    <2>2. CASE Keeps(a, b)
        <3>1. ~Fits(Null, v, m)
            <4>1. Null.k = "Unknown"
                BY DEF Null
            <4> QED BY <4>1, FitsParts
        <3>2. Fits(unify(a, b).shape, v, m)
            BY <2>2, <3>1 DEF Keeps, Joined
        <3> QED BY <3>2, FitsWeaker
    <2>3. CASE JoinsToText(a, b)
        <3>1. unify(a, b).shape.k = "Json"
            BY <2>3 DEF JoinsToText, Joined, Json
        <3> QED BY <3>1 DEF Fits
    <2>4. ASSUME NEW x, NEW y, JoinsItems(a, b, x, y)
          PROVE  Fits(unify(a, b).shape, v, w)
        <3> DEFINE u == unify(x, y)
        <3>1. "Document" # "Array" /\ "Array" \notin Scalars
            BY DEF Scalars
        <3>2. n > 0 /\ WellFormed(x, d, n - 1) /\ WellFormed(y, d, n - 1)
            BY <2>1, <2>4, <3>1 DEF JoinsItems
        <3>3. \A i, t : Fits(x, i, t) \/ Fits(y, i, t) => Fits(u.shape, i, TRUE)
            <4>1. Q(x, y)
                BY <1>1, <3>2
            <4> QED BY <4>1
        <3>4. unify(a, b).shape.k = "Array" /\ unify(a, b).shape.of = u.shape
            BY <2>4 DEF ArrayOf, Joined, UnifyEq, JoinsItems
        <3> HIDE DEF u
        <3>5. ASSUME NEW z, z.k = "Array", Fits(z, v, m), z.of \in {x, y}
              PROVE  Fits(unify(a, b).shape, v, w)
            <4>1. \A i \in DOMAIN Items(v) : Fits(z.of, Items(v)[i], TRUE)
                BY <3>5, FitsParts
            <4>2. \A i \in DOMAIN Items(v) : Fits(u.shape, Items(v)[i], TRUE)
                BY <3>3, <3>5, <4>1
            <4> QED BY <3>4, <4>2, FitsParts
        <3>6. ASSUME NEW z, z.k \in {"Document"} \cup (Scalars \ {"Json"}), Fits(z, v, m), z \in {x, y}
              PROVE  Fits(unify(a, b).shape, v, w)
            <4>1. v.k # "Array"
                <5>1. CASE z.k = "Document"
                    BY <3>6, <5>1, FitsParts
                <5>2. CASE z.k \in Scalars \ {"Json"}
                    <6>1. v.k \in Takes(z.k)
                        BY <3>6, <5>2, FitsParts
                    <6> QED BY <5>2, <6>1, <3>1, TakesScalars
                <5> QED BY <3>6, <5>1, <5>2
            <4>2. Items(v) = <<v>> /\ DOMAIN <<v>> = {1} /\ <<v>>[1] = v
                BY <4>1 DEF Items
            <4>3. Fits(u.shape, v, TRUE)
                BY <3>3, <3>6
            <4>4. \A i \in DOMAIN Items(v) : Fits(u.shape, Items(v)[i], TRUE)
                BY <4>2, <4>3
            <4> QED BY <3>4, <4>4, FitsParts
        <3> QED BY <2>4, <3>5, <3>6 DEF JoinsItems
    <2>5. CASE JoinsFields(a, b)
        <3> DEFINE M == Merge(a.fields, b.fields)
        <3>1. /\ d > 0 /\ d - 1 \in Nat
              /\ \A f \in DOMAIN a.fields : SlotWellFormed(a.fields[f], d - 1)
              /\ \A f \in DOMAIN b.fields : SlotWellFormed(b.fields[f], d - 1)
            BY <2>5, WellFormedParts DEF JoinsFields
        <3>2. unify(a, b).shape.k = "Document" /\ unify(a, b).shape.fields = M
            BY <2>5 DEF Joined, JoinsFields
        <3>3. ASSUME NEW f, NEW e, NEW z, z \in {a.fields, b.fields}, f \in DOMAIN z,
                     Fits(z[f].shape, e, z[f].mixed)
              PROVE  f \in DOMAIN M /\ Fits(M[f].shape, e, M[f].mixed)
            <4>1. f \in DOMAIN M
                BY <3>3 DEF Merge
            <4>2. CASE f \in DOMAIN a.fields /\ f \in DOMAIN b.fields
                <5> DEFINE r == unify(a.fields[f].shape, b.fields[f].shape)
                <5>1. /\ M[f].shape = r.shape
                      /\ M[f].mixed = (a.fields[f].mixed \/ b.fields[f].mixed \/ r.mixed)
                    BY <4>2 DEF Merge, UnifyEq
                <5> HIDE DEF M
                <5>2. /\ WellFormed(a.fields[f].shape, d - 1, MaxLevels)
                      /\ WellFormed(b.fields[f].shape, d - 1, MaxLevels)
                    BY <3>1, <4>2 DEF SlotWellFormed
                <5>3. Q(a.fields[f].shape, b.fields[f].shape)
                    BY <1>1, <3>1, <5>2, SchemaTreeAssumption
                <5>4. (z[f].mixed => M[f].mixed) /\ (r.mixed => M[f].mixed)
                    BY <3>3, <5>1
                <5>5. Fits(a.fields[f].shape, e, z[f].mixed) \/ Fits(b.fields[f].shape, e, z[f].mixed)
                    BY <3>3
                <5> QED BY <4>1, <5>1, <5>3, <5>4, <5>5
            <4>3. CASE ~(f \in DOMAIN a.fields /\ f \in DOMAIN b.fields)
                <5>1. M[f] = z[f]
                    BY <3>3, <4>3 DEF Merge
                <5> QED BY <3>3, <4>1, <5>1
            <4> QED BY <4>2, <4>3
        <3> HIDE DEF M
        <3>4. ASSUME NEW z, z \in {a, b}, Fits(z, v, m)
              PROVE  Fits(unify(a, b).shape, v, w)
            <4>1. z.k = "Document" /\ z.fields \in {a.fields, b.fields}
                BY <2>5, <3>4 DEF JoinsFields
            <4>2. v.k = "Document" /\ \A f \in DOMAIN v.fields :
                      f \in DOMAIN z.fields /\ Fits(z.fields[f].shape, v.fields[f], z.fields[f].mixed)
                BY <3>4, <4>1, FitsParts
            <4>3. \A f \in DOMAIN v.fields : f \in DOMAIN M /\ Fits(M[f].shape, v.fields[f], M[f].mixed)
                BY <3>3, <4>1, <4>2
            <4> QED BY <3>2, <4>2, <4>3, FitsParts
        <3> QED BY <3>4
    <2>6. CASE JoinsScalars(a, b)
        <3> PICK x \in Scalars \ {"Json"}, y \in Scalars \ {"Json"} :
                 /\ x # y /\ a = [k |-> x] /\ b = [k |-> y] /\ JoinKinds({x, y}) # "Json"
                 /\ unify(a, b) = Joined([k |-> JoinKinds({x, y})], {x, y} = {"ObjectId", "Utf8"})
            BY <2>6 DEF JoinsScalars
        <3> DEFINE J == JoinKinds({x, y})
        <3>1. /\ J \in Scalars \ {"Json"}
              /\ Takes(x) \subseteq Takes(J) /\ Takes(y) \subseteq Takes(J)
              /\ {x, y} # {"ObjectId", "Utf8"} => Family(x) = Family(J) /\ Family(y) = Family(J)
            BY JoinKindsOfScalars
        <3>2. unify(a, b).shape.k = J /\ unify(a, b).mixed = ({x, y} = {"ObjectId", "Utf8"})
            BY DEF Joined
        <3>3. a.k = x /\ b.k = y
            OBVIOUS
        <3> HIDE DEF J
        <3>4. \/ v.k \in Takes(x) /\ (m \/ Family(v.k) = Family(x))
              \/ v.k \in Takes(y) /\ (m \/ Family(v.k) = Family(y))
            <4>1. Fits(a, v, m) => v.k \in Takes(x) /\ (m \/ Family(v.k) = Family(x))
                BY FitsScalar
            <4>2. Fits(b, v, m) => v.k \in Takes(y) /\ (m \/ Family(v.k) = Family(y))
                BY FitsScalar
            <4> QED BY <4>1, <4>2
        <3>5. v.k \in Takes(J) /\ (w \/ Family(v.k) = Family(J))
            BY <3>1, <3>2, <3>4
        <3> QED BY <3>1, <3>2, <3>5, FitsParts
    <2> QED BY <2>1, <2>2, <2>3, <2>4, <2>5, <2>6, UnifyCases
<1>2. \A d, n \in Nat : <<d, n>> \in S
    <2>1. ASSUME NEW d \in Nat, NEW n \in Nat,
                 d > 0 => \A m \in Nat : <<d - 1, m>> \in S,
                 n > 0 => <<d, n - 1>> \in S
          PROVE  <<d, n>> \in S
        <3> HIDE DEF P
        <3> QED BY <1>1, <2>1
    <2> HIDE DEF S
    <2> QED BY <2>1, LevelInduction
<1> QED BY <1>2
\* Every item of an array fits what its items join to.
LEMMA JoinedFits ==
    ASSUME UnifyEq, ShapeOfEq, WellFormedEq, FitsEq,
           NEW items, NEW l \in Nat, NEW d \in Nat, NEW n \in Nat,
           \A i \in 1 .. l : WellFormed(shape_of(items[i]), d, n) /\ Fits(shape_of(items[i]), items[i], FALSE)
    PROVE  \A i \in 0 .. l : \A j \in 1 .. i : Fits(joined(items, i), items[j], TRUE)
<1> DEFINE S == {i \in Nat : i <= l => \A j \in 1 .. i : Fits(joined(items, i), items[j], TRUE)}
<1>1. ASSUME NEW i \in Nat, \A m \in 0 .. i - 1 : m \in S
      PROVE  i \in S
    <2> SUFFICES ASSUME i <= l, NEW j \in 1 .. i PROVE Fits(joined(items, i), items[j], TRUE)
        OBVIOUS
    <2> DEFINE a == joined(items, i - 1)
               b == shape_of(items[i])
    <2>1. i - 1 \in Nat /\ i = (i - 1) + 1 /\ i - 1 \in 0 .. l /\ i \in 1 .. l /\ i - 1 <= l
          /\ i - 1 \in 0 .. i - 1
        OBVIOUS
    <2>2. i - 1 \in S
        BY <1>1, <2>1
    <2>3. joined(items, i) = unify(a, b).shape
        BY <2>1, JoinedStep
    <2>4. WellFormed(a, d, n) /\ WellFormed(b, d, n)
        BY <2>1, JoinedWellFormed
    <2>5. j \in 1 .. i - 1 => Fits(a, items[j], TRUE)
        BY <2>1, <2>2
    <2>6. Fits(b, items[i], FALSE)
        BY <2>1
    <2> HIDE DEF a, b
    <2>7. CASE j = i
        BY <2>3, <2>4, <2>6, <2>7, UnifyFits
    <2>8. CASE j # i
        <3>1. j \in 1 .. i - 1
            BY <2>8
        <3> QED BY <2>3, <2>4, <2>5, <3>1, UnifyFits
    <2> QED BY <2>7, <2>8
<1>2. Nat \subseteq S
    <2> HIDE DEF S
    <2> QED BY <1>1, NatSetInduction
<1>3. ASSUME NEW i \in 0 .. l PROVE \A j \in 1 .. i : Fits(joined(items, i), items[j], TRUE)
    <2>1. i \in Nat /\ i <= l
        OBVIOUS
    <2> QED BY <1>2, <2>1
<1> QED BY <1>3

\* Every value fits its own shape.
LEMMA ShapeOfFits ==
    ASSUME UnifyEq, ShapeOfEq, WellFormedEq, IsValueEq, FitsEq
    PROVE  \A d, n \in Nat : \A v : IsValue(v, d, n) => Fits(shape_of(v), v, FALSE)
<1> DEFINE P(d, n) == \A v : IsValue(v, d, n) => Fits(shape_of(v), v, FALSE)
           S == {p \in Nat \X Nat : P(p[1], p[2])}
<1>1. ASSUME NEW d \in Nat, NEW n \in Nat,
             d > 0 => \A m \in Nat : P(d - 1, m),
             n > 0 => P(d, n - 1)
      PROVE  P(d, n)
    <2> SUFFICES ASSUME NEW v, IsValue(v, d, n)
                 PROVE  Fits(shape_of(v), v, FALSE)
        OBVIOUS
    <2>1. CASE v.k = "Document"
        <3>1. d > 0 /\ d - 1 \in Nat /\ \A f \in DOMAIN v.fields : IsValue(v.fields[f], d - 1, MaxLevels)
            BY <2>1, IsValueParts
        <3> DEFINE F == [f \in DOMAIN v.fields |-> observe_value(Empty, v.fields[f])]
                   s == shape_of(v)
        <3>2. s.k = "Document" /\ s.fields = F
            BY <2>1 DEF shape_of
        <3>3. ASSUME NEW f \in DOMAIN v.fields
              PROVE  f \in DOMAIN F /\ Fits(F[f].shape, v.fields[f], F[f].mixed)
            <4>1. F[f].shape = shape_of(v.fields[f]) /\ F[f].mixed = FALSE
                BY ObserveFirst
            <4>2. Fits(shape_of(v.fields[f]), v.fields[f], FALSE)
                BY <1>1, <3>1, SchemaTreeAssumption
            <4> QED BY <4>1, <4>2
        <3> HIDE DEF F, s
        <3>4. v # Null
            BY <2>1 DEF Null
        <3>5. Fits(s, v, FALSE)
            BY <2>1, <3>2, <3>3, <3>4, FitsParts
        <3> QED BY <3>5 DEF s
    <2>2. CASE v.k = "Array"
        <3>1. /\ n > 0 /\ Len(v.items) \in Nat /\ DOMAIN v.items = 1 .. Len(v.items)
              /\ \A i \in DOMAIN v.items : IsValue(v.items[i], d, n - 1)
            BY <2>2, IsValueParts
        <3> n - 1 \in Nat
            BY <3>1
        <3>2. \A i \in 1 .. Len(v.items) : WellFormed(shape_of(v.items[i]), d, n - 1)
            BY <3>1, ShapeOfWellFormed
        <3>3. \A i \in 1 .. Len(v.items) : Fits(shape_of(v.items[i]), v.items[i], FALSE)
            BY <1>1, <3>1
        <3>4. \A i \in 0 .. Len(v.items) : \A j \in 1 .. i : Fits(joined(v.items, i), v.items[j], TRUE)
            BY <3>1, <3>2, <3>3, JoinedFits
        <3>5. \A j \in 1 .. Len(v.items) : Fits(joined(v.items, Len(v.items)), v.items[j], TRUE)
            <4>1. Len(v.items) \in 0 .. Len(v.items)
                BY <3>1
            <4> QED BY <3>4, <4>1
        <3> DEFINE s == shape_of(v)
        <3>6. s.k = "Array" /\ s.of = joined(v.items, Len(v.items)) /\ v # Null /\ Items(v) = v.items
            BY <2>2 DEF shape_of, Null, Items
        <3> HIDE DEF s
        <3>7. Fits(s, v, FALSE)
            <4>1. \A i \in DOMAIN Items(v) : Fits(s.of, Items(v)[i], TRUE)
                BY <3>1, <3>5, <3>6
            <4> QED BY <3>6, <4>1, FitsParts
        <3> QED BY <3>7 DEF s
    <2>3. CASE v.k \notin {"Document", "Array"}
        <3>1. shape_of(v) = v /\ v = [k |-> v.k] /\ v.k \in Scalars \cup {"Unknown"}
            BY <2>3, IsValueParts DEF shape_of, Kinded, Leaf
        <3>2. CASE v.k \in {"Unknown", "Json"}
            BY <3>1, <3>2 DEF Fits, Null
        <3>3. CASE v.k \in Scalars \ {"Json"}
            <4>1. v # Null /\ v.k \in Takes(v.k)
                BY <3>3, TakesScalars DEF Null, Scalars
            <4>2. Fits([k |-> v.k], v, FALSE)
                BY <3>3, <4>1, FitsScalar
            <4> QED BY <3>1, <4>2
        <3> QED BY <3>1, <3>2, <3>3
    <2> QED BY <2>1, <2>2, <2>3
<1>2. \A d, n \in Nat : <<d, n>> \in S
    <2>1. ASSUME NEW d \in Nat, NEW n \in Nat,
                 d > 0 => \A m \in Nat : <<d - 1, m>> \in S,
                 n > 0 => <<d, n - 1>> \in S
          PROVE  <<d, n>> \in S
        <3> HIDE DEF P
        <3> QED BY <1>1, <2>1
    <2> HIDE DEF S
    <2> QED BY <2>1, LevelInduction
<1> QED BY <1>2

\* A slot takes in the value it observes next and keeps those it has.
LEMMA ObserveFits ==
    ASSUME UnifyEq, ShapeOfEq, WellFormedEq, IsValueEq, FitsEq, NEW d \in Nat,
           NEW slot, slot = Empty \/ SlotWellFormed(slot, d), NEW v, IsValue(v, d, MaxLevels),
           NEW new, new = observe_value(slot, v)
    PROVE  /\ Fits(new.shape, v, new.mixed)
           /\ \A e : Fits(slot.shape, e, slot.mixed) => Fits(new.shape, e, new.mixed)
<1> DEFINE a == slot.shape
           b == shape_of(v)
<1>1. WellFormed(a, d, MaxLevels) /\ MaxLevels \in Nat
    BY SchemaTreeAssumption, WellFormedWhole DEF SlotWellFormed, Empty, Null
<1>2. WellFormed(b, d, MaxLevels) /\ Fits(b, v, FALSE)
    BY <1>1, ShapeOfWellFormed, ShapeOfFits
<1>3. new.shape = unify(a, b).shape /\ new.mixed = (slot.mixed \/ unify(a, b).mixed)
    BY DEF observe_value, ShapeOfEq
<1> HIDE DEF a, b
<1>4. (unify(a, b).mixed => new.mixed) /\ (slot.mixed => new.mixed)
    BY <1>3
<1>5. Fits(new.shape, v, new.mixed)
    BY <1>1, <1>2, <1>3, <1>4, UnifyFits
<1>6. ASSUME NEW e, Fits(a, e, slot.mixed) PROVE Fits(new.shape, e, new.mixed)
    BY <1>1, <1>2, <1>3, <1>4, <1>6, UnifyFits
<1> QED BY <1>5, <1>6 DEF a
-------------------------------------------------------------------------------
(***************************************************************************)
(* What is observed is sent.                                               *)
(***************************************************************************)

\* Scalars are written as JSON scalars.
LEMMA ScalarCarries ==
    ASSUME NEW t \in DOMAIN Stored \ {"Struct", "List"}, NEW x, NEW v
    PROVE  Carries(value_to_json([cell |-> t, of |-> x]), v)
<1> DEFINE c == [cell |-> t, of |-> x]
<1>1. t \notin {"struct", "list", "null"}
    BY DEF Stored
<1>2. value_to_json(c) = [json |-> "scalar", of |-> x]
    BY <1>1 DEF value_to_json
<1>3. value_to_json(c).json = "scalar"
    BY <1>2
<1> HIDE DEF c
<1>4. Carries(value_to_json(c), v)
    BY <1>3 DEF Carries
<1> QED BY <1>4 DEF c

\* A value that fits the shape a column is made from is sent with everything in it.
LEMMA ColumnCarries ==
    ASSUME Recursion
    PROVE  \A h \in Nat : \A s, path, v, m : \A depth \in Nat :
              Shape(s) /\ depth + h = max_depth /\ Fits(s, v, m)
              => Carries(value_to_json(decode(arrow_type(s, path, depth).type, v)), v)
<1> DEFINE P(h) == \A s, path, v, m : \A depth \in Nat :
                      Shape(s) /\ depth + h = max_depth /\ Fits(s, v, m)
                      => Carries(value_to_json(decode(arrow_type(s, path, depth).type, v)), v)
           S == {h \in Nat : P(h)}
<1>0. /\ ArrowTypeEq /\ WellFormedEq /\ FitsEq
      /\ \A t, x : decode_(t, x) = decode(t, x)
      /\ \A c : value_to_json_(c) = value_to_json(c)
      /\ \A json, x : Carries_(json, x) <=> Carries(json, x)
    BY DEF Recursion, DecodeEq, JsonEq, CarriesEq
<1>1. ASSUME NEW h \in Nat, h > 0 => P(h - 1)
      PROVE  P(h)
    <2> SUFFICES ASSUME NEW s, NEW path, NEW v, NEW m, NEW depth \in Nat,
                        Shape(s), depth + h = max_depth, Fits(s, v, m),
                        NEW type, type = arrow_type(s, path, depth).type
                 PROVE  Carries(value_to_json(decode(type, v)), v)
        OBVIOUS
    <2>1. CASE v = Null
        BY <2>1 DEF Carries
    <2>2. ASSUME depth < max_depth, NEW x, Shape(x), NEW p, NEW e, NEW w, Fits(x, e, w)
          PROVE  Carries(value_to_json(decode(arrow_type(x, p, depth + 1).type, e)), e)
        <3>1. h > 0 /\ h - 1 \in Nat /\ depth + 1 \in Nat /\ (depth + 1) + (h - 1) = max_depth
            BY <2>2, SchemaTreeAssumption
        <3> QED BY <1>1, <2>2, <3>1
    <2>3. CASE /\ v # Null /\ s.k = "Document" /\ depth < max_depth
               /\ \E total : arrow_type(s, path, depth) =
                    [type |-> [t |-> "Struct",
                               fields |-> [f \in DOMAIN s.fields |->
                                              FieldOf(s.fields[f], Append(path, f), total, depth + 1)]],
                     tag |-> "Document"]
        <3> PICK total : arrow_type(s, path, depth) =
                    [type |-> [t |-> "Struct",
                               fields |-> [f \in DOMAIN s.fields |->
                                              FieldOf(s.fields[f], Append(path, f), total, depth + 1)]],
                     tag |-> "Document"]
            BY <2>3
        <3> DEFINE F == [f \in DOMAIN s.fields |-> FieldOf(s.fields[f], Append(path, f), total, depth + 1)]
                   C == [f \in DOMAIN F |-> decode(F[f].type, Get(v, f))]
                   D == [f \in DOMAIN C |-> value_to_json(C[f])]
                   json == value_to_json(decode(type, v))
        <3>1. type = [t |-> "Struct", fields |-> F]
            OBVIOUS
        <3>2. \A f \in DOMAIN s.fields :
                 F[f].type = arrow_type(s.fields[f].shape, Append(path, f), depth + 1).type
            BY DEF FieldOf, build_field
        <3>3. DOMAIN F = DOMAIN s.fields
            OBVIOUS
        <3> HIDE DEF F
        <3>4. v.k = "Document" /\ \A f \in DOMAIN v.fields :
                 f \in DOMAIN s.fields /\ Fits(s.fields[f].shape, v.fields[f], s.fields[f].mixed)
            BY <1>0, <2>3, FitsParts
        <3>5. C = [f \in DOMAIN type.fields |-> decode_(type.fields[f].type, Get(v, f))]
            BY <1>0, <3>1
        <3>6. decode(type, v) = [cell |-> "struct", of |-> C]
            <4> HIDE DEF C
            <4> QED BY <3>1, <3>4, <3>5 DEF decode
        <3>7. D = [f \in DOMAIN C |-> value_to_json_(C[f])]
            BY <1>0
        <3>8. json = [json |-> "object", of |-> D]
            <4> HIDE DEF C, D
            <4> QED BY <3>6, <3>7 DEF value_to_json
        <3>9. ASSUME NEW f \in DOMAIN v.fields
              PROVE  f \in DOMAIN D /\ Carries(D[f], v.fields[f])
            <4>1. f \in DOMAIN s.fields /\ Get(v, f) = v.fields[f]
                BY <3>4 DEF Get
            <4>2. Shape(s.fields[f].shape)
                BY <1>0, <2>3, <4>1, ShapeParts
            <4>3. Carries(value_to_json(decode(F[f].type, v.fields[f])), v.fields[f])
                BY <2>2, <2>3, <3>2, <3>4, <4>1, <4>2
            <4>4. f \in DOMAIN D /\ D[f] = value_to_json(decode(F[f].type, v.fields[f]))
                BY <3>3, <4>1
            <4> HIDE DEF D
            <4> QED BY <4>3, <4>4
        <3> HIDE DEF C, D, json
        <3>10. Carries(json, v)
            BY <1>0, <3>4, <3>8, <3>9 DEF Carries
        <3> QED BY <3>10 DEF json
    <2>4. CASE /\ v # Null /\ s.k = "Array" /\ depth < max_depth
               /\ arrow_type(s, path, depth) =
                    [type |-> [t |-> "List",
                               item |-> [type |-> arrow_type(s.of, path, depth + 1).type, nullable |-> TRUE,
                                         meta |-> [bson |-> arrow_type(s.of, path, depth + 1).tag]]],
                     tag |-> "Array"]
        <3> DEFINE t == arrow_type(s.of, path, depth + 1).type
                   I == Items(v)
                   C == [i \in DOMAIN I |-> decode(t, I[i])]
                   D == [i \in DOMAIN C |-> value_to_json(C[i])]
                   json == value_to_json(decode(type, v))
        <3>1. type.t = "List" /\ type.item.type = t
            BY <2>4
        <3>2. \A i \in DOMAIN I : Fits(s.of, I[i], TRUE)
            BY <1>0, <2>4, FitsParts
        <3>3. \A i \in DOMAIN I : Carries(value_to_json(decode(t, I[i])), I[i])
            <4>1. Shape(s.of)
                BY <1>0, <2>4, ShapeParts
            <4> HIDE DEF I
            <4> QED BY <2>2, <2>4, <3>2, <4>1
        <3> HIDE DEF t
        <3>4. C = [i \in DOMAIN Items(v) |-> decode_(type.item.type, Items(v)[i])]
            BY <1>0, <3>1
        <3>5. decode(type, v) = [cell |-> "list", of |-> C]
            <4> HIDE DEF C
            <4> QED BY <2>4, <3>1, <3>4 DEF decode
        <3>6. D = [i \in DOMAIN C |-> value_to_json_(C[i])]
            BY <1>0
        <3>7. json = [json |-> "array", of |-> D]
            <4> HIDE DEF C, D
            <4> QED BY <3>5, <3>6 DEF value_to_json
        <3>8. DOMAIN D = DOMAIN I /\ \A i \in DOMAIN I : Carries(D[i], I[i])
            <4> HIDE DEF I
            <4> QED BY <3>3
        <3> HIDE DEF C, D, json
        <3>9. CASE v.k = "Array"
            <4>1. I = v.items
                BY <3>9 DEF Items
            <4>2. Carries(json, v)
                BY <1>0, <3>7, <3>8, <3>9, <4>1 DEF Carries
            <4> QED BY <4>2 DEF json
        <3>10. CASE v.k # "Array"
            <4>1. DOMAIN I = {1} /\ I[1] = v
                BY <3>10 DEF Items
            <4> HIDE DEF I
            <4>2. Carries(json, v)
                BY <1>0, <3>7, <3>8, <3>10, <4>1 DEF Carries
            <4> QED BY <4>2 DEF json
        <3> QED BY <3>9, <3>10
    <2>5. CASE v # Null /\ s.k \in {"Document", "Array"} /\ arrow_type(s, path, depth) = [type |-> [t |-> "Utf8"], tag |-> "Json"]
        <3>1. decode(type, v) = [cell |-> "Utf8", of |-> v]
            BY <2>5 DEF decode
        <3>2. "Utf8" \in DOMAIN Stored \ {"Struct", "List"}
            BY DEF Stored
        <3> QED BY <3>1, <3>2, ScalarCarries
    <2>6. CASE v # Null /\ Leaf(s) /\ arrow_type(s, path, depth) = ScalarType(s.k)
        <3>1. s.k \in Scalars \cup {"Unknown"}
            BY <2>6 DEF Leaf
        <3> PICK t \in DOMAIN Stored \ {"Struct", "List"} :
                  /\ ScalarType(s.k) = [type |-> [t |-> t], tag |-> s.k]
                  /\ s.k \in {"Unknown", "Utf8", "ObjectId", "Json"} => t = "Utf8"
                  /\ s.k \notin {"Unknown", "Utf8", "ObjectId", "Json"} => t # "Utf8" /\ Takes(s.k) \subseteq Reads(t)
            BY <3>1, ScalarColumns
        <3>2. type = [t |-> t]
            BY <2>6
        <3>3. decode(type, v) = [cell |-> t, of |-> v]
            <4>1. CASE t = "Utf8"
                BY <2>6, <3>2, <4>1 DEF decode
            <4>2. CASE t # "Utf8"
                <5>1. s.k \in Scalars \ {"Json"} /\ Takes(s.k) \subseteq Reads(t)
                    BY <3>1, <4>2
                <5>2. v.k \in Takes(s.k)
                    BY <1>0, <2>6, <5>1, FitsParts
                <5>3. type.t \notin {"Struct", "List", "Utf8"} /\ v.k \in Reads(type.t) /\ type.t = t
                    BY <3>2, <4>2, <5>1, <5>2
                <5> QED BY <5>3 DEF decode
            <4> QED BY <4>1, <4>2
        <3> QED BY <3>3, ScalarCarries
    <2> QED BY <1>0, <2>1, <2>3, <2>4, <2>5, <2>6, ArrowTypeCases, ShapeParts
<1>2. Nat \subseteq S
    <2>1. ASSUME NEW h \in Nat, \A m \in 0 .. h - 1 : m \in S PROVE h \in S
        <3>1. h > 0 => h - 1 \in S
            BY <2>1
        <3> HIDE DEF P
        <3> QED BY <1>1, <3>1
    <2> HIDE DEF S
    <2> QED BY <2>1, NatSetInduction
<1> QED BY <1>2
\* Every document observed fits the root, and each of its keys the key's slot.
FitsInv == ShapesInv /\ \A d \in Observed : Fits(Root, d, FALSE)

LEMMA DocumentFits ==
    ASSUME FitsEq, NEW d \in SampleDocs, NEW r
    PROVE  Fits([k |-> "Document", fields |-> r], d, FALSE)
           <=> \A c \in DOMAIN d.fields : c \in DOMAIN r /\ Fits(r[c].shape, d.fields[c], r[c].mixed)
<1> DEFINE R == [k |-> "Document", fields |-> r]
<1>1. R.k = "Document" /\ R.fields = r
    OBVIOUS
<1>2. d.k = "Document" /\ d # Null
    BY SchemaTreeAssumption DEF Null
<1> HIDE DEF R
<1>3. Fits(R, d, FALSE)
      <=> \A c \in DOMAIN d.fields : c \in DOMAIN r /\ Fits(r[c].shape, d.fields[c], r[c].mixed)
    BY <1>1, <1>2, FitsParts
<1> QED BY <1>3 DEF R

\* The documents observed so far, and one more.
LEMMA ObservedOf ==
    ASSUME seen \in Seq(SampleDocs)
    PROVE  \A d \in Observed : d \in SampleDocs
BY DEF Observed

LEMMA ObservedNext ==
    ASSUME seen \in Seq(SampleDocs), NEW d \in SampleDocs, seen' = Append(seen, d)
    PROVE  Observed' = Observed \cup {d}
<1>1. /\ Len(seen) \in Nat /\ Len(seen') = Len(seen) + 1
      /\ \A i \in 1 .. Len(seen) : seen'[i] = seen[i]
      /\ seen'[Len(seen) + 1] = d
    BY AppendProperties
<1>2. 1 .. Len(seen') = (1 .. Len(seen)) \cup {Len(seen) + 1}
    BY <1>1
<1> QED BY <1>1, <1>2 DEF Observed

LEMMA FitsInvInit == ASSUME Recursion, Init PROVE FitsInv
<1>1. 1 .. Len(seen) = {}
    BY DEF Init
<1> QED BY <1>1, ShapesInvInit DEF FitsInv, Observed

LEMMA FitsInvStep == ASSUME Recursion, FitsInv, [Next]_vars PROVE FitsInv'
<1>1. ShapesInv /\ ShapesInv'
    BY ShapesInvStep DEF FitsInv
<1>2. ASSUME NEW d \in SampleDocs, Observe(d) PROVE FitsInv'
    <2>1. /\ \A c \in DOMAIN root : SlotWellFormed(root[c], MaxLevels - 1)
          /\ FitsEq /\ UnifyEq /\ ShapeOfEq /\ WellFormedEq /\ IsValueEq
        BY <1>1, RootWellFormed DEF Root, Recursion, ShapesInv
    <2>2. MaxLevels - 1 \in Nat /\ d.k = "Document" /\ IsValue(d, MaxLevels, MaxLevels) /\ MaxLevels \in Nat
        BY SchemaTreeAssumption
    <2>3. \A c \in DOMAIN d.fields : IsValue(d.fields[c], MaxLevels - 1, MaxLevels)
        BY <2>1, <2>2, IsValueParts
    <2>4. \A c \in DOMAIN d.fields :
             c \in DOMAIN root' /\ Fits(root'[c].shape, d.fields[c], root'[c].mixed)
        <3> TAKE c \in DOMAIN d.fields
        <3> DEFINE slot == IF c \in DOMAIN root THEN root[c] ELSE Empty
        <3>1. c \in DOMAIN root' /\ root'[c] = observe_value(slot, d.fields[c])
            BY <1>2 DEF Observe
        <3>2. slot = Empty \/ SlotWellFormed(slot, MaxLevels - 1)
            BY <2>1
        <3> HIDE DEF slot
        <3> QED BY <2>1, <2>2, <2>3, <3>1, <3>2, ObserveFits
    <2>5. ASSUME NEW c \in DOMAIN root, NEW v, Fits(root[c].shape, v, root[c].mixed)
          PROVE  c \in DOMAIN root' /\ Fits(root'[c].shape, v, root'[c].mixed)
        <3>1. /\ c \in DOMAIN root'
              /\ root'[c] = IF c \in DOMAIN d.fields THEN observe_value(root[c], d.fields[c]) ELSE root[c]
            BY <1>2 DEF Observe
        <3>2. CASE c \in DOMAIN d.fields
            BY <2>1, <2>2, <2>3, <2>5, <3>1, <3>2, ObserveFits
        <3>3. CASE c \notin DOMAIN d.fields
            BY <2>5, <3>1, <3>3
        <3> QED BY <3>2, <3>3
    <2>6. \A e \in Observed : Fits(Root', e, FALSE)
        <3> TAKE e \in Observed
        <3>1. e \in SampleDocs
            BY <1>1, ObservedOf DEF ShapesInv
        <3>2. \A c \in DOMAIN e.fields : c \in DOMAIN root /\ Fits(root[c].shape, e.fields[c], root[c].mixed)
            BY <2>1, <3>1, DocumentFits DEF FitsInv, Root
        <3> QED BY <2>1, <2>5, <3>1, <3>2, DocumentFits DEF Root
    <2>7. Fits(Root', d, FALSE)
        BY <2>1, <2>4, DocumentFits DEF Root
    <2>8. Observed' = Observed \cup {d}
        BY <1>1, <1>2, ObservedNext DEF Observe, ShapesInv
    <2> QED BY <1>1, <2>6, <2>7, <2>8 DEF FitsInv
<1>3. CASE UNCHANGED <<root, seen>>
    BY <1>1, <1>3 DEF FitsInv, Observed, Root
<1> QED BY <1>2, <1>3 DEF Next, Infer, Reload, vars

LEMMA FitsInvHolds == ASSUME Recursion PROVE Spec => []FitsInv
<1>1. Init => FitsInv
    BY FitsInvInit
<1>2. FitsInv /\ [Next]_vars => FitsInv'
    BY FitsInvStep
<1> QED BY <1>1, <1>2, PTL DEF Spec

\* What a document holds at a key without a dot is what its column is read at.
LEMMA PlainCell ==
    ASSUME Recursion, NEW c, NEW d, ~Dotted(c)
    PROVE  Cell(c, d) = decode(schema[c].type, Get(d, c))
<1>1. Parts[c] = <<c>>
    BY DEF Dotted
<1>2. Head(<<c>>) = c /\ Tail(<<c>>) = <<>> /\ <<c>> # <<>>
    OBVIOUS
<1>3. lookup_path(d, <<c>>) = lookup_path_(Get(d, c), <<>>)
    BY <1>2 DEF lookup_path
<1>4. lookup_path_(Get(d, c), <<>>) = Get(d, c)
    BY DEF Recursion, LookupEq, lookup_path
<1> QED BY <1>1, <1>3, <1>4 DEF Cell

\* A client is sent every value inference has seen with everything in it, whatever the
\* column's values mix and however deep they are, before a restart and after it.
THEOREM SampledIsSent == ASSUME Recursion PROVE Spec => []NothingSampledIsLost
<1>1. FitsInv => NothingSampledIsLost
    <2> SUFFICES ASSUME FitsInv, NEW c \in Columns, NEW d \in Observed, ~Dotted(c)
                 PROVE  Carries(value_to_json(Cell(c, d)), Get(d, c))
        BY DEF NothingSampledIsLost
    <2>1. schema = finish /\ c \in DOMAIN root
        BY SchemaColumns DEF FitsInv
    <2>2. Shape(root[c].shape) /\ schema[c].type = arrow_type(root[c].shape, <<c>>, 0).type
        BY <2>1, FinishedColumns DEF FitsInv, ShapesInv
    <2>3. \E m : Fits(root[c].shape, Get(d, c), m)
        <3>1. d \in SampleDocs
            BY ObservedOf DEF FitsInv, ShapesInv
        <3>2. CASE c \in DOMAIN d.fields
            <4>1. Get(d, c) = d.fields[c]
                BY <3>1, <3>2, SchemaTreeAssumption DEF Get
            <4> QED BY <3>1, <3>2, <4>1, DocumentFits DEF FitsInv, Root, Recursion
        <3>3. CASE c \notin DOMAIN d.fields
            BY <3>3 DEF Get, Fits
        <3> QED BY <3>2, <3>3
    <2>4. 0 + max_depth = max_depth /\ max_depth \in Nat /\ 0 \in Nat
        BY SchemaTreeAssumption
    <2> QED BY <2>2, <2>3, <2>4, ColumnCarries, PlainCell
<1> QED BY <1>1, FitsInvHolds, PTL
-------------------------------------------------------------------------------
(***************************************************************************)
(* What predicates rely on.                                                *)
(***************************************************************************)

\* Of a field whose slot fits the values, what its tag and its flag say is so.
LEMMA FieldTrusted ==
    ASSUME Recursion
    PROVE  \A h \in Nat : \A fs, path, total, values : \A depth \in Nat :
              /\ Shape(fs.shape) /\ depth + h = max_depth
              /\ \A v \in values : Fits(fs.shape, v, fs.mixed)
              => Trusted(FieldOf(fs, path, total, depth), values)
<1> DEFINE P(h) == \A fs, path, total, values : \A depth \in Nat :
                      /\ Shape(fs.shape) /\ depth + h = max_depth
                      /\ \A v \in values : Fits(fs.shape, v, fs.mixed)
                      => Trusted(FieldOf(fs, path, total, depth), values)
           S == {h \in Nat : P(h)}
<1>0. /\ ArrowTypeEq /\ WellFormedEq /\ FitsEq
      /\ \A field, values : Trusted_(field, values) <=> Trusted(field, values)
    BY DEF Recursion, TrustedEq
<1>1. ASSUME NEW h \in Nat, h > 0 => P(h - 1)
      PROVE  P(h)
    <2> SUFFICES ASSUME NEW fs, NEW path, NEW total, NEW values, NEW depth \in Nat,
                        Shape(fs.shape), depth + h = max_depth,
                        \A v \in values : Fits(fs.shape, v, fs.mixed),
                        NEW field, field = FieldOf(fs, path, total, depth)
                 PROVE  Trusted(field, values)
        OBVIOUS
    <2> DEFINE s == fs.shape
    <2>1. /\ field.type = arrow_type(s, path, depth).type
          /\ field.meta.bson = arrow_type(s, path, depth).tag
          /\ field.meta.mixed = fs.mixed
        BY DEF FieldOf, build_field
    <2>2. CASE fs.mixed
        BY <2>1, <2>2 DEF Trusted
    <2>3. CASE /\ s.k = "Document" /\ depth < max_depth
               /\ \E t : arrow_type(s, path, depth) =
                    [type |-> [t |-> "Struct",
                               fields |-> [f \in DOMAIN s.fields |->
                                              FieldOf(s.fields[f], Append(path, f), t, depth + 1)]],
                     tag |-> "Document"]
        <3> PICK t : arrow_type(s, path, depth) =
                    [type |-> [t |-> "Struct",
                               fields |-> [f \in DOMAIN s.fields |->
                                              FieldOf(s.fields[f], Append(path, f), t, depth + 1)]],
                     tag |-> "Document"]
            BY <2>3
        <3>1. h > 0 /\ h - 1 \in Nat /\ depth + 1 \in Nat /\ (depth + 1) + (h - 1) = max_depth
            BY <2>3, SchemaTreeAssumption
        <3>2. /\ field.type.t = "Struct" /\ DOMAIN field.type.fields = DOMAIN s.fields
              /\ \A f \in DOMAIN s.fields :
                    field.type.fields[f] = FieldOf(s.fields[f], Append(path, f), t, depth + 1)
            BY <2>1
        <3>3. \A f \in DOMAIN s.fields : Trusted(field.type.fields[f], {Get(v, f) : v \in values})
            <4> TAKE f \in DOMAIN s.fields
            <4>1. Shape(s.fields[f].shape)
                BY <1>0, <2>3, ShapeParts
            <4>2. \A v \in values : Fits(s.fields[f].shape, Get(v, f), s.fields[f].mixed)
                <5> TAKE v \in values
                <5>1. CASE v.k = "Document" /\ f \in DOMAIN v.fields
                    <6>1. v # Null
                        BY <5>1 DEF Null
                    <6>2. Fits(s.fields[f].shape, v.fields[f], s.fields[f].mixed)
                        BY <1>0, <2>3, <5>1, <6>1, FitsParts
                    <6> QED BY <5>1, <6>2 DEF Get
                <5>2. CASE ~(v.k = "Document" /\ f \in DOMAIN v.fields)
                    BY <5>2 DEF Get, Fits
                <5> QED BY <5>1, <5>2
            <4> DEFINE inner == {Get(v, f) : v \in values}
            <4>3. \A v \in inner : Fits(s.fields[f].shape, v, s.fields[f].mixed)
                BY <4>2
            <4> HIDE DEF inner
            <4>4. Trusted(FieldOf(s.fields[f], Append(path, f), t, depth + 1), inner)
                BY <1>1, <3>1, <4>1, <4>3
            <4> QED BY <3>2, <4>4 DEF inner
        <3> QED BY <1>0, <3>2, <3>3 DEF Trusted
    <2>4. CASE /\ s.k = "Array"
               /\ arrow_type(s, path, depth).type.t = "List" /\ arrow_type(s, path, depth).tag = "Array"
        BY <2>1, <2>4 DEF Trusted
    <2>5. CASE arrow_type(s, path, depth) = [type |-> [t |-> "Utf8"], tag |-> "Json"]
        <3>1. field.type.t = "Utf8" /\ field.meta.bson = "Json"
            BY <2>1, <2>5
        <3> QED BY <3>1 DEF Trusted
    <2>6. CASE ~fs.mixed /\ Leaf(s) /\ arrow_type(s, path, depth) = ScalarType(s.k)
        <3>1. s.k \in Scalars \cup {"Unknown"}
            BY <2>6 DEF Leaf
        <3> PICK t \in DOMAIN Stored \ {"Struct", "List"} : ScalarType(s.k) = [type |-> [t |-> t], tag |-> s.k]
            BY <3>1, ScalarColumns
        <3>2. field.type.t = t /\ t # "Struct" /\ field.meta.bson = s.k
            BY <2>1, <2>6
        <3>3. CASE s.k = "Json"
            BY <3>2, <3>3 DEF Trusted
        <3>4. CASE s.k # "Json"
            <4>1. \A v \in values : v = Null \/ Family(v.k) = Family(s.k)
                <5> TAKE v \in values
                <5> SUFFICES ASSUME v # Null PROVE Family(v.k) = Family(s.k)
                    OBVIOUS
                <5>1. Fits(s, v, fs.mixed)
                    OBVIOUS
                <5> HIDE DEF s
                <5>2. s.k # "Unknown"
                    BY <1>0, <5>1, FitsParts
                <5>3. s.k \in Scalars \ {"Json"}
                    BY <3>1, <3>4, <5>2
                <5>4. fs.mixed \/ Family(v.k) = Family(s.k)
                    <6>1. "Array" \notin Scalars /\ "Document" \notin Scalars
                        BY DEF Scalars
                    <6> QED BY <5>1, <5>3, <6>1 DEF Fits
                <5> QED BY <2>6, <5>4
            <4> QED BY <3>2, <4>1 DEF Trusted
        <3> QED BY <3>3, <3>4
    <2> HIDE DEF s
    <2>7. Kinded(s)
        BY <1>0, ShapeParts DEF s
    <2>8. CASE s.k = "Array" /\ depth < max_depth
               /\ arrow_type(s, path, depth) =
                    [type |-> [t |-> "List",
                               item |-> [type |-> arrow_type(s.of, path, depth + 1).type, nullable |-> TRUE,
                                         meta |-> [bson |-> arrow_type(s.of, path, depth + 1).tag]]],
                     tag |-> "Array"]
        BY <2>4, <2>8
    <2> QED BY <1>0, <2>2, <2>3, <2>5, <2>6, <2>7, <2>8, ArrowTypeCases
<1>2. Nat \subseteq S
    <2>1. ASSUME NEW h \in Nat, \A m \in 0 .. h - 1 : m \in S PROVE h \in S
        <3>1. h > 0 => h - 1 \in S
            BY <2>1
        <3> HIDE DEF P
        <3> QED BY <1>1, <3>1
    <2> HIDE DEF S
    <2> QED BY <2>1, NatSetInduction
<1> QED BY <1>2

\* A column or a field of one that is not marked as mixed held values of its tag's
\* family only, whatever was observed before and since: what $match is given for a
\* predicate means what the predicate says.
THEOREM UnmixedIsOneFamily == ASSUME Recursion PROVE Spec => []UnmixedMayBePushed
<1>1. FitsInv => UnmixedMayBePushed
    <2> SUFFICES ASSUME FitsInv, NEW c \in Columns, ~Dotted(c)
                 PROVE  Trusted(schema[c], {Get(d, c) : d \in Observed})
        BY DEF UnmixedMayBePushed
    <2>1. schema = finish /\ c \in DOMAIN root
        BY SchemaColumns DEF FitsInv
    <2>2. Shape(root[c].shape)
        BY <2>1, FinishedColumns DEF FitsInv, ShapesInv
    <2>3. schema[c] = FieldOf(root[c], <<c>>, docs_seen, 0)
        BY <2>1 DEF finish, FieldOf
    <2>4. \A d \in Observed : Fits(root[c].shape, Get(d, c), root[c].mixed)
        <3> TAKE d \in Observed
        <3>1. d \in SampleDocs
            BY ObservedOf DEF FitsInv, ShapesInv
        <3>2. CASE c \in DOMAIN d.fields
            <4>1. Get(d, c) = d.fields[c]
                BY <3>1, <3>2, SchemaTreeAssumption DEF Get
            <4> QED BY <3>1, <3>2, <4>1, DocumentFits DEF FitsInv, Root, Recursion
        <3>3. CASE c \notin DOMAIN d.fields
            BY <3>3 DEF Get, Fits
        <3> QED BY <3>2, <3>3
    <2> DEFINE values == {Get(d, c) : d \in Observed}
    <2>5. \A v \in values : Fits(root[c].shape, v, root[c].mixed)
        BY <2>4
    <2>6. 0 + max_depth = max_depth /\ max_depth \in Nat /\ 0 \in Nat
        BY SchemaTreeAssumption
    <2> HIDE DEF values
    <2>7. Trusted(FieldOf(root[c], <<c>>, docs_seen, 0), values)
        BY <2>2, <2>5, <2>6, FieldTrusted
    <2> QED BY <2>3, <2>7 DEF values
<1> QED BY <1>1, FitsInvHolds, PTL
-------------------------------------------------------------------------------
(***************************************************************************)
(* Counting.  Values are counted by their places; g takes the places of    *)
(* some values to the places of the same values among others.              *)
(***************************************************************************)
Embeds(g, us, vs) ==
    /\ g \in [DOMAIN us -> DOMAIN vs]
    /\ \A i, j \in DOMAIN us : g[i] = g[j] => i = j
    /\ \A i \in DOMAIN us : vs[g[i]] = us[i]

\* Two embeddings that share no place.
Apart(g, h) == \A i \in DOMAIN g, j \in DOMAIN h : g[i] # h[j]

\* Finitely many values, of some levels.
Value(v) == \E d, n \in Nat : IsValue(v, d, n)

Values(vs) == IsFiniteSet(DOMAIN vs) /\ \A i \in DOMAIN vs : Value(vs[i])

LEMMA ValueParts ==
    ASSUME IsValueEq, NEW v, Value(v)
    PROVE  /\ v.k = "Document" => \A f \in DOMAIN v.fields : Value(v.fields[f])
           /\ IsFiniteSet(DOMAIN Items(v)) /\ \A i \in DOMAIN Items(v) : Value(Items(v)[i])
<1>1. PICK d \in Nat, n \in Nat : IsValue(v, d, n)
    BY DEF Value
<1>2. ASSUME v.k = "Document", NEW f \in DOMAIN v.fields PROVE Value(v.fields[f])
    <2>1. d > 0 /\ IsValue(v.fields[f], d - 1, MaxLevels)
        BY <1>1, <1>2, IsValueParts
    <2>2. d - 1 \in Nat /\ MaxLevels \in Nat
        BY <2>1, SchemaTreeAssumption
    <2> QED BY <2>1, <2>2 DEF Value
<1> DEFINE I == Items(v)
           Finite == IsFiniteSet(DOMAIN I) /\ \A i \in DOMAIN I : Value(I[i])
<1>3. ASSUME v.k = "Array" PROVE Finite
    <2>0. /\ n > 0 /\ Len(v.items) \in Nat /\ DOMAIN v.items = 1 .. Len(v.items)
          /\ \A i \in DOMAIN v.items : IsValue(v.items[i], d, n - 1)
        BY <1>1, <1>3, IsValueParts
    <2>1. /\ Items(v) = v.items /\ n - 1 \in Nat
          /\ Len(v.items) \in Nat /\ DOMAIN v.items = 1 .. Len(v.items)
          /\ \A i \in DOMAIN v.items : IsValue(v.items[i], d, n - 1)
        BY <1>3, <2>0 DEF Items
    <2>2. IsFiniteSet(1 .. Len(v.items))
        BY <2>1, FS_Interval
    <2>3. \A i \in DOMAIN v.items : Value(v.items[i])
        BY <2>1 DEF Value
    <2> QED BY <2>1, <2>2, <2>3
<1>4. ASSUME v.k # "Array" PROVE Finite
    <2>1. DOMAIN I = {1} /\ I[1] = v
        BY <1>4 DEF Items
    <2> HIDE DEF I
    <2>2. IsFiniteSet(DOMAIN I)
        BY <2>1, FS_Singleton
    <2> QED BY <2>1, <2>2
<1> QED BY <1>2, <1>3, <1>4

LEMMA ValuesOfField ==
    ASSUME IsValueEq, NEW vs, Values(vs), NEW f
    PROVE  IsFiniteSet(Having(vs, f)) /\ Values(FieldsAt(vs, f))
<1>1. Having(vs, f) \in SUBSET DOMAIN vs
    BY DEF Having
<1>2. IsFiniteSet(Having(vs, f))
    BY <1>1, FS_Subset DEF Values
<1>3. DOMAIN FieldsAt(vs, f) = Having(vs, f)
      /\ \A i \in Having(vs, f) : FieldsAt(vs, f)[i] = vs[i].fields[f]
    BY DEF FieldsAt
<1>4. \A i \in Having(vs, f) : Value(vs[i].fields[f])
    BY ValueParts DEF Values, Having
<1> QED BY <1>2, <1>3, <1>4 DEF Values

\* The places of elements.
LEMMA ElementPlaces ==
    ASSUME NEW vs
    PROVE  /\ \A i, j : <<i, j>> \in DOMAIN Elements(vs) <=> i \in DOMAIN vs /\ j \in DOMAIN Items(vs[i])
           /\ \A p \in DOMAIN Elements(vs) : /\ p = <<p[1], p[2]>> /\ p[1] \in DOMAIN vs
                                             /\ p[2] \in DOMAIN Items(vs[p[1]])
                                             /\ Elements(vs)[p] = Items(vs[p[1]])[p[2]]
<1> DEFINE D == UNION {{i} \X DOMAIN Items(vs[i]) : i \in DOMAIN vs}
<1>1. Elements(vs) = [p \in D |-> Items(vs[p[1]])[p[2]]]
    BY DEF Elements
<1>2. \A i, j : <<i, j>> \in D <=> i \in DOMAIN vs /\ j \in DOMAIN Items(vs[i])
    OBVIOUS
<1>3. \A p \in D : p = <<p[1], p[2]>> /\ p[1] \in DOMAIN vs /\ p[2] \in DOMAIN Items(vs[p[1]])
    OBVIOUS
<1> HIDE DEF D
<1> QED BY <1>1, <1>2, <1>3

LEMMA ValuesOfElements ==
    ASSUME IsValueEq, NEW vs, Values(vs)
    PROVE  Values(Elements(vs))
<1> DEFINE Row == [i \in DOMAIN vs |-> {i} \X DOMAIN Items(vs[i])]
           R == {Row[i] : i \in DOMAIN vs}
<1>1. IsFiniteSet(R)
    <2>1. Row \in [DOMAIN vs -> R] /\ \A r \in R : \E i \in DOMAIN vs : Row[i] = r
        OBVIOUS
    <2> HIDE DEF Row, R
    <2>2. Row \in Surjection(DOMAIN vs, R)
        BY <2>1, Fun_IsSurj
    <2> QED BY <2>2, FS_Surjection DEF Values
<1>2. \A r \in R : IsFiniteSet(r)
    <2> TAKE r \in R
    <2>1. PICK i \in DOMAIN vs : r = {i} \X DOMAIN Items(vs[i])
        OBVIOUS
    <2>2. IsFiniteSet({i}) /\ IsFiniteSet(DOMAIN Items(vs[i]))
        BY FS_Singleton, ValueParts DEF Values
    <2> QED BY <2>1, <2>2, FS_Product
<1>3. DOMAIN Elements(vs) = UNION R
    BY DEF Elements
<1>4. IsFiniteSet(DOMAIN Elements(vs))
    <2> HIDE DEF R
    <2> QED BY <1>1, <1>2, <1>3, FS_UNION
<1>5. \A p \in DOMAIN Elements(vs) : Value(Elements(vs)[p])
    BY ElementPlaces, ValueParts DEF Values
<1> QED BY <1>4, <1>5 DEF Values
\* Embeddings of the values of a field, of elements, and of values that are no arrays
\* among elements.
AtField(g, us, f) == [i \in Having(us, f) |-> g[i]]

AtElements(g, us) == [p \in DOMAIN Elements(us) |-> <<g[p[1]], p[2]>>]

Lone(us) == [i \in {j \in DOMAIN us : us[j].k # "Array"} |-> us[i]]

AtLone(g, us) == [i \in DOMAIN Lone(us) |-> <<g[i], 1>>]

LEMMA FieldEmbeds ==
    ASSUME NEW g, NEW us, NEW vs, Embeds(g, us, vs), NEW f
    PROVE  /\ Embeds(AtField(g, us, f), FieldsAt(us, f), FieldsAt(vs, f))
           /\ AtField(g, us, f) \in [Having(us, f) -> Having(vs, f)]
<1>1. /\ DOMAIN FieldsAt(us, f) = Having(us, f) /\ DOMAIN FieldsAt(vs, f) = Having(vs, f)
      /\ \A i \in Having(us, f) : i \in DOMAIN us /\ FieldsAt(us, f)[i] = us[i].fields[f]
      /\ \A i \in Having(vs, f) : FieldsAt(vs, f)[i] = vs[i].fields[f]
    BY DEF FieldsAt, Having
<1>2. \A i \in Having(us, f) : g[i] \in Having(vs, f) /\ vs[g[i]] = us[i]
    BY DEF Having, Embeds
<1> DEFINE e == AtField(g, us, f)
<1>3. e \in [Having(us, f) -> Having(vs, f)] /\ \A i \in Having(us, f) : e[i] = g[i]
    BY <1>2 DEF AtField
<1> HIDE DEF e
<1>4. Embeds(e, FieldsAt(us, f), FieldsAt(vs, f))
    BY <1>1, <1>2, <1>3 DEF Embeds
<1> QED BY <1>3, <1>4 DEF e

LEMMA ElementsEmbed ==
    ASSUME NEW g, NEW us, NEW vs, Embeds(g, us, vs)
    PROVE  Embeds(AtElements(g, us), Elements(us), Elements(vs))
<1> DEFINE D == DOMAIN Elements(us)
           e == AtElements(g, us)
<1>1. \A p \in D : /\ p = <<p[1], p[2]>> /\ p[1] \in DOMAIN us /\ p[2] \in DOMAIN Items(us[p[1]])
                   /\ Elements(us)[p] = Items(us[p[1]])[p[2]]
    BY ElementPlaces
<1>2. e = [p \in D |-> <<g[p[1]], p[2]>>]
    BY DEF AtElements
<1> HIDE DEF D, e
<1>3. \A p \in D : /\ <<g[p[1]], p[2]>> \in DOMAIN Elements(vs)
                   /\ Elements(vs)[<<g[p[1]], p[2]>>] = Elements(us)[p]
    <2> TAKE p \in D
    <2> DEFINE i == g[p[1]]
               j == p[2]
    <2>1. i \in DOMAIN vs /\ vs[i] = us[p[1]]
        BY <1>1 DEF Embeds
    <2>2. j \in DOMAIN Items(vs[i]) /\ Elements(us)[p] = Items(vs[i])[j]
        BY <1>1, <2>1
    <2> HIDE DEF i, j
    <2>3. <<i, j>> \in DOMAIN Elements(vs)
        BY <2>1, <2>2, ElementPlaces
    <2>4. <<i, j>>[1] = i /\ <<i, j>>[2] = j
        OBVIOUS
    <2>5. Elements(vs)[<<i, j>>] = Items(vs[i])[j]
        BY <2>3, <2>4, ElementPlaces
    <2> QED BY <2>2, <2>3, <2>5 DEF i, j
<1>4. e \in [D -> DOMAIN Elements(vs)]
    BY <1>2, <1>3
<1>5. ASSUME NEW p \in D, NEW q \in D, e[p] = e[q] PROVE p = q
    <2>1. g[p[1]] = g[q[1]] /\ p[2] = q[2]
        BY <1>2, <1>5
    <2>2. p[1] = q[1]
        BY <1>1, <2>1 DEF Embeds
    <2> QED BY <1>1, <2>1, <2>2
<1> QED BY <1>2, <1>3, <1>4, <1>5 DEF Embeds, D, e

LEMMA LoneEmbeds ==
    ASSUME NEW g, NEW us, NEW vs, Embeds(g, us, vs)
    PROVE  Embeds(AtLone(g, us), Lone(us), Elements(vs))
<1> DEFINE D == DOMAIN Lone(us)
           e == AtLone(g, us)
<1>1. /\ D \subseteq DOMAIN us
      /\ \A i \in D : us[i].k # "Array" /\ Lone(us)[i] = us[i]
    BY DEF Lone
<1>2. e = [i \in D |-> <<g[i], 1>>]
    BY DEF AtLone
<1> HIDE DEF D, e
<1>3. \A i \in D : <<g[i], 1>> \in DOMAIN Elements(vs) /\ Elements(vs)[<<g[i], 1>>] = Lone(us)[i]
    <2> TAKE i \in D
    <2> DEFINE j == g[i]
    <2>1. j \in DOMAIN vs /\ vs[j] = us[i]
        BY <1>1 DEF Embeds
    <2>2. Items(vs[j]) = <<us[i]>>
        BY <1>1, <2>1 DEF Items
    <2>3. 1 \in DOMAIN Items(vs[j]) /\ Items(vs[j])[1] = us[i]
        BY <2>2
    <2> HIDE DEF j
    <2>4. <<j, 1>> \in DOMAIN Elements(vs)
        BY <2>1, <2>3, ElementPlaces
    <2>5. <<j, 1>>[1] = j /\ <<j, 1>>[2] = 1
        OBVIOUS
    <2>6. Elements(vs)[<<j, 1>>] = Items(vs[j])[1]
        BY <2>4, <2>5, ElementPlaces
    <2> QED BY <1>1, <2>3, <2>4, <2>6 DEF j
<1>4. e \in [D -> DOMAIN Elements(vs)]
    BY <1>2, <1>3
<1>5. ASSUME NEW p \in D, NEW q \in D, e[p] = e[q] PROVE p = q
    <2>1. g[p] = g[q]
        BY <1>2, <1>5
    <2> QED BY <1>1, <2>1 DEF Embeds
<1> QED BY <1>2, <1>3, <1>4, <1>5 DEF Embeds, D, e

\* They share no place where the embeddings they are made of share none.
LEMMA StillApart ==
    ASSUME NEW g, NEW h, NEW us, NEW ws, Apart(g, h), DOMAIN g = DOMAIN us, DOMAIN h = DOMAIN ws
    PROVE  /\ \A f : Apart(AtField(g, us, f), AtField(h, ws, f))
           /\ Apart(AtElements(g, us), AtElements(h, ws))
           /\ Apart(AtElements(g, us), AtLone(h, ws))
<1>1. \A f : Apart(AtField(g, us, f), AtField(h, ws, f))
    BY DEF Apart, AtField, Having
<1>2. Apart(AtElements(g, us), AtElements(h, ws))
    <2> SUFFICES ASSUME NEW p \in DOMAIN Elements(us), NEW q \in DOMAIN Elements(ws)
                 PROVE  <<g[p[1]], p[2]>> # <<h[q[1]], q[2]>>
        BY DEF Apart, AtElements
    <2>1. p[1] \in DOMAIN us /\ q[1] \in DOMAIN ws
        BY ElementPlaces
    <2> QED BY <2>1 DEF Apart
<1>3. Apart(AtElements(g, us), AtLone(h, ws))
    <2> SUFFICES ASSUME NEW p \in DOMAIN Elements(us), NEW j \in DOMAIN Lone(ws)
                 PROVE  <<g[p[1]], p[2]>> # <<h[j], 1>>
        BY DEF Apart, AtElements, AtLone
    <2>1. p[1] \in DOMAIN us /\ j \in DOMAIN ws
        BY ElementPlaces DEF Lone
    <2> QED BY <2>1 DEF Apart
<1> QED BY <1>1, <1>2, <1>3

\* Places that are embedded apart are at most as many as there are.
LEMMA PlacesApart ==
    ASSUME NEW R, NEW S, NEW T, IsFiniteSet(T),
           NEW g \in [R -> T], NEW h \in [S -> T], Apart(g, h),
           \A i, j \in R : g[i] = g[j] => i = j, \A i, j \in S : h[i] = h[j] => i = j
    PROVE  /\ Cardinality(R) \in Nat /\ Cardinality(S) \in Nat /\ Cardinality(T) \in Nat
           /\ Cardinality(R) + Cardinality(S) <= Cardinality(T)
<1> DEFINE G == {g[i] : i \in R}
           H == {h[i] : i \in S}
<1>1. IsFiniteSet(G) /\ IsFiniteSet(H) /\ G \subseteq T /\ H \subseteq T /\ G \cap H = {}
    <2>1. G \subseteq T /\ H \subseteq T
        OBVIOUS
    <2>2. G \cap H = {}
        BY DEF Apart
    <2> QED BY <2>1, <2>2, FS_Subset
<1>2. Cardinality(R) = Cardinality(G) /\ IsFiniteSet(R)
    <2>1. g \in [R -> G] /\ \A x \in G : \E i \in R : g[i] = x
        OBVIOUS
    <2> HIDE DEF G
    <2>2. g \in Injection(R, G) /\ g \in Surjection(R, G)
        BY <2>1, Fun_IsInj, Fun_IsSurj
    <2> QED BY <1>1, <2>2, FS_Injection
<1>3. Cardinality(S) = Cardinality(H) /\ IsFiniteSet(S)
    <2>1. h \in [S -> H] /\ \A x \in H : \E i \in S : h[i] = x
        OBVIOUS
    <2> HIDE DEF H
    <2>2. h \in Injection(S, H) /\ h \in Surjection(S, H)
        BY <2>1, Fun_IsInj, Fun_IsSurj
    <2> QED BY <1>1, <2>2, FS_Injection
<1> HIDE DEF G, H
<1>4. /\ Cardinality(G \cup H) = Cardinality(G) + Cardinality(H) - Cardinality(G \cap H)
      /\ Cardinality(G \cap H) = 0
    BY <1>1, FS_Union, FS_EmptySet
<1>5. Cardinality(G \cup H) <= Cardinality(T)
    BY <1>1, FS_Subset
<1>6. Cardinality(G) \in Nat /\ Cardinality(H) \in Nat /\ Cardinality(T) \in Nat
    BY <1>1, FS_CardinalityType
<1> QED BY <1>2, <1>3, <1>4, <1>5, <1>6
\* Counted by the kind of shape.
LEMMA CountedParts ==
    ASSUME CountedEq, NEW s, NEW vs
    PROVE  /\ s.k = "Document" =>
                 (Counted(s, vs) <=> \A f \in DOMAIN s.fields :
                                        /\ s.fields[f].present <= Cardinality(Having(vs, f))
                                        /\ Counted(s.fields[f].shape, FieldsAt(vs, f)))
           /\ s.k = "Array" => (Counted(s, vs) <=> Counted(s.of, Elements(vs)))
           /\ s.k \notin {"Document", "Array"} => Counted(s, vs)
<1>1. CASE s.k = "Document"
    <2>1. Counted(s, vs) <=> \A f \in DOMAIN s.fields :
                                /\ s.fields[f].present <= Cardinality(Having(vs, f))
                                /\ Counted_(s.fields[f].shape, FieldsAt(vs, f))
        BY <1>1 DEF Counted
    <2> QED BY <1>1, <2>1 DEF CountedEq
<1>2. CASE s.k = "Array"
    BY <1>2 DEF Counted, CountedEq
<1>3. CASE s.k \notin {"Document", "Array"}
    BY <1>3 DEF Counted
<1> QED BY <1>1, <1>2, <1>3

\* A key is met among more values at least as often.
LEMMA HavingMore ==
    ASSUME IsValueEq, NEW g, NEW us, NEW vs, Embeds(g, us, vs), Values(vs), NEW f
    PROVE  /\ Cardinality(Having(us, f)) \in Nat /\ Cardinality(Having(vs, f)) \in Nat
           /\ Cardinality(Having(us, f)) <= Cardinality(Having(vs, f))
<1> DEFINE e == AtField(g, us, f)
<1>1. e \in [Having(us, f) -> Having(vs, f)] /\ \A i, j \in Having(us, f) : e[i] = e[j] => i = j
    <2>1. DOMAIN FieldsAt(us, f) = Having(us, f)
        BY DEF FieldsAt
    <2> HIDE DEF e
    <2> QED BY <2>1, FieldEmbeds DEF Embeds, e
<1> HIDE DEF e
<1>2. e \in Injection(Having(us, f), Having(vs, f))
    BY <1>1, Fun_IsInj
<1>3. IsFiniteSet(Having(vs, f))
    BY ValuesOfField
<1> QED BY <1>2, <1>3, FS_Injection, FS_CardinalityType

\* What is not counted too often among some values is not among more.
LEMMA CountedEmbeds ==
    ASSUME WellFormedEq, CountedEq, IsValueEq
    PROVE  \A d, n \in Nat : \A s : WellFormed(s, d, n) =>
              \A g, us, vs : Embeds(g, us, vs) /\ Values(vs) /\ Counted(s, us) => Counted(s, vs)
<1> DEFINE P(d, n) == \A s : WellFormed(s, d, n) =>
              \A g, us, vs : Embeds(g, us, vs) /\ Values(vs) /\ Counted(s, us) => Counted(s, vs)
           S == {p \in Nat \X Nat : P(p[1], p[2])}
<1>1. ASSUME NEW d \in Nat, NEW n \in Nat,
             d > 0 => \A m \in Nat : P(d - 1, m),
             n > 0 => P(d, n - 1)
      PROVE  P(d, n)
    <2> SUFFICES ASSUME NEW s, WellFormed(s, d, n), NEW g, NEW us, NEW vs,
                        Embeds(g, us, vs), Values(vs), Counted(s, us)
                 PROVE  Counted(s, vs)
        OBVIOUS
    <2>1. CASE s.k = "Document"
        <3>1. /\ d > 0 /\ \A f \in DOMAIN s.fields : SlotWellFormed(s.fields[f], d - 1)
              /\ MaxLevels \in Nat
            BY <2>1, WellFormedParts, SchemaTreeAssumption
        <3>2. \A f \in DOMAIN s.fields : /\ s.fields[f].present <= Cardinality(Having(us, f))
                                         /\ Counted(s.fields[f].shape, FieldsAt(us, f))
            BY <2>1, CountedParts
        <3>3. \A f \in DOMAIN s.fields : /\ s.fields[f].present <= Cardinality(Having(vs, f))
                                         /\ Counted(s.fields[f].shape, FieldsAt(vs, f))
            <4> TAKE f \in DOMAIN s.fields
            <4>1. s.fields[f].present \in Nat /\ WellFormed(s.fields[f].shape, d - 1, MaxLevels)
                BY <3>1 DEF SlotWellFormed
            <4>2. s.fields[f].present <= Cardinality(Having(vs, f))
                BY <3>2, <4>1, HavingMore
            <4>3. Embeds(AtField(g, us, f), FieldsAt(us, f), FieldsAt(vs, f)) /\ Values(FieldsAt(vs, f))
                BY FieldEmbeds, ValuesOfField
            <4>4. Counted(s.fields[f].shape, FieldsAt(vs, f))
                BY <1>1, <3>1, <3>2, <4>1, <4>3
            <4> QED BY <4>2, <4>4
        <3> QED BY <2>1, <3>3, CountedParts
    <2>2. CASE s.k = "Array"
        <3>1. n > 0 /\ WellFormed(s.of, d, n - 1)
            BY <2>2, WellFormedParts
        <3>2. Counted(s.of, Elements(us))
            BY <2>2, CountedParts
        <3>3. Embeds(AtElements(g, us), Elements(us), Elements(vs)) /\ Values(Elements(vs))
            BY ElementsEmbed, ValuesOfElements
        <3>4. Counted(s.of, Elements(vs))
            BY <1>1, <3>1, <3>2, <3>3
        <3> QED BY <2>2, <3>4, CountedParts
    <2>3. CASE s.k \notin {"Document", "Array"}
        BY <2>3, CountedParts
    <2> QED BY <2>1, <2>2, <2>3
<1>2. \A d, n \in Nat : <<d, n>> \in S
    <2>1. ASSUME NEW d \in Nat, NEW n \in Nat,
                 d > 0 => \A m \in Nat : <<d - 1, m>> \in S,
                 n > 0 => <<d, n - 1>> \in S
          PROVE  <<d, n>> \in S
        <3> HIDE DEF P
        <3> QED BY <1>1, <2>1
    <2> HIDE DEF S
    <2> QED BY <2>1, LevelInduction
<1> QED BY <1>2

\* Of a shape that is no array's, only values that are no arrays matter.
LEMMA CountedLone ==
    ASSUME CountedEq, NEW s, s.k # "Array", NEW us, Counted(s, us)
    PROVE  Counted(s, Lone(us))
<1>1. CASE s.k = "Document"
    <2>1. \A f : Having(Lone(us), f) = Having(us, f) /\ FieldsAt(Lone(us), f) = FieldsAt(us, f)
        <3> TAKE f
        <3>1. Having(Lone(us), f) = Having(us, f)
            BY DEF Having, Lone
        <3>2. \A i \in Having(us, f) : Lone(us)[i] = us[i]
            BY DEF Having, Lone
        <3> QED BY <3>1, <3>2 DEF FieldsAt
    <2> QED BY <1>1, <2>1, CountedParts
<1>2. CASE s.k # "Document"
    BY <1>2, CountedParts
<1> QED BY <1>1, <1>2

\* What unify() makes of two shapes counts no key more often than it was there, as long
\* as no value was counted in both.
Together(g, h, us, ws, vs) ==
    /\ Embeds(g, us, vs) /\ Embeds(h, ws, vs) /\ Apart(g, h) /\ Values(vs)

LEMMA UnifyCounted ==
    ASSUME UnifyEq, WellFormedEq, CountedEq, IsValueEq
    PROVE  \A d, n \in Nat : \A a, b : WellFormed(a, d, n) /\ WellFormed(b, d, n) =>
              \A g, h, us, ws, vs : Together(g, h, us, ws, vs) /\ Counted(a, us) /\ Counted(b, ws)
                                    => Counted(unify(a, b).shape, vs)
<1> DEFINE Q(a, b) == \A g, h, us, ws, vs : Together(g, h, us, ws, vs) /\ Counted(a, us) /\ Counted(b, ws)
                                    => Counted(unify(a, b).shape, vs)
           P(d, n) == \A a, b : WellFormed(a, d, n) /\ WellFormed(b, d, n) => Q(a, b)
           S == {p \in Nat \X Nat : P(p[1], p[2])}
<1>1. ASSUME NEW d \in Nat, NEW n \in Nat,
             d > 0 => \A m \in Nat : P(d - 1, m),
             n > 0 => P(d, n - 1)
      PROVE  P(d, n)
    <2> SUFFICES ASSUME NEW a, NEW b, WellFormed(a, d, n), WellFormed(b, d, n),
                        NEW g, NEW h, NEW us, NEW ws, NEW vs,
                        Embeds(g, us, vs), Embeds(h, ws, vs), Apart(g, h), Values(vs),
                        Counted(a, us), Counted(b, ws)
                 PROVE  Counted(unify(a, b).shape, vs)
        BY DEF Together
    <2>1. /\ Kinded(a) /\ Kinded(b)
          /\ a.k = "Array" => n > 0 /\ WellFormed(a.of, d, n - 1)
          /\ b.k = "Array" => n > 0 /\ WellFormed(b.of, d, n - 1)
          /\ a.k # "Array" /\ n > 0 => WellFormed(a, d, n - 1)
          /\ b.k # "Array" /\ n > 0 => WellFormed(b, d, n - 1)
        BY WellFormedParts
    <2>2. DOMAIN g = DOMAIN us /\ DOMAIN h = DOMAIN ws
        BY DEF Embeds
    <2>3. Apart(h, g)
        BY DEF Apart
    <2>4. CASE Keeps(a, b)
        <3>1. unify(a, b).shape \in {a, b}
            BY <2>4 DEF Joined, Keeps
        <3>2. Counted(a, vs) /\ Counted(b, vs)
            BY CountedEmbeds
        <3> QED BY <3>1, <3>2
    <2>5. CASE JoinsToText(a, b)
        <3>1. unify(a, b).shape.k = "Json"
            BY <2>5 DEF Joined, Json, JoinsToText
        <3> QED BY <3>1, CountedParts
    <2>6. ASSUME NEW x, NEW y, JoinsItems(a, b, x, y)
          PROVE  Counted(unify(a, b).shape, vs)
        <3>1. "Document" # "Array" /\ "Array" \notin Scalars
            BY DEF Scalars
        <3>2. n > 0 /\ WellFormed(x, d, n - 1) /\ WellFormed(y, d, n - 1)
            BY <2>1, <2>6, <3>1 DEF JoinsItems
        <3>3. unify(a, b).shape = [k |-> "Array", of |-> unify(x, y).shape]
            BY <2>6 DEF ArrayOf, Joined, UnifyEq, JoinsItems
        <3>4. Values(Elements(vs))
            BY ValuesOfElements
        <3>5. Q(x, y)
            BY <1>1, <3>2
        <3>6. Counted(unify(x, y).shape, Elements(vs))
            <4>1. CASE a.k = "Array" /\ x = a.of /\ b.k = "Array" /\ y = b.of
                <5>1. Counted(x, Elements(us)) /\ Counted(y, Elements(ws))
                    BY <4>1, CountedParts
                <5>2. Together(AtElements(g, us), AtElements(h, ws), Elements(us), Elements(ws), Elements(vs))
                    BY <2>2, <3>4, ElementsEmbed, StillApart DEF Together
                <5> QED BY <3>5, <5>1, <5>2
            <4>2. CASE a.k = "Array" /\ x = a.of /\ b.k # "Array" /\ y = b
                <5>1. Counted(x, Elements(us)) /\ Counted(y, Lone(ws))
                    BY <4>2, CountedParts, CountedLone
                <5>2. Together(AtElements(g, us), AtLone(h, ws), Elements(us), Lone(ws), Elements(vs))
                    BY <2>2, <3>4, ElementsEmbed, LoneEmbeds, StillApart DEF Together
                <5> QED BY <3>5, <5>1, <5>2
            <4>3. CASE b.k = "Array" /\ x = b.of /\ a.k # "Array" /\ y = a
                <5>1. Counted(x, Elements(ws)) /\ Counted(y, Lone(us))
                    BY <4>3, CountedParts, CountedLone
                <5>2. Together(AtElements(h, ws), AtLone(g, us), Elements(ws), Lone(us), Elements(vs))
                    BY <2>2, <2>3, <3>4, ElementsEmbed, LoneEmbeds, StillApart DEF Together
                <5> QED BY <3>5, <5>1, <5>2
            <4> QED BY <2>6, <3>1, <4>1, <4>2, <4>3 DEF JoinsItems
        <3> HIDE DEF Q
        <3> QED BY <3>3, <3>6, CountedParts
    <2>7. CASE JoinsFields(a, b)
        <3> DEFINE M == Merge(a.fields, b.fields)
                   s == unify(a, b).shape
        <3>1. /\ d > 0 /\ d - 1 \in Nat /\ MaxLevels \in Nat
              /\ \A f \in DOMAIN a.fields : SlotWellFormed(a.fields[f], d - 1)
              /\ \A f \in DOMAIN b.fields : SlotWellFormed(b.fields[f], d - 1)
            BY <2>7, WellFormedParts, SchemaTreeAssumption DEF JoinsFields
        <3>2. s.k = "Document" /\ s.fields = M
            BY <2>7 DEF Joined, JoinsFields
        <3>3. DOMAIN M = DOMAIN a.fields \cup DOMAIN b.fields
            BY DEF Merge
        <3>4. /\ \A f \in DOMAIN a.fields : /\ a.fields[f].present <= Cardinality(Having(us, f))
                                            /\ Counted(a.fields[f].shape, FieldsAt(us, f))
              /\ \A f \in DOMAIN b.fields : /\ b.fields[f].present <= Cardinality(Having(ws, f))
                                            /\ Counted(b.fields[f].shape, FieldsAt(ws, f))
            BY <2>7, CountedParts DEF JoinsFields
        <3>5. ASSUME NEW f \in DOMAIN M
              PROVE  M[f].present <= Cardinality(Having(vs, f)) /\ Counted(M[f].shape, FieldsAt(vs, f))
            <4>1. /\ Embeds(AtField(g, us, f), FieldsAt(us, f), FieldsAt(vs, f))
                  /\ Embeds(AtField(h, ws, f), FieldsAt(ws, f), FieldsAt(vs, f))
                  /\ Values(FieldsAt(vs, f))
                BY FieldEmbeds, ValuesOfField
            <4>2. CASE f \notin DOMAIN b.fields
                <5>1. f \in DOMAIN a.fields /\ M[f] = a.fields[f]
                    BY <3>3, <4>2 DEF Merge
                <5>2. M[f].present \in Nat /\ WellFormed(M[f].shape, d - 1, MaxLevels)
                    BY <3>1, <5>1 DEF SlotWellFormed
                <5>3. Counted(M[f].shape, FieldsAt(vs, f))
                    BY <3>1, <3>4, <4>1, <5>1, <5>2, CountedEmbeds
                <5> QED BY <3>4, <5>1, <5>2, <5>3, HavingMore
            <4>3. CASE f \notin DOMAIN a.fields
                <5>1. f \in DOMAIN b.fields /\ M[f] = b.fields[f]
                    BY <3>3, <4>3 DEF Merge
                <5>2. M[f].present \in Nat /\ WellFormed(M[f].shape, d - 1, MaxLevels)
                    BY <3>1, <5>1 DEF SlotWellFormed
                <5>3. Counted(M[f].shape, FieldsAt(vs, f))
                    BY <3>1, <3>4, <4>1, <5>1, <5>2, CountedEmbeds
                <5> QED BY <3>4, <5>1, <5>2, <5>3, HavingMore
            <4>4. CASE f \in DOMAIN a.fields /\ f \in DOMAIN b.fields
                <5>1. /\ M[f].shape = unify(a.fields[f].shape, b.fields[f].shape).shape
                      /\ M[f].present = a.fields[f].present + b.fields[f].present
                    BY <3>3, <4>4 DEF Merge, UnifyEq
                <5>2. /\ a.fields[f].present \in Nat /\ WellFormed(a.fields[f].shape, d - 1, MaxLevels)
                      /\ b.fields[f].present \in Nat /\ WellFormed(b.fields[f].shape, d - 1, MaxLevels)
                    BY <3>1, <4>4 DEF SlotWellFormed
                <5>3. Apart(AtField(g, us, f), AtField(h, ws, f))
                    BY <2>2, StillApart
                <5>4. Cardinality(Having(us, f)) + Cardinality(Having(ws, f)) <= Cardinality(Having(vs, f))
                      /\ Cardinality(Having(us, f)) \in Nat /\ Cardinality(Having(ws, f)) \in Nat
                      /\ Cardinality(Having(vs, f)) \in Nat
                    <6>1. /\ AtField(g, us, f) \in [Having(us, f) -> Having(vs, f)]
                          /\ AtField(h, ws, f) \in [Having(ws, f) -> Having(vs, f)]
                          /\ IsFiniteSet(Having(vs, f))
                        BY FieldEmbeds, ValuesOfField
                    <6>2. DOMAIN FieldsAt(us, f) = Having(us, f) /\ DOMAIN FieldsAt(ws, f) = Having(ws, f)
                        BY DEF FieldsAt
                    <6>3. /\ \A i, j \in Having(us, f) : AtField(g, us, f)[i] = AtField(g, us, f)[j] => i = j
                          /\ \A i, j \in Having(ws, f) : AtField(h, ws, f)[i] = AtField(h, ws, f)[j] => i = j
                        BY <4>1, <6>2 DEF Embeds
                    <6> QED BY <5>3, <6>1, <6>3, PlacesApart
                <5>5. M[f].present <= Cardinality(Having(vs, f))
                    <6> HIDE DEF M
                    <6> QED BY <3>4, <4>4, <5>1, <5>2, <5>4
                <5>6. Together(AtField(g, us, f), AtField(h, ws, f),
                               FieldsAt(us, f), FieldsAt(ws, f), FieldsAt(vs, f))
                    BY <4>1, <5>3 DEF Together
                <5>7. Q(a.fields[f].shape, b.fields[f].shape)
                    BY <1>1, <3>1, <5>2
                <5>8. Counted(M[f].shape, FieldsAt(vs, f))
                    BY <3>4, <4>4, <5>1, <5>6, <5>7
                <5> QED BY <5>5, <5>8
            <4> QED BY <3>3, <4>2, <4>3, <4>4
        <3> HIDE DEF M, s, Q
        <3>6. Counted(s, vs)
            BY <3>2, <3>5, CountedParts
        <3> QED BY <3>6 DEF s
    <2>8. CASE JoinsScalars(a, b)
        <3>1. unify(a, b).shape.k \in Scalars
            <4> PICK x \in Scalars \ {"Json"}, y \in Scalars \ {"Json"} :
                    /\ x # y /\ JoinKinds({x, y}) # "Json"
                    /\ unify(a, b) = Joined([k |-> JoinKinds({x, y})], {x, y} = {"ObjectId", "Utf8"})
                BY <2>8 DEF JoinsScalars
            <4>1. JoinKinds({x, y}) \in Scalars
                BY JoinKindsOfScalars
            <4> QED BY <4>1 DEF Joined
        <3>2. unify(a, b).shape.k \notin {"Document", "Array"}
            BY <3>1 DEF Scalars
        <3> QED BY <3>2, CountedParts
    <2> QED BY <2>1, <2>4, <2>5, <2>6, <2>7, <2>8, UnifyCases
<1>2. \A d, n \in Nat : <<d, n>> \in S
    <2>1. ASSUME NEW d \in Nat, NEW n \in Nat,
                 d > 0 => \A m \in Nat : <<d - 1, m>> \in S,
                 n > 0 => <<d, n - 1>> \in S
          PROVE  <<d, n>> \in S
        <3> HIDE DEF P
        <3> QED BY <1>1, <2>1
    <2> HIDE DEF S
    <2> QED BY <2>1, LevelInduction
<1> QED BY <1>2
\* One value by itself, and one more at a place of its own.
One(v) == [i \in {1} |-> v]

Adds(i, us, vs) ==
    /\ i \notin DOMAIN us /\ DOMAIN vs = DOMAIN us \cup {i}
    /\ \A j \in DOMAIN us : vs[j] = us[j]

LEMMA NextCounted ==
    ASSUME UnifyEq, WellFormedEq, CountedEq, IsValueEq, NEW d \in Nat, NEW n \in Nat,
           NEW a, NEW b, WellFormed(a, d, n), WellFormed(b, d, n),
           NEW us, NEW vs, NEW i, Adds(i, us, vs), Values(vs), Counted(a, us), Counted(b, One(vs[i]))
    PROVE  Counted(unify(a, b).shape, vs)
<1> DEFINE g == [j \in DOMAIN us |-> j]
           h == [j \in {1} |-> i]
<1>1. Embeds(g, us, vs) /\ Embeds(h, One(vs[i]), vs) /\ Apart(g, h)
    BY DEF Adds, Embeds, One, Apart
<1> HIDE DEF g, h
<1>2. Together(g, h, us, One(vs[i]), vs)
    BY <1>1 DEF Together
<1> QED BY <1>2, UnifyCounted

\* The first items of an array.
First(items, n) == [j \in 1 .. n |-> items[j]]

LEMMA JoinedCounted ==
    ASSUME UnifyEq, ShapeOfEq, WellFormedEq, CountedEq, IsValueEq,
           NEW items, NEW l \in Nat, NEW d \in Nat, NEW n \in Nat,
           \A i \in 1 .. l : /\ IsValue(items[i], d, n) /\ WellFormed(shape_of(items[i]), d, n)
                             /\ Counted(shape_of(items[i]), One(items[i]))
    PROVE  \A i \in 0 .. l : Counted(joined(items, i), First(items, i))
<1> DEFINE S == {i \in Nat : i <= l => Counted(joined(items, i), First(items, i))}
<1>1. ASSUME NEW i \in Nat, \A m \in 0 .. i - 1 : m \in S
      PROVE  i \in S
    <2>1. CASE i = 0
        <3>1. joined(items, i).k = "Unknown"
            BY <2>1, JoinedStep DEF Null
        <3> QED BY <3>1, CountedParts
    <2>2. CASE i > 0 /\ i <= l
        <3>1. i - 1 \in Nat /\ i = (i - 1) + 1 /\ i - 1 \in 0 .. l /\ i \in 1 .. l /\ i - 1 <= l
              /\ i - 1 \in 0 .. i - 1
            BY <2>2
        <3>2. Counted(joined(items, i - 1), First(items, i - 1))
            BY <1>1, <3>1
        <3>3. joined(items, i) = unify(joined(items, i - 1), shape_of(items[i])).shape
            BY <3>1, JoinedStep
        <3>4. WellFormed(joined(items, i - 1), d, n)
            BY <3>1, JoinedWellFormed
        <3>5. Adds(i, First(items, i - 1), First(items, i)) /\ First(items, i)[i] = items[i]
            BY <3>1 DEF Adds, First
        <3>6. Values(First(items, i))
            <4>1. \A j \in 1 .. i : IsValue(items[j], d, n)
                BY <2>2
            <4>2. IsFiniteSet(1 .. i)
                BY FS_Interval
            <4> QED BY <4>1, <4>2 DEF Values, Value, First
        <3>7. WellFormed(shape_of(items[i]), d, n) /\ Counted(shape_of(items[i]), One(First(items, i)[i]))
            BY <3>1, <3>5
        <3> QED BY <3>2, <3>3, <3>4, <3>5, <3>6, <3>7, NextCounted
    <2> QED BY <2>1, <2>2
<1>2. Nat \subseteq S
    <2> HIDE DEF S
    <2> QED BY <1>1, NatSetInduction
<1>3. ASSUME NEW i \in 0 .. l PROVE Counted(joined(items, i), First(items, i))
    <2>1. i \in Nat /\ i <= l
        OBVIOUS
    <2> QED BY <1>2, <2>1
<1> QED BY <1>3

\* The shape of a value counts it once.
LEMMA ShapeOfCounted ==
    ASSUME UnifyEq, ShapeOfEq, WellFormedEq, CountedEq, IsValueEq
    PROVE  \A d, n \in Nat : \A v : IsValue(v, d, n) => Counted(shape_of(v), One(v))
<1> DEFINE P(d, n) == \A v : IsValue(v, d, n) => Counted(shape_of(v), One(v))
           S == {p \in Nat \X Nat : P(p[1], p[2])}
<1>1. ASSUME NEW d \in Nat, NEW n \in Nat,
             d > 0 => \A m \in Nat : P(d - 1, m),
             n > 0 => P(d, n - 1)
      PROVE  P(d, n)
    <2> SUFFICES ASSUME NEW v, IsValue(v, d, n)
                 PROVE  Counted(shape_of(v), One(v))
        OBVIOUS
    <2>1. CASE v.k = "Document"
        <3>1. d > 0 /\ MaxLevels \in Nat /\ \A f \in DOMAIN v.fields : IsValue(v.fields[f], d - 1, MaxLevels)
            BY <2>1, IsValueParts, SchemaTreeAssumption
        <3> DEFINE F == [f \in DOMAIN v.fields |-> observe_value(Empty, v.fields[f])]
        <3>2. shape_of(v) = [k |-> "Document", fields |-> F]
            BY <2>1 DEF shape_of
        <3>3. ASSUME NEW f \in DOMAIN F
              PROVE  F[f].present <= Cardinality(Having(One(v), f)) /\ Counted(F[f].shape, FieldsAt(One(v), f))
            <4>1. f \in DOMAIN v.fields /\ F[f].shape = shape_of(v.fields[f]) /\ F[f].present = 1
                BY ObserveFirst
            <4>2. Having(One(v), f) = {1}
                BY <2>1, <4>1 DEF Having, One
            <4>3. FieldsAt(One(v), f) = One(v.fields[f])
                BY <4>2 DEF FieldsAt, One
            <4>4. Cardinality(Having(One(v), f)) = 1
                BY <4>2, FS_Singleton
            <4>5. Counted(shape_of(v.fields[f]), One(v.fields[f]))
                BY <1>1, <3>1, <4>1
            <4> QED BY <4>1, <4>3, <4>4, <4>5
        <3>4. shape_of(v).k = "Document" /\ shape_of(v).fields = F
            BY <3>2
        <3> HIDE DEF F
        <3> QED BY <3>3, <3>4, CountedParts
    <2>2. CASE v.k = "Array"
        <3> DEFINE l == Len(v.items)
        <3>1. /\ n > 0 /\ l \in Nat /\ DOMAIN v.items = 1 .. l
              /\ \A i \in 1 .. l : IsValue(v.items[i], d, n - 1)
            BY <2>2, IsValueParts
        <3>2. n - 1 \in Nat
            BY <3>1
        <3>3. \A i \in 1 .. l : /\ WellFormed(shape_of(v.items[i]), d, n - 1)
                                /\ Counted(shape_of(v.items[i]), One(v.items[i]))
            BY <1>1, <3>1, <3>2, ShapeOfWellFormed
        <3> HIDE DEF l
        <3>4. WellFormed(joined(v.items, l), d, n - 1) /\ Counted(joined(v.items, l), First(v.items, l))
            <4>1. \A i \in 1 .. l : /\ IsValue(v.items[i], d, n - 1)
                                    /\ WellFormed(shape_of(v.items[i]), d, n - 1)
                                    /\ Counted(shape_of(v.items[i]), One(v.items[i]))
                BY <3>1, <3>3
            <4>2. l \in 0 .. l
                BY <3>1
            <4>3. \A i \in 0 .. l : WellFormed(joined(v.items, i), d, n - 1)
                BY <3>1, <3>2, <4>1, JoinedWellFormed
            <4>4. \A i \in 0 .. l : Counted(joined(v.items, i), First(v.items, i))
                BY <3>1, <3>2, <4>1, JoinedCounted
            <4> QED BY <4>2, <4>3, <4>4
        <3>5. shape_of(v) = [k |-> "Array", of |-> joined(v.items, l)]
            BY <2>2 DEF shape_of, l
        <3>6. Values(Elements(One(v)))
            <4>1. Values(One(v))
                BY FS_Singleton DEF Values, Value, One
            <4> QED BY <4>1, ValuesOfElements
        <3> DEFINE g == [j \in 1 .. l |-> <<1, j>>]
        <3>7. Embeds(g, First(v.items, l), Elements(One(v)))
            <4>1. One(v)[1] = v /\ DOMAIN One(v) = {1} /\ Items(v) = v.items
                BY <2>2 DEF One, Items
            <4>2. ASSUME NEW j \in 1 .. l
                  PROVE  <<1, j>> \in DOMAIN Elements(One(v)) /\ Elements(One(v))[<<1, j>>] = v.items[j]
                <5>1. <<1, j>> \in DOMAIN Elements(One(v))
                    BY <3>1, <4>1, ElementPlaces
                <5>2. <<1, j>>[1] = 1 /\ <<1, j>>[2] = j
                    OBVIOUS
                <5> QED BY <4>1, <5>1, <5>2, ElementPlaces
            <4> QED BY <4>2 DEF Embeds, First
        <3> HIDE DEF g
        <3>8. Counted(joined(v.items, l), Elements(One(v)))
            BY <3>2, <3>4, <3>6, <3>7, CountedEmbeds
        <3> QED BY <3>5, <3>8, CountedParts
    <2>3. CASE v.k \notin {"Document", "Array"}
        BY <2>3, CountedParts DEF shape_of
    <2> QED BY <2>1, <2>2, <2>3
<1>2. \A d, n \in Nat : <<d, n>> \in S
    <2>1. ASSUME NEW d \in Nat, NEW n \in Nat,
                 d > 0 => \A m \in Nat : <<d - 1, m>> \in S,
                 n > 0 => <<d, n - 1>> \in S
          PROVE  <<d, n>> \in S
        <3> HIDE DEF P
        <3> QED BY <1>1, <2>1
    <2> HIDE DEF S
    <2> QED BY <2>1, LevelInduction
<1> QED BY <1>2
\* What makes the counters inductive: every key's slot counts the values it has seen,
\* and a key that was ever there has a slot.
NullsOf(c) == {i \in Having(seen, c) : seen[i].fields[c] = Null}

SlotCounts(slot, c) ==
    /\ Counted(slot.shape, FieldsAt(seen, c))
    /\ slot.present = Cardinality(Having(seen, c))
    /\ slot.nulls = Cardinality(NullsOf(c))

CountsInv == FitsInv /\ \A c \in DOMAIN root : SlotCounts(root[c], c)

\* The documents observed are finitely many values.
LEMMA SeenValues ==
    ASSUME IsValueEq, seen \in Seq(SampleDocs)
    PROVE  Values(seen) /\ DOMAIN seen = 1 .. Len(seen) /\ \A c : IsFiniteSet(NullsOf(c))
<1>1. Len(seen) \in Nat /\ DOMAIN seen = 1 .. Len(seen) /\ \A i \in DOMAIN seen : seen[i] \in SampleDocs
    OBVIOUS
<1>2. IsFiniteSet(1 .. Len(seen))
    BY <1>1, FS_Interval
<1>3. \A d \in SampleDocs : Value(d)
    BY SchemaTreeAssumption DEF Value
<1>4. Values(seen)
    BY <1>1, <1>2, <1>3 DEF Values
<1>5. \A c : IsFiniteSet(NullsOf(c))
    <2> TAKE c
    <2>1. IsFiniteSet(Having(seen, c)) /\ NullsOf(c) \in SUBSET Having(seen, c)
        BY <1>4, ValuesOfField DEF NullsOf
    <2> QED BY <2>1, FS_Subset
<1> QED BY <1>1, <1>4, <1>5

\* The places of a key after one more document.
LEMMA NextPlaces ==
    ASSUME seen \in Seq(SampleDocs), NEW d \in SampleDocs, seen' = Append(seen, d), NEW c
    PROVE  LET n == Len(seen) + 1
           IN  /\ n \notin Having(seen, c)
               /\ c \in DOMAIN d.fields =>
                     /\ Having(seen, c)' = Having(seen, c) \cup {n}
                     /\ Adds(n, FieldsAt(seen, c), FieldsAt(seen, c)')
                     /\ FieldsAt(seen, c)'[n] = d.fields[c]
                     /\ NullsOf(c)' = IF d.fields[c] = Null THEN NullsOf(c) \cup {n} ELSE NullsOf(c)
               /\ c \notin DOMAIN d.fields =>
                     /\ Having(seen, c)' = Having(seen, c)
                     /\ FieldsAt(seen, c)' = FieldsAt(seen, c)
                     /\ NullsOf(c)' = NullsOf(c)
<1> DEFINE n == Len(seen) + 1
<1>1. /\ Len(seen) \in Nat /\ Len(seen') = n
      /\ \A i \in 1 .. Len(seen) : seen'[i] = seen[i]
      /\ seen'[n] = d /\ seen' \in Seq(SampleDocs)
    BY AppendProperties
<1>2. /\ n \notin DOMAIN seen /\ DOMAIN seen' = DOMAIN seen \cup {n} /\ seen'[n] = d
      /\ \A i \in DOMAIN seen : seen'[i] = seen[i]
    <2>1. DOMAIN seen = 1 .. Len(seen) /\ DOMAIN seen' = 1 .. Len(seen')
        BY <1>1
    <2> QED BY <1>1, <2>1
<1>3. d.k = "Document"
    BY SchemaTreeAssumption
<1> HIDE DEF n
<1>4. n \notin Having(seen, c)
    BY <1>2 DEF Having
<1>5. ASSUME c \in DOMAIN d.fields
      PROVE  /\ Having(seen, c)' = Having(seen, c) \cup {n}
             /\ Adds(n, FieldsAt(seen, c), FieldsAt(seen, c)')
             /\ FieldsAt(seen, c)'[n] = d.fields[c]
             /\ NullsOf(c)' = IF d.fields[c] = Null THEN NullsOf(c) \cup {n} ELSE NullsOf(c)
    <2>1. Having(seen, c)' = Having(seen, c) \cup {n}
        BY <1>2, <1>3, <1>5 DEF Having
    <2>2. /\ \A i \in Having(seen, c) : i \in DOMAIN seen /\ seen'[i].fields[c] = seen[i].fields[c]
          /\ seen'[n].fields[c] = d.fields[c]
        BY <1>2 DEF Having
    <2>3. Adds(n, FieldsAt(seen, c), FieldsAt(seen, c)') /\ FieldsAt(seen, c)'[n] = d.fields[c]
        BY <1>4, <2>1, <2>2 DEF Adds, FieldsAt
    <2>4. NullsOf(c)' = IF d.fields[c] = Null THEN NullsOf(c) \cup {n} ELSE NullsOf(c)
        BY <1>4, <2>1, <2>2 DEF NullsOf
    <2> QED BY <2>1, <2>3, <2>4
<1>6. ASSUME c \notin DOMAIN d.fields
      PROVE  /\ Having(seen, c)' = Having(seen, c)
             /\ FieldsAt(seen, c)' = FieldsAt(seen, c)
             /\ NullsOf(c)' = NullsOf(c)
    <2>1. Having(seen, c)' = Having(seen, c)
        BY <1>2, <1>3, <1>6 DEF Having
    <2>2. \A i \in Having(seen, c) : seen'[i].fields[c] = seen[i].fields[c]
        BY <1>2 DEF Having
    <2> QED BY <2>1, <2>2 DEF FieldsAt, NullsOf
<1> QED BY <1>4, <1>5, <1>6 DEF n

\* A key without a slot was never there.
LEMMA NeverThere ==
    ASSUME Recursion, FitsInv, NEW c, c \notin DOMAIN root
    PROVE  /\ Having(seen, c) = {} /\ NullsOf(c) = {}
           /\ SlotCounts(Empty, c)
<1>1. \A i \in DOMAIN seen : c \notin DOMAIN seen[i].fields
    <2> TAKE i \in DOMAIN seen
    <2>1. seen[i] \in SampleDocs /\ seen[i] \in Observed
        BY DEF FitsInv, ShapesInv, Observed
    <2>2. Fits([k |-> "Document", fields |-> root], seen[i], FALSE) /\ FitsEq
        BY <2>1 DEF FitsInv, Root, Recursion
    <2> QED BY <2>1, <2>2, DocumentFits
<1>2. Having(seen, c) = {} /\ NullsOf(c) = {}
    BY <1>1 DEF Having, NullsOf
<1>3. Empty.shape.k = "Unknown" /\ Empty.present = 0 /\ Empty.nulls = 0
    BY DEF Empty, Null
<1>4. Counted(Empty.shape, FieldsAt(seen, c))
    BY <1>3, CountedParts DEF Recursion
<1>5. Cardinality({}) = 0
    BY FS_EmptySet
<1> QED BY <1>2, <1>3, <1>4, <1>5 DEF SlotCounts

LEMMA CountsInvInit == ASSUME Recursion, Init PROVE CountsInv
<1>1. DOMAIN root = {}
    BY DEF Init
<1> QED BY <1>1, FitsInvInit DEF CountsInv

LEMMA CountsInvStep == ASSUME Recursion, CountsInv, [Next]_vars PROVE CountsInv'
<1>1. FitsInv /\ FitsInv' /\ ShapesInv /\ ShapesInv'
    BY FitsInvStep DEF CountsInv, FitsInv
<1>2. ASSUME NEW d \in SampleDocs, Observe(d), NEW c \in DOMAIN root'
      PROVE  SlotCounts(root[c], c)'
    <2> DEFINE slot == IF c \in DOMAIN root THEN root[c] ELSE Empty
               n == Len(seen) + 1
               H == Having(seen, c)
               N == NullsOf(c)
               us == FieldsAt(seen, c)
    <2>1. /\ UnifyEq /\ ShapeOfEq /\ WellFormedEq /\ CountedEq /\ IsValueEq
          /\ seen \in Seq(SampleDocs) /\ seen' \in Seq(SampleDocs) /\ seen' = Append(seen, d)
          /\ \A x \in DOMAIN root : SlotWellFormed(root[x], MaxLevels - 1)
        BY <1>1, <1>2, RootWellFormed DEF Recursion, ShapesInv, Observe, Root
    <2>2. SlotCounts(slot, c)
        BY <1>1, NeverThere DEF CountsInv
    <2>3. CASE c \in DOMAIN d.fields
        <3> DEFINE v == d.fields[c]
        <3>1. root'[c] = observe_value(slot, v)
            BY <1>2, <2>3 DEF Observe
        <3> HIDE DEF slot
        <3>2. /\ root'[c].shape = unify(slot.shape, shape_of(v)).shape
              /\ root'[c].present = slot.present + 1
              /\ root'[c].nulls = IF v = Null THEN slot.nulls + 1 ELSE slot.nulls
            BY <2>1, <3>1 DEF observe_value, ShapeOfEq
        <3>3. /\ n \notin H /\ H' = H \cup {n} /\ Adds(n, us, us') /\ us'[n] = v
              /\ N' = IF v = Null THEN N \cup {n} ELSE N
            BY <2>1, <2>3, NextPlaces
        <3>4. IsFiniteSet(H) /\ IsFiniteSet(N) /\ n \notin N
            <4>1. n \notin N
                BY <3>3 DEF NullsOf
            <4>2. Values(seen) /\ IsFiniteSet(N)
                BY <2>1, SeenValues
            <4> QED BY <2>1, <4>1, <4>2, ValuesOfField
        <3>5. root'[c].present = Cardinality(H')
            BY <2>2, <3>2, <3>3, <3>4, FS_AddElement DEF SlotCounts
        <3>6. root'[c].nulls = Cardinality(N')
            <4>1. slot.nulls = Cardinality(N)
                BY <2>2 DEF SlotCounts
            <4>2. Cardinality(N \cup {n}) = Cardinality(N) + 1
                BY <3>4, FS_AddElement
            <4> HIDE DEF N, v, n
            <4> QED BY <3>2, <3>3, <4>1, <4>2
        <3>7. Counted(root'[c].shape, us')
            <4>1. MaxLevels - 1 \in Nat /\ MaxLevels \in Nat /\ IsValue(d, MaxLevels, MaxLevels) /\ d.k = "Document"
                BY SchemaTreeAssumption
            <4>2. IsValue(v, MaxLevels - 1, MaxLevels)
                BY <2>1, <2>3, <4>1, IsValueParts
            <4>3. WellFormed(slot.shape, MaxLevels - 1, MaxLevels)
                BY <2>1, <4>1, WellFormedWhole DEF SlotWellFormed, slot, Empty, Null
            <4>4. WellFormed(shape_of(v), MaxLevels - 1, MaxLevels) /\ Counted(shape_of(v), One(v))
                BY <2>1, <4>1, <4>2, ShapeOfWellFormed, ShapeOfCounted
            <4>5. Values(us')
                <5>1. /\ Len(seen') \in Nat /\ DOMAIN seen' = 1 .. Len(seen')
                      /\ \A i \in DOMAIN seen' : seen'[i] \in SampleDocs
                    BY <2>1
                <5>2. IsFiniteSet(1 .. Len(seen')) /\ \A e \in SampleDocs : Value(e)
                    BY <4>1, <5>1, FS_Interval, SchemaTreeAssumption DEF Value
                <5>3. Values(seen')
                    BY <5>1, <5>2 DEF Values
                <5>4. Values(FieldsAt(seen', c))
                    BY <2>1, <5>3, ValuesOfField
                <5> QED BY <5>4 DEF FieldsAt, Having
            <4>6. Counted(slot.shape, us)
                BY <2>2 DEF SlotCounts
            <4> HIDE DEF us, n, v
            <4> QED BY <2>1, <3>2, <3>3, <4>1, <4>3, <4>4, <4>5, <4>6, NextCounted
        <3> QED BY <3>5, <3>6, <3>7 DEF SlotCounts
    <2>4. CASE c \notin DOMAIN d.fields
        <3>1. c \in DOMAIN root /\ root'[c] = root[c]
            BY <1>2, <2>4 DEF Observe
        <3>2. H' = H /\ us' = us /\ N' = N
            BY <2>1, <2>4, NextPlaces
        <3> QED BY <2>2, <3>1, <3>2 DEF SlotCounts
    <2> QED BY <2>3, <2>4
<1>3. CASE UNCHANGED <<root, seen>>
    BY <1>1, <1>3 DEF CountsInv, SlotCounts, NullsOf
<1>4. ASSUME NEW d \in SampleDocs, Observe(d) PROVE CountsInv'
    BY <1>1, <1>2, <1>4 DEF CountsInv
<1> QED BY <1>3, <1>4 DEF Next, Infer, Reload, vars

LEMMA CountsInvHolds == ASSUME Recursion PROVE Spec => []CountsInv
<1>1. Init => CountsInv
    BY CountsInvInit
<1>2. CountsInv /\ [Next]_vars => CountsInv'
    BY CountsInvStep
<1> QED BY <1>1, <1>2, PTL DEF Spec

\* A root key was present in as many documents as its slot says, and null in as many;
\* inside documents and arrays no key is counted more often than it was there.
THEOREM CountersHold == ASSUME Recursion PROVE Spec => []CountsNeverOver
<1>1. CountsInv => CountsNeverOver
    <2> SUFFICES ASSUME CountsInv PROVE CountsNeverOver
        OBVIOUS
    <2>1. \A c \in DOMAIN root : SlotCounts(root[c], c) /\ root[c].present <= Cardinality(Having(seen, c))
        <3> TAKE c \in DOMAIN root
        <3>1. SlotCounts(root[c], c)
            BY DEF CountsInv
        <3>2. IsFiniteSet(Having(seen, c))
            BY SeenValues, ValuesOfField DEF CountsInv, FitsInv, ShapesInv, Recursion
        <3>3. Cardinality(Having(seen, c)) \in Nat
            BY <3>2, FS_CardinalityType
        <3> QED BY <3>1, <3>3 DEF SlotCounts
    <2>2. Root.k = "Document" /\ Root.fields = root
        BY DEF Root
    <2>3. Counted(Root, seen)
        BY <2>1, <2>2, CountedParts DEF SlotCounts, Recursion
    <2> QED BY <2>1, <2>3 DEF CountsNeverOver, SlotCounts, NullsOf
<1> QED BY <1>1, CountsInvHolds, PTL
\* Everything together: the root has the keys that were observed and no others, each
\* slot fits and counts what was observed of its key, and a schema in the catalog is
\* what finish() makes of them.
THEOREM InvariantOfTree == ASSUME Recursion PROVE Spec => []SchemaTreeInv
<1> DEFINE KeysInv == seen \in Seq(SampleDocs) /\ DOMAIN root = UNION {DOMAIN d.fields : d \in Observed}
<1>1. Init => KeysInv
    <2> SUFFICES ASSUME Init PROVE KeysInv
        OBVIOUS
    <2>1. 1 .. Len(seen) = {} /\ DOMAIN root = {} /\ seen \in Seq(SampleDocs)
        BY DEF Init
    <2> QED BY <2>1 DEF Observed
<1>2. KeysInv /\ [Next]_vars => KeysInv'
    <2> SUFFICES ASSUME KeysInv, [Next]_vars PROVE KeysInv'
        OBVIOUS
    <2>1. ASSUME NEW d \in SampleDocs, Observe(d) PROVE KeysInv'
        <3>1. Observed' = Observed \cup {d} /\ seen' \in Seq(SampleDocs)
            BY <2>1, ObservedNext, AppendProperties DEF Observe
        <3>2. DOMAIN root' = DOMAIN root \cup DOMAIN d.fields
            BY <2>1 DEF Observe
        <3> QED BY <3>1, <3>2
    <2>2. CASE UNCHANGED <<root, seen>>
        BY <2>2 DEF Observed
    <2> QED BY <2>1, <2>2 DEF Next, Infer, Reload, vars
<1>3. CountsInv /\ KeysInv /\ TypeOK /\ CountsNeverOver => SchemaTreeInv
    BY DEF SchemaTreeInv, CountsInv, FitsInv, ShapesInv
<1>4. Spec => []KeysInv
    <2> HIDE DEF KeysInv
    <2> QED BY <1>1, <1>2, PTL DEF Spec
<1> HIDE DEF KeysInv
<1> QED BY <1>3, <1>4, CountsInvHolds, TypesOfTree, CountersHold, PTL
-------------------------------------------------------------------------------
(***************************************************************************)
(* A key's slot is a field of SchemaLattice.                               *)
(***************************************************************************)

\* What the levels of Array of a shape end in.
Ends == Scalars \cup {"Unknown", "Document"}

LEMMA LevelsOf ==
    ASSUME LevelsEq, WellFormedEq
    PROVE  \A d, n \in Nat : \A s : WellFormed(s, d, n) => Depth(s) \in Nat /\ Base(s) \in Ends
<1> DEFINE P(d, n) == \A s : WellFormed(s, d, n) => Depth(s) \in Nat /\ Base(s) \in Ends
           S == {p \in Nat \X Nat : P(p[1], p[2])}
<1>1. ASSUME NEW d \in Nat, NEW n \in Nat, n > 0 => P(d, n - 1)
      PROVE  P(d, n)
    <2> SUFFICES ASSUME NEW s, WellFormed(s, d, n) PROVE Depth(s) \in Nat /\ Base(s) \in Ends
        OBVIOUS
    <2>1. CASE s.k = "Array"
        <3>1. n > 0 /\ WellFormed(s.of, d, n - 1)
            BY <2>1, WellFormedParts
        <3>2. Depth(s.of) \in Nat /\ Base(s.of) \in Ends
            BY <1>1, <3>1
        <3>3. Depth(s) = Depth(s.of) + 1 /\ Base(s) = Base(s.of)
            BY <2>1 DEF Depth, Base, LevelsEq
        <3> QED BY <3>2, <3>3
    <2>2. CASE s.k # "Array"
        <3>1. Kinded(s)
            BY WellFormedParts
        <3> QED BY <2>2, <3>1 DEF Kinded, Leaf, Depth, Base, Ends
    <2> QED BY <2>1, <2>2
<1>2. \A d, n \in Nat : <<d, n>> \in S
    <2>1. ASSUME NEW d \in Nat, NEW n \in Nat,
                 d > 0 => \A m \in Nat : <<d - 1, m>> \in S,
                 n > 0 => <<d, n - 1>> \in S
          PROVE  <<d, n>> \in S
        <3> HIDE DEF P
        <3> QED BY <1>1, <2>1
    <2> HIDE DEF S
    <2> QED BY <2>1, LevelInduction
<1> QED BY <1>2

\* The lattice's join of two bases is the one unify() makes of two kinds.
LEMMA BasesJoin ==
    ASSUME NEW x \in Ends \ {"Unknown"}, NEW y \in Ends \ {"Unknown"}, x # y,
           NEW J, J = JoinKinds({x, y})
    PROVE  /\ Lattice!JoinBase(x, y) = J
           /\ Lattice!MixesBase(x, y) <=> J = "Json" \/ {x, y} = {"ObjectId", "Utf8"}
<1> DEFINE K == {x, y}
<1>1. CASE K = {"Int32", "Int64"}
    <2>1. J = "Int64" /\ K # {"ObjectId", "Utf8"}
          /\ ((x = "Int32" /\ y = "Int64") \/ (x = "Int64" /\ y = "Int32"))
        BY <1>1 DEF JoinKinds
    <2> QED BY <2>1 DEF Lattice!JoinBase, Lattice!MixesBase, Lattice!Widens, Lattice!Coerces
<1>2. CASE K \in {{n, "Double"} : n \in {"Int32", "Int64"}}
    <2>1. K # {"Int32", "Int64"} /\ K # {"ObjectId", "Utf8"}
          /\ ((x \in {"Int32", "Int64"} /\ y = "Double") \/ (x = "Double" /\ y \in {"Int32", "Int64"}))
        BY <1>2
    <2>2. J = "Double"
        BY <1>2, <2>1 DEF JoinKinds
    <2> QED BY <2>1, <2>2 DEF Lattice!JoinBase, Lattice!MixesBase, Lattice!Widens, Lattice!Coerces
<1>3. CASE K \in {{n, "Decimal"} : n \in {"Int32", "Int64", "Double"}}
    <2>1. /\ K # {"Int32", "Int64"} /\ K \notin {{n, "Double"} : n \in {"Int32", "Int64"}}
          /\ K # {"ObjectId", "Utf8"}
          /\ \/ x \in {"Int32", "Int64", "Double"} /\ y = "Decimal"
             \/ x = "Decimal" /\ y \in {"Int32", "Int64", "Double"}
        BY <1>3
    <2>2. J = "Decimal"
        BY <1>3, <2>1 DEF JoinKinds
    <2> QED BY <2>1, <2>2 DEF Lattice!JoinBase, Lattice!MixesBase, Lattice!Widens, Lattice!Coerces
<1>4. CASE K = {"ObjectId", "Utf8"}
    <2>1. (x = "ObjectId" /\ y = "Utf8") \/ (x = "Utf8" /\ y = "ObjectId")
        BY <1>4
    <2>2. /\ K # {"Int32", "Int64"} /\ K \notin {{n, "Double"} : n \in {"Int32", "Int64"}}
          /\ K \notin {{n, "Decimal"} : n \in {"Int32", "Int64", "Double"}}
        BY <1>4
    <2>3. J = "Utf8"
        BY <1>4, <2>2 DEF JoinKinds
    <2> QED BY <1>4, <2>1, <2>3 DEF Lattice!JoinBase, Lattice!MixesBase, Lattice!Widens, Lattice!Coerces
<1>5. CASE K = {"DateTime", "BsonTimestamp"}
    <2>1. K # {"ObjectId", "Utf8"}
          /\ ((x = "DateTime" /\ y = "BsonTimestamp") \/ (x = "BsonTimestamp" /\ y = "DateTime"))
        BY <1>5
    <2>2. /\ K # {"Int32", "Int64"} /\ K \notin {{n, "Double"} : n \in {"Int32", "Int64"}}
          /\ K \notin {{n, "Decimal"} : n \in {"Int32", "Int64", "Double"}}
        BY <1>5
    <2>3. J = "DateTime"
        BY <1>5, <2>1, <2>2 DEF JoinKinds
    <2> QED BY <2>1, <2>3 DEF Lattice!JoinBase, Lattice!MixesBase, Lattice!Widens, Lattice!Coerces
<1>6. CASE ~(\/ K = {"Int32", "Int64"} \/ K \in {{n, "Double"} : n \in {"Int32", "Int64"}}
             \/ K \in {{n, "Decimal"} : n \in {"Int32", "Int64", "Double"}}
             \/ K = {"ObjectId", "Utf8"} \/ K = {"DateTime", "BsonTimestamp"})
    <2>1. J = "Json"
        BY <1>6 DEF JoinKinds
    <2>2. /\ ~(x = "Int32" /\ y \in {"Int64", "Double", "Decimal"})
          /\ ~(x = "Int64" /\ y \in {"Double", "Decimal"})
          /\ ~(x = "Double" /\ y = "Decimal")
          /\ ~(x = "BsonTimestamp" /\ y = "DateTime") /\ ~(x = "ObjectId" /\ y = "Utf8")
        BY <1>6
    <2>3. /\ ~(y = "Int32" /\ x \in {"Int64", "Double", "Decimal"})
          /\ ~(y = "Int64" /\ x \in {"Double", "Decimal"})
          /\ ~(y = "Double" /\ x = "Decimal")
          /\ ~(y = "BsonTimestamp" /\ x = "DateTime") /\ ~(y = "ObjectId" /\ x = "Utf8")
        BY <1>6
    <2> QED BY <2>1, <2>2, <2>3 DEF Lattice!JoinBase, Lattice!MixesBase, Lattice!Widens, Lattice!Coerces
<1> QED BY <1>1, <1>2, <1>3, <1>4, <1>5, <1>6
LEMMA BasesCommute ==
    ASSUME NEW p \in Ends, NEW q \in Ends
    PROVE  /\ Lattice!JoinBase(p, q) = Lattice!JoinBase(q, p)
           /\ Lattice!MixesBase(p, q) <=> Lattice!MixesBase(q, p)
           /\ Lattice!JoinBase(p, p) = p /\ ~Lattice!MixesBase(p, p)
           /\ Lattice!JoinBase("Unknown", p) = p /\ ~Lattice!MixesBase("Unknown", p)
<1>1. /\ Lattice!JoinBase(p, p) = p /\ ~Lattice!MixesBase(p, p)
      /\ Lattice!JoinBase("Unknown", p) = p /\ ~Lattice!MixesBase("Unknown", p)
    BY DEF Lattice!JoinBase, Lattice!MixesBase, Lattice!Widens, Lattice!Coerces
<1>2. Lattice!MixesBase(p, q) <=> Lattice!MixesBase(q, p)
    BY DEF Lattice!MixesBase
<1>3. Lattice!JoinBase(p, q) = Lattice!JoinBase(q, p)
    BY DEF Lattice!JoinBase, Lattice!Widens, Lattice!Coerces
<1> QED BY <1>1, <1>2, <1>3

\* The lattice's join and flag, by levels and bases.
Level(i, p) == [depth |-> i, base |-> p]

LEMMA JoinOfLevels ==
    ASSUME NEW i \in Nat, NEW j \in Nat, NEW p, NEW q
    PROVE  /\ p = "Json" /\ i < j => Lattice!unify(Level(i, p), Level(j, q)) = Level(i, p)
           /\ q = "Json" /\ j < i => Lattice!unify(Level(i, p), Level(j, q)) = Level(j, q)
           /\ ~(p = "Json" /\ i < j) /\ ~(q = "Json" /\ j < i) =>
                 Lattice!unify(Level(i, p), Level(j, q))
                 = Level(IF i < j THEN j ELSE i, Lattice!JoinBase(p, q))
           /\ Lattice!mixes(Level(i, p), Level(j, q)) <=>
                 \/ p = "Json" /\ i < j
                 \/ q = "Json" /\ j < i
                 \/ (i # j \/ p # q) /\ Lattice!MixesBase(p, q)
<1> DEFINE x == Level(i, p)
           y == Level(j, q)
<1>1. /\ x.depth = i /\ x.base = p /\ y.depth = j /\ y.base = q
      /\ x = y <=> i = j /\ p = q
    BY DEF Level
<1> HIDE DEF x, y
<1>2. (Lattice!Swallows(x, y) <=> p = "Json" /\ i < j) /\ (Lattice!Swallows(y, x) <=> q = "Json" /\ j < i)
    BY <1>1 DEF Lattice!Swallows
<1>3. Lattice!unify(x, y) = IF p = "Json" /\ i < j THEN x
                            ELSE IF q = "Json" /\ j < i THEN y
                            ELSE Level(IF i < j THEN j ELSE i, Lattice!JoinBase(p, q))
    BY <1>1, <1>2 DEF Lattice!unify, Lattice!Shape, Level
<1>4. Lattice!mixes(x, y) <=> \/ p = "Json" /\ i < j
                              \/ q = "Json" /\ j < i
                              \/ (i # j \/ p # q) /\ Lattice!MixesBase(p, q)
    BY <1>1, <1>2 DEF Lattice!mixes
<1> QED BY <1>3, <1>4 DEF x, y

\* One more level on both sides, or on one side of what is no Json, is one more level on
\* the join; and the sides do not matter.
LEMMA JoinLifted ==
    ASSUME NEW i \in Nat, NEW j \in Nat, NEW p \in Ends, NEW q \in Ends,
           NEW l \in Nat, NEW r, Lattice!unify(Level(i, p), Level(j, q)) = Level(l, r)
    PROVE  /\ Lattice!unify(Level(i + 1, p), Level(j + 1, q)) = Level(l + 1, r)
           /\ Lattice!mixes(Level(i + 1, p), Level(j + 1, q)) <=> Lattice!mixes(Level(i, p), Level(j, q))
           /\ j = 0 /\ q # "Json" =>
                 /\ Lattice!unify(Level(i + 1, p), Level(j, q)) = Level(l + 1, r)
                 /\ Lattice!unify(Level(j, q), Level(i + 1, p)) = Level(l + 1, r)
                 /\ Lattice!mixes(Level(i + 1, p), Level(j, q)) <=> Lattice!mixes(Level(i, p), Level(j, q))
                 /\ Lattice!mixes(Level(j, q), Level(i + 1, p)) <=> Lattice!mixes(Level(i, p), Level(j, q))
<1> DEFINE B == Lattice!JoinBase(p, q)
           M == Lattice!MixesBase(p, q)
<1>1. Lattice!JoinBase(q, p) = B /\ (Lattice!MixesBase(q, p) <=> M) /\ (p = q => ~M /\ B = p)
    BY BasesCommute
<1> HIDE DEF B, M
<1>2. \A a, b, c, d : Level(a, b) = Level(c, d) => a = c /\ b = d
    BY DEF Level
<1>3. /\ Lattice!unify(Level(i + 1, p), Level(j + 1, q)) = Level(l + 1, r)
      /\ Lattice!mixes(Level(i + 1, p), Level(j + 1, q)) <=> Lattice!mixes(Level(i, p), Level(j, q))
    <2>1. CASE p = "Json" /\ i < j
        BY <1>2, <2>1, JoinOfLevels
    <2>2. CASE q = "Json" /\ j < i
        BY <1>2, <2>2, JoinOfLevels
    <2>3. CASE ~(p = "Json" /\ i < j) /\ ~(q = "Json" /\ j < i)
        <3>1. l = (IF i < j THEN j ELSE i) /\ r = B
            BY <1>2, <2>3, JoinOfLevels DEF B
        <3> QED BY <2>3, <3>1, JoinOfLevels DEF B
    <2> QED BY <2>1, <2>2, <2>3
<1>4. ASSUME j = 0, q # "Json"
      PROVE  /\ Lattice!unify(Level(i + 1, p), Level(j, q)) = Level(l + 1, r)
             /\ Lattice!unify(Level(j, q), Level(i + 1, p)) = Level(l + 1, r)
             /\ Lattice!mixes(Level(i + 1, p), Level(j, q)) <=> Lattice!mixes(Level(i, p), Level(j, q))
             /\ Lattice!mixes(Level(j, q), Level(i + 1, p)) <=> Lattice!mixes(Level(i, p), Level(j, q))
    <2>1. l = i /\ r = B
        BY <1>2, <1>4, JoinOfLevels DEF B
    <2>2. /\ Lattice!unify(Level(i + 1, p), Level(j, q)) = Level(i + 1, B)
          /\ Lattice!unify(Level(j, q), Level(i + 1, p)) = Level(i + 1, B)
        BY <1>1, <1>4, JoinOfLevels DEF B
    <2>3. /\ Lattice!mixes(Level(i, p), Level(j, q)) <=> M
          /\ Lattice!mixes(Level(i + 1, p), Level(j, q)) <=> M
          /\ Lattice!mixes(Level(j, q), Level(i + 1, p)) <=> M
        BY <1>1, <1>4, JoinOfLevels DEF M
    <2> QED BY <2>1, <2>2, <2>3
<1> QED BY <1>3, <1>4
\* Level by level, unify() is the join SchemaLattice states at once, flag included.
LEMMA UnifyIsJoin ==
    ASSUME UnifyEq, WellFormedEq, LevelsEq
    PROVE  \A d, n \in Nat : \A a, b : WellFormed(a, d, n) /\ WellFormed(b, d, n) =>
              /\ Flat(unify(a, b).shape) = Lattice!unify(Flat(a), Flat(b))
              /\ unify(a, b).mixed <=> Lattice!mixes(Flat(a), Flat(b))
<1> DEFINE Q(a, b) == /\ Flat(unify(a, b).shape) = Lattice!unify(Flat(a), Flat(b))
                      /\ unify(a, b).mixed <=> Lattice!mixes(Flat(a), Flat(b))
           P(d, n) == \A a, b : WellFormed(a, d, n) /\ WellFormed(b, d, n) => Q(a, b)
           S == {p \in Nat \X Nat : P(p[1], p[2])}
<1>1. ASSUME NEW d \in Nat, NEW n \in Nat, n > 0 => P(d, n - 1)
      PROVE  P(d, n)
    <2> SUFFICES ASSUME NEW a, NEW b, WellFormed(a, d, n), WellFormed(b, d, n)
                 PROVE  Q(a, b)
        OBVIOUS
    <2>1. /\ Kinded(a) /\ Kinded(b)
          /\ a.k = "Array" => n > 0 /\ WellFormed(a.of, d, n - 1)
          /\ b.k = "Array" => n > 0 /\ WellFormed(b.of, d, n - 1)
          /\ a.k # "Array" /\ n > 0 => WellFormed(a, d, n - 1)
          /\ b.k # "Array" /\ n > 0 => WellFormed(b, d, n - 1)
        BY WellFormedParts
    <2>2. \A s : Flat(s) = Level(Depth(s), Base(s))
        BY DEF Flat, Level
    <2>3. /\ Depth(a) \in Nat /\ Base(a) \in Ends /\ Depth(b) \in Nat /\ Base(b) \in Ends
        BY LevelsOf
    <2>4. \A s : /\ s.k = "Array" => Depth(s) = Depth(s.of) + 1 /\ Base(s) = Base(s.of)
                 /\ s.k # "Array" => Depth(s) = 0 /\ Base(s) = s.k
        BY DEF Depth, Base, LevelsEq
    <2>5. \A s : Kinded(s) /\ s.k \notin {"Array", "Document"} => s = [k |-> s.k]
        BY DEF Kinded, Leaf
    <2>6. CASE Keeps(a, b)
        <3>1. CASE a = b /\ unify(a, b) = Joined(a, FALSE)
            <4>1. unify(a, b).shape = a /\ unify(a, b).mixed = FALSE
                BY <3>1 DEF Joined
            <4>2. Lattice!unify(Level(Depth(a), Base(a)), Level(Depth(a), Base(a))) = Level(Depth(a), Base(a))
                BY <2>3, JoinOfLevels, BasesCommute
            <4>3. ~Lattice!mixes(Level(Depth(a), Base(a)), Level(Depth(a), Base(a)))
                BY <2>3, JoinOfLevels, BasesCommute
            <4> QED BY <2>2, <3>1, <4>1, <4>2, <4>3
        <3>2. CASE a = Null /\ unify(a, b) = Joined(b, FALSE)
            <4>1. unify(a, b).shape = b /\ unify(a, b).mixed = FALSE
                BY <3>2 DEF Joined
            <4>2. Depth(a) = 0 /\ Base(a) = "Unknown"
                BY <2>4, <3>2 DEF Null
            <4>3. Lattice!unify(Level(0, "Unknown"), Level(Depth(b), Base(b))) = Level(Depth(b), Base(b))
                BY <2>3, JoinOfLevels, BasesCommute
            <4>4. ~Lattice!mixes(Level(0, "Unknown"), Level(Depth(b), Base(b)))
                BY <2>3, JoinOfLevels, BasesCommute
            <4> QED BY <2>2, <4>1, <4>2, <4>3, <4>4
        <3>3. CASE b = Null /\ unify(a, b) = Joined(a, FALSE)
            <4>1. unify(a, b).shape = a /\ unify(a, b).mixed = FALSE
                BY <3>3 DEF Joined
            <4>2. Depth(b) = 0 /\ Base(b) = "Unknown"
                BY <2>4, <3>3 DEF Null
            <4>3. /\ "Unknown" \in Ends /\ Lattice!JoinBase(Base(a), "Unknown") = Base(a)
                  /\ ~Lattice!MixesBase(Base(a), "Unknown")
                BY <2>3, BasesCommute DEF Ends
            <4>4. Lattice!unify(Level(Depth(a), Base(a)), Level(0, "Unknown")) = Level(Depth(a), Base(a))
                BY <2>3, <4>3, JoinOfLevels
            <4>5. ~Lattice!mixes(Level(Depth(a), Base(a)), Level(0, "Unknown"))
                BY <2>3, <4>3, JoinOfLevels
            <4> QED BY <2>2, <4>1, <4>2, <4>4, <4>5
        <3> QED BY <2>6, <3>1, <3>2, <3>3 DEF Keeps
    <2>7. CASE JoinsToText(a, b)
        <3>1. Flat(unify(a, b).shape) = Level(0, "Json") /\ unify(a, b).mixed = TRUE
            <4>1. unify(a, b).shape = [k |-> "Json"] /\ unify(a, b).mixed = TRUE
                BY <2>7 DEF JoinsToText, Joined, Json
            <4> QED BY <2>2, <2>4, <4>1
        <3>2. Base(a) = "Unknown" => a.k = "Array"
            BY <2>4, <2>5, <2>1, <2>7 DEF JoinsToText, Null
        <3>3. Base(b) = "Unknown" => b.k = "Array"
            BY <2>4, <2>5, <2>1, <2>7 DEF JoinsToText, Null
        <3>4. /\ Lattice!unify(Level(Depth(a), Base(a)), Level(Depth(b), Base(b))) = Level(0, "Json")
              /\ Lattice!mixes(Level(Depth(a), Base(a)), Level(Depth(b), Base(b)))
            <4>1. CASE a.k = "Json"
                <5>1. Depth(a) = 0 /\ Base(a) = "Json" /\ a = Json
                    BY <2>1, <2>4, <2>5, <4>1 DEF Json
                <5>2. CASE b.k = "Array"
                    <6>1. 0 < Depth(b)
                        <7>1. Depth(b.of) \in Nat /\ Depth(b) = Depth(b.of) + 1
                            BY <2>1, <2>4, <5>2, LevelsOf
                        <7> QED BY <7>1
                    <6> QED BY <2>3, <5>1, <6>1, JoinOfLevels
                <5>3. CASE b.k # "Array"
                    <6>1. Depth(b) = 0 /\ Base(b) # "Json" /\ Base(b) # "Unknown"
                        BY <2>1, <2>4, <2>5, <2>7, <3>3, <5>1, <5>3 DEF JoinsToText, Json
                    <6>2. "Json" \in Ends \ {"Unknown"} /\ JoinKinds({"Json", Base(b)}) = "Json"
                        BY DEF JoinKinds, Ends, Scalars
                    <6>3. Lattice!JoinBase("Json", Base(b)) = "Json" /\ Lattice!MixesBase("Json", Base(b))
                        BY <2>3, <6>1, <6>2, BasesJoin
                    <6> QED BY <5>1, <6>1, <6>3, JoinOfLevels
                <5> QED BY <5>2, <5>3
            <4>2. CASE b.k = "Json"
                <5>1. Depth(b) = 0 /\ Base(b) = "Json" /\ b = Json
                    BY <2>1, <2>4, <2>5, <4>2 DEF Json
                <5>2. CASE a.k = "Array"
                    <6>1. 0 < Depth(a)
                        <7>1. Depth(a.of) \in Nat /\ Depth(a) = Depth(a.of) + 1
                            BY <2>1, <2>4, <5>2, LevelsOf
                        <7> QED BY <7>1
                    <6> QED BY <2>3, <5>1, <6>1, JoinOfLevels
                <5>3. CASE a.k # "Array"
                    <6>1. Depth(a) = 0 /\ Base(a) # "Json" /\ Base(a) # "Unknown"
                        BY <2>1, <2>4, <2>5, <2>7, <3>2, <5>1, <5>3 DEF JoinsToText, Json
                    <6>2. "Json" \in Ends \ {"Unknown"} /\ JoinKinds({Base(a), "Json"}) = "Json"
                        BY DEF JoinKinds, Ends, Scalars
                    <6>3. Lattice!JoinBase(Base(a), "Json") = "Json" /\ Lattice!MixesBase(Base(a), "Json")
                        BY <2>3, <6>1, <6>2, BasesJoin
                    <6> QED BY <5>1, <6>1, <6>3, JoinOfLevels
                <5> QED BY <5>2, <5>3
            <4>3. CASE a.k # b.k /\ "Array" \notin {a.k, b.k} /\ JoinKinds({a.k, b.k}) = "Json"
                <5>1. /\ Depth(a) = 0 /\ Base(a) = a.k /\ Base(a) # "Unknown"
                      /\ Depth(b) = 0 /\ Base(b) = b.k /\ Base(b) # "Unknown"
                    BY <2>4, <3>2, <3>3, <4>3
                <5>2. Lattice!JoinBase(Base(a), Base(b)) = "Json" /\ Lattice!MixesBase(Base(a), Base(b))
                    BY <2>3, <4>3, <5>1, BasesJoin
                <5> QED BY <4>3, <5>1, <5>2, JoinOfLevels
            <4> QED BY <2>7, <4>1, <4>2, <4>3 DEF JoinsToText
        <3> QED BY <2>2, <3>1, <3>4
    <2>8. ASSUME NEW x, NEW y, JoinsItems(a, b, x, y)
          PROVE  Q(a, b)
        <3>1. "Document" # "Array" /\ "Array" \notin Scalars
            BY DEF Scalars
        <3>2. n > 0 /\ WellFormed(x, d, n - 1) /\ WellFormed(y, d, n - 1) /\ n - 1 \in Nat
            BY <2>1, <2>8, <3>1 DEF JoinsItems
        <3> DEFINE r == unify(x, y)
        <3>3. /\ Flat(r.shape) = Lattice!unify(Flat(x), Flat(y))
              /\ r.mixed <=> Lattice!mixes(Flat(x), Flat(y))
            BY <1>1, <3>2
        <3>4. /\ unify(a, b).shape = [k |-> "Array", of |-> r.shape]
              /\ unify(a, b).mixed = r.mixed
            BY <2>8 DEF ArrayOf, Joined, UnifyEq, JoinsItems
        <3> HIDE DEF r
        <3>5. /\ Depth(r.shape) \in Nat /\ Depth(x) \in Nat /\ Base(x) \in Ends /\ Depth(y) \in Nat /\ Base(y) \in Ends
            BY <3>2, LevelsOf, UnifyWellFormed DEF r
        <3>6. Flat(unify(a, b).shape) = Level(Depth(r.shape) + 1, Base(r.shape))
            BY <2>2, <2>4, <3>4
        <3>7. Lattice!unify(Level(Depth(x), Base(x)), Level(Depth(y), Base(y))) = Level(Depth(r.shape), Base(r.shape))
            BY <2>2, <3>3
        <3>8. CASE a.k = "Array" /\ x = a.of /\ b.k = "Array" /\ y = b.of
            <4>1. /\ Depth(a) = Depth(x) + 1 /\ Base(a) = Base(x)
                  /\ Depth(b) = Depth(y) + 1 /\ Base(b) = Base(y)
                BY <2>4, <3>8
            <4>2. /\ Lattice!unify(Flat(a), Flat(b)) = Level(Depth(r.shape) + 1, Base(r.shape))
                  /\ Lattice!mixes(Flat(a), Flat(b)) <=> Lattice!mixes(Flat(x), Flat(y))
                BY <2>2, <3>5, <3>7, <4>1, JoinLifted
            <4> QED BY <3>3, <3>4, <3>6, <4>2
        <3>9. CASE a.k = "Array" /\ x = a.of /\ b.k \in {"Document"} \cup (Scalars \ {"Json"}) /\ y = b
            <4>1. /\ Depth(a) = Depth(x) + 1 /\ Base(a) = Base(x)
                  /\ Depth(y) = 0 /\ Base(y) # "Json" /\ y = b
                BY <2>4, <3>1, <3>9
            <4>2. /\ Lattice!unify(Flat(a), Flat(b)) = Level(Depth(r.shape) + 1, Base(r.shape))
                  /\ Lattice!mixes(Flat(a), Flat(b)) <=> Lattice!mixes(Flat(x), Flat(y))
                BY <2>2, <3>5, <3>7, <4>1, JoinLifted
            <4> QED BY <3>3, <3>4, <3>6, <4>2
        <3>10. CASE b.k = "Array" /\ x = b.of /\ a.k \in {"Document"} \cup (Scalars \ {"Json"}) /\ y = a
            <4>1. /\ Depth(b) = Depth(x) + 1 /\ Base(b) = Base(x)
                  /\ Depth(y) = 0 /\ Base(y) # "Json" /\ y = a
                BY <2>4, <3>1, <3>10
            <4>2. /\ Lattice!unify(Flat(a), Flat(b)) = Level(Depth(r.shape) + 1, Base(r.shape))
                  /\ Lattice!mixes(Flat(a), Flat(b)) <=> Lattice!mixes(Flat(x), Flat(y))
                BY <2>2, <3>5, <3>7, <4>1, JoinLifted
            <4> QED BY <3>3, <3>4, <3>6, <4>2
        <3> QED BY <2>8, <3>8, <3>9, <3>10 DEF JoinsItems
    <2>9. CASE JoinsFields(a, b)
        <3>1. unify(a, b).shape.k = "Document" /\ unify(a, b).mixed = FALSE /\ a.k = "Document" /\ b.k = "Document"
            BY <2>9 DEF JoinsFields, Joined
        <3>2. /\ Flat(unify(a, b).shape) = Level(0, "Document")
              /\ Flat(a) = Level(0, "Document") /\ Flat(b) = Level(0, "Document")
            BY <2>2, <2>4, <3>1
        <3>3. "Document" \in Ends
            BY DEF Ends
        <3>4. Lattice!unify(Level(0, "Document"), Level(0, "Document")) = Level(0, "Document")
            BY <3>3, JoinOfLevels, BasesCommute
        <3>5. ~Lattice!mixes(Level(0, "Document"), Level(0, "Document"))
            BY <3>3, JoinOfLevels, BasesCommute
        <3> QED BY <3>1, <3>2, <3>4, <3>5
    <2>10. CASE JoinsScalars(a, b)
        <3> PICK x \in Scalars \ {"Json"}, y \in Scalars \ {"Json"} :
                  /\ x # y /\ a = [k |-> x] /\ b = [k |-> y] /\ JoinKinds({x, y}) # "Json"
                  /\ unify(a, b) = Joined([k |-> JoinKinds({x, y})], {x, y} = {"ObjectId", "Utf8"})
            BY <2>10 DEF JoinsScalars
        <3>1. JoinKinds({x, y}) \in Scalars /\ "Array" \notin Scalars /\ x \in Ends \ {"Unknown"} /\ y \in Ends \ {"Unknown"}
            BY JoinKindsOfScalars DEF Scalars, Ends
        <3>2. /\ unify(a, b).shape = [k |-> JoinKinds({x, y})]
              /\ unify(a, b).mixed = ({x, y} = {"ObjectId", "Utf8"})
              /\ a.k = x /\ b.k = y
            BY DEF Joined
        <3>3. /\ Flat(unify(a, b).shape) = Level(0, JoinKinds({x, y}))
              /\ Flat(a) = Level(0, x) /\ Flat(b) = Level(0, y)
            BY <2>2, <2>4, <3>1, <3>2
        <3>4. /\ Lattice!JoinBase(x, y) = JoinKinds({x, y})
              /\ Lattice!MixesBase(x, y) <=> {x, y} = {"ObjectId", "Utf8"}
            BY <3>1, BasesJoin
        <3>5. /\ Lattice!unify(Level(0, x), Level(0, y)) = Level(0, Lattice!JoinBase(x, y))
              /\ Lattice!mixes(Level(0, x), Level(0, y)) <=> Lattice!MixesBase(x, y)
            BY JoinOfLevels
        <3>6. Flat(unify(a, b).shape) = Lattice!unify(Flat(a), Flat(b))
            BY <3>3, <3>4, <3>5
        <3>7. unify(a, b).mixed <=> Lattice!mixes(Flat(a), Flat(b))
            BY <3>2, <3>3, <3>4, <3>5
        <3> QED BY <3>6, <3>7
    <2> HIDE DEF Q
    <2> QED BY <2>1, <2>6, <2>7, <2>8, <2>9, <2>10, UnifyCases
<1>2. \A d, n \in Nat : <<d, n>> \in S
    <2>1. ASSUME NEW d \in Nat, NEW n \in Nat,
                 d > 0 => \A m \in Nat : <<d - 1, m>> \in S,
                 n > 0 => <<d, n - 1>> \in S
          PROVE  <<d, n>> \in S
        <3> HIDE DEF P
        <3> QED BY <1>1, <2>1
    <2> HIDE DEF S
    <2> QED BY <2>1, LevelInduction
<1> QED BY <1>2
\* A slot observes a value as a field of SchemaLattice observes the value's shape.
LEMMA SlotObserves ==
    ASSUME Recursion, NEW slot, slot = Empty \/ SlotWellFormed(slot, MaxLevels - 1),
           NEW v, IsValue(v, MaxLevels - 1, MaxLevels),
           NEW next, next = observe_value(slot, v)
    PROVE  /\ next.present = slot.present + 1
           /\ v = Null => next.shape = slot.shape /\ next.nulls = slot.nulls + 1 /\ next.mixed = slot.mixed
           /\ v # Null =>
                 /\ Flat(shape_of(v)) # Lattice!Unknown
                 /\ next.nulls = slot.nulls
                 /\ Flat(next.shape) = Lattice!unify(Flat(slot.shape), Flat(shape_of(v)))
                 /\ next.mixed = (slot.mixed \/ Lattice!mixes(Flat(slot.shape), Flat(shape_of(v))))
<1>1. MaxLevels - 1 \in Nat /\ MaxLevels \in Nat
    BY SchemaTreeAssumption
<1>2. /\ UnifyEq /\ ShapeOfEq /\ WellFormedEq /\ IsValueEq /\ LevelsEq
    BY DEF Recursion
<1>3. WellFormed(slot.shape, MaxLevels - 1, MaxLevels) /\ slot.mixed \in BOOLEAN
    <2>1. Empty.shape = Null /\ Empty.mixed = FALSE
        BY DEF Empty
    <2>2. WellFormed(Null, MaxLevels - 1, MaxLevels)
        BY DEF WellFormed, Leaf, Null
    <2>3. SlotWellFormed(slot, MaxLevels - 1) =>
             WellFormed(slot.shape, MaxLevels - 1, MaxLevels) /\ slot.mixed \in BOOLEAN
        BY DEF SlotWellFormed
    <2> QED BY <2>1, <2>2, <2>3
<1> DEFINE s == shape_of(v)
           r == unify(slot.shape, s)
<1>4. WellFormed(s, MaxLevels - 1, MaxLevels)
    BY <1>1, <1>2, ShapeOfWellFormed
<1>5. /\ next.shape = r.shape
      /\ next.present = slot.present + 1
      /\ next.nulls = IF v = Null THEN slot.nulls + 1 ELSE slot.nulls
      /\ next.mixed = (slot.mixed \/ r.mixed)
    BY <1>2 DEF observe_value, ShapeOfEq
<1>6. ASSUME v = Null PROVE next.shape = slot.shape /\ next.mixed = slot.mixed
    <2>1. s = Null
        BY <1>6 DEF shape_of, Null
    <2>2. r = Joined(slot.shape, FALSE)
        BY <2>1 DEF unify
    <2>3. r.shape = slot.shape /\ r.mixed = FALSE
        BY <2>2 DEF Joined
    <2> HIDE DEF r
    <2> QED BY <1>3, <1>5, <2>3
<1>7. /\ Flat(r.shape) = Lattice!unify(Flat(slot.shape), Flat(s))
      /\ r.mixed <=> Lattice!mixes(Flat(slot.shape), Flat(s))
    BY <1>1, <1>2, <1>3, <1>4, UnifyIsJoin
<1>8. ASSUME v # Null PROVE Flat(s) # Lattice!Unknown
    <2>1. Kinded(v)
        BY <1>1, <1>2, IsValueParts
    <2>2. CASE v.k = "Document"
        <3>1. s.k = "Document"
            BY <2>2 DEF shape_of
        <3>2. Base(s) = "Document"
            BY <3>1 DEF Base
        <3> HIDE DEF s
        <3> QED BY <3>2 DEF Flat, Lattice!Unknown, Lattice!Shape
    <2>3. CASE v.k = "Array"
        <3>1. s.k = "Array"
            BY <2>3 DEF shape_of
        <3>2. WellFormed(s.of, MaxLevels - 1, MaxLevels - 1)
            BY <1>1, <1>2, <1>4, <3>1, WellFormedParts
        <3>3. Depth(s.of) \in Nat /\ Depth(s) = Depth(s.of) + 1
            BY <1>1, <1>2, <3>1, <3>2, LevelsOf DEF Depth, LevelsEq
        <3> HIDE DEF s
        <3> QED BY <3>3 DEF Flat, Lattice!Unknown, Lattice!Shape
    <2>4. CASE v.k \notin {"Document", "Array"}
        <3>1. s = v
            BY <2>4 DEF shape_of
        <3>2. v.k # "Unknown"
            BY <1>8, <2>1, <2>4 DEF Kinded, Leaf, Null
        <3>3. Base(s) # "Unknown"
            BY <2>4, <3>1, <3>2 DEF Base
        <3> HIDE DEF s
        <3> QED BY <3>3 DEF Flat, Lattice!Unknown, Lattice!Shape
    <2> QED BY <2>2, <2>3, <2>4
<1> HIDE DEF r, s
<1>9. next.mixed = (slot.mixed \/ Lattice!mixes(Flat(slot.shape), Flat(s)))
    BY <1>5, <1>7
<1> QED BY <1>5, <1>6, <1>7, <1>8, <1>9 DEF s
\* The bounds of SchemaLattice have room for the values of Column.
WithinBounds ==
    \A d \in SampleDocs : Column \in DOMAIN d.fields /\ d.fields[Column] # Null =>
        Flat(shape_of(d.fields[Column])) \in Lattice!Values

\* The shapes of the values observed for Column.
SampledShapes ==
    {Flat(shape_of(d.fields[Column])) :
        d \in {e \in Observed : Column \in DOMAIN e.fields /\ e.fields[Column] # Null}}

LEMMA SlotWithinMaxDocs ==
    ASSUME Recursion, CountsInv, docs_seen < MaxDocs
    PROVE  Slot.present < MaxDocs
<1>1. docs_seen = Len(seen) /\ seen \in Seq(SampleDocs) /\ MaxDocs \in Nat /\ IsValueEq
    BY SchemaTreeAssumption DEF CountsInv, FitsInv, ShapesInv, Recursion
<1>2. Len(seen) \in Nat
    BY <1>1
<1>3. CASE Column \in DOMAIN root
    <2>1. Slot.present = Cardinality(Having(seen, Column))
        BY <1>3 DEF Slot, CountsInv, SlotCounts
    <2>2. Having(seen, Column) \in SUBSET (1 .. Len(seen))
        BY <1>1, SeenValues DEF Having
    <2>3. IsFiniteSet(1 .. Len(seen)) /\ Cardinality(1 .. Len(seen)) = Len(seen)
        <3>1. Cardinality(1 .. Len(seen)) = IF 1 > Len(seen) THEN 0 ELSE Len(seen) - 1 + 1
            BY <1>2, FS_Interval
        <3>2. IsFiniteSet(1 .. Len(seen))
            BY <1>2, FS_Interval
        <3> QED BY <1>2, <3>1, <3>2
    <2>4. /\ Cardinality(Having(seen, Column)) <= Len(seen)
          /\ Cardinality(Having(seen, Column)) \in Nat
        BY <2>2, <2>3, FS_Subset, FS_CardinalityType
    <2> QED BY <1>1, <1>2, <2>1, <2>4
<1>4. CASE Column \notin DOMAIN root
    BY <1>1, <1>2, <1>4 DEF Slot, Empty
<1> QED BY <1>3, <1>4

\* The slot of a root key goes through the states of a field of SchemaLattice: one
\* document is one null or one value observed, or nothing where the key is missing.
THEOREM SlotRefinesLattice == ASSUME Recursion, WithinBounds PROVE Spec => SlotIsLattice
<1>1. Init => Lattice!Init
    <2> SUFFICES ASSUME Init PROVE Lattice!Init
        OBVIOUS
    <2>1. Slot = Empty
        BY DEF Init, Slot
    <2>2. Flat(Slot.shape) = Lattice!Unknown /\ Slot.present = 0 /\ Slot.nulls = 0 /\ Slot.mixed = FALSE
        BY <2>1 DEF Empty, Null, Flat, Depth, Base, Lattice!Unknown, Lattice!Shape
    <2>3. SampledShapes = {}
        <3>1. 1 .. Len(seen) = {}
            BY DEF Init
        <3> QED BY <3>1 DEF SampledShapes, Observed
    <2> QED BY <2>2, <2>3 DEF Lattice!Init, OfSlot, SampledShapes
<1>2. CountsInv /\ [Next]_vars => [Lattice!Next]_(Lattice!vars)
    <2> SUFFICES ASSUME CountsInv, [Next]_vars PROVE [Lattice!Next]_(Lattice!vars)
        OBVIOUS
    <2>1. CASE UNCHANGED <<root, seen>>
        <3>1. Slot' = Slot /\ SampledShapes' = SampledShapes
            BY <2>1 DEF Slot, SampledShapes, Observed
        <3> QED BY <3>1 DEF Lattice!vars, OfSlot, SampledShapes
    <2>2. ASSUME NEW d \in SampleDocs, Observe(d) PROVE [Lattice!Next]_(Lattice!vars)
        <3>1. Observed' = Observed \cup {d}
            BY <2>2, ObservedNext DEF Observe, CountsInv, FitsInv, ShapesInv
        <3>2. CASE Column \notin DOMAIN d.fields
            <4>1. Slot' = Slot
                BY <2>2, <3>2 DEF Slot, Observe
            <4>2. SampledShapes' = SampledShapes
                BY <3>1, <3>2 DEF SampledShapes
            <4> QED BY <4>1, <4>2 DEF Lattice!vars, OfSlot, SampledShapes
        <3>3. CASE Column \in DOMAIN d.fields
            <4> DEFINE v == d.fields[Column]
            <4>1. Slot' = observe_value(Slot, v)
                BY <2>2, <3>3 DEF Slot, Observe
            <4>2. Slot = Empty \/ SlotWellFormed(Slot, MaxLevels - 1)
                BY RootWellFormed DEF Slot, Root, CountsInv, FitsInv, ShapesInv, Recursion
            <4>3. IsValue(v, MaxLevels - 1, MaxLevels)
                <5>1. MaxLevels \in Nat /\ d.k = "Document" /\ IsValue(d, MaxLevels, MaxLevels)
                    BY SchemaTreeAssumption
                <5> QED BY <3>3, <5>1, IsValueParts DEF Recursion
            <4>4. Slot.present < MaxDocs
                BY <2>2, SlotWithinMaxDocs DEF Observe
            <4>5. SampledShapes' = IF v = Null THEN SampledShapes ELSE SampledShapes \cup {Flat(shape_of(v))}
                BY <3>1, <3>3 DEF SampledShapes
            <4>6. v # Null => Flat(shape_of(v)) \in Lattice!Values
                BY <3>3 DEF WithinBounds
            <4> HIDE DEF v
            <4>7. CASE v = Null
                <5>1. /\ Slot'.present = Slot.present + 1 /\ Slot'.shape = Slot.shape
                      /\ Slot'.nulls = Slot.nulls + 1 /\ Slot'.mixed = Slot.mixed
                    BY <4>1, <4>2, <4>3, <4>7, SlotObserves
                <5>2. Lattice!ObserveNull("sampler")
                    BY <4>4, <4>5, <4>7, <5>1 DEF Lattice!ObserveNull, OfSlot, SampledShapes
                <5> QED BY <5>2 DEF Lattice!Next
            <4>8. CASE v # Null
                <5>1. /\ Slot'.present = Slot.present + 1
                      /\ Flat(shape_of(v)) # Lattice!Unknown
                      /\ Slot'.nulls = Slot.nulls
                      /\ Flat(Slot'.shape) = Lattice!unify(Flat(Slot.shape), Flat(shape_of(v)))
                      /\ Slot'.mixed = (Slot.mixed \/ Lattice!mixes(Flat(Slot.shape), Flat(shape_of(v))))
                    BY <4>1, <4>2, <4>3, <4>8, SlotObserves
                <5>2. Lattice!ObserveValue("sampler", Flat(shape_of(v)))
                    BY <4>4, <4>5, <4>8, <5>1 DEF Lattice!ObserveValue, OfSlot, SampledShapes
                <5> QED BY <4>6, <4>8, <5>2 DEF Lattice!Next
            <4> QED BY <4>7, <4>8
        <3> QED BY <3>2, <3>3
    <2> QED BY <2>1, <2>2 DEF Next, Infer, Reload, vars
<1> QED BY <1>1, <1>2, CountsInvHolds, PTL DEF Spec, SlotIsLattice, Lattice!Spec
===============================================================================
