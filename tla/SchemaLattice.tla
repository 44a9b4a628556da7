----------------------------- MODULE SchemaLattice -----------------------------
(***************************************************************************)
(* How the type of one field is inferred from the values sampled for it:   *)
(* unify() and observe_value() of src/src/catalog/infer.rs, with two       *)
(* samplers that meet the values in whatever order their cursors return    *)
(* them.                                                                   *)
(*                                                                         *)
(* A shape is a base under some levels of Array: [depth |-> 2, base |-> b] *)
(* is an array of arrays of b.  unify() recurses through the levels; it is *)
(* stated here for both depths at once.  Documents are one base: the merge *)
(* of their fields is the same join again, field by field.                 *)
(***************************************************************************)
EXTENDS Naturals

CONSTANTS
    Samplers,      \* sampling runs over the same field
    MaxDepth,      \* bound: levels of Array in a sampled value
    SampledBases,  \* bound: bases of the sampled values
    MaxSample      \* bound: values a sampler observes

Bases == {"Unknown", "Bool", "Int32", "Int64", "Double", "Decimal", "Utf8", "ObjectId",
          "DateTime", "BsonTimestamp", "Binary", "Document", "Json"}

ASSUME SchemaLatticeAssumption == /\ MaxDepth \in Nat /\ MaxSample \in Nat
                                  /\ SampledBases \subseteq Bases

Shapes == [depth : Nat, base : Bases]

Shape(d, b) == [depth |-> d, base |-> b]

Unknown == Shape(0, "Unknown")

\* shape_of() of the values a collection can hold; a null is Unknown.
Values == [depth : 0 .. MaxDepth, base : SampledBases]
-------------------------------------------------------------------------------
(***************************************************************************)
(* The join of two bases.                                                  *)
(***************************************************************************)

\* a is stored as b without leaving its family: the numeric tower, and the two
\* BSON time types, both milliseconds.  Nothing was seen of an Unknown.
Widens(a, b) ==
    \/ a = b
    \/ a = "Unknown"
    \/ a = "Int32" /\ b \in {"Int64", "Double", "Decimal"}
    \/ a = "Int64" /\ b \in {"Double", "Decimal"}
    \/ a = "Double" /\ b = "Decimal"
    \/ a = "BsonTimestamp" /\ b = "DateTime"

\* An ObjectId is read as its text where strings occur too.
Coerces(a, b) == a = "ObjectId" /\ b = "Utf8"

JoinBase(a, b) ==
    IF Widens(a, b) \/ Coerces(a, b) THEN b
    ELSE IF Widens(b, a) \/ Coerces(b, a) THEN a
    ELSE "Json"

\* Does the join leave the families of its operands?
MixesBase(a, b) == ~Widens(a, b) /\ ~Widens(b, a)
-------------------------------------------------------------------------------
(***************************************************************************)
(* unify().  Two arrays are joined element-wise; a scalar meeting an array *)
(* is absorbed into its elements, at every level; but a Json that meets an *)
(* array absorbs the array.                                                *)
(***************************************************************************)

\* x is Json at a level where y still has an array.
Swallows(x, y) == x.base = "Json" /\ x.depth < y.depth

\* Variation: an array that meets an array is wrapped like a scalar.
unify_Wraps(x, y) ==
    IF Swallows(x, y) THEN x
    ELSE IF Swallows(y, x) THEN y
    ELSE Shape(x.depth + y.depth, JoinBase(x.base, y.base))

\* Variation: the last type wins where the families differ.
unify_LastWins(x, y) ==
    IF MixesBase(x.base, y.base) THEN y
    ELSE Shape(IF x.depth < y.depth THEN y.depth ELSE x.depth, JoinBase(x.base, y.base))

unify(x, y) ==
    IF Swallows(x, y) THEN x
    ELSE IF Swallows(y, x) THEN y
    ELSE Shape(IF x.depth < y.depth THEN y.depth ELSE x.depth, JoinBase(x.base, y.base))

\* Variation: a join with Json is not reported.
mixes_NotJson(x, y) == MixesBase(x.base, y.base) /\ "Json" \notin {x.base, y.base}

\* Variation: what Json has already absorbed is not reported again.
mixes_Absorbed(x, y) == ~Swallows(x, y) /\ (Swallows(y, x) \/ MixesBase(x.base, y.base))

\* When unify() sets the caller's "mixed" flag.
mixes(x, y) == x # y /\ (Swallows(x, y) \/ Swallows(y, x) \/ MixesBase(x.base, y.base))
-------------------------------------------------------------------------------
(***************************************************************************)
(* observe_value(): one slot per sampler.                                  *)
(***************************************************************************)
VARIABLES
    shape,      \* the shape inferred so far
    present,    \* values observed
    nulls,      \* nulls among them
    mixed,      \* has a join crossed families?
    sampled     \* history: the shapes observed

vars == <<shape, present, nulls, mixed, sampled>>

TypeOK ==
    /\ shape \in [Samplers -> Shapes]
    /\ present \in [Samplers -> Nat]
    /\ nulls \in [Samplers -> Nat]
    /\ mixed \in [Samplers -> BOOLEAN]
    /\ sampled \in [Samplers -> SUBSET Values]

Init ==
    /\ shape = [s \in Samplers |-> Unknown]
    /\ present = [s \in Samplers |-> 0]
    /\ nulls = [s \in Samplers |-> 0]
    /\ mixed = [s \in Samplers |-> FALSE]
    /\ sampled = [s \in Samplers |-> {}]

\* Variation: null has a shape of its own.
ObserveNull_Typed(s) ==
    /\ present[s] < MaxSample
    /\ present' = [present EXCEPT ![s] = @ + 1]
    /\ nulls' = [nulls EXCEPT ![s] = @ + 1]
    /\ shape' = [shape EXCEPT ![s] = IF @ = Unknown THEN Shape(0, "Null") ELSE @]
    /\ UNCHANGED <<mixed, sampled>>

\* A null is counted and leaves the shape alone.
ObserveNull(s) ==
    /\ present[s] < MaxSample
    /\ present' = [present EXCEPT ![s] = @ + 1]
    /\ nulls' = [nulls EXCEPT ![s] = @ + 1]
    /\ UNCHANGED <<shape, mixed, sampled>>

ObserveValue(s, v) ==
    /\ present[s] < MaxSample
    /\ v # Unknown
    /\ present' = [present EXCEPT ![s] = @ + 1]
    /\ shape' = [shape EXCEPT ![s] = unify(@, v)]
    /\ mixed' = [mixed EXCEPT ![s] = @ \/ mixes(shape[s], v)]
    /\ sampled' = [sampled EXCEPT ![s] = @ \cup {v}]
    /\ UNCHANGED nulls

Next == \E s \in Samplers : ObserveNull(s) \/ \E v \in Values : ObserveValue(s, v)

Spec == Init /\ [][Next]_vars
-------------------------------------------------------------------------------
\* infer.rs:8-16: whatever the order, the inferred shape has room for every
\* value it was inferred from: meeting one of them again changes nothing.
CoversSample == \A s \in Samplers : \A v \in sampled[s] : unify(shape[s], v) = shape[s]

\* infer.rs:186-191: merging does not add levels of its own; the column is not
\* nested deeper than the most deeply nested value.
NoSpuriousNesting ==
    \A s \in Samplers : shape[s].depth > 0 =>
        \E v \in sampled[s] : shape[s].depth <= v.depth

\* infer.rs:34-36: an unmixed column holds every sampled value in its own
\* family, so that a filter may be trusted to the server.
UnmixedIsFaithful ==
    \A s \in Samplers : ~mixed[s] =>
        \A v \in sampled[s] : Widens(v.base, shape[s].base)

\* infer.rs:157: two samplings of the same scalars agree, whatever the orders.
ScalarsInAnyOrder ==
    \A s, r \in Samplers :
        sampled[s] = sampled[r] /\ (\A v \in sampled[s] : v.depth = 0) =>
            shape[s] = shape[r] /\ mixed[s] = mixed[r]

\* infer.rs:34-36, 157: whether a filter on a column may be trusted to the server,
\* and the column's type if it may, depend on the values sampled alone, however
\* deeply their arrays are nested.  (The type of a mixed column does depend on
\* the order in which the cursor returned them.)
UnmixedInAnyOrder ==
    \A s, r \in Samplers :
        sampled[s] = sampled[r] =>
            mixed[s] = mixed[r] /\ (~mixed[s] => shape[s] = shape[r])
===============================================================================
