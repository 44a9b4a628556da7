------------------------------- MODULE Pushdown -------------------------------
(***************************************************************************)
(* From a predicate of WHERE to a $match: translate() of                   *)
(* src/src/mongo/pushdown.rs, next to what SQL makes of the same predicate *)
(* over the columns that build_array() of src/src/mongo/convert.rs decodes.*)
(*                                                                         *)
(* translate() recurses over the predicate.  Here the results of the parts *)
(* not yet combined are a stack: a leaf puts its result on it, NOT replaces*)
(* the last one, AND and OR combine the last two.  A result holds the      *)
(* documents SQL finds true and false (NULL otherwise) and the documents   *)
(* the $match accepts.                                                     *)
(*                                                                         *)
(* A stored value is a BSON type and a number, its place in the order of   *)
(* that type; values with the same number read alike as text.  Literals    *)
(* have the column's SQL type: the planner has coerced them.               *)
(***************************************************************************)
EXTENDS Naturals, Sequences

CONSTANTS
    Columns,     \* columns of the frozen schema
    Type,        \* the type each of them was given
    Mixed,       \* those marked as coerced across families
    Numbers,     \* bound: values of one BSON type
    Tests,       \* bound: sets of values a comparison, IN or LIKE accepts
    Docs,        \* the documents of the collection
    MaxLeaves    \* bound: leaves of a predicate

\* "times": both BSON time types were sampled; unify() joins them unmixed.
Types == {"int", "bool", "text", "oid", "time", "stamp", "times", "json", "list"}

BsonTypes == {"null", "num", "bool", "str", "oid", "time", "stamp", "doc"}

Scalars == {s \in [of : BsonTypes, n : Numbers] : s.of = "bool" => s.n \in {0, 1}}

\* What a document has at a column's path: an array of values, one value, or
\* nothing.
Fields == [array : BOOLEAN, items : SUBSET Scalars]

Missing == [array |-> FALSE, items |-> {}]

ASSUME PushdownAssumption ==
    /\ Type \in [Columns -> Types]
    /\ Mixed \subseteq Columns
    /\ Numbers \subseteq Nat /\ {0, 1} \subseteq Numbers
    /\ Tests \subseteq SUBSET Numbers
    /\ Docs \subseteq [Columns -> Fields]
    /\ \A d \in Docs : \A c \in Columns :
          ~d[c].array => \A s, r \in d[c].items : s = r
    /\ MaxLeaves \in Nat
-------------------------------------------------------------------------------
(***************************************************************************)
(* What SQL sees of a field: build_array().                                *)
(***************************************************************************)

\* Utf8 columns render whatever they find, arrays included.
Textual == {"text", "oid", "json"}

\* Columns with a millisecond timestamp.
Timestamps == {"time", "stamp", "times"}

Reads(type) ==
    CASE type = "int"        -> {"num", "bool"}
      [] type = "bool"       -> {"bool"}
      [] type \in Timestamps -> {"time", "stamp", "num"}
      [] OTHER               -> BsonTypes \ {"null"}

Absent(f) == ~f.array /\ \A s \in f.items : s.of = "null"

SqlNull(c, f) ==
    \/ Absent(f)
    \/ f.array /\ Type[c] \notin Textual \cup {"list"}
    \/ ~f.array /\ \E s \in f.items : s.of \notin Reads(Type[c])

\* The column is not NULL and its value is in P; an array's text is in no P.
SqlIn(c, f, P) == ~SqlNull(c, f) /\ ~f.array /\ \E s \in f.items : s.n \in P
-------------------------------------------------------------------------------
(***************************************************************************)
(* What $match sees of a field.                                            *)
(***************************************************************************)

\* A comparison finds values of the operand's own BSON type, in arrays too.
Finds(f, of, P) == \E s \in f.items : s.of = of /\ s.n \in P

\* {path: null} finds absent fields, nulls, and arrays with a null in them.
FindsNull(f) == f = Missing \/ \E s \in f.items : s.of = "null"

\* scalar_to_bson(): the BSON type of a literal compared with a column.
LiteralOf(type) ==
    CASE type = "int"              -> "num"
      [] type = "bool"             -> "bool"
      [] type \in {"text", "json"} -> "str"
      [] type = "oid"              -> "oid"
      [] type \in Timestamps       -> "time"
      [] OTHER                     -> "none"

\* arrow_type(): the BSON type whose values give an unmixed column its type.
Home(type) ==
    CASE type = "text"   -> "str"
      [] type = "stamp"  -> "stamp"
      [] type = "json"   -> "doc"
      [] OTHER           -> LiteralOf(type)

\* Columns whose values inference has no single scalar type for.
Loose(c) == c \in Mixed \/ Type[c] \in {"times", "json", "list"}

\* The documents inference would give this schema to.
Sampled == {d \in Docs : \A c \in Columns :
               Loose(c) \/ (~d[c].array /\ \A s \in d[c].items : s.of \in {"null", Home(Type[c])})}
-------------------------------------------------------------------------------
(***************************************************************************)
(* Results.  "plain" and the two "null" marks are history: they tell which *)
(* predicates the properties below are about.                              *)
(***************************************************************************)
Results == [true    : SUBSET Docs,      \* SQL: true
            false   : SUBSET Docs,      \* SQL: false
            pushed  : BOOLEAN,          \* translate() is not None
            match   : SUBSET Docs,      \* accepted by the $match
            exact   : BOOLEAN,          \* Translated.exact
            columns : SUBSET Columns,   \* null_guards()
            plain   : BOOLEAN,          \* see Test, IsNull, IsTrue, Not
            nullT   : BOOLEAN,          \* may be true when a column is NULL
            nullF   : BOOLEAN]          \* may be false when a column is NULL

\* No column of the set is null or absent.
Guarded(d, cs) == \A c \in cs : ~FindsNull(d[c])

\* A comparison, BETWEEN, IN or LIKE of column c with literals of a BSON type.
\* NOT BETWEEN is the test of the values on either side; a bare boolean column
\* is the test for true.
Test(c, of, P) ==
    [true |-> {d \in Docs : SqlIn(c, d[c], P)},
     false |-> {d \in Docs : ~SqlNull(c, d[c]) /\ ~SqlIn(c, d[c], P)},
     pushed |-> TRUE,
     match |-> {d \in Docs : Finds(d[c], of, P)},
     exact |-> c \notin Mixed,
     columns |-> {c},
     plain |-> ~Loose(c) /\ Home(Type[c]) = of,
     nullT |-> FALSE, nullF |-> FALSE]

\* Variation: the negated forms do not ask for a value.
TestNot_Unguarded(c, of, P) ==
    [Test(c, of, P) EXCEPT !.true = Test(c, of, P).false,
                           !.false = Test(c, of, P).true,
                           !.match = {d \in Docs : ~Finds(d[c], of, P)}]

\* <>, NOT IN and NOT LIKE: exclude_null() of the negated operator.
TestNot(c, of, P) ==
    [Test(c, of, P) EXCEPT !.true = Test(c, of, P).false,
                           !.false = Test(c, of, P).true,
                           !.match = {d \in Docs : ~Finds(d[c], of, P) /\ ~FindsNull(d[c])}]

IsNull(c) ==
    [true |-> {d \in Docs : SqlNull(c, d[c])},
     false |-> {d \in Docs : ~SqlNull(c, d[c])},
     pushed |-> TRUE,
     match |-> {d \in Docs : FindsNull(d[c])},
     exact |-> TRUE,
     columns |-> {c},
     plain |-> ~Loose(c),
     nullT |-> TRUE, nullF |-> FALSE]

IsNotNull(c) ==
    [IsNull(c) EXCEPT !.true = IsNull(c).false,
                      !.false = IsNull(c).true,
                      !.match = {d \in Docs : ~FindsNull(d[c])},
                      !.nullT = FALSE, !.nullF = TRUE]

\* IS TRUE (b = 1) and IS FALSE (b = 0) are never NULL.
IsBool(c, b) ==
    [Test(c, "bool", {b}) EXCEPT !.false = Docs \ Test(c, "bool", {b}).true,
                                 !.nullF = TRUE]

\* IS NOT TRUE and IS NOT FALSE: the other value, or null.
IsNotBool(c, b) ==
    [Test(c, "bool", {1 - b}) EXCEPT
        !.true = Docs \ Test(c, "bool", {b}).true,
        !.false = Test(c, "bool", {b}).true,
        !.match = {d \in Docs : Finds(d[c], "bool", {1 - b}) \/ FindsNull(d[c])},
        !.exact = TRUE,
        !.nullT = TRUE]

\* What has no $match: a malformed ObjectId, a decimal, another column.
Opaque(c, P) == [Test(c, "none", P) EXCEPT !.pushed = FALSE, !.match = {},
                                           !.exact = FALSE, !.plain = ~Loose(c)]

Leaves ==
    UNION {
        {Test(c, LiteralOf(Type[c]), P) : c \in {k \in Columns : Type[k] # "list"}, P \in Tests},
        {TestNot(c, LiteralOf(Type[c]), P) : c \in {k \in Columns : Type[k] # "list"}, P \in Tests},
        {Test(c, "str", P) : c \in {k \in Columns : Type[k] \in Textual}, P \in Tests},
        {TestNot(c, "str", P) : c \in {k \in Columns : Type[k] \in Textual}, P \in Tests},
        {IsNull(c) : c \in Columns},
        {IsNotNull(c) : c \in Columns},
        {IsBool(c, b) : c \in {k \in Columns : Type[k] = "bool"}, b \in {0, 1}},
        {IsNotBool(c, b) : c \in {k \in Columns : Type[k] = "bool"}, b \in {0, 1}},
        {Opaque(c, P) : c \in {k \in Columns : Type[k] # "list"}, P \in Tests}}

\* NOT: $nor, and every column of the operand asserted non-null.
Not(t) ==
    [true |-> t.false,
     false |-> t.true,
     pushed |-> t.pushed,
     match |-> {d \in Docs \ t.match : Guarded(d, t.columns)},
     exact |-> t.exact,
     columns |-> t.columns,
     plain |-> t.plain /\ ~t.nullF /\ (t.pushed => t.exact),
     nullT |-> t.nullF, nullF |-> t.nullT]

\* What a half of AND contributes to the $match.
Share(t) == IF t.pushed THEN t.match ELSE Docs

\* AND: one half is worth sending without the other.
And(s, t) ==
    [true |-> s.true \cap t.true,
     false |-> s.false \cup t.false,
     pushed |-> s.pushed \/ t.pushed,
     match |-> Share(s) \cap Share(t),
     exact |-> s.exact /\ t.exact,
     columns |-> s.columns \cup t.columns,
     plain |-> s.plain /\ t.plain,
     nullT |-> s.nullT \/ t.nullT, nullF |-> TRUE]

\* Variation: one arm of OR is sent without the other.
Or_Partial(s, t) ==
    [true |-> s.true \cup t.true,
     false |-> s.false \cap t.false,
     pushed |-> s.pushed \/ t.pushed,
     match |-> s.match \cup t.match,
     exact |-> s.exact /\ t.exact,
     columns |-> s.columns \cup t.columns,
     plain |-> s.plain /\ t.plain,
     nullT |-> TRUE, nullF |-> s.nullF \/ t.nullF]

\* OR: all or nothing.
Or(s, t) ==
    [true |-> s.true \cup t.true,
     false |-> s.false \cap t.false,
     pushed |-> s.pushed /\ t.pushed,
     match |-> s.match \cup t.match,
     exact |-> s.exact /\ t.exact,
     columns |-> s.columns \cup t.columns,
     plain |-> s.plain /\ t.plain,
     nullT |-> TRUE, nullF |-> s.nullF \/ t.nullF]
-------------------------------------------------------------------------------
VARIABLES
    stack,     \* results of the parts not yet combined
    leaves     \* leaves translated so far

vars == <<stack, leaves>>

TypeOK ==
    /\ stack \in Seq(Results)
    /\ leaves \in 0 .. MaxLeaves
    /\ Len(stack) <= leaves

Init == stack = <<>> /\ leaves = 0

TranslateLeaf ==
    /\ leaves < MaxLeaves
    /\ leaves' = leaves + 1
    /\ \E t \in Leaves : stack' = Append(stack, t)

TranslateNot ==
    /\ Len(stack) >= 1
    /\ stack' = [stack EXCEPT ![Len(stack)] = Not(@)]
    /\ UNCHANGED leaves

\* Variation: the operands stay behind.
Combine_Keeps(t) == stack' = Append(stack, t) /\ UNCHANGED leaves

\* The last two results give way to t.
Combine(t) ==
    /\ stack' = [i \in 1 .. Len(stack) - 1 |-> IF i = Len(stack) - 1 THEN t ELSE stack[i]]
    /\ UNCHANGED leaves

\* translate_binary()
TranslateBinary ==
    /\ Len(stack) >= 2
    /\ LET s == stack[Len(stack) - 1]
           t == stack[Len(stack)]
       IN  Combine(And(s, t)) \/ Combine(Or(s, t))

Next == TranslateLeaf \/ TranslateNot \/ TranslateBinary

Spec == Init /\ [][Next]_vars
-------------------------------------------------------------------------------
(***************************************************************************)
(* Properties, over the documents inference would give the schema to.      *)
(* "Plain" predicates test unmixed columns with literals of the columns'   *)
(* own BSON type; NOT is applied to what was translated exactly and cannot *)
(* be false while a column is NULL.                                        *)
(***************************************************************************)
Parts == {stack[i] : i \in 1 .. Len(stack)}

LosesNone(t) == t.pushed => t.true \cap Sampled \subseteq t.match

AddsNone(t) == t.pushed /\ t.exact => t.match \cap Sampled \subseteq t.true

\* pushdown.rs:5-9: however AND, OR and NOT are nested, the $match of a plain
\* predicate, Exact or not, lets every row through that SQL asks for.
PlainLosesNone == \A t \in Parts : t.plain => LosesNone(t)

\* pushdown.rs:5-16: and when it is claimed Exact it lets nothing else through,
\* rows where a negated comparison is NULL included.
PlainAddsNone == \A t \in Parts : t.plain => AddsNone(t)

\* As pushdown.rs:5-9 has it (never change the answer; Exact only of precisely
\* the SQL rows, Inexact re-evaluated), for every predicate.
AnswerUnchanged == \A t \in Parts : LosesNone(t) /\ AddsNone(t)
===============================================================================
