----------------------------- MODULE MCSchemaTree -----------------------------
(***************************************************************************)
(* SchemaTree over documents with every way a key "a" can be nested and    *)
(* mixed, three levels deep where two become columns.                      *)
(***************************************************************************)
EXTENDS SchemaTree, TLC

Of(kind) == [k |-> kind]
Object(fields) == [k |-> "Document", fields |-> fields]
List(items) == [k |-> "Array", items |-> items]

A(v) == [k |-> "Document", fields |-> ("a" :> v)]

Keys == {"_id", "a", "b", "c", "a.b"}
SplitKeys == [c \in Keys |-> IF c = "a.b" THEN <<"a", "b">> ELSE <<c>>]

AllDocs ==
    {A(Of(kind)) : kind \in {"Int32", "Utf8", "ObjectId", "Json"}}
    \cup {A(Object(<<>>)), A(Object("b" :> Of("Int32"))), A(Object("b" :> Null @@ "c" :> Of("Utf8"))),
          A(Object("b" :> Object("c" :> Object("d" :> Of("Bool"))))),
          A(Object("b" :> List(<<List(<<Of("DateTime")>>), Of("BsonTimestamp")>>)))}
    \cup {A(List(<<Of("Int32"), Of("Utf8")>>)), A(List(<<Of("Double"), Null>>)),
          A(List(<<List(<<Of("Int32")>>)>>)),
          A(List(<<Object("b" :> Of("Utf8")), Object("b" :> List(<<Of("Bool")>>))>>))}
    \cup {Object("_id" :> Of("ObjectId") @@ "a" :> Null @@ "b" :> Of("Decimal")),
          Object("_id" :> Of("Binary") @@ "b" :> Of("Double") @@ "c" :> Of("DateTime")
                                   @@ "a.b" :> Of("Int32"))}

\* Bases and levels of Array of the values of "a".
AllBases == {"Unknown", "Int32", "Double", "Utf8", "ObjectId", "Document", "Json"}

(***************************************************************************)
(* What the constants for recursive calls stand for: the definitions.  Each*)
(* is behind a LET, where TLC's coverage statistics, which follow a        *)
(* constant to its definition, do not go round for ever.                   *)
(***************************************************************************)
MC_unify(a, b) == LET whole == unify(a, b) IN whole
MC_shape_of(v) == LET whole == shape_of(v) IN whole
MC_joined(items, n) == LET whole == joined(items, n) IN whole
MC_arrow_type(s, path, depth) == LET whole == arrow_type(s, path, depth) IN whole
MC_from_arrow(f) == LET whole == from_arrow(f) IN whole
MC_to_arrow(s) == LET whole == to_arrow(s) IN whole
MC_Within(s, n) == LET whole == Within(s, n) IN whole
MC_lookup_path(v, path) == LET whole == lookup_path(v, path) IN whole
MC_decode(type, v) == LET whole == decode(type, v) IN whole
MC_value_to_json(c) == LET whole == value_to_json(c) IN whole
MC_IsValue(v, d, n) == LET whole == IsValue(v, d, n) IN whole
MC_WellFormed(s, d, n) == LET whole == WellFormed(s, d, n) IN whole
MC_NestsWithin(type, n) == LET whole == NestsWithin(type, n) IN whole
MC_Carries(json, v) == LET whole == Carries(json, v) IN whole
MC_Trusted(field, values) == LET whole == Trusted(field, values) IN whole
MC_Counted(s, vs) == LET whole == Counted(s, vs) IN whole
MC_Fits(s, v, m) == LET whole == Fits(s, v, m) IN whole
MC_Depth(s) == LET whole == Depth(s) IN whole
MC_Base(s) == LET whole == Base(s) IN whole
===============================================================================
