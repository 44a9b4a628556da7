------------------------------ MODULE SchemaTree ------------------------------
(***************************************************************************)
(* A collection's schema from end to end: Sampler of                       *)
(* src/src/catalog/infer.rs observes documents and finish() makes columns  *)
(* of them, StoredField of src/src/catalog/store.rs takes the columns to   *)
(* the cache file and back over a restart, build_array() of                *)
(* src/src/mongo/convert.rs reads documents through them and encode_value()*)
(* of src/src/server/encode.rs sends what was read.                        *)
(*                                                                         *)
(* A value is a record: its kind k and, of a document, its fields, of an   *)
(* array, its items.  A scalar's kind names its BSON type by the shape that*)
(* infer.rs gives it ("Json": regular expressions and other types without  *)
(* one of their own), so that shapes look like values, with one element    *)
(* shape in place of an array's items.  Ranges are left out on the way in: *)
(* a number or a time that a column of its type cannot hold is no value    *)
(* here.  On the way out one that is held may be out of range.             *)
(***************************************************************************)
EXTENDS Naturals, Sequences, FiniteSets, FiniteSetsExt

CONSTANTS
    SampleDocs,   \* bound: documents the collection may hold
    MaxLevels,    \* bound: their levels of documents, and of arrays directly in one another
    MaxDocs,      \* bound: documents observed
    max_depth,    \* inference.max_depth
    ReadLimit,    \* levels of JSON that serde_json reads back
    Parts,        \* the parts split('.') makes of a root key
    Column,       \* the root key whose refinement is checked
    ArrayDepth,   \* bound: levels of Array in its values
    SlotBases     \* bound: shapes of its values, levels of Array aside

(***************************************************************************)
(* Where a definition calls itself it calls the constant of its name with  *)
(* an underscore, which every configuration gives the definition itself:   *)
(* what is proved about a definition is proved from its own equation.      *)
(***************************************************************************)
CONSTANTS
    unify_(_, _), shape_of_(_), joined_(_, _), arrow_type_(_, _, _), from_arrow_(_),
    to_arrow_(_), Within_(_, _), lookup_path_(_, _), decode_(_, _), value_to_json_(_),
    IsValue_(_, _, _), WellFormed_(_, _, _), NestsWithin_(_, _), Carries_(_, _),
    Trusted_(_, _), Counted_(_, _), Fits_(_, _, _), Depth_(_), Base_(_)

Null == [k |-> "Unknown"]
Json == [k |-> "Json"]

Scalars == {"Bool", "Int32", "Int64", "Double", "Decimal", "Utf8", "ObjectId", "DateTime",
            "BsonTimestamp", "Binary", "Json"}

Leaf(s) == s \in [k : Scalars \cup {"Unknown"}]

\* Within d levels of documents and n levels of arrays directly in one another.
IsValue(v, d, n) ==
    \/ Leaf(v)
    \/ /\ v.k = "Array" /\ n > 0
       /\ Len(v.items) \in Nat /\ DOMAIN v.items = 1 .. Len(v.items)
       /\ \A i \in DOMAIN v.items : IsValue_(v.items[i], d, n - 1)
    \/ /\ v.k = "Document" /\ d > 0
       /\ \A f \in DOMAIN v.fields : IsValue_(v.fields[f], d - 1, MaxLevels)

ASSUME SchemaTreeAssumption ==
    /\ MaxDocs \in Nat /\ max_depth \in Nat /\ ReadLimit \in Nat /\ MaxLevels \in Nat \ {0}
    /\ \A d \in SampleDocs : d.k = "Document" /\ IsValue(d, MaxLevels, MaxLevels)
-------------------------------------------------------------------------------
(***************************************************************************)
(* Shapes: unify(), shape_of() and observe_value().                        *)
(***************************************************************************)
Empty == [shape |-> Null, present |-> 0, nulls |-> 0, mixed |-> FALSE]

Joined(s, m) == [shape |-> s, mixed |-> m]

\* Two different scalars, or a document and a scalar.
JoinKinds(kinds) ==
    CASE kinds = {"Int32", "Int64"}                                   -> "Int64"
      [] kinds \in {{n, "Double"} : n \in {"Int32", "Int64"}}            -> "Double"
      [] kinds \in {{n, "Decimal"} : n \in {"Int32", "Int64", "Double"}} -> "Decimal"
      [] kinds = {"ObjectId", "Utf8"}                                 -> "Utf8"
      [] kinds = {"DateTime", "BsonTimestamp"}                        -> "DateTime"
      [] OTHER                                                        -> "Json"

\* Fields met on one side only are taken over, the others joined one by one.
Merge(left, right) ==
    [f \in DOMAIN left \cup DOMAIN right |->
        IF f \notin DOMAIN right THEN left[f]
        ELSE IF f \notin DOMAIN left THEN right[f]
        ELSE LET r == unify_(left[f].shape, right[f].shape)
             IN  [shape   |-> r.shape,
                  present |-> left[f].present + right[f].present,
                  nulls   |-> left[f].nulls + right[f].nulls,
                  mixed   |-> left[f].mixed \/ right[f].mixed \/ r.mixed]]

ArrayOf(r) == Joined([k |-> "Array", of |-> r.shape], r.mixed)

\* Variation: an array that meets an array is wrapped like a scalar.
JoinArray_Wraps(a, b) == IF a.k = "Array" THEN ArrayOf(unify_(a.of, b)) ELSE ArrayOf(unify_(b.of, a))

\* Two arrays are joined element-wise; anything else joins an array's elements.
JoinArray(a, b) ==
    CASE a.k = "Array" /\ b.k = "Array" -> ArrayOf(unify_(a.of, b.of))
      [] a.k = "Array" /\ b.k # "Array" -> ArrayOf(unify_(a.of, b))
      [] a.k # "Array" /\ b.k = "Array" -> ArrayOf(unify_(b.of, a))

unify(a, b) ==
    LET kinds == {a.k, b.k}
    IN  IF a = b THEN Joined(a, FALSE)
        ELSE IF a = Null THEN Joined(b, FALSE)
        ELSE IF b = Null THEN Joined(a, FALSE)
        ELSE IF "Json" \in kinds THEN Joined(Json, TRUE)
        ELSE IF "Array" \in kinds THEN JoinArray(a, b)
        ELSE IF kinds = {"Document"}
             THEN Joined([k |-> "Document", fields |-> Merge(a.fields, b.fields)], FALSE)
        ELSE Joined([k |-> JoinKinds(kinds)],
                    JoinKinds(kinds) = "Json" \/ kinds = {"ObjectId", "Utf8"})

\* Variation: the flag of the last join replaces the earlier ones.
observe_value_LastFlag(slot, v) ==
    LET r == unify(slot.shape, shape_of_(v))
    IN  [shape   |-> r.shape,
         present |-> slot.present + 1,
         nulls   |-> IF v = Null THEN slot.nulls + 1 ELSE slot.nulls,
         mixed   |-> r.mixed]

\* A null is counted and leaves the shape alone.
observe_value(slot, v) ==
    LET r == unify(slot.shape, shape_of_(v))
    IN  [shape   |-> r.shape,
         present |-> slot.present + 1,
         nulls   |-> IF v = Null THEN slot.nulls + 1 ELSE slot.nulls,
         mixed   |-> slot.mixed \/ r.mixed]

\* The first n items of an array, one after the other; whether they mix is not
\* reported.
joined(items, n) ==
    IF n = 0 THEN Null ELSE unify(joined_(items, n - 1), shape_of_(items[n])).shape

shape_of(v) ==
    CASE v.k = "Document" -> [k |-> "Document",
                              fields |-> [f \in DOMAIN v.fields |-> observe_value(Empty, v.fields[f])]]
      [] v.k = "Array"    -> [k |-> "Array", of |-> joined(v.items, Len(v.items))]
      [] OTHER            -> v
-------------------------------------------------------------------------------
(***************************************************************************)
(* Columns: finish(), build_field() and arrow_type().  A column's type is  *)
(* an Arrow type t with, of a struct, its fields, of a list, its item.     *)
(***************************************************************************)
Utf8(tag) == [type |-> [t |-> "Utf8"], tag |-> tag]

\* The tag of a scalar says which BSON type it stands for.
ScalarType(k) ==
    CASE k = "Unknown"                        -> Utf8("Unknown")
      [] k \in {"Utf8", "ObjectId", "Json"}     -> Utf8(k)
      [] k \in {"DateTime", "BsonTimestamp"}   -> [type |-> [t |-> "Timestamp"], tag |-> k]
      [] OTHER                                -> [type |-> [t |-> k], tag |-> k]

\* The metadata of a list's item is its tag alone.
build_field(path, fs, total, typed) ==
    [type |-> typed.type,
     nullable |-> path # <<"_id">>,
     meta |-> [bson |-> typed.tag, path |-> path, freq |-> <<fs.present, total>>, mixed |-> fs.mixed]]

\* Variation: only documents count as levels.
Nests_Lists(shape, depth) ==
    \/ shape.k = "Document" /\ depth < max_depth /\ shape.fields # <<>>
    \/ shape.k = "Array"

\* Too deep, or a document without fields: the values are kept as text.
Nests(shape, depth) ==
    \/ shape.k = "Document" /\ depth < max_depth /\ shape.fields # <<>>
    \/ shape.k = "Array" /\ depth < max_depth

arrow_type(shape, path, depth) ==
    CASE Nests(shape, depth) /\ shape.k = "Document" ->
            LET fields == shape.fields
                total == Max({fields[f].present : f \in DOMAIN fields})
                field(f) == build_field(Append(path, f), fields[f], total,
                                        arrow_type_(fields[f].shape, Append(path, f), depth + 1))
            IN  [type |-> [t |-> "Struct", fields |-> [f \in DOMAIN fields |-> field(f)]],
                 tag |-> "Document"]
      [] Nests(shape, depth) /\ shape.k = "Array" ->
            LET item == arrow_type_(shape.of, path, depth + 1)
            IN  [type |-> [t |-> "List", item |-> [type |-> item.type, nullable |-> TRUE,
                                                   meta |-> [bson |-> item.tag]]],
                 tag |-> "Array"]
      [] ~Nests(shape, depth) /\ shape.k \in {"Document", "Array"} -> Utf8("Json")
      [] OTHER -> ScalarType(shape.k)
-------------------------------------------------------------------------------
(***************************************************************************)
(* The cache file: StoredType and StoredField, and how deeply the JSON they*)
(* are written as is nested.                                               *)
(***************************************************************************)
Stored == [Bool |-> "boolean", Int32 |-> "int32", Int64 |-> "int64", Double |-> "float64",
           Decimal |-> "decimal", Utf8 |-> "utf8", Binary |-> "binary",
           Timestamp |-> "timestamp_ms", Struct |-> "struct", List |-> "list"]

\* Variation: a list's item is stored without its metadata.
from_arrow_BareItem(f) ==
    LET stored(g) == IF f.type.t = "List" THEN [from_arrow_(g) EXCEPT !.metadata = <<>>] ELSE from_arrow_(g)
        ty == CASE f.type.t = "Struct" -> [k |-> "struct",
                                           fields |-> [n \in DOMAIN f.type.fields |-> stored(f.type.fields[n])]]
                [] f.type.t = "List"   -> [k |-> "list", item |-> stored(f.type.item)]
                [] OTHER               -> [k |-> Stored[f.type.t]]
    IN  [ty |-> ty, nullable |-> f.nullable, metadata |-> f.meta]

from_arrow(f) ==
    LET ty == CASE f.type.t = "Struct" -> [k |-> "struct",
                                           fields |-> [n \in DOMAIN f.type.fields |-> from_arrow_(f.type.fields[n])]]
                [] f.type.t = "List"   -> [k |-> "list", item |-> from_arrow_(f.type.item)]
                [] OTHER               -> [k |-> Stored[f.type.t]]
    IN  [ty |-> ty, nullable |-> f.nullable, metadata |-> f.meta]

ArrowOf(name) == CHOOSE t \in DOMAIN Stored : Stored[t] = name

to_arrow(s) ==
    LET type == CASE s.ty.k = "struct" -> [t |-> "Struct",
                                           fields |-> [n \in DOMAIN s.ty.fields |-> to_arrow_(s.ty.fields[n])]]
                  [] s.ty.k = "list"   -> [t |-> "List", item |-> to_arrow_(s.ty.item)]
                  [] OTHER             -> [t |-> ArrowOf(s.ty.k)]
    IN  [type |-> type, nullable |-> s.nullable, meta |-> s.metadata]

\* Within n levels of JSON: a field is an object with one for its type (or metadata)
\* in it; a struct puts an array of fields into that, a list a field.
Within(s, n) ==
    CASE s.ty.k = "struct" -> \A f \in DOMAIN s.ty.fields : Within_(s.ty.fields[f], n - 3)
      [] s.ty.k = "list"   -> Within_(s.ty.item, n - 2)
      [] OTHER             -> 2 <= n

\* Around a field: the catalog, its tables, the table, its fields.
Readable(columns) == \A c \in DOMAIN columns : Within(columns[c], ReadLimit - 4)
-------------------------------------------------------------------------------
(***************************************************************************)
(* Reading: lookup_path() and build_array(), for one document at a time.   *)
(***************************************************************************)
Get(v, f) == IF v.k = "Document" /\ f \in DOMAIN v.fields THEN v.fields[f] ELSE Null

\* Without a value at the path, Null.
lookup_path(v, path) ==
    IF path = <<>> THEN v ELSE lookup_path_(Get(v, Head(path)), Tail(path))

\* as_i64(), as_f64(), as_decimal(), as_millis(): BSON types with a value of the
\* column's type (for some of their values).
Reads(t) ==
    CASE t = "Bool"             -> {"Bool"}
      [] t \in {"Int32", "Int64"} -> {"Int32", "Int64", "Double", "Bool"}
      [] t = "Double"           -> {"Int32", "Int64", "Double", "Decimal"}
      [] t = "Decimal"          -> {"Int32", "Int64", "Double", "Decimal", "Utf8"}
      [] t = "Timestamp"        -> {"DateTime", "BsonTimestamp", "Int64"}
      [] t = "Binary"           -> {"Binary"}

NoValue == [cell |-> "null"]

\* Variation: a list column reads arrays only.
Items_OfArrays(v) == IF v.k = "Array" THEN v.items ELSE <<>>

\* A lone value is a list of one.
Items(v) == IF v.k = "Array" THEN v.items ELSE <<v>>

\* A document, an array or any scalar has a text.
decode(type, v) ==
    CASE type.t = "Struct" /\ v.k = "Document" ->
            [cell |-> "struct", of |-> [f \in DOMAIN type.fields |-> decode_(type.fields[f].type, Get(v, f))]]
      [] type.t = "List" /\ v # Null ->
            [cell |-> "list", of |-> [i \in DOMAIN Items(v) |-> decode_(type.item.type, Items(v)[i])]]
      [] type.t = "Utf8" /\ v # Null -> [cell |-> "Utf8", of |-> v]
      [] type.t \notin {"Struct", "List", "Utf8"} /\ v.k \in Reads(type.t) -> [cell |-> type.t, of |-> v]
      [] OTHER -> NoValue
-------------------------------------------------------------------------------
(***************************************************************************)
(* Sending: pg_type_of(), encode_value() and value_to_json().              *)
(***************************************************************************)
\* Variation: timestamps are described without their time zone.
pg_type_of_NoZone(t) ==
    CASE t = "Bool"      -> "bool"
      [] t = "Int32"     -> "int4"
      [] t = "Int64"     -> "int8"
      [] t = "Double"    -> "float8"
      [] t = "Decimal"   -> "numeric"
      [] t = "Binary"    -> "bytea"
      [] t = "Timestamp" -> "timestamp"
      [] OTHER           -> "text"

pg_type_of(t) ==
    CASE t = "Bool"      -> "bool"
      [] t = "Int32"     -> "int4"
      [] t = "Int64"     -> "int8"
      [] t = "Double"    -> "float8"
      [] t = "Decimal"   -> "numeric"
      [] t = "Binary"    -> "bytea"
      [] t = "Timestamp" -> "timestamptz"
      [] OTHER           -> "text"

\* What the arms of encode_value() hand over: bool, i32, i64, f64, &str, &[u8],
\* DateTime<Utc> and Decimal.
Encodes(t) ==
    CASE t = "Bool"      -> "bool"
      [] t = "Int32"     -> "int4"
      [] t = "Int64"     -> "int8"
      [] t = "Double"    -> "float8"
      [] t = "Utf8"      -> "text"
      [] t = "Binary"    -> "bytea"
      [] t = "Timestamp" -> "timestamptz"
      [] t = "Decimal"   -> "numeric"

\* The parts of what is written; any scalar is a JSON scalar.  That a number JSON
\* has none for, NaN or an infinity, becomes null is left out.
value_to_json(c) ==
    CASE c.cell = "struct" -> [json |-> "object", of |-> [f \in DOMAIN c.of |-> value_to_json_(c.of[f])]]
      [] c.cell = "list"   -> [json |-> "array", of |-> [i \in DOMAIN c.of |-> value_to_json_(c.of[i])]]
      [] c.cell = "null"   -> [json |-> "null"]
      [] OTHER             -> [json |-> "scalar", of |-> c.of]

\* A column holds times that chrono has no date for, and decimals with more digits
\* than rust_decimal.  The seconds of a BSON timestamp, and an Int32, are never such.
MayOverflow(c) ==
    \/ c.cell = "Timestamp" /\ c.of.k # "BsonTimestamp"
    \/ c.cell = "Decimal" /\ c.of.k # "Int32"

\* Variation: what chrono or rust_decimal cannot hold is sent as NULL.
encode_value_Drops(c) ==
    CASE c.cell = "null"              -> {[pg |-> "null"]}
      [] c.cell \in {"struct", "list"} -> {[pg |-> "text", of |-> value_to_json(c)]}
      [] OTHER -> {[pg |-> Encodes(c.cell), of |-> c]}
                      \cup (IF MayOverflow(c) THEN {[pg |-> "null"]} ELSE {})

\* The outcomes: the Rust type of the value encode_field() is given, named by the
\* PostgreSQL type it encodes itself as.  Values have no magnitude here, so that one
\* that may not fit has both.
encode_value(c) ==
    CASE c.cell = "null"              -> {[pg |-> "null"]}
      [] c.cell \in {"struct", "list"} -> {[pg |-> "text", of |-> value_to_json(c)]}
      [] OTHER -> {[pg |-> Encodes(c.cell), of |-> c]}
                      \cup (IF MayOverflow(c) THEN {[pg |-> "text", of |-> c]} ELSE {})
-------------------------------------------------------------------------------
VARIABLES
    root,        \* Sampler.root: the slots of the keys met so far
    docs_seen,   \* Sampler.docs_seen
    seen,        \* history: the documents observed, in order
    schema       \* the collection's entry in the catalog

vars == <<root, docs_seen, seen, schema>>

NoSchema == <<>>

Init == root = <<>> /\ docs_seen = 0 /\ seen = <<>> /\ schema = NoSchema

\* Variation: a key that is missing counts as one that is null.
Observe_Missing(d) ==
    /\ schema = NoSchema
    /\ docs_seen < MaxDocs
    /\ root' = [c \in DOMAIN root \cup DOMAIN d.fields |->
                   observe_value(IF c \in DOMAIN root THEN root[c] ELSE Empty, Get(d, c))]
    /\ docs_seen' = docs_seen + 1
    /\ seen' = Append(seen, d)
    /\ UNCHANGED schema

\* Sampler::observe()
Observe(d) ==
    /\ schema = NoSchema
    /\ docs_seen < MaxDocs
    /\ root' = [c \in DOMAIN root \cup DOMAIN d.fields |->
                   LET slot == IF c \in DOMAIN root THEN root[c] ELSE Empty
                   IN  IF c \in DOMAIN d.fields THEN observe_value(slot, d.fields[c]) ELSE slot]
    /\ docs_seen' = docs_seen + 1
    /\ seen' = Append(seen, d)
    /\ UNCHANGED schema

\* Sampler::finish().  Which column comes first is left out.
finish ==
    [c \in DOMAIN root |-> build_field(<<c>>, root[c], docs_seen, arrow_type(root[c].shape, <<c>>, 0))]

Infer ==
    /\ schema = NoSchema
    /\ root # <<>>
    /\ schema' = finish
    /\ UNCHANGED <<root, docs_seen, seen>>

\* The gateway restarts and reads what was persisted; a file nested too deeply
\* does not parse, and is no cache at all.
Reload ==
    /\ schema # NoSchema
    /\ LET file == [c \in DOMAIN schema |-> from_arrow(schema[c])]
       IN  schema' = IF Readable(file) THEN [c \in DOMAIN file |-> to_arrow(file[c])] ELSE NoSchema
    /\ UNCHANGED <<root, docs_seen, seen>>

Next == Infer \/ Reload \/ \E d \in SampleDocs : Observe(d)

Spec == Init /\ [][Next]_vars
-------------------------------------------------------------------------------
(***************************************************************************)
(* Types.                                                                  *)
(***************************************************************************)
\* Bounded as the values are that it was made from.
WellFormed(s, d, n) ==
    \/ Leaf(s)
    \/ s.k = "Array" /\ n > 0 /\ WellFormed_(s.of, d, n - 1)
    \/ /\ s.k = "Document" /\ d > 0
       /\ \A f \in DOMAIN s.fields :
             /\ WellFormed_(s.fields[f].shape, d - 1, MaxLevels)
             /\ s.fields[f].present \in Nat \ {0}
             /\ s.fields[f].nulls \in 0 .. s.fields[f].present
             /\ s.fields[f].mixed \in BOOLEAN

NestsWithin(type, n) ==
    CASE type.t = "Struct" ->
            n > 0 /\ \A f \in DOMAIN type.fields : NestsWithin_(type.fields[f].type, n - 1)
      [] type.t = "List"   -> n > 0 /\ NestsWithin_(type.item.type, n - 1)
      [] OTHER             -> TRUE

\* The root as a shape, a document's.
Root == [k |-> "Document", fields |-> root]

TypeOK ==
    /\ WellFormed(Root, MaxLevels, MaxLevels)
    /\ docs_seen = Len(seen) /\ docs_seen <= MaxDocs
    /\ seen \in Seq(SampleDocs)
    /\ \A c \in DOMAIN schema : NestsWithin(schema[c].type, max_depth)
-------------------------------------------------------------------------------
(***************************************************************************)
(* Properties.                                                             *)
(***************************************************************************)
Columns == DOMAIN schema

Dotted(c) == Parts[c] # <<c>>

Observed == {seen[i] : i \in 1 .. Len(seen)}

Cell(c, d) == decode(schema[c].type, lookup_path(d, Parts[c]))

\* What was sent shows value v with everything in it; an item that met a list
\* as a lone value shows as a list of one.
Carries(json, v) ==
    \/ v = Null
    \/ json.json = "scalar"
    \/ json.json = "object" /\ v.k = "Document" /\
          \A f \in DOMAIN v.fields : f \in DOMAIN json.of /\ Carries_(json.of[f], v.fields[f])
    \/ json.json = "array" /\ v.k = "Array" /\
          DOMAIN json.of = DOMAIN v.items /\ \A i \in DOMAIN v.items : Carries_(json.of[i], v.items[i])
    \/ json.json = "array" /\ v.k # "Array" /\ DOMAIN json.of = {1} /\ Carries_(json.of[1], v)

\* infer.rs:12-14, convert.rs:168-169: whatever types a field mixes, nested or
\* not, and after the cache was reloaded, a client is sent every value inference
\* has seen, as far as the range of its column goes.  Root keys with a dot are left
\* out: lookup_path() takes them for paths and finds nothing.
NothingSampledIsLost ==
    \A c \in Columns : \A d \in Observed :
        ~Dotted(c) => Carries(value_to_json(Cell(c, d)), Get(d, c))

\* encode.rs:3-4, 27-30: a column's values are sent in the format its description
\* announced, documents and arrays as text, and NULL for nothing but the absence of
\* a value.  encode.rs:119-121, 128-133 have the exceptions, text with the value in it
\* under a description as timestamptz or numeric: for a time or decimal out of the range of
\* chrono or rust_decimal, which no BSON timestamp and no Int32 is.
SentAsDescribed ==
    \A c \in Columns : \A d \in Observed :
        LET cell == Cell(c, d)
            announced == pg_type_of(schema[c].type.t)
        IN  \A sent \in encode_value(cell) :
               /\ sent.pg = "null" <=> cell = NoValue
               /\ \/ sent.pg \in {"null", announced}
                  \/ /\ \/ announced = "timestamptz" /\ cell.of.k # "BsonTimestamp"
                        \/ announced = "numeric" /\ cell.of.k # "Int32"
                     /\ sent = [pg |-> "text", of |-> cell]

\* BSON types $match compares with one another, and the two BSON time types,
\* which it does not.
Family(k) ==
    CASE k \in {"Int32", "Int64", "Double", "Decimal"} -> "number"
      [] k \in {"DateTime", "BsonTimestamp"}           -> "time"
      [] OTHER                                        -> k

Trusted(field, values) ==
    ~field.meta.mixed =>
        CASE field.type.t = "Struct" ->
                \A f \in DOMAIN field.type.fields :
                    Trusted_(field.type.fields[f], {Get(v, f) : v \in values})
          [] field.type.t # "Struct" /\ field.meta.bson \notin {"Json", "Array"} ->
                \A v \in values : v = Null \/ Family(v.k) = Family(field.meta.bson)
          [] OTHER -> TRUE

\* infer.rs:34-36 and 419-421: what pushdown.rs is told of a column, or of a
\* field of a document it reaches by get_field, is so: unmixed, it held values
\* of the tag's own family only.
UnmixedMayBePushed ==
    \A c \in Columns : ~Dotted(c) => Trusted(schema[c], {Get(d, c) : d \in Observed})

\* Observed values are counted by their places: vs is a function to values.
Having(vs, f) == {i \in DOMAIN vs : vs[i].k = "Document" /\ f \in DOMAIN vs[i].fields}

FieldsAt(vs, f) == [i \in Having(vs, f) |-> vs[i].fields[f]]

\* The values unify() joined element-wise into an array's shape.
Elements(vs) ==
    [p \in UNION {{i} \X DOMAIN Items(vs[i]) : i \in DOMAIN vs} |-> Items(vs[p[1]])[p[2]]]

Counted(s, vs) ==
    CASE s.k = "Document" -> \A f \in DOMAIN s.fields :
                                /\ s.fields[f].present <= Cardinality(Having(vs, f))
                                /\ Counted_(s.fields[f].shape, FieldsAt(vs, f))
      [] s.k = "Array"    -> Counted_(s.of, Elements(vs))
      [] OTHER            -> TRUE

\* infer.rs:138-146: the counters of a root key are exact; inside documents and
\* arrays no key is counted more often than it was there.  It may be counted less
\* often: unify() returns early where two shapes are equal, counters included.
CountsNeverOver ==
    /\ Counted(Root, seen)
    /\ \A c \in DOMAIN root :
          /\ root[c].present = Cardinality(Having(seen, c))
          /\ root[c].nulls = Cardinality({i \in Having(seen, c) : seen[i].fields[c] = Null})

\* infer.rs:15-16, store.rs:37-40: the schema a query was planned with is the
\* schema after a restart, to the last tag of a list's items, however deeply the
\* documents were nested.
FrozenAcrossRestart == [][schema # NoSchema => schema' = schema]_vars
-------------------------------------------------------------------------------
(***************************************************************************)
(* What a shape says of the values it was made from.                       *)
(***************************************************************************)

\* BSON types that join into a column of kind k.
Takes(k) ==
    CASE k = "Int64"    -> {"Int32", "Int64"}
      [] k = "Double"   -> {"Int32", "Int64", "Double"}
      [] k = "Decimal"  -> {"Int32", "Int64", "Double", "Decimal"}
      [] k = "Utf8"     -> {"Utf8", "ObjectId"}
      [] k = "DateTime" -> {"DateTime", "BsonTimestamp"}
      [] OTHER          -> {k}

\* Value v is at home in shape s, and of the family of s where its slot's flag m is
\* not raised.  Inside an array nothing is said of families.
Fits(s, v, m) ==
    \/ v = Null
    \/ s.k = "Json"
    \/ s.k = "Array" /\ \A i \in DOMAIN Items(v) : Fits_(s.of, Items(v)[i], TRUE)
    \/ s.k = "Document" /\ v.k = "Document" /\
          \A f \in DOMAIN v.fields :
              f \in DOMAIN s.fields /\ Fits_(s.fields[f].shape, v.fields[f], s.fields[f].mixed)
    \/ /\ s.k \in Scalars \ {"Json"} /\ v.k \in Takes(s.k)
       /\ m \/ Family(v.k) = Family(s.k)

\* What makes the properties inductive: every document observed fits the root, and
\* a schema is what finish() makes of it, also after it was read back.
SchemaTreeInv ==
    /\ TypeOK
    /\ CountsNeverOver
    /\ DOMAIN root = UNION {DOMAIN d.fields : d \in Observed}
    /\ \A d \in Observed : Fits(Root, d, FALSE)
    /\ schema # NoSchema => schema = finish
-------------------------------------------------------------------------------
(***************************************************************************)
(* The slot of one root key is a field of SchemaLattice: its levels of     *)
(* Array over what they end in.                                            *)
(***************************************************************************)
Depth(s) == IF s.k = "Array" THEN Depth_(s.of) + 1 ELSE 0
Base(s) == IF s.k = "Array" THEN Base_(s.of) ELSE s.k

Flat(s) == [depth |-> Depth(s), base |-> Base(s)]

Slot == IF Column \in DOMAIN root THEN root[Column] ELSE Empty

OfSlot(x) == [s \in {"sampler"} |-> x]

Lattice ==
    INSTANCE SchemaLattice WITH
        Samplers <- {"sampler"},
        MaxDepth <- ArrayDepth,
        SampledBases <- SlotBases,
        MaxSample <- MaxDocs,
        shape <- OfSlot(Flat(Slot.shape)),
        present <- OfSlot(Slot.present),
        nulls <- OfSlot(Slot.nulls),
        mixed <- OfSlot(Slot.mixed),
        sampled <- OfSlot({Flat(shape_of(d.fields[Column])) :
                             d \in {e \in Observed : Column \in DOMAIN e.fields
                                                     /\ e.fields[Column] # Null}})

\* infer.rs:157-229: unify(), level by level and field by field, is the join that
\* SchemaLattice states at once, and a key's slot behaves as its field does.
SlotIsLattice == Lattice!Spec
===============================================================================
