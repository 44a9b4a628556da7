---------------------------- MODULE CollectionScan ----------------------------
(***************************************************************************)
(* One SELECT over one collection: what is pushed to the server, how the   *)
(* scan is split into _id ranges, and how the cursors over the ranges feed *)
(* the operators above them (src/src/mongo/provider.rs, pipeline.rs,       *)
(* exec.rs), while documents are inserted and deleted.                     *)
(*                                                                         *)
(* A document is its _id, a number that stands for the _id's place in the  *)
(* server's order.  Kind gives its BSON type: $gte and $lt compare values  *)
(* of the bound's own type and match nothing else.  A predicate of WHERE   *)
(* is known by the documents SQL accepts, the documents its $match accepts *)
(* and what translate() claims of the two.                                 *)
(***************************************************************************)
EXTENDS Naturals, Sequences, FiniteSets

CONSTANTS
    MaxId,          \* bound: documents there can be
    MaxChanges,     \* bound: insertions and deletions
    Kind,           \* the BSON type of each _id
    Predicates,     \* predicates WHERE can be made of
    NoLimit,        \* no LIMIT
    Limits,         \* bound: the LIMITs of a query
    PushFilters,    \* pushdown.filters
    PushLimits,     \* pushdown.limits
    MaxPartitions,  \* pushdown.scan_parallelism
    MaxSample,      \* bound: _ids sampled to split a scan
    BatchSize       \* server.batch_size

Ids == 1 .. MaxId

(***************************************************************************)
(* What translate() promises: Exact is claimed only of a $match that       *)
(* accepts precisely the SQL rows, and no $match loses a SQL row.          *)
(***************************************************************************)
ASSUME ScanAssumption ==
    /\ MaxId \in Nat /\ MaxChanges \in Nat /\ MaxPartitions \in Nat /\ MaxSample \in Nat
    /\ BatchSize \in Nat \ {0}
    /\ Kind \in [Ids -> Nat]
    /\ Predicates \subseteq [sql : SUBSET Ids, match : SUBSET Ids,
                             claim : {"Exact", "Inexact", "Unsupported"}]
    /\ \A p \in Predicates : /\ p.sql \subseteq p.match
                             /\ p.claim = "Exact" => p.match = p.sql
    /\ Limits \subseteq Nat \ {0} /\ NoLimit \notin Nat
    /\ PushFilters \in BOOLEAN /\ PushLimits \in BOOLEAN

VARIABLES
    live,        \* the documents of the collection
    born,        \* documents that have ever existed; a deleted one stays away
    changes,     \* insertions and deletions so far
    steady,      \* history: documents there since the query began
    step,        \* where the query is
    where,       \* its predicates
    limit,       \* its LIMIT
    plans,       \* the ranges of its partitions
    cursor,      \* the state of each partition's cursor
    opened,      \* the documents there were when it was opened
    fetched,     \* the documents it has returned
    batch,       \* those of them not yet in a finished batch
    rows,        \* how often the client has been sent each document
    sent         \* rows sent in all

worldVars == <<live, born, changes, steady>>
queryVars == <<step, where, limit, plans>>
scanVars == <<cursor, opened, fetched, batch>>
clientVars == <<rows, sent>>
vars == <<worldVars, queryVars, scanVars, clientVars>>
-------------------------------------------------------------------------------
(***************************************************************************)
(* Ranges: [lo, hi), 0 where an end is open.                               *)
(***************************************************************************)
Ranges == [lo : 0 .. MaxId, hi : 0 .. MaxId]

Whole == [lo |-> 0, hi |-> 0]

\* Variation: both ends belong to the range.
InRange_Closed(i, r) ==
    /\ r.lo # 0 => Kind[i] = Kind[r.lo] /\ r.lo <= i
    /\ r.hi # 0 => Kind[i] = Kind[r.hi] /\ i <= r.hi

\* id_range(): {$gte: lo, $lt: hi}.
InRange(i, r) ==
    /\ r.lo # 0 => Kind[i] = Kind[r.lo] /\ r.lo <= i
    /\ r.hi # 0 => Kind[i] = Kind[r.hi] /\ i < r.hi

\* Variation: the last range ends at the last sampled _id.
RangesBetween_Bounded(cuts) ==
    {r \in [lo : cuts \cup {0}, hi : cuts] :
        /\ r.lo < r.hi
        /\ \A c \in cuts : c <= r.lo \/ r.hi <= c}

\* Variation: a key past the last _id takes the place of the open end.
RangesBetween_Sentinel(cuts) ==
    {r \in [lo : cuts \cup {0}, hi : cuts \cup {MaxId + 1}] :
        /\ r.lo < r.hi
        /\ \A c \in cuts : c <= r.lo \/ r.hi <= c}

\* The ranges between neighbouring cuts, and the two open-ended ones.
RangesBetween(cuts) ==
    {r \in [lo : cuts \cup {0}, hi : cuts \cup {0}] :
        /\ r.hi # 0 => r.lo < r.hi
        /\ \A c \in cuts : c <= r.lo \/ (r.hi # 0 /\ r.hi <= c)}

\* partition_bounds(): up to n ranges, cut at quantiles of the sorted sample.
\* Repeated cut points count once.
partition_bounds(ids, n) ==
    IF n <= 1 \/ Len(ids) < 2
    THEN {Whole}
    ELSE LET parts == IF n < Len(ids) THEN n ELSE Len(ids)
         IN  RangesBetween({ids[(k * Len(ids)) \div parts + 1] : k \in 1 .. parts - 1})

\* sample_ids(): sorted by the server.  $sample may repeat a document.
Samples ==
    {ids \in UNION {[1 .. k -> live] : k \in 0 .. MaxSample} :
        \A j, k \in DOMAIN ids : j < k => ids[j] <= ids[k]}
-------------------------------------------------------------------------------
(***************************************************************************)
(* Who applies what.                                                       *)
(***************************************************************************)

\* Variation: every predicate that is pushed is claimed Exact.
Rechecked_Untranslated == {p \in where : p.claim = "Unsupported"}

\* supports_filters_pushdown(): the planner drops only a predicate claimed
\* Exact; the others are applied again above the scan.
Rechecked == {p \in where : p.claim # "Exact"}

\* scan(): the predicates sent as $match.
pushed == IF PushFilters THEN {p \in where : p.claim # "Unsupported"} ELSE {}

\* The planner gives the scan a LIMIT when nothing filters between them.
ScanLimit == IF Rechecked = {} THEN limit ELSE NoLimit

\* Variation: the LIMIT of the statement is pushed whatever is rechecked.
pushed_limit_Always == IF PushLimits THEN limit ELSE NoLimit

\* scan(): the $limit of every partition.
pushed_limit == IF PushLimits THEN ScanLimit ELSE NoLimit

\* The documents the pipeline of a partition selects.
Matching(r) == {i \in Ids : InRange(i, r) /\ \A p \in pushed : i \in p.match}

\* The rows SQL asks for.
Wanted == {i \in Ids : \A p \in where : i \in p.sql}
-------------------------------------------------------------------------------
TypeOK ==
    /\ live \in SUBSET Ids /\ born \in SUBSET Ids /\ steady \in SUBSET Ids
    /\ changes \in 0 .. MaxChanges
    /\ step \in {"idle", "plan", "run", "done", "failed"}
    /\ where \in SUBSET Predicates
    /\ limit \in Limits \cup {NoLimit}
    /\ plans \in SUBSET Ranges
    /\ cursor \in [plans -> {"closed", "open", "ended", "done"}]
    /\ opened \in [plans -> SUBSET Ids]
    /\ fetched \in [plans -> SUBSET Ids]
    /\ batch \in [plans -> SUBSET Ids]
    /\ rows \in [Ids -> Nat]
    /\ sent \in Nat

Init ==
    /\ live \in SUBSET Ids /\ born = live /\ changes = 0 /\ steady = {}
    /\ step = "idle" /\ where = {} /\ limit = NoLimit /\ plans = {}
    /\ cursor = [r \in {} |-> "closed"]
    /\ opened = [r \in {} |-> {}]
    /\ fetched = [r \in {} |-> {}]
    /\ batch = [r \in {} |-> {}]
    /\ rows = [i \in Ids |-> 0] /\ sent = 0
-------------------------------------------------------------------------------
(***************************************************************************)
(* The collection.                                                         *)
(***************************************************************************)
Insert(i) ==
    /\ changes < MaxChanges
    /\ changes' = changes + 1
    /\ i \notin born
    /\ live' = live \cup {i}
    /\ born' = born \cup {i}
    /\ UNCHANGED <<steady, queryVars, scanVars, clientVars>>

Delete(i) ==
    /\ changes < MaxChanges
    /\ changes' = changes + 1
    /\ i \in live
    /\ live' = live \ {i}
    /\ steady' = steady \ {i}
    /\ UNCHANGED <<born, queryVars, scanVars, clientVars>>
-------------------------------------------------------------------------------
(***************************************************************************)
(* The query.                                                              *)
(***************************************************************************)

\* A statement arrives.
Begin(preds, lim) ==
    /\ step = "idle"
    /\ step' = "plan"
    /\ where' = preds
    /\ limit' = lim
    /\ steady' = live
    /\ UNCHANGED <<live, born, changes, plans, scanVars, clientVars>>

Plan(ranges) ==
    /\ step = "plan"
    /\ step' = "run"
    /\ plans' = ranges
    /\ cursor' = [r \in ranges |-> "closed"]
    /\ opened' = [r \in ranges |-> {}]
    /\ fetched' = [r \in ranges |-> {}]
    /\ batch' = [r \in ranges |-> {}]
    /\ UNCHANGED <<worldVars, where, limit, clientVars>>

\* scan(): one cursor, for a LIMIT, for a collection whose stored statistics
\* call it small, and when the _ids could not be sampled.
PlanSerial == Plan({Whole})

\* scan(): the collection is sampled and split.
PlanSplit(n) ==
    /\ ScanLimit = NoLimit
    /\ \E ids \in Samples : Plan(partition_bounds(ids, n))

\* execute(): the cursor is opened when the partition is first polled.
Open(r) ==
    /\ step = "run"
    /\ cursor[r] = "closed"
    /\ cursor' = [cursor EXCEPT ![r] = "open"]
    /\ opened' = [opened EXCEPT ![r] = live]
    /\ UNCHANGED <<worldVars, queryVars, fetched, batch, clientVars>>

\* The server has sent as much as $limit allows.
AtLimit(r) == pushed_limit # NoLimit /\ Cardinality(fetched[r]) >= pushed_limit

\* The cursor returns a document.  A document that was there when the cursor
\* was opened is returned unless it is deleted; a newer one may be.
Fetch(r, i) ==
    /\ step = "run"
    /\ cursor[r] = "open"
    /\ Cardinality(batch[r]) < BatchSize
    /\ ~AtLimit(r)
    /\ i \in (Matching(r) \cap live) \ fetched[r]
    /\ fetched' = [fetched EXCEPT ![r] = @ \cup {i}]
    /\ batch' = [batch EXCEPT ![r] = @ \cup {i}]
    /\ UNCHANGED <<worldVars, queryVars, cursor, opened, clientVars>>

\* The cursor has nothing left.
Exhaust(r) ==
    /\ step = "run"
    /\ cursor[r] = "open"
    /\ Cardinality(batch[r]) < BatchSize
    /\ AtLimit(r) \/ Matching(r) \cap live \cap opened[r] \subseteq fetched[r]
    /\ cursor' = [cursor EXCEPT ![r] = "ended"]
    /\ UNCHANGED <<worldVars, queryVars, opened, fetched, batch, clientVars>>

\* The operators above the scan take a batch: what passes the rechecks goes to
\* the client, until the LIMIT is reached.
Accept(docs) ==
    LET kept == {i \in docs : \A p \in Rechecked : i \in p.sql} IN
    \E out \in SUBSET kept :
        /\ IF limit = NoLimit \/ sent + Cardinality(kept) <= limit
           THEN out = kept
           ELSE sent + Cardinality(out) = limit
        /\ rows' = [i \in Ids |-> IF i \in out THEN rows[i] + 1 ELSE rows[i]]
        /\ sent' = sent + Cardinality(out)
        /\ step' = IF sent' = limit THEN "done" ELSE "run"

\* Variation: a batch is yielded only when it is full.
Yield_Full(r) ==
    /\ step = "run"
    /\ Cardinality(batch[r]) = BatchSize
    /\ Accept(batch[r])
    /\ batch' = [batch EXCEPT ![r] = {}]
    /\ UNCHANGED <<worldVars, where, limit, plans, cursor, opened, fetched>>

\* execute(): a batch is yielded when it is full or the cursor has ended.
Yield(r) ==
    /\ step = "run"
    /\ batch[r] # {}
    /\ Cardinality(batch[r]) = BatchSize \/ cursor[r] = "ended"
    /\ Accept(batch[r])
    /\ batch' = [batch EXCEPT ![r] = {}]
    /\ UNCHANGED <<worldVars, where, limit, plans, cursor, opened, fetched>>

\* An empty batch ends the partition, and the last partition ends the query.
Close(r) ==
    /\ step = "run"
    /\ cursor[r] = "ended" /\ batch[r] = {}
    /\ cursor' = [cursor EXCEPT ![r] = "done"]
    /\ step' = IF \A q \in plans : cursor'[q] = "done" THEN "done" ELSE "run"
    /\ UNCHANGED <<worldVars, where, limit, plans, opened, fetched, batch, clientVars>>

\* Opening or reading the cursor, or converting a batch, fails: so does the
\* query, whatever was sent before.
Fail(r) ==
    /\ step = "run"
    /\ cursor[r] # "done"
    /\ step' = "failed"
    /\ UNCHANGED <<worldVars, where, limit, plans, scanVars, clientVars>>

ScanStep(r) == Open(r) \/ (\E i \in Ids : Fetch(r, i)) \/ Exhaust(r) \/ Yield(r) \/ Close(r)

Next ==
    \/ \E i \in Ids : Insert(i) \/ Delete(i)
    \/ \E preds \in SUBSET Predicates, lim \in Limits \cup {NoLimit} : Begin(preds, lim)
    \/ PlanSerial
    \/ \E n \in 2 .. MaxPartitions : PlanSplit(n)
    \/ \E r \in plans : ScanStep(r) \/ Fail(r)

Spec == Init /\ [][Next]_vars

\* Every partition is polled, and the server answers or fails every request.
FairSpec ==
    /\ Spec
    /\ WF_vars(PlanSerial)
    /\ \A r \in Ranges : WF_vars(r \in plans /\ ScanStep(r))
-------------------------------------------------------------------------------
(***************************************************************************)
(* Properties.                                                             *)
(***************************************************************************)

\* pipeline.rs:148-149: the ranges do not overlap: the client is not sent a
\* document twice, whatever is inserted or deleted between sampling, opening
\* and fetching.
AtMostOnce == \A i \in Ids : rows[i] <= 1

\* provider.rs:79-85: with filters pushed down, the client is sent nothing that
\* SQL does not ask for, although nobody rechecks an Exact predicate.
OnlyWanted == PushFilters => \A i \in Ids : rows[i] > 0 => i \in Wanted

OneKind == \A i, j \in Ids : Kind[i] = Kind[j]

\* pipeline.rs:148-173: a query that ends normally has sent every row that was
\* there all along, when _ids are of one type; a LIMIT is filled before rows
\* are left out (provider.rs:157-165).
NoneLost ==
    OneKind /\ step = "done" =>
        \/ \A i \in steady \cap Wanted : rows[i] > 0
        \/ sent = limit

\* exec.rs:168-226: a scan ends, with its rows or with an error.
ScanEnds == step = "run" ~> step \in {"done", "failed"}

\* As pipeline.rs:148-149 has it: the ranges together cover every document,
\* including ones outside the sampled span.
EveryDocumentScanned ==
    step = "done" => \/ \A i \in steady \cap Wanted : rows[i] > 0
                     \/ sent = limit

\* As provider.rs:79-80 has it: Exact is only claimed when the $match accepts
\* precisely the SQL rows.
ExactIsExact == \A i \in Ids : rows[i] > 0 => i \in Wanted
===============================================================================
