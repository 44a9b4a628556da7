# Auger, specified

TLA+ models of Auger, the gateway that lets PostgreSQL clients query MongoDB through DataFusion
(`src/src/`), with the TLC runs that check them and the TLAPS proofs about them.

A schemaless collection becomes a table because a schema is *sampled* once, *frozen* in a
catalog, and used for every later query; a query becomes an aggregation pipeline because its
predicates are *translated*, its range is *split*, and what could not be translated is checked
again above the scan. Statements arrive as text that drivers write for PostgreSQL, and rows leave in
its wire format. The project asks of each of those steps whether the answer to a query can
be wrong, whether what was frozen stays frozen, and whether every request is answered.

## Inventory

| Part | State it keeps | Operations | Modelled in |
|---|---|---|---|
| Catalog store, `catalog/store.rs` | map of tables behind a `RwLock`; `catalog.json` | `new`, `load_from`, `put`, `persist`, `get_fresh`, `known_tables`; `StoredType` | `CatalogStore`; the stored types in `SchemaTree` |
| Catalog provider, `catalog/provider.rs` | cached listing per database | `table`, `table_exist`, `refresh`, `cached_names`; `schema`, `register_schema` | `CatalogLookup` |
| MongoDB client, `mongo/client.rs` | connection | `collections`, `infer_schema`, `drain_into`, `stats`, `sample_ids` | `CatalogLookup`, `CollectionScan` |
| Schema inference, `catalog/infer.rs` | a shape, counters and a mixed flag per field | `unify`, `shape_of`, `observe_value`, `observe`, `finish`, `arrow_type` | `SchemaTree`; one field in `SchemaLattice` |
| Pushdown, `mongo/pushdown.rs` | none | `translate` and its helpers | `Pushdown` |
| Value conversion, `mongo/convert.rs` | none | `build_array`, `as_*`, `render_text` | `SchemaTree`; `Pushdown`, as far as predicates see it |
| Table provider, `mongo/provider.rs` | frozen schema, statistics | `supports_filters_pushdown`, `scan` | `CollectionScan` |
| Pipeline, `mongo/pipeline.rs` | a plan per partition | `partition_bounds`, `id_range`, `to_pipeline` | `CollectionScan` |
| Scan execution, `mongo/exec.rs` | a cursor and a batch per partition | `execute` | `CollectionScan` |
| HTTP UI, `http/mod.rs` | none | `table`, `query`; `health`, `catalog` | `CatalogLookup` (`table`), `QuerySession` (`query`) |
| Wire server, `server/mod.rs` | one deadline per statement | `split_statements`, `run`, `describe`, `do_query`, `to_row_stream`; `serve`, authentication | `StatementText`, `QuerySession` |
| Compatibility, `server/compat.rs` | none | `intercept` and its rewriting; `pg_catalog` views | `StatementText` |
| Encoding, `server/encode.rs` | none | `pg_type_of`, `encode_value`, `value_to_json` | `SchemaTree` |
| Configuration, start-up, `config.rs`, `main.rs` | settings | `load`, `main` | settings are CONSTANTS; order of start-up in `GatewayRestart` |

How they interact. A SQL session asks the provider for a table (`MongoSchema::table`); the provider
asks the store for a fresh entry, and on a miss the client samples the collection, the sampler joins
what it sees, and the store puts and persists the result. The HTTP page does the same without
asking whether the collection exists, and can force it. The planner then asks the table provider
which predicates it takes (`translate`), plans a scan with them, and polls one cursor per partition;
a predicate that was not claimed `Exact` is applied again by DataFusion. Before that, the wire server
cuts a message into statements and `intercept` answers or rewrites some of them; after it, rows
are encoded batch by batch, and pgwire sends one statement's reply after the other's. The console of the HTTP
UI runs one statement on the same context and collects what it returns.

What is hard here: `put` runs on any runtime thread and only its map operation is under the lock;
a lookup awaits between reading the store and writing it; listings come back late; a process can
die between any two system calls; the cursors of one scan are opened at different moments of a
collection that changes; the join is a fold over values in the order cursors return them;
MongoDB and SQL disagree on nulls, arrays and types under negation; the text of a statement is read by three readers
with three ideas of a quote; and all statements of a message are started before the first is answered, each with a
deadline that is looked at only when a batch comes. The hazards are listed one by
one, with their lines, in `PROJECT.json`.

What makes each part correct: the store never shows a torn or a stale catalog to a restart; a
lookup answers with a schema of that table, and the same one each time; a shape covers its sample
and says so when it is not faithful; what was sampled reaches the client, in the format its column
was described with; a `$match` never loses a SQL row and, claimed `Exact`, never
adds one; a scan returns every wanted row once; the statements run are those that were meant, and each is answered once, in order,
in full or by an error.

## Modules

**`DurableCatalog`** is the abstract store: a map in memory, a durable map never ahead of it, and a
restart that begins with the durable one. Three actions, no files.

**`CatalogStore`** is `store.rs`. A step of a writer is one critical section or one system call:
`Put` (under the write lock), `Snapshot` (copy under the read lock), `Open` (truncating the one
temporary name), `Write`, `Rename`; `PersistFails` can take the place of any call and may leave
half a text behind; `Restart` comes at any point and keeps the two directory entries only.
Descriptors follow their file across `rename`, as on POSIX. Entries are versions: the n-th put
stores n.

**`CatalogLookup`** extends it with the tasks that look tables up: `MongoSchema::table()` for
sessions, `table()` of the HTTP API for everyone else. A step of a task is the code between two
awaits. The deployment inserts, drops, answers and fails; the clock moves both ways. `put` is not
abstracted: `StorePut` takes the store's own `Put` and `Persist` its own steps.

**`SchemaLattice`** is `unify()` and `observe_value()` on one field. A shape is a base under levels of
`Array`; `unify`'s recursion through arrays is given in closed form for both depths. Two samplers
observe, so that two orders can be compared.

**`SchemaTree`** is the whole life of a schema: documents through the `Sampler`, shapes with struct
children and counters, `finish` and `arrow_type` with `max_depth`, the stored form of the cache file
and the depth at which `serde_json` refuses it, `build_array` on the way in, `encode_value` on the way out. Values
have a type and no magnitude, so `encode_value` is a set of outcomes: typed, and also text for one its Rust type may be too narrow for (`MayOverflow`). Values and
shapes are trees, and the operators on them recursive, as in the code. A definition that calls itself calls a constant of
its name with an underscore (`unify` calls `unify_`), and the configuration gives that constant the definition (`MC_unify`, in `MCSchemaTree`): TLC evaluates the recursion, and proofs
can use a definition's own equation, which they could not with `RECURSIVE`. The slot of one root key, seen as levels of `Array` over a base, is
a field of `SchemaLattice`: `Lattice!Spec` is checked as a property, and proved.

**`CollectionScan`** is one `SELECT`: predicates with what was claimed of them, sampling of `_id`s,
`partition_bounds`, a cursor per range, batches, rechecks, `LIMIT`. Ranges compare as `$gte` and `$lt` do, within
a BSON type. That `translate` keeps its promise is an assumption here (`ScanAssumption`), the
subject of the next module, and for plain predicates a theorem of it (`PlainIsFitForScan`).

**`Pushdown`** is `translate()` next to three-valued SQL. The recursion is a stack machine: a leaf
pushes its result, `Not` replaces the last, `And` and `Or` combine the last two, so a behaviour is a
predicate in postfix order. A result holds the documents SQL finds true and false, the documents
the `$match` accepts, the claim, and the columns `null_guards` would assert. What SQL sees of a field
(`SqlNull`, `SqlIn`) is what `build_array` decodes; what `$match` sees (`Finds`, `FindsNull`) is
MongoDB's documented comparison.

**`StatementText`** is a text read three times at once: by `split_statements`, by `intercept` and its two rewriting
passes, and by the SQL lexer, which alone knows comments and dollar quotes (external, from how `ctx.sql()` is used). A text comes symbol
by symbol and the state is what each reader remembers, so texts have any length and only statements are counted.
`Misleads` names, construct by construct, the texts the gateway reads differently; `damage` records what comes of it.
A text that is prepared reaches `intercept` whole: `opening` is its first word as far as it is known, and `Unsplit` what `intercept` takes the text for.

**`ReplyStream`** is what a client of the wire protocol relies on: statement by statement, rows before their
answer, nothing after an error but readiness.

**`QuerySession`** extends `StatementText` with the three ways a text is run: `SimpleQuery` (split, each statement
planned in turn, nothing sent before the last is planned), `Parse`/`Execute` (not split: one statement, `Unsplit`; describing plans a
statement too and may fail), and `Console` (one statement, `limit`, a timer). A response holds the rows its cursor still has and its deadline,
taken when it was planned. `Batch`, `BatchFails` and `Complete` are the arms of `to_row_stream`: a late batch is an error, and the end of
a stream is not looked at by the clock. Any planning, cursor or deadline may fail, and the failure drops every response behind it, as
the `?` of `do_query` and pgwire's send loop do.

`MCCatalogStore`, `MCCatalogLookup`, `MCSchemaLattice`, `MCSchemaTree`, `MCCollectionScan` and `MCPushdown` give TLC
its instances. `CatalogStoreProofs`, `CatalogLookupProofs`, `SchemaLatticeProofs`, `SchemaTreeProofs`, `CollectionScanProofs`,
`PushdownProofs`, `StatementTextProofs` and `QuerySessionProofs` hold the theorems. Operators such as `Put_Rebuilds` and `Or_Partial` are variations of `Put`
and `Or` with a plausible slip in them. They belong to no specification; each property is known to fail when
one of them replaces the definition it is named after (`PROJECT.json`, `mutants`).

## Runs

| Run | Asks | Bounds |
|---|---|---|
| `catalog_store` | Is the file complete, current and never ahead of memory; does the store implement `DurableCatalog`; does the first saved entry stay, for a session too? | a session and an HTTP client, 2 tables, 3 lookups and puts, the full `persist` sequence with failures and restarts: the two can collide in `persist`, and another round can follow a restart |
| `catalog_serve` | Is what a lookup answers true of the collection? | both passes, 2 tables, 1 shape, interval 1 with clock readings 0 and 2, 1 change, 3 lookups; no cache path, since the file has its own runs |
| `schema_lattice` | Does a shape cover its sample, nest no deeper, and admit when it is mixed; what of it is the same in every order? | every sequence of 3 values, of 9 bases, at 2 depths, by 2 samplers: three values are the fewest with which the join's order shows |
| `collection_scan` | Each wanted row once, no other row, and an end? | 3 documents, 1 change, 3 partitions, samples of up to 3, batches of 2, LIMIT 1, a predicate of each claim: enough for a cut between any two documents, full and partial batches |
| `pushdown` | Does the `$match` of a plain predicate lose or add rows? | all predicates of 3 leaves over 4 columns and 14 documents, with missing fields, nulls, arrays, and values inference never saw |
| `schema_tree` | Does what was sampled reach the client, typed as described; do flags, counters and a restart keep what they promise; is a slot a field of `SchemaLattice`? | every sequence of up to 3 of 15 documents, `max_depth` 2 with values one level deeper, a file of as many levels as can still be read: lone values, arrays, documents and nulls meet in every order |
| `query_session` | Are statements split, rewritten, answered as meant, in order and in full; is every request answered? | texts of any length with up to 2 statements (`MaxStatements` ended by a semicolon, one behind it), 0 to 2 rows, clock readings 0 to 3, timeout off or 1, console fallback 2, limits on both sides of the cap |
| `catalog_torn`, `scan_mixed_ids`, `scan_unfiltered`, `pushdown_mixed`, `literals_cut` | What the comments of the code say without qualification | the smallest instance with which each fails |

The bounds `MaxPuts`, `MaxLookups`, `MaxChanges`, `MaxSample`, `MaxDocs`, `MaxLevels`, `MaxId`, `MaxLeaves`, `MaxStatements`, `MaxRows` and `MaxClock` stand in guards or in assumptions and
cap what the code does not (`MaxLevels`: how deeply the documents of a collection are nested). Deadlock is checked where the bounds leave an action to take (a
restart, the clock); the scan, the sampler and the translator end, and their configurations say so.

Fairness appears twice. In `FairSpec` of `CollectionScan`: weak fairness of planning and of every
partition's own step. DataFusion polls every partition of a running query, and the driver answers
or fails every request; `Fail` is always possible and never required. `ScanEnds` holds under it because
batches that are not full are yielded when the cursor ends.

In `SessionSpec` of `QuerySession`: weak fairness of `Server`, what tasks do of their own (tokio schedules them; a client
executes what it prepared), of `Tick`, since time passes, and of `Engine`, planning and cursors of the wire
protocol. The last is an assumption about MongoDB and not about the gateway, and it is needed: on the wire
nothing but a batch looks at the deadline. Planning and cursors of the console get none, since its timer ends a
request whether they go on or not; `EveryRequestAnswered` fails when the fallback timer is taken out. `RepliesInOrder` is the refinement of
`ReplyStream`, fairness included.

### What does not hold

Five statements of the code's comments are violated by what the code does; each has a run and an
entry under `findings`.

1. *A crash mid-write cannot leave a truncated catalog* (`store.rs:263`). All writers share one
   temporary name. One `put` truncates it while another is between its write and its rename. The same race
   can lose a newer entry to an older copy. While no two `persist` calls overlap everything promised holds
   and is proved (`...Alone`).
2. *The ranges together cover every document* (`pipeline.rs:148`). Not when `_id`s are of several types.
3. *`Exact` is only claimed when the `$match` accepts precisely the SQL rows* (`provider.rs:80`). Not with
   `pushdown.filters = false`: no `$match` is sent and nobody filters.
4. *Never change the answer; `Inexact` is re-evaluated* (`pushdown.rs:5`). An `Inexact` `$match` on a mixed column is narrower
   than the predicate, and rechecking restores nothing. Other predicates break the same property: `LIKE`
   on an ObjectId column, `IS NULL` on an array with a null in it, `NOT` over a conjunction with a null half
   (DataFusion's simplifier usually removes the last before it arrives).
5. *Splitting has to respect quoting or a semicolon inside a string literal truncates the query* (`server/mod.rs:350`).
   `split_statements` knows neither comments nor dollar quotes. An apostrophe in one of them turns its `in_single` over, and an
   ordinary literal behind it is cut at its semicolon, as in `SELECT $$'$$, ';'`.

Limits of the same kind that have no run of their own, because a property of a passing run is stated around them:

- *A table's shape does not change between two queries in the same session* (`catalog/provider.rs:8`): two lookups that miss
  together both put. `FrozenOnceSaved` and `SessionKeepsEntryAlone` exclude overlapping inferences of a table.
- *`unify` is commutative and associative; `Json` absorbs everything* (`infer.rs:157`): commutative (`UnifyCommutes`), but not
  associative (`UnifyDoesNotAssociate`): `Int32, Utf8, [Int32]` gives `Json` and `[Int32], Int32, Utf8` an array of it, because
  a `Json` that is there first absorbs a later array. It is associative on shapes of one depth, and on any whose bases join short of `Json`
  (`UnifyAssociates`). So the order of a sample decides the type of some mixed columns with arrays, and of nothing
  else: neither the flag nor the type of an unmixed column (`MixingOrderIsIrrelevant`), nor the type of one without arrays
  (`ScalarOrderIsIrrelevant`).
- *Documents in which the key was present* (`infer.rs:143`): two equal shapes return before their counters are added, so counters inside
  documents come out too low, never too high (`CountsNeverOver`).
- *Reject any query still running after this many seconds* (`config.rs:41`): a statement of the wire protocol whose cursor hangs is never
  rejected, and neither is one whose stream ends late.
- A root key with a dot in its name is taken for a path and always reads NULL (`convert.rs:49`).
- *Any occurrence inside a string literal is left alone* (`compat.rs:154`): `qualify_bare_pg_catalog` has the same flag, turned over by
  the same apostrophes. `strip_pg_catalog_prefix` (`compat.rs:220`) promises nothing of the kind and looks at no quotes: `pg_catalog.` before a call is taken out of
  any literal, an ordinary one between apostrophes included.
- A statement of comments only fails its whole message; `SET` or `SHOW` behind a comment is not recognised. `Misleads` lists the constructs.
- A prepared text is not split, and only semicolons at its end are taken off (`compat.rs:45`): `SET a; SELECT 1` is answered by its first word
  alone, `SET;SELECT 1` and `;SET a` are planned. `SplitAsMeant` speaks of prepared texts with nothing behind a semicolon.
- A time or a decimal of a column that `chrono` or `rust_decimal` cannot hold is sent as text under a `TIMESTAMPTZ` or `NUMERIC` description, as the
  comments at `encode.rs:119` and `:128` say; the encoder of a binary column is handed the same `String`.
  `SentAsDescribed` states which values may be sent so, and that none is dropped.
- *The output matches what `convert` puts in a JSON-typed column* (`encode.rs:149`): in its structure. Inside documents and arrays `render_text`
  (`convert.rs:330`) writes extended JSON, with `$date` and `$oid`; `value_to_json` writes times as RFC 3339 and binary as hex.
- Truncation instead of NULL for decimals with more precision than the column (`convert.rs:299`): the digits are first multiplied into an
  `i128`, so that a long enough tail gives NULL.
- With `inference.max_depth` above 40 the cache file can be nested deeper than `serde_json` reads back; it is then ignored and overwritten.

Also seen, outside the runs: with `recent_bias = 0` an error of the only sampling pass stores the
placeholder schema for a collection that has documents (`client.rs:113`), which is why
`PlaceholderMeansEmpty` is checked with both passes.

## Proofs

For every value of the constants; no assumption beyond the `ASSUME`s the modules state, which TLC
evaluates on each run, and the hypotheses named here. Those about `SchemaTree` have one in common, `Recursion`: each of the underscored constants
is the definition it stands for, which is what the configuration says. Such constants exist, since every recursive call is
about a part of its argument (an item, a field, the rest of a path, the items before the last), so that the calls end.

- **`CatalogStoreProofs`**: `TypeCorrect`, `DiskIsNeverAhead`, `NeverTornAlone`, `SavedIsDurable`, and the refinement
  `StoreKeepsPromise`. None of them is inductive alone. `StoreInv` adds what the states in between must satisfy. `AheadInv`, overlapped or not: every copy on its way
  to the disk comes from memory, and the temporary file counts once a living writer has truncated it (a leftover may well
  be newer than memory). `AloneInv`, while calls have not overlapped: one writer at most persists, the temporary file is its own and holds
  exactly its copy, and that copy lies between disk and memory.
- **`CatalogLookupProofs`**: `LookupTypeCorrect`, `ServedWasSeen`, `AbsentIsAbsent`, `PlaceholderIsEmpty`, `FrozenForGood`,
  `SessionKeepsEntry`, for any number of tables, sessions and HTTP clients. Tasks take the store's own steps
  (`LookupImplementsStore`), so that the theorems about the store hold under them (`LookupKeepsPromise`). `LookupInv` adds to `StoreInv`: every copy
  of the map that could become the map again, the two files and the copies being saved included, holds entries true of their table
  (`EntriesInv`; any of them may become what a restart begins with, and `EveryCopyTellsTheTruth` says so on its own); what a task has seen, got and been listed between
  its request and its answer (`TaskInv`, `AbsentInv`, `EmptyInv`); and, while no two inferences of a table overlap, that a table
  with an entry is inferred by nobody and one without by one task (`UncontendedInv`), so that disk and memory agree on whatever
  entry both have (`FrozenInv`). The same invariant gives `OneEntryPerRun`, an action property: no step but a restart
  replaces an entry. `PlaceholderIsEmpty` has the hypothesis `"recent" \in Passes`, without which it is false (`client.rs:113`).
  `EveryLookupEnds` counts the steps a task has left, at most twelve: each of its own takes one away, no step of another adds any.
- **`SchemaLatticeProofs`**: `UnifyCommutes`, `UnifyAssociates`, `UnifyDoesNotAssociate`, `TypeCorrect`, `SampleIsCovered`, `NestingIsSampled`,
  `UnmixedIsTrusted`, `ScalarOrderIsIrrelevant`, `MixingOrderIsIrrelevant`. The last two compare two histories of observations, so their
  invariants say what a shape is in terms of the *set* of values seen: of scalars, their least upper bound; in general (`MixedInv`), that
  the flag is set exactly when two of the values are at odds, and that otherwise base and depth are those of the set.
- **`SchemaTreeProofs`**: `TypesOfTree`, `SampledIsSent`, `FormatsAgree`, `UnmixedIsOneFamily`, `CountersHold`, `SchemaSurvivesRestart`,
  and the refinement `SlotRefinesLattice`, for any collection and documents of any depth. Inductions are over the levels of what they are about
  (`LevelInduction`: levels of documents, and within one of them levels of arrays), and `UnifyCases` names the five ways two shapes join,
  which every lemma about `unify` goes through. The invariant grows with what is asked. `ShapesInv`: slots are well formed, and a schema in
  the catalog is what `finish` makes of them, also after it was read back (`ReadBack`). `FitsInv`: each document observed is at home in the root's
  shape. Such a document survives the join with any other shape (`UnifyFits`), and a column made of the shape reads the whole of it
  (`ColumnCarries`). `CountsInv`: a slot counts the places its key was met at, nulls apart. Inside documents and arrays a join must not
  count a place twice, so `UnifyCounted` speaks of two families of values embedded in a third, apart from one another. `InvariantOfTree` states it
  all at once; TLC had checked it on the instance of `schema_tree`. `SchemaSurvivesRestart` has the
  hypothesis `6 + 3 * max_depth <= ReadLimit`: four levels of JSON around the columns, three for every level of struct and two in the leaf.
  `serde_json` reads 128, which is every `max_depth` up to 40; the default is 4 (`config.rs:128`). `SlotRefinesLattice` has `WithinBounds`, that the bounds
  of `SchemaLattice` have room for the values of the column; it rests on `UnifyIsJoin`, which says that the recursion of `unify` through levels
  of arrays is the closed form `SchemaLattice` gives, flag included. What is proved of that field is so proved of the code's slot.
- **`CollectionScanProofs`**: `TypeCorrect`, `RowsAreSentOnce`, `NothingUnwanted`, `NothingLost`, for any collection,
  sample, parallelism and changes. The ranges between cuts are shown disjoint always, and covering when `_id`s are of
  one type; the invariant then follows each document through its partition: fetched by one only, out of the batch once sent, kept
  back by nothing but a recheck or the `LIMIT`. `EveryPollCounts` and `NoPartitionIsStuck` are what `ScanEnds` rests on besides fairness: each
  step of a partition takes from the work it has left, which nothing else adds to, and a partition not at its end can always go on.
- **`StatementTextProofs`**: `TextTypeCorrect`, `TextSplitAsMeant`, `TextRewrittenAsMeant`, for texts of any length and number of
  statements. `TextInv` ties the three readers together as long as the text has not misled them: the two quote flags of
  `split_statements` and the one of `qualify_bare_pg_catalog` say which mode the lexer is in, both first words agree up to what is
  still open, both have cut the same statements, and nothing is damaged. `OpeningAgrees` adds the fourth reading, of the text that is not split: as
  long as nothing follows a semicolon, its first word is the one of the only statement.
- **`QuerySessionProofs`**: `SessionTypeCorrect`, `SessionSplitAsMeant`, `SessionRewrittenAsMeant`, `SessionAnsweredInFull`,
  `SessionConsoleRunsOne`, `SessionConsoleIsHonest`, and `SessionRepliesInOrder`, the refinement of `ReplyStream` without its fairness. `SessionInv`
  carries `TextInv` from request to request (`Type` is the only step that changes a text, `TextReset` restores its initial state)
  and adds: a lexer that has seen no two statements end while the console admits the text (`OneMeant`); rows sent plus rows the cursor
  still has are the rows there are (`RowsInv`), and the same up to the cap for the console; what is owed is nothing exactly when the request is answered
  (`OwedInv`). `EveryReplyCounts` and `NoRequestWaits` are what `EveryRequestAnswered` rests on besides fairness: stage of the request, statements
  not planned, replies not sent and rows not fetched fall, in that order of weight, with each step but the clock's, and until the end some step
  has its guards met (`EndedInv`: a request that owes nothing was told so).
- **`PushdownProofs`**: `TypeCorrect`, `RowsAreKept`, `NothingIsAdded`, `PlainIsFitForScan`, for predicates of any size over any schema. The two
  properties need more than themselves, since `NOT` turns the false rows into true ones: `Faithful` also says that
  true and false exclude each other, that a document whose columns are all set is one of the two, and when a result may be true or false
  while a column is null. `PlainIsFitForScan` puts the two together as `supports_filters_pushdown` does: what it claims of a plain
  predicate is what `ScanAssumption` asks of the predicates of `CollectionScan`.

Only model-checked: `ScanEnds`, `EveryRequestAnswered` and the fairness of `RepliesInOrder` (liveness; the measures they descend on are
proved), and the five violations. A proof that guards hold (`NoPartitionIsStuck`, `NoRequestWaits`) stands for `ENABLED`, which the provers do not have.
That the constants of `Recursion` exist is argued above and evaluated by TLC, not proved: that would take a definition of
functions by recursion over trees.

## Not modelled

- Literals: their text and width. A test is the set of values it accepts. Comparisons with a NULL literal, columns of doubles, decimals and binary
  under predicates.
- Ranges on the way in: an integer that does not fit its column, a decimal of too many digits. NaN and infinities, which are `null` inside a document
  (`encode.rs:168`). The digits of `parse_decimal`, base64, hex and JSON escapes.
- Arrow types that only DataFusion's functions produce, in `encode.rs`.
- Authentication, TLS and the accept loop of `server/mod.rs`: pgwire's, configured by the code; the `pg_catalog` views and constant
  functions of `compat.rs`: static data.
- A schema replaced between describing a statement and executing it: columns are not part of `QuerySession`.
- Power failure: a process crash keeps what the kernel was given.
- DataFusion beyond `Accept`: rechecks, `LIMIT`, and the plan.
- `health`, `catalog` and the static page of the HTTP UI, which read only; parsing of TOML, environment and flags.

## Plan

Done, in this order: the store and its abstract specification; lookups on top of it; the lattice; the scan; pushdown; the
proofs of all but lookups; the schema tree from sampler to client, refining the lattice; statement texts, sessions and replies with their
proofs; the proofs about lookups, order of sampling, and the measures behind the liveness properties; the proofs about the schema tree.

Next:

1. Composition: `Pushdown`'s results as the predicates of `CollectionScan` in one module, beyond `PlainIsFitForScan`, and `SchemaTree`'s columns as
   those of `Pushdown`, so that `ScanAssumption` and `Sampled` become consequences.
2. Liveness of lookups as a property of a run: `EveryLookupEnds` has the measure, fairness of tasks is left to state.
3. `QuerySession` over `CatalogLookup`, for a schema replaced between describing and executing.
