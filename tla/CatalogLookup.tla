----------------------------- MODULE CatalogLookup -----------------------------
(***************************************************************************)
(* From a table name to a schema: what a SQL session and the HTTP UI do to *)
(* learn the shape of a collection, while other tasks do the same, while   *)
(* documents come and go, and across restarts of the gateway.              *)
(*                                                                         *)
(* MongoSchema::table() (src/src/catalog/provider.rs) and table() of the   *)
(* HTTP API (src/src/http/mod.rs) consult the cached listing and the store *)
(* and otherwise sample the collection (src/src/mongo/client.rs) and put() *)
(* the result.  A step of a task is the code between two awaits, or one    *)
(* critical section; put() is the CatalogStore's own sequence of steps.    *)
(*                                                                         *)
(* One database is modelled; the keys of the store are its collections.    *)
(* A document is known by its shape and a schema by the set of shapes it   *)
(* was inferred from; {} is the placeholder schema of an empty sample.     *)
(***************************************************************************)
EXTENDS CatalogStore, Sequences

CONSTANTS
    Sessions,      \* SQL sessions; every other writer is an HTTP request
    NoTable,       \* what an idle task was asked for
    Shapes,        \* shapes documents can have
    Passes,        \* sampling passes with a budget: sample_size and recent_bias
    Ttl,           \* refresh_interval_secs; 0 means never re-infer
    Readings,      \* bound: readings of the wall clock, in seconds
    MaxChanges,    \* bound: changes of the deployment in a behaviour
    MaxLookups     \* bound: lookups in a behaviour

ASSUME CatalogLookupAssumption ==
    /\ Sessions \subseteq Writers
    /\ NoTable \notin Tables
    /\ Passes \subseteq {"recent", "random"} /\ Passes # {}
    /\ Readings \subseteq Nat /\ Readings # {}
    /\ Ttl \in Nat /\ MaxChanges \in Nat /\ MaxLookups \in Nat

VARIABLES
    exists,      \* the collections of the database
    docs,        \* the shapes of the documents in each collection
    changes,     \* changes of the deployment so far
    now,         \* the wall clock
    entries,     \* the entry stored by each put, by version
    listing,     \* the cached listing of the database
    step,        \* where each task is
    want,        \* the table each task was asked for
    names,       \* the listing each task has fetched
    seen,        \* the shapes each task's sampler has observed
    got,         \* the version each task answers with
    lookups,     \* lookups begun so far
    ever,        \* history: shapes each collection has ever contained
    steady,      \* history: has the wanted collection existed all along?
    misled,      \* history: did listing the collections fail?
    empty,       \* history: has the wanted collection been empty meanwhile?
    planned,     \* history: the version a session last planned a table with
    contended    \* history: a table was sampled twice at once, or by force

taskVars == <<step, want, names, seen, got, lookups>>
worldVars == <<exists, docs, changes>>
historyVars == <<ever, steady, misled, empty, planned, contended>>
lookupVars == <<storeVars, worldVars, now, entries, listing, taskVars, historyVars>>
-------------------------------------------------------------------------------
Schemas == SUBSET Shapes

Placeholder == {}

Entries == [schema : Schemas, inferred_at : Readings]

Unlisted == [listed |-> FALSE, names |-> {}]

Listed(ts) == [listed |-> TRUE, names |-> ts]

Steps == {"idle", "list", "listed", "lookup", "recent", "random", "put",
          "putting", "served", "absent", "failed"}

\* Tasks that are on their way to a put for table t.
Inferring(w, t) == step[w] \in {"recent", "random", "put", "putting"} /\ want[w] = t

\* known_tables(): the tables the store has an entry for.
known_tables == {t \in Tables : tables[t] # 0}

\* cached_names(): the store answers only until the first successful listing.
cached_names == IF listing.listed THEN listing.names ELSE known_tables

\* now_secs().saturating_sub(inferred_at): an entry from the future is new.
Age(n) == IF now > entries[n].inferred_at THEN now - entries[n].inferred_at ELSE 0

\* Variation: an entry must be younger than the interval, which 0 cannot be.
get_fresh_Strict(t) == IF tables[t] # 0 /\ Age(tables[t]) < Ttl THEN tables[t] ELSE 0

\* get_fresh(): the table's entry, if it is young enough; 0 never expires.
get_fresh(t) == IF tables[t] # 0 /\ (Ttl = 0 \/ Age(tables[t]) <= Ttl)
                THEN tables[t]
                ELSE 0

\* The first pass that has a share of the sample.
FirstPass == IF "recent" \in Passes THEN "recent" ELSE "random"
-------------------------------------------------------------------------------
LookupTypeOK ==
    /\ exists \in SUBSET Tables
    /\ docs \in [Tables -> SUBSET Shapes]
    /\ changes \in 0 .. MaxChanges
    /\ now \in Readings
    /\ entries \in Seq(Entries)
    /\ listing \in [listed : BOOLEAN, names : SUBSET Tables]
    /\ step \in [Writers -> Steps]
    /\ want \in [Writers -> Tables \cup {NoTable}]
    /\ names \in [Writers -> SUBSET Tables]
    /\ seen \in [Writers -> SUBSET Shapes]
    /\ got \in [Writers -> Versions]
    /\ lookups \in 0 .. MaxLookups
    /\ ever \in [Tables -> SUBSET Shapes]
    /\ steady \in [Writers -> BOOLEAN]
    /\ misled \in [Writers -> BOOLEAN]
    /\ empty \in [Writers -> BOOLEAN]
    /\ planned \in [Writers -> Catalogs]
    /\ contended \in BOOLEAN

\* Nobody has asked for anything, and no session has planned a table.
AllIdle(step_, want_, names_, seen_, got_, steady_, misled_, empty_, planned_) ==
    /\ step_ = [w \in Writers |-> "idle"]
    /\ want_ = [w \in Writers |-> NoTable]
    /\ names_ = [w \in Writers |-> {}]
    /\ seen_ = names_
    /\ got_ = [w \in Writers |-> 0]
    /\ steady_ = [w \in Writers |-> FALSE]
    /\ misled_ = steady_
    /\ empty_ = steady_
    /\ planned_ = [w \in Writers |-> NoTables]

\* MongoCatalog::new() lists the collections; when that fails the listing
\* stays unknown.
LookupInit ==
    /\ StoreInit
    /\ exists \in SUBSET Tables
    /\ docs \in [Tables -> SUBSET Shapes]
    /\ \A t \in Tables : docs[t] # {} => t \in exists
    /\ changes = 0
    /\ now \in Readings
    /\ entries = <<>>
    /\ listing \in {Unlisted, Listed(exists)}
    /\ AllIdle(step, want, names, seen, got, steady, misled, empty, planned)
    /\ lookups = 0
    /\ ever = docs
    /\ contended = FALSE
-------------------------------------------------------------------------------
(***************************************************************************)
(* The deployment and the clock.                                           *)
(***************************************************************************)

\* Documents of one shape appear; the first one creates the collection.
Insert(t, s) ==
    /\ changes < MaxChanges
    /\ s \notin docs[t]
    /\ changes' = changes + 1
    /\ exists' = exists \cup {t}
    /\ docs' = [docs EXCEPT ![t] = @ \cup {s}]
    /\ ever' = [ever EXCEPT ![t] = @ \cup {s}]
    /\ UNCHANGED <<storeVars, now, entries, listing, taskVars,
                   steady, misled, empty, planned, contended>>

\* A collection is dropped, with all its documents.
Drop(t) ==
    /\ changes < MaxChanges
    /\ t \in exists
    /\ changes' = changes + 1
    /\ exists' = exists \ {t}
    /\ docs' = [docs EXCEPT ![t] = {}]
    /\ steady' = [w \in Writers |-> steady[w] /\ want[w] # t]
    /\ empty' = [w \in Writers |-> empty[w] \/ (step[w] # "idle" /\ want[w] = t)]
    /\ UNCHANGED <<storeVars, now, entries, listing, taskVars,
                   ever, misled, planned, contended>>

\* The wall clock moves, possibly backwards.
SetClock ==
    /\ now' \in Readings \ {now}
    /\ UNCHANGED <<storeVars, worldVars, entries, listing, taskVars, historyVars>>
-------------------------------------------------------------------------------
(***************************************************************************)
(* The steps of a lookup.                                                  *)
(***************************************************************************)

Goto(w, s) == step' = [step EXCEPT ![w] = s]

\* A lookup that finds no fresh entry begins to sample.
Sample(w) ==
    /\ Goto(w, FirstPass)
    /\ contended' = (contended \/ \E v \in Writers : Inferring(v, want[w]))

Begin(w, t) ==
    /\ step[w] = "idle"
    /\ lookups < MaxLookups
    /\ lookups' = lookups + 1
    /\ want' = [want EXCEPT ![w] = t]
    /\ steady' = [steady EXCEPT ![w] = (t \in exists)]
    /\ empty' = [empty EXCEPT ![w] = (docs[t] = {})]
    /\ misled' = [misled EXCEPT ![w] = FALSE]
    /\ UNCHANGED <<storeVars, worldVars, now, entries, listing,
                   names, seen, got, ever, planned>>

(***************************************************************************)
(* Variations of the steps below, each a plausible slip; not in LookupNext.*)
(***************************************************************************)

\* A name the cached listing lacks is reported missing at once.
BeginSql_NoRefresh(w, t) ==
    /\ w \in Sessions
    /\ Begin(w, t)
    /\ Goto(w, IF t \in cached_names THEN "lookup" ELSE "absent")
    /\ UNCHANGED contended

\* The store is keyed by database and answers with any entry of it.
Lookup_ByDatabase(w) ==
    /\ step[w] = "lookup"
    /\ IF known_tables # {}
       THEN /\ \E t \in known_tables : got' = [got EXCEPT ![w] = tables[t]]
            /\ Goto(w, "served")
            /\ UNCHANGED contended
       ELSE Sample(w) /\ UNCHANGED got
    /\ UNCHANGED <<storeVars, worldVars, now, entries, listing, want, names, seen,
                   lookups, ever, steady, misled, empty, planned>>

\* An error of the first pass is logged, like one of the second.
SampleRecentFails_Swallowed(w) ==
    /\ step[w] = "recent"
    /\ Goto(w, IF "random" \in Passes THEN "random" ELSE "put")
    /\ UNCHANGED <<storeVars, worldVars, now, entries, listing, want, names, seen,
                   got, lookups, historyVars>>

\* The entry is stamped in milliseconds.
StorePut_Millis(w) ==
    /\ step[w] = "put"
    /\ Put(w, want[w])
    /\ entries' = Append(entries, [schema |-> seen[w], inferred_at |-> now * 1000])
    /\ got' = [got EXCEPT ![w] = puts']
    /\ seen' = [seen EXCEPT ![w] = {}]
    /\ Goto(w, "putting")
    /\ UNCHANGED <<worldVars, now, listing, want, names, lookups, historyVars>>

\* MongoSchema::table(): a name the cached listing lacks is looked for again.
BeginSql(w, t) ==
    /\ w \in Sessions
    /\ Begin(w, t)
    /\ Goto(w, IF t \in cached_names THEN "lookup" ELSE "list")
    /\ UNCHANGED contended

\* table() of the HTTP API does not ask whether the collection exists.
BeginHttp(w, t) ==
    /\ w \notin Sessions
    /\ Begin(w, t)
    /\ Goto(w, "lookup")
    /\ UNCHANGED contended

\* The same with ?refresh=1: the store is not consulted.
BeginRefresh(w, t) ==
    /\ w \notin Sessions
    /\ Begin(w, t)
    /\ Goto(w, FirstPass)
    /\ contended' = TRUE

\* refresh(): the deployment answers with the collections it has now.
List(w) ==
    /\ step[w] = "list"
    /\ names' = [names EXCEPT ![w] = exists]
    /\ Goto(w, "listed")
    /\ UNCHANGED <<storeVars, worldVars, now, entries, listing, want, seen, got,
                   lookups, historyVars>>

\* refresh(): the answer replaces the shared listing, however late it comes.
StoreListing(w) ==
    /\ step[w] = "listed"
    /\ listing' = Listed(names[w])
    /\ Goto(w, IF want[w] \in names[w] THEN "lookup" ELSE "absent")
    /\ names' = [names EXCEPT ![w] = {}]
    /\ UNCHANGED <<storeVars, worldVars, now, entries, want, seen, got,
                   lookups, historyVars>>

\* refresh(): listing fails, and the cached names decide.
ListFails(w) ==
    /\ step[w] = "list"
    /\ misled' = [misled EXCEPT ![w] = TRUE]
    /\ Goto(w, IF want[w] \in cached_names THEN "lookup" ELSE "absent")
    /\ UNCHANGED <<storeVars, worldVars, now, entries, listing, want, names, seen,
                   got, lookups, ever, steady, empty, planned, contended>>

\* get_fresh() answers, or sampling begins.
Lookup(w) ==
    /\ step[w] = "lookup"
    /\ LET n == get_fresh(want[w]) IN
       /\ got' = [got EXCEPT ![w] = n]
       /\ IF n # 0
          THEN Goto(w, "served") /\ UNCHANGED contended
          ELSE Sample(w)
    /\ UNCHANGED <<storeVars, worldVars, now, entries, listing, want, names, seen,
                   lookups, ever, steady, misled, empty, planned>>

\* What draining a cursor over t can show: some of the documents, and none
\* only if there are none.
Drained(t) == IF docs[t] = {} THEN {{}} ELSE (SUBSET docs[t]) \ {{}}

Observe(w, shapes) ==
    /\ seen' = [seen EXCEPT ![w] = @ \cup shapes]
    /\ UNCHANGED <<storeVars, worldVars, now, entries, listing, want, names, got,
                   lookups, historyVars>>

\* infer_schema(): the newest documents.
SampleRecent(w) ==
    /\ step[w] = "recent"
    /\ \E shapes \in Drained(want[w]) : Observe(w, shapes)
    /\ Goto(w, IF "random" \in Passes THEN "random" ELSE "put")

\* An error of that pass is an error of the lookup.
SampleRecentFails(w) ==
    /\ step[w] = "recent"
    /\ Goto(w, "failed")
    /\ UNCHANGED <<storeVars, worldVars, now, entries, listing, want, names, seen,
                   got, lookups, historyVars>>

\* infer_schema(): documents picked at random, after those already seen.
SampleRandom(w) ==
    /\ step[w] = "random"
    /\ \E shapes \in Drained(want[w]) : Observe(w, shapes)
    /\ Goto(w, "put")

\* An error of that pass is logged; what was drained before it is kept.
SampleRandomFails(w) ==
    /\ step[w] = "random"
    /\ \E shapes \in SUBSET docs[want[w]] : Observe(w, shapes)
    /\ Goto(w, "put")

\* stats() never fails.  put() stamps the entry with the time of the put, and
\* an empty sample yields the placeholder schema.
StorePut(w) ==
    /\ step[w] = "put"
    /\ Put(w, want[w])
    /\ entries' = Append(entries, [schema |-> IF seen[w] = {} THEN Placeholder ELSE seen[w],
                                   inferred_at |-> now])
    /\ got' = [got EXCEPT ![w] = puts']
    /\ seen' = [seen EXCEPT ![w] = {}]
    /\ Goto(w, "putting")
    /\ UNCHANGED <<worldVars, now, listing, want, names, lookups, historyVars>>

\* persist() within put().
Persist(w) ==
    /\ step[w] = "putting"
    /\ PersistStep(w) \/ PersistFails(w)
    /\ UNCHANGED <<worldVars, now, entries, listing, taskVars, historyVars>>

\* put() returns its entry, saved or not.
PutReturns(w) ==
    /\ step[w] = "putting"
    /\ pc[w] = "idle"
    /\ Goto(w, "served")
    /\ UNCHANGED <<storeVars, worldVars, now, entries, listing, want, names, seen,
                   got, lookups, historyVars>>

\* The caller has its schema, its "no such table" or its error.
Return(w) ==
    /\ step[w] \in {"served", "absent", "failed"}
    /\ planned' = IF step[w] = "served" /\ w \in Sessions
                  THEN [planned EXCEPT ![w][want[w]] = got[w]]
                  ELSE planned
    /\ Goto(w, "idle")
    /\ want' = [want EXCEPT ![w] = NoTable]
    /\ seen' = [seen EXCEPT ![w] = {}]
    /\ got' = [got EXCEPT ![w] = 0]
    /\ steady' = [steady EXCEPT ![w] = FALSE]
    /\ misled' = [misled EXCEPT ![w] = FALSE]
    /\ empty' = [empty EXCEPT ![w] = FALSE]
    /\ UNCHANGED <<storeVars, worldVars, now, entries, listing, names, lookups,
                   ever, contended>>

\* The gateway dies and starts again: every connection is gone, the store is
\* loaded from disk and the collections are listed anew, or are not.
GatewayRestart ==
    /\ Restart
    /\ listing' \in {Unlisted, Listed(exists)}
    /\ AllIdle(step', want', names', seen', got', steady', misled', empty', planned')
    /\ UNCHANGED <<worldVars, now, entries, lookups, ever, contended>>

\* What a task does by itself once it has been asked.
TaskStep(w) ==
    \/ List(w) \/ StoreListing(w) \/ ListFails(w)
    \/ Lookup(w)
    \/ SampleRecent(w) \/ SampleRecentFails(w)
    \/ SampleRandom(w) \/ SampleRandomFails(w)
    \/ StorePut(w) \/ Persist(w) \/ PutReturns(w)
    \/ Return(w)

LookupNext ==
    \/ \E t \in Tables : Drop(t) \/ \E s \in Shapes : Insert(t, s)
    \/ SetClock
    \/ \E w \in Writers : \/ TaskStep(w)
                          \/ \E t \in Tables : \/ BeginSql(w, t)
                                               \/ BeginHttp(w, t)
                                               \/ BeginRefresh(w, t)
    \/ GatewayRestart

LookupSpec == LookupInit /\ [][LookupNext]_lookupVars
-------------------------------------------------------------------------------
(***************************************************************************)
(* Properties.                                                             *)
(***************************************************************************)

\* provider.rs:181-219, mod.rs:159-200: a schema handed out for a table was
\* inferred from documents that table's collection has contained, however the
\* tasks, the drops and the restarts interleave.
ServedWasObserved ==
    \A w \in Writers :
        step[w] = "served" => entries[got[w]].schema \subseteq ever[want[w]]

\* provider.rs:182-189: "no such table" is answered for a collection that has
\* existed since the lookup began only when listing the collections failed.
AbsentMeansAbsent ==
    \A w \in Writers : step[w] = "absent" /\ steady[w] => misled[w]

\* client.rs:111-125: the schema without columns is stored only for a
\* collection that was empty at some moment of the lookup.
PlaceholderMeansEmpty ==
    \A w \in Writers :
        step[w] = "putting" /\ entries[got[w]].schema = Placeholder => empty[w]

\* config.rs:113-117, store.rs:3-6: with automatic re-inference off, as long as
\* no table is sampled twice at once or by force and persist() calls do not
\* overlap, a table keeps the first entry that was saved for it, in memory and
\* on disk, through failed saves and restarts.
FrozenOnceSaved ==
    Ttl = 0 /\ ~contended /\ ~overlapped =>
        \A t \in Tables : acked[t] # 0 =>
            tables[t] = acked[t] /\ load_from(file)[t] = acked[t]

\* provider.rs:8-10: under the same conditions on sampling alone, a session
\* plans every query of a table with one and the same entry.
SessionKeepsEntryAlone ==
    Ttl = 0 /\ ~contended =>
        \A w \in Sessions :
            step[w] = "served" /\ planned[w][want[w]] # 0 => got[w] = planned[w][want[w]]
===============================================================================
