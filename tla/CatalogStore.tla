----------------------------- MODULE CatalogStore -----------------------------
(***************************************************************************)
(* The schema catalog: a map in memory behind a RwLock, written through to *)
(* catalog.json by every put() (src/src/catalog/store.rs).                 *)
(*                                                                         *)
(* put() runs on whichever runtime thread finished an inference, so several*)
(* writers may be inside it at once.  Only the insertion and the copying of*)
(* the map are under the lock; the file operations of persist() are not.   *)
(* A step of a writer is one critical section or one system call.          *)
(*                                                                         *)
(* An entry (schema, statistics, inferred_at) is immutable once stored and *)
(* is represented by its version: the n-th put stores version n, and 0     *)
(* means "no entry".  Types inferred from BSON are all representable in    *)
(* the cache format, so no table is skipped by persist().                  *)
(***************************************************************************)
EXTENDS Naturals

CONSTANTS
    Tables,      \* catalog keys, "db.collection"
    Writers,     \* threads that call put()
    CachePath,   \* is a cache_path configured?
    MaxPuts      \* bound: puts in a behaviour

ASSUME CatalogStoreAssumption == /\ CachePath \in BOOLEAN
                                 /\ MaxPuts \in Nat

VARIABLES
    tables,      \* the map in memory
    file,        \* what the name catalog.json refers to
    tmp,         \* what the name catalog.json.tmp refers to
    pc,          \* where each writer is in put() and persist()
    snap,        \* the copy of the map each writer is saving
    fd,          \* the name of the file each writer has open for writing
    puts,        \* versions handed out
    acked,       \* history: newest version per table a successful persist() saved
    overlapped   \* history: two persist() calls have been in progress at once

storeVars == <<tables, file, tmp, pc, snap, fd, puts, acked, overlapped>>
-------------------------------------------------------------------------------
Versions == 0 .. MaxPuts

Catalogs == [Tables -> Versions]

NoTables == [t \in Tables |-> 0]

\* What a directory entry can refer to.  "empty" has just been created or
\* truncated; "garbled" is JSON cut short, or one text over the rest of
\* another; "old" is a well-formed catalog of another CATALOG_VERSION.
Kinds == {"missing", "empty", "garbled", "old", "ok"}

Contents == [kind : Kinds, tables : Catalogs]

File(kind) == [kind |-> kind, tables |-> NoTables]

Saved(c) == [kind |-> "ok", tables |-> c]

\* load_from(): only a complete catalog of the current version yields tables;
\* anything else is logged and ignored.
load_from(content) == IF content.kind = "ok" THEN content.tables ELSE NoTables

Persisting(w) == pc[w] \in {"open", "write", "rename"}

Latest(a, b) == IF a < b THEN b ELSE a
-------------------------------------------------------------------------------
TypeOK ==
    /\ tables \in Catalogs
    /\ file \in Contents
    /\ tmp \in Contents
    /\ pc \in [Writers -> {"idle", "persist", "open", "write", "rename"}]
    /\ snap \in [Writers -> Catalogs]
    /\ fd \in [Writers -> {"none", "tmp", "file"}]
    /\ puts \in Versions
    /\ acked \in Catalogs
    /\ overlapped \in BOOLEAN

\* The first start finds no cache, or one written by another version.
StoreInit ==
    /\ tables = NoTables
    /\ file \in {File("missing"), File("old")}
    /\ tmp = File("missing")
    /\ pc = [w \in Writers |-> "idle"]
    /\ snap = [w \in Writers |-> NoTables]
    /\ fd = [w \in Writers |-> "none"]
    /\ puts = 0
    /\ acked = NoTables
    /\ overlapped = FALSE
-------------------------------------------------------------------------------
(***************************************************************************)
(* Variations of the code below, each a plausible slip.  They are not part *)
(* of StoreNext: the properties are checked to fail when one of them takes *)
(* the place of the action it is named after.                              *)
(***************************************************************************)

\* The map is rebuilt from the new entry instead of extended with it.
Put_Rebuilds(w, t) ==
    /\ pc[w] = "idle"
    /\ puts < MaxPuts
    /\ puts' = puts + 1
    /\ tables' = [u \in {t} |-> puts']
    /\ pc' = [pc EXCEPT ![w] = "persist"]
    /\ UNCHANGED <<file, tmp, snap, fd, acked, overlapped>>

\* The serialized map is kept from one persist() of a thread to the next.
Snapshot_Memoized(w) ==
    /\ pc[w] = "persist"
    /\ snap' = [snap EXCEPT ![w] = IF @ = NoTables THEN tables ELSE @]
    /\ pc' = [pc EXCEPT ![w] = "open"]
    /\ overlapped' = (overlapped \/ \E v \in Writers : Persisting(v))
    /\ UNCHANGED <<tables, file, tmp, fd, puts, acked>>

\* catalog.json itself is truncated and rewritten.
Open_InPlace(w) ==
    /\ pc[w] = "open"
    /\ file' = File("empty")
    /\ fd' = [fd EXCEPT ![w] = "file"]
    /\ pc' = [pc EXCEPT ![w] = "write"]
    /\ UNCHANGED <<tables, tmp, snap, puts, acked, overlapped>>

\* A temporary file that is already there is renamed instead of rewritten.
Open_AdoptsLeftover(w) ==
    /\ pc[w] = "open"
    /\ IF tmp.kind = "ok"
       THEN pc' = [pc EXCEPT ![w] = "rename"] /\ UNCHANGED <<tmp, fd>>
       ELSE /\ pc' = [pc EXCEPT ![w] = "write"]
            /\ tmp' = File("empty")
            /\ fd' = [fd EXCEPT ![w] = "tmp"]
    /\ UNCHANGED <<tables, file, snap, puts, acked, overlapped>>

\* A restart begins with an empty map and reads nothing back.
Restart_Forgets ==
    /\ tables' = NoTables
    /\ pc' = [w \in Writers |-> "idle"]
    /\ snap' = [w \in Writers |-> NoTables]
    /\ fd' = [w \in Writers |-> "none"]
    /\ UNCHANGED <<file, tmp, puts, acked, overlapped>>
-------------------------------------------------------------------------------
\* put(): the entry replaces the table's previous one under the write lock.
\* persist() follows in the same call; without a path it returns at once.
Put(w, t) ==
    /\ pc[w] = "idle"
    /\ puts < MaxPuts
    /\ puts' = puts + 1
    /\ tables' = [tables EXCEPT ![t] = puts']
    /\ pc' = [pc EXCEPT ![w] = IF CachePath THEN "persist" ELSE "idle"]
    /\ UNCHANGED <<file, tmp, snap, fd, acked, overlapped>>

\* persist(): the map is copied under the read lock, which is then dropped.
Snapshot(w) ==
    /\ pc[w] = "persist"
    /\ snap' = [snap EXCEPT ![w] = tables]
    /\ pc' = [pc EXCEPT ![w] = "open"]
    /\ overlapped' = (overlapped \/ \E v \in Writers : Persisting(v))
    /\ UNCHANGED <<tables, file, tmp, fd, puts, acked>>

\* fs::write() opens the shared temporary name, creating it or truncating
\* what another writer may still be writing to.  (If the name is missing
\* nobody has it open: a rename moves every open descriptor with the file.)
Open(w) ==
    /\ pc[w] = "open"
    /\ tmp' = File("empty")
    /\ fd' = [fd EXCEPT ![w] = "tmp"]
    /\ pc' = [pc EXCEPT ![w] = "write"]
    /\ UNCHANGED <<tables, file, snap, puts, acked, overlapped>>

\* What a file holds once c has been written from its beginning: longer text
\* already there shows past the end of shorter text.
Written(content, c) ==
    IF content \in {File("empty"), Saved(c)}
    THEN {Saved(c)}
    ELSE {Saved(c), File("garbled")}

\* The write goes to the file that was opened, whatever its name is by now;
\* "none" once another file was renamed over it.  The descriptor is closed.
WriteTo(w, onTmp, onFile) ==
    /\ fd' = [fd EXCEPT ![w] = "none"]
    /\ IF fd[w] = "tmp" THEN tmp' \in onTmp ELSE tmp' = tmp
    /\ IF fd[w] = "file" THEN file' \in onFile ELSE file' = file

Write(w) ==
    /\ pc[w] = "write"
    /\ WriteTo(w, Written(tmp, snap[w]), Written(file, snap[w]))
    /\ pc' = [pc EXCEPT ![w] = "rename"]
    /\ UNCHANGED <<tables, snap, puts, acked, overlapped>>

\* rename(): the temporary file becomes the catalog, and every descriptor
\* follows its file.  When another writer has renamed it already the call
\* fails, which is logged; put() returns the entry either way.
Rename(w) ==
    /\ pc[w] = "rename"
    /\ pc' = [pc EXCEPT ![w] = "idle"]
    /\ IF tmp.kind = "missing"
       THEN UNCHANGED <<file, tmp, fd, acked>>
       ELSE /\ file' = tmp
            /\ tmp' = File("missing")
            /\ fd' = [v \in Writers |-> IF fd[v] = "tmp" THEN "file" ELSE "none"]
            /\ acked' = [t \in Tables |-> Latest(acked[t], snap[w][t])]
    /\ UNCHANGED <<tables, snap, puts, overlapped>>

\* A system call fails (permissions, a full disk): persist() logs it and
\* gives up.  A failing write may already have written part of the text.
PersistFails(w) ==
    /\ Persisting(w)
    /\ pc' = [pc EXCEPT ![w] = "idle"]
    /\ WriteTo(w, {tmp, File("garbled")}, {file, File("garbled")})
    /\ UNCHANGED <<tables, snap, puts, acked, overlapped>>

\* The process dies at any point and is started again: only the two directory
\* entries survive, and the map is whatever load_from() makes of catalog.json.
Restart ==
    /\ tables' = IF CachePath THEN load_from(file) ELSE NoTables
    /\ pc' = [w \in Writers |-> "idle"]
    /\ snap' = [w \in Writers |-> NoTables]
    /\ fd' = [w \in Writers |-> "none"]
    /\ UNCHANGED <<file, tmp, puts, acked, overlapped>>

PersistStep(w) == Snapshot(w) \/ Open(w) \/ Write(w) \/ Rename(w)

StoreNext ==
    \/ \E w \in Writers : \/ \E t \in Tables : Put(w, t)
                          \/ PersistStep(w)
                          \/ PersistFails(w)
    \/ Restart

StoreSpec == StoreInit /\ [][StoreNext]_storeVars
-------------------------------------------------------------------------------
(***************************************************************************)
(* Properties of any number of writers.  "overlapped" separates what the   *)
(* temporary file and the rename do guarantee (as long as no two persist() *)
(* calls are in progress at once, whatever else happens: failures, and     *)
(* restarts at every step) from what they are said to guarantee.           *)
(***************************************************************************)

Torn(content) == content.kind \in {"empty", "garbled"}

\* store.rs:263-265: while persist() calls do not overlap, catalog.json is a
\* complete catalog (or is not there yet) at every point where the process
\* could die.
NotTornAlone == ~overlapped => ~Torn(file)

\* store.rs:3-6: while persist() calls do not overlap, every table that some
\* persist() reported saved is on disk in that version or a newer one, across
\* restarts, failed system calls and leftovers of both.
SavedIsDurableAlone ==
    ~overlapped => \A t \in Tables : acked[t] <= load_from(file)[t]

\* store.rs:241-272: what is on disk is never newer than memory, even when
\* persist() calls overlap and when a crash leaves a temporary file behind:
\* a restart may forget an entry, and never brings back one that a query has
\* not been planned with.
DiskNeverAhead == \A t \in Tables : load_from(file)[t] <= tables[t]

\* The abstract store: memory is live, what a restart would load is durable.
Promise == INSTANCE DurableCatalog WITH live <- tables,
                                        durable <- load_from(file)

\* store.rs:1-6: every step that leaves persist() calls unoverlapped is a step
\* of DurableCatalog: the map on disk moves forward as a whole or not at all.
KeepsPromiseAlone ==
    /\ Promise!Init
    /\ [][overlapped' \/ [Promise!Next]_(Promise!vars)]_storeVars

\* As the comment at store.rs:263-264 has it: a crash mid-write cannot leave a
\* truncated catalog behind.
NeverTorn == ~Torn(file)
===============================================================================
