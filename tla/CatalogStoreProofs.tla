-------------------------- MODULE CatalogStoreProofs --------------------------
(***************************************************************************)
(* What holds of the catalog store for any number of tables, writers and   *)
(* puts.  The invariant has two parts.  AheadInv needs no assumption about *)
(* schedules.  AloneInv describes the one persist() in progress while      *)
(* calls have never overlapped: the temporary file is that call's alone,   *)
(* and it holds exactly the copy of the map the call took.                 *)
(***************************************************************************)
EXTENDS CatalogStore, TLAPS

\* Everything on its way to catalog.json comes from the map in memory.  The
\* temporary file counts only once a living writer has truncated it: what a
\* dead process left there may well be newer than memory.
AheadInv ==
    /\ \A t \in Tables : tables[t] <= puts
    /\ \A t \in Tables : load_from(file)[t] <= tables[t]
    /\ \A w \in Writers : Persisting(w) => \A t \in Tables : snap[w][t] <= tables[t]
    /\ \A w \in Writers : pc[w] \in {"write", "rename"} =>
           \A t \in Tables : load_from(tmp)[t] <= tables[t]
    /\ ~CachePath => /\ \A w \in Writers : pc[w] = "idle"
                     /\ load_from(file) = NoTables

AloneInv ==
    /\ \A v, w \in Writers : Persisting(v) /\ Persisting(w) => v = w
    /\ \A w \in Writers : fd[w] # "none" => pc[w] = "write"
    /\ \A w \in Writers : pc[w] = "write" => fd[w] = "tmp" /\ tmp = File("empty")
    /\ \A w \in Writers : pc[w] = "rename" => tmp = Saved(snap[w])
    /\ ~Torn(file)
    /\ \A w \in Writers : Persisting(w) =>
           \A t \in Tables : load_from(file)[t] <= snap[w][t]
    /\ \A t \in Tables : acked[t] <= load_from(file)[t]

StoreInv == TypeOK /\ AheadInv /\ (~overlapped => AloneInv)
-------------------------------------------------------------------------------
(***************************************************************************)
(* Types.                                                                  *)
(***************************************************************************)

LEMMA ContentTypes ==
    /\ \A kind \in Kinds : File(kind) \in Contents
    /\ \A c \in Catalogs : Saved(c) \in Contents
    /\ \A content \in Contents : load_from(content) \in Catalogs
    /\ NoTables \in Catalogs
  BY CatalogStoreAssumption
  DEF Contents, Catalogs, Versions, NoTables, Kinds, File, Saved, load_from

\* A descriptor step leaves well-formed files well-formed.
LEMMA WriteToTypes ==
    ASSUME TypeOK, NEW w \in Writers,
           NEW onTmp \in SUBSET Contents, NEW onFile \in SUBSET Contents,
           WriteTo(w, onTmp, onFile)
    PROVE  /\ tmp' \in Contents
           /\ file' \in Contents
           /\ fd' \in [Writers -> {"none", "tmp", "file"}]
  BY DEF TypeOK, WriteTo

LEMMA TypeInit == StoreInit => TypeOK
  <1> SUFFICES ASSUME StoreInit PROVE TypeOK
    OBVIOUS
  <1>1. file \in Contents /\ tmp \in Contents
    BY ContentTypes DEF StoreInit, Kinds
  <1>2. puts \in Versions
    BY CatalogStoreAssumption DEF StoreInit, Versions
  <1>3. tables \in Catalogs /\ acked \in Catalogs /\ snap \in [Writers -> Catalogs]
    BY ContentTypes DEF StoreInit
  <1>4. QED
    BY <1>1, <1>2, <1>3 DEF StoreInit, TypeOK

LEMMA TypeStep == TypeOK /\ [StoreNext]_storeVars => TypeOK'
  <1> SUFFICES ASSUME TypeOK, [StoreNext]_storeVars PROVE TypeOK'
    OBVIOUS
  <1>1. ASSUME NEW w \in Writers, NEW t \in Tables, Put(w, t) PROVE TypeOK'
    <2>1. puts' \in Versions
      BY <1>1, CatalogStoreAssumption DEF Put, TypeOK, Versions
    <2>2. tables' \in Catalogs
      BY <1>1, <2>1 DEF Put, TypeOK, Catalogs
    <2>3. QED
      BY <1>1, <2>1, <2>2 DEF Put, TypeOK
  <1>2. ASSUME NEW w \in Writers, Snapshot(w) PROVE TypeOK'
    BY <1>2 DEF Snapshot, TypeOK
  <1>3. ASSUME NEW w \in Writers, Open(w) PROVE TypeOK'
    <2>1. tmp' \in Contents
      BY <1>3, ContentTypes DEF Open, Kinds
    <2>2. QED
      BY <1>3, <2>1 DEF Open, TypeOK
  <1>4. ASSUME NEW w \in Writers, Write(w) PROVE TypeOK'
    <2>1. \A content \in Contents : Written(content, snap[w]) \subseteq Contents
      BY ContentTypes DEF Written, TypeOK, Kinds
    <2>2. /\ tmp' \in Contents
          /\ file' \in Contents
          /\ fd' \in [Writers -> {"none", "tmp", "file"}]
      BY <1>4, <2>1, WriteToTypes DEF Write, TypeOK
    <2>3. QED
      BY <1>4, <2>2 DEF Write, TypeOK
  <1>5. ASSUME NEW w \in Writers, Rename(w) PROVE TypeOK'
    <2>1. file' \in Contents /\ tmp' \in Contents
      BY <1>5, ContentTypes DEF Rename, TypeOK, Kinds
    <2>2. fd' \in [Writers -> {"none", "tmp", "file"}]
      BY <1>5 DEF Rename, TypeOK
    <2>3. acked' \in Catalogs
      BY <1>5 DEF Rename, TypeOK, Catalogs, Latest
    <2>4. QED
      BY <1>5, <2>1, <2>2, <2>3 DEF Rename, TypeOK
  <1>6. ASSUME NEW w \in Writers, PersistFails(w) PROVE TypeOK'
    <2>1. /\ {tmp, File("garbled")} \subseteq Contents
          /\ {file, File("garbled")} \subseteq Contents
      BY ContentTypes DEF TypeOK, Kinds
    <2>2. /\ tmp' \in Contents
          /\ file' \in Contents
          /\ fd' \in [Writers -> {"none", "tmp", "file"}]
      BY <1>6, <2>1, WriteToTypes DEF PersistFails
    <2>3. QED
      BY <1>6, <2>2 DEF PersistFails, TypeOK
  <1>7. CASE Restart
    <2>1. tables' \in Catalogs
      BY <1>7, ContentTypes DEF Restart, TypeOK
    <2>2. QED
      BY <1>7, <2>1, ContentTypes DEF Restart, TypeOK
  <1>8. CASE UNCHANGED storeVars
    BY <1>8 DEF storeVars, TypeOK
  <1>9. QED
    BY <1>1, <1>2, <1>3, <1>4, <1>5, <1>6, <1>7, <1>8 DEF StoreNext, PersistStep

\* StoreSpec => []TypeOK: the types hold for every number of writers.
THEOREM TypeCorrect == StoreSpec => []TypeOK
  BY TypeInit, TypeStep, PTL DEF StoreSpec
-------------------------------------------------------------------------------
(***************************************************************************)
(* Disk is never ahead of memory, on any schedule.                         *)
(***************************************************************************)

\* What load_from() makes of the contents the writers produce.
LEMMA Loading ==
    /\ \A content \in Contents, t \in Tables : load_from(content)[t] \in Nat
    /\ \A c \in Catalogs : load_from(Saved(c)) = c
    /\ \A kind \in Kinds \ {"ok"} : load_from(File(kind)) = NoTables
    /\ \A t \in Tables : NoTables[t] = 0
  BY CatalogStoreAssumption
  DEF Contents, Catalogs, Versions, NoTables, Kinds, File, Saved, load_from

\* Catalogs map tables to natural numbers.
LEMMA Numbers ==
    ASSUME TypeOK
    PROVE  /\ \A t \in Tables : tables[t] \in Nat /\ acked[t] \in Nat
           /\ \A w \in Writers, t \in Tables : snap[w][t] \in Nat
           /\ puts \in Nat
  BY CatalogStoreAssumption DEF TypeOK, Catalogs, Versions

\* A write leaves a copy of the writer's map, or nothing that loads.
LEMMA Writing ==
    ASSUME NEW c \in Catalogs, NEW content, NEW result \in Written(content, c)
    PROVE  load_from(result) = c \/ load_from(result) = NoTables
  BY Loading DEF Written, Kinds

LEMMA AheadInit == StoreInit => AheadInv
  BY Loading DEF StoreInit, AheadInv, Persisting, Kinds

LEMMA AheadStep == TypeOK /\ AheadInv /\ [StoreNext]_storeVars => AheadInv'
  <1> SUFFICES ASSUME TypeOK, AheadInv, [StoreNext]_storeVars PROVE AheadInv'
    OBVIOUS
  <1> USE Numbers, Loading
  <1>1. ASSUME NEW w \in Writers, NEW t \in Tables, Put(w, t) PROVE AheadInv'
    <2>1. \A u \in Tables : tables[u] <= tables'[u] /\ tables'[u] <= puts'
      BY <1>1 DEF Put, AheadInv, TypeOK, Catalogs
    <2>2. \A u \in Tables : tables'[u] \in Nat
      BY <1>1 DEF Put, TypeOK, Catalogs
    <2>3. \A u \in Tables : load_from(file)'[u] <= tables'[u]
      BY <1>1, <2>1, <2>2 DEF Put, AheadInv, TypeOK, load_from
    <2>4. ASSUME NEW v \in Writers, Persisting(v)'
          PROVE  \A u \in Tables : snap'[v][u] <= tables'[u]
      <3>1. Persisting(v) /\ snap' = snap
        BY <1>1, <2>4 DEF Put, Persisting, TypeOK
      <3>2. QED
        BY <2>1, <2>2, <3>1 DEF AheadInv
    <2>5. ASSUME NEW v \in Writers, pc'[v] \in {"write", "rename"}
          PROVE  \A u \in Tables : load_from(tmp)'[u] <= tables'[u]
      <3>1. pc[v] \in {"write", "rename"} /\ tmp' = tmp
        BY <1>1, <2>5 DEF Put, TypeOK
      <3>2. QED
        BY <2>1, <2>2, <3>1 DEF AheadInv, TypeOK, load_from
    <2>6. ~CachePath => (\A v \in Writers : pc'[v] = "idle") /\ load_from(file)' = NoTables
      BY <1>1 DEF Put, AheadInv, TypeOK, load_from
    <2>7. QED
      BY <2>1, <2>3, <2>4, <2>5, <2>6 DEF AheadInv
  <1>2. ASSUME NEW w \in Writers, Snapshot(w) PROVE AheadInv'
    BY <1>2 DEF Snapshot, AheadInv, TypeOK, Persisting, load_from
  <1>3. ASSUME NEW w \in Writers, Open(w) PROVE AheadInv'
    <2>1. load_from(tmp)' = NoTables
      BY <1>3 DEF Open, Kinds, File, load_from
    <2>2. QED
      BY <1>3, <2>1 DEF Open, AheadInv, TypeOK, Persisting, load_from
  <1>4. ASSUME NEW w \in Writers, Write(w) PROVE AheadInv'
    <2>1. UNCHANGED <<tables, snap, puts>> /\ pc' = [pc EXCEPT ![w] = "rename"]
      BY <1>4 DEF Write
    <2>2. \A t \in Tables : snap[w][t] <= tables[t] /\ load_from(tmp)[t] <= tables[t]
      BY <1>4 DEF Write, AheadInv, Persisting
    <2>3. \A t \in Tables : load_from(tmp)'[t] <= tables[t]
      <3>1. CASE fd[w] = "tmp"
        <4>1. load_from(tmp)' = snap[w] \/ load_from(tmp)' = NoTables
          BY <1>4, <3>1, Writing DEF Write, WriteTo, TypeOK, load_from
        <4>2. QED
          BY <2>2, <4>1
      <3>2. CASE fd[w] # "tmp"
        BY <1>4, <2>2, <3>2 DEF Write, WriteTo, load_from
      <3>3. QED
        BY <3>1, <3>2
    <2>4. \A t \in Tables : load_from(file)'[t] <= tables[t]
      <3>1. CASE fd[w] = "file"
        <4>1. load_from(file)' = snap[w] \/ load_from(file)' = NoTables
          BY <1>4, <3>1, Writing DEF Write, WriteTo, TypeOK, load_from
        <4>2. QED
          BY <2>2, <4>1
      <3>2. CASE fd[w] # "file"
        BY <1>4, <3>2 DEF Write, WriteTo, AheadInv, load_from
      <3>3. QED
        BY <3>1, <3>2
    <2>5. QED
      BY <1>4, <2>1, <2>3, <2>4 DEF Write, AheadInv, TypeOK, Persisting
  <1>5. ASSUME NEW w \in Writers, Rename(w) PROVE AheadInv'
    <2>1. \A t \in Tables : load_from(tmp)[t] <= tables[t]
      BY <1>5 DEF Rename, AheadInv
    <2>2. load_from(tmp)' = NoTables \/ load_from(tmp)' = load_from(tmp)
      BY <1>5 DEF Rename, Kinds, load_from
    <2>3. load_from(file)' = load_from(tmp) \/ load_from(file)' = load_from(file)
      BY <1>5 DEF Rename, load_from
    <2>4. \A t \in Tables : /\ load_from(tmp)'[t] <= tables[t]
                            /\ load_from(file)'[t] <= tables[t]
      BY <2>1, <2>2, <2>3 DEF AheadInv
    <2>5. QED
      BY <1>5, <2>4 DEF Rename, AheadInv, TypeOK, Persisting
  <1>6. ASSUME NEW w \in Writers, PersistFails(w) PROVE AheadInv'
    <2>1. load_from(tmp)' = NoTables \/ load_from(tmp)' = load_from(tmp)
      BY <1>6 DEF PersistFails, WriteTo, Kinds, load_from
    <2>2. load_from(file)' = NoTables \/ load_from(file)' = load_from(file)
      BY <1>6 DEF PersistFails, WriteTo, Kinds, load_from
    <2>3. QED
      BY <1>6, <2>1, <2>2 DEF PersistFails, AheadInv, TypeOK, Persisting
  <1>7. CASE Restart
    <2>1. tables' = load_from(file) \/ tables' = NoTables
      BY <1>7 DEF Restart
    <2>2. \A t \in Tables : tables'[t] <= puts
      BY <2>1 DEF AheadInv, TypeOK
    <2>3. \A t \in Tables : load_from(file)'[t] <= tables'[t]
      BY <1>7 DEF Restart, AheadInv, TypeOK, load_from
    <2>4. (\A w \in Writers : pc'[w] = "idle") /\ load_from(file)' = load_from(file)
      BY <1>7 DEF Restart, load_from
    <2>5. QED
      BY <1>7, <2>2, <2>3, <2>4 DEF Restart, AheadInv, Persisting
  <1>8. CASE UNCHANGED storeVars
    BY <1>8 DEF storeVars, AheadInv, Persisting, load_from
  <1>9. QED
    BY <1>1, <1>2, <1>3, <1>4, <1>5, <1>6, <1>7, <1>8 DEF StoreNext, PersistStep

\* store.rs:241-272: a restart never brings back an entry newer than any the
\* process has held, whatever the schedule of the writers.
THEOREM DiskIsNeverAhead == StoreSpec => []DiskNeverAhead
  <1>1. TypeOK /\ AheadInv => DiskNeverAhead
    BY DEF AheadInv, DiskNeverAhead
  <1>2. QED
    BY <1>1, TypeInit, TypeStep, AheadInit, AheadStep, PTL DEF StoreSpec
-------------------------------------------------------------------------------
(***************************************************************************)
(* While persist() calls have not overlapped.                              *)
(***************************************************************************)

LEMMA AloneInit == StoreInit => AloneInv
  BY Loading DEF StoreInit, AloneInv, Persisting, Kinds, Torn, File, load_from, NoTables

\* "overlapped" is never taken back.
LEMMA OverlapIsForever == TypeOK /\ [StoreNext]_storeVars /\ overlapped => overlapped'
  BY DEF TypeOK, StoreNext, PersistStep, Put, Snapshot, Open, Write, Rename,
         PersistFails, Restart, storeVars

LEMMA AloneStep ==
    TypeOK /\ AheadInv /\ AloneInv /\ [StoreNext]_storeVars /\ ~overlapped'
    => AloneInv'
  <1> SUFFICES ASSUME TypeOK, AheadInv, AloneInv, [StoreNext]_storeVars, ~overlapped'
               PROVE  AloneInv'
    OBVIOUS
  <1> USE Numbers, Loading
  <1>1. ASSUME NEW w \in Writers, NEW t \in Tables, Put(w, t) PROVE AloneInv'
    <2>1. \A v \in Writers : /\ Persisting(v)' <=> Persisting(v)
                             /\ pc'[v] = "write" <=> pc[v] = "write"
                             /\ pc'[v] = "rename" <=> pc[v] = "rename"
      BY <1>1 DEF Put, TypeOK, Persisting
    <2>2. QED
      BY <1>1, <2>1 DEF Put, AloneInv, Torn, load_from, File, Saved, NoTables
  <1>2. ASSUME NEW w \in Writers, Snapshot(w) PROVE AloneInv'
    <2>1. \A v \in Writers : ~Persisting(v)
      BY <1>2 DEF Snapshot
    <2>2. \A v \in Writers : pc'[v] \notin {"write", "rename"} /\ fd'[v] = "none"
      BY <1>2, <2>1 DEF Snapshot, TypeOK, Persisting, AloneInv
    <2>3. \A v \in Writers : Persisting(v)' => v = w
      BY <1>2, <2>1 DEF Snapshot, TypeOK, Persisting
    <2>4. snap'[w] = tables
      BY <1>2 DEF Snapshot, TypeOK
    <2>5. \A t \in Tables : load_from(file)'[t] <= snap'[w][t]
      BY <1>2, <2>4 DEF Snapshot, AheadInv, load_from
    <2>6. QED
      BY <1>2, <2>2, <2>3, <2>5 DEF Snapshot, AloneInv, Torn, load_from
  <1>3. ASSUME NEW w \in Writers, Open(w) PROVE AloneInv'
    <2>1. \A v \in Writers : Persisting(v)' => v = w
      BY <1>3 DEF Open, TypeOK, Persisting, AloneInv
    <2>2. \A v \in Writers : v # w => fd'[v] = "none"
      BY <1>3 DEF Open, TypeOK, Persisting, AloneInv
    <2>3. pc'[w] = "write" /\ fd'[w] = "tmp" /\ tmp' = File("empty")
      BY <1>3 DEF Open, TypeOK
    <2>4. QED
      BY <1>3, <2>1, <2>2, <2>3 DEF Open, AloneInv, Torn, load_from, Persisting, File, NoTables
  <1>4. ASSUME NEW w \in Writers, Write(w) PROVE AloneInv'
    <2>1. fd[w] = "tmp" /\ tmp = File("empty")
      BY <1>4 DEF Write, AloneInv
    <2>2. tmp' = Saved(snap[w]) /\ file' = file
      BY <1>4, <2>1 DEF Write, WriteTo, Written
    <2>3. \A v \in Writers : Persisting(v)' => v = w
      BY <1>4 DEF Write, TypeOK, Persisting, AloneInv
    <2>4. \A v \in Writers : fd'[v] = "none"
      BY <1>4 DEF Write, WriteTo, TypeOK, Persisting, AloneInv
    <2>5. pc'[w] = "rename" /\ snap' = snap /\ acked' = acked
      BY <1>4 DEF Write, TypeOK
    <2>6. Persisting(w)
      BY <1>4 DEF Write, Persisting
    <2>7. \A v \in Writers : pc'[v] = "rename" => tmp' = Saved(snap'[v])
      BY <2>2, <2>3, <2>5 DEF Persisting
    <2>8. \A v \in Writers : pc'[v] # "write"
      BY <2>3, <2>5 DEF Persisting
    <2>9. QED
      BY <2>2, <2>3, <2>4, <2>5, <2>6, <2>7, <2>8 DEF AloneInv, Torn, load_from
  <1>5. ASSUME NEW w \in Writers, Rename(w) PROVE AloneInv'
    <2>1. tmp = Saved(snap[w]) /\ Persisting(w)
      BY <1>5 DEF Rename, AloneInv, Persisting
    <2>2. file' = Saved(snap[w])
      BY <1>5, <2>1 DEF Rename, Saved
    <2>3. \A v \in Writers : ~Persisting(v)'
      BY <1>5 DEF Rename, TypeOK, Persisting, AloneInv
    <2>4. \A v \in Writers : fd[v] = "none"
      BY <1>5 DEF Rename, TypeOK, Persisting, AloneInv
    <2>5. \A v \in Writers : fd'[v] = "none"
      BY <1>5, <2>4 DEF Rename
    <2>6. load_from(file)' = snap[w] /\ ~Torn(file)'
      BY <2>2 DEF TypeOK, Torn, Saved, load_from
    <2>7. acked' = [t \in Tables |-> Latest(acked[t], snap[w][t])]
      BY <1>5, <2>1 DEF Rename, Saved
    <2>8. \A t \in Tables : acked'[t] <= snap[w][t]
      <3>1. \A t \in Tables : acked[t] <= snap[w][t]
        BY <2>1 DEF AloneInv, TypeOK
      <3>2. QED
        BY <2>7, <3>1 DEF Latest
    <2>9. QED
      BY <2>3, <2>5, <2>6, <2>8 DEF AloneInv, Persisting
  <1>6. ASSUME NEW w \in Writers, PersistFails(w) PROVE AloneInv'
    <2>1. \A v \in Writers : ~Persisting(v)'
      BY <1>6 DEF PersistFails, TypeOK, Persisting, AloneInv
    <2>2. fd[w] # "file" /\ file' = file
      BY <1>6 DEF PersistFails, WriteTo, AloneInv
    <2>3. \A v \in Writers : fd'[v] = "none"
      BY <1>6 DEF PersistFails, WriteTo, TypeOK, Persisting, AloneInv
    <2>4. QED
      BY <1>6, <2>1, <2>2, <2>3 DEF PersistFails, AloneInv, Persisting, Torn, load_from
  <1>7. CASE Restart
    BY <1>7 DEF Restart, AloneInv, Persisting, Torn, load_from
  <1>8. CASE UNCHANGED storeVars
    BY <1>8 DEF storeVars, AloneInv, Persisting, Torn, load_from
  <1>9. QED
    BY <1>1, <1>2, <1>3, <1>4, <1>5, <1>6, <1>7, <1>8 DEF StoreNext, PersistStep

\* The inductive invariant of the store.
LEMMA StoreInvariant == StoreSpec => []StoreInv
  <1>1. StoreInit => StoreInv
    BY TypeInit, AheadInit, AloneInit DEF StoreInv
  <1>2. StoreInv /\ [StoreNext]_storeVars => StoreInv'
    BY TypeStep, AheadStep, AloneStep, OverlapIsForever DEF StoreInv
  <1>3. QED
    BY <1>1, <1>2, PTL DEF StoreSpec

\* store.rs:263-265: without overlapping persist() calls the catalog file is
\* complete at every instant, so a crash at any step leaves a readable one.
THEOREM NeverTornAlone == StoreSpec => []NotTornAlone
  <1>1. StoreInv => NotTornAlone
    BY DEF StoreInv, AloneInv, NotTornAlone
  <1>2. QED
    BY <1>1, StoreInvariant, PTL

\* store.rs:3-6: without overlapping persist() calls, what a persist() saved
\* is what every later restart finds, or something newer.
THEOREM SavedIsDurable == StoreSpec => []SavedIsDurableAlone
  <1>1. StoreInv => SavedIsDurableAlone
    BY DEF StoreInv, AloneInv, SavedIsDurableAlone
  <1>2. QED
    BY <1>1, StoreInvariant, PTL
-------------------------------------------------------------------------------
(***************************************************************************)
(* The store implements DurableCatalog while persist() calls do not        *)
(* overlap: Put is Put, a successful rename is Checkpoint, Restart is      *)
(* Restart, and every other step of a writer changes nothing a caller or a *)
(* restart could see.                                                      *)
(***************************************************************************)

LEMMA PromiseStep ==
    StoreInv /\ [StoreNext]_storeVars => overlapped' \/ [Promise!Next]_(Promise!vars)
  <1> SUFFICES ASSUME StoreInv, [StoreNext]_storeVars, ~overlapped'
               PROVE  [Promise!Next]_(Promise!vars)
    OBVIOUS
  <1>0. TypeOK /\ AheadInv /\ AloneInv
    BY OverlapIsForever DEF StoreInv
  <1> USE <1>0, Numbers, Loading
  <1> DEFINE disk == load_from(file)
  <1>1. ASSUME NEW w \in Writers, NEW t \in Tables, Put(w, t) PROVE Promise!Put
    <2>1. tables' = [tables EXCEPT ![t] = puts + 1]
      BY <1>1 DEF Put
    <2>2. tables'[t] = puts + 1 /\ tables[t] <= puts
      BY <2>1 DEF TypeOK, Catalogs, AheadInv
    <2>3. tables'[t] > tables[t]
      BY <2>2
    <2>4. tables' = [tables EXCEPT ![t] = tables'[t]]
      BY <2>1, <2>2, Zenon
    <2>5. UNCHANGED load_from(file)
      BY <1>1 DEF Put, load_from
    <2>6. QED
      BY <2>3, <2>4, <2>5 DEF Promise!Put
  <1>2. ASSUME NEW w \in Writers, Snapshot(w) \/ Open(w) PROVE UNCHANGED Promise!vars
    BY <1>2 DEF Snapshot, Open, Promise!vars, load_from
  <1>3. ASSUME NEW w \in Writers, Write(w) \/ PersistFails(w)
        PROVE  UNCHANGED Promise!vars
    <2>1. fd[w] # "file"
      BY <1>3 DEF AloneInv
    <2>2. QED
      BY <1>3, <2>1 DEF Write, PersistFails, WriteTo, Promise!vars, load_from
  <1>4. ASSUME NEW w \in Writers, Rename(w) PROVE Promise!Checkpoint
    <2>1. tmp = Saved(snap[w]) /\ Persisting(w)
      BY <1>4 DEF Rename, AloneInv, Persisting
    <2>2. disk' = snap[w] /\ tables' = tables
      BY <1>4, <2>1 DEF Rename, Saved, load_from
    <2>3. \A t \in Tables : disk[t] <= snap[w][t] /\ snap[w][t] <= tables[t]
      BY <2>1 DEF AloneInv, AheadInv
    <2>4. QED
      BY <2>2, <2>3 DEF Promise!Checkpoint, Promise!Below
  <1>5. ASSUME Restart PROVE Promise!Restart
    BY <1>5 DEF Restart, Promise!Restart, load_from, AheadInv
  <1>6. ASSUME UNCHANGED storeVars PROVE UNCHANGED Promise!vars
    BY <1>6 DEF storeVars, Promise!vars, load_from
  <1>7. QED
    BY <1>1, <1>2, <1>3, <1>4, <1>5, <1>6 DEF StoreNext, PersistStep, Promise!Next

\* store.rs:1-6: unless persist() calls overlap, callers see the durable map
\* of DurableCatalog, for any number of writers, tables, failures and restarts.
THEOREM StoreKeepsPromise == StoreSpec => KeepsPromiseAlone
  <1>1. StoreInit => Promise!Init
    BY Loading DEF StoreInit, Promise!Init, Promise!NoTables, NoTables, Kinds
  <1>2. QED
    BY <1>1, PromiseStep, StoreInvariant, PTL DEF StoreSpec, KeepsPromiseAlone
===============================================================================
