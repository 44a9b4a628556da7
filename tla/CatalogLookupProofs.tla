-------------------------- MODULE CatalogLookupProofs --------------------------
(***************************************************************************)
(* What a lookup answers, and what stays frozen, for any number of tables, *)
(* tasks, shapes, changes and lookups, any passes, interval and clock.     *)
(*                                                                         *)
(* The tasks take the store's own steps, so that all that is proved of the *)
(* store holds of it here, too.  Beyond that the invariant follows an      *)
(* entry through every copy of the map that could become the map again     *)
(* (EntriesInv), and a task from its request to its answer (TaskInv).      *)
(* UncontendedInv and FrozenInv say why nothing is inferred twice.         *)
(***************************************************************************)
EXTENDS CatalogLookup, CatalogStoreProofs, SequenceTheorems

\* Every copy of the map: in memory, in the two files, and what threads are saving.
Held == {NoTables, tables, load_from(file), load_from(tmp)} \cup {snap[w] : w \in Writers}

\* Entry n tells of nothing table t has not contained.
Tells(n, t) == n \in 1 .. Len(entries) /\ entries[n].schema \subseteq ever[t]

Right(c) == \A t \in Tables : c[t] # 0 => Tells(c[t], t)

EntriesInv ==
    /\ Len(entries) = puts
    /\ \A c \in Held : Right(c)
    /\ \A t \in Tables : docs[t] \subseteq ever[t]

TaskInv ==
    \A w \in Writers :
        /\ want[w] = NoTable <=> step[w] = "idle"
        /\ pc[w] # "idle" => step[w] = "putting"
        /\ seen[w] # {} => step[w] \in {"random", "put"} /\ seen[w] \subseteq ever[want[w]]
        /\ step[w] \in {"putting", "served"} => Tells(got[w], want[w])

AbsentInv ==
    \A w \in Writers : steady[w] =>
        /\ want[w] \in exists
        /\ step[w] = "listed" => want[w] \in names[w]
        /\ step[w] = "absent" => misled[w]

\* The first pass of two shows a document unless there is none.
EmptyInv ==
    \A w \in Writers :
        /\ step[w] # "idle" /\ docs[want[w]] = {} => empty[w]
        /\ step[w] \in {"random", "put"} /\ seen[w] = {} => empty[w]
        /\ step[w] = "putting" /\ entries[got[w]].schema = Placeholder => empty[w]

\* A table without an entry is inferred by one task, and one with an entry by none.
UncontendedInv ==
    /\ \A v, w \in Writers, t \in Tables : Inferring(v, t) /\ Inferring(w, t) => v = w
    /\ \A w \in Writers :
          /\ step[w] \in {"recent", "random", "put"} => tables[want[w]] = 0
          /\ step[w] \in {"putting", "served"} => got[w] = tables[want[w]]
          /\ \A t \in Tables : planned[w][t] # 0 => planned[w][t] = tables[t]

\* What is on disk, or on its way there, is in memory.
FrozenInv ==
    \A t \in Tables :
        /\ load_from(file)[t] # 0 => load_from(file)[t] = tables[t]
        /\ \A w \in Writers : Persisting(w) /\ snap[w][t] # 0 => snap[w][t] = tables[t]

LookupInv ==
    /\ StoreInv
    /\ LookupTypeOK
    /\ EntriesInv
    /\ TaskInv
    /\ AbsentInv
    /\ "recent" \in Passes => EmptyInv
    /\ ~overlapped => acked = load_from(file)
    /\ Ttl = 0 /\ ~contended => UncontendedInv
    /\ Ttl = 0 /\ ~contended /\ ~overlapped => FrozenInv
-------------------------------------------------------------------------------
(***************************************************************************)
(* The tasks take the store's steps.                                       *)
(***************************************************************************)

\* A task that has been asked for something was asked for a table.
LEMMA WantedIsTable ==
    ASSUME LookupTypeOK, TaskInv, NEW w \in Writers, step[w] # "idle"
    PROVE  want[w] \in Tables
  BY DEF LookupTypeOK, TaskInv

LEMMA LookupStoreStep ==
    LookupTypeOK /\ TaskInv /\ [LookupNext]_lookupVars => [StoreNext]_storeVars
  <1> SUFFICES ASSUME LookupTypeOK, TaskInv, [LookupNext]_lookupVars
               PROVE  StoreNext \/ UNCHANGED storeVars
    OBVIOUS
  <1>1. ASSUME NEW w \in Writers, StorePut(w) PROVE StoreNext
    <2>1. want[w] \in Tables
      BY <1>1, WantedIsTable DEF StorePut
    <2>2. QED
      BY <1>1, <2>1 DEF StorePut, StoreNext
  <1>2. ASSUME NEW w \in Writers, Persist(w) PROVE StoreNext
    BY <1>2 DEF Persist, StoreNext
  <1>3. ASSUME NEW w \in Writers, TaskStep(w), ~StorePut(w), ~Persist(w)
        PROVE  UNCHANGED storeVars
    BY <1>3 DEF TaskStep, List, StoreListing, ListFails, Lookup, SampleRecent,
       SampleRecentFails, SampleRandom, SampleRandomFails, Observe, PutReturns, Return
  <1>4. ASSUME NEW w \in Writers, NEW t \in Tables,
               BeginSql(w, t) \/ BeginHttp(w, t) \/ BeginRefresh(w, t)
        PROVE  UNCHANGED storeVars
    BY <1>4 DEF BeginSql, BeginHttp, BeginRefresh, Begin
  <1>5. ASSUME NEW t \in Tables, Drop(t) \/ \E s \in Shapes : Insert(t, s)
        PROVE  UNCHANGED storeVars
    BY <1>5 DEF Drop, Insert
  <1>6. CASE SetClock
    BY <1>6 DEF SetClock
  <1>7. CASE GatewayRestart
    BY <1>7 DEF GatewayRestart, StoreNext
  <1>8. CASE UNCHANGED lookupVars
    BY <1>8 DEF lookupVars
  <1>9. QED
    BY <1>1, <1>2, <1>3, <1>4, <1>5, <1>6, <1>7, <1>8 DEF LookupNext
-------------------------------------------------------------------------------
(***************************************************************************)
(* Types.                                                                  *)
(***************************************************************************)

LEMMA ListingTypes ==
    /\ Unlisted \in [listed : BOOLEAN, names : SUBSET Tables]
    /\ \A ts \in SUBSET Tables : Listed(ts) \in [listed : BOOLEAN, names : SUBSET Tables]
  BY DEF Unlisted, Listed

LEMMA LookupTypeInit == LookupInit => LookupTypeOK
  <1> SUFFICES ASSUME LookupInit PROVE LookupTypeOK
    OBVIOUS
  <1>1. entries \in Seq(Entries)
    BY DEF LookupInit
  <1>2. changes \in 0 .. MaxChanges /\ lookups \in 0 .. MaxLookups /\ 0 \in Versions
    BY CatalogLookupAssumption, CatalogStoreAssumption DEF LookupInit, Versions
  <1>3. planned \in [Writers -> Catalogs]
    BY ContentTypes DEF LookupInit, AllIdle
  <1>4. listing \in [listed : BOOLEAN, names : SUBSET Tables]
    BY ListingTypes DEF LookupInit
  <1>5. QED
    BY <1>1, <1>2, <1>3, <1>4 DEF LookupInit, AllIdle, LookupTypeOK, Steps
\* What a pass observes are documents of the wanted collection.
LEMMA ObservedTypes ==
    ASSUME LookupTypeOK, TaskInv, NEW w \in Writers, step[w] # "idle",
           NEW shapes \in Drained(want[w]) \cup SUBSET docs[want[w]]
    PROVE  shapes \subseteq docs[want[w]] /\ shapes \subseteq Shapes
  BY WantedIsTable DEF LookupTypeOK, Drained

LEMMA LookupTypeStep ==
    TypeOK /\ LookupTypeOK /\ TaskInv /\ [LookupNext]_lookupVars => LookupTypeOK'
  <1> SUFFICES ASSUME TypeOK, LookupTypeOK, TaskInv, [LookupNext]_lookupVars
               PROVE  LookupTypeOK'
    OBVIOUS
  <1>1. ASSUME NEW t \in Tables, NEW s \in Shapes, Insert(t, s) PROVE LookupTypeOK'
    <2>1. changes' \in 0 .. MaxChanges
      BY <1>1, CatalogLookupAssumption DEF Insert, LookupTypeOK
    <2>2. QED
      BY <1>1, <2>1 DEF Insert, taskVars, LookupTypeOK
  <1>2. ASSUME NEW t \in Tables, Drop(t) PROVE LookupTypeOK'
    <2>1. changes' \in 0 .. MaxChanges
      BY <1>2, CatalogLookupAssumption DEF Drop, LookupTypeOK
    <2>2. QED
      BY <1>2, <2>1 DEF Drop, taskVars, LookupTypeOK
  <1>3. CASE SetClock
    BY <1>3 DEF SetClock, worldVars, taskVars, historyVars, LookupTypeOK
  <1>4. ASSUME NEW w \in Writers, NEW t \in Tables,
               BeginSql(w, t) \/ BeginHttp(w, t) \/ BeginRefresh(w, t)
        PROVE  LookupTypeOK'
    <2>1. lookups' \in 0 .. MaxLookups
      BY <1>4, CatalogLookupAssumption
      DEF BeginSql, BeginHttp, BeginRefresh, Begin, LookupTypeOK
    <2>2. step' \in [Writers -> Steps]
      BY <1>4 DEF BeginSql, BeginHttp, BeginRefresh, Goto, FirstPass, Steps, LookupTypeOK
    <2>3. contended' \in BOOLEAN
      BY <1>4 DEF BeginSql, BeginHttp, BeginRefresh, LookupTypeOK
    <2>4. Begin(w, t)
      BY <1>4 DEF BeginSql, BeginHttp, BeginRefresh
    <2>5. QED
      BY <2>1, <2>2, <2>3, <2>4 DEF Begin, worldVars, LookupTypeOK
  <1>5. ASSUME NEW w \in Writers, List(w) \/ ListFails(w) PROVE LookupTypeOK'
    BY <1>5 DEF List, ListFails, Goto, Steps, worldVars, historyVars, LookupTypeOK
  <1>6. ASSUME NEW w \in Writers, StoreListing(w) PROVE LookupTypeOK'
    <2>1. listing' \in [listed : BOOLEAN, names : SUBSET Tables]
      BY <1>6, ListingTypes DEF StoreListing, LookupTypeOK
    <2>2. QED
      BY <1>6, <2>1 DEF StoreListing, Goto, Steps, worldVars, historyVars, LookupTypeOK
  <1>7. ASSUME NEW w \in Writers, Lookup(w) PROVE LookupTypeOK'
    <2>1. get_fresh(want[w]) \in Versions
      BY <1>7, WantedIsTable, CatalogStoreAssumption
      DEF Lookup, get_fresh, TypeOK, Catalogs, Versions
    <2>2. step' \in [Writers -> Steps] /\ contended' \in BOOLEAN
      BY <1>7 DEF Lookup, Sample, Goto, FirstPass, Steps, LookupTypeOK
    <2>3. QED
      BY <1>7, <2>1, <2>2 DEF Lookup, worldVars, LookupTypeOK
  <1>8. ASSUME NEW w \in Writers,
               SampleRecent(w) \/ SampleRandom(w) \/ SampleRandomFails(w)
        PROVE  LookupTypeOK'
    <2>1. step' \in [Writers -> Steps]
      BY <1>8 DEF SampleRecent, SampleRandom, SampleRandomFails, Goto, Steps, LookupTypeOK
    <2>2. PICK shapes \in Drained(want[w]) \cup SUBSET docs[want[w]] : Observe(w, shapes)
      BY <1>8 DEF SampleRecent, SampleRandom, SampleRandomFails
    <2>3. shapes \subseteq Shapes
      BY <1>8, ObservedTypes DEF SampleRecent, SampleRandom, SampleRandomFails
    <2>4. QED
      BY <2>1, <2>2, <2>3 DEF Observe, worldVars, historyVars, LookupTypeOK
  <1>9. ASSUME NEW w \in Writers, SampleRecentFails(w) \/ PutReturns(w)
        PROVE  LookupTypeOK'
    BY <1>9 DEF SampleRecentFails, PutReturns, Goto, Steps, worldVars, historyVars,
                LookupTypeOK
  <1>10. ASSUME NEW w \in Writers, StorePut(w) PROVE LookupTypeOK'
    <2>1. puts' \in Versions
      BY <1>10, CatalogStoreAssumption DEF StorePut, Put, TypeOK, Versions
    <2>2. entries' \in Seq(Entries)
      <3>1. [schema |-> IF seen[w] = {} THEN Placeholder ELSE seen[w],
             inferred_at |-> now] \in Entries
        BY DEF LookupTypeOK, Entries, Schemas, Placeholder
      <3>2. QED
        BY <1>10, <3>1, AppendProperties DEF StorePut, LookupTypeOK
    <2>3. QED
      BY <1>10, <2>1, <2>2 DEF StorePut, Goto, Steps, worldVars, historyVars, LookupTypeOK
  <1>11. ASSUME NEW w \in Writers, Persist(w) PROVE LookupTypeOK'
    BY <1>11 DEF Persist, worldVars, taskVars, historyVars, LookupTypeOK
  <1>12. ASSUME NEW w \in Writers, Return(w) PROVE LookupTypeOK'
    <2>1. planned' \in [Writers -> Catalogs]
      BY <1>12 DEF Return, LookupTypeOK, Catalogs
    <2>2. QED
      BY <1>12, <2>1, CatalogStoreAssumption
      DEF Return, Goto, Steps, Versions, worldVars, LookupTypeOK
  <1>13. CASE GatewayRestart
    <2>1. listing' \in [listed : BOOLEAN, names : SUBSET Tables]
      BY <1>13, ListingTypes DEF GatewayRestart, LookupTypeOK
    <2>2. planned' \in [Writers -> Catalogs] /\ 0 \in Versions
      BY <1>13, ContentTypes, CatalogStoreAssumption DEF GatewayRestart, AllIdle, Versions
    <2>3. QED
      BY <1>13, <2>1, <2>2 DEF GatewayRestart, AllIdle, Steps, worldVars, LookupTypeOK
  <1>14. CASE UNCHANGED lookupVars
    BY <1>14 DEF lookupVars, worldVars, taskVars, historyVars, LookupTypeOK
  <1>15. QED
    BY <1>1, <1>2, <1>3, <1>4, <1>5, <1>6, <1>7, <1>8, <1>9, <1>10, <1>11, <1>12,
       <1>13, <1>14 DEF LookupNext, TaskStep
-------------------------------------------------------------------------------
(***************************************************************************)
(* What an entry tells.                                                    *)
(***************************************************************************)

\* No copy of the map comes from anywhere but another copy, except for a put.
LEMMA HeldStep ==
    ASSUME TypeOK, [StoreNext]_storeVars, UNCHANGED puts
    PROVE  Held' \subseteq Held
  <1> DEFINE Goal == Held' \subseteq Held
  <1>1. ASSUME NEW w \in Writers, NEW t \in Tables PROVE ~Put(w, t)
    BY Numbers DEF Put
  <1>2. ASSUME UNCHANGED <<file, tmp>>,
               tables' \in Held, \A v \in Writers : snap'[v] \in Held
        PROVE  Goal
    BY <1>2 DEF Held, load_from, NoTables
  <1>3. ASSUME NEW w \in Writers, Snapshot(w) PROVE Goal
    BY <1>2, <1>3 DEF Snapshot, TypeOK, Held
  <1>4. ASSUME UNCHANGED <<tables, snap>>,
               load_from(file)' \in Held, load_from(tmp)' \in Held
        PROVE  Goal
    BY <1>4 DEF Held, NoTables
  <1>5. ASSUME NEW w \in Writers, Open(w) PROVE Goal
    <2>1. load_from(file)' = load_from(file) /\ load_from(tmp)' = NoTables
      BY <1>5, Loading DEF Open, Kinds, load_from
    <2>2. QED
      BY <1>4, <1>5, <2>1 DEF Open, Held
  <1>6. ASSUME NEW w \in Writers, Write(w) PROVE Goal
    <2>1. load_from(file)' \in {load_from(file), snap[w], NoTables}
      BY <1>6, Writing DEF Write, WriteTo, TypeOK, load_from
    <2>2. load_from(tmp)' \in {load_from(tmp), snap[w], NoTables}
      BY <1>6, Writing DEF Write, WriteTo, TypeOK, load_from
    <2>3. QED
      BY <1>4, <1>6, <2>1, <2>2 DEF Write, Held
  <1>7. ASSUME NEW w \in Writers, Rename(w) PROVE Goal
    <2>1. load_from(file)' \in {load_from(file), load_from(tmp)}
      BY <1>7 DEF Rename, load_from
    <2>2. load_from(tmp)' \in {load_from(tmp), NoTables}
      BY <1>7, Loading DEF Rename, Kinds, load_from
    <2>3. QED
      BY <1>4, <1>7, <2>1, <2>2 DEF Rename, Held
  <1>8. ASSUME NEW w \in Writers, PersistFails(w) PROVE Goal
    <2>1. load_from(file)' \in {load_from(file), NoTables}
      BY <1>8, Loading DEF PersistFails, WriteTo, Kinds, load_from
    <2>2. load_from(tmp)' \in {load_from(tmp), NoTables}
      BY <1>8, Loading DEF PersistFails, WriteTo, Kinds, load_from
    <2>3. QED
      BY <1>4, <1>8, <2>1, <2>2 DEF PersistFails, Held
  <1>9. CASE Restart
    BY <1>2, <1>9 DEF Restart, Held
  <1>10. CASE UNCHANGED storeVars
    BY <1>2, <1>10 DEF storeVars, Held
  <1>11. QED
    BY <1>1, <1>3, <1>5, <1>6, <1>7, <1>8, <1>9, <1>10 DEF StoreNext, PersistStep

\* Only a put makes an entry, at the end of the sequence.
LEMMA EntriesKept ==
    ASSUME [LookupNext]_lookupVars
    PROVE  \/ UNCHANGED <<entries, puts>>
           \/ \E w \in Writers : StorePut(w)
  <1>1. ASSUME NEW w \in Writers, Persist(w) PROVE UNCHANGED <<entries, puts>>
    BY <1>1 DEF Persist, PersistStep, Snapshot, Open, Write, Rename, PersistFails
  <1>2. ASSUME NEW w \in Writers, TaskStep(w), ~StorePut(w), ~Persist(w)
        PROVE  UNCHANGED <<entries, puts>>
    BY <1>2 DEF TaskStep, List, StoreListing, ListFails, Lookup, SampleRecent,
       SampleRecentFails, SampleRandom, SampleRandomFails, Observe, PutReturns, Return,
       storeVars
  <1>3. QED
    BY <1>1, <1>2 DEF LookupNext, Drop, Insert, SetClock, BeginSql, BeginHttp, BeginRefresh,
                      Begin, GatewayRestart, Restart, lookupVars, storeVars
\* What a collection has contained it will always have contained.
LEMMA EverGrows ==
    ASSUME LookupTypeOK, [LookupNext]_lookupVars
    PROVE  \A t \in Tables : ever[t] \subseteq ever'[t]
  <1>1. ASSUME NEW w \in Writers, TaskStep(w) PROVE ever' = ever
    BY <1>1 DEF TaskStep, List, StoreListing, ListFails, Lookup, SampleRecent,
       SampleRecentFails, SampleRandom, SampleRandomFails, Observe, StorePut, Persist,
       PutReturns, Return, historyVars
  <1>2. ASSUME NEW u \in Tables, NEW s \in Shapes, Insert(u, s)
        PROVE  \A t \in Tables : ever[t] \subseteq ever'[t]
    BY <1>2 DEF Insert, LookupTypeOK
  <1>3. QED
    BY <1>1, <1>2 DEF LookupNext, Drop, SetClock, BeginSql, BeginHttp, BeginRefresh,
                      Begin, GatewayRestart, lookupVars, historyVars

\* The entry a put stores.
LEMMA NewEntry ==
    ASSUME LookupTypeOK, NEW w \in Writers, StorePut(w)
    PROVE  /\ Len(entries') = Len(entries) + 1
           /\ \A n \in 1 .. Len(entries) : entries'[n] = entries[n]
           /\ entries'[Len(entries) + 1].schema = seen[w]
  <1> DEFINE new == [schema |-> IF seen[w] = {} THEN Placeholder ELSE seen[w],
                     inferred_at |-> now]
  <1>1. new \in Entries /\ new.schema = seen[w]
    BY DEF LookupTypeOK, Entries, Schemas, Placeholder
  <1>2. entries' = Append(entries, new) /\ entries \in Seq(Entries)
    BY DEF StorePut, LookupTypeOK
  <1> HIDE DEF new
  <1>3. QED
    BY <1>1, <1>2, AppendProperties

\* An entry keeps telling nothing but what its table has contained.
LEMMA TellsStays ==
    ASSUME LookupTypeOK, [LookupNext]_lookupVars, NEW t \in Tables, NEW n, Tells(n, t)
    PROVE  Tells(n, t)'
  <1>1. Len(entries) \in Nat
    BY LenProperties DEF LookupTypeOK
  <1>2. n \in 1 .. Len(entries') /\ entries'[n] = entries[n]
    BY <1>1, EntriesKept, NewEntry DEF Tells
  <1>3. QED
    BY <1>2, EverGrows DEF Tells

\* What is put was seen in the collection, and is what the task answers with.
LEMMA PutTells ==
    ASSUME TypeOK, LookupTypeOK, EntriesInv, TaskInv, NEW w \in Writers, StorePut(w)
    PROVE  puts' = Len(entries') /\ Tells(puts, want[w])'
  <1>1. puts' = Len(entries) + 1 /\ puts \in Nat /\ Len(entries) \in Nat
    BY Numbers DEF StorePut, Put, EntriesInv
  <1>2. seen[w] \subseteq ever[want[w]]
    BY DEF TaskInv
  <1>3. UNCHANGED <<ever, want>>
    BY DEF StorePut, historyVars
  <1>4. QED
    BY <1>1, <1>2, <1>3, NewEntry DEF Tells

LEMMA EntriesInit == LookupInit => EntriesInv
  <1> SUFFICES ASSUME LookupInit PROVE EntriesInv
    OBVIOUS
  <1>1. Len(entries) = puts
    BY DEF LookupInit, StoreInit
  <1>2. \A c \in Held : c = NoTables
    BY Loading DEF LookupInit, StoreInit, Held, Kinds
  <1>3. Right(NoTables)
    BY Loading DEF Right
  <1>4. QED
    BY <1>1, <1>2, <1>3 DEF LookupInit, EntriesInv

LEMMA EntriesStep ==
    TypeOK /\ LookupTypeOK /\ EntriesInv /\ TaskInv /\ [LookupNext]_lookupVars
    => EntriesInv'
  <1> SUFFICES ASSUME TypeOK, LookupTypeOK, EntriesInv, TaskInv, [LookupNext]_lookupVars
               PROVE  EntriesInv'
    OBVIOUS
  <1>1. \A c : Right(c) => Right(c)'
    BY TellsStays DEF Right
  <1>2. \A t \in Tables : docs'[t] \subseteq ever'[t]
    <2>1. ASSUME NEW w \in Writers, TaskStep(w) PROVE docs' = docs /\ ever' = ever
      BY <2>1 DEF TaskStep, List, StoreListing, ListFails, Lookup, SampleRecent,
         SampleRecentFails, SampleRandom, SampleRandomFails, Observe, StorePut, Persist,
         PutReturns, Return, worldVars, historyVars
    <2>2. ASSUME NEW u \in Tables, NEW s \in Shapes, Insert(u, s)
          PROVE  \A t \in Tables : docs'[t] \subseteq ever'[t]
      BY <2>2 DEF Insert, LookupTypeOK, EntriesInv
    <2>3. ASSUME NEW u \in Tables, Drop(u)
          PROVE  \A t \in Tables : docs'[t] \subseteq ever'[t]
      BY <2>3 DEF Drop, LookupTypeOK, EntriesInv
    <2>4. QED
      BY <2>1, <2>2, <2>3
      DEF EntriesInv, LookupNext, SetClock, BeginSql, BeginHttp, BeginRefresh, Begin,
          GatewayRestart, lookupVars, worldVars, historyVars
  <1>3. ASSUME NEW w \in Writers, StorePut(w) PROVE EntriesInv'
    <2>1. Put(w, want[w]) /\ want[w] \in Tables /\ want' = want
      BY <1>3, WantedIsTable DEF StorePut
    <2>2. tables' = [tables EXCEPT ![want[w]] = puts']
      BY <2>1 DEF Put
    <2>3. Right(tables)'
      <3>1. Right(tables) /\ Tells(puts, want[w])'
        BY <1>3, PutTells DEF EntriesInv, Held
      <3>2. ASSUME NEW t \in Tables, tables'[t] # 0 PROVE Tells(tables[t], t)'
        <4>1. CASE t = want[w]
          BY <2>1, <2>2, <3>1, <4>1 DEF TypeOK, Catalogs, Tells
        <4>2. CASE t # want[w]
          BY <2>2, <3>1, <3>2, <4>2, TellsStays DEF Right, TypeOK, Catalogs, Tells
        <4>3. QED
          BY <4>1, <4>2
      <3>3. QED
        BY <3>2 DEF Right
    <2>4. Held' \subseteq Held \cup {tables'}
      BY <2>1 DEF Put, Held, load_from, NoTables
    <2>5. QED
      BY <1>1, <1>2, <1>3, <2>3, <2>4, PutTells DEF EntriesInv
  <1>4. ASSUME \A w \in Writers : ~StorePut(w) PROVE EntriesInv'
    <2>1. UNCHANGED <<entries, puts>>
      BY <1>4, EntriesKept
    <2>2. Held' \subseteq Held
      BY <2>1, HeldStep, LookupStoreStep
    <2>3. QED
      BY <1>1, <1>2, <2>1, <2>2 DEF EntriesInv
  <1>5. QED
    BY <1>3, <1>4
-------------------------------------------------------------------------------
(***************************************************************************)
(* Every task from its request to its answer.                              *)
(***************************************************************************)

LEMMA TaskInit == LookupInit => TaskInv
  BY DEF LookupInit, StoreInit, AllIdle, TaskInv

LEMMA TaskInvStep ==
    TypeOK /\ LookupTypeOK /\ EntriesInv /\ TaskInv /\ [LookupNext]_lookupVars
    => TaskInv'
  <1> SUFFICES ASSUME TypeOK, LookupTypeOK, EntriesInv, TaskInv, [LookupNext]_lookupVars
               PROVE  TaskInv'
    OBVIOUS
  <1> DEFINE Fine(v) == /\ want[v] = NoTable <=> step[v] = "idle"
                        /\ pc[v] # "idle" => step[v] = "putting"
                        /\ seen[v] # {} => /\ step[v] \in {"random", "put"}
                                           /\ seen[v] \subseteq ever[want[v]]
                        /\ step[v] \in {"putting", "served"} => Tells(got[v], want[v])
  \* A task that takes no step is none the worse for the others' steps.
  <1>1. ASSUME NEW v \in Writers, step'[v] = step[v], want'[v] = want[v],
               seen'[v] = seen[v], got'[v] = got[v],
               pc'[v] # "idle" => step[v] = "putting"
        PROVE  Fine(v)'
    <2>1. ASSUME step[v] # "idle"
          PROVE  ever[want[v]] \subseteq ever'[want[v]] /\ want[v] \in Tables
      BY <2>1, WantedIsTable, EverGrows
    <2>2. step[v] \in {"putting", "served"} => Tells(got[v], want[v])'
      <3>1. SUFFICES ASSUME step[v] \in {"putting", "served"}
                     PROVE  Tells(got[v], want[v])'
        OBVIOUS
      <3>2. Tells(got[v], want[v]) /\ want[v] \in Tables
        BY <2>1, <3>1 DEF TaskInv
      <3>3. QED
        BY <1>1, <3>2, TellsStays DEF Tells
    <2>3. QED
      BY <1>1, <2>1, <2>2 DEF TaskInv
  <1>2. ASSUME UNCHANGED taskVars, UNCHANGED pc PROVE TaskInv'
    <2>1. \A v \in Writers : Fine(v)'
      BY <1>1, <1>2 DEF taskVars, TaskInv
    <2>2. QED
      BY <2>1 DEF TaskInv
  <1>3. ASSUME NEW w \in Writers, Fine(w)',
               \A v \in Writers \ {w} : /\ step'[v] = step[v] /\ want'[v] = want[v]
                                        /\ seen'[v] = seen[v] /\ got'[v] = got[v]
                                        /\ pc'[v] = pc[v]
        PROVE  TaskInv'
    <2>1. \A v \in Writers : Fine(v)'
      BY <1>1, <1>3 DEF TaskInv
    <2>2. QED
      BY <2>1 DEF TaskInv
  <1> HIDE DEF Fine
  <1>4. ASSUME NEW w \in Writers, NEW t \in Tables,
               BeginSql(w, t) \/ BeginHttp(w, t) \/ BeginRefresh(w, t)
        PROVE  TaskInv'
    <2>1. /\ step' = [step EXCEPT ![w] = step'[w]] /\ want' = [want EXCEPT ![w] = t]
          /\ UNCHANGED <<pc, seen, got>>
      BY <1>4 DEF BeginSql, BeginHttp, BeginRefresh, Begin, Goto, storeVars, LookupTypeOK
    <2>2. step'[w] \in {"list", "lookup", "recent", "random"} /\ step[w] = "idle"
      BY <1>4 DEF BeginSql, BeginHttp, BeginRefresh, Begin, Goto, FirstPass, LookupTypeOK
    <2>3. Fine(w)'
      BY <2>1, <2>2, CatalogLookupAssumption DEF Fine, TaskInv, LookupTypeOK
    <2>4. QED
      BY <1>3, <2>1, <2>3 DEF LookupTypeOK
  <1>5. ASSUME NEW w \in Writers,
               List(w) \/ StoreListing(w) \/ ListFails(w) \/ SampleRecentFails(w)
        PROVE  TaskInv'
    <2>1. /\ step' = [step EXCEPT ![w] = step'[w]] /\ UNCHANGED <<pc, want, seen, got>>
      BY <1>5 DEF List, StoreListing, ListFails, SampleRecentFails, Goto, storeVars,
                  LookupTypeOK
    <2>2. /\ step'[w] \in {"listed", "lookup", "absent", "failed"}
          /\ step[w] \in {"list", "listed", "recent"}
      BY <1>5 DEF List, StoreListing, ListFails, SampleRecentFails, Goto, LookupTypeOK
    <2>3. Fine(w)'
      BY <2>1, <2>2 DEF Fine, TaskInv, LookupTypeOK
    <2>4. QED
      BY <1>3, <2>1, <2>3 DEF LookupTypeOK
  <1>6. ASSUME NEW w \in Writers, Lookup(w) PROVE TaskInv'
    <2>1. /\ step' = [step EXCEPT ![w] = step'[w]] /\ got' = [got EXCEPT ![w] = got'[w]]
          /\ UNCHANGED <<pc, want, seen, entries, ever>> /\ step[w] = "lookup"
      BY <1>6 DEF Lookup, Sample, Goto, storeVars, worldVars, LookupTypeOK
    <2>2. \/ step'[w] \in {"recent", "random"}
          \/ step'[w] = "served" /\ got'[w] = tables[want[w]] /\ tables[want[w]] # 0
      BY <1>6 DEF Lookup, Sample, Goto, FirstPass, get_fresh, LookupTypeOK
    <2>3. want[w] \in Tables
      BY <2>1, WantedIsTable
    <2>4. step'[w] = "served" => Tells(got'[w], want[w])
      BY <2>2, <2>3 DEF EntriesInv, Held, Right
    <2>5. Fine(w)'
      BY <2>1, <2>2, <2>4 DEF Fine, TaskInv, LookupTypeOK, Tells
    <2>6. QED
      BY <1>3, <2>1, <2>5 DEF LookupTypeOK
  <1>7. ASSUME NEW w \in Writers,
               SampleRecent(w) \/ SampleRandom(w) \/ SampleRandomFails(w)
        PROVE  TaskInv'
    <2>1. step[w] \in {"recent", "random"} /\ step'[w] \in {"random", "put"}
      BY <1>7 DEF SampleRecent, SampleRandom, SampleRandomFails, Goto, LookupTypeOK
    <2>2. PICK shapes \in Drained(want[w]) \cup SUBSET docs[want[w]] : Observe(w, shapes)
      BY <1>7 DEF SampleRecent, SampleRandom, SampleRandomFails
    <2>3. want[w] \in Tables /\ shapes \subseteq docs[want[w]]
      BY <2>1, WantedIsTable, ObservedTypes
    <2>4. shapes \subseteq ever[want[w]]
      BY <2>3 DEF EntriesInv
    <2>5. /\ step' = [step EXCEPT ![w] = step'[w]]
          /\ seen' = [seen EXCEPT ![w] = @ \cup shapes]
          /\ UNCHANGED <<pc, want, got, ever>>
      BY <1>7, <2>2
      DEF SampleRecent, SampleRandom, SampleRandomFails, Observe, Goto, storeVars,
          historyVars, LookupTypeOK
    <2>6. Fine(w)'
      BY <2>1, <2>4, <2>5 DEF Fine, TaskInv, LookupTypeOK
    <2>7. QED
      BY <1>3, <2>5, <2>6 DEF LookupTypeOK
  <1>8. ASSUME NEW w \in Writers, StorePut(w) PROVE TaskInv'
    <2>1. /\ step' = [step EXCEPT ![w] = "putting"] /\ got' = [got EXCEPT ![w] = puts']
          /\ seen' = [seen EXCEPT ![w] = {}] /\ want' = want /\ step[w] = "put"
      BY <1>8 DEF StorePut, Goto
    <2>2. /\ pc' = [pc EXCEPT ![w] = pc'[w]]
      BY <1>8 DEF StorePut, Put, TypeOK
    <2>3. Tells(puts, want[w])'
      BY <1>8, PutTells
    <2>4. Fine(w)'
      BY <2>1, <2>3 DEF Fine, TaskInv, LookupTypeOK, Tells
    <2>5. QED
      BY <1>3, <2>1, <2>2, <2>4 DEF LookupTypeOK, TypeOK
  <1>9. ASSUME NEW w \in Writers, Persist(w) PROVE TaskInv'
    <2>1. /\ UNCHANGED taskVars /\ step[w] = "putting"
          /\ \A v \in Writers : v # w => pc'[v] = pc[v]
      BY <1>9 DEF Persist, PersistStep, Snapshot, Open, Write, Rename, PersistFails, TypeOK
    <2>2. \A v \in Writers : Fine(v)'
      BY <1>1, <2>1 DEF taskVars, TaskInv, Fine
    <2>3. QED
      BY <2>2 DEF TaskInv, Fine
  <1>10. ASSUME NEW w \in Writers, PutReturns(w) PROVE TaskInv'
    <2>1. /\ step' = [step EXCEPT ![w] = "served"] /\ UNCHANGED <<pc, want, seen, got>>
          /\ UNCHANGED <<entries, ever>> /\ step[w] = "putting" /\ pc[w] = "idle"
      BY <1>10 DEF PutReturns, Goto, storeVars, historyVars
    <2>2. Fine(w)'
      BY <2>1 DEF Fine, TaskInv, LookupTypeOK, Tells
    <2>3. QED
      BY <1>3, <2>1, <2>2 DEF LookupTypeOK
  <1>11. ASSUME NEW w \in Writers, Return(w) PROVE TaskInv'
    <2>1. /\ step' = [step EXCEPT ![w] = "idle"] /\ want' = [want EXCEPT ![w] = NoTable]
          /\ seen' = [seen EXCEPT ![w] = {}] /\ got' = [got EXCEPT ![w] = 0]
          /\ pc' = pc /\ step[w] \in {"served", "absent", "failed"}
      BY <1>11 DEF Return, Goto, storeVars
    <2>2. Fine(w)'
      BY <2>1 DEF Fine, TaskInv, LookupTypeOK
    <2>3. QED
      BY <1>3, <2>1, <2>2 DEF LookupTypeOK
  <1>12. CASE GatewayRestart
    BY <1>12 DEF GatewayRestart, Restart, AllIdle, TaskInv
  <1>13. CASE SetClock \/ UNCHANGED lookupVars \/ \E t \in Tables :
                  Drop(t) \/ \E s \in Shapes : Insert(t, s)
    <2>1. UNCHANGED taskVars /\ UNCHANGED pc
      BY <1>13 DEF SetClock, lookupVars, Drop, Insert, storeVars
    <2>2. QED
      BY <1>2, <2>1
  <1>14. QED
    BY <1>4, <1>5, <1>6, <1>7, <1>8, <1>9, <1>10, <1>11, <1>12, <1>13
    DEF LookupNext, TaskStep
-------------------------------------------------------------------------------
(***************************************************************************)
(* "No such table".                                                        *)
(***************************************************************************)

LEMMA AbsentInit == LookupInit => AbsentInv
  BY DEF LookupInit, AllIdle, AbsentInv

LEMMA AbsentStep ==
    LookupTypeOK /\ TaskInv /\ AbsentInv /\ [LookupNext]_lookupVars => AbsentInv'
  <1> SUFFICES ASSUME LookupTypeOK, TaskInv, AbsentInv, [LookupNext]_lookupVars
               PROVE  AbsentInv'
    OBVIOUS
  <1>1. ASSUME NEW w \in Writers, NEW t \in Tables,
               BeginSql(w, t) \/ BeginHttp(w, t) \/ BeginRefresh(w, t)
        PROVE  AbsentInv'
    <2>1. step'[w] \notin {"listed", "absent"} /\ \A v \in Writers \ {w} : step'[v] = step[v]
      BY <1>1 DEF BeginSql, BeginHttp, BeginRefresh, Goto, FirstPass, LookupTypeOK
    <2>2. Begin(w, t)
      BY <1>1 DEF BeginSql, BeginHttp, BeginRefresh
    <2>3. QED
      BY <2>1, <2>2 DEF Begin, worldVars, AbsentInv, LookupTypeOK
  <1>2. ASSUME NEW w \in Writers, List(w) \/ StoreListing(w) \/ ListFails(w)
        PROVE  AbsentInv'
    BY <1>2 DEF List, StoreListing, ListFails, Goto, worldVars, historyVars, AbsentInv,
                LookupTypeOK
  <1>3. ASSUME NEW w \in Writers,
               step'[w] \notin {"listed", "absent"},
               \A v \in Writers \ {w} : step'[v] = step[v],
               UNCHANGED <<steady, misled, want, names, exists>>
        PROVE  AbsentInv'
    BY <1>3 DEF AbsentInv
  <1>4. ASSUME NEW w \in Writers,
               \/ Lookup(w) \/ SampleRecent(w) \/ SampleRecentFails(w) \/ SampleRandom(w)
               \/ SampleRandomFails(w) \/ StorePut(w) \/ Persist(w) \/ PutReturns(w)
        PROVE  AbsentInv'
    <2>1. step'[w] \notin {"listed", "absent"} /\ \A v \in Writers \ {w} : step'[v] = step[v]
      BY <1>4 DEF Lookup, Sample, FirstPass, SampleRecent, SampleRecentFails, SampleRandom,
         SampleRandomFails, StorePut, Persist, PutReturns, Goto, taskVars, LookupTypeOK
    <2>2. UNCHANGED <<steady, misled, want, names, exists>>
      BY <1>4 DEF Lookup, SampleRecent, SampleRecentFails, SampleRandom, SampleRandomFails,
         Observe, StorePut, Persist, PutReturns, taskVars, worldVars, historyVars
    <2>3. QED
      BY <1>3, <2>1, <2>2
  <1>5. ASSUME NEW w \in Writers, Return(w) PROVE AbsentInv'
    BY <1>5 DEF Return, Goto, worldVars, AbsentInv, LookupTypeOK
  <1>6. ASSUME NEW t \in Tables, Drop(t) PROVE AbsentInv'
    BY <1>6 DEF Drop, taskVars, AbsentInv, LookupTypeOK
  <1>7. ASSUME NEW t \in Tables, NEW s \in Shapes, Insert(t, s) PROVE AbsentInv'
    BY <1>7 DEF Insert, taskVars, AbsentInv
  <1>8. CASE GatewayRestart
    BY <1>8 DEF GatewayRestart, AllIdle, AbsentInv
  <1>9. CASE SetClock \/ UNCHANGED lookupVars
    BY <1>9 DEF SetClock, lookupVars, worldVars, taskVars, historyVars, AbsentInv
  <1>10. QED
    BY <1>1, <1>2, <1>4, <1>5, <1>6, <1>7, <1>8, <1>9 DEF LookupNext, TaskStep
-------------------------------------------------------------------------------
(***************************************************************************)
(* The placeholder schema.                                                 *)
(***************************************************************************)

LEMMA EmptyInit == LookupInit => EmptyInv
  BY DEF LookupInit, AllIdle, EmptyInv

LEMMA EmptyStep ==
    ASSUME TypeOK, LookupTypeOK, EntriesInv, TaskInv, "recent" \in Passes, EmptyInv,
           [LookupNext]_lookupVars
    PROVE  EmptyInv'
  <1> DEFINE Fine(v) ==
        /\ step[v] # "idle" /\ docs[want[v]] = {} => empty[v]
        /\ step[v] \in {"random", "put"} /\ seen[v] = {} => empty[v]
        /\ step[v] = "putting" /\ entries[got[v]].schema = Placeholder => empty[v]
  \* A put stores a new entry and leaves the others as they are.
  <1>1. ASSUME NEW v \in Writers, step[v] = "putting" PROVE entries'[got[v]] = entries[got[v]]
    <2>1. got[v] \in 1 .. Len(entries)
      BY <1>1 DEF TaskInv, Tells
    <2>2. QED
      BY <2>1, EntriesKept, NewEntry
  <1>2. ASSUME NEW v \in Writers, step'[v] = step[v], UNCHANGED docs,
               want'[v] = want[v], seen'[v] = seen[v], got'[v] = got[v], empty'[v] = empty[v]
        PROVE  Fine(v)'
    BY <1>1, <1>2 DEF EmptyInv
  <1>3. ASSUME NEW w \in Writers, Fine(w)', UNCHANGED docs,
               \A v \in Writers \ {w} :
                   /\ step'[v] = step[v] /\ want'[v] = want[v] /\ seen'[v] = seen[v]
                   /\ got'[v] = got[v] /\ empty'[v] = empty[v]
        PROVE  EmptyInv'
    <2>1. \A v \in Writers : Fine(v)'
      BY <1>2, <1>3
    <2>2. QED
      BY <2>1 DEF EmptyInv
  <1>4. ASSUME UNCHANGED taskVars, UNCHANGED <<docs, empty>> PROVE EmptyInv'
    <2>1. \A v \in Writers : Fine(v)'
      BY <1>2, <1>4 DEF taskVars
    <2>2. QED
      BY <2>1 DEF EmptyInv
  <1> HIDE DEF Fine
  <1>5. ASSUME NEW w \in Writers, NEW t \in Tables,
               BeginSql(w, t) \/ BeginHttp(w, t) \/ BeginRefresh(w, t)
        PROVE  EmptyInv'
    <2>1. /\ step' = [step EXCEPT ![w] = step'[w]]
          /\ step'[w] \notin {"random", "put", "putting"}
      BY <1>5 DEF BeginSql, BeginHttp, BeginRefresh, Goto, FirstPass, LookupTypeOK
    <2>2. Begin(w, t)
      BY <1>5 DEF BeginSql, BeginHttp, BeginRefresh
    <2>3. Fine(w)'
      BY <2>1, <2>2 DEF Begin, worldVars, Fine, LookupTypeOK
    <2>4. QED
      BY <1>3, <2>1, <2>2, <2>3 DEF Begin, worldVars, LookupTypeOK
  <1>6. ASSUME NEW w \in Writers, step[w] # "idle",
               step' = [step EXCEPT ![w] = step'[w]],
               step'[w] \notin {"random", "put", "putting"},
               UNCHANGED <<docs, want, seen, empty>>,
               \A v \in Writers \ {w} : got'[v] = got[v]
        PROVE  EmptyInv'
    <2>1. Fine(w)'
      BY <1>6 DEF Fine, EmptyInv
    <2>2. QED
      BY <1>3, <1>6, <2>1 DEF LookupTypeOK
  <1>7. ASSUME NEW w \in Writers,
               \/ List(w) \/ StoreListing(w) \/ ListFails(w) \/ Lookup(w)
               \/ SampleRecentFails(w) \/ PutReturns(w)
        PROVE  EmptyInv'
    <2>1. /\ step[w] # "idle" /\ step' = [step EXCEPT ![w] = step'[w]]
          /\ step'[w] \notin {"random", "put", "putting"}
      BY <1>7 DEF List, StoreListing, ListFails, Lookup, Sample, FirstPass,
         SampleRecentFails, PutReturns, Goto, LookupTypeOK
    <2>2. /\ UNCHANGED <<docs, want, seen, empty>>
          /\ \A v \in Writers \ {w} : got'[v] = got[v]
      BY <1>7 DEF List, StoreListing, ListFails, Lookup, SampleRecentFails, PutReturns,
         worldVars, historyVars, LookupTypeOK
    <2>3. QED
      BY <1>6, <2>1, <2>2
  <1>8. ASSUME NEW w \in Writers,
               SampleRecent(w) \/ SampleRandom(w) \/ SampleRandomFails(w)
        PROVE  EmptyInv'
    <2>1. PICK shapes \in Drained(want[w]) \cup SUBSET docs[want[w]] :
              /\ Observe(w, shapes)
              /\ step[w] = "recent" => shapes \in Drained(want[w])
      BY <1>8 DEF SampleRecent, SampleRandom, SampleRandomFails
    <2>2. /\ step[w] \in {"recent", "random"} /\ step'[w] \in {"random", "put"}
          /\ step' = [step EXCEPT ![w] = step'[w]]
      BY <1>8 DEF SampleRecent, SampleRandom, SampleRandomFails, Goto, LookupTypeOK
    <2>3. /\ UNCHANGED <<docs, want, got, empty>>
          /\ seen' = [seen EXCEPT ![w] = @ \cup shapes]
      BY <2>1 DEF Observe, worldVars, historyVars
    <2>4. step[w] = "recent" /\ shapes = {} => docs[want[w]] = {}
      BY <2>1 DEF Drained
    <2>5. seen'[w] = {} => empty[w]
      BY <2>2, <2>3, <2>4 DEF EmptyInv, LookupTypeOK
    <2>6. Fine(w)'
      BY <2>2, <2>3, <2>5 DEF Fine, EmptyInv
    <2>7. QED
      BY <1>3, <2>2, <2>3, <2>6 DEF LookupTypeOK
  <1>9. ASSUME NEW w \in Writers, StorePut(w) PROVE EmptyInv'
    <2>1. /\ step' = [step EXCEPT ![w] = "putting"] /\ got' = [got EXCEPT ![w] = puts']
          /\ seen' = [seen EXCEPT ![w] = {}] /\ step[w] = "put"
          /\ UNCHANGED <<docs, want, empty>>
      BY <1>9 DEF StorePut, Goto, worldVars, historyVars
    <2>2. entries'[puts'].schema = seen[w]
      <3>1. puts' = Len(entries) + 1
        BY <1>9 DEF StorePut, Put, EntriesInv
      <3>2. QED
        BY <1>9, <3>1, NewEntry
    <2>3. Fine(w)'
      BY <2>1, <2>2 DEF Fine, EmptyInv, LookupTypeOK, Placeholder
    <2>4. QED
      BY <1>3, <2>1, <2>3 DEF LookupTypeOK
  <1>10. ASSUME NEW w \in Writers, Return(w) PROVE EmptyInv'
    <2>1. /\ step' = [step EXCEPT ![w] = "idle"] /\ want' = [want EXCEPT ![w] = NoTable]
          /\ seen' = [seen EXCEPT ![w] = {}] /\ got' = [got EXCEPT ![w] = 0]
          /\ empty' = [empty EXCEPT ![w] = FALSE] /\ docs' = docs
      BY <1>10 DEF Return, Goto, worldVars
    <2>2. Fine(w)'
      BY <2>1 DEF Fine, LookupTypeOK
    <2>3. QED
      BY <1>3, <2>1, <2>2 DEF LookupTypeOK
  <1>11. ASSUME NEW t \in Tables, Drop(t) PROVE EmptyInv'
    <2>1. /\ UNCHANGED <<step, want, seen, got, entries>>
          /\ docs' = [docs EXCEPT ![t] = {}]
          /\ \A v \in Writers : empty'[v] = (empty[v] \/ (step[v] # "idle" /\ want[v] = t))
      BY <1>11 DEF Drop, taskVars
    <2>2. ASSUME NEW v \in Writers PROVE Fine(v)'
      <3>1. step[v] # "idle" /\ want[v] # t => docs'[want[v]] = docs[want[v]]
        BY <2>1, WantedIsTable DEF LookupTypeOK
      <3>2. QED
        BY <2>1, <3>1 DEF Fine, EmptyInv
    <2>3. QED
      BY <2>2 DEF EmptyInv, Fine
  <1>12. ASSUME NEW t \in Tables, NEW s \in Shapes, Insert(t, s) PROVE EmptyInv'
    BY <1>12, WantedIsTable DEF Insert, taskVars, EmptyInv, LookupTypeOK
  <1>13. CASE GatewayRestart
    BY <1>13 DEF GatewayRestart, AllIdle, EmptyInv
  <1>14. CASE SetClock \/ UNCHANGED lookupVars \/ \E w \in Writers : Persist(w)
    BY <1>4, <1>14 DEF SetClock, Persist, lookupVars, worldVars, historyVars
  <1>15. QED
    BY <1>5, <1>7, <1>8, <1>9, <1>10, <1>11, <1>12, <1>13, <1>14 DEF LookupNext, TaskStep
-------------------------------------------------------------------------------
(***************************************************************************)
(* No table is inferred twice.                                             *)
(***************************************************************************)

\* Only a put and a restart change the map.
LEMMA TablesKept ==
    ASSUME [LookupNext]_lookupVars
    PROVE  UNCHANGED tables \/ GatewayRestart \/ \E w \in Writers : StorePut(w)
  <1>1. ASSUME NEW w \in Writers, Persist(w) PROVE UNCHANGED tables
    BY <1>1 DEF Persist, PersistStep, Snapshot, Open, Write, Rename, PersistFails
  <1>2. ASSUME NEW w \in Writers, TaskStep(w), ~StorePut(w), ~Persist(w)
        PROVE  UNCHANGED tables
    BY <1>2 DEF TaskStep, List, StoreListing, ListFails, Lookup, SampleRecent,
       SampleRecentFails, SampleRandom, SampleRandomFails, Observe, PutReturns, Return,
       storeVars
  <1>3. QED
    BY <1>1, <1>2 DEF LookupNext, Drop, Insert, SetClock, BeginSql, BeginHttp, BeginRefresh,
                      Begin, lookupVars, storeVars

\* "contended" is never taken back.
LEMMA ContentionIsForever ==
    LookupTypeOK /\ [LookupNext]_lookupVars /\ contended => contended'
  <1> SUFFICES ASSUME LookupTypeOK, [LookupNext]_lookupVars, contended PROVE contended'
    OBVIOUS
  <1>1. ASSUME NEW w \in Writers, TaskStep(w) PROVE contended'
    BY <1>1 DEF TaskStep, List, StoreListing, ListFails, Lookup, Sample, SampleRecent,
       SampleRecentFails, SampleRandom, SampleRandomFails, Observe, StorePut, Persist,
       PutReturns, Return, historyVars
  <1>2. QED
    BY <1>1 DEF LookupNext, Drop, Insert, SetClock, BeginSql, BeginHttp, BeginRefresh,
                GatewayRestart, lookupVars, historyVars

LEMMA UncontendedInit == LookupInit => UncontendedInv
  BY Loading DEF LookupInit, AllIdle, Inferring, UncontendedInv

LEMMA UncontendedStep ==
    ASSUME TypeOK, LookupTypeOK, EntriesInv, TaskInv, UncontendedInv, Ttl = 0,
           [LookupNext]_lookupVars, ~contended'
    PROVE  UncontendedInv'
  <1> DEFINE Fine(v) ==
        /\ step[v] \in {"recent", "random", "put"} => tables[want[v]] = 0
        /\ step[v] \in {"putting", "served"} => got[v] = tables[want[v]]
        /\ \A t \in Tables : planned[v][t] # 0 => planned[v][t] = tables[t]
  <1> DEFINE Once == \A v, w \in Writers, t \in Tables :
                         Inferring(v, t) /\ Inferring(w, t) => v = w
  <1>0. Once' /\ (\A v \in Writers : Fine(v)') => UncontendedInv'
    BY DEF UncontendedInv
  <1>1. ASSUME NEW v \in Writers, step'[v] = step[v], want'[v] = want[v],
               got'[v] = got[v], planned'[v] = planned[v], tables' = tables
        PROVE  Fine(v)'
    BY <1>1 DEF UncontendedInv
  \* A task that neither begins nor ends to infer a table leaves that to the others.
  <1>2. ASSUME \A v \in Writers, t \in Tables : Inferring(v, t)' => Inferring(v, t)
        PROVE  Once'
    BY <1>2 DEF UncontendedInv
  <1> HIDE DEF Fine
  <1>3. ASSUME NEW w \in Writers, step' = [step EXCEPT ![w] = step'[w]],
               step'[w] \in {"recent", "random", "put", "putting"} =>
                   step[w] \in {"recent", "random", "put", "putting"},
               UNCHANGED <<tables, want, planned>>, \A v \in Writers \ {w} : got'[v] = got[v],
               Fine(w)'
        PROVE  UncontendedInv'
    <2>1. \A v \in Writers : step'[v] = IF v = w THEN step'[w] ELSE step[v]
      BY <1>3 DEF LookupTypeOK
    <2>2. Once'
      BY <1>2, <1>3, <2>1 DEF Inferring
    <2>3. \A v \in Writers : Fine(v)'
      BY <1>1, <1>3, <2>1
    <2>4. QED
      BY <1>0, <2>2, <2>3
  <1>4. ASSUME NEW w \in Writers, NEW t \in Tables, BeginSql(w, t) \/ BeginHttp(w, t)
        PROVE  UncontendedInv'
    <2>1. /\ step' = [step EXCEPT ![w] = step'[w]] /\ step'[w] \in {"lookup", "list"}
          /\ want' = [want EXCEPT ![w] = t] /\ UNCHANGED <<tables, got, planned>>
      BY <1>4 DEF BeginSql, BeginHttp, Begin, Goto, storeVars, LookupTypeOK
    <2>2. Once'
      BY <1>2, <2>1 DEF Inferring, LookupTypeOK
    <2>3. \A v \in Writers : Fine(v)'
      BY <2>1 DEF Fine, UncontendedInv, LookupTypeOK
    <2>4. QED
      BY <1>0, <2>2, <2>3
  <1>5. ASSUME NEW w \in Writers, Lookup(w) PROVE UncontendedInv'
    <2>1. /\ step' = [step EXCEPT ![w] = step'[w]] /\ UNCHANGED <<tables, want, planned>>
          /\ step[w] = "lookup" /\ got' = [got EXCEPT ![w] = get_fresh(want[w])]
      BY <1>5 DEF Lookup, Sample, Goto, storeVars, LookupTypeOK
    <2>2. want[w] \in Tables /\ get_fresh(want[w]) = tables[want[w]]
      BY <2>1, WantedIsTable DEF get_fresh
    <2>3. CASE get_fresh(want[w]) # 0
      <3>1. step'[w] = "served"
        BY <1>5, <2>3 DEF Lookup, Goto, LookupTypeOK
      <3>2. Fine(w)'
        BY <2>1, <2>2, <3>1 DEF Fine, UncontendedInv, LookupTypeOK
      <3>3. QED
        BY <1>3, <2>1, <3>1, <3>2 DEF LookupTypeOK
    <2>4. CASE get_fresh(want[w]) = 0
      <3>1. /\ step'[w] \in {"recent", "random"}
            /\ \A v \in Writers : ~Inferring(v, want[w])
        BY <1>5, <2>4 DEF Lookup, Sample, Goto, FirstPass, LookupTypeOK
      <3>2. Fine(w)'
        BY <2>1, <2>2, <2>4, <3>1 DEF Fine, UncontendedInv
      <3>3. \A v \in Writers \ {w} : Fine(v)'
        BY <1>1, <2>1 DEF LookupTypeOK
      <3>4. \A v \in Writers \ {w}, t \in Tables : Inferring(v, t)' => Inferring(v, t)
        BY <2>1 DEF Inferring, LookupTypeOK
      <3>5. \A t \in Tables : Inferring(w, t)' => t = want[w]
        BY <2>1 DEF Inferring
      <3>6. Once'
        BY <3>1, <3>4, <3>5 DEF UncontendedInv
      <3>7. QED
        BY <1>0, <3>2, <3>3, <3>6
    <2>5. QED
      BY <2>3, <2>4
  <1>6. ASSUME NEW w \in Writers,
               \/ List(w) \/ StoreListing(w) \/ ListFails(w) \/ SampleRecent(w)
               \/ SampleRecentFails(w) \/ SampleRandom(w) \/ SampleRandomFails(w)
               \/ PutReturns(w)
        PROVE  UncontendedInv'
    <2>1. /\ step' = [step EXCEPT ![w] = step'[w]]
          /\ UNCHANGED <<tables, want, planned, got>>
      BY <1>6 DEF List, StoreListing, ListFails, SampleRecent, SampleRecentFails,
         SampleRandom, SampleRandomFails, Observe, PutReturns, Goto, storeVars, historyVars,
         LookupTypeOK
    <2>2. \/ step'[w] \in {"listed", "lookup", "absent", "failed"}
          \/ step'[w] \in {"random", "put"} /\ step[w] \in {"recent", "random"}
          \/ step'[w] = "served" /\ step[w] = "putting"
      BY <1>6 DEF List, StoreListing, ListFails, SampleRecent, SampleRecentFails,
         SampleRandom, SampleRandomFails, PutReturns, Goto, LookupTypeOK
    <2>3. Fine(w)'
      BY <2>1, <2>2 DEF Fine, UncontendedInv
    <2>4. QED
      BY <1>3, <2>1, <2>2, <2>3
  <1>7. ASSUME NEW w \in Writers, StorePut(w) PROVE UncontendedInv'
    <2>1. /\ step' = [step EXCEPT ![w] = "putting"] /\ got' = [got EXCEPT ![w] = puts']
          /\ step[w] = "put" /\ UNCHANGED <<want, planned>>
          /\ tables' = [tables EXCEPT ![want[w]] = puts']
      BY <1>7 DEF StorePut, Put, Goto, historyVars
    <2>2. want[w] \in Tables /\ tables[want[w]] = 0 /\ Inferring(w, want[w])
      BY <2>1, WantedIsTable DEF Inferring, UncontendedInv
    <2>3. Once'
      BY <1>2, <2>1 DEF Inferring, LookupTypeOK
    <2>4. ASSUME NEW v \in Writers, v # w PROVE Fine(v)'
      <3>1. CASE want[v] = want[w]
        <4>1. step[v] \notin {"recent", "random", "put", "putting"}
          BY <2>2, <2>4, <3>1 DEF UncontendedInv, Inferring
        <4>2. step[v] # "served"
          BY <2>2, <3>1 DEF UncontendedInv, TaskInv, Tells
        <4>3. \A t \in Tables : planned[v][t] # 0 => t # want[w]
          BY <2>2 DEF UncontendedInv
        <4>4. QED
          BY <2>1, <2>4, <4>1, <4>2, <4>3
             DEF Fine, UncontendedInv, LookupTypeOK, TypeOK, Catalogs
      <3>2. CASE want[v] # want[w]
        <4>1. \A t \in Tables : planned[v][t] # 0 => t # want[w]
          BY <2>2 DEF UncontendedInv
        <4>2. step[v] # "idle" => want[v] \in Tables
          BY WantedIsTable
        <4>3. QED
          BY <2>1, <2>4, <3>2, <4>1, <4>2
          DEF Fine, UncontendedInv, LookupTypeOK, TypeOK, Catalogs
      <3>3. QED
        BY <3>1, <3>2
    <2>5. Fine(w)'
      <3>1. \A t \in Tables : planned[w][t] # 0 => t # want[w]
        BY <2>2 DEF UncontendedInv
      <3>2. QED
        BY <2>1, <2>2, <3>1 DEF Fine, UncontendedInv, LookupTypeOK, TypeOK, Catalogs
    <2>6. QED
      BY <1>0, <2>3, <2>4, <2>5
  <1>8. ASSUME NEW w \in Writers, Persist(w) PROVE UncontendedInv'
    <2>1. UNCHANGED tables
      BY <1>8 DEF Persist, PersistStep, Snapshot, Open, Write, Rename, PersistFails
    <2>2. UNCHANGED <<step, want, got, planned>>
      BY <1>8 DEF Persist, taskVars, historyVars
    <2>3. QED
      BY <1>0, <1>1, <1>2, <2>1, <2>2 DEF Inferring
  <1>9. ASSUME NEW w \in Writers, Return(w) PROVE UncontendedInv'
    <2>1. /\ step' = [step EXCEPT ![w] = "idle"] /\ want' = [want EXCEPT ![w] = NoTable]
          /\ got' = [got EXCEPT ![w] = 0] /\ tables' = tables
          /\ planned' \in {planned, [planned EXCEPT ![w][want[w]] = got[w]]}
          /\ planned' # planned => step[w] = "served"
      BY <1>9 DEF Return, Goto, storeVars
    <2>2. Once'
      BY <1>2, <2>1 DEF Inferring, LookupTypeOK
    <2>3. \A v \in Writers \ {w} : Fine(v)'
      BY <1>1, <2>1 DEF LookupTypeOK
    <2>4. Fine(w)'
      BY <2>1 DEF Fine, UncontendedInv, LookupTypeOK, Catalogs
    <2>5. QED
      BY <1>0, <2>2, <2>3, <2>4
  <1>10. CASE GatewayRestart
    <2>1. \A v \in Writers : step'[v] = "idle" /\ planned'[v] = NoTables
      BY <1>10 DEF GatewayRestart, AllIdle
    <2>2. QED
      BY <1>0, <2>1, Loading DEF Fine, Inferring
  <1>11. CASE SetClock \/ UNCHANGED lookupVars \/ \E t \in Tables :
                  Drop(t) \/ \E s \in Shapes : Insert(t, s)
    <2>1. UNCHANGED <<step, want, got, planned, tables>>
      BY <1>11 DEF SetClock, lookupVars, Drop, Insert, storeVars, taskVars, historyVars
    <2>2. QED
      BY <1>0, <1>1, <1>2, <2>1 DEF Inferring
  <1>12. QED
    BY <1>4, <1>5, <1>6, <1>7, <1>8, <1>9, <1>10, <1>11
    DEF LookupNext, TaskStep, BeginRefresh
-------------------------------------------------------------------------------
(***************************************************************************)
(* What was saved stays as it was.                                         *)
(***************************************************************************)

\* store.rs:266-272: without overlapping calls, catalog.json changes only when
\* a persist() succeeds, and to what that call saved.
LEMMA SavedStep ==
    ASSUME StoreInv, [StoreNext]_storeVars, ~overlapped', acked = load_from(file)
    PROVE  acked' = load_from(file)'
  <1> USE Numbers, Loading DEF StoreInv
  <1>1. AloneInv
    BY OverlapIsForever
  <1>2. ASSUME UNCHANGED <<file, acked>> PROVE acked' = load_from(file)'
    BY <1>2 DEF load_from
  <1>3. ASSUME NEW w \in Writers, Write(w) \/ PersistFails(w)
        PROVE  UNCHANGED <<file, acked>>
    BY <1>1, <1>3 DEF Write, PersistFails, WriteTo, AloneInv
  <1>4. ASSUME NEW w \in Writers, Rename(w) PROVE acked' = load_from(file)'
    <2>1. tmp = Saved(snap[w]) /\ Persisting(w)
      BY <1>1, <1>4 DEF Rename, AloneInv, Persisting
    <2>2. load_from(file)' = snap[w]
      BY <1>4, <2>1 DEF Rename, Saved, load_from
    <2>3. acked' = [t \in Tables |-> Latest(acked[t], snap[w][t])]
      BY <1>4, <2>1 DEF Rename, Saved
    <2>4. \A t \in Tables : acked[t] <= snap[w][t]
      BY <1>1, <2>1 DEF AloneInv
    <2>5. \A t \in Tables : acked'[t] = snap[w][t]
      BY <2>3, <2>4 DEF Latest
    <2>6. snap[w] = [t \in Tables |-> snap[w][t]]
      BY DEF TypeOK, Catalogs
    <2>7. QED
      BY <2>2, <2>3, <2>5, <2>6
  <1>5. QED
    BY <1>2, <1>3, <1>4
    DEF StoreNext, PersistStep, Put, Snapshot, Open, Restart, storeVars

LEMMA FrozenInit == LookupInit => FrozenInv
  BY Loading DEF LookupInit, StoreInit, FrozenInv, Persisting, Kinds

LEMMA FrozenStep ==
    ASSUME StoreInv, LookupTypeOK, TaskInv, UncontendedInv, FrozenInv,
           [LookupNext]_lookupVars, ~overlapped'
    PROVE  FrozenInv'
  <1> USE Numbers, Loading DEF StoreInv
  <1>1. AloneInv /\ [StoreNext]_storeVars
    BY OverlapIsForever, LookupStoreStep
  <1>2. ASSUME UNCHANGED <<file, tables, snap>>,
               \A w \in Writers : Persisting(w)' => Persisting(w)
        PROVE  FrozenInv'
    BY <1>2 DEF FrozenInv, load_from
  <1>3. ASSUME NEW w \in Writers, StorePut(w) PROVE FrozenInv'
    <2>1. /\ want[w] \in Tables /\ tables[want[w]] = 0
          /\ tables' = [tables EXCEPT ![want[w]] = puts'] /\ UNCHANGED <<file, snap>>
      BY <1>3, WantedIsTable DEF StorePut, Put, UncontendedInv
    <2>2. \A v \in Writers : Persisting(v)' => Persisting(v)
      BY <1>3 DEF StorePut, Put, Persisting, TypeOK
    <2>3. ASSUME NEW t \in Tables, load_from(file)'[t] # 0
          PROVE  load_from(file)'[t] = tables'[t]
      BY <2>1, <2>3 DEF FrozenInv, load_from, TypeOK, Catalogs
    <2>4. ASSUME NEW v \in Writers, Persisting(v), NEW t \in Tables, snap[v][t] # 0
          PROVE  snap[v][t] = tables'[t]
      BY <2>1, <2>4 DEF FrozenInv, TypeOK, Catalogs
    <2>5. QED
      BY <2>1, <2>2, <2>3, <2>4 DEF FrozenInv
  <1>4. ASSUME NEW w \in Writers, Snapshot(w) PROVE FrozenInv'
    BY <1>4 DEF Snapshot, FrozenInv, Persisting, load_from, TypeOK
  <1>5. ASSUME NEW w \in Writers, Open(w) PROVE FrozenInv'
    BY <1>2, <1>5 DEF Open, Persisting, TypeOK
  <1>6. ASSUME NEW w \in Writers, Write(w) \/ PersistFails(w) PROVE FrozenInv'
    <2>1. UNCHANGED <<file, tables, snap>>
      BY <1>1, <1>6 DEF Write, PersistFails, WriteTo, AloneInv
    <2>2. \A v \in Writers : Persisting(v)' => Persisting(v)
      BY <1>6 DEF Write, PersistFails, Persisting, TypeOK
    <2>3. QED
      BY <1>2, <2>1, <2>2
  <1>7. ASSUME NEW w \in Writers, Rename(w) PROVE FrozenInv'
    <2>1. tmp = Saved(snap[w]) /\ Persisting(w)
      BY <1>1, <1>7 DEF Rename, AloneInv, Persisting
    <2>2. load_from(file)' = snap[w] /\ UNCHANGED <<tables, snap>>
      BY <1>7, <2>1 DEF Rename, Saved, load_from
    <2>3. \A v \in Writers : Persisting(v)' => Persisting(v)
      BY <1>7 DEF Rename, Persisting, TypeOK
    <2>4. QED
      BY <2>1, <2>2, <2>3 DEF FrozenInv
  <1>8. CASE GatewayRestart
    <2>1. tables' = load_from(file) /\ file' = file
      BY <1>8 DEF GatewayRestart, Restart, AheadInv
    <2>2. \A v \in Writers : ~Persisting(v)'
      BY <1>8 DEF GatewayRestart, Restart, Persisting
    <2>3. QED
      BY <2>1, <2>2 DEF FrozenInv, load_from
  <1>9. CASE UNCHANGED storeVars
    BY <1>2, <1>9 DEF storeVars, Persisting
  <1>10. ASSUME NEW w \in Writers, TaskStep(w) PROVE FrozenInv'
    <2>1. CASE Persist(w)
      BY <1>4, <1>5, <1>6, <1>7, <2>1 DEF Persist, PersistStep
    <2>2. ASSUME ~Persist(w), ~StorePut(w) PROVE UNCHANGED storeVars
      BY <1>10, <2>2 DEF TaskStep, List, StoreListing, ListFails, Lookup, SampleRecent,
         SampleRecentFails, SampleRandom, SampleRandomFails, Observe, PutReturns, Return
    <2>3. QED
      BY <1>3, <1>9, <2>1, <2>2
  <1>11. QED
    BY <1>8, <1>9, <1>10
    DEF LookupNext, Drop, Insert, SetClock, BeginSql, BeginHttp, BeginRefresh, Begin,
        lookupVars
-------------------------------------------------------------------------------
(***************************************************************************)
(* The theorems.                                                           *)
(***************************************************************************)

LEMMA LookupInvInit == LookupInit => LookupInv
  <1> SUFFICES ASSUME LookupInit PROVE LookupInv
    OBVIOUS
  <1>1. StoreInit
    BY DEF LookupInit
  <1>2. StoreInv
    BY <1>1, TypeInit, AheadInit, AloneInit DEF StoreInv
  <1>3. acked = load_from(file)
    BY <1>1, Loading DEF StoreInit, Kinds
  <1>4. QED
    BY <1>2, <1>3, LookupTypeInit, EntriesInit, TaskInit, AbsentInit, EmptyInit,
       UncontendedInit, FrozenInit DEF LookupInv

LEMMA LookupInvStep == LookupInv /\ [LookupNext]_lookupVars => LookupInv'
  <1> SUFFICES ASSUME LookupInv, [LookupNext]_lookupVars PROVE LookupInv'
    OBVIOUS
  <1> USE DEF LookupInv
  <1>1. TypeOK /\ [StoreNext]_storeVars
    BY LookupStoreStep DEF StoreInv
  <1>2. StoreInv'
    BY <1>1, TypeStep, AheadStep, AloneStep, OverlapIsForever DEF StoreInv
  <1>3. LookupTypeOK' /\ EntriesInv' /\ TaskInv' /\ AbsentInv'
    BY <1>1, LookupTypeStep, EntriesStep, TaskInvStep, AbsentStep
  <1>4. "recent" \in Passes => EmptyInv'
    BY <1>1, EmptyStep
  <1>5. (~overlapped => acked = load_from(file))'
    BY <1>1, SavedStep, OverlapIsForever
  <1>6. (Ttl = 0 /\ ~contended => UncontendedInv)'
    BY <1>1, UncontendedStep, ContentionIsForever
  <1>7. (Ttl = 0 /\ ~contended /\ ~overlapped => FrozenInv)'
    BY <1>1, FrozenStep, ContentionIsForever, OverlapIsForever
  <1>8. QED
    BY <1>2, <1>3, <1>4, <1>5, <1>6, <1>7

LEMMA LookupInvariant == LookupSpec => []LookupInv
  BY LookupInvInit, LookupInvStep, PTL DEF LookupSpec

\* provider.rs:181-219, mod.rs:159-200: the tasks use the store only through
\* put() and get_fresh(), so that every behaviour of the lookups is one of the
\* store, and what is proved of the store's writers is true of SQL sessions and
\* HTTP requests.
THEOREM LookupImplementsStore == LookupSpec => StoreSpec
  <1>1. LookupInit => StoreInit
    BY DEF LookupInit
  <1>2. LookupInv /\ [LookupNext]_lookupVars => [StoreNext]_storeVars
    BY LookupStoreStep DEF LookupInv
  <1>3. QED
    BY <1>1, <1>2, LookupInvariant, PTL DEF LookupSpec, StoreSpec

\* The state of the lookups keeps its types.
THEOREM LookupTypeCorrect == LookupSpec => []LookupTypeOK
  <1>1. LookupInv => LookupTypeOK
    BY DEF LookupInv
  <1>2. QED
    BY <1>1, LookupInvariant, PTL

\* provider.rs:181-219, mod.rs:159-200: no interleaving of lookups, drops,
\* re-creations and restarts hands out a schema with a column no document of
\* the collection has ever had.
THEOREM ServedWasSeen == LookupSpec => []ServedWasObserved
  <1>1. LookupInv => ServedWasObserved
    BY DEF LookupInv, TaskInv, Tells, ServedWasObserved
  <1>2. QED
    BY <1>1, LookupInvariant, PTL

\* provider.rs:182-189: "no such table" is the answer for a collection that was
\* there all along only if the listing failed, although the listing the answer
\* rests on may be older than the lookups of other tasks.
THEOREM AbsentIsAbsent == LookupSpec => []AbsentMeansAbsent
  <1>1. LookupInv => AbsentMeansAbsent
    BY DEF LookupInv, AbsentInv, AbsentMeansAbsent
  <1>2. QED
    BY <1>1, LookupInvariant, PTL

\* client.rs:111-125, 152-160: a sample with a share of recent documents yields
\* the schema without columns only for a collection that was empty meanwhile.
\* (With random sampling alone a failing cursor may show nothing and be logged.)
THEOREM PlaceholderIsEmpty ==
    "recent" \in Passes => (LookupSpec => []PlaceholderMeansEmpty)
  <1> SUFFICES ASSUME "recent" \in Passes PROVE LookupSpec => []PlaceholderMeansEmpty
    OBVIOUS
  <1>1. LookupInv => PlaceholderMeansEmpty
    BY DEF LookupInv, EmptyInv, PlaceholderMeansEmpty
  <1>2. QED
    BY <1>1, LookupInvariant, PTL

\* config.rs:113-117, store.rs:3-6: with automatic re-inference off, an entry that
\* was saved while no table was sampled twice at once and no persist() overlapped
\* is there for good, in memory and on disk, whatever fails and however often the
\* gateway restarts.
THEOREM FrozenForGood == LookupSpec => []FrozenOnceSaved
  <1>1. LookupInv => FrozenOnceSaved
    <2> SUFFICES ASSUME LookupInv, Ttl = 0, ~contended, ~overlapped, NEW t \in Tables,
                        acked[t] # 0
                 PROVE  tables[t] = acked[t] /\ load_from(file)[t] = acked[t]
      BY DEF FrozenOnceSaved
    <2>1. acked = load_from(file) /\ FrozenInv
      BY DEF LookupInv
    <2>2. QED
      BY <2>1 DEF FrozenInv
  <1>2. QED
    BY <1>1, LookupInvariant, PTL

\* provider.rs:8-10: a session plans all its queries of a table with one entry
\* unless re-inference is on or the table is sampled by someone else meanwhile.
THEOREM SessionKeepsEntry == LookupSpec => []SessionKeepsEntryAlone
  <1>1. LookupInv => SessionKeepsEntryAlone
    <2> SUFFICES ASSUME LookupInv, Ttl = 0, ~contended, NEW w \in Sessions,
                        step[w] = "served", planned[w][want[w]] # 0
                 PROVE  got[w] = planned[w][want[w]]
      BY DEF SessionKeepsEntryAlone
    <2>1. w \in Writers
      BY CatalogLookupAssumption
    <2>2. want[w] \in Tables
      BY <2>1, WantedIsTable DEF LookupInv
    <2>3. QED
      BY <2>1, <2>2 DEF LookupInv, UncontendedInv
  <1>2. QED
    BY <1>1, LookupInvariant, PTL
-------------------------------------------------------------------------------
(***************************************************************************)
(* What follows for the store as the lookups use it.                       *)
(***************************************************************************)

\* store.rs:1-6, 263-272: all that the store promises on its own it keeps under
\* the puts of lookups that interleave, fail and are cut off by restarts.
THEOREM LookupKeepsPromise ==
    LookupSpec => /\ [](TypeOK /\ NotTornAlone /\ SavedIsDurableAlone /\ DiskNeverAhead)
                  /\ KeepsPromiseAlone
  BY LookupImplementsStore, TypeCorrect, NeverTornAlone, SavedIsDurable, DiskIsNeverAhead,
     StoreKeepsPromise, PTL

\* Every entry of the map is true of its table, in each copy a restart could
\* begin with: in memory, in the two files, and in what writers are saving.
EveryCopyIsTrue ==
    \A c \in {tables, load_from(file), load_from(tmp)} \cup {snap[w] : w \in Writers} :
        Right(c)

\* store.rs:157-166, 189-236: no interleaving of lookups, no lost or overlapping
\* save and no restart moves an entry to a table whose documents it does not
\* describe, even in copies of the map that nobody has read back yet.
THEOREM EveryCopyTellsTheTruth == LookupSpec => []EveryCopyIsTrue
  <1>1. LookupInv => EveryCopyIsTrue
    BY DEF LookupInv, EntriesInv, Held, EveryCopyIsTrue
  <1>2. QED
    BY <1>1, LookupInvariant, PTL

\* provider.rs:4-10, config.rs:113-117: with automatic re-inference off and no
\* table sampled twice at once or by force, a step of anybody but a restart
\* leaves every entry in the map as it is: saved or not, it is never replaced.
THEOREM OneEntryPerRun ==
    LookupSpec => [][Ttl = 0 /\ ~contended' /\ ~GatewayRestart =>
                        \A t \in Tables : tables[t] # 0 => tables'[t] = tables[t]]_lookupVars
  <1> DEFINE Kept == \A t \in Tables : tables[t] # 0 => tables'[t] = tables[t]
  <1>1. LookupInv /\ LookupInv' /\ [LookupNext]_lookupVars
            => [Ttl = 0 /\ ~contended' /\ ~GatewayRestart => Kept]_lookupVars
    <2> SUFFICES ASSUME LookupInv, [LookupNext]_lookupVars, Ttl = 0, ~contended',
                        ~GatewayRestart, NEW t \in Tables, tables[t] # 0
                 PROVE  tables'[t] = tables[t]
      OBVIOUS
    <2>1. LookupTypeOK /\ TypeOK /\ TaskInv /\ UncontendedInv
      BY ContentionIsForever DEF LookupInv, StoreInv
    <2>2. ASSUME NEW w \in Writers, StorePut(w) PROVE tables'[t] = tables[t]
      <3>1. tables' = [tables EXCEPT ![want[w]] = puts'] /\ tables[want[w]] = 0
        BY <2>1, <2>2 DEF StorePut, Put, UncontendedInv
      <3>2. QED
        BY <2>1, <3>1 DEF TypeOK, Catalogs
    <2>3. QED
      BY <2>2, TablesKept
  <1>2. QED
    BY <1>1, LookupInvariant, PTL DEF LookupSpec
-------------------------------------------------------------------------------
(***************************************************************************)
(* A lookup ends: each of its own steps brings it nearer to its answer, and*)
(* no step of another task, of the deployment or of the clock sets it back.*)
(***************************************************************************)

\* Steps a writer may still have to take in persist().
SavesLeft(w) ==
    CASE pc[w] = "persist" -> 4
      [] pc[w] = "open"    -> 3
      [] pc[w] = "write"   -> 2
      [] pc[w] = "rename"  -> 1
      [] OTHER             -> 0

\* Steps a task may still have to take.
StepsLeft(w) ==
    CASE step[w] = "list"    -> 12
      [] step[w] = "listed"  -> 11
      [] step[w] = "lookup"  -> 10
      [] step[w] = "recent"  -> 9
      [] step[w] = "random"  -> 8
      [] step[w] = "put"     -> 7
      [] step[w] = "putting" -> 2 + SavesLeft(w)
      [] step[w] = "idle"    -> 0
      [] OTHER               -> 1

LEMMA SavesLeftType == \A w \in Writers : SavesLeft(w) \in 0 .. 4
  BY DEF SavesLeft

LEMMA StepsLeftType == \A w \in Writers : StepsLeft(w) \in 0 .. 12
  <1> SUFFICES ASSUME NEW w \in Writers PROVE StepsLeft(w) \in 0 .. 12
    OBVIOUS
  <1>1. SavesLeft(w) \in 0 .. 4
    BY SavesLeftType
  <1>2. 2 + SavesLeft(w) \in 0 .. 12
    BY <1>1
  <1>3. QED
    BY <1>2 DEF StepsLeft

\* A save goes on or is given up.
LEMMA SaveAdvances ==
    ASSUME TypeOK, NEW w \in Writers, PersistStep(w) \/ PersistFails(w)
    PROVE  SavesLeft(w)' < SavesLeft(w) /\ \A v \in Writers \ {w} : pc'[v] = pc[v]
  BY DEF TypeOK, PersistStep, PersistFails, Snapshot, Open, Write, Rename, Persisting,
         SavesLeft

\* A step of the task brings it nearer to its answer.
LEMMA OwnStepAdvances ==
    ASSUME TypeOK, LookupTypeOK, NEW w \in Writers, TaskStep(w)
    PROVE  StepsLeft(w)' < StepsLeft(w)
  <1> USE DEF LookupTypeOK, Goto
  <1>0. SavesLeft(w) \in 0 .. 4 /\ SavesLeft(w)' \in 0 .. 4
    BY DEF SavesLeft
  <1>1. CASE List(w) \/ StoreListing(w) \/ ListFails(w)
    BY <1>0, <1>1 DEF List, StoreListing, ListFails, StepsLeft
  <1>2. CASE Lookup(w)
    BY <1>0, <1>2 DEF Lookup, Sample, FirstPass, StepsLeft
  <1>3. CASE SampleRecent(w) \/ SampleRecentFails(w) \/ SampleRandom(w) \/ SampleRandomFails(w)
    BY <1>0, <1>3 DEF SampleRecent, SampleRecentFails, SampleRandom, SampleRandomFails,
                      StepsLeft
  <1>4. CASE StorePut(w)
    BY <1>0, <1>4 DEF StorePut, StepsLeft
  <1>5. CASE Persist(w)
    <2>1. SavesLeft(w)' < SavesLeft(w)
      BY <1>5, SaveAdvances DEF Persist
    <2>2. step[w] = "putting" /\ step'[w] = "putting"
      BY <1>5 DEF Persist, taskVars
    <2>3. QED
      BY <1>0, <2>1, <2>2 DEF StepsLeft
  <1>6. CASE PutReturns(w) \/ Return(w)
    BY <1>0, <1>6 DEF PutReturns, Return, StepsLeft
  <1>7. QED
    BY <1>1, <1>2, <1>3, <1>4, <1>5, <1>6 DEF TaskStep

\* A step of anybody else leaves it where it is.
LEMMA OthersDoNotDelay ==
    ASSUME TypeOK, LookupTypeOK, [LookupNext]_lookupVars, ~GatewayRestart,
           NEW w \in Writers, step[w] # "idle", ~TaskStep(w)
    PROVE  step'[w] = step[w] /\ pc'[w] = pc[w]
  <1> USE DEF LookupTypeOK, Goto
  <1>1. ASSUME NEW v \in Writers, TaskStep(v)
        PROVE  step'[w] = step[w] /\ pc'[w] = pc[w]
    <2>1. v # w
      BY <1>1
    <2>2. CASE StorePut(v)
      BY <2>1, <2>2 DEF StorePut, Put, TypeOK
    <2>3. CASE Persist(v)
      BY <2>1, <2>3, SaveAdvances DEF Persist, taskVars
    <2>4. CASE ~StorePut(v) /\ ~Persist(v)
      BY <1>1, <2>1, <2>4 DEF TaskStep, List, StoreListing, ListFails, Lookup, Sample,
         SampleRecent, SampleRecentFails, SampleRandom, SampleRandomFails, Observe,
         PutReturns, Return, storeVars
    <2>5. QED
      BY <2>2, <2>3, <2>4
  <1>2. ASSUME NEW v \in Writers, NEW t \in Tables,
               BeginSql(v, t) \/ BeginHttp(v, t) \/ BeginRefresh(v, t)
        PROVE  step'[w] = step[w] /\ pc'[w] = pc[w]
    BY <1>2 DEF BeginSql, BeginHttp, BeginRefresh, Begin, storeVars
  <1>3. QED
    BY <1>1, <1>2 DEF LookupNext, Drop, Insert, SetClock, lookupVars, taskVars, storeVars

\* provider.rs:181-219, mod.rs:159-200, store.rs:241-272: a lookup is over after
\* at most twelve steps of its own, whatever the others do; none of its steps
\* waits for another task, and a restart ends it at once.
THEOREM EveryLookupEnds ==
    LookupSpec =>
        /\ [](\A w \in Writers : /\ StepsLeft(w) \in 0 .. 12
                                 /\ StepsLeft(w) = 0 <=> step[w] = "idle"
                                 /\ step[w] = "put" => pc[w] = "idle")
        /\ [][\A w \in Writers : step[w] # "idle" =>
                 /\ StepsLeft(w)' <= StepsLeft(w)
                 /\ TaskStep(w) \/ GatewayRestart => StepsLeft(w)' < StepsLeft(w)]_lookupVars
  <1>1. LookupInv => \A w \in Writers : /\ StepsLeft(w) \in 0 .. 12
                                        /\ StepsLeft(w) = 0 <=> step[w] = "idle"
                                        /\ step[w] = "put" => pc[w] = "idle"
    <2> SUFFICES ASSUME LookupInv, NEW w \in Writers
                 PROVE  /\ StepsLeft(w) \in 0 .. 12
                        /\ StepsLeft(w) = 0 <=> step[w] = "idle"
                        /\ step[w] = "put" => pc[w] = "idle"
      OBVIOUS
    <2>1. StepsLeft(w) \in 0 .. 12
      BY StepsLeftType DEF LookupInv
    <2>2. StepsLeft(w) = 0 <=> step[w] = "idle"
      BY SavesLeftType DEF StepsLeft
    <2>3. step[w] = "put" => pc[w] = "idle"
      BY DEF LookupInv, TaskInv
    <2>4. QED
      BY <2>1, <2>2, <2>3
  <1>2. (\A w \in Writers : StepsLeft(w) \in 0 .. 12)'
    BY StepsLeftType, PTL
  <1>3. LookupInv /\ LookupInv' /\ [LookupNext]_lookupVars =>
            [\A w \in Writers : step[w] # "idle" =>
                 /\ StepsLeft(w)' <= StepsLeft(w)
                 /\ TaskStep(w) \/ GatewayRestart => StepsLeft(w)' < StepsLeft(w)]_lookupVars
    <2> SUFFICES ASSUME LookupInv, LookupInv', [LookupNext]_lookupVars,
                        NEW w \in Writers, step[w] # "idle"
                 PROVE  /\ StepsLeft(w)' <= StepsLeft(w)
                        /\ TaskStep(w) \/ GatewayRestart => StepsLeft(w)' < StepsLeft(w)
      OBVIOUS
    <2>1. TypeOK /\ LookupTypeOK
      BY DEF LookupInv, StoreInv
    <2>2. StepsLeft(w) \in 1 .. 12 /\ StepsLeft(w)' \in 0 .. 12
      <3>1. StepsLeft(w)' \in 0 .. 12
        BY <1>2 DEF LookupInv
      <3>2. QED
        BY <1>1, <3>1
    <2>3. CASE GatewayRestart
      <3>1. StepsLeft(w)' = 0
        BY <2>3 DEF GatewayRestart, AllIdle, StepsLeft
      <3>2. QED
        BY <2>2, <3>1
    <2>4. CASE TaskStep(w)
      <3>1. StepsLeft(w)' < StepsLeft(w)
        BY <2>1, <2>4, OwnStepAdvances
      <3>2. QED
        BY <2>2, <3>1
    <2>5. CASE ~GatewayRestart /\ ~TaskStep(w)
      <3>1. StepsLeft(w)' = StepsLeft(w)
        BY <2>1, <2>5, OthersDoNotDelay DEF StepsLeft, SavesLeft
      <3>2. StepsLeft(w)' <= StepsLeft(w)
        BY <2>2, <3>1
      <3>3. QED
        BY <2>5, <3>2
    <2>6. QED
      BY <2>3, <2>4, <2>5
  <1>4. QED
    BY <1>1, <1>3, LookupInvariant, PTL DEF LookupSpec
===============================================================================
