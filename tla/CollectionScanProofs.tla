-------------------------- MODULE CollectionScanProofs --------------------------
(***************************************************************************)
(* A scan returns what SQL asks for, once, for every number of documents,  *)
(* partitions, samples and batches, and every set of predicates.           *)
(***************************************************************************)
EXTENDS CollectionScan, FiniteSetTheorems, WellFoundedInduction, TLAPS

(***************************************************************************)
(* The ranges.                                                             *)
(***************************************************************************)

LEMMA LeastNatural ==
    ASSUME NEW S \in SUBSET Nat, S # {}
    PROVE  \E n \in S : \A m \in S : n <= m
  <1> DEFINE R == {ss \in Nat \X Nat : ss[1] < ss[2]}
  <1>1. IsWellFoundedOn(R, Nat)
    BY NatLessThanWellFounded DEF OpToRel
  <1>2. \A m, k \in Nat : m < k => <<m, k>> \in R
    OBVIOUS
  <1> HIDE DEF R
  <1>3. PICK n \in S : \A m \in S : ~(<<m, n>> \in R)
    BY <1>1, WFMin
  <1>4. ASSUME NEW m \in S PROVE n <= m
    <2>1. n \in Nat /\ m \in Nat
      OBVIOUS
    <2>2. ~(m < n)
      BY <1>2, <1>3, <2>1
    <2>3. QED
      BY <2>1, <2>2
  <1>5. QED
    BY <1>3, <1>4

LEMMA RangesAreRanges ==
    ASSUME NEW cuts \in SUBSET Ids
    PROVE  RangesBetween(cuts) \subseteq Ranges
  <1>1. cuts \cup {0} \subseteq 0 .. MaxId
    BY ScanAssumption DEF Ids
  <1>2. QED
    BY <1>1 DEF RangesBetween, Ranges

\* No document is in two of the ranges.
LEMMA RangesDisjoint ==
    ASSUME NEW cuts \in SUBSET Ids, NEW i \in Ids,
           NEW r \in RangesBetween(cuts), NEW q \in RangesBetween(cuts),
           InRange(i, r), InRange(i, q)
    PROVE  r = q
  <1>1. /\ r.lo \in cuts \cup {0} /\ r.hi \in cuts \cup {0}
        /\ q.lo \in cuts \cup {0} /\ q.hi \in cuts \cup {0}
        /\ r = [lo |-> r.lo, hi |-> r.hi] /\ q = [lo |-> q.lo, hi |-> q.hi]
        /\ cuts \subseteq Nat \ {0} /\ i \in Nat \ {0}
    BY ScanAssumption DEF RangesBetween, Ids
  <1>2. /\ \A c \in cuts : c <= r.lo \/ (r.hi # 0 /\ r.hi <= c)
        /\ \A c \in cuts : c <= q.lo \/ (q.hi # 0 /\ q.hi <= c)
    BY DEF RangesBetween
  <1>3. /\ r.lo <= i /\ q.lo <= i
        /\ r.hi # 0 => i < r.hi
        /\ q.hi # 0 => i < q.hi
    BY <1>1 DEF InRange
  <1>4. r.lo = q.lo
    <2>1. q.lo <= r.lo
      BY <1>1, <1>2, <1>3
    <2>2. r.lo <= q.lo
      BY <1>1, <1>2, <1>3
    <2>3. QED
      BY <1>1, <2>1, <2>2
  <1>5. r.hi = q.hi
    <2>1. r.hi # 0 => q.hi # 0 /\ q.hi <= r.hi
      BY <1>1, <1>2, <1>3
    <2>2. q.hi # 0 => r.hi # 0 /\ r.hi <= q.hi
      BY <1>1, <1>2, <1>3
    <2>3. QED
      BY <1>1, <2>1, <2>2
  <1>6. QED
    BY <1>1, <1>4, <1>5

\* With _ids of one type every document is in one of them.
LEMMA RangesCover ==
    ASSUME NEW cuts \in SUBSET Ids, NEW i \in Ids, OneKind
    PROVE  \E r \in RangesBetween(cuts) : InRange(i, r)
  <1>1. cuts \subseteq Nat \ {0} /\ i \in Nat \ {0} /\ MaxId \in Nat /\ i <= MaxId
        /\ \A c \in cuts : c <= MaxId
    BY ScanAssumption DEF Ids
  <1>2. PICK lo \in cuts \cup {0} : lo <= i /\ \A c \in cuts : c <= i => c <= lo
    <2> DEFINE gaps == {n \in Nat : MaxId - n \in cuts /\ MaxId - n <= i}
    <2>1. CASE gaps = {}
      <3>1. \A c \in cuts : ~(c <= i)
        <4> SUFFICES ASSUME NEW c \in cuts, c <= i PROVE FALSE
          OBVIOUS
        <4>1. MaxId - c \in Nat /\ MaxId - (MaxId - c) = c
          BY <1>1
        <4>2. QED
          BY <1>1, <2>1, <4>1
      <3>2. QED
        BY <1>1, <3>1
    <2>2. CASE gaps # {}
      <3>1. PICK n \in gaps : \A m \in gaps : n <= m
        BY <2>2, LeastNatural
      <3>2. ASSUME NEW c \in cuts, c <= i PROVE c <= MaxId - n
        <4>1. MaxId - c \in gaps
          <5>1. MaxId - c \in Nat /\ MaxId - (MaxId - c) = c
            BY <1>1
          <5>2. QED
            BY <3>2, <5>1
        <4>2. QED
          BY <1>1, <3>1, <4>1
      <3>3. QED
        BY <3>1, <3>2
    <2>3. QED
      BY <2>1, <2>2
  <1>3. PICK hi \in cuts \cup {0} : /\ hi # 0 => i < hi
                                    /\ \A c \in cuts : i < c => hi # 0 /\ hi <= c
    <2> DEFINE above == {c \in cuts : i < c}
    <2>1. CASE above = {}
      BY <2>1
    <2>2. CASE above # {}
      <3>1. above \in SUBSET Nat
        BY <1>1
      <3>2. PICK n \in above : \A m \in above : n <= m
        BY <2>2, <3>1, LeastNatural
      <3>3. QED
        BY <1>1, <3>2
    <2>3. QED
      BY <2>1, <2>2
  <1> DEFINE r == [lo |-> lo, hi |-> hi]
  <1>4. r \in RangesBetween(cuts)
    <2>1. hi # 0 => lo < hi
      BY <1>1, <1>2, <1>3
    <2>2. \A c \in cuts : c <= lo \/ (hi # 0 /\ hi <= c)
      BY <1>1, <1>2, <1>3
    <2>3. QED
      BY <2>1, <2>2 DEF RangesBetween
  <1>5. InRange(i, r)
    BY <1>1, <1>2, <1>3, ScanAssumption DEF InRange, OneKind, Ids
  <1>6. QED
    BY <1>4, <1>5

\* A quantile of a sample of length L is one of its members.
LEMMA QuantileInSample ==
    ASSUME NEW L \in Nat \ {0}, NEW m \in Nat \ {0}, NEW k \in 1 .. m - 1
    PROVE  (k * L) \div m + 1 \in 1 .. L
  <1> DEFINE q == (k * L) \div m
  <1>1. k * L \in Nat /\ k <= m - 1 /\ k \in Nat
    BY Z3
  <1>2. q \in Nat /\ m * q <= k * L
    BY <1>1, Z3
  <1>3. k * L <= (m - 1) * L
    BY <1>1, Z3
  <1>4. (m - 1) * L = m * L - L
    BY Z3
  <1>5. m * q < m * L
    BY <1>1, <1>2, <1>3, <1>4, Z3
  <1>6. q < L
    BY <1>2, <1>5, Z3
  <1>7. QED
    BY <1>2, <1>6

\* pipeline.rs:150-175: whatever was sampled, the partitions are the ranges
\* between some cuts.
LEMMA BoundsAreRanges ==
    ASSUME live \subseteq Ids, NEW ids \in Samples, NEW n \in Nat
    PROVE  \E cuts \in SUBSET Ids : partition_bounds(ids, n) = RangesBetween(cuts)
  <1>1. {Whole} = RangesBetween({})
    BY DEF Whole, RangesBetween
  <1>2. PICK k \in 0 .. MaxSample : ids \in [1 .. k -> live]
    BY DEF Samples
  <1>3. Len(ids) = k /\ k \in Nat
    BY <1>2, ScanAssumption
  <1>4. CASE n <= 1 \/ Len(ids) < 2
    BY <1>1, <1>4 DEF partition_bounds
  <1>5. CASE ~(n <= 1 \/ Len(ids) < 2)
    <2> DEFINE parts == IF n < Len(ids) THEN n ELSE Len(ids)
               cuts == {ids[(j * Len(ids)) \div parts + 1] : j \in 1 .. parts - 1}
    <2>1. parts \in Nat \ {0} /\ k \in Nat \ {0}
      BY <1>3, <1>5
    <2>2. ASSUME NEW j \in 1 .. parts - 1
          PROVE  ids[(j * Len(ids)) \div parts + 1] \in Ids
      <3>1. (j * k) \div parts + 1 \in 1 .. k
        <4> HIDE DEF parts
        <4> QED BY <2>1, QuantileInSample
      <3>2. QED
        BY <1>2, <1>3, <3>1
    <2>3. cuts \in SUBSET Ids
      BY <2>2
    <2>4. partition_bounds(ids, n) = RangesBetween(cuts)
      BY <1>5 DEF partition_bounds
    <2>5. QED
      BY <2>3, <2>4
  <1>6. QED
    BY <1>4, <1>5
-------------------------------------------------------------------------------
(***************************************************************************)
(* Types.                                                                  *)
(***************************************************************************)

LEMMA SubsetsAreFinite ==
    ASSUME NEW S \in SUBSET Ids
    PROVE  IsFiniteSet(S) /\ Cardinality(S) \in Nat
  <1>1. IsFiniteSet(Ids)
    BY ScanAssumption, FS_Interval DEF Ids
  <1>2. QED
    BY <1>1, FS_Subset, FS_CardinalityType

\* What passes the rechecks.
Passes(i) == \A p \in Rechecked : i \in p.sql

\* What the operators above the scan do with a batch.
LEMMA AcceptEffect ==
    ASSUME TypeOK, NEW docs \in SUBSET Ids, Accept(docs)
    PROVE  \E out \in SUBSET docs :
             /\ \A i \in out : Passes(i)
             /\ \/ \A i \in docs : Passes(i) => i \in out
                \/ sent' = limit
             /\ (limit # NoLimit => sent' <= limit)
             /\ rows' = [i \in Ids |-> IF i \in out THEN rows[i] + 1 ELSE rows[i]]
             /\ sent' = sent + Cardinality(out)
             /\ sent' \in Nat
             /\ step' = IF sent' = limit THEN "done" ELSE "run"
  <1> DEFINE kept == {i \in docs : \A p \in Rechecked : i \in p.sql}
  <1>1. PICK out \in SUBSET kept :
             /\ IF limit = NoLimit \/ sent + Cardinality(kept) <= limit
                THEN out = kept
                ELSE sent + Cardinality(out) = limit
             /\ rows' = [i \in Ids |-> IF i \in out THEN rows[i] + 1 ELSE rows[i]]
             /\ sent' = sent + Cardinality(out)
             /\ step' = IF sent' = limit THEN "done" ELSE "run"
    BY DEF Accept
  <1>2. out \in SUBSET docs /\ \A i \in out : Passes(i)
    BY <1>1 DEF Passes
  <1>3. \A i \in docs : Passes(i) => i \in kept
    BY DEF Passes
  <1>4. Cardinality(out) \in Nat
    BY <1>2, SubsetsAreFinite
  <1>5. \/ \A i \in docs : Passes(i) => i \in out
        \/ sent' = limit
    BY <1>1, <1>3
  <1>6. limit # NoLimit => sent' <= limit
    <2> HIDE DEF kept
    <2>1. SUFFICES ASSUME limit # NoLimit PROVE sent' <= limit
      OBVIOUS
    <2>2. limit \in Nat
      BY <2>1, ScanAssumption DEF TypeOK
    <2>3. CASE sent + Cardinality(kept) <= limit
      BY <1>1, <2>3
    <2>4. CASE ~(sent + Cardinality(kept) <= limit)
      BY <1>1, <2>1, <2>2, <2>4
    <2>5. QED
      BY <2>3, <2>4
  <1>7. sent' \in Nat
    BY <1>1, <1>4 DEF TypeOK
  <1>8. QED
    BY <1>1, <1>2, <1>5, <1>6, <1>7

LEMMA BoundsInRanges ==
    ASSUME live \subseteq Ids, NEW ids \in Samples, NEW n \in Nat
    PROVE  partition_bounds(ids, n) \subseteq Ranges
  BY BoundsAreRanges, RangesAreRanges

LEMMA WholeIsRange == {Whole} \subseteq Ranges /\ {Whole} = RangesBetween({})
  BY ScanAssumption DEF Whole, Ranges, RangesBetween

\* The types of the variables, for every number of partitions and documents.
THEOREM TypeCorrect == Spec => []TypeOK
  <1>1. Init => TypeOK
    BY ScanAssumption DEF Init, TypeOK
  <1>2. ASSUME TypeOK, [Next]_vars PROVE TypeOK'
    <2>1. CASE UNCHANGED vars
      BY <1>2, <2>1 DEF TypeOK, vars, worldVars, queryVars, scanVars, clientVars
    <2>2. ASSUME NEW i \in Ids, Insert(i) \/ Delete(i) PROVE TypeOK'
      BY <1>2, <2>2, ScanAssumption
         DEF TypeOK, Insert, Delete, queryVars, scanVars, clientVars
    <2>3. ASSUME NEW preds \in SUBSET Predicates, NEW lim \in Limits \cup {NoLimit},
                 Begin(preds, lim)
          PROVE  TypeOK'
      BY <1>2, <2>3 DEF TypeOK, Begin, scanVars, clientVars
    <2>4. ASSUME NEW ranges \in SUBSET Ranges, Plan(ranges) PROVE TypeOK'
      BY <1>2, <2>4 DEF TypeOK, Plan, worldVars, clientVars
    <2>5. CASE PlanSerial
      BY <2>4, <2>5, WholeIsRange DEF PlanSerial
    <2>6. ASSUME NEW n \in 2 .. MaxPartitions, PlanSplit(n) PROVE TypeOK'
      <3>1. PICK ids \in Samples : Plan(partition_bounds(ids, n))
        BY <2>6 DEF PlanSplit
      <3>2. n \in Nat /\ live \subseteq Ids
        BY <1>2, ScanAssumption DEF TypeOK
      <3>3. QED
        BY <2>4, <3>1, <3>2, BoundsInRanges
    <2>7. ASSUME NEW r \in plans, Open(r) \/ Exhaust(r) \/ Close(r) \/ Fail(r)
          PROVE  TypeOK'
      BY <1>2, <2>7
         DEF TypeOK, Open, Exhaust, Close, Fail, worldVars, queryVars, scanVars, clientVars
    <2>8. ASSUME NEW r \in plans, NEW i \in Ids, Fetch(r, i) PROVE TypeOK'
      BY <1>2, <2>8 DEF TypeOK, Fetch, worldVars, queryVars, clientVars
    <2>9. ASSUME NEW r \in plans, Yield(r) PROVE TypeOK'
      <3>1. batch[r] \in SUBSET Ids /\ Accept(batch[r])
        BY <1>2, <2>9 DEF TypeOK, Yield
      <3>2. /\ rows' \in [Ids -> Nat] /\ sent' \in Nat
            /\ step' \in {"done", "run"}
        BY <1>2, <3>1, AcceptEffect DEF TypeOK
      <3>3. QED
        BY <1>2, <2>9, <3>2 DEF TypeOK, Yield, worldVars
    <2>10. QED
      BY <1>2, <2>1, <2>2, <2>3, <2>5, <2>6, <2>7, <2>8, <2>9 DEF Next, ScanStep
  <1>3. QED
    BY <1>1, <1>2, PTL DEF Spec
-------------------------------------------------------------------------------
(***************************************************************************)
(* The inductive invariant.                                                *)
(***************************************************************************)

\* The partitions come from one splitting of the _ids.
PlansInv ==
    /\ step \in {"idle", "plan"} =>
           plans = {} /\ sent = 0 /\ \A i \in Ids : rows[i] = 0
    /\ step \notin {"idle", "plan"} =>
           \E cuts \in SUBSET Ids : plans = RangesBetween(cuts)
    /\ pushed_limit # NoLimit => plans \subseteq {Whole}

\* A cursor returns what its pipeline selects.
FetchInv == \A r \in plans : /\ batch[r] \subseteq fetched[r]
                             /\ fetched[r] \subseteq Matching(r)

\* A row that was sent was fetched by a partition, is not in its batch any
\* more, and passed the rechecks.
SentInv == \A i \in Ids : /\ rows[i] <= 1
                          /\ rows[i] > 0 => /\ Passes(i)
                                            /\ \E r \in plans : i \in fetched[r] \ batch[r]

\* Until the LIMIT is reached, nothing that passes is left out.
KeptInv == sent # limit =>
    \A r \in plans : \A i \in fetched[r] \ batch[r] : Passes(i) => rows[i] > 0

\* The LIMIT ends the query; until then the one partition with a $limit has
\* sent all it yielded.
LimitInv ==
    /\ limit # NoLimit => sent <= limit
    /\ step = "run" => sent # limit
    /\ pushed_limit # NoLimit /\ sent # limit =>
           \A r \in plans : sent = Cardinality(fetched[r] \ batch[r])

\* A cursor that has ended has returned what was there all along.
CursorInv ==
    /\ steady \subseteq live
    /\ \A r \in plans :
         /\ cursor[r] # "closed" => steady \subseteq opened[r]
         /\ cursor[r] \in {"ended", "done"} =>
                AtLimit(r) \/ steady \cap Matching(r) \subseteq fetched[r]
         /\ cursor[r] = "done" => batch[r] = {}

DoneInv == step = "done" => sent = limit \/ \A r \in plans : cursor[r] = "done"

ScanInv == /\ TypeOK /\ PlansInv /\ FetchInv /\ SentInv
           /\ KeptInv /\ LimitInv /\ CursorInv /\ DoneInv
-------------------------------------------------------------------------------
\* While the query is the same, so is what it selects.
LEMMA SameQuery ==
    ASSUME UNCHANGED <<where, limit>>
    PROVE  /\ Rechecked' = Rechecked /\ pushed' = pushed
           /\ pushed_limit' = pushed_limit
           /\ \A r : Matching(r)' = Matching(r)
           /\ \A i : Passes(i)' = Passes(i)
  <1>1. Rechecked' = Rechecked /\ pushed' = pushed
    BY DEF Rechecked, pushed
  <1>2. pushed_limit' = pushed_limit
    BY <1>1 DEF pushed_limit, ScanLimit
  <1>3. QED
    BY <1>1, <1>2 DEF Matching, InRange, Passes

LEMMA InitInv == Init => ScanInv
  <1> SUFFICES ASSUME Init PROVE ScanInv
    OBVIOUS
  <1>1. TypeOK
    BY ScanAssumption DEF Init, TypeOK
  <1>2. plans = {} /\ step = "idle" /\ sent = 0 /\ limit = NoLimit
        /\ steady = {} /\ \A i \in Ids : rows[i] = 0
    BY DEF Init
  <1>3. QED
    BY <1>1, <1>2, ScanAssumption
       DEF ScanInv, PlansInv, FetchInv, SentInv, KeptInv, LimitInv, CursorInv, DoneInv

\* The collection changes.
LEMMA WorldStep ==
    ASSUME ScanInv, NEW i \in Ids, Insert(i) \/ Delete(i), TypeOK'
    PROVE  ScanInv'
  <1>1. /\ UNCHANGED <<step, where, limit, plans, cursor, opened, fetched, batch, rows, sent>>
        /\ steady' \subseteq steady
        /\ steady' \subseteq live'
    BY DEF ScanInv, CursorInv, Insert, Delete, queryVars, scanVars, clientVars
  <1>2. PlansInv' /\ FetchInv' /\ SentInv' /\ KeptInv' /\ LimitInv' /\ DoneInv'
    BY <1>1, SameQuery
       DEF ScanInv, PlansInv, FetchInv, SentInv, KeptInv, LimitInv, DoneInv
  <1>3. CursorInv'
    <2>1. \A r \in plans : AtLimit(r)' = AtLimit(r)
      BY <1>1, SameQuery DEF AtLimit
    <2>2. QED
      BY <1>1, <2>1, SameQuery DEF ScanInv, CursorInv
  <1>4. QED
    BY <1>2, <1>3 DEF ScanInv

\* A statement arrives, or is planned.
LEMMA BeginStep ==
    ASSUME ScanInv, NEW preds \in SUBSET Predicates, NEW lim \in Limits \cup {NoLimit},
           Begin(preds, lim), TypeOK'
    PROVE  ScanInv'
  <1>1. /\ plans = {} /\ sent = 0 /\ \A i \in Ids : rows[i] = 0
        /\ UNCHANGED <<live, plans, rows, sent>>
        /\ step' = "plan" /\ limit' = lim /\ steady' = live
    BY DEF ScanInv, PlansInv, Begin, scanVars, clientVars
  <1>2. lim # 0 /\ (lim # NoLimit => 0 <= lim)
    BY ScanAssumption
  <1>3. QED
    BY <1>1, <1>2
       DEF ScanInv, PlansInv, FetchInv, SentInv, KeptInv, LimitInv, CursorInv, DoneInv

LEMMA PlanStep ==
    ASSUME ScanInv, NEW ranges, Plan(ranges), TypeOK',
           \E cuts \in SUBSET Ids : ranges = RangesBetween(cuts),
           pushed_limit # NoLimit => ranges \subseteq {Whole}
    PROVE  ScanInv'
  <1>1. /\ sent = 0 /\ \A i \in Ids : rows[i] = 0
        /\ UNCHANGED <<live, steady, where, limit, rows, sent>>
        /\ step' = "run" /\ plans' = ranges
        /\ steady \subseteq live
    BY DEF ScanInv, PlansInv, CursorInv, Plan, worldVars, clientVars
  <1>2. \A r \in ranges : /\ cursor'[r] = "closed"
                          /\ fetched'[r] = {} /\ batch'[r] = {}
    BY DEF Plan
  <1>3. sent # limit
    BY <1>1, ScanAssumption DEF ScanInv, TypeOK
  <1>4. PlansInv' /\ FetchInv' /\ SentInv' /\ KeptInv' /\ CursorInv' /\ DoneInv'
    BY <1>1, <1>2, SameQuery
       DEF ScanInv, PlansInv, FetchInv, SentInv, KeptInv, CursorInv, DoneInv
  <1>5. LimitInv'
    <2>1. Cardinality({}) = 0 /\ {} \ {} = {}
      BY FS_EmptySet
    <2>2. QED
      BY <1>1, <1>2, <1>3, <2>1, SameQuery DEF ScanInv, LimitInv
  <1>6. QED
    BY <1>4, <1>5 DEF ScanInv

LEMMA PlanSerialStep ==
    ASSUME ScanInv, PlanSerial, TypeOK'
    PROVE  ScanInv'
  BY PlanStep, WholeIsRange DEF PlanSerial, ScanInv

LEMMA PlanSplitStep ==
    ASSUME ScanInv, NEW n \in 2 .. MaxPartitions, PlanSplit(n), TypeOK'
    PROVE  ScanInv'
  <1>1. PICK ids \in Samples : Plan(partition_bounds(ids, n))
    BY DEF PlanSplit
  <1>2. pushed_limit = NoLimit
    BY DEF PlanSplit, pushed_limit
  <1>3. n \in Nat /\ live \subseteq Ids
    BY ScanAssumption DEF ScanInv, TypeOK
  <1>4. \E cuts \in SUBSET Ids : partition_bounds(ids, n) = RangesBetween(cuts)
    BY <1>3, BoundsAreRanges
  <1>5. QED
    BY <1>1, <1>2, <1>4, PlanStep

\* A cursor is opened, or has nothing left, or its partition is finished.
LEMMA CursorStep ==
    ASSUME ScanInv, NEW r \in plans, Open(r) \/ Exhaust(r) \/ Close(r) \/ Fail(r), TypeOK'
    PROVE  ScanInv'
  <1>1. /\ UNCHANGED <<live, steady, where, limit, plans, fetched, batch, rows, sent>>
        /\ step = "run" /\ step' \in {"run", "done", "failed"}
    BY DEF Open, Exhaust, Close, Fail, worldVars, queryVars, scanVars, clientVars
  <1>2. PlansInv' /\ FetchInv' /\ SentInv' /\ KeptInv' /\ LimitInv'
    BY <1>1, SameQuery DEF ScanInv, PlansInv, FetchInv, SentInv, KeptInv, LimitInv
  <1>3. CursorInv'
    <2>1. \A q \in plans : AtLimit(q)' = AtLimit(q) /\ Matching(q)' = Matching(q)
      BY <1>1, SameQuery DEF AtLimit
    <2>2. CASE Open(r)
      BY <1>1, <2>1, <2>2 DEF ScanInv, TypeOK, CursorInv, Open
    <2>3. CASE Exhaust(r)
      <3>1. steady \subseteq live \cap opened[r]
        BY <2>3 DEF ScanInv, CursorInv, Exhaust
      <3>2. AtLimit(r) \/ steady \cap Matching(r) \subseteq fetched[r]
        BY <2>3, <3>1 DEF Exhaust
      <3>3. QED
        BY <1>1, <2>1, <2>3, <3>2 DEF ScanInv, TypeOK, CursorInv, Exhaust
    <2>4. CASE Close(r)
      BY <1>1, <2>1, <2>4 DEF ScanInv, TypeOK, CursorInv, Close
    <2>5. CASE Fail(r)
      BY <1>1, <2>1, <2>5 DEF ScanInv, CursorInv, Fail, scanVars
    <2>6. QED
      BY <2>2, <2>3, <2>4, <2>5
  <1>4. DoneInv'
    <2>1. step' = "done" => Close(r)
      BY <1>1 DEF Open, Exhaust, Fail, queryVars
    <2>2. QED
      BY <1>1, <2>1 DEF DoneInv, Close
  <1>5. QED
    BY <1>2, <1>3, <1>4 DEF ScanInv

LEMMA FetchStep ==
    ASSUME ScanInv, NEW r \in plans, NEW i \in Ids, Fetch(r, i), TypeOK'
    PROVE  ScanInv'
  <1>1. /\ UNCHANGED <<live, steady, step, where, limit, plans, cursor, opened, rows, sent>>
        /\ step = "run" /\ cursor[r] = "open"
        /\ i \in Matching(r) /\ i \notin fetched[r]
        /\ fetched' = [fetched EXCEPT ![r] = @ \cup {i}]
        /\ batch' = [batch EXCEPT ![r] = @ \cup {i}]
    BY DEF Fetch, worldVars, queryVars, clientVars
  <1>2. \A q \in plans : /\ q # r => fetched'[q] = fetched[q] /\ batch'[q] = batch[q]
                         /\ fetched[q] \subseteq fetched'[q]
                         /\ fetched'[q] \ batch'[q] = fetched[q] \ batch[q]
    <2>1. fetched'[r] = fetched[r] \cup {i} /\ batch'[r] = batch[r] \cup {i}
      BY <1>1 DEF ScanInv, TypeOK
    <2>2. \A q \in plans : q # r => fetched'[q] = fetched[q] /\ batch'[q] = batch[q]
      BY <1>1 DEF ScanInv, TypeOK
    <2>3. fetched'[r] \ batch'[r] = fetched[r] \ batch[r]
      BY <1>1, <2>1 DEF ScanInv, FetchInv
    <2>4. QED
      BY <2>1, <2>2, <2>3
  <1>3. PlansInv' /\ SentInv' /\ KeptInv' /\ LimitInv' /\ DoneInv'
    BY <1>1, <1>2, SameQuery
       DEF ScanInv, PlansInv, SentInv, KeptInv, LimitInv, DoneInv
  <1>4. FetchInv'
    BY <1>1, <1>2, SameQuery DEF ScanInv, TypeOK, FetchInv
  <1>5. CursorInv'
    <2>1. \A q \in plans : cursor[q] \in {"ended", "done"} =>
              fetched'[q] = fetched[q] /\ batch'[q] = batch[q]
      BY <1>1, <1>2
    <2>2. \A q \in plans : cursor[q] \in {"ended", "done"} => AtLimit(q)' = AtLimit(q)
      BY <1>1, <2>1, SameQuery DEF AtLimit
    <2>3. QED
      BY <1>1, <2>1, <2>2, SameQuery DEF ScanInv, CursorInv
  <1>6. QED
    BY <1>3, <1>4, <1>5 DEF ScanInv

\* A batch is handed up: what is in it has not been sent before.
LEMMA YieldStep ==
    ASSUME ScanInv, NEW r \in plans, Yield(r), TypeOK'
    PROVE  ScanInv'
  <1>1. /\ UNCHANGED <<live, steady, where, limit, plans, cursor, opened, fetched>>
        /\ step = "run" /\ sent # limit
        /\ batch[r] \in SUBSET Ids
        /\ batch' = [batch EXCEPT ![r] = {}]
        /\ Accept(batch[r])
    BY DEF ScanInv, TypeOK, LimitInv, Yield, worldVars
  <1>2. PICK out \in SUBSET batch[r] :
             /\ \A i \in out : Passes(i)
             /\ \/ \A i \in batch[r] : Passes(i) => i \in out
                \/ sent' = limit
             /\ (limit # NoLimit => sent' <= limit)
             /\ rows' = [i \in Ids |-> IF i \in out THEN rows[i] + 1 ELSE rows[i]]
             /\ sent' = sent + Cardinality(out)
             /\ step' = IF sent' = limit THEN "done" ELSE "run"
    BY <1>1, AcceptEffect DEF ScanInv
  <1>3. /\ batch'[r] = {}
        /\ \A q \in plans : q # r => batch'[q] = batch[q]
        /\ \A q \in plans : fetched[q] \ batch[q] \subseteq fetched[q] \ batch'[q]
    BY <1>1 DEF ScanInv, TypeOK
  <1>4. batch[r] \subseteq fetched[r] /\ fetched[r] \subseteq Matching(r)
    BY DEF ScanInv, FetchInv
  <1>5. \A i \in batch[r] : rows[i] = 0
    <2> SUFFICES ASSUME NEW i \in batch[r], rows[i] # 0 PROVE FALSE
      OBVIOUS
    <2>1. i \in Ids /\ rows[i] > 0
      BY <1>1 DEF ScanInv, TypeOK
    <2>2. PICK q \in plans : i \in fetched[q] \ batch[q]
      BY <2>1 DEF ScanInv, SentInv
    <2>3. InRange(i, r) /\ InRange(i, q)
      BY <1>4, <2>2 DEF ScanInv, FetchInv, Matching
    <2>4. PICK cuts \in SUBSET Ids : plans = RangesBetween(cuts)
      BY <1>1 DEF ScanInv, PlansInv
    <2>5. q = r
      BY <2>1, <2>3, <2>4, RangesDisjoint
    <2>6. QED
      BY <2>2, <2>5
  <1>6. \A i \in Ids : /\ i \in out => rows'[i] = 1
                       /\ i \notin out => rows'[i] = rows[i]
    BY <1>2, <1>5
  <1>7. PlansInv'
    BY <1>1, <1>2, SameQuery DEF ScanInv, PlansInv
  <1>8. FetchInv'
    BY <1>1, <1>3, SameQuery DEF ScanInv, FetchInv
  <1>9. SentInv'
    <2> SUFFICES ASSUME NEW i \in Ids
                 PROVE  /\ rows'[i] <= 1
                        /\ rows'[i] > 0 => /\ Passes(i)
                                           /\ \E q \in plans : i \in fetched[q] \ batch'[q]
      BY <1>1, SameQuery DEF SentInv
    <2>1. CASE i \in out
      BY <1>2, <1>3, <1>4, <1>6, <2>1
    <2>2. CASE i \notin out
      BY <1>3, <1>6, <2>2 DEF ScanInv, SentInv
    <2>3. QED
      BY <2>1, <2>2
  <1>10. KeptInv'
    <2> SUFFICES ASSUME sent' # limit, NEW q \in plans, NEW i \in fetched[q] \ batch'[q],
                        Passes(i)
                 PROVE  rows'[i] > 0
      BY <1>1, SameQuery DEF KeptInv
    <2>1. i \in Ids
      BY DEF ScanInv, TypeOK
    <2>2. CASE i \in fetched[q] \ batch[q]
      <3>1. rows[i] > 0
        BY <1>1, <2>2 DEF ScanInv, KeptInv
      <3>2. QED
        BY <1>6, <2>1, <3>1
    <2>3. CASE q = r /\ i \in batch[r]
      BY <1>2, <1>6, <2>1, <2>3
    <2>4. QED
      BY <1>3, <2>2, <2>3
  <1>11. LimitInv'
    <2>1. ASSUME pushed_limit # NoLimit, sent' # limit, NEW q \in plans
          PROVE  sent' = Cardinality(fetched[q] \ batch'[q])
      <3>1. q = r
        BY <2>1 DEF ScanInv, PlansInv
      <3>2. out = batch[r]
        <4>1. Rechecked = {}
          BY <2>1 DEF pushed_limit, ScanLimit
        <4>2. QED
          BY <1>2, <2>1, <4>1 DEF Passes
      <3> DEFINE before == fetched[r] \ batch[r]
      <3>3. sent = Cardinality(before)
        BY <1>1, <2>1 DEF ScanInv, LimitInv
      <3>4. IsFiniteSet(before) /\ IsFiniteSet(out)
        BY <1>1, SubsetsAreFinite DEF ScanInv, TypeOK
      <3>5. before \cup out = fetched[r] \ batch'[r] /\ before \cap out = {}
        BY <1>3, <1>4, <3>2
      <3>6. Cardinality(before \cup out) = Cardinality(before) + Cardinality(out) - 0
        <4> HIDE DEF before
        <4>1. Cardinality({}) = 0
          BY FS_EmptySet
        <4>2. QED
          BY <3>4, <3>5, <4>1, FS_Union
      <3>7. Cardinality(before) \in Nat /\ Cardinality(out) \in Nat
        BY <3>4, FS_CardinalityType
      <3> HIDE DEF before
      <3>8. sent' = Cardinality(before \cup out)
        BY <1>2, <3>3, <3>6, <3>7
      <3>9. QED
        BY <3>1, <3>5, <3>8
    <2>2. QED
      BY <1>1, <1>2, <2>1, SameQuery DEF LimitInv
  <1>12. CursorInv'
    <2>1. \A q \in plans : AtLimit(q)' = AtLimit(q)
      BY <1>1, SameQuery DEF AtLimit
    <2>2. QED
      BY <1>1, <1>3, <2>1, SameQuery DEF ScanInv, CursorInv
  <1>13. DoneInv'
    BY <1>1, <1>2 DEF DoneInv
  <1>14. QED
    BY <1>7, <1>8, <1>9, <1>10, <1>11, <1>12, <1>13 DEF ScanInv

LEMMA StutterStep ==
    ASSUME ScanInv, UNCHANGED vars
    PROVE  ScanInv'
  <1>1. UNCHANGED <<live, born, changes, steady, step, where, limit, plans, cursor, opened,
                    fetched, batch, rows, sent>>
    BY DEF vars, worldVars, queryVars, scanVars, clientVars
  <1>2. TypeOK'
    BY <1>1 DEF ScanInv, TypeOK
  <1>3. PlansInv' /\ FetchInv' /\ SentInv' /\ KeptInv' /\ LimitInv' /\ DoneInv'
    BY <1>1, SameQuery
       DEF ScanInv, PlansInv, FetchInv, SentInv, KeptInv, LimitInv, DoneInv
  <1>4. \A r \in plans : AtLimit(r)' = AtLimit(r)
    BY <1>1, SameQuery DEF AtLimit
  <1>5. CursorInv'
    BY <1>1, <1>4, SameQuery DEF ScanInv, CursorInv
  <1>6. QED
    BY <1>2, <1>3, <1>5 DEF ScanInv

LEMMA Invariant == Spec => []ScanInv
  <1>1. ASSUME ScanInv, TypeOK', Next PROVE ScanInv'
    BY <1>1, WorldStep, BeginStep, PlanSerialStep, PlanSplitStep, CursorStep, FetchStep,
       YieldStep DEF Next, ScanStep
  <1>2. ScanInv /\ TypeOK' /\ [Next]_vars => ScanInv'
    BY <1>1, StutterStep
  <1>3. QED
    BY <1>2, InitInv, TypeCorrect, PTL DEF Spec
-------------------------------------------------------------------------------
\* pipeline.rs:148-149: no document is sent twice, whatever was sampled and
\* whatever comes and goes meanwhile.
THEOREM RowsAreSentOnce == Spec => []AtMostOnce
  <1>1. ScanInv => AtMostOnce
    BY DEF ScanInv, SentInv, AtMostOnce
  <1>2. QED
    BY <1>1, Invariant, PTL

\* provider.rs:79-85: nothing reaches the client that SQL does not ask for, if
\* translate() keeps its promise and filters are pushed down.
THEOREM NothingUnwanted == Spec => []OnlyWanted
  <1>1. ScanInv => OnlyWanted
    <2> SUFFICES ASSUME ScanInv, PushFilters, NEW i \in Ids, rows[i] > 0,
                        NEW p \in where
                 PROVE  i \in p.sql
      BY DEF OnlyWanted, Wanted
    <2>1. PICK r \in plans : Passes(i) /\ i \in fetched[r]
      BY DEF ScanInv, SentInv
    <2>2. i \in Matching(r)
      BY <2>1 DEF ScanInv, FetchInv
    <2>3. CASE p.claim = "Exact"
      <3>1. p \in pushed /\ p \in Predicates
        BY <2>3 DEF pushed, ScanInv, TypeOK
      <3>2. QED
        BY <2>2, <2>3, <3>1, ScanAssumption DEF Matching
    <2>4. CASE p.claim # "Exact"
      BY <2>1, <2>4 DEF Passes, Rechecked
    <2>5. QED
      BY <2>3, <2>4
  <1>2. QED
    BY <1>1, Invariant, PTL

\* pipeline.rs:148-173: a query that ends normally has sent every row that was
\* there all along or filled its LIMIT, when _ids are of one type.
THEOREM NothingLost == Spec => []NoneLost
  <1>1. ScanInv => NoneLost
    <2> SUFFICES ASSUME ScanInv, OneKind, step = "done", sent # limit,
                        NEW i \in steady \cap Wanted
                 PROVE  rows[i] > 0
      BY DEF NoneLost
    <2>1. i \in Ids /\ \A p \in where : i \in p.sql
      BY DEF Wanted
    <2>2. PICK cuts \in SUBSET Ids : plans = RangesBetween(cuts)
      BY DEF ScanInv, PlansInv
    <2>3. PICK r \in plans : InRange(i, r)
      BY <2>1, <2>2, RangesCover
    <2>4. i \in Matching(r)
      <3>1. \A p \in pushed : p \in where /\ p \in Predicates
        BY DEF pushed, ScanInv, TypeOK
      <3>2. QED
        BY <2>1, <2>3, <3>1, ScanAssumption DEF Matching
    <2>5. cursor[r] = "done" /\ batch[r] = {}
      BY DEF ScanInv, DoneInv, CursorInv
    <2>6. ~AtLimit(r)
      <3> SUFFICES ASSUME pushed_limit # NoLimit, Cardinality(fetched[r]) >= pushed_limit
                   PROVE  FALSE
        BY DEF AtLimit
      <3>1. pushed_limit = limit /\ limit \in Nat
        BY ScanAssumption DEF pushed_limit, ScanLimit, ScanInv, TypeOK
      <3>2. fetched[r] \ batch[r] = fetched[r]
        BY <2>5
      <3>3. sent = Cardinality(fetched[r])
        BY <3>2 DEF ScanInv, LimitInv
      <3>4. QED
        BY <3>1, <3>3 DEF ScanInv, LimitInv, TypeOK
    <2>7. i \in fetched[r] \ batch[r]
      BY <2>4, <2>5, <2>6 DEF ScanInv, CursorInv
    <2>8. Passes(i)
      BY <2>1 DEF Passes, Rechecked
    <2>9. QED
      BY <2>7, <2>8 DEF ScanInv, KeptInv
  <1>2. QED
    BY <1>1, Invariant, PTL
-------------------------------------------------------------------------------
(***************************************************************************)
(* What ScanEnds rests on besides fairness: every step of a partition uses *)
(* up some of a finite amount of work, no other step adds to it, and until *)
(* the query ends there is a partition that is not done, and none that is  *)
(* not done is without a step to take.                                     *)
(***************************************************************************)

\* Steps a cursor has ahead of it.
Stage(c) == IF c = "closed" THEN 3 ELSE IF c = "open" THEN 2 ELSE IF c = "ended" THEN 1 ELSE 0

\* What a partition has left to do: each document is fetched once and may open
\* a batch, which is then to be yielded.
Work(r) ==
    2 * Cardinality(Ids \ fetched[r]) + (IF batch[r] = {} THEN 0 ELSE 1) + Stage(cursor[r])

LEMMA WorkIsNatural == TypeOK => \A r \in plans : Work(r) \in Nat
  <1> SUFFICES ASSUME TypeOK, NEW r \in plans PROVE Work(r) \in Nat
    OBVIOUS
  <1>1. Cardinality(Ids \ fetched[r]) \in Nat
    BY SubsetsAreFinite
  <1>2. QED
    BY <1>1 DEF Work, Stage

\* A step of a partition does some of its work.
LEMMA StepDoesWork ==
    ASSUME TypeOK, NEW r \in plans, ScanStep(r)
    PROVE  Work(r)' < Work(r)
  <1> DEFINE left == Cardinality(Ids \ fetched[r])
  <1>0. r \in DOMAIN cursor /\ r \in DOMAIN fetched /\ r \in DOMAIN batch /\ left \in Nat
    BY SubsetsAreFinite DEF TypeOK
  <1>1. CASE Open(r) \/ Exhaust(r) \/ Close(r)
    <2>1. UNCHANGED <<fetched, batch>>
      BY <1>1 DEF Open, Exhaust, Close
    <2>2. Stage(cursor'[r]) + 1 = Stage(cursor[r])
      BY <1>0, <1>1 DEF Open, Exhaust, Close, Stage
    <2>3. Stage(cursor[r]) \in Nat /\ Stage(cursor'[r]) \in Nat
      BY DEF Stage
    <2> HIDE DEF left
    <2>4. left' = left
      BY <2>1 DEF left
    <2>5. QED
      BY <1>0, <2>1, <2>2, <2>3, <2>4 DEF Work, left
  <1>2. ASSUME NEW i \in Ids, Fetch(r, i) PROVE Work(r)' < Work(r)
    <2>1. /\ i \notin fetched[r] /\ fetched'[r] = fetched[r] \cup {i}
          /\ batch'[r] # {} /\ UNCHANGED cursor
      BY <1>0, <1>2 DEF Fetch
    <2>2. Ids \ fetched'[r] = (Ids \ fetched[r]) \ {i} /\ i \in Ids \ fetched[r]
      BY <2>1
    <2>3. IsFiniteSet(Ids \ fetched[r])
      BY SubsetsAreFinite
    <2>4. left' = left - 1
      BY <2>2, <2>3, FS_RemoveElement
    <2>5. Stage(cursor[r]) \in Nat
      BY DEF Stage
    <2> HIDE DEF left
    <2>6. QED
      BY <1>0, <2>1, <2>4, <2>5 DEF Work, left
  <1>3. CASE Yield(r)
    <2>1. batch[r] # {} /\ batch'[r] = {} /\ UNCHANGED <<fetched, cursor>>
      BY <1>0, <1>3 DEF Yield
    <2>2. Stage(cursor[r]) \in Nat
      BY DEF Stage
    <2> HIDE DEF left
    <2>3. left' = left
      BY <2>1 DEF left
    <2>4. QED
      BY <1>0, <2>1, <2>2, <2>3 DEF Work, left
  <1>4. QED
    BY <1>1, <1>2, <1>3 DEF ScanStep

\* A step of anybody else gives a running partition no more to do.
LEMMA OthersAddNone ==
    ASSUME TypeOK, [Next]_vars, step = "run", NEW r \in plans, ~ScanStep(r)
    PROVE  UNCHANGED <<plans, fetched[r], batch[r], cursor[r]>>
  <1>1. ASSUME NEW q \in plans, ScanStep(q)
        PROVE  UNCHANGED <<plans, fetched[r], batch[r], cursor[r]>>
    <2>1. q # r
      BY <1>1
    <2>2. r \in DOMAIN cursor /\ r \in DOMAIN fetched /\ r \in DOMAIN batch
      BY DEF TypeOK
    <2>3. UNCHANGED plans
      BY <1>1 DEF ScanStep, Open, Fetch, Exhaust, Yield, Close, queryVars
    <2>4. CASE Open(q) \/ Exhaust(q) \/ Close(q)
      BY <2>1, <2>2, <2>3, <2>4 DEF Open, Exhaust, Close
    <2>5. CASE Yield(q) \/ \E i \in Ids : Fetch(q, i)
      BY <2>1, <2>2, <2>3, <2>5 DEF Yield, Fetch
    <2>6. QED
      BY <1>1, <2>4, <2>5 DEF ScanStep
  <1>2. QED
    BY <1>1 DEF Next, Insert, Delete, Begin, PlanSerial, PlanSplit, Plan, Fail, vars,
                queryVars, scanVars

\* exec.rs:168-226: polling a partition always gets it nearer to its end, by a
\* measure that no other partition and no change of the collection puts back.
THEOREM EveryPollCounts ==
    Spec => /\ [](\A r \in plans : Work(r) \in Nat)
            /\ [][step = "run" => \A r \in plans : /\ Work(r)' <= Work(r)
                                                   /\ ScanStep(r) => Work(r)' < Work(r)]_vars
  <1>0. TypeOK' => (\A r \in plans : Work(r) \in Nat)'
    BY WorkIsNatural, PTL
  <1>1. TypeOK /\ TypeOK' /\ [Next]_vars
            => [step = "run" => \A r \in plans : /\ Work(r)' <= Work(r)
                                                 /\ ScanStep(r) => Work(r)' < Work(r)]_vars
    <2> SUFFICES ASSUME TypeOK, TypeOK', [Next]_vars, step = "run", NEW r \in plans
                 PROVE  Work(r)' <= Work(r) /\ (ScanStep(r) => Work(r)' < Work(r))
      OBVIOUS
    <2>1. Work(r) \in Nat
      BY WorkIsNatural
    <2>2. CASE ScanStep(r)
      <3>1. UNCHANGED plans
        BY <2>2 DEF ScanStep, Open, Fetch, Exhaust, Yield, Close, queryVars
      <3>2. Work(r)' \in Nat
        BY <1>0, <3>1
      <3>3. QED
        BY <2>1, <2>2, <3>2, StepDoesWork
    <2>3. CASE ~ScanStep(r)
      <3>1. Work(r)' = Work(r)
        BY <2>3, OthersAddNone DEF Work
      <3>2. QED
        BY <2>1, <2>3, <3>1
    <2>4. QED
      BY <2>2, <2>3
  <1>2. QED
    BY <1>1, WorkIsNatural, TypeCorrect, PTL DEF Spec
(***************************************************************************)
(* The guards of ScanStep, disjunct by disjunct.                           *)
(***************************************************************************)

\* The operators above can take these documents: there are rows to reach the
\* LIMIT with, if the batch would exceed it.
CanAccept(docs) ==
    LET kept == {i \in docs : Passes(i)} IN
    \E out \in SUBSET kept : IF limit = NoLimit \/ sent + Cardinality(kept) <= limit
                             THEN out = kept
                             ELSE sent + Cardinality(out) = limit

CanOpen(r) == cursor[r] = "closed"

CanFetch(r) == /\ cursor[r] = "open"
               /\ Cardinality(batch[r]) < BatchSize
               /\ ~AtLimit(r)
               /\ (Matching(r) \cap live) \ fetched[r] # {}

CanExhaust(r) == /\ cursor[r] = "open"
                 /\ Cardinality(batch[r]) < BatchSize
                 /\ AtLimit(r) \/ Matching(r) \cap live \cap opened[r] \subseteq fetched[r]

CanYield(r) == /\ batch[r] # {}
               /\ Cardinality(batch[r]) = BatchSize \/ cursor[r] = "ended"
               /\ CanAccept(batch[r])

CanClose(r) == cursor[r] = "ended" /\ batch[r] = {}

CanStep(r) == CanOpen(r) \/ CanFetch(r) \/ CanExhaust(r) \/ CanYield(r) \/ CanClose(r)

\* While the query runs somebody is not done, and nobody who is not done waits.
NobodyIsStuck ==
    step = "run" => /\ \E r \in plans : cursor[r] # "done"
                    /\ \A r \in plans : cursor[r] # "done" => CanStep(r)

StuckInv ==
    /\ \A r \in plans : Cardinality(batch[r]) <= BatchSize
    /\ step = "run" => \E r \in plans : cursor[r] # "done"

\* A finite set has subsets of every smaller size.
LEMMA SubsetOfSize ==
    ASSUME NEW S, IsFiniteSet(S), NEW n \in Nat, n <= Cardinality(S)
    PROVE  \E T \in SUBSET S : Cardinality(T) = n
  <1> DEFINE Sizes == {Cardinality(T) : T \in {U \in SUBSET S : n <= Cardinality(U)}}
  <1>1. \A U \in SUBSET S : IsFiniteSet(U) /\ Cardinality(U) \in Nat
    BY FS_Subset, FS_CardinalityType
  <1>2. Sizes \in SUBSET Nat /\ Sizes # {}
    BY <1>1
  <1>3. PICK m \in Sizes : \A k \in Sizes : m <= k
    BY <1>2, LeastNatural
  <1>4. PICK T \in SUBSET S : Cardinality(T) = m /\ n <= m
    BY <1>3
  <1>5. ASSUME n < m PROVE FALSE
    <2>1. T # {}
      BY <1>4, <1>5, FS_EmptySet
    <2>2. PICK x \in T : TRUE
      BY <2>1
    <2>3. Cardinality(T \ {x}) = m - 1
      BY <1>1, <1>4, <2>2, FS_RemoveElement
    <2>4. m \in Nat
      BY <1>1, <1>4
    <2>5. m - 1 \in Sizes
      BY <1>5, <2>3, <2>4
    <2>6. m <= m - 1
      BY <1>3, <2>5
    <2>7. QED
      BY <2>4, <2>6
  <1>6. QED
    BY <1>1, <1>4, <1>5

\* The open-ended range below the least cut is always there.
LEMMA RangesNotEmpty ==
    ASSUME NEW cuts \in SUBSET Ids
    PROVE  RangesBetween(cuts) # {}
  <1>1. cuts \in SUBSET Nat /\ 0 \notin cuts
    BY DEF Ids
  <1>2. CASE cuts = {}
    BY <1>2, WholeIsRange
  <1>3. CASE cuts # {}
    <2>1. PICK c \in cuts : \A d \in cuts : c <= d
      BY <1>1, <1>3, LeastNatural
    <2>2. [lo |-> 0, hi |-> c] \in RangesBetween(cuts)
      BY <1>1, <2>1 DEF RangesBetween
    <2>3. QED
      BY <2>2
  <1>4. QED
    BY <1>2, <1>3

LEMMA StuckStep ==
    ASSUME ScanInv, ScanInv', StuckInv, [Next]_vars
    PROVE  StuckInv'
  <1>0. TypeOK /\ BatchSize \in Nat \ {0}
    BY ScanAssumption DEF ScanInv
  <1>1. ASSUME NEW ranges, Plan(ranges) PROVE StuckInv'
    <2>1. step' = "run" /\ plans' = ranges /\ \A r \in plans' : batch'[r] = {}
          /\ cursor'[r] = "closed"
      BY <1>1 DEF Plan
    <2>2. plans' # {}
      BY <2>1, RangesNotEmpty DEF ScanInv, PlansInv
    <2>3. Cardinality({}) = 0
      BY FS_EmptySet
    <2>4. QED
      BY <1>0, <2>1, <2>2, <2>3 DEF StuckInv
  <1>2. ASSUME NEW r \in plans, Open(r) \/ Exhaust(r) \/ Close(r) \/ Fail(r) PROVE StuckInv'
    <2>1. UNCHANGED <<plans, batch>> /\ r \in DOMAIN cursor
      BY <1>0, <1>2 DEF Open, Exhaust, Close, Fail, queryVars, scanVars, TypeOK
    <2>2. step' = "run" => \E q \in plans : cursor'[q] # "done"
      BY <1>2, <2>1 DEF Open, Exhaust, Close, Fail
    <2>3. QED
      BY <2>1, <2>2 DEF StuckInv
  <1>3. ASSUME NEW r \in plans, NEW i \in Ids, Fetch(r, i) PROVE StuckInv'
    <2>1. /\ UNCHANGED <<step, plans, cursor>> /\ r \in DOMAIN batch
          /\ batch' = [batch EXCEPT ![r] = @ \cup {i}]
          /\ Cardinality(batch[r]) < BatchSize
      BY <1>0, <1>3 DEF Fetch, queryVars, TypeOK
    <2>2. IsFiniteSet(batch[r]) /\ Cardinality(batch[r]) \in Nat
      BY <1>0, SubsetsAreFinite DEF TypeOK
    <2>3. Cardinality(batch[r] \cup {i}) <= BatchSize
      <3>1. Cardinality(batch[r] \cup {i})
            \in {Cardinality(batch[r]), Cardinality(batch[r]) + 1}
        BY <2>2, FS_AddElement
      <3>2. QED
        BY <1>0, <2>1, <2>2, <3>1
    <2>4. QED
      BY <2>1, <2>3 DEF StuckInv
  <1>4. ASSUME NEW r \in plans, Yield(r) PROVE StuckInv'
    <2>1. /\ step = "run" /\ UNCHANGED <<plans, cursor>> /\ r \in DOMAIN batch
          /\ batch' = [batch EXCEPT ![r] = {}]
      BY <1>0, <1>4 DEF Yield, TypeOK
    <2>2. Cardinality({}) = 0
      BY FS_EmptySet
    <2>3. QED
      BY <1>0, <2>1, <2>2 DEF StuckInv
  <1>5. ASSUME \/ \E i \in Ids : Insert(i) \/ Delete(i)
               \/ \E preds \in SUBSET Predicates, lim \in Limits \cup {NoLimit} :
                      Begin(preds, lim)
               \/ UNCHANGED vars
        PROVE  StuckInv'
    <2>1. UNCHANGED <<plans, batch, cursor>> /\ (step' = "run" => step = "run")
      BY <1>5 DEF Insert, Delete, Begin, vars, queryVars, scanVars
    <2>2. QED
      BY <2>1 DEF StuckInv
  <1>6. QED
    BY <1>1, <1>2, <1>3, <1>4, <1>5 DEF Next, ScanStep, PlanSerial, PlanSplit

\* exec.rs:168-226, provider.rs:157-165: while a query runs, some partition is
\* not at its end, and each of those can open its cursor, read a document or
\* the end, hand over its batch, however much of it the LIMIT still takes, or
\* end.  Nothing but the server is ever waited for.
THEOREM NoPartitionIsStuck == Spec => []NobodyIsStuck
  <1>1. Init => StuckInv
    BY DEF Init, StuckInv
  <1>2. ScanInv /\ StuckInv => NobodyIsStuck
    <2> SUFFICES ASSUME ScanInv, StuckInv, step = "run", NEW r \in plans, cursor[r] # "done",
                        ~CanOpen(r), ~CanFetch(r), ~CanExhaust(r), ~CanClose(r)
                 PROVE  CanYield(r)
      BY DEF StuckInv, NobodyIsStuck, CanStep
    <2> DEFINE kept == {i \in batch[r] : Passes(i)}
    <2>1. /\ cursor[r] \in {"open", "ended"} /\ batch[r] \in SUBSET Ids /\ sent \in Nat
          /\ BatchSize \in Nat \ {0}
      BY ScanAssumption DEF ScanInv, TypeOK, CanOpen
    <2>2. Cardinality(batch[r]) \in Nat /\ IsFiniteSet(kept) /\ Cardinality(kept) \in Nat
      BY <2>1, SubsetsAreFinite
    <2>3. Cardinality(batch[r]) = BatchSize \/ cursor[r] = "ended"
      <3>1. cursor[r] = "open" => ~(Cardinality(batch[r]) < BatchSize)
        BY DEF CanFetch, CanExhaust
      <3>2. QED
        BY <2>1, <2>2, <3>1 DEF StuckInv
    <2>4. batch[r] # {}
      <3>1. Cardinality({}) = 0
        BY FS_EmptySet
      <3>2. QED
        BY <2>1, <2>3, <3>1 DEF CanClose
    <2>5. CanAccept(batch[r])
      <3>1. CASE limit = NoLimit \/ sent + Cardinality(kept) <= limit
        BY <3>1 DEF CanAccept
      <3>2. CASE ~(limit = NoLimit \/ sent + Cardinality(kept) <= limit)
        <4>1. limit \in Nat /\ sent <= limit
          BY <3>2, ScanAssumption DEF ScanInv, TypeOK, LimitInv
        <4> HIDE DEF kept
        <4>2. limit - sent \in Nat /\ limit - sent <= Cardinality(kept)
          BY <2>1, <2>2, <3>2, <4>1
        <4>3. PICK out \in SUBSET kept : Cardinality(out) = limit - sent
          BY <2>2, <4>2, SubsetOfSize
        <4>4. sent + Cardinality(out) = limit
          BY <2>1, <4>1, <4>3
        <4>5. QED
          BY <3>2, <4>4 DEF CanAccept, kept
      <3>3. QED
        BY <3>1, <3>2
    <2>6. QED
      BY <2>3, <2>4, <2>5 DEF CanYield
  <1>3. ScanInv /\ ScanInv' /\ StuckInv /\ [Next]_vars => StuckInv'
    BY StuckStep
  <1>4. QED
    BY <1>1, <1>2, <1>3, Invariant, PTL DEF Spec
===============================================================================
