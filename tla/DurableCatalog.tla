---------------------------- MODULE DurableCatalog ----------------------------
(***************************************************************************)
(* What the catalog store promises its callers, without files: a map from  *)
(* tables to schema versions that lives in memory, and a durable copy of   *)
(* it that only ever moves forward, is never ahead of memory, and is what  *)
(* a restart begins from (src/src/catalog/store.rs, the module comment and *)
(* the comment in persist()).                                              *)
(*                                                                         *)
(* A version is a natural number that grows with every put; 0 means that   *)
(* the table is not in the map.                                            *)
(***************************************************************************)
EXTENDS Naturals

CONSTANT Tables

VARIABLES
    live,      \* the map queries are planned from
    durable    \* the map a restart would find

vars == <<live, durable>>

Catalogs == [Tables -> Nat]

NoTables == [t \in Tables |-> 0]

\* c holds no table that d lacks, and no newer version of one.
Below(c, d) == \A t \in Tables : c[t] <= d[t]

Init == live = NoTables /\ durable = NoTables

\* A table gets a newer version; every other table keeps its own.
Put == /\ \E t \in Tables : /\ live'[t] > live[t]
                            /\ live' = [live EXCEPT ![t] = live'[t]]
       /\ UNCHANGED durable

\* The durable copy is replaced, as a whole, by a later and complete map.
Checkpoint == /\ Below(durable, durable')
              /\ Below(durable', live)
              /\ UNCHANGED live

\* The process dies and comes back with exactly what was durable.
Restart == live' = durable /\ UNCHANGED durable

Next == Put \/ Checkpoint \/ Restart

Spec == Init /\ [][Next]_vars
===============================================================================
