---------------------------- MODULE MCCatalogStore ----------------------------
(***************************************************************************)
(* CatalogStore with two or three threads in put(); tables and writers are *)
(* interchangeable.                                                        *)
(***************************************************************************)
EXTENDS CatalogStore, TLC

Symmetry == Permutations(Writers) \cup Permutations(Tables)
===============================================================================
