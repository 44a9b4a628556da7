---------------------------- MODULE MCCatalogLookup ----------------------------
(***************************************************************************)
(* CatalogLookup with one SQL session and one HTTP client, or two sessions.*)
(***************************************************************************)
EXTENDS CatalogLookup, TLC

Symmetry == Permutations(Shapes) \cup Permutations(Tables)
===============================================================================
