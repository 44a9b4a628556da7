---------------------------- MODULE MCSchemaLattice ----------------------------
(***************************************************************************)
(* SchemaLattice with two interchangeable samplers.                        *)
(***************************************************************************)
EXTENDS SchemaLattice, TLC

Symmetry == Permutations(Samplers)
===============================================================================
