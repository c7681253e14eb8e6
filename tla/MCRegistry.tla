------------------------------ MODULE MCRegistry ------------------------------
(***************************************************************************)
(* Instances of Registry small enough for TLC.                             *)
(***************************************************************************)
EXTENDS Registry, TLC

RequestSymmetry == Permutations(Requests)
=============================================================================
