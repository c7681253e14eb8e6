------------------------------- MODULE MCLaunch -------------------------------
(***************************************************************************)
(* Instances of Launch small enough for TLC.                               *)
(***************************************************************************)
EXTENDS Launch, TLC

FleetSymmetry == Permutations(Servers) \cup Permutations(PrivateKeys)
=============================================================================
