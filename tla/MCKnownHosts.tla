---------------------------- MODULE MCKnownHosts ----------------------------
(***************************************************************************)
(* Instances of KnownHosts small enough for TLC.                           *)
(***************************************************************************)
EXTENDS KnownHosts, TLC

CONSTANTS h1, k1

\* What text files hold: one line that would do for known_hosts.
TextFiles == {[host |-> h1, key |-> k1]}

RequestSymmetry == Permutations(Requests)
=============================================================================
