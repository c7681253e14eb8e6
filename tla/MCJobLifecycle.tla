--------------------------- MODULE MCJobLifecycle ---------------------------
(***************************************************************************)
(* Instances of JobLifecycle small enough for TLC.                         *)
(***************************************************************************)
EXTENDS JobLifecycle, TLC

\* Workers are interchangeable; jobs of one kind and servers are used one by
\* one in most models and need no symmetry.
WorkerSymmetry == Permutations(Workers)
=============================================================================
