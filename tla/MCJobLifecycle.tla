--------------------------- MODULE MCJobLifecycle ---------------------------
(* Instances of JobLifecycle for TLC. *)
EXTENDS JobLifecycle, TLC

Symmetry == Permutations(Workers) \cup Permutations(Requests)
=============================================================================
