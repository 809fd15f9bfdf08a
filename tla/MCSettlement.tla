---------------------------- MODULE MCSettlement ----------------------------
(* Instances of Settlement for TLC. *)
EXTENDS Settlement, TLC

Symmetry == Permutations(Workers) \cup Permutations(Handlers)
              \cup Permutations(Charges)
=============================================================================
