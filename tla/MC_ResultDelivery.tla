------------------------- MODULE MC_ResultDelivery -------------------------
(* Small instances of ResultDelivery for TLC. *)
EXTENDS ResultDelivery, TLC

Symmetry == Permutations(Results)
=============================================================================
