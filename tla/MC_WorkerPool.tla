--------------------------- MODULE MC_WorkerPool ---------------------------
(* WorkerPool for model checking: worker objects are interchangeable. *)
EXTENDS WorkerPool, TLC
Symmetry == Permutations(Ids)
=============================================================================
