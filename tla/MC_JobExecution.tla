-------------------------- MODULE MC_JobExecution --------------------------
(* JobExecution for model checking: the symmetry of workers and of jobs.
   Every job wants a result, so all jobs are alike. *)
EXTENDS JobExecution, TLC
Symmetry == Permutations(Workers) \cup Permutations(Jobs)
=============================================================================
