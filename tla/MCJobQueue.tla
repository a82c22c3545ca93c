---------------------------- MODULE MCJobQueue ----------------------------
(***************************************************************************)
(* Instances of JobQueue for TLC: all jobs work on messages of one key, so *)
(* that every pair of jobs competes for it.                                *)
(***************************************************************************)
EXTENDS JobQueueRefinement, TLC

CONSTANTS k1

OneKey == [j \in Jobs |-> k1]
Symmetry == Permutations(Jobs) \cup Permutations(Workers)
=============================================================================
