-------------------------- MODULE MCRevisionStore --------------------------
(* Two processes and two records; one of them may be followed by itself,   *)
(* the other may not, so that a successor check can refuse.                *)
EXTENDS RevisionStore, TLC

MCValidSuccessor(a, b) == a # b \/ a = CHOOSE r \in Records : TRUE

Symmetry == Permutations(Procs)
=============================================================================
