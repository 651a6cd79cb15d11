----------------------------- MODULE MCJobAdmin -----------------------------
(* Small instances of JobAdmin. *)
EXTENDS JobAdmin, TLC
Symmetry == Permutations(Procs) \cup Permutations(Ops)
=============================================================================
