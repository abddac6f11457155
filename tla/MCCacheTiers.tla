----------------------------- MODULE MCCacheTiers -----------------------------
(* Model-checking instance of CacheTiers. *)
EXTENDS CacheTiers, TLC

Symmetry == Permutations(Procs) \cup Permutations(Keys) \cup Permutations(Requests)
=============================================================================
