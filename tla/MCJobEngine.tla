---------------------------- MODULE MCJobEngine ----------------------------
(* Model-checking instance of JobEngine. *)
EXTENDS JobEngine, TLC

\* Jobs and lives are interchangeable (used for safety runs only).
Symmetry == Permutations(Jobs) \cup Permutations(Procs)
=============================================================================
