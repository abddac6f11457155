---------------------------- MODULE MCHealAndScore ----------------------------
(* Model-checking instance of HealAndScore: all settings. *)
EXTENDS HealAndScore, TLC

AllSettings == [{"sandbox", "self_heal", "quality", "mutation"} -> BOOLEAN]

Symmetry == Permutations(Mutants)
=============================================================================
