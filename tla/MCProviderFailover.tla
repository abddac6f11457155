------------------------- MODULE MCProviderFailover -------------------------
(* Model-checking instance of ProviderFailover. *)
EXTENDS ProviderFailover, TLC

CONSTANTS p1, p2, p3

Two == <<p1, p2>>
Three == <<p1, p2, p3>>

Symmetry == Permutations(Calls)
=============================================================================
