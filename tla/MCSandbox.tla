------------------------------ MODULE MCSandbox ------------------------------
(* Model-checking instance of Sandbox. *)
EXTENDS Sandbox
=============================================================================
