----------------------------- MODULE GcpBindingMC -----------------------------
(* Instances of GcpBinding for TLC. *)
EXTENDS GcpBinding, TLC

Symmetry == Permutations(Calls)
=============================================================================
