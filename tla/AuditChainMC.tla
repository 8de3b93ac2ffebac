----------------------------- MODULE AuditChainMC -----------------------------
(* Instances of AuditChain for TLC. *)
EXTENDS AuditChain, TLC

Symmetry == Permutations(Appenders)
=============================================================================
