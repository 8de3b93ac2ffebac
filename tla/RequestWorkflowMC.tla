------------------------- MODULE RequestWorkflowMC -------------------------
(* Instances of RequestWorkflow for TLC. *)
EXTENDS RequestWorkflow, TLC

Symmetry == Permutations(Calls) \cup Permutations(Sweepers)
=============================================================================
