--------------------------- MODULE NamedBindingMC ---------------------------
(* Instances of NamedBinding for TLC. *)
EXTENDS NamedBinding, TLC

CONSTANTS k1, z1, z2, z3, z4, editor, owner, reader

\* Two requests for Azure ask for the same.
AsksAlike ==
  k1 :> editor @@ z1 :> editor @@ z2 :> editor @@ z3 :> owner @@ z4 :> reader

Symmetry == Permutations(Calls)
=============================================================================
