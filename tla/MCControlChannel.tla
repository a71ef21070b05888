-------------------------- MODULE MCControlChannel --------------------------
(* Small instances of ControlChannel. *)
EXTENDS ControlChannel, TLC

Symmetry == Permutations(Calls)
=============================================================================
