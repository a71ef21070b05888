------------------------ MODULE MCWriteTransaction ------------------------
(* Two relations are enough for one file to fail while the other is whole. *)
EXTENDS WriteTransaction

=============================================================================
