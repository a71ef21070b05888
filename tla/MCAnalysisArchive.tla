------------------------- MODULE MCAnalysisArchive -------------------------
(* Small instances of AnalysisArchive. *)
EXTENDS AnalysisArchive, TLC

Symmetry == Permutations(Procs) \cup Permutations(Runs) \cup Permutations(Ids)
=============================================================================
