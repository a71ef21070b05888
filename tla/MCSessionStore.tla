--------------------------- MODULE MCSessionStore ---------------------------
EXTENDS SessionStore, TLC
Symmetry == Permutations(Procs \ {Creator}) \cup Permutations(Runs)
=============================================================================
