-------------------------- MODULE MCSessionRunState --------------------------
EXTENDS SessionRunState, TLC

Symmetry == Permutations(Callers) \cup Permutations(Cancellers)
=============================================================================
