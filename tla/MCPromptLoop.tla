----------------------------- MODULE MCPromptLoop -----------------------------
EXTENDS PromptLoop, TLC

Symmetry == Permutations(Prompts) \cup Permutations(Notes)
=============================================================================
