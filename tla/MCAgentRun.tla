----------------------------- MODULE MCAgentRun -----------------------------
(* Instances of AgentRun small enough for TLC. *)
EXTENDS AgentRun, TLC

Symmetry == Permutations(Callers)
=============================================================================
