----------------------------- MODULE MCWorkflow -----------------------------
(***************************************************************************)
(* A workflow for TLC: its script asks for an agent and for a child run.   *)
(***************************************************************************)
EXTENDS Workflow, TLC

CONSTANTS p, c, x, y, a

TreeBody == (p :> {x, y}) @@ (c :> {})
TreeAsks == (x :> "agent") @@ (y :> c)
=============================================================================
