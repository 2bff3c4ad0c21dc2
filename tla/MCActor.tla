------------------------------- MODULE MCActor -------------------------------
(* An instance of Actor small enough for TLC. *)
EXTENDS Actor

CONSTANTS p, c   \* an actor of the main agent and the actor it spawns

Family == [a \in {p, c} |-> IF a = p THEN Main ELSE p]
=============================================================================
