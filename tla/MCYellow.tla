------------------------------ MODULE MCYellow ------------------------------
(* Instances of Yellow small enough for TLC. *)
EXTENDS Yellow
=============================================================================
