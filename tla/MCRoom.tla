------------------------------- MODULE MCRoom -------------------------------
(* Instances of Room small enough for TLC. *)
EXTENDS Room
=============================================================================
