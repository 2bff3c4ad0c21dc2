------------------------------ MODULE MCRelay ------------------------------
EXTENDS Relay
CONSTANTS q1
MCBodies == {q1}
=============================================================================
