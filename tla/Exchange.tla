------------------------------- MODULE Exchange -------------------------------
(***************************************************************************)
(* What remote access promises the web: a request is answered with a       *)
(* prefix of the reply the local server produces, chunk by chunk, and a    *)
(* response that ends well is the whole of it.  Everything else is an      *)
(* error the caller sees.                                                  *)
(***************************************************************************)
EXTENDS Naturals

CONSTANT Requests

VARIABLES
    web,       \* what the caller of each request has seen
    received,  \* how many chunks of the reply it got
    produced,  \* how many chunks the local server produced
    complete   \* the requests whose reply the local server has completed

vars == <<web, received, produced, complete>>

Over == {"whole", "broken", "failed", "gone"}

Init ==
    /\ web = [r \in Requests |-> "new"]
    /\ received = [r \in Requests |-> 0]
    /\ produced = [r \in Requests |-> 0]
    /\ complete = {}

Ask(r) ==
    /\ web[r] = "new"
    /\ web' = [web EXCEPT ![r] = "waiting"]
    /\ UNCHANGED <<received, produced, complete>>

Produce(r) ==
    /\ r \notin complete
    /\ produced' = [produced EXCEPT ![r] = @ + 1]
    /\ UNCHANGED <<web, received, complete>>

Finish(r) ==
    /\ complete' = complete \cup {r}
    /\ UNCHANGED <<web, received, produced>>

ReceiveHead(r) ==
    /\ web[r] = "waiting"
    /\ web' = [web EXCEPT ![r] = "streaming"]
    /\ UNCHANGED <<received, produced, complete>>

ReceiveChunk(r) ==
    /\ web[r] = "streaming"
    /\ received[r] < produced[r]
    /\ received' = [received EXCEPT ![r] = @ + 1]
    /\ UNCHANGED <<web, produced, complete>>

\* Only the whole reply ends well.
ReceiveEnd(r) ==
    /\ web[r] = "streaming"
    /\ r \in complete
    /\ received[r] = produced[r]
    /\ web' = [web EXCEPT ![r] = "whole"]
    /\ UNCHANGED <<received, produced, complete>>

\* Requests fail together when their connection does: before the head with an
\* error status, after it with a broken stream.
Fail(R) ==
    /\ \A r \in R : web[r] \notin Over
    /\ web' = [r \in Requests |-> IF r \notin R THEN web[r]
                                  ELSE IF web[r] = "streaming" THEN "broken" ELSE "failed"]
    /\ UNCHANGED <<received, produced, complete>>

Leave(r) ==
    /\ web[r] \in {"waiting", "streaming"}
    /\ web' = [web EXCEPT ![r] = "gone"]
    /\ UNCHANGED <<received, produced, complete>>

Next ==
    \/ \E r \in Requests : \/ Ask(r) \/ Produce(r) \/ Finish(r) \/ ReceiveHead(r)
                           \/ ReceiveChunk(r) \/ ReceiveEnd(r) \/ Leave(r)
    \/ \E R \in SUBSET Requests : Fail(R)

Spec == Init /\ [][Next]_vars
=============================================================================
