----------------------------- MODULE MCEndpoints -----------------------------
(* Instances of Endpoints for TLC.                                         *)
EXTENDS Endpoints, TLC

CONSTANTS c1, c2, e1, e2, e3, d1, p1

MCSymmetry == Permutations(Calls) \cup Permutations(Ids)

\* At most two requests at once, of either kind, one endpoint resumed, and
\* nothing after the first webhook that is queued or logged.
Busy == {c \in Calls : call[c] # Idle} \cup {d \in Deliveries : request[d] # Idle}

Bounds ==
    /\ resumed <= 1
    /\ Cardinality(Busy) <= 2
    /\ failedEvent = {} /\ job = {}

=============================================================================
