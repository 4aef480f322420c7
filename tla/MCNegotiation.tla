--------------------------- MODULE MCNegotiation ----------------------------
(* Small instances of Negotiation for TLC. *)
EXTENDS Negotiation, TLC

CONSTANTS e1, e2, e3

(* One endpoint offers anything, one publishes and comes back, one listens.*)
Roles == e1 :> Directions @@ e2 :> {"sendonly"} @@ e3 :> {}
PublisherReturns == e1 :> 1 @@ e2 :> 2 @@ e3 :> 1

(* Endpoints that publish, each of which joins once. *)
Publishers == [e \in EndpointIds |-> {"sendonly"}]
Once == [e \in EndpointIds |-> 1]
=============================================================================
