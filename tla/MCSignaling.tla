---------------------------- MODULE MCSignaling -----------------------------
(* Small instances of Signaling for TLC. *)
EXTENDS Signaling, TLC

CONSTANTS c1, c2, c3, p1, p2, p3

(* An offer, which sends twice, and a leave compete for the slot of one    *)
(* worker, while a subscription keeps the server from draining.            *)
MixedKind == c1 :> "offer_transcribe" @@ c2 :> "leave" @@ c3 :> "subscribe"
MixedPort == c1 :> p1 @@ c2 :> p1 @@ c3 :> p2
=============================================================================
