------------------------ MODULE MCOutboundPipeline --------------------------
(* Small instances of OutboundPipeline for TLC. *)
EXTENDS OutboundPipeline, TLC
=============================================================================
