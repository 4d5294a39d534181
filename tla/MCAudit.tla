------------------------------- MODULE MCAudit -------------------------------
(* Instances of TransportAudit. *)
EXTENDS TransportAudit, StreamConfigs
=============================================================================
