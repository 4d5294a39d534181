----------------------------- MODULE MCTransport -----------------------------
(* Instances of TransportDecoder. *)
EXTENDS TransportDecoder, StreamConfigs
=============================================================================
