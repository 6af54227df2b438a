--------------------------- MODULE MCBridgeClient ---------------------------
(* Instances of BridgeClient for TLC. *)
EXTENDS BridgeClient
=============================================================================
