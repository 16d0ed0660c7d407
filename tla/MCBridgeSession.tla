-------------------------- MODULE MCBridgeSession --------------------------
(* A bounded instance of BridgeSession.tla. *)
EXTENDS BridgeSession
MCClients == 1..2
=============================================================================
