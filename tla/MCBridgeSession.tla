-------------------------- MODULE MCBridgeSession --------------------------
(***************************************************************************)
(* A small instance of BridgeSession.                                      *)
(***************************************************************************)
EXTENDS BridgeSession

MCMaxIncidents == 3
MCMaxEvents == 3

=============================================================================
