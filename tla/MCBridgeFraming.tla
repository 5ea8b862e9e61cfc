---------------------------- MODULE MCBridgeFraming ---------------------------
(* A small instance of BridgeFraming for TLC: the constants are plain numbers. *)
EXTENDS BridgeFraming
=============================================================================
