--------------------------- MODULE MCBridgeInbound --------------------------
(* A small instance of BridgeInbound for TLC: the constant is a number.    *)
EXTENDS BridgeInbound
=============================================================================
