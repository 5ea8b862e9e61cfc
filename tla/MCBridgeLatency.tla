--------------------------- MODULE MCBridgeLatency --------------------------
(* A small instance of BridgeLatency: the main thread and one client's     *)
(* thread, two entries and two kinds of packet.                            *)
EXTENDS BridgeLatency

MCMarks == {1, 2}
=============================================================================
