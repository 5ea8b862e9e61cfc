--------------------------- MODULE MCBridgeSlots ---------------------------
(* Small instances of BridgeSlots for TLC.                                 *)
EXTENDS BridgeSlots, TLC

CONSTANTS c1, c2, c3, ann, bob

ThreeConns == {c1, c2, c3}
OneName    == {ann}
TwoNames   == {ann, bob}

NoPackets == {}

\* A direct message, and a packet for all but its sender.  What everybody gets
\* differs from the latter only for the sender.
TwoKinds == {[to |-> ann,   from |-> bob],
             [to |-> NotMe, from |-> bob]}

ConnSymmetry == Permutations(Conns)
=============================================================================
