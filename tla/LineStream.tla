----------------------------- MODULE LineStream -----------------------------
(***************************************************************************)
(* What a reader of a packet stream is for: it hands on every packet,      *)
(* whole, once and in the order written, and misses none but those that    *)
(* were lost with a connection.                                            *)
(***************************************************************************)
EXTENDS Naturals, Sequences, Functions

CONSTANTS PacketCount, Whole(_)

VARIABLES delivered,   \* what was handed on, in order
          lost         \* packets that went with a connection

vars == <<delivered, lost>>

Packets == 1..PacketCount

Delivered(i) == Whole(i) \in Range(delivered)

Init == delivered = <<>> /\ lost = {}

Deliver(i) ==
    /\ ~Delivered(i) /\ i \notin lost
    /\ \A j \in 1..(i - 1) : Delivered(j) \/ j \in lost
    /\ delivered' = Append(delivered, Whole(i))
    /\ UNCHANGED lost

Drop(n) ==
    /\ lost' = {i \in 1..n : ~Delivered(i)}
    /\ lost \subseteq lost'
    /\ UNCHANGED delivered

Next == \E i \in Packets : Deliver(i) \/ Drop(i)

Spec == Init /\ [][Next]_vars
=============================================================================
