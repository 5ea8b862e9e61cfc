---------------------------- MODULE BridgeFraming ---------------------------
(***************************************************************************)
(* The receive loop of mrcHostProcess() in umrc-bridge/bridge.c: reads     *)
(* from the host are cut into packets, an unfinished last one being put    *)
(* in front of the next read.                                              *)
(***************************************************************************)
EXTENDS PacketStream

VARIABLES partialPacket,   \* the unfinished end of the last read
          pktCount,        \* how many tokens split() made of this read
          headless         \* packets that were in a read without a line feed

hostVars == <<streamVars, partialPacket, packets, pktCount, processed, headless>>

HostTypeOK ==
    /\ StreamTypeOK
    /\ partialPacket \in Seq(Bytes \ {LF})
    /\ packets \in Seq(Seq(Bytes \ {LF}))
    /\ pktCount \in Nat
    /\ processed \in Seq(Seq(Bytes \ {LF}))
    /\ headless \subseteq Packets

HostInit ==
    /\ StreamInit
    /\ partialPacket = <<>> /\ packets = <<>> /\ pktCount = 0
    /\ processed = <<>> /\ headless = {}

HostWrites ==
    /\ Write
    /\ UNCHANGED <<partialPacket, packets, pktCount, processed, headless>>

\* One read, with the recovered partial packet in front.
ReadHost ==
    /\ packets = <<>>
    /\ \E data \in Received(DataLen - 1 - Len(partialPacket)) :
         LET tokens == Split(partialPacket \o data) IN
           /\ Consume(data)
           /\ packets' = tokens
           /\ pktCount' = Len(tokens)
           /\ headless' = headless \cup
                (IF Len(tokens) = 1 THEN PacketsIn(tokens[1]) ELSE {})
    /\ partialPacket' = <<>>
    /\ UNCHANGED processed

\* Mutant: the index of the last token is off by one.
IsPartialOffByOne == pktCount > 1 /\ Len(packets) = 0

\* A last token with anything in it is kept for the next read, unless the
\* read held no line feed at all.
IsPartial == pktCount > 1 /\ Len(packets) = 1 /\ packets[1] # <<>>

Capture ==
    /\ packets # <<>> /\ IsPartial
    /\ partialPacket' = packets[1]
    /\ packets' = <<>>
    /\ UNCHANGED <<streamVars, pktCount, processed, headless>>

Valid(token) == TildeCount(token) >= 6

SkipToken ==
    /\ packets # <<>> /\ ~IsPartial /\ ~Valid(packets[1])
    /\ packets' = Tail(packets)
    /\ UNCHANGED <<streamVars, partialPacket, pktCount, processed, headless>>

ProcessToken ==
    /\ packets # <<>> /\ ~IsPartial /\ Valid(packets[1])
    /\ processed' = Append(processed, packets[1])
    /\ packets' = Tail(packets)
    /\ UNCHANGED <<streamVars, partialPacket, pktCount, headless>>

\* Mutant: the partial packet outlives the connection.
ReconnectKeepsPartial ==
    /\ packets = <<>>
    /\ Lose
    /\ UNCHANGED <<partialPacket, packets, pktCount, processed, headless>>

\* The loop ends when the connection does, and partialPacket is a local of
\* the call that ends with it.
Reconnect ==
    /\ packets = <<>>
    /\ Lose
    /\ partialPacket' = <<>>
    /\ UNCHANGED <<packets, pktCount, processed, headless>>

HostNext == HostWrites \/ ReadHost \/ Capture \/ SkipToken \/ ProcessToken \/ Reconnect

HostSpec == HostInit /\ [][HostNext]_hostVars

-----------------------------------------------------------------------------
\* No processed packet is put together from two, however the reads fell and
\* whatever was left over when the connection was lost.  Packets are processed
\* in the order the host wrote them and none of them twice, though a packet
\* cut in two by an unlucky read reaches the loop as two tokens: the six-tilde
\* test lets at most one of them through.  (mrcHostProcess, partialPacket)
OnceInOrder ==
    /\ \A k \in DOMAIN processed :
         \E i \in Packets, m, n \in Parts : processed[k] = SubSeq(Whole(i), m, n)
    /\ \A k, l \in DOMAIN processed :
         k < l => processed[k][1].packet < processed[l][1].packet

\* A packet that was read completely, on a connection that held and never in
\* a read without a line feed, was processed whole; and one that was never in
\* such a read is never processed in part (mrcHostProcess, the capture and
\* recovery of a partial packet).
WholeUnlessHeadless ==
    /\ \A k \in DOMAIN processed :
         LET i == processed[k][1].packet
         IN  i \notin headless => processed[k] = Whole(i)
    /\ packets = <<>> =>
         \A i \in (before + 1)..sent :
            \/ i \in headless \/ Whole(i) \in Range(processed)
            \/ i \in PacketsIn(wire \o partialPacket)
=============================================================================
