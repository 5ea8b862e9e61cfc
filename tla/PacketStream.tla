---------------------------- MODULE PacketStream ----------------------------
(***************************************************************************)
(* The byte stream an MRC reader sees: whole packets are written at one    *)
(* end, and recv() hands over any non-empty run of what has been written.  *)
(* Both readers of such a stream extend this module: the bridge reading    *)
(* from the host (BridgeFraming) and the client reading from the bridge    *)
(* (ClientFraming).                                                        *)
(*                                                                         *)
(* A packet is from~site~room~to~ext~room~body~ and a line feed.  It is    *)
(* cut down to the pieces that matter to a reader: the first letters of    *)
(* the sender's name (no tilde), the rest of the name with two fields (3   *)
(* tildes), three fields (3) and the body (1).                             *)
(***************************************************************************)
EXTENDS Naturals, Sequences, FiniteSets, SequencesExt, FiniteSetsExt, Functions

CONSTANTS PacketCount,   \* packets the sender ever writes
          DataLen,       \* DATA_LEN, in pieces
          MaxDrops       \* times the connection may be lost

Tildes  == <<0, 3, 3, 1>>
Parts   == DOMAIN Tildes
Packets == 1..PacketCount

LF    == [packet |-> 0, part |-> 0]
Bytes == [packet : Packets, part : Parts] \cup {LF}

Whole(i) == [k \in Parts |-> [packet |-> i, part |-> k]]

\* A buffer holds at least the longest packet, its line feed and a NUL.
ASSUME StreamAssumption ==
    /\ PacketCount \in Nat
    /\ MaxDrops \in Nat
    /\ DataLen \in Nat
    /\ DataLen > Len(Tildes) + 1

VARIABLES wire,       \* written and not yet read
          sent,       \* packets written so far
          drops,      \* connections lost so far
          before,     \* packets written on the connections that were lost
          packets,    \* the reader's tokens still to be looked at
          processed   \* what it called processPacket() with

streamVars == <<wire, sent, drops, before>>

StreamTypeOK ==
    /\ wire \in Seq(Bytes)
    /\ sent \in 0..PacketCount
    /\ drops \in 0..MaxDrops
    /\ before \in 0..sent

StreamInit == wire = <<>> /\ sent = 0 /\ drops = 0 /\ before = 0

Write ==
    /\ sent < PacketCount
    /\ sent' = sent + 1
    /\ wire' = Append(wire \o Whole(sent + 1), LF)
    /\ UNCHANGED <<drops, before>>

\* The connection goes: what was under way goes with it, and the next one
\* starts at the beginning of a packet.
Lose ==
    /\ drops < MaxDrops
    /\ drops' = drops + 1
    /\ before' = sent
    /\ wire' = <<>>
    /\ UNCHANGED sent

\* What one recv() may return when there is room for that many.
Received(room) == {SubSeq(wire, 1, n) : n \in 1..(IF room < Len(wire) THEN room ELSE Len(wire))}

Consume(data) ==
    /\ wire' = SubSeq(wire, Len(data) + 1, Len(wire))
    /\ UNCHANGED <<sent, drops, before>>

\* split(): one token more than there are delimiters, the last one whatever
\* follows the last of them.
Breaks(text)   == {i \in DOMAIN text : text[i] = LF}
Break(text, k) == CHOOSE i \in Breaks(text) : Cardinality({j \in Breaks(text) : j <= i}) = k

Split(text) ==
    LET count    == Cardinality(Breaks(text))
        first(k) == IF k = 1 THEN 1 ELSE Break(text, k - 1) + 1
        last(k)  == IF k > count THEN Len(text) ELSE Break(text, k) - 1
    IN  [k \in 1..(count + 1) |-> SubSeq(text, first(k), last(k))]

\* strstr() and countOfChars(): what a reader looks for in a token.
HasTilde(token) == \E k \in DOMAIN token : Tildes[token[k].part] > 0

TildeCount(token) ==
    Cardinality(UNION {{k} \X (1..Tildes[token[k].part]) : k \in DOMAIN token})

PacketsIn(token) == {token[k].packet : k \in DOMAIN token}
=============================================================================
