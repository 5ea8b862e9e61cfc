---------------------------- MODULE BridgeInbound ---------------------------
(***************************************************************************)
(* clientProcess() in umrc-bridge/bridge.c, from the bytes its client      *)
(* sends to what it makes of them: who the client is, whether it logged    *)
(* off, and what goes on to the host.  Every read is taken to be a packet, *)
(* though TCP may put several packets, or a part of one, into a read.      *)
(*                                                                         *)
(* A packet from~site~room~to~ext~room~body~ is four pieces: sender, site  *)
(* and room (2 tildes), the addressee and two fields (3), the command or   *)
(* text (1), and its argument with the end of the packet (1).              *)
(***************************************************************************)
EXTENDS Naturals, Sequences, FiniteSets, SequencesExt, Functions

CONSTANT MaxPackets   \* packets the client ever sends

ASSUME InboundAssumption == MaxPackets \in Nat

\* A chat message, a server command, the client's own notice to the bridge
\* that its name has changed, and the command that ends its session.
Kinds == {"chat", "nick", "logoff"}

Tildes == <<2, 3, 1, 1>>
Parts  == DOMAIN Tildes
Pieces == [packet : 1..MaxPackets, part : Parts]

\* The user's names in order, nothing, and text that is no name.
OldName == "old"
NewName == "new"
NoName  == ""
Junk    == "junk"
Names   == {OldName, NewName, NoName, Junk}

VARIABLES kinds,         \* what the client has sent
          wire,          \* what of it has not been read
          closed,        \* the client has closed its end
          ended,         \* the thread has ended
          thisUser,      \* the name this thread goes by
          chatter,       \* clients[pSlot].chatter
          cleanLogoff,
          forwarded,     \* what sendHostPacket() was called with, in order
          told,          \* the host was told of a disconnection
          died,       \* the process has died of a read out of bounds
          aligned,       \* history: every read so far was exactly one packet
          cutLogoff      \* history: a read ended within the words of a LOGOFF

history == <<aligned, cutLogoff>>
inboundVars == <<kinds, wire, closed, ended, thisUser, chatter, cleanLogoff, forwarded, told,
                 died, history>>

InboundTypeOK ==
    /\ kinds \in Seq(Kinds) /\ Len(kinds) <= MaxPackets
    /\ wire \in Seq(Pieces)
    /\ thisUser \in Names /\ chatter \in Names
    /\ {closed, ended, cleanLogoff, told, died, aligned, cutLogoff} \subseteq BOOLEAN
    /\ forwarded \in Seq(Pieces)
    /\ Len(forwarded) + Len(wire) <= Len(Tildes) * Len(kinds)

InboundInit ==
    /\ kinds = <<>> /\ wire = <<>> /\ closed = FALSE /\ ended = FALSE
    /\ thisUser = NoName /\ chatter = NoName
    /\ cleanLogoff = FALSE /\ forwarded = <<>> /\ told = FALSE /\ died = FALSE
    /\ aligned = TRUE /\ cutLogoff = FALSE

Packet(i) == [k \in Parts |-> [packet |-> i, part |-> k]]

\* The client uses a new name from the packet that announces it on.
Sender(i) == IF \E j \in 1..i : kinds[j] = "nick" THEN NewName ELSE OldName

ClientSends(kind) ==
    /\ ~closed /\ Len(kinds) < MaxPackets
    /\ kinds = <<>> => kind = "chat"                  \* it starts with IAMHERE
    /\ kind = "nick" => "nick" \notin Range(kinds)
    /\ kinds' = Append(kinds, kind)
    /\ wire' = wire \o Packet(Len(kinds) + 1)
    /\ closed' = (kind = "logoff")
    /\ UNCHANGED <<ended, thisUser, chatter, cleanLogoff, forwarded, told, died, history>>

\* Carrier lost, or the door killed.
ClientDrops ==
    /\ ~closed
    /\ closed' = TRUE
    /\ UNCHANGED <<kinds, wire, ended, thisUser, chatter, cleanLogoff, forwarded, told, died, history>>

-----------------------------------------------------------------------------
\* Some packet of this kind has the given parts in the read, one after another.
HasRun(data, kind, first, last) ==
    \E i \in DOMAIN data :
        /\ kinds[data[i].packet] = kind /\ data[i].part = first
        /\ i + (last - first) <= Len(data)

HasLogoff(data)      == HasRun(data, "logoff", 2, 4)   \* "~SERVER~~~LOGOFF~"
HasNickChanged(data) == HasRun(data, "nick", 2, 3)     \* "~SERVER~~~NICKCHANGED:"

FieldCount(data) ==
    1 + Cardinality(UNION {{k} \X (1..Tildes[data[k].part]) : k \in DOMAIN data})

HasField6(data) == FieldCount(data) >= 7

\* The text before the first tilde of the read.
Field0(data) ==
    LET p == data[1] IN
    CASE p.part = 1 -> Sender(p.packet)
      [] p.part = 4 /\ kinds[p.packet] = "nick" -> NewName
      [] OTHER -> NoName

\* What follows the colon in the seventh field of the read, or all of that
\* field if it has none.  In a read that starts with the name change it is the
\* new name, as far as it is there; in any other it is whatever text got into
\* that field, if any; and in a read of fewer fields the pointer behind the
\* last is taken for one, and may point to anything.
Field6Arguments(data) ==
    CASE ~HasField6(data) -> Names
      [] data[1].part = 1 /\ kinds[data[1].packet] = "nick" ->
             {IF Len(data) >= 4 THEN NewName ELSE NoName}
      [] OTHER -> {Junk, NoName}

Identified(data) == IF thisUser = NoName /\ HasField6(data) THEN Field0(data) ELSE thisUser

Read(data) ==
    /\ wire' = SubSeq(wire, Len(data) + 1, Len(wire))
    /\ aligned' = (aligned /\ data = Packet(data[1].packet))
    /\ cutLogoff' = (cutLogoff \/ LET p == Last(data) IN kinds[p.packet] = "logoff" /\ p.part \in 2..3)
    /\ cleanLogoff' = (cleanLogoff \/ HasLogoff(data))
    /\ UNCHANGED <<kinds, closed, ended, told, died>>

\* Mutant: NICKCHANGED is looked for before LOGOFF.
ReadNickFirst(data) ==
    /\ HasNickChanged(data)
    /\ wire' = SubSeq(wire, Len(data) + 1, Len(wire))
    /\ aligned' = (aligned /\ data = Packet(data[1].packet))
    /\ thisUser' \in Field6Arguments(data)
    /\ chatter' = thisUser'
    /\ UNCHANGED <<kinds, closed, ended, told, died, cleanLogoff, forwarded, cutLogoff>>

\* The name change is for the bridge: the read goes no further.
ReadNickChanged(data) ==
    /\ HasNickChanged(data)
    /\ Read(data)
    /\ thisUser' \in Field6Arguments(data)
    /\ chatter' = thisUser'
    /\ UNCHANGED forwarded

\* Mutant: a read with a logoff is taken to be done with.
ReadForHostButLogoff(data) ==
    /\ ~HasNickChanged(data)
    /\ Read(data)
    /\ thisUser' = Identified(data)
    /\ chatter' = IF thisUser' # thisUser THEN thisUser' ELSE chatter
    /\ forwarded' = IF HasLogoff(data) THEN forwarded ELSE forwarded \o data

ReadForHost(data) ==
    /\ ~HasNickChanged(data)
    /\ Read(data)
    /\ thisUser' = Identified(data)
    /\ chatter' = IF thisUser' # thisUser THEN thisUser' ELSE chatter
    /\ forwarded' = forwarded \o data

ReadClient ==
    /\ ~ended
    /\ \E n \in 1..Len(wire) :
         LET data == SubSeq(wire, 1, n) IN ReadNickChanged(data) \/ ReadForHost(data)

\* The seventh field is looked at without a look at how many there are.
ReadOutOfBounds ==
    /\ ~ended
    /\ \E n \in 1..Len(wire) :
         LET data == SubSeq(wire, 1, n) IN HasNickChanged(data) /\ ~HasField6(data)
    /\ died' = TRUE
    /\ UNCHANGED <<kinds, wire, closed, ended, thisUser, chatter, cleanLogoff, forwarded, told, history>>

\* Mutant: the host is told of a client that never said who it is.
EndOfStreamUnnamed ==
    /\ ~ended /\ closed /\ wire = <<>>
    /\ ended' = TRUE
    /\ told' = ~cleanLogoff
    /\ chatter' = NoName
    /\ UNCHANGED <<kinds, wire, closed, thisUser, cleanLogoff, forwarded, died, history>>

\* recv() returns 0: the host is told unless the user logged off, and the
\* slot is emptied.
EndOfStream ==
    /\ ~ended /\ closed /\ wire = <<>>
    /\ ended' = TRUE
    /\ told' = (thisUser # NoName /\ ~cleanLogoff)
    /\ chatter' = NoName
    /\ UNCHANGED <<kinds, wire, closed, thisUser, cleanLogoff, forwarded, died, history>>

InboundNext ==
    /\ ~died
    /\ \/ \E kind \in Kinds : ClientSends(kind)
       \/ ClientDrops \/ ReadClient \/ ReadOutOfBounds \/ EndOfStream

InboundSpec == InboundInit /\ [][InboundNext]_inboundVars

-----------------------------------------------------------------------------
\* Packets read, if every read was one of them.
ReadSoFar == Len(kinds) - (Len(wire) \div Len(Tildes))

Before(p, q) == p.packet < q.packet \/ (p.packet = q.packet /\ p.part < q.part)

\* As long as every read is one packet, the host gets every packet but the
\* name change, whole, once and in order, the slot has the name the user goes
\* by, and the host is told of a disconnection exactly when there was no
\* logoff (clientProcess, recv to sendHostPacket).
ExactWhenAligned ==
    aligned =>
        /\ Range(forwarded) = {p \in Pieces : p.packet <= ReadSoFar /\ kinds[p.packet] # "nick"}
        /\ \A k, l \in DOMAIN forwarded : k < l => Before(forwarded[k], forwarded[l])
        /\ ~ended /\ ReadSoFar > 0 => chatter = Sender(ReadSoFar)
        /\ ended => (told <=> kinds # <<>> /\ "logoff" \notin Range(kinds))

\* A user who left in good order is announced as disconnected only if the
\* LOGOFF itself was cut by a read, whatever else was read with it
\* (clientProcess, cleanLogoff).
AnnouncedOnlyIfCut ==
    told /\ "logoff" \in Range(kinds) => cutLogoff

\* A user who is spared the notice of a disconnection has logged off, and
\* either his LOGOFF went on to the host, the command whole, or a name change
\* in the same read kept all of that read back: nothing behind the name change
\* has been forwarded.  (clientProcess, bridge.c:482-505 and 509-512)
SparedOnlyIfForwarded ==
    cleanLogoff => \E i \in DOMAIN kinds :
        /\ kinds[i] = "logoff"
        /\ \/ \A k \in 2..4 : [packet |-> i, part |-> k] \in Range(forwarded)
           \/ \E j \in 1..i : /\ kinds[j] = "nick"
                              /\ \A p \in Range(forwarded) : Before(p, [packet |-> j, part |-> 2])
=============================================================================
