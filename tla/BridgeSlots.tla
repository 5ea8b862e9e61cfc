---------------------------- MODULE BridgeSlots ----------------------------
(***************************************************************************)
(* The table of local clients in umrc-bridge/bridge.c and the three kinds  *)
(* of threads that use it without a lock:                                  *)
(*                                                                         *)
(*   - waitProcess accepts connections and claims a slot for each;         *)
(*   - clientProcess, one thread per connection, writes the chatter's name *)
(*     into the slot and clears the slot when the connection ends;         *)
(*   - the thread of mrcHostProcess walks over the table for every packet  *)
(*     of the MRC host (sendToLocalClients).                               *)
(*                                                                         *)
(* A step is what one thread does between two accesses to the table.  A    *)
(* chatter's name is written byte by byte while others read it: the write  *)
(* takes two steps and a name that is half written may match any name.     *)
(*                                                                         *)
(* A connection stands for its socket.  clientProcess never closes pSock,  *)
(* so a served connection's descriptor is not given to a later one.        *)
(***************************************************************************)
EXTENDS Integers, Sequences

CONSTANTS
    Conns,          \* connections of chat clients, each used once
    Names,          \* chatter names
    MaxClients,     \* MAX_CLIENTS
    Packets         \* what the host sends: [to : Addressees, from : Names]

NoSock == "INVALID_SOCKET"
NoConn == "no connection"
NoSlot == -1
NoName == "blank"
Torn   == "half written"

Everyone == "everyone"      \* toUser is "", "CLIENT" or "ALL"
NotMe    == "NOTME"

ASSUME MaxClientsAssumption == MaxClients \in Nat \ {0}

ASSUME NamesAssumption ==
    Names \cap {NoName, Torn, Everyone, NotMe} = {}

ASSUME ConnsAssumption == NoSock \notin Conns /\ NoConn \notin Conns

ASSUME PacketsAssumption ==
    Packets \subseteq [to : Names \cup {Everyone, NotMe}, from : Names]

Slots == 0 .. (MaxClients - 1)

VARIABLES
    sock, chatter,      \* clients[i].sock and clients[i].chatter
    waitPc, waitConn, waitIdx,          \* waitProcess: newSock and i
    backlog,            \* connections the kernel has completed, not accepted
    sess,               \* the client's end of a connection
    turnedAway,         \* connections closed with "Client rejected"
    excuse,             \* history: why waitConn may be turned away
    pc, slotOf, thisUser,   \* clientProcess: pSlot and thisUser
    hostPc, pkt, hostIdx,   \* sendToLocalClients: its arguments and c
    got,                \* history: copies of pkt each connection was sent
    steady,             \* history: connections whose slot has not changed
                        \* since the host's thread took pkt
    heirs               \* history: connections given a slot whose last thread
                        \* had its name still to clear, and not named since

tableVars == <<sock, chatter>>
waitVars  == <<waitPc, waitConn, waitIdx, excuse, turnedAway>>
netVars   == <<backlog, sess>>
threadVars == <<pc, slotOf, thisUser>>
hostVars  == <<hostPc, pkt, hostIdx, got>>
histVars  == <<steady, heirs>>
vars == <<tableVars, waitVars, netVars, threadVars, hostVars, histVars>>

NoPacket == [to |-> Everyone, from |-> NoName]

Init ==
    /\ sock = [s \in Slots |-> NoSock]
    /\ chatter = [s \in Slots |-> NoName]
    /\ waitPc = "start" /\ waitConn = NoConn /\ waitIdx = 0
    /\ backlog = <<>>
    /\ sess = [c \in Conns |-> "idle"]
    /\ turnedAway = {}
    /\ excuse = FALSE
    /\ pc = [c \in Conns |-> "none"]
    /\ slotOf = [c \in Conns |-> NoSlot]
    /\ thisUser = [c \in Conns |-> NoName]
    /\ hostPc = "idle" /\ pkt = NoPacket /\ hostIdx = 0
    /\ got = [c \in Conns |-> 0]
    /\ steady = {} /\ heirs = {}

-----------------------------------------------------------------------------
(* The clients.                                                            *)

Connect(c) ==
    /\ waitPc \notin {"start", "dead"}      \* somebody listens
    /\ sess[c] = "idle"
    /\ sess' = [sess EXCEPT ![c] = "open"]
    /\ backlog' = Append(backlog, c)
    /\ UNCHANGED <<tableVars, waitVars, threadVars, hostVars, histVars>>

Disconnect(c) ==
    /\ sess[c] = "open"
    /\ sess' = [sess EXCEPT ![c] = "closed"]
    /\ UNCHANGED <<backlog, tableVars, waitVars, threadVars, hostVars, histVars>>

-----------------------------------------------------------------------------
(* waitProcess.                                                            *)

\* The host is up for the first time; the listening socket is made or not.
StartListening ==
    /\ waitPc = "start"
    /\ waitPc' \in {"accept", "dead"}
    /\ UNCHANGED <<waitConn, waitIdx, excuse, turnedAway>>
    /\ UNCHANGED <<tableVars, netVars, threadVars, hostVars, histVars>>

Accept ==
    /\ waitPc = "accept"
    /\ backlog # <<>>
    /\ waitConn' = Head(backlog)
    /\ backlog' = Tail(backlog)
    /\ waitIdx' = 0
    /\ waitPc' = "scan"
    /\ excuse' = \A s \in Slots : sock[s] # NoSock
    /\ UNCHANGED <<turnedAway, sess, tableVars, threadVars, hostVars, histVars>>

\* A thread has freed the slot and not cleared its name yet.
Leaving(s) == \E c \in Conns : pc[c] = "clearName" /\ slotOf[c] = s

\* The slot looked at is free: it gets the socket.  Its name is not reset.
Claim ==
    /\ waitPc = "scan"
    /\ waitIdx < MaxClients
    /\ sock[waitIdx] = NoSock
    /\ sock' = [sock EXCEPT ![waitIdx] = waitConn]
    /\ pc' = [pc EXCEPT ![waitConn] = "claimed"]
    /\ slotOf' = [slotOf EXCEPT ![waitConn] = waitIdx]
    /\ waitPc' = "claimed"
    /\ heirs' = IF Leaving(waitIdx) THEN heirs \cup {waitConn} ELSE heirs
    /\ UNCHANGED <<chatter, waitConn, waitIdx, excuse, turnedAway>>
    /\ UNCHANGED <<netVars, thisUser, hostVars, steady>>

SkipSlot ==
    /\ waitPc = "scan"
    /\ waitIdx < MaxClients
    /\ sock[waitIdx] # NoSock
    /\ waitIdx' = waitIdx + 1
    /\ UNCHANGED <<waitPc, waitConn, excuse, turnedAway>>
    /\ UNCHANGED <<tableVars, netVars, threadVars, hostVars, histVars>>

\* Mutant: the slot is not released.
NoMemoryKeepsSlot ==
    /\ waitPc = "claimed"
    /\ pc' = [pc EXCEPT ![waitConn] = "none"]
    /\ slotOf' = [slotOf EXCEPT ![waitConn] = NoSlot]
    /\ waitPc' = "reject"
    /\ excuse' = TRUE
    /\ steady' = steady \ {waitConn} /\ heirs' = heirs \ {waitConn}
    /\ UNCHANGED <<tableVars, waitConn, waitIdx, turnedAway>>
    /\ UNCHANGED <<netVars, thisUser, hostVars>>

\* malloc of the thread's argument fails: the slot is released again.
NoMemory ==
    /\ waitPc = "claimed"
    /\ sock' = [sock EXCEPT ![waitIdx] = NoSock]
    /\ pc' = [pc EXCEPT ![waitConn] = "none"]
    /\ slotOf' = [slotOf EXCEPT ![waitConn] = NoSlot]
    /\ waitPc' = "reject"
    /\ excuse' = TRUE
    /\ steady' = steady \ {waitConn} /\ heirs' = heirs \ {waitConn}
    /\ UNCHANGED <<chatter, waitConn, waitIdx, turnedAway>>
    /\ UNCHANGED <<netVars, thisUser, hostVars>>

\* The result of pthread_create is not looked at: when it fails the slot
\* stays taken and nobody will ever read from the connection.
CreateThread ==
    /\ waitPc = "claimed"
    /\ \E started \in {"recv", "stillborn"} :
           pc' = [pc EXCEPT ![waitConn] = started]
    /\ waitPc' = "accept"
    /\ waitConn' = NoConn
    /\ UNCHANGED <<waitIdx, excuse, turnedAway, slotOf, thisUser>>
    /\ UNCHANGED <<tableVars, netVars, hostVars, histVars>>

\* Mutant: the last slot is not looked at.
EndScanEarly ==
    /\ waitPc = "scan"
    /\ waitIdx = MaxClients - 1
    /\ waitPc' = "reject"
    /\ UNCHANGED <<waitConn, waitIdx, excuse, turnedAway>>
    /\ UNCHANGED <<tableVars, netVars, threadVars, hostVars, histVars>>

EndScan ==
    /\ waitPc = "scan"
    /\ waitIdx = MaxClients
    /\ waitPc' = "reject"
    /\ UNCHANGED <<waitConn, waitIdx, excuse, turnedAway>>
    /\ UNCHANGED <<tableVars, netVars, threadVars, hostVars, histVars>>

Reject ==
    /\ waitPc = "reject"
    /\ turnedAway' = turnedAway \cup {waitConn}
    /\ waitPc' = "accept"
    /\ waitConn' = NoConn
    /\ UNCHANGED <<waitIdx, excuse>>
    /\ UNCHANGED <<tableVars, netVars, threadVars, hostVars, histVars>>

WaitProcess ==
    \/ Accept \/ Claim \/ SkipSlot \/ NoMemory \/ CreateThread
    \/ EndScan \/ Reject

-----------------------------------------------------------------------------
(* clientProcess.                                                          *)

StartNaming(c, n, next) ==
    /\ thisUser' = [thisUser EXCEPT ![c] = n]
    /\ chatter' = [chatter EXCEPT ![slotOf[c]] = Torn]
    /\ steady' = {d \in steady : slotOf[d] # slotOf[c]}
    /\ heirs' = IF Leaving(slotOf[c]) THEN heirs ELSE heirs \ {c}
    /\ pc' = [pc EXCEPT ![c] = next]

\* The first packet gives the session its name; the packet is then handled.
Identify(c) ==
    /\ pc[c] = "recv" /\ sess[c] = "open"
    /\ thisUser[c] = NoName
    /\ \E n \in Names : StartNaming(c, n, "naming")
    /\ UNCHANGED <<sock, slotOf, waitVars, netVars, hostVars>>

\* Mutant: the thread takes the new name and the slot keeps the old one.
NickChangedForThread(c) ==
    /\ pc[c] = "recv" /\ sess[c] = "open"
    /\ thisUser[c] # NoName
    /\ \E n \in Names : thisUser' = [thisUser EXCEPT ![c] = n]
    /\ UNCHANGED <<tableVars, pc, slotOf, waitVars, netVars, hostVars, histVars>>

\* The client reports that the server changed its name (NICKCHANGED).
NickChanged(c) ==
    /\ pc[c] = "recv" /\ sess[c] = "open"
    /\ thisUser[c] # NoName
    /\ \E n \in Names : StartNaming(c, n, "naming")
    /\ UNCHANGED <<sock, slotOf, waitVars, netVars, hostVars>>

\* If the name was cleared while it was being written, its first byte may
\* be gone.
FinishNaming(c) ==
    /\ pc[c] = "naming"
    /\ \E n \in {thisUser[c]} \cup ({chatter[slotOf[c]]} \ {Torn}) :
           chatter' = [chatter EXCEPT ![slotOf[c]] = n]
    /\ steady' = {d \in steady : slotOf[d] # slotOf[c]}
    /\ pc' = [pc EXCEPT ![c] = "recv"]
    /\ UNCHANGED <<sock, slotOf, thisUser, waitVars, netVars, hostVars, heirs>>

\* Mutant: a client that never said who it is keeps its slot.
EndOfStreamIfNamed(c) ==
    /\ pc[c] = "recv" /\ sess[c] = "closed"
    /\ thisUser[c] # NoName
    /\ pc' = [pc EXCEPT ![c] = "clearSock"]
    /\ UNCHANGED <<tableVars, waitVars, netVars, slotOf, thisUser>>
    /\ UNCHANGED <<hostVars, histVars>>

\* recv returns 0.  What the host is told of it, BridgeInbound says.
EndOfStream(c) ==
    /\ pc[c] = "recv" /\ sess[c] = "closed"
    /\ pc' = [pc EXCEPT ![c] = "clearSock"]
    /\ UNCHANGED <<tableVars, waitVars, netVars, slotOf, thisUser>>
    /\ UNCHANGED <<hostVars, histVars>>

ClearSock(c) ==
    /\ pc[c] = "clearSock"
    /\ sock' = [sock EXCEPT ![slotOf[c]] = NoSock]
    /\ steady' = steady \ {c}
    /\ pc' = [pc EXCEPT ![c] = "clearName"]
    /\ UNCHANGED <<chatter, waitVars, netVars, slotOf, thisUser>>
    /\ UNCHANGED <<hostVars, heirs>>

\* The thread ends, and its locals with it.
EndThread(c) ==
    /\ pc' = [pc EXCEPT ![c] = "done"]
    /\ slotOf' = [slotOf EXCEPT ![c] = NoSlot]
    /\ thisUser' = [thisUser EXCEPT ![c] = NoName]
    /\ heirs' = heirs \ {c}

\* Mutant: the name is not cleared.
ClearNameForgotten(c) ==
    /\ pc[c] = "clearName"
    /\ EndThread(c)
    /\ UNCHANGED <<tableVars, waitVars, netVars, hostVars, steady>>

ClearName(c) ==
    /\ pc[c] = "clearName"
    /\ chatter' = [chatter EXCEPT ![slotOf[c]] = NoName]
    /\ steady' = {d \in steady : slotOf[d] # slotOf[c]}
    /\ EndThread(c)
    /\ UNCHANGED <<sock, waitVars, netVars, hostVars>>

ClientProcess(c) ==
    \/ Identify(c) \/ NickChanged(c) \/ FinishNaming(c) \/ EndOfStream(c) \/ ClearSock(c) \/ ClearName(c)

-----------------------------------------------------------------------------
(* sendToLocalClients, in the thread of mrcHostProcess.                    *)

Seated(c) == \E s \in Slots : sock[s] = c

\* The set of answers the comparison of the slot's name can give.
Matches(s) ==
    CASE pkt.to = Everyone -> {TRUE}
      [] pkt.to # Everyone /\ chatter[s] = Torn -> BOOLEAN
      [] pkt.to = NotMe /\ chatter[s] # Torn -> {chatter[s] # pkt.from}
      [] OTHER -> {chatter[s] = pkt.to}

HostPacket ==
    /\ hostPc = "idle"
    /\ pkt' \in Packets
    /\ hostPc' = "check"
    /\ hostIdx' = 0
    /\ got' = [c \in Conns |-> 0]
    /\ steady' = {c \in Conns : Seated(c)}
    /\ UNCHANGED <<heirs, tableVars, waitVars, netVars, threadVars>>

\* The condition is evaluated ...
CheckSlot ==
    /\ hostPc = "check"
    /\ hostIdx < MaxClients
    /\ \/ /\ sock[hostIdx] # NoSock
          /\ TRUE \in Matches(hostIdx)
          /\ hostPc' = "send"
          /\ UNCHANGED hostIdx
       \/ /\ sock[hostIdx] = NoSock \/ FALSE \in Matches(hostIdx)
          /\ hostIdx' = hostIdx + 1
          /\ UNCHANGED hostPc
    /\ UNCHANGED <<pkt, got, tableVars, waitVars, netVars, threadVars, histVars>>

\* Mutant: the walk ends with the first client that is sent the packet.
SendToFirst ==
    /\ hostPc = "send"
    /\ got' = [c \in Conns |-> IF sock[hostIdx] = c THEN got[c] + 1 ELSE got[c]]
    /\ hostIdx' = MaxClients
    /\ hostPc' = "check"
    /\ UNCHANGED <<pkt, tableVars, waitVars, netVars, threadVars, histVars>>

\* ... and the socket is read again for the send.
SendToSlot ==
    /\ hostPc = "send"
    /\ got' = [c \in Conns |-> IF sock[hostIdx] = c THEN got[c] + 1 ELSE got[c]]
    /\ hostIdx' = hostIdx + 1
    /\ hostPc' = "check"
    /\ UNCHANGED <<pkt, tableVars, waitVars, netVars, threadVars, histVars>>

ScanDone ==
    /\ hostPc = "check"
    /\ hostIdx = MaxClients
    /\ hostPc' = "idle"
    /\ pkt' = NoPacket
    /\ hostIdx' = 0
    /\ got' = [c \in Conns |-> 0]
    /\ steady' = {}
    /\ UNCHANGED <<heirs, tableVars, waitVars, netVars, threadVars>>

HostThread == HostPacket \/ CheckSlot \/ SendToSlot \/ ScanDone

-----------------------------------------------------------------------------
Next ==
    \/ \E c \in Conns : Connect(c) \/ Disconnect(c) \/ ClientProcess(c)
    \/ StartListening
    \/ WaitProcess
    \/ HostThread

Spec == Init /\ [][Next]_vars

\* Threads run: each takes its next step unless it waits for its peer.  A
\* client is free to send nothing and to stay connected.
Departing(c) == FinishNaming(c) \/ EndOfStream(c) \/ ClearSock(c) \/ ClearName(c)

Fairness ==
    /\ WF_vars(WaitProcess)
    /\ \A c \in Conns : WF_vars(Departing(c))

FairSpec == Spec /\ Fairness

-----------------------------------------------------------------------------
(* Properties.                                                             *)

Holding == {"claimed", "recv", "naming", "clearSock", "stillborn"}

Holds(c) == pc[c] \in Holding

TypeOK ==
    /\ sock \in [Slots -> Conns \cup {NoSock}]
    /\ chatter \in [Slots -> Names \cup {NoName, Torn}]
    /\ waitPc \in {"start", "dead", "accept", "scan", "claimed", "reject"}
    /\ waitConn \in Conns \cup {NoConn}
    /\ waitIdx \in 0 .. MaxClients
    /\ backlog \in Seq(Conns)
    /\ sess \in [Conns -> {"idle", "open", "closed"}]
    /\ turnedAway \subseteq Conns
    /\ excuse \in BOOLEAN
    /\ pc \in [Conns -> Holding \cup {"none", "clearName", "done"}]
    /\ slotOf \in [Conns -> Slots \cup {NoSlot}]
    /\ thisUser \in [Conns -> Names \cup {NoName}]
    /\ hostPc \in {"idle", "check", "send"}
    /\ pkt \in Packets \cup {NoPacket}
    /\ hostIdx \in 0 .. MaxClients
    /\ got \in [Conns -> Nat]
    /\ steady \subseteq Conns /\ heirs \subseteq Conns

\* What is addressed to c's name, as its thread knows it, does not reach it.
Unroutable(c) ==
    pc[c] = "recv" /\ thisUser[c] # NoName /\ chatter[slotOf[c]] # thisUser[c]

\* A slot belongs to one connection: whoever holds a slot finds its own
\* socket in it, and a socket found in a slot is that of a connection which
\* holds this slot.  (Claim at bridge.c:617 against the clearing at :517.)
SlotOwnership ==
    /\ \A c \in Conns : Holds(c) => slotOf[c] \in Slots /\ sock[slotOf[c]] = c
    /\ \A s \in Slots : sock[s] # NoSock =>
           Holds(sock[s]) /\ slotOf[sock[s]] = s

\* A client is told that the bridge is full only if every slot was taken at
\* the moment its turn came, although slots are freed while they are scanned.
RejectedOnlyWhenFull == waitPc = "reject" => excuse

\* A name in an occupied slot is its occupant's, or it is the name of an
\* earlier occupant whose thread is about to clear it.  (bridge.c:517-518)
StaleNameOnlyWhileLeaving ==
    \A c \in Conns :
        Holds(c) /\ chatter[slotOf[c]] \notin {NoName, Torn, thisUser[c]} =>
            \E d \in Conns : /\ pc[d] = "clearName"
                             /\ slotOf[d] = slotOf[c]
                             /\ thisUser[d] = chatter[slotOf[c]]

\* The slot of a chatter that has said who it is has another name than the
\* chatter's, or none, only if the slot was given to it before the last
\* occupant's thread had cleared the name there, and only until the chatter is
\* named again after that.  (bridge.c:471-472, 496-497, 517-518)
NameLostOnlyByHeirs ==
    \A c \in Conns : Unroutable(c) => c \in heirs

\* A client whose slot does not change while the table is walked gets the
\* packet exactly when it is an addressee: none is skipped, none is sent
\* someone else's direct message.  And whatever slots change hands, nobody
\* gets a packet twice.  (sendToLocalClients)
SteadyClientsServed ==
    \A c \in Conns :
        /\ got[c] <= 1
        /\ /\ hostPc # "idle" /\ c \in steady /\ slotOf[c] < hostIdx
           /\ chatter[slotOf[c]] # Torn
           => got[c] = IF TRUE \in Matches(slotOf[c]) THEN 1 ELSE 0

\* Whoever connects is seated or turned away, and a client that is gone does
\* not keep its slot, once its thread runs.
Served ==
    /\ \A c \in Conns : sess[c] = "open" ~> pc[c] # "none" \/ c \in turnedAway
    /\ \A c \in Conns : pc[c] = "recv" /\ sess[c] = "closed" ~> pc[c] = "done"

-----------------------------------------------------------------------------
(* The table implements the abstract admission of clients.                 *)

Adm == INSTANCE Admission WITH
    Seats   <- Slots,
    NoSeat  <- NoSlot,
    asking  <- IF waitPc \in {"scan", "reject"} THEN waitConn ELSE NoConn,
    seat    <- [c \in Conns |-> IF Holds(c) THEN slotOf[c] ELSE NoSlot],
    refused <- turnedAway

\* Clients are seated, refused and let go as Admission allows.
ImplementsAdmission == Adm!Spec
=============================================================================
