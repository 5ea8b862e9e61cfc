------------------------- MODULE BridgeSlotsProofs -------------------------
(***************************************************************************)
(* Proofs about the table of local clients, for every number of slots,     *)
(* connections, names and packets.                                         *)
(*                                                                         *)
(* The inductive invariant IInv adds to the properties of BridgeSlots what *)
(* they rest on: where a connection is on its way from the kernel's        *)
(* backlog to its thread (WaitInv, BacklogInv), that a free slot seen when *)
(* the scan began stays free and is ahead of the scan (FreeAheadInv), and  *)
(* whom every name in the table belongs to, in occupied and in free slots  *)
(* alike (NameInv).                                                        *)
(*                                                                         *)
(* WalkInv rests on IInv and says what is true of a walk over the table,   *)
(* of the refused and of those who leave; with both, every step of         *)
(* BridgeSlots is a step of Admission or leaves its variables unchanged.   *)
(***************************************************************************)
EXTENDS BridgeSlots, TLAPS

\* The connection waitProcess works on, and no other, is being claimed for.
WaitInv ==
    /\ waitPc \in {"scan", "reject"} => waitConn \in Conns /\ pc[waitConn] = "none"
    /\ waitPc = "claimed" => /\ waitConn \in Conns
                             /\ pc[waitConn] = "claimed"
                             /\ waitIdx \in Slots
                             /\ slotOf[waitConn] = waitIdx
    /\ waitPc \in {"start", "dead", "accept"} => waitConn = NoConn
    /\ \A c \in Conns : pc[c] = "claimed" => waitPc = "claimed" /\ waitConn = c

\* A connection waits in the backlog once and before anything else.
BacklogInv ==
    /\ \A i \in 1 .. Len(backlog) :
           /\ pc[backlog[i]] = "none"
           /\ sess[backlog[i]] # "idle"
           /\ backlog[i] # waitConn
    /\ \A i, j \in 1 .. Len(backlog) : backlog[i] = backlog[j] => i = j
    /\ \A c \in Conns : sess[c] = "idle" => pc[c] = "none" /\ c # waitConn

\* Only waitProcess fills a slot, so one that was free when the scan began
\* and has not been reached is still free.
FreeAheadInv ==
    /\ waitPc = "scan" /\ ~excuse =>
           \E s \in Slots : s >= waitIdx /\ sock[s] = NoSock
    /\ waitPc = "reject" => excuse

Nameless == {"none", "claimed", "stillborn"}

\* Only a chatter that has been named can be a name's owner, and the owner
\* is in the slot or is about to clear it.
Owner(c, s) ==
    /\ Holds(c) \/ pc[c] = "clearName"
    /\ slotOf[c] = s
    /\ thisUser[c] = chatter[s]

Owned(s) == \E c \in Conns : Owner(c, s)

BlankInv ==
    /\ \A c \in Conns : pc[c] \in Nameless => thisUser[c] = NoName
    /\ \A c \in Conns : pc[c] = "clearName" => slotOf[c] \in Slots

\* Every name in the table is that of a thread which has yet to clear it.
NameInv == \A s \in Slots : chatter[s] \in {NoName, Torn} \/ Owned(s)

\* The second read of the socket is in the table, too.
HostInv == hostPc = "send" => hostIdx \in Slots

IInv ==
    /\ TypeOK /\ SlotOwnership
    /\ WaitInv /\ BacklogInv /\ FreeAheadInv
    /\ BlankInv /\ NameInv /\ HostInv

ThreadParts ==
    /\ SlotOwnership /\ WaitInv /\ BacklogInv
    /\ FreeAheadInv /\ BlankInv /\ NameInv

LEMMA InitIInv == Init => IInv
<1> SUFFICES ASSUME Init PROVE IInv OBVIOUS
<1> USE MaxClientsAssumption, NamesAssumption, ConnsAssumption
<1>1. TypeOK
  <2>1. 0 \in 0 .. MaxClients OBVIOUS
  <2>2. /\ sock \in [Slots -> Conns \cup {NoSock}]
        /\ chatter \in [Slots -> Names \cup {NoName, Torn}]
        /\ slotOf \in [Conns -> Slots \cup {NoSlot}]
        /\ thisUser \in [Conns -> Names \cup {NoName}]
    BY DEF Init
  <2>3. /\ backlog \in Seq(Conns) /\ got \in [Conns -> Nat]
        /\ sess \in [Conns -> {"idle", "open", "closed"}]
        /\ pc \in [Conns -> Holding \cup {"none", "clearName", "done"}]
    BY DEF Init
  <2>4. QED BY <2>1, <2>2, <2>3 DEF Init, TypeOK
<1>2. SlotOwnership /\ WaitInv
  BY DEF Init, SlotOwnership, WaitInv, Holds, Holding
<1>3. BacklogInv
  <2>1. /\ Len(backlog) = 0
        /\ \A c \in Conns : pc[c] = "none" /\ c # waitConn
    BY DEF Init
  <2>2. \A i \in 1 .. Len(backlog) : FALSE BY <2>1
  <2>3. QED BY <2>1, <2>2 DEF BacklogInv
<1>4. FreeAheadInv /\ BlankInv /\ NameInv /\ HostInv
  BY DEF Init, FreeAheadInv, BlankInv, NameInv, HostInv, Nameless
<1>5. QED BY <1>1, <1>2, <1>3, <1>4 DEF IInv

\* A step that leaves the table, the wait thread, the network and the client
\* threads alone keeps every part but the types and HostInv.
LEMMA Frame ==
  ASSUME ThreadParts, UNCHANGED <<tableVars, waitVars, netVars, threadVars>>
  PROVE  ThreadParts'
  BY DEF ThreadParts, SlotOwnership, WaitInv, BacklogInv, FreeAheadInv,
         BlankInv, NameInv, Owned, Owner, Holds,
         tableVars, waitVars, netVars, threadVars

\* A thread in its receive loop has a slot.
LEMMA HolderPlaced ==
  ASSUME IInv, NEW c \in Conns, pc[c] \in {"recv", "naming", "clearSock"}
  PROVE  slotOf[c] \in Slots /\ sock[slotOf[c]] = c
  BY DEF IInv, SlotOwnership, Holds, Holding

\* What the two ways to begin writing a name have in common.
Naming(c, n) ==
    /\ pc[c] = "recv" /\ slotOf[c] \in Slots
    /\ pc' = [pc EXCEPT ![c] = "naming"]
    /\ thisUser' = [thisUser EXCEPT ![c] = n]
    /\ chatter' = [chatter EXCEPT ![slotOf[c]] = Torn]
    /\ steady' \subseteq steady
    /\ heirs' = IF Leaving(slotOf[c]) THEN heirs ELSE heirs \ {c}
    /\ UNCHANGED <<sock, slotOf, waitVars, netVars, hostVars>>

LEMMA NamingFacts ==
  ASSUME IInv, NEW c \in Conns, Identify(c) \/ NickChanged(c)
  PROVE  \E n \in Names : Naming(c, n)
<1>1. pc[c] = "recv" BY DEF Identify, NickChanged
<1>2. slotOf[c] \in Slots BY <1>1, HolderPlaced
<1>3. QED BY <1>1, <1>2 DEF Identify, NickChanged, StartNaming, Naming

\* The connection accepted next has not been met before.
LEMMA AcceptFacts ==
  ASSUME IInv, Accept
  PROVE  waitConn' \in Conns /\ pc[waitConn'] = "none"
<1>1. /\ Len(backlog) \in Nat /\ Len(backlog) >= 1
      /\ waitConn' = backlog[1] /\ backlog[1] \in Conns
  BY DEF IInv, Accept, TypeOK
<1>2. 1 \in 1 .. Len(backlog) BY <1>1
<1>3. QED BY <1>1, <1>2 DEF IInv, BacklogInv

\* After its condition a slot is sent to or passed over.
LEMMA CheckSlotFacts ==
  ASSUME CheckSlot
  PROVE  \/ hostPc' = "send" /\ hostIdx' = hostIdx
         \/ hostPc' = hostPc /\ hostIdx' = hostIdx + 1
<1>1. CASE hostPc' = "send" /\ UNCHANGED hostIdx BY <1>1
<1>2. CASE hostIdx' = hostIdx + 1 /\ UNCHANGED hostPc BY <1>2
<1>3. QED BY <1>1, <1>2, Zenon DEF CheckSlot

\* The backlog is not disturbed by steps that add nothing to it.
BacklogKept ==
    /\ backlog' = backlog
    /\ waitConn' \in {waitConn, NoConn}
    /\ \A d \in Conns : pc[d] = "none" /\ d # waitConn => pc'[d] = "none"
    /\ \A d \in Conns : sess'[d] = "idle" <=> sess[d] = "idle"

LEMMA BacklogFrame ==
  ASSUME TypeOK, BacklogInv, BacklogKept
  PROVE  BacklogInv'
<1> USE DEF BacklogKept
<1>1. \A i \in 1 .. Len(backlog) : backlog[i] \in Conns BY DEF TypeOK
<1>2. \A i \in 1 .. Len(backlog) : /\ pc'[backlog[i]] = "none"
                                  /\ sess'[backlog[i]] # "idle"
                                  /\ backlog[i] # waitConn'
  BY <1>1, ConnsAssumption DEF BacklogInv
<1>3. \A c \in Conns : sess'[c] = "idle" => pc'[c] = "none" /\ c # waitConn'
  BY ConnsAssumption DEF BacklogInv
<1>4. QED BY <1>2, <1>3 DEF BacklogInv

\* A step may change a slot's name to nothing, or must keep its owner.
Kept(s) ==
    \/ chatter'[s] \in {NoName, Torn}
    \/ Owned(s)'
    \/ /\ chatter'[s] = chatter[s]
       /\ \A d \in Conns : Owner(d, s) /\ thisUser[d] # NoName => Owner(d, s)'

LEMMA NameKept ==
  ASSUME NameInv, \A s \in Slots : Kept(s)
  PROVE  NameInv'
<1> SUFFICES ASSUME NEW s \in Slots, chatter'[s] \notin {NoName, Torn}
             PROVE  Owned(s)'
  BY DEF NameInv, Slots
<1>1. CASE Owned(s)' BY <1>1
<1>2. CASE /\ chatter'[s] = chatter[s]
           /\ \A d \in Conns : Owner(d, s) /\ thisUser[d] # NoName => Owner(d, s)'
  <2>1. Owned(s) BY <1>2 DEF NameInv
  <2>2. PICK d \in Conns : Owner(d, s) BY <2>1 DEF Owned
  <2>3. thisUser[d] # NoName BY <1>2, <2>2 DEF Owner
  <2>4. QED BY <1>2, <2>2, <2>3 DEF Owned
<1>3. QED BY <1>1, <1>2 DEF Kept


\* Every step keeps the types.
LEMMA TypeStep ==
  ASSUME IInv, Next
  PROVE  TypeOK'
<1> USE MaxClientsAssumption, NamesAssumption, ConnsAssumption, PacketsAssumption DEF IInv, TypeOK, tableVars, waitVars,
       netVars, threadVars, hostVars, histVars,
       Slots, Holding, NoSlot
<1>1. ASSUME NEW c \in Conns, Connect(c) \/ Disconnect(c) \/ ClientProcess(c)
      PROVE  TypeOK'
  <2>1. CASE Connect(c)
    BY <2>1 DEF Connect
  <2>2. CASE Disconnect(c)
    BY <2>2 DEF Disconnect
  <2>3. CASE Identify(c) \/ NickChanged(c)
  <3>1. PICK n \in Names : Naming(c, n) BY <2>3, NamingFacts
  <3>2. QED BY <3>1 DEF Naming
  <2>4. CASE FinishNaming(c)
    <3>1. PICK n \in {thisUser[c]} \cup ({chatter[slotOf[c]]} \ {Torn}) :
                 chatter' = [chatter EXCEPT ![slotOf[c]] = n]
      BY <2>4 DEF FinishNaming
    <3>2. slotOf[c] \in Slots BY <2>4, HolderPlaced DEF FinishNaming
    <3>3. n \in Names \cup {NoName, Torn} BY <3>1, <3>2
    <3>4. chatter' \in [Slots -> Names \cup {NoName, Torn}] BY <3>1, <3>3
    <3>5. QED BY <2>4, <3>4 DEF FinishNaming
  <2>6. CASE EndOfStream(c)
    BY <2>6 DEF EndOfStream
  <2>7. CASE ClearSock(c)
    BY <2>7 DEF ClearSock
  <2>8. CASE ClearName(c)
    BY <2>8 DEF ClearName, EndThread
  <2>9. QED BY <1>1, <2>1, <2>2, <2>3, <2>4, <2>6, <2>7, <2>8 DEF ClientProcess
<1>2. CASE StartListening
  BY <1>2 DEF StartListening
<1>3. CASE Accept
  BY <1>3 DEF Accept
<1>4. CASE Claim
  <2>1. waitConn \in Conns /\ waitIdx \in Slots BY <1>4 DEF Claim, WaitInv
  <2>2. QED BY <1>4, <2>1 DEF Claim
<1>5. CASE SkipSlot
  BY <1>5 DEF SkipSlot
<1>6. CASE NoMemory
  BY <1>6 DEF NoMemory
<1>7. CASE CreateThread
  <2>1. PICK started \in {"recv", "stillborn"} :
               pc' = [pc EXCEPT ![waitConn] = started]
    BY <1>7 DEF CreateThread
  <2>2. QED BY <1>7, <2>1 DEF CreateThread
<1>8. CASE EndScan
  BY <1>8 DEF EndScan
<1>9. CASE Reject
  <2>1. waitConn \in Conns BY <1>9 DEF Reject, WaitInv
  <2>2. QED BY <1>9, <2>1 DEF Reject
<1>10. CASE HostThread
  <2>1. CASE HostPacket BY <2>1 DEF HostPacket
  <2>2. CASE CheckSlot
    <3>1. \/ hostPc' = "send" /\ hostIdx' = hostIdx
          \/ hostPc' = hostPc /\ hostIdx' = hostIdx + 1
      BY <2>2, CheckSlotFacts
    <3>2. hostIdx' \in 0 .. MaxClients BY <2>2, <3>1 DEF CheckSlot
    <3>3. QED BY <2>2, <3>1, <3>2 DEF CheckSlot
  <2>3. CASE SendToSlot
    <3>1. hostIdx' \in 0 .. MaxClients BY <2>3 DEF SendToSlot, HostInv
    <3>2. got' \in [Conns -> Nat] BY <2>3 DEF SendToSlot
    <3>3. QED BY <2>3, <3>1, <3>2 DEF SendToSlot
  <2>4. CASE ScanDone BY <2>4 DEF ScanDone
  <2>5. QED BY <1>10, <2>1, <2>2, <2>3, <2>4 DEF HostThread
<1>11. QED BY <1>1, <1>2, <1>3, <1>4, <1>5, <1>6, <1>7, <1>8, <1>9, <1>10 DEF Next, WaitProcess, HostThread


\* Every step keeps a slot and its connection together.
LEMMA OwnershipStep ==
  ASSUME IInv, Next
  PROVE  SlotOwnership'
<1> USE MaxClientsAssumption, NamesAssumption, ConnsAssumption DEF IInv, TypeOK, SlotOwnership, WaitInv,
       tableVars, waitVars,
       netVars, threadVars, hostVars, histVars,
       Slots, Holds, Holding, NoSock, NoSlot
<1>1. ASSUME NEW c \in Conns, Connect(c) \/ Disconnect(c) \/ ClientProcess(c)
      PROVE  SlotOwnership'
  <2>1. CASE Connect(c)
    BY <2>1 DEF Connect
  <2>2. CASE Disconnect(c)
    BY <2>2 DEF Disconnect
  <2>3. CASE Identify(c) \/ NickChanged(c)
  <3>1. PICK n \in Names : Naming(c, n) BY <2>3, NamingFacts
  <3>2. QED BY <3>1 DEF Naming
  <2>4. CASE FinishNaming(c)
    BY <2>4 DEF FinishNaming
  <2>6. CASE EndOfStream(c)
    BY <2>6 DEF EndOfStream
  <2>7. CASE ClearSock(c)
    BY <2>7 DEF ClearSock
  <2>8. CASE ClearName(c)
    BY <2>8 DEF ClearName, EndThread
  <2>9. QED BY <1>1, <2>1, <2>2, <2>3, <2>4, <2>6, <2>7, <2>8 DEF ClientProcess
<1>2. CASE StartListening
  BY <1>2 DEF StartListening
<1>3. CASE Accept
  BY <1>3 DEF Accept
<1>4. CASE Claim
  BY <1>4 DEF Claim
<1>5. CASE SkipSlot
  BY <1>5 DEF SkipSlot
<1>6. CASE NoMemory
  BY <1>6 DEF NoMemory
<1>7. CASE CreateThread
  BY <1>7 DEF CreateThread
<1>8. CASE EndScan
  BY <1>8 DEF EndScan
<1>9. CASE Reject
  BY <1>9 DEF Reject
<1>10. CASE HostThread
  BY <1>10, Frame DEF ThreadParts, HostThread, HostPacket, CheckSlot, SendToSlot, ScanDone
<1>11. QED BY <1>1, <1>2, <1>3, <1>4, <1>5, <1>6, <1>7, <1>8, <1>9, <1>10 DEF Next, WaitProcess, HostThread


\* Every step keeps track of the connection being placed.
LEMMA WaitStep ==
  ASSUME IInv, Next
  PROVE  WaitInv'
<1> USE MaxClientsAssumption, NamesAssumption, ConnsAssumption DEF IInv, TypeOK, WaitInv, tableVars, waitVars,
       netVars, threadVars, hostVars, histVars,
       Slots, Holding
<1>1. ASSUME NEW c \in Conns, Connect(c) \/ Disconnect(c) \/ ClientProcess(c)
      PROVE  WaitInv'
  <2>1. CASE Connect(c)
    BY <2>1 DEF Connect
  <2>2. CASE Disconnect(c)
    BY <2>2 DEF Disconnect
  <2>3. CASE Identify(c) \/ NickChanged(c)
  <3>1. PICK n \in Names : Naming(c, n) BY <2>3, NamingFacts
  <3>2. QED BY <3>1 DEF Naming
  <2>4. CASE FinishNaming(c)
    BY <2>4 DEF FinishNaming
  <2>6. CASE EndOfStream(c)
    BY <2>6 DEF EndOfStream
  <2>7. CASE ClearSock(c)
    BY <2>7 DEF ClearSock
  <2>8. CASE ClearName(c)
    BY <2>8 DEF ClearName, EndThread
  <2>9. QED BY <1>1, <2>1, <2>2, <2>3, <2>4, <2>6, <2>7, <2>8 DEF ClientProcess
<1>2. CASE StartListening
  BY <1>2 DEF StartListening
<1>3. CASE Accept
  BY <1>3, AcceptFacts DEF Accept
<1>4. CASE Claim
  <2>1. waitConn \in Conns /\ waitIdx \in Slots BY <1>4 DEF Claim
  <2>2. \A c \in Conns : pc[c] # "claimed" BY <1>4 DEF Claim
  <2>3. /\ pc'[waitConn] = "claimed" /\ slotOf'[waitConn] = waitIdx
       /\ \A c \in Conns \ {waitConn} : pc'[c] = pc[c]
    BY <1>4, <2>1 DEF Claim
  <2>4. QED BY <1>4, <2>1, <2>2, <2>3 DEF Claim
<1>5. CASE SkipSlot
  BY <1>5 DEF SkipSlot
<1>6. CASE NoMemory
  BY <1>6 DEF NoMemory
<1>7. CASE CreateThread
  BY <1>7 DEF CreateThread
<1>8. CASE EndScan
  BY <1>8 DEF EndScan
<1>9. CASE Reject
  BY <1>9 DEF Reject
<1>10. CASE HostThread
  BY <1>10, Frame DEF ThreadParts, HostThread, HostPacket, CheckSlot, SendToSlot, ScanDone
<1>11. QED BY <1>1, <1>2, <1>3, <1>4, <1>5, <1>6, <1>7, <1>8, <1>9, <1>10 DEF Next, WaitProcess, HostThread


\* Every step keeps the backlog free of connections met before.
LEMMA BacklogStep ==
  ASSUME IInv, Next
  PROVE  BacklogInv'
<1> USE ConnsAssumption DEF tableVars, waitVars, netVars, threadVars, hostVars, histVars
<1>1. TypeOK /\ BacklogInv /\ WaitInv BY DEF IInv
<1>2. \A i \in 1 .. Len(backlog) : backlog[i] \in Conns BY <1>1 DEF TypeOK
<1>3. ASSUME NEW c \in Conns, Connect(c) PROVE BacklogInv'
  <2>1. /\ Len(backlog) \in Nat
        /\ Len(backlog') = Len(backlog) + 1
        /\ \A i \in 1 .. Len(backlog) : backlog'[i] = backlog[i]
        /\ backlog'[Len(backlog) + 1] = c
    BY <1>1, <1>3 DEF Connect, TypeOK
  <2>2. \A i \in 1 .. Len(backlog') : i \in 1 .. Len(backlog) \/ i = Len(backlog) + 1
    BY <2>1
  <2>3. /\ pc' = pc /\ waitConn' = waitConn
        /\ sess[c] = "idle" /\ sess'[c] = "open"
        /\ \A d \in Conns \ {c} : sess'[d] = sess[d]
    BY <1>1, <1>3 DEF Connect, TypeOK
  <2>4. /\ pc[c] = "none" /\ c # waitConn
        /\ \A i \in 1 .. Len(backlog) : backlog[i] # c
    BY <1>1, <2>3 DEF BacklogInv
  <2>5. \A i \in 1 .. Len(backlog') : /\ pc'[backlog'[i]] = "none"
                                      /\ sess'[backlog'[i]] # "idle"
                                      /\ backlog'[i] # waitConn'
    BY <1>1, <1>2, <2>1, <2>2, <2>3, <2>4 DEF BacklogInv
  <2>6. \A i, j \in 1 .. Len(backlog') : backlog'[i] = backlog'[j] => i = j
    BY <1>1, <2>1, <2>2, <2>4 DEF BacklogInv
  <2>7. \A d \in Conns : sess'[d] = "idle" => pc'[d] = "none" /\ d # waitConn'
    BY <1>1, <2>3 DEF BacklogInv
  <2>8. QED BY <2>5, <2>6, <2>7 DEF BacklogInv
<1>4. CASE Accept
  <2>1. /\ Len(backlog) \in Nat /\ Len(backlog) >= 1
        /\ waitConn' = backlog[1]
        /\ Len(backlog') = Len(backlog) - 1
        /\ \A i \in 1 .. Len(backlog') : backlog'[i] = backlog[i + 1]
        /\ pc' = pc /\ sess' = sess
    BY <1>1, <1>4 DEF Accept, TypeOK
  <2>2. /\ 1 \in 1 .. Len(backlog)
        /\ \A i \in 1 .. Len(backlog') : i + 1 \in 1 .. Len(backlog) /\ i + 1 # 1
    BY <2>1
  <2>3. \A i \in 1 .. Len(backlog') : /\ pc'[backlog'[i]] = "none"
                                      /\ sess'[backlog'[i]] # "idle"
                                      /\ backlog'[i] # waitConn'
    BY <1>1, <2>1, <2>2 DEF BacklogInv
  <2>4. \A i, j \in 1 .. Len(backlog') : backlog'[i] = backlog'[j] => i = j
    BY <1>1, <2>1, <2>2 DEF BacklogInv
  <2>5. \A d \in Conns : sess'[d] = "idle" => pc'[d] = "none" /\ d # waitConn'
    BY <1>1, <2>1, <2>2 DEF BacklogInv
  <2>6. QED BY <2>3, <2>4, <2>5 DEF BacklogInv
<1>5. ASSUME NEW c \in Conns, Disconnect(c) \/ ClientProcess(c) PROVE BacklogKept
  <2>1. CASE Disconnect(c)
    BY <1>1, <2>1 DEF Disconnect, TypeOK, BacklogKept
  <2>2. CASE Identify(c) \/ NickChanged(c)
    BY <1>1, <2>2 DEF Identify, NickChanged, StartNaming, TypeOK, BacklogKept
  <2>3. CASE FinishNaming(c) \/ EndOfStream(c)
    BY <1>1, <2>3 DEF FinishNaming, EndOfStream, TypeOK, BacklogKept
  <2>4. CASE ClearSock(c) \/ ClearName(c)
    BY <1>1, <2>4 DEF ClearSock, ClearName, EndThread, TypeOK, BacklogKept
  <2>5. QED BY <1>5, <2>1, <2>2, <2>3, <2>4 DEF ClientProcess
<1>6. ASSUME StartListening PROVE BacklogKept
  BY <1>1, <1>6 DEF StartListening, TypeOK, BacklogKept
<1>7. ASSUME SkipSlot \/ EndScan \/ Reject PROVE BacklogKept
  <2>1. CASE SkipSlot BY <1>1, <2>1 DEF SkipSlot, TypeOK, BacklogKept
  <2>2. CASE EndScan BY <1>1, <2>2 DEF EndScan, TypeOK, BacklogKept
  <2>3. CASE Reject BY <1>1, <2>3 DEF Reject, TypeOK, BacklogKept
  <2>4. QED BY <1>7, <2>1, <2>2, <2>3
<1>8. ASSUME Claim \/ NoMemory \/ CreateThread PROVE BacklogKept
  <2>1. CASE Claim BY <1>1, <2>1 DEF Claim, TypeOK, BacklogKept
  <2>2. CASE NoMemory BY <1>1, <2>2 DEF NoMemory, TypeOK, BacklogKept
  <2>3. CASE CreateThread
    BY <1>1, <2>3 DEF CreateThread, TypeOK, WaitInv, BacklogKept
  <2>4. QED BY <1>8, <2>1, <2>2, <2>3
<1>9. CASE HostThread
  BY <1>9, Frame DEF IInv, ThreadParts, HostThread, HostPacket, CheckSlot,
                     SendToSlot, ScanDone
<1>10. QED
  BY <1>1, <1>3, <1>4, <1>5, <1>6, <1>7, <1>8, <1>9, BacklogFrame
  DEF Next, WaitProcess


\* Every step keeps a free slot ahead of a scan that began with one.
LEMMA FreeAheadStep ==
  ASSUME IInv, Next
  PROVE  FreeAheadInv'
<1> USE MaxClientsAssumption, NamesAssumption, ConnsAssumption DEF IInv, TypeOK, FreeAheadInv, tableVars, waitVars,
       netVars, threadVars, hostVars, histVars,
       Slots, NoSock
<1>1. ASSUME NEW c \in Conns, Connect(c) \/ Disconnect(c) \/ ClientProcess(c)
      PROVE  FreeAheadInv'
  <2>1. CASE Connect(c)
    BY <2>1 DEF Connect
  <2>2. CASE Disconnect(c)
    BY <2>2 DEF Disconnect
  <2>3. CASE Identify(c) \/ NickChanged(c)
  <3>1. PICK n \in Names : Naming(c, n) BY <2>3, NamingFacts
  <3>2. QED BY <3>1 DEF Naming
  <2>4. CASE FinishNaming(c)
    BY <2>4 DEF FinishNaming
  <2>6. CASE EndOfStream(c)
    BY <2>6 DEF EndOfStream
  <2>7. CASE ClearSock(c)
    BY <2>7 DEF ClearSock
  <2>8. CASE ClearName(c)
    BY <2>8 DEF ClearName, EndThread
  <2>9. QED BY <1>1, <2>1, <2>2, <2>3, <2>4, <2>6, <2>7, <2>8 DEF ClientProcess
<1>2. CASE StartListening
  BY <1>2 DEF StartListening
<1>3. CASE Accept
  BY <1>3 DEF Accept
<1>4. CASE Claim
  BY <1>4 DEF Claim
<1>5. CASE SkipSlot
  BY <1>5 DEF SkipSlot
<1>6. CASE NoMemory
  BY <1>6 DEF NoMemory
<1>7. CASE CreateThread
  BY <1>7 DEF CreateThread
<1>8. CASE EndScan
  BY <1>8 DEF EndScan
<1>9. CASE Reject
  BY <1>9 DEF Reject
<1>10. CASE HostThread
  BY <1>10, Frame DEF ThreadParts, HostThread, HostPacket, CheckSlot, SendToSlot, ScanDone
<1>11. QED BY <1>1, <1>2, <1>3, <1>4, <1>5, <1>6, <1>7, <1>8, <1>9, <1>10 DEF Next, WaitProcess, HostThread


\* Every step leaves sessions without a name nameless.
LEMMA BlankStep ==
  ASSUME IInv, Next
  PROVE  BlankInv'
<1> USE MaxClientsAssumption, NamesAssumption, ConnsAssumption DEF IInv, TypeOK, WaitInv, SlotOwnership, BlankInv, tableVars, waitVars,
       netVars, threadVars, hostVars, histVars,
       Holds, Holding, Nameless
<1>1. ASSUME NEW c \in Conns, Connect(c) \/ Disconnect(c) \/ ClientProcess(c)
      PROVE  BlankInv'
  <2>1. CASE Connect(c)
    BY <2>1 DEF Connect
  <2>2. CASE Disconnect(c)
    BY <2>2 DEF Disconnect
  <2>3. CASE Identify(c) \/ NickChanged(c)
  <3>1. PICK n \in Names : Naming(c, n) BY <2>3, NamingFacts
  <3>2. QED BY <3>1 DEF Naming
  <2>4. CASE FinishNaming(c)
    BY <2>4 DEF FinishNaming
  <2>6. CASE EndOfStream(c)
    BY <2>6 DEF EndOfStream
  <2>7. CASE ClearSock(c)
    BY <2>7 DEF ClearSock
  <2>8. CASE ClearName(c)
    BY <2>8 DEF ClearName, EndThread
  <2>9. QED BY <1>1, <2>1, <2>2, <2>3, <2>4, <2>6, <2>7, <2>8 DEF ClientProcess
<1>2. CASE StartListening
  BY <1>2 DEF StartListening
<1>3. CASE Accept
  BY <1>3 DEF Accept
<1>4. CASE Claim
  BY <1>4 DEF Claim
<1>5. CASE SkipSlot
  BY <1>5 DEF SkipSlot
<1>6. CASE NoMemory
  BY <1>6 DEF NoMemory
<1>7. CASE CreateThread
  BY <1>7 DEF CreateThread
<1>8. CASE EndScan
  BY <1>8 DEF EndScan
<1>9. CASE Reject
  BY <1>9 DEF Reject
<1>10. CASE HostThread
  BY <1>10, Frame DEF ThreadParts, HostThread, HostPacket, CheckSlot, SendToSlot, ScanDone
<1>11. QED BY <1>1, <1>2, <1>3, <1>4, <1>5, <1>6, <1>7, <1>8, <1>9, <1>10 DEF Next, WaitProcess, HostThread


\* Every step keeps an owner for every name in the table.
LEMMA NameStep ==
  ASSUME IInv, Next
  PROVE  NameInv'
<1> USE MaxClientsAssumption, NamesAssumption, ConnsAssumption DEF IInv, TypeOK, WaitInv, BlankInv, tableVars, waitVars,
       netVars, threadVars, hostVars, histVars,
       Holds, Holding, Nameless
<1>1. ASSUME NEW c \in Conns, Connect(c) \/ Disconnect(c) \/ ClientProcess(c)
      PROVE  NameInv'
  <2>1. CASE Connect(c)
  <3>1. \A s \in Slots : Kept(s) BY <2>1 DEF Connect, Kept, Owner
  <3>2. QED BY <3>1, NameKept
  <2>2. CASE Disconnect(c)
  <3>1. \A s \in Slots : Kept(s) BY <2>2 DEF Disconnect, Kept, Owner
  <3>2. QED BY <3>1, NameKept
  <2>3. CASE Identify(c) \/ NickChanged(c)
  <3>1. PICK n \in Names : Naming(c, n) BY <2>3, NamingFacts
  <3>2. \A s \in Slots : Kept(s) BY <3>1 DEF Naming, Kept, Owner
  <3>3. QED BY <3>2, NameKept
  <2>4. CASE FinishNaming(c)
  <3>1. slotOf[c] \in Slots BY <2>4, HolderPlaced DEF FinishNaming
  <3>2. PICK n \in {thisUser[c]} \cup ({chatter[slotOf[c]]} \ {Torn}) :
               chatter' = [chatter EXCEPT ![slotOf[c]] = n]
    BY <2>4 DEF FinishNaming
  <3>3. Kept(slotOf[c])
    <4>1. CASE n = thisUser[c]
      <5>1. Owner(c, slotOf[c])' BY <2>4, <3>1, <3>2, <4>1 DEF FinishNaming, Owner
      <5>2. QED BY <5>1 DEF Kept, Owned
    <4>2. CASE n = chatter[slotOf[c]]
      <5>1. chatter' = chatter BY <3>1, <3>2, <4>2
      <5>2. QED BY <2>4, <5>1 DEF FinishNaming, Kept, Owner
    <4>3. QED BY <3>2, <4>1, <4>2
  <3>4. \A s \in Slots \ {slotOf[c]} : Kept(s) BY <2>4 DEF FinishNaming, Kept, Owner
  <3>5. QED BY <3>3, <3>4, NameKept
  <2>6. CASE EndOfStream(c)
  <3>1. \A s \in Slots : Kept(s) BY <2>6 DEF EndOfStream, Kept, Owner
  <3>2. QED BY <3>1, NameKept
  <2>7. CASE ClearSock(c)
  <3>1. \A s \in Slots : Kept(s) BY <2>7 DEF ClearSock, Kept, Owner
  <3>2. QED BY <3>1, NameKept
  <2>8. CASE ClearName(c)
  <3>1. \A s \in Slots : Kept(s) BY <2>8 DEF ClearName, EndThread, Kept, Owner
  <3>2. QED BY <3>1, NameKept
  <2>9. QED BY <1>1, <2>1, <2>2, <2>3, <2>4, <2>6, <2>7, <2>8 DEF ClientProcess
<1>2. CASE StartListening
  <2>1. \A s \in Slots : Kept(s) BY <1>2 DEF StartListening, Kept, Owner
  <2>2. QED BY <2>1, NameKept
<1>3. CASE Accept
  <2>1. \A s \in Slots : Kept(s) BY <1>3 DEF Accept, Kept, Owner
  <2>2. QED BY <2>1, NameKept
<1>4. CASE Claim
  <2>1. \A s \in Slots : Kept(s) BY <1>4 DEF Claim, Kept, Owner
  <2>2. QED BY <2>1, NameKept
<1>5. CASE SkipSlot
  <2>1. \A s \in Slots : Kept(s) BY <1>5 DEF SkipSlot, Kept, Owner
  <2>2. QED BY <2>1, NameKept
<1>6. CASE NoMemory
  <2>1. \A s \in Slots : Kept(s) BY <1>6 DEF NoMemory, Kept, Owner
  <2>2. QED BY <2>1, NameKept
<1>7. CASE CreateThread
  <2>1. \A s \in Slots : Kept(s) BY <1>7 DEF CreateThread, Kept, Owner
  <2>2. QED BY <2>1, NameKept
<1>8. CASE EndScan
  <2>1. \A s \in Slots : Kept(s) BY <1>8 DEF EndScan, Kept, Owner
  <2>2. QED BY <2>1, NameKept
<1>9. CASE Reject
  <2>1. \A s \in Slots : Kept(s) BY <1>9 DEF Reject, Kept, Owner
  <2>2. QED BY <2>1, NameKept
<1>10. CASE HostThread
  BY <1>10, Frame DEF ThreadParts, HostThread, HostPacket, CheckSlot, SendToSlot, ScanDone
<1>11. QED BY <1>1, <1>2, <1>3, <1>4, <1>5, <1>6, <1>7, <1>8, <1>9, <1>10 DEF Next, WaitProcess, HostThread


\* Every step keeps the host's thread inside the table while it sends.
LEMMA HostStep ==
  ASSUME IInv, Next
  PROVE  HostInv'
<1> USE MaxClientsAssumption DEF IInv, HostInv, TypeOK, Slots, hostVars, histVars
<1>1. CASE CheckSlot BY <1>1 DEF CheckSlot
<1>2. CASE HostPacket \/ SendToSlot \/ ScanDone
  BY <1>2 DEF HostPacket, SendToSlot, ScanDone
<1>3. CASE hostPc' = hostPc /\ hostIdx' = hostIdx BY <1>3
<1>4. ASSUME NEW c \in Conns, Connect(c) \/ Disconnect(c) \/ ClientProcess(c)
      PROVE  hostPc' = hostPc /\ hostIdx' = hostIdx
  BY <1>4 DEF Connect, Disconnect, ClientProcess, Identify, NickChanged,
              FinishNaming, EndOfStream, ClearSock, ClearName
<1>5. ASSUME StartListening \/ WaitProcess
      PROVE  hostPc' = hostPc /\ hostIdx' = hostIdx
  BY <1>5 DEF StartListening, WaitProcess, Accept, Claim, SkipSlot, NoMemory,
              CreateThread, EndScan, Reject
<1>6. QED BY <1>1, <1>2, <1>3, <1>4, <1>5 DEF Next, HostThread


THEOREM InductiveInvariant == Spec => []IInv
<1>1. Init => IInv
  BY InitIInv
<1>2. IInv /\ [Next]_vars => IInv'
  <2>1. ASSUME IInv, Next PROVE IInv'
    BY <2>1, TypeStep, OwnershipStep, WaitStep, BacklogStep, FreeAheadStep,
       BlankStep, NameStep, HostStep DEF IInv
  <2>2. ASSUME IInv, UNCHANGED vars PROVE IInv'
    <3>1. TypeOK'
      BY <2>2 DEF IInv, TypeOK, vars, tableVars, waitVars, netVars, threadVars, hostVars, histVars
    <3>2. HostInv'
      BY <2>2 DEF IInv, HostInv, vars, hostVars, histVars
    <3>3. QED
      BY <2>2, <3>1, <3>2, Frame DEF IInv, ThreadParts, vars
  <2>3. QED BY <2>1, <2>2
<1>3. QED BY <1>1, <1>2, PTL DEF Spec

\* Types: no thread ever leaves the bounds of the table of clients.
THEOREM TypeCorrect == Spec => []TypeOK
<1>1. IInv => TypeOK BY DEF IInv
<1>2. QED BY <1>1, InductiveInvariant, PTL

\* However claims and releases interleave, a slot and its connection refer to
\* each other (bridge.c:617-618 against :517).
THEOREM OwnershipHolds == Spec => []SlotOwnership
<1>1. IInv => SlotOwnership BY DEF IInv
<1>2. QED BY <1>1, InductiveInvariant, PTL

\* A client is turned away only if the whole table was taken when its turn
\* came, or for want of memory (bridge.c:616-651).
THEOREM RejectionJustified == Spec => []RejectedOnlyWhenFull
<1>1. IInv => RejectedOnlyWhenFull BY DEF IInv, FreeAheadInv, RejectedOnlyWhenFull
<1>2. QED BY <1>1, InductiveInvariant, PTL

\* A name that is not its occupant's is about to be cleared (bridge.c:517-518).
THEOREM StaleNamesLeave == Spec => []StaleNameOnlyWhileLeaving
<1>1. IInv => StaleNameOnlyWhileLeaving
  BY DEF IInv, SlotOwnership, NameInv, Owned, Owner, StaleNameOnlyWhileLeaving
<1>2. QED BY <1>1, InductiveInvariant, PTL

-----------------------------------------------------------------------------
(* What a walk of the host's thread and a refusal leave behind, and whose  *)
(* name a slot keeps.                                                      *)

\* A connection that was turned away is not met again.
RefusedInv ==
    \A c \in turnedAway :
        /\ pc[c] = "none" /\ sess[c] # "idle" /\ c # waitConn
        /\ \A i \in 1 .. Len(backlog) : backlog[i] # c

\* A connection that will not have a slot any more.
Gone(c) ==
    \/ pc[c] \in {"clearName", "done"}
    \/ c \in turnedAway
    \/ waitPc = "reject" /\ waitConn = c

\* Who has got the packet has its slot behind the walk, or will not have one.
OnceInv ==
    \A c \in Conns :
        \/ got[c] = 0
        \/ got[c] = 1 /\ (Gone(c) \/ (Holds(c) /\ slotOf[c] < hostIdx))

\* A steady connection has its slot, and the name the walk has seen in it.
SteadyInv ==
    /\ \A c \in steady : Holds(c)
    /\ hostPc = "send" =>
           \A c \in steady : slotOf[c] = hostIdx => TRUE \in Matches(hostIdx)

PassedInv ==
    hostPc # "idle" =>
        \A c \in steady : slotOf[c] < hostIdx /\ chatter[slotOf[c]] # Torn =>
            got[c] = IF TRUE \in Matches(slotOf[c]) THEN 1 ELSE 0

\* What a connection that is no heir may rely on: nobody is left to clear its
\* slot's name, and the name is the one it has written.
Secure(c) ==
    /\ ~Leaving(slotOf[c])
    /\ pc[c] = "naming" => chatter[slotOf[c]] = Torn
    /\ pc[c] = "recv" /\ thisUser[c] # NoName => chatter[slotOf[c]] = thisUser[c]

HeirInv == \A c \in Conns : Holds(c) /\ c \notin heirs => Secure(c)

WalkInv == RefusedInv /\ OnceInv /\ SteadyInv /\ PassedInv /\ HeirInv

LEMMA InitWalkInv == Init => WalkInv
  BY DEF Init, WalkInv, RefusedInv, OnceInv, SteadyInv, PassedInv, HeirInv, Holds, Holding

\* Every step keeps the refused apart.
LEMMA RefusedStep ==
  ASSUME IInv, WalkInv, Next
  PROVE  RefusedInv'
<1> USE MaxClientsAssumption, NamesAssumption, ConnsAssumption, PacketsAssumption
       DEF IInv, WalkInv, TypeOK, WaitInv, BacklogInv, RefusedInv, tableVars, waitVars, netVars, threadVars, hostVars, histVars
<1>1. ASSUME NEW c \in Conns, Connect(c) \/ Disconnect(c) \/ ClientProcess(c)
      PROVE  RefusedInv'
  <2>1. CASE Connect(c)
    BY <2>1 DEF Connect
  <2>2. CASE Disconnect(c)
    BY <2>2 DEF Disconnect
  <2>3. CASE Identify(c) \/ NickChanged(c)
    BY <2>3 DEF Identify, NickChanged, StartNaming
  <2>4. CASE FinishNaming(c)
    BY <2>4 DEF FinishNaming
  <2>6. CASE EndOfStream(c)
    BY <2>6 DEF EndOfStream
  <2>7. CASE ClearSock(c)
    BY <2>7 DEF ClearSock
  <2>8. CASE ClearName(c)
    BY <2>8 DEF ClearName, EndThread
  <2>9. QED BY <1>1, <2>1, <2>2, <2>3, <2>4, <2>6, <2>7, <2>8 DEF ClientProcess
<1>2. CASE StartListening
  BY <1>2 DEF StartListening
<1>3. CASE Accept
  BY <1>3 DEF Accept
<1>4. CASE Claim
  BY <1>4 DEF Claim
<1>5. CASE SkipSlot
  BY <1>5 DEF SkipSlot
<1>6. CASE NoMemory
  BY <1>6 DEF NoMemory
<1>7. CASE CreateThread
  BY <1>7 DEF CreateThread
<1>8. CASE EndScan
  BY <1>8 DEF EndScan
<1>9. CASE Reject
  BY <1>9 DEF Reject
<1>10. CASE HostPacket
  BY <1>10 DEF HostPacket
<1>11. CASE CheckSlot
  BY <1>11 DEF CheckSlot
<1>12. CASE SendToSlot
  BY <1>12 DEF SendToSlot
<1>13. CASE ScanDone
  BY <1>13 DEF ScanDone
<1>14. QED
  BY <1>1, <1>2, <1>3, <1>4, <1>5, <1>6, <1>7, <1>8, <1>9, <1>10, <1>11, <1>12, <1>13
  DEF Next, WaitProcess, HostThread

LEMMA IndexTypes ==
  ASSUME TypeOK, NEW c \in Conns
  PROVE  slotOf[c] \in Int /\ hostIdx \in Int
  BY MaxClientsAssumption DEF TypeOK, Slots, NoSlot

\* Who holds a slot the walk has not passed has not got the packet.
LEMMA NotYet ==
  ASSUME IInv, RefusedInv, OnceInv, NEW c \in Conns, Holds(c), hostIdx <= slotOf[c]
  PROVE  got[c] = 0
<1>1. ~Gone(c)
  BY DEF IInv, WaitInv, RefusedInv, Gone, Holds, Holding
<1>2. ~(slotOf[c] < hostIdx)
  BY IndexTypes DEF IInv
<1>3. QED BY <1>1, <1>2 DEF OnceInv

\* The walk goes on and the packet is not sent to this connection.
LEMMA OnceKept ==
  ASSUME OnceInv, NEW c \in Conns,
         UNCHANGED <<pc, slotOf, waitPc, waitConn, turnedAway>>,
         got'[c] = got[c], slotOf[c] < hostIdx => slotOf[c] < hostIdx'
  PROVE  got'[c] = 0 \/ (got'[c] = 1 /\ (Gone(c)' \/ (Holds(c)' /\ slotOf'[c] < hostIdx')))
<1>1. (Gone(c)' <=> Gone(c)) /\ (Holds(c)' <=> Holds(c))
  BY DEF Gone, Holds
<1>2. QED BY <1>1 DEF OnceInv

\* A name that is not half written has one answer to the comparison.
LEMMA OneAnswer ==
  ASSUME NEW s, chatter[s] # Torn
  PROVE  FALSE \in Matches(s) => TRUE \notin Matches(s)
<1>1. CASE pkt.to = Everyone
  <2>1. Matches(s) = {TRUE} BY <1>1 DEF Matches, Everyone, NotMe
  <2>2. QED BY <2>1
<1>2. CASE pkt.to # Everyone /\ pkt.to = NotMe
  <2>1. Matches(s) = {chatter[s] # pkt.from} BY <1>2 DEF Matches
  <2>2. QED BY <2>1
<1>3. CASE pkt.to # Everyone /\ pkt.to # NotMe
  <2>1. Matches(s) = {chatter[s] = pkt.to} BY <1>3 DEF Matches
  <2>2. QED BY <2>1
<1>4. QED BY <1>1, <1>2, <1>3

LEMMA AtMostOne == ASSUME NEW x, NEW S \in SUBSET {x} PROVE S = {} \/ S = {x}
  OBVIOUS

\* Every step keeps a packet from being sent twice.
LEMMA OnceStep ==
  ASSUME IInv, WalkInv, Next
  PROVE  OnceInv'
<1> USE MaxClientsAssumption, NamesAssumption, ConnsAssumption, PacketsAssumption
       DEF IInv, WalkInv, TypeOK, WaitInv, SlotOwnership, RefusedInv, OnceInv, Gone, Holds, Holding, Slots,
           HostInv, NoSock, NoSlot, tableVars, waitVars, netVars, threadVars, hostVars, histVars
<1>1. ASSUME NEW c \in Conns, Connect(c) \/ Disconnect(c) \/ ClientProcess(c)
      PROVE  OnceInv'
  <2>1. CASE Connect(c)
    BY <2>1 DEF Connect
  <2>2. CASE Disconnect(c)
    BY <2>2 DEF Disconnect
  <2>3. CASE Identify(c) \/ NickChanged(c)
    <3>1. PICK n \in Names : Naming(c, n) BY <2>3, NamingFacts
    <3>2. QED BY <3>1 DEF Naming
  <2>4. CASE FinishNaming(c)
    BY <2>4 DEF FinishNaming
  <2>6. CASE EndOfStream(c)
    BY <2>6 DEF EndOfStream
  <2>7. CASE ClearSock(c)
    BY <2>7 DEF ClearSock
  <2>8. CASE ClearName(c)
    BY <2>8 DEF ClearName, EndThread
  <2>9. QED BY <1>1, <2>1, <2>2, <2>3, <2>4, <2>6, <2>7, <2>8 DEF ClientProcess
<1>2. CASE StartListening
  BY <1>2 DEF StartListening
<1>3. CASE Accept
  BY <1>3 DEF Accept
<1>4. CASE Claim
  BY <1>4 DEF Claim
<1>5. CASE SkipSlot
  BY <1>5 DEF SkipSlot
<1>6. CASE NoMemory
  BY <1>6 DEF NoMemory
<1>7. CASE CreateThread
  BY <1>7 DEF CreateThread
<1>8. CASE EndScan
  BY <1>8 DEF EndScan
<1>9. CASE Reject
  BY <1>9 DEF Reject
<1>10. CASE HostPacket
  BY <1>10 DEF HostPacket
<1>11. CASE CheckSlot
  <2>1. hostIdx' = hostIdx \/ hostIdx' = hostIdx + 1
    BY <1>11, CheckSlotFacts
  <2>2. UNCHANGED <<pc, slotOf, waitPc, waitConn, turnedAway, got>>
    BY <1>11 DEF CheckSlot
  <2>3. ASSUME NEW c \in Conns
        PROVE  got'[c] = 0 \/ (got'[c] = 1 /\ (Gone(c)' \/ (Holds(c)' /\ slotOf'[c] < hostIdx')))
    <3>1. slotOf[c] < hostIdx => slotOf[c] < hostIdx' BY <2>1, IndexTypes
    <3>2. QED BY <2>2, <3>1, OnceKept
  <2>4. QED BY <2>3
<1>12. CASE SendToSlot
  <2>1. /\ hostIdx' = hostIdx + 1 /\ hostIdx \in Slots
        /\ \A c \in Conns : got'[c] = IF sock[hostIdx] = c THEN got[c] + 1 ELSE got[c]
        /\ UNCHANGED <<pc, slotOf, waitPc, waitConn, turnedAway>>
    BY <1>12 DEF SendToSlot
  <2>2. ASSUME NEW c \in Conns, sock[hostIdx] = c
        PROVE  Holds(c) /\ slotOf[c] = hostIdx /\ got[c] = 0
    <3>1. Holds(c) /\ slotOf[c] = hostIdx BY <2>1, <2>2
    <3>2. QED BY <3>1, <2>1, NotYet
  <2>3. ASSUME NEW c \in Conns
        PROVE  got'[c] = 0 \/ (got'[c] = 1 /\ (Gone(c)' \/ (Holds(c)' /\ slotOf'[c] < hostIdx')))
    <3>1. CASE sock[hostIdx] = c BY <2>1, <2>2, <3>1
    <3>2. CASE sock[hostIdx] # c
      <4>1. got'[c] = got[c] BY <2>1, <3>2
      <4>2. slotOf[c] < hostIdx => slotOf[c] < hostIdx' BY <2>1, IndexTypes
      <4>3. QED BY <2>1, <4>1, <4>2, OnceKept
    <3>3. QED BY <3>1, <3>2
  <2>4. QED BY <2>3
<1>13. CASE ScanDone
  BY <1>13 DEF ScanDone
<1>14. QED
  BY <1>1, <1>2, <1>3, <1>4, <1>5, <1>6, <1>7, <1>8, <1>9, <1>10, <1>11, <1>12, <1>13
  DEF Next, WaitProcess, HostThread

\* A step of another thread keeps the slots and the names of the steady.
SteadyKept ==
    /\ \A c \in steady' : /\ c \in steady /\ Holds(c)'
                          /\ slotOf'[c] = slotOf[c] /\ chatter'[slotOf[c]] = chatter[slotOf[c]]
    /\ UNCHANGED <<hostPc, pkt, hostIdx, got>>

LEMMA SteadyFrame ==
  ASSUME SteadyInv, PassedInv, SteadyKept
  PROVE  SteadyInv' /\ PassedInv'
<1>1. \A c \in steady' : Matches(slotOf[c])' = Matches(slotOf[c])
  BY DEF SteadyKept, Matches
<1>2. SteadyInv'
  BY <1>1 DEF SteadyKept, SteadyInv
<1>3. PassedInv'
  BY <1>1 DEF SteadyKept, PassedInv
<1>4. QED BY <1>2, <1>3

\* Every step keeps the steady in their slots, and to the addressees.
LEMMA SteadyStep ==
  ASSUME IInv, WalkInv, Next
  PROVE  (SteadyInv /\ PassedInv)'
<1> USE MaxClientsAssumption, NamesAssumption, ConnsAssumption, PacketsAssumption
       DEF IInv, WalkInv, TypeOK, SlotOwnership, Holds, Holding, Slots, NoSock, NoSlot,
           tableVars, waitVars, netVars, threadVars, hostVars, histVars
<1>1. ASSUME NEW c \in Conns, Connect(c) \/ Disconnect(c) \/ ClientProcess(c)
      PROVE  (SteadyInv /\ PassedInv)'
  <2>1. CASE Connect(c)
    <3>1. SteadyKept BY <2>1 DEF Connect, SteadyInv, SteadyKept, WaitInv
    <3>2. QED BY <3>1, SteadyFrame
  <2>2. CASE Disconnect(c)
    <3>1. SteadyKept BY <2>2 DEF Disconnect, SteadyInv, SteadyKept, WaitInv
    <3>2. QED BY <3>1, SteadyFrame
  <2>3. CASE Identify(c) \/ NickChanged(c)
    <3>1. PICK n \in Names : Naming(c, n) BY <2>3, NamingFacts
    <3>2. steady' = {d \in steady : slotOf[d] # slotOf[c]}
      BY <2>3 DEF Identify, NickChanged, StartNaming
    <3>3. SteadyKept BY <3>1, <3>2 DEF Naming, SteadyInv, SteadyKept
    <3>4. QED BY <3>3, SteadyFrame
  <2>4. CASE FinishNaming(c)
    <3>1. SteadyKept BY <2>4 DEF FinishNaming, SteadyInv, SteadyKept, WaitInv
    <3>2. QED BY <3>1, SteadyFrame
  <2>6. CASE EndOfStream(c)
    <3>1. SteadyKept BY <2>6 DEF EndOfStream, SteadyInv, SteadyKept, WaitInv
    <3>2. QED BY <3>1, SteadyFrame
  <2>7. CASE ClearSock(c)
    <3>1. SteadyKept BY <2>7 DEF ClearSock, SteadyInv, SteadyKept, WaitInv
    <3>2. QED BY <3>1, SteadyFrame
  <2>8. CASE ClearName(c)
    <3>1. SteadyKept BY <2>8 DEF ClearName, EndThread, SteadyInv, SteadyKept, WaitInv
    <3>2. QED BY <3>1, SteadyFrame
  <2>9. QED BY <1>1, <2>1, <2>2, <2>3, <2>4, <2>6, <2>7, <2>8 DEF ClientProcess
<1>2. CASE StartListening
  <2>1. SteadyKept BY <1>2 DEF StartListening, SteadyInv, SteadyKept, WaitInv
  <2>2. QED BY <2>1, SteadyFrame
<1>3. CASE Accept
  <2>1. SteadyKept BY <1>3 DEF Accept, SteadyInv, SteadyKept, WaitInv
  <2>2. QED BY <2>1, SteadyFrame
<1>4. CASE Claim
  <2>1. SteadyKept BY <1>4 DEF Claim, SteadyInv, SteadyKept, WaitInv
  <2>2. QED BY <2>1, SteadyFrame
<1>5. CASE SkipSlot
  <2>1. SteadyKept BY <1>5 DEF SkipSlot, SteadyInv, SteadyKept, WaitInv
  <2>2. QED BY <2>1, SteadyFrame
<1>6. CASE NoMemory
  <2>1. SteadyKept BY <1>6 DEF NoMemory, SteadyInv, SteadyKept, WaitInv
  <2>2. QED BY <2>1, SteadyFrame
<1>7. CASE CreateThread
  <2>1. SteadyKept BY <1>7 DEF CreateThread, SteadyInv, SteadyKept, WaitInv
  <2>2. QED BY <2>1, SteadyFrame
<1>8. CASE EndScan
  <2>1. SteadyKept BY <1>8 DEF EndScan, SteadyInv, SteadyKept, WaitInv
  <2>2. QED BY <2>1, SteadyFrame
<1>9. CASE Reject
  <2>1. SteadyKept BY <1>9 DEF Reject, SteadyInv, SteadyKept, WaitInv
  <2>2. QED BY <2>1, SteadyFrame
<1>10. CASE HostPacket
  <2>1. /\ steady' = {c \in Conns : Seated(c)} /\ hostIdx' = 0 /\ hostPc' = "check"
        /\ UNCHANGED <<sock, pc, slotOf>>
    BY <1>10 DEF HostPacket
  <2>2. \A c \in steady' : Holds(c)' /\ slotOf'[c] \in Slots
    BY <2>1 DEF Seated
  <2>3. SteadyInv' BY <2>1, <2>2 DEF SteadyInv
  <2>4. \A c \in steady' : ~(slotOf'[c] < hostIdx') BY <2>1, <2>2
  <2>5. PassedInv' BY <2>4 DEF PassedInv
  <2>6. QED BY <2>3, <2>5
<1>11. CASE CheckSlot
  <2> USE DEF SteadyInv
  <2>1. /\ UNCHANGED <<steady, pc, slotOf, sock, chatter, pkt, got>>
        /\ hostPc = "check" /\ hostIdx \in Slots
    BY <1>11 DEF CheckSlot
  <2>2. \A s : Matches(s)' = Matches(s)
    BY <2>1 DEF Matches
  <2>3. CASE TRUE \in Matches(hostIdx) /\ hostPc' = "send" /\ hostIdx' = hostIdx
    BY <2>1, <2>2, <2>3 DEF PassedInv
  <2>4. CASE /\ sock[hostIdx] = NoSock \/ FALSE \in Matches(hostIdx)
             /\ hostIdx' = hostIdx + 1 /\ hostPc' = "check"
    <3>1. ASSUME NEW c \in steady, slotOf[c] = hostIdx, chatter[hostIdx] # Torn
          PROVE  got[c] = 0 /\ TRUE \notin Matches(hostIdx)
      <4>1. Holds(c) /\ sock[hostIdx] = c /\ c # NoSock BY <3>1
      <4>2. got[c] = 0 BY <2>1, <3>1, <4>1, NotYet
      <4>3. FALSE \in Matches(hostIdx) BY <2>4, <4>1
      <4>4. QED BY <3>1, <4>2, <4>3, OneAnswer
    <3>2. ASSUME NEW c \in steady, slotOf[c] < hostIdx', chatter[slotOf[c]] # Torn
          PROVE  got[c] = IF TRUE \in Matches(slotOf[c]) THEN 1 ELSE 0
      <4>1. slotOf[c] < hostIdx \/ slotOf[c] = hostIdx BY <2>1, <2>4, <3>2
      <4>2. CASE slotOf[c] = hostIdx BY <3>1, <3>2, <4>2
      <4>3. CASE slotOf[c] < hostIdx BY <2>1, <3>2, <4>3 DEF PassedInv
      <4>4. QED BY <4>1, <4>2, <4>3
    <3>3. PassedInv' BY <2>1, <2>2, <3>2 DEF PassedInv
    <3>4. QED BY <2>1, <2>4, <3>3
  <2>5. QED BY <1>11, <2>1, <2>3, <2>4 DEF CheckSlot
<1>12. CASE SendToSlot
  <2> USE DEF SteadyInv
  <2>1. /\ UNCHANGED <<steady, pc, slotOf, sock, chatter, pkt>>
        /\ hostPc = "send" /\ hostPc' = "check" /\ hostIdx' = hostIdx + 1 /\ hostIdx \in Slots
        /\ \A c \in Conns : got'[c] = IF sock[hostIdx] = c THEN got[c] + 1 ELSE got[c]
    BY <1>12 DEF SendToSlot, HostInv
  <2>2. \A s : Matches(s)' = Matches(s)
    BY <2>1 DEF Matches
  <2>3. ASSUME NEW c \in steady, slotOf[c] < hostIdx', chatter[slotOf[c]] # Torn
        PROVE  got'[c] = IF TRUE \in Matches(slotOf[c]) THEN 1 ELSE 0
    <3>1. Holds(c) /\ slotOf[c] \in Slots /\ sock[slotOf[c]] = c BY <2>3
    <3>2. CASE slotOf[c] = hostIdx
      <4>1. TRUE \in Matches(slotOf[c]) BY <2>1, <3>2
      <4>2. got[c] = 0 BY <2>1, <3>1, <3>2, NotYet
      <4>3. QED BY <2>1, <3>1, <3>2, <4>1, <4>2
    <3>3. CASE slotOf[c] < hostIdx
      <4>1. sock[hostIdx] # c BY <2>1, <3>1, <3>3
      <4>2. QED BY <2>1, <2>3, <3>3, <4>1 DEF PassedInv
    <3>4. slotOf[c] < hostIdx \/ slotOf[c] = hostIdx BY <2>1, <2>3, <3>1
    <3>5. QED BY <3>2, <3>3, <3>4
  <2>4. QED BY <2>1, <2>2, <2>3 DEF PassedInv
<1>13. CASE ScanDone
  BY <1>13 DEF ScanDone, SteadyInv, PassedInv
<1>14. QED
  BY <1>1, <1>2, <1>3, <1>4, <1>5, <1>6, <1>7, <1>8, <1>9, <1>10, <1>11, <1>12, <1>13
  DEF Next, WaitProcess, HostThread

\* A step that changes no name and no thread's place in the table.
LEMMA HeirAlong ==
  ASSUME HeirInv, heirs' = heirs, chatter' = chatter, thisUser' = thisUser, slotOf' = slotOf, pc' = pc
  PROVE  HeirInv'
  BY DEF HeirInv, Secure, Leaving, Holds

\* Every step keeps who may lose its name to the last owner of its slot.
LEMMA HeirStep ==
  ASSUME IInv, WalkInv, Next
  PROVE  HeirInv'
<1>0. /\ pc \in [Conns -> Holding \cup {"none", "clearName", "done"}]
      /\ thisUser \in [Conns -> Names \cup {NoName}]
      /\ slotOf \in [Conns -> Slots \cup {NoSlot}]
      /\ chatter \in [Slots -> Names \cup {NoName, Torn}]
      /\ heirs \subseteq Conns
      /\ HeirInv /\ SlotOwnership
      /\ waitPc = "claimed" => waitConn \in Conns /\ pc[waitConn] = "claimed"
      /\ waitPc = "scan" => waitConn \in Conns /\ pc[waitConn] = "none"
      /\ \A d \in Conns : pc[d] \in Nameless => thisUser[d] = NoName
      /\ \A d \in Conns : pc[d] = "clearName" => slotOf[d] \in Slots
      /\ waitIdx \in 0 .. MaxClients
  BY DEF IInv, TypeOK, WaitInv, BlankInv, WalkInv
<1>a. \A d, e \in Conns : Holds(d) /\ Holds(e) /\ slotOf[d] = slotOf[e] => d = e
  BY <1>0 DEF SlotOwnership
<1> USE DEF tableVars, waitVars, netVars, threadVars, hostVars, histVars
<1>1. ASSUME NEW c \in Conns, Connect(c) \/ Disconnect(c) \/ ClientProcess(c)
      PROVE  HeirInv'
  <2>1. CASE Connect(c) \/ Disconnect(c)
    <3>1. /\ heirs' = heirs /\ chatter' = chatter /\ thisUser' = thisUser
          /\ slotOf' = slotOf /\ pc' = pc
      BY <2>1 DEF Connect, Disconnect
    <3>2. QED BY <1>0, <3>1, HeirAlong
  <2>2. CASE Identify(c) \/ NickChanged(c)
    <3>1. PICK n \in Names : Naming(c, n) BY <2>2, NamingFacts
    <3>2. pc[c] = "recv" /\ pc' = [pc EXCEPT ![c] = "naming"] /\ slotOf' = slotOf /\ slotOf[c] \in Slots
          /\ thisUser' = [thisUser EXCEPT ![c] = n] /\ chatter' = [chatter EXCEPT ![slotOf[c]] = Torn]
          /\ heirs' = IF Leaving(slotOf[c]) THEN heirs ELSE heirs \ {c}
      BY <3>1 DEF Naming
    <3>3. \A d \in Conns : Holds(d)' <=> Holds(d) BY <1>0, <3>2 DEF Holds, Holding
    <3>4. \A s : Leaving(s)' <=> Leaving(s) BY <1>0, <3>2 DEF Leaving
    <3>5. Holds(c) BY <3>2 DEF Holds, Holding
    <3> SUFFICES ASSUME NEW d \in Conns, Holds(d)', d \notin heirs' PROVE Secure(d)' BY DEF HeirInv
    <3>6. CASE d = c
      <4>1. ~Leaving(slotOf[c]) BY <1>0, <3>2, <3>5, <3>6 DEF HeirInv, Secure
      <4>2. pc'[d] = "naming" /\ chatter'[slotOf[c]] = Torn BY <1>0, <3>2, <3>6
      <4>3. QED BY <3>2, <3>4, <3>6, <4>1, <4>2 DEF Secure
    <3>7. CASE d # c
      <4>1. slotOf[d] # slotOf[c] BY <1>a, <3>3, <3>5, <3>7
      <4>2. Secure(d) BY <1>0, <3>2, <3>3, <3>7 DEF HeirInv
      <4>3. pc'[d] = pc[d] /\ thisUser'[d] = thisUser[d] BY <1>0, <3>2, <3>7
      <4>4. slotOf[d] \in Slots /\ chatter'[slotOf[d]] = chatter[slotOf[d]]
        BY <1>0, <3>2, <3>3, <4>1 DEF SlotOwnership
      <4>5. QED BY <3>2, <3>4, <4>2, <4>3, <4>4 DEF Secure
    <3>8. QED BY <3>6, <3>7
  <2>3. CASE FinishNaming(c)
    <3>1. pc[c] = "naming" /\ pc' = [pc EXCEPT ![c] = "recv"] /\ slotOf' = slotOf /\ thisUser' = thisUser
          /\ heirs' = heirs
          /\ \E n \in {thisUser[c]} \cup ({chatter[slotOf[c]]} \ {Torn}) :
                 chatter' = [chatter EXCEPT ![slotOf[c]] = n]
      BY <2>3 DEF FinishNaming
    <3>2. PICK n \in {thisUser[c]} \cup ({chatter[slotOf[c]]} \ {Torn}) :
                 chatter' = [chatter EXCEPT ![slotOf[c]] = n]
      BY <3>1
    <3>3. \A d \in Conns : Holds(d)' <=> Holds(d) BY <1>0, <3>1 DEF Holds, Holding
    <3>4. \A s : Leaving(s)' <=> Leaving(s) BY <1>0, <3>1 DEF Leaving
    <3>5. Holds(c) /\ slotOf[c] \in Slots BY <1>0, <3>1 DEF Holds, Holding, SlotOwnership
    <3> SUFFICES ASSUME NEW d \in Conns, Holds(d)', d \notin heirs' PROVE Secure(d)' BY DEF HeirInv
    <3>6. CASE d = c
      <4>1. Secure(c) BY <1>0, <3>1, <3>5, <3>6 DEF HeirInv
      <4>2. n = thisUser[c] BY <3>1, <4>1 DEF Secure
      <4>3. pc'[d] = "recv" /\ chatter'[slotOf[c]] = thisUser[c] BY <1>0, <3>1, <3>2, <3>5, <3>6, <4>2
      <4>4. QED BY <3>1, <3>4, <3>6, <4>1, <4>3 DEF Secure
    <3>7. CASE d # c
      <4>1. slotOf[d] # slotOf[c] BY <1>a, <3>3, <3>5, <3>7
      <4>2. Secure(d) BY <1>0, <3>1, <3>3, <3>7 DEF HeirInv
      <4>3. pc'[d] = pc[d] BY <1>0, <3>1, <3>7
      <4>4. slotOf[d] \in Slots /\ chatter'[slotOf[d]] = chatter[slotOf[d]]
        BY <1>0, <3>2, <3>3, <4>1 DEF SlotOwnership
      <4>5. QED BY <3>1, <3>4, <4>2, <4>3, <4>4 DEF Secure
    <3>8. QED BY <3>6, <3>7
  <2>4. CASE EndOfStream(c)
    <3>1. pc[c] = "recv" /\ pc' = [pc EXCEPT ![c] = "clearSock"] /\ thisUser' = thisUser
          /\ slotOf' = slotOf /\ chatter' = chatter /\ heirs' = heirs
      BY <2>4 DEF EndOfStream
    <3>2. \A d \in Conns : Holds(d)' <=> Holds(d) BY <1>0, <3>1 DEF Holds, Holding
    <3>3. \A s : Leaving(s)' <=> Leaving(s) BY <1>0, <3>1 DEF Leaving
    <3>4. \A d \in Conns : pc'[d] = pc[d] \/ pc'[d] = "clearSock" BY <1>0, <3>1
    <3>5. QED BY <1>0, <3>1, <3>2, <3>3, <3>4 DEF HeirInv, Secure
  <2>5. CASE ClearSock(c)
    <3>1. pc[c] = "clearSock" /\ pc' = [pc EXCEPT ![c] = "clearName"] /\ thisUser' = thisUser
          /\ slotOf' = slotOf /\ chatter' = chatter /\ heirs' = heirs
      BY <2>5 DEF ClearSock
    <3>2. Holds(c) BY <3>1 DEF Holds, Holding
    <3> SUFFICES ASSUME NEW d \in Conns, Holds(d)', d \notin heirs' PROVE Secure(d)' BY DEF HeirInv
    <3>3. d # c /\ Holds(d) /\ pc'[d] = pc[d] BY <1>0, <3>1 DEF Holds, Holding
    <3>4. slotOf[d] # slotOf[c] BY <1>a, <3>2, <3>3
    <3>5. Secure(d) BY <1>0, <3>1, <3>3 DEF HeirInv
    <3>6. ~Leaving(slotOf[d])' BY <1>0, <3>1, <3>4, <3>5 DEF Secure, Leaving
    <3>7. QED BY <3>1, <3>3, <3>5, <3>6 DEF Secure
  <2>6. CASE ClearName(c)
    <3>1. pc[c] = "clearName" /\ pc' = [pc EXCEPT ![c] = "done"]
          /\ thisUser' = [thisUser EXCEPT ![c] = NoName] /\ slotOf' = [slotOf EXCEPT ![c] = NoSlot]
          /\ chatter' = [chatter EXCEPT ![slotOf[c]] = NoName] /\ heirs' = heirs \ {c}
      BY <2>6 DEF ClearName, EndThread
    <3> SUFFICES ASSUME NEW d \in Conns, Holds(d)', d \notin heirs' PROVE Secure(d)' BY DEF HeirInv
    <3>2. /\ d # c /\ Holds(d) /\ pc'[d] = pc[d] /\ thisUser'[d] = thisUser[d]
          /\ slotOf'[d] = slotOf[d] /\ d \notin heirs
      BY <1>0, <3>1 DEF Holds, Holding
    <3>3. Secure(d) BY <1>0, <3>2 DEF HeirInv
    <3>4. slotOf[d] # slotOf[c] BY <3>1, <3>3 DEF Secure, Leaving
    <3>5. slotOf[d] \in Slots /\ chatter'[slotOf[d]] = chatter[slotOf[d]]
      BY <1>0, <3>1, <3>2, <3>4 DEF SlotOwnership
    <3>6. \A e \in Conns : pc'[e] = "clearName" => pc[e] = "clearName" /\ slotOf'[e] = slotOf[e]
      BY <1>0, <3>1
    <3>7. ~Leaving(slotOf[d])' BY <3>2, <3>3, <3>6 DEF Secure, Leaving
    <3>8. QED BY <3>2, <3>3, <3>5, <3>7 DEF Secure
  <2>7. QED BY <1>1, <2>1, <2>2, <2>3, <2>4, <2>5, <2>6 DEF ClientProcess
<1>2. CASE StartListening
  BY <1>0, <1>2, HeirAlong DEF StartListening
<1>3. CASE Accept
  BY <1>0, <1>3, HeirAlong DEF Accept
<1>4. CASE Claim
  <2>1. waitConn \in Conns /\ pc[waitConn] = "none" /\ pc' = [pc EXCEPT ![waitConn] = "claimed"]
        /\ slotOf' = [slotOf EXCEPT ![waitConn] = waitIdx] /\ thisUser' = thisUser /\ chatter' = chatter
        /\ heirs' = IF Leaving(waitIdx) THEN heirs \cup {waitConn} ELSE heirs
    BY <1>0, <1>4 DEF Claim
  <2>2. \A d \in Conns \ {waitConn} : pc'[d] = pc[d] /\ slotOf'[d] = slotOf[d] BY <1>0, <2>1
  <2>3. pc'[waitConn] = "claimed" /\ slotOf'[waitConn] = waitIdx BY <1>0, <2>1
  <2>4. \A s : Leaving(s)' <=> Leaving(s) BY <2>1, <2>2, <2>3 DEF Leaving
  <2> SUFFICES ASSUME NEW d \in Conns, Holds(d)', d \notin heirs' PROVE Secure(d)' BY DEF HeirInv
  <2>5. CASE d = waitConn
    <3>1. ~Leaving(waitIdx) BY <2>1, <2>5
    <3>2. QED BY <2>3, <2>4, <2>5, <3>1 DEF Secure
  <2>6. CASE d # waitConn
    <3>1. Holds(d) /\ d \notin heirs BY <2>1, <2>2, <2>6 DEF Holds
    <3>2. Secure(d) BY <1>0, <3>1 DEF HeirInv
    <3>3. QED BY <2>1, <2>2, <2>4, <2>6, <3>2 DEF Secure
  <2>7. QED BY <2>5, <2>6
<1>5. CASE SkipSlot
  BY <1>0, <1>5, HeirAlong DEF SkipSlot
<1>6. CASE NoMemory
  <2>1. waitConn \in Conns /\ pc[waitConn] = "claimed" /\ pc' = [pc EXCEPT ![waitConn] = "none"]
        /\ slotOf' = [slotOf EXCEPT ![waitConn] = NoSlot] /\ thisUser' = thisUser /\ chatter' = chatter
        /\ heirs' = heirs \ {waitConn}
    BY <1>0, <1>6 DEF NoMemory
  <2>2. \A d \in Conns \ {waitConn} : pc'[d] = pc[d] /\ slotOf'[d] = slotOf[d] BY <1>0, <2>1
  <2>3. pc'[waitConn] = "none" BY <1>0, <2>1
  <2>4. \A s : Leaving(s)' <=> Leaving(s) BY <2>1, <2>2, <2>3 DEF Leaving
  <2> SUFFICES ASSUME NEW d \in Conns, Holds(d)', d \notin heirs' PROVE Secure(d)' BY DEF HeirInv
  <2>5. d # waitConn BY <2>3 DEF Holds, Holding
  <2>6. Holds(d) /\ d \notin heirs BY <2>1, <2>2, <2>5 DEF Holds
  <2>7. Secure(d) BY <1>0, <2>6 DEF HeirInv
  <2>8. QED BY <2>1, <2>2, <2>4, <2>5, <2>7 DEF Secure
<1>7. CASE CreateThread
  <2>1. /\ waitConn \in Conns /\ pc[waitConn] = "claimed" /\ slotOf' = slotOf /\ thisUser' = thisUser
        /\ chatter' = chatter /\ heirs' = heirs
        /\ \E started \in {"recv", "stillborn"} : pc' = [pc EXCEPT ![waitConn] = started]
    BY <1>0, <1>7 DEF CreateThread
  <2>2. PICK started \in {"recv", "stillborn"} : pc' = [pc EXCEPT ![waitConn] = started] BY <2>1
  <2>3. \A d \in Conns \ {waitConn} : pc'[d] = pc[d] BY <1>0, <2>2
  <2>4. pc'[waitConn] = started /\ thisUser[waitConn] = NoName BY <1>0, <2>1, <2>2 DEF Nameless
  <2>5. \A s : Leaving(s)' <=> Leaving(s) BY <2>1, <2>3, <2>4 DEF Leaving
  <2>6. Holds(waitConn) BY <2>1 DEF Holds, Holding
  <2> SUFFICES ASSUME NEW d \in Conns, Holds(d)', d \notin heirs' PROVE Secure(d)' BY DEF HeirInv
  <2>7. Holds(d) BY <2>3, <2>6 DEF Holds
  <2>8. Secure(d) BY <1>0, <2>1, <2>7 DEF HeirInv
  <2>9. QED BY <2>1, <2>3, <2>4, <2>5, <2>8 DEF Secure
<1>8. CASE EndScan
  BY <1>0, <1>8, HeirAlong DEF EndScan
<1>9. CASE Reject
  BY <1>0, <1>9, HeirAlong DEF Reject
<1>10. CASE HostPacket
  BY <1>0, <1>10, HeirAlong DEF HostPacket
<1>11. CASE CheckSlot
  BY <1>0, <1>11, HeirAlong DEF CheckSlot
<1>12. CASE SendToSlot
  BY <1>0, <1>12, HeirAlong DEF SendToSlot
<1>13. CASE ScanDone
  BY <1>0, <1>13, HeirAlong DEF ScanDone
<1>14. QED
  BY <1>1, <1>2, <1>3, <1>4, <1>5, <1>6, <1>7, <1>8, <1>9, <1>10, <1>11, <1>12, <1>13
  DEF Next, WaitProcess, HostThread

LEMMA WalkInvariant == Spec => []WalkInv
<1>1. Init => WalkInv
  BY InitWalkInv
<1>2. IInv /\ WalkInv /\ [Next]_vars => WalkInv'
  <2>1. ASSUME IInv, WalkInv, Next PROVE WalkInv'
    BY <2>1, RefusedStep, OnceStep, SteadyStep, HeirStep DEF WalkInv
  <2>2. ASSUME WalkInv, UNCHANGED vars PROVE WalkInv'
    BY <2>2 DEF WalkInv, RefusedInv, OnceInv, SteadyInv, PassedInv, HeirInv, Secure, Leaving, Gone, Holds, Matches,
                vars, tableVars, waitVars, netVars, threadVars, hostVars, histVars
  <2>3. QED BY <2>1, <2>2
<1>3. QED BY InductiveInvariant, <1>1, <1>2, PTL DEF Spec

\* Whatever slots change hands while the table is walked, a client that keeps
\* its slot and name gets the packet exactly if it is an addressee, and nobody
\* gets it twice (sendToLocalClients).
THEOREM SteadyClientsAreServed == Spec => []SteadyClientsServed
<1>1. ASSUME WalkInv, NEW c \in Conns PROVE got[c] <= 1
  <2>1. got[c] = 0 \/ got[c] = 1 BY <1>1 DEF WalkInv, OnceInv
  <2>2. QED BY <2>1
<1>2. WalkInv => SteadyClientsServed
  BY <1>1 DEF WalkInv, PassedInv, SteadyClientsServed
<1>3. QED BY WalkInvariant, <1>2, PTL

\* A chatter's slot loses its name only to the thread that had the slot before
\* and had not cleared its own name there yet (bridge.c:517-518 against 617).
THEOREM NamesLostByHeirsOnly == Spec => []NameLostOnlyByHeirs
<1>1. WalkInv => NameLostOnlyByHeirs
  BY DEF WalkInv, HeirInv, Secure, NameLostOnlyByHeirs, Unroutable, Holds, Holding
<1>2. QED BY WalkInvariant, <1>1, PTL

-----------------------------------------------------------------------------
(* BridgeSlots implements Admission: a step of the accept thread or of a    *)
(* client's thread is an abstract step or a stutter.                        *)

\* A seat of Admission is a slot with a socket in it.
LEMMA TakenSlots ==
  ASSUME IInv, NEW s \in Slots
  PROVE  Adm!Taken(s) <=> sock[s] # NoSock
<1>1. ASSUME NEW c \in Conns, Holds(c), slotOf[c] = s PROVE sock[s] # NoSock
  BY <1>1, ConnsAssumption DEF IInv, SlotOwnership
<1>2. ASSUME sock[s] # NoSock PROVE Holds(sock[s]) /\ slotOf[sock[s]] = s /\ sock[s] \in Conns
  BY <1>2 DEF IInv, TypeOK, SlotOwnership
<1>3. s # NoSlot BY MaxClientsAssumption DEF Slots, NoSlot
<1>4. QED BY <1>1, <1>2, <1>3 DEF Adm!Taken

LEMMA HolderSeated ==
  ASSUME IInv, NEW c \in Conns, Holds(c)
  PROVE  slotOf[c] # NoSlot
<1>1. slotOf[c] \in Slots BY DEF IInv, SlotOwnership
<1>2. QED BY <1>1, MaxClientsAssumption DEF Slots, NoSlot

\* Whose turn it is has not been refused, and the slot claimed is in the table.
LEMMA TurnFacts ==
  ASSUME IInv, WalkInv
  PROVE  /\ Accept => waitConn' \notin turnedAway
         /\ Claim => waitConn \in Conns /\ pc[waitConn] = "none" /\ waitIdx \in Slots
<1>1. ASSUME Accept PROVE waitConn' \notin turnedAway
  <2>1. /\ Len(backlog) \in Nat /\ Len(backlog) >= 1
        /\ waitConn' = backlog[1]
    BY <1>1 DEF IInv, Accept, TypeOK
  <2>2. 1 \in 1 .. Len(backlog) BY <2>1
  <2>3. QED BY <2>1, <2>2 DEF WalkInv, RefusedInv
<1>2. ASSUME Claim PROVE waitConn \in Conns /\ pc[waitConn] = "none" /\ waitIdx \in Slots
  <2>1. waitIdx \in 0 .. MaxClients /\ waitIdx < MaxClients /\ waitPc = "scan"
    BY <1>2 DEF Claim, IInv, TypeOK
  <2>2. waitIdx \in Slots BY <2>1, MaxClientsAssumption DEF Slots
  <2>3. QED BY <2>1, <2>2 DEF IInv, WaitInv
<1>3. QED BY <1>1, <1>2

\* A step that seats and refuses nobody and takes up no connection.
Stutters ==
    /\ \A c \in Conns : (IF Holds(c)' THEN slotOf'[c] ELSE NoSlot) = (IF Holds(c) THEN slotOf[c] ELSE NoSlot)
    /\ UNCHANGED <<excuse, turnedAway>>
    /\ (IF waitPc' \in {"scan", "reject"} THEN waitConn' ELSE NoConn)
         = (IF waitPc \in {"scan", "reject"} THEN waitConn ELSE NoConn)

LEMMA StutterMaps == Stutters => UNCHANGED Adm!vars
  BY DEF Stutters, Adm!vars

LEMMA AdmissionStep ==
  ASSUME IInv, WalkInv, [Next]_vars
  PROVE  [Adm!Next]_(Adm!vars)
<1> USE MaxClientsAssumption, ConnsAssumption
        DEF Holds, Holding, NoSlot, NoConn, tableVars, waitVars, netVars, threadVars, hostVars, histVars
<1>0. TypeOK /\ SlotOwnership /\ WaitInv BY DEF IInv
<1>1. ASSUME NEW c \in Conns, Connect(c) \/ Disconnect(c) \/ ClientProcess(c), ~ClearSock(c) PROVE Stutters
  <2>1. TypeOK BY <1>0
  <2>2. CASE Connect(c) \/ Disconnect(c) BY <2>2 DEF Stutters, Connect, Disconnect
  <2>3. CASE Identify(c) \/ NickChanged(c)
    BY <2>1, <2>3 DEF TypeOK, Stutters, Identify, NickChanged, StartNaming
  <2>4. CASE FinishNaming(c) BY <2>1, <2>4 DEF TypeOK, Stutters, FinishNaming
  <2>6. CASE EndOfStream(c) BY <2>1, <2>6 DEF TypeOK, Stutters, EndOfStream
  <2>7. CASE ClearName(c) BY <2>1, <2>7 DEF TypeOK, Stutters, ClearName, EndThread
  <2>8. QED BY <1>1, <2>2, <2>3, <2>4, <2>6, <2>7 DEF ClientProcess
<1>2. ASSUME NEW c \in Conns, ClearSock(c) PROVE Adm!Next
  <2>0. Holds(c) BY <1>2 DEF ClearSock
  <2>1. Holds(c) /\ slotOf[c] # NoSlot BY <1>2, <2>0, HolderSeated
  <2>2. /\ ~Holds(c)'
        /\ \A d \in Conns \ {c} : Holds(d)' = Holds(d)
        /\ UNCHANGED <<slotOf, excuse, turnedAway, waitPc, waitConn>>
    BY <1>0, <1>2 DEF TypeOK, ClearSock
  <2>3. Adm!Leave(c) BY <2>1, <2>2 DEF Adm!Leave
  <2>4. QED BY <2>3 DEF Adm!Next
<1>3. CASE StartListening \/ SkipSlot \/ EndScan \/ HostThread
  <2>1. Stutters
    BY <1>3 DEF Stutters, StartListening, SkipSlot, EndScan, HostThread, HostPacket, CheckSlot, SendToSlot, ScanDone
  <2>2. QED BY <2>1, StutterMaps
<1>4. CASE Accept
  <2>1. waitConn' \in Conns /\ pc[waitConn'] = "none" BY <1>4, AcceptFacts
  <2>2. waitConn' \notin turnedAway BY <1>4, TurnFacts
  <2>3. excuse' = \A s \in Slots : Adm!Taken(s) BY <1>4, TakenSlots DEF Accept
  <2>4. Adm!Ask(waitConn') BY <1>4, <2>1, <2>2, <2>3 DEF Accept, Adm!Ask
  <2>5. QED BY <2>1, <2>4 DEF Adm!Next
<1>5. CASE Claim
  <2>1. waitConn \in Conns /\ pc[waitConn] = "none" /\ waitIdx \in Slots BY <1>5, TurnFacts
  <2>2. ~Adm!Taken(waitIdx) BY <1>5, <2>1, TakenSlots DEF Claim
  <2>3. PICK c \in Conns, s \in Slots : c = waitConn /\ s = waitIdx BY <2>1
  <2>4. Adm!Sit(c, s) BY <1>0, <1>5, <2>1, <2>2, <2>3 DEF Claim, TypeOK, Adm!Sit
  <2>5. QED BY <2>4 DEF Adm!Next
<1>6. CASE NoMemory
  <2>1. waitConn \in Conns /\ Holds(waitConn) BY <1>0, <1>6 DEF NoMemory, WaitInv
  <2>2. slotOf[waitConn] # NoSlot BY <2>1, HolderSeated
  <2>3. /\ ~Holds(waitConn)'
        /\ \A d \in Conns \ {waitConn} : Holds(d)' = Holds(d) /\ slotOf'[d] = slotOf[d]
        /\ waitPc = "claimed" /\ waitPc' = "reject" /\ waitConn' = waitConn
        /\ excuse' = TRUE /\ turnedAway' = turnedAway
    BY <1>0, <1>6, <2>1 DEF NoMemory, TypeOK
  <2>4. PICK c \in Conns : c = waitConn BY <2>1
  <2>5. Adm!Eject(c) BY <2>1, <2>2, <2>3, <2>4 DEF Adm!Eject
  <2>6. QED BY <2>5 DEF Adm!Next
<1>7. CASE CreateThread
  <2>1. waitConn \in Conns /\ pc[waitConn] = "claimed" BY <1>0, <1>7 DEF CreateThread, WaitInv
  <2>2. PICK started \in {"recv", "stillborn"} : pc' = [pc EXCEPT ![waitConn] = started]
    BY <1>7 DEF CreateThread
  <2>3. pc \in [Conns -> Holding \cup {"none", "clearName", "done"}] BY <1>0 DEF TypeOK
  <2>4. \A c \in Conns : Holds(c)' <=> Holds(c)
    <3> SUFFICES ASSUME NEW c \in Conns PROVE Holds(c)' <=> Holds(c) OBVIOUS
    <3>1. CASE c = waitConn
      <4>1. pc'[c] = started BY <2>1, <2>2, <2>3, <3>1
      <4>2. pc[c] = "claimed" BY <2>1, <3>1
      <4>3. Holds(c)' /\ Holds(c) BY <4>1, <4>2
      <4>4. QED BY <4>3
    <3>2. CASE c # waitConn BY <2>1, <2>2, <2>3, <3>2
    <3>3. QED BY <3>1, <3>2
  <2>5. UNCHANGED <<slotOf, excuse, turnedAway>> /\ waitPc = "claimed" /\ waitPc' = "accept"
    BY <1>7 DEF CreateThread
  <2>6. Stutters BY <2>4, <2>5 DEF Stutters
  <2>7. QED BY <2>6, StutterMaps
<1>8. CASE Reject
  <2>1. waitConn \in Conns /\ excuse BY <1>0, <1>8 DEF Reject, WaitInv, IInv, FreeAheadInv
  <2>2. Adm!Refuse(waitConn) BY <1>8, <2>1 DEF Reject, Adm!Refuse
  <2>3. QED BY <2>1, <2>2 DEF Adm!Next
<1>9. CASE UNCHANGED vars
  <2>1. Stutters BY <1>9 DEF vars, Stutters
  <2>2. QED BY <2>1, StutterMaps
<1>10. QED
  BY <1>1, <1>2, <1>3, <1>4, <1>5, <1>6, <1>7, <1>8, <1>9, StutterMaps DEF Next, WaitProcess

\* Clients are seated, refused and let go as Admission allows, for any number
\* of slots and connections.
THEOREM Implements == Spec => ImplementsAdmission
<1>1. Init => Adm!Init
  BY DEF Init, Adm!Init, Holds, Holding
<1>2. QED BY <1>1, AdmissionStep, InductiveInvariant, WalkInvariant, PTL
             DEF Spec, ImplementsAdmission, Adm!Spec
=============================================================================
