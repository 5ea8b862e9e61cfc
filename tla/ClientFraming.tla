---------------------------- MODULE ClientFraming ---------------------------
(***************************************************************************)
(* handleIncomingMessages() in umrc-client/main.c: the thread that reads   *)
(* from the bridge, keeps what follows the last line feed for the next     *)
(* read, and processes the complete lines before it.                       *)
(*                                                                         *)
(* enterChat() starts one such thread for each session and joins none of   *)
(* them: a thread that is held up while its session ends and the next one  *)
(* begins finds gIsInChat set again, goes on, and reads from the mrcSock   *)
(* of that next session, with what it has kept of the last one.            *)
(***************************************************************************)
EXTENDS PacketStream

VARIABLES inChat,     \* gIsInChat
          at,         \* where the receiver of each session is
          sock,       \* the session whose socket it called recv() on
          pending,    \* start of a packet cut off by its last recv
          leftover,   \* unread bytes of a closed socket somebody still reads
          shared      \* history: an older receiver reads from this session

vars == <<streamVars, inChat, at, sock, pending, packets, leftover, processed, shared>>

Receivers == 1..(MaxDrops + 1)

\* The session of mrcSock, or the next one when the user is not in chat.
Current == drops + 1

Alone == inChat /\ ~shared

Lines == Seq(Seq(Bytes \ {LF}))

TypeOK ==
    /\ StreamTypeOK
    /\ inChat \in BOOLEAN /\ shared \in BOOLEAN
    /\ at \in [Receivers -> {"off", "loop", "recv", "got", "ended"}]
    /\ sock \in [Receivers -> 0..Current]
    /\ pending \in [Receivers -> Seq(Bytes \ {LF})]
    /\ packets \in [Receivers -> Lines]
    /\ leftover \in [Receivers -> Seq(Bytes)]
    /\ processed \in Lines

Init ==
    /\ StreamInit
    /\ inChat = FALSE /\ shared = FALSE
    /\ at = [r \in Receivers |-> "off"]
    /\ sock = [r \in Receivers |-> 0]
    /\ pending = [r \in Receivers |-> <<>>]
    /\ packets = [r \in Receivers |-> <<>>]
    /\ leftover = [r \in Receivers |-> <<>>]
    /\ processed = <<>>

BridgeWrites ==
    /\ inChat
    /\ Write
    /\ UNCHANGED <<inChat, at, sock, pending, packets, leftover, processed, shared>>

\* enterChat(): connected, and a thread of its own to receive.  MaxDrops
\* sessions are looked at.
Enter ==
    /\ ~inChat /\ drops < MaxDrops
    /\ inChat' = TRUE
    /\ at' = [at EXCEPT ![Current] = "loop"]
    /\ UNCHANGED <<streamVars, sock, pending, packets, leftover, processed, shared>>

\* gIsInChat is cleared and the socket closed.  Whoever is inside recv() on
\* it still gets what had arrived.
EndSession ==
    /\ Lose
    /\ inChat' = FALSE /\ shared' = FALSE
    /\ leftover' = [leftover EXCEPT ![Current] =
            IF \E r \in Receivers : at[r] = "recv" /\ sock[r] = Current THEN wire ELSE <<>>]

\* The user leaves.
Leave ==
    /\ inChat
    /\ EndSession
    /\ UNCHANGED <<at, sock, pending, packets, processed>>

-----------------------------------------------------------------------------
(* The receivers. *)

\* Round the loop: recv() from whatever mrcSock is now.
CallRecv(r) ==
    /\ inChat
    /\ at[r] = "loop" /\ packets[r] = <<>>
    /\ at' = [at EXCEPT ![r] = "recv"]
    /\ sock' = [sock EXCEPT ![r] = Current]
    /\ shared' = (shared \/ r # Current)
    /\ UNCHANGED <<streamVars, inChat, pending, packets, leftover, processed>>

\* Mutant: what was kept is not put in front.
KeepAlone(r, data) ==
    LET lines == Split(data) IN
      /\ packets' = [packets EXCEPT ![r] = Append(Front(lines), <<>>)]
      /\ pending' = [pending EXCEPT ![r] = Last(lines)]
      /\ at' = [at EXCEPT ![r] = "got"]

\* Mutant: what was put in front is kept once more.
KeepTwice(r, data) ==
    LET lines == Split(pending[r] \o data) IN
      /\ packets' = [packets EXCEPT ![r] = Append(Front(lines), <<>>)]
      /\ pending' = [pending EXCEPT ![r] = pending[r] \o Last(lines)]
      /\ at' = [at EXCEPT ![r] = "got"]

\* What comes after the last line feed stays behind, if there is room for it.
Keep(r, data) ==
    LET lines == Split(pending[r] \o data)
        rest  == Last(lines)
    IN  /\ packets' = [packets EXCEPT ![r] = Append(Front(lines), <<>>)]
        /\ pending' = [pending EXCEPT ![r] = IF Len(rest) < DataLen THEN rest ELSE <<>>]
        /\ at' = [at EXCEPT ![r] = "got"]

Read(r) ==
    /\ at[r] = "recv" /\ sock[r] = Current
    /\ \E data \in Received(DataLen - 1) : Consume(data) /\ Keep(r, data)
    /\ UNCHANGED <<inChat, sock, leftover, processed, shared>>

\* recv() was called before the socket was closed.
ReadOld(r) ==
    /\ at[r] = "recv" /\ sock[r] # Current
    /\ LET old == leftover[sock[r]] IN
         \E n \in 1..(DataLen - 1) :
            /\ n <= Len(old)
            /\ Keep(r, SubSeq(old, 1, n))
            /\ leftover' = [leftover EXCEPT ![sock[r]] = SubSeq(old, n + 1, Len(old))]
    /\ UNCHANGED <<streamVars, inChat, sock, processed, shared>>

\* recv() returns 0 or -1: that is the end of chat, whichever socket it was.
Closed(r) ==
    /\ at[r] = "recv"
    /\ \/ /\ inChat /\ EndSession
          /\ at' = [at EXCEPT ![r] = "loop"]
       \/ /\ ~inChat
          /\ at' = [at EXCEPT ![r] = "ended"]
          /\ UNCHANGED <<streamVars, inChat, leftover, shared>>
    /\ UNCHANGED <<sock, pending, packets, processed>>

\* Still in chat (2099): on to the lines.
GoOn(r) ==
    /\ inChat
    /\ at[r] = "got"
    /\ at' = [at EXCEPT ![r] = "loop"]
    /\ UNCHANGED <<streamVars, inChat, sock, pending, packets, leftover, processed, shared>>

\* A line without a tilde is no packet.
SkipInvalid(r) ==
    /\ inChat
    /\ at[r] = "loop" /\ packets[r] # <<>> /\ ~HasTilde(packets[r][1])
    /\ packets' = [packets EXCEPT ![r] = Tail(@)]
    /\ UNCHANGED <<streamVars, inChat, at, sock, pending, leftover, processed, shared>>

\* processed tells what a session's own receiver hands on while it is the only
\* one to read.
Process(r) ==
    /\ inChat
    /\ at[r] = "loop" /\ packets[r] # <<>> /\ HasTilde(packets[r][1])
    /\ processed' = IF Alone /\ r = Current THEN Append(processed, packets[r][1]) ELSE processed
    /\ packets' = [packets EXCEPT ![r] = Tail(@)]
    /\ UNCHANGED <<streamVars, inChat, at, sock, pending, leftover, shared>>

\* Chat has ended: the lines that are left are dropped...
Abandon(r) ==
    /\ ~inChat
    /\ at[r] = "loop" /\ packets[r] # <<>>
    /\ packets' = [packets EXCEPT ![r] = <<>>]
    /\ UNCHANGED <<streamVars, inChat, at, sock, pending, leftover, processed, shared>>

\* ...and if it still has when the loop comes round, so does the thread.
Stop(r) ==
    /\ ~inChat
    /\ at[r] = "got" \/ (at[r] = "loop" /\ packets[r] = <<>>)
    /\ at' = [at EXCEPT ![r] = "ended"]
    /\ pending' = [pending EXCEPT ![r] = <<>>] /\ packets' = [packets EXCEPT ![r] = <<>>]
    /\ UNCHANGED <<streamVars, inChat, sock, leftover, processed, shared>>

Receive(r) ==
    \/ CallRecv(r) \/ Read(r) \/ ReadOld(r) \/ Closed(r) \/ GoOn(r)
    \/ SkipInvalid(r) \/ Process(r) \/ Abandon(r) \/ Stop(r)

Next == BridgeWrites \/ Enter \/ Leave \/ \E r \in Receivers : Receive(r)

Spec == Init /\ [][Next]_vars

-----------------------------------------------------------------------------
\* As long as no receiver of an earlier session reads along, what was kept
\* from the last read is the unfinished start of a single packet of this
\* session, of which the rest is under way: it can neither outgrow its buffer
\* nor be taken for a packet (handleIncomingMessages, pending).
PendingIsUnfinished ==
    Alone /\ pending[Current] # <<>> =>
        /\ \E i \in (before + 1)..sent : IsPrefix(pending[Current], Whole(i))
        /\ wire # <<>>

\* Of the packets written, those that are no longer one receiver's to read:
\* what earlier sessions had, and all of this one's once it is shared.
Gone == IF shared THEN sent ELSE before

\* A session's receiver sees every packet of that session, whole, once and in
\* order, up to the end of the session or the first recv() of a receiver that
\* has survived an earlier one (handleIncomingMessages).
Stream == INSTANCE LineStream WITH
    delivered <- processed,
    lost      <- {i \in 1..Gone : Whole(i) \notin Range(processed)}

DeliversLines == Stream!Spec
=============================================================================
