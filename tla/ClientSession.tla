---------------------------- MODULE ClientSession ---------------------------
(***************************************************************************)
(* One chat session, end to end: in which room and under which name the    *)
(* user is, according to the client (gRoom, user.chatterName), the bridge  *)
(* (clients[].chatter) and the MRC server.                                 *)
(*                                                                         *)
(* In the client the user's thread executes /join and sends what is said,  *)
(* while the receiver obeys USERROOM, USERNICK and RECONNECT; both use     *)
(* gRoom and chatterName without a lock.  The bridge hands on what the     *)
(* server sends by the name it keeps for the slot, which it learns from    *)
(* the client.  The server is external: it is modelled from how the        *)
(* client's and the bridge's comments and handlers treat it.               *)
(*                                                                         *)
(* Four queues would carry a packet from the client to the server and      *)
(* back.  A delay between bridge and server is covered by one between      *)
(* client and bridge on the way up, where the server's steps are atomic    *)
(* with the bridge's; on the way down both queues are kept, because the    *)
(* bridge looks at its table in between.                                   *)
(***************************************************************************)
EXTENDS Naturals, Sequences

CONSTANTS Rooms, DefaultRoom, NoRoom,
          KeptRoom,     \* what of a room's name fits the client's gRoom[30]
          Nicks, FirstNick, NoName,
          Kept,         \* what of a name fits the bridge's thisUser[30]
          MaxJoins, MaxSays, MaxMoves, MaxRenames, MaxDrops, MaxChats, MaxHeres,  \* bounds
          MaxEvents     \* bound on all of these together

ASSUME SessionAssumption ==
    /\ DefaultRoom \in Rooms /\ NoRoom \notin Rooms
    /\ KeptRoom \in [Rooms -> Rooms] /\ KeptRoom[DefaultRoom] = DefaultRoom
    /\ FirstNick \in Nicks /\ NoName \notin Nicks
    /\ Kept \in [Nicks -> Nicks]
    /\ {MaxJoins, MaxSays, MaxMoves, MaxRenames, MaxDrops, MaxChats, MaxHeres, MaxEvents} \subseteq Nat

VARIABLES gRoom, chatterName,
          user,         \* the user's thread: where it is, and in which room
          receiver,     \* the receiver: what of a packet is still to be done
          up,           \* from the client to the bridge
          slotName,     \* clients[pSlot].chatter
          link,         \* the bridge's connection to the server is up
          gReconnect,   \* the bridge has a reconnection to announce
          fromHost,     \* from the server to the bridge
          down,         \* from the bridge to the client
          srvRoom, srvName,  \* where the server has the user, and as whom
          left,         \* what may still happen, by kind (bounds)
          overtaken,    \* history: gRoom was set by /join after its answer
          roomLost,     \* history: the last USERROOM did not get through
          nickLost,     \* history: so did the last word on the name
          missed,       \* history: a line was hidden without a reason
          stray         \* history: a line went astray without a reason

client  == <<gRoom, chatterName, user, receiver>>
bridge  == <<slotName, link, gReconnect>>
server  == <<srvRoom, srvName>>
history == <<overtaken, roomLost, nickLost, missed, stray>>
vars == <<client, up, bridge, fromHost, down, server, left, history>>

Kinds == {"IAMHERE", "NEWROOM", "NICKCHANGED", "chat",
          "USERROOM", "USERNICK", "RECONNECT", "direct"}

\* A packet: its kind, the room it names, the name it comes from (up) or is
\* addressed to (down), the name it carries, and whether the user said it
\* while the rooms were settled.
Packets == [kind : Kinds, room : Rooms \cup {NoRoom}, name : Nicks \cup {NoName},
            nick : Nicks \cup {NoName}, calm : BOOLEAN]

Packet(kind, room, name) ==
    [kind |-> kind, room |-> room, name |-> name, nick |-> NoName, calm |-> FALSE]

Budget == [join |-> MaxJoins, say |-> MaxSays, move |-> MaxMoves, rename |-> MaxRenames,
           drop |-> MaxDrops, chat |-> MaxChats, here |-> MaxHeres, all |-> MaxEvents]

TypeOK ==
    /\ gRoom \in Rooms /\ chatterName \in Nicks
    /\ user \in [at : {"idle", "joining", "saying"}, room : Rooms \cup {NoRoom}, calm : BOOLEAN]
    /\ receiver \in [at : {"recv", "announce", "rejoin"}]
    /\ {up, fromHost, down} \subseteq Seq(Packets)
    /\ slotName \in Nicks \cup {NoName}
    /\ srvRoom \in Rooms \cup {NoRoom} /\ srvName \in Nicks \cup {NoName}
    /\ {link, gReconnect, overtaken, roomLost, nickLost, missed, stray} \subseteq BOOLEAN
    /\ \A k \in DOMAIN left : left[k] \in 0..Budget[k]

Idle == [at |-> "idle", room |-> NoRoom, calm |-> FALSE]

\* enterChat() has sent IAMHERE and NEWROOM for the room of the user's choice.
Init ==
    /\ gRoom = DefaultRoom /\ chatterName = FirstNick
    /\ user = Idle /\ receiver = [at |-> "recv"]
    /\ up = <<Packet("IAMHERE", DefaultRoom, FirstNick), Packet("NEWROOM", DefaultRoom, FirstNick)>>
    /\ slotName = NoName
    /\ link = TRUE /\ gReconnect = FALSE
    /\ fromHost = <<>> /\ down = <<>>
    /\ srvRoom = NoRoom /\ srvName = NoName
    /\ left = Budget
    /\ overtaken = FALSE /\ roomLost = FALSE /\ nickLost = FALSE
    /\ missed = FALSE /\ stray = FALSE

Spend(kind) ==
    /\ left[kind] > 0 /\ left["all"] > 0
    /\ left' = [left EXCEPT ![kind] = @ - 1, !["all"] = @ - 1]

Carries(queue, kinds) == \E i \in DOMAIN queue : queue[i].kind \in kinds

\* Nothing is under way that will change the room at one of the ends.
RoomSettled ==
    /\ link /\ ~gReconnect
    /\ user.at # "joining" /\ receiver.at # "rejoin"
    /\ ~Carries(up, {"NEWROOM"})
    /\ ~Carries(fromHost, {"USERROOM"})
    /\ ~Carries(down, {"USERROOM", "RECONNECT"})

\* Nothing is under way that will change the name at one of the ends.
NameSettled ==
    /\ receiver.at # "announce"
    /\ ~Carries(up, {"NICKCHANGED"})
    /\ ~Carries(fromHost, {"USERNICK"})
    /\ ~Carries(down, {"USERNICK"})

Trusted == ~overtaken /\ ~roomLost

\* The user is in a room whose name the client can hold.
RoomFits == srvRoom # NoRoom /\ KeptRoom[srvRoom] = srvRoom

-----------------------------------------------------------------------------
(* The user's thread. *)

\* /join: the old and the new room are sent to the server, the new one from
\* newRoom[31], with a character more than gRoom[30] can hold ...
Join(r) ==
    /\ user.at = "idle" /\ Spend("join")
    /\ up' = Append(up, Packet("NEWROOM", r, chatterName))
    /\ user' = [at |-> "joining", room |-> r, calm |-> FALSE]
    /\ UNCHANGED <<gRoom, chatterName, receiver, bridge, fromHost, down, server, history>>

\* ... and gRoom is set without waiting for an answer.
Joined ==
    /\ user.at = "joining"
    /\ gRoom' = KeptRoom[user.room]
    /\ user' = Idle
    /\ UNCHANGED <<chatterName, receiver, up, bridge, fromHost, down, server, left, history>>

Line(calm) == [Packet("chat", gRoom, chatterName) EXCEPT !.calm = calm]

\* The first packet of what the user says, to the room of this moment.
Say ==
    /\ user.at = "idle" /\ Spend("say")
    /\ LET calm == RoomSettled /\ Trusted /\ RoomFits IN
           /\ up' = Append(up, Line(calm))
           /\ user' = [at |-> "saying", room |-> gRoom, calm |-> calm]
    /\ UNCHANGED <<gRoom, chatterName, receiver, bridge, fromHost, down, server, history>>

\* The rest of it 750 ms later: toRoom is a pointer to gRoom, not a copy.
SayRest ==
    /\ user.at = "saying"
    /\ up' = Append(up, Line(user.calm))
    /\ user' = Idle
    /\ UNCHANGED <<gRoom, chatterName, receiver, bridge, fromHost, down, server, left, history>>

-----------------------------------------------------------------------------
(* The receiver, one packet at a time. *)

Takes(kind) ==
    /\ receiver.at = "recv"
    /\ down # <<>> /\ Head(down).kind = kind
    /\ down' = Tail(down)

\* Mutant: the client keeps the room it asked for.
TakeUserRoomUnheard ==
    /\ Takes("USERROOM")
    /\ UNCHANGED <<client, up, bridge, fromHost, server, left, history>>

\* USERROOM: "Client must enforce or routing will break".
TakeUserRoom ==
    /\ Takes("USERROOM")
    /\ gRoom' = KeptRoom[Head(down).room]
    /\ overtaken' = (user.at = "joining" /\ ~Carries(up, {"NEWROOM"}))
    /\ UNCHANGED <<chatterName, user, receiver, up, bridge, fromHost, server, left,
                   roomLost, nickLost, missed, stray>>

\* USERNICK: the name is changed and shown ...
TakeUserNick ==
    /\ Takes("USERNICK")
    /\ chatterName' = Head(down).nick
    /\ receiver' = [at |-> "announce"]
    /\ UNCHANGED <<gRoom, user, up, bridge, fromHost, server, left, history>>

\* Mutant: the bridge is told the name the user had chosen.
AnnounceFirstNick ==
    /\ receiver.at = "announce"
    /\ up' = Append(up, [Packet("NICKCHANGED", NoRoom, FirstNick) EXCEPT !.nick = FirstNick])
    /\ receiver' = [at |-> "recv"]
    /\ UNCHANGED <<gRoom, chatterName, user, bridge, fromHost, down, server, left, history>>

\* ... and the bridge is told of it.
AnnounceNick ==
    /\ receiver.at = "announce"
    /\ up' = Append(up, [Packet("NICKCHANGED", NoRoom, chatterName) EXCEPT !.nick = chatterName])
    /\ receiver' = [at |-> "recv"]
    /\ UNCHANGED <<gRoom, chatterName, user, bridge, fromHost, down, server, left, history>>

\* RECONNECT: the client introduces itself to the server again ...
TakeReconnect ==
    /\ Takes("RECONNECT")
    /\ up' = Append(up, Packet("IAMHERE", gRoom, chatterName))
    /\ receiver' = [at |-> "rejoin"]
    /\ UNCHANGED <<gRoom, chatterName, user, bridge, fromHost, server, left, history>>

\* Mutants: the room the session began in is asked for; none is.
RejoinDefault ==
    /\ receiver.at = "rejoin"
    /\ up' = Append(up, Packet("NEWROOM", DefaultRoom, chatterName))
    /\ receiver' = [at |-> "recv"]
    /\ UNCHANGED <<gRoom, chatterName, user, bridge, fromHost, down, server, left, history>>

RejoinNowhere ==
    /\ receiver.at = "rejoin"
    /\ up' = up
    /\ receiver' = [at |-> "recv"]
    /\ UNCHANGED <<gRoom, chatterName, user, bridge, fromHost, down, server, left, history>>

\* ... and asks for the room it is in.
Rejoin ==
    /\ receiver.at = "rejoin"
    /\ up' = Append(up, Packet("NEWROOM", gRoom, chatterName))
    /\ receiver' = [at |-> "recv"]
    /\ UNCHANGED <<gRoom, chatterName, user, bridge, fromHost, down, server, left, history>>

\* A minute after the last time the client says again that it is there.
StillHere ==
    /\ receiver.at = "recv" /\ Spend("here")
    /\ up' = Append(up, Packet("IAMHERE", gRoom, chatterName))
    /\ UNCHANGED <<client, bridge, fromHost, down, server, history>>

\* A line for a room, or for this user alone, is shown or passed over.
TakeLine(kind) ==
    /\ Takes(kind)
    /\ LET pkt   == Head(down)
           shown == /\ kind = "chat" => pkt.room = gRoom
                    /\ kind = "direct" => pkt.name = chatterName
           settled == /\ kind = "chat" => RoomSettled /\ Trusted /\ RoomFits
                      /\ kind = "direct" => NameSettled /\ ~nickLost /\ srvName # NoName
       IN missed' = (missed \/ (~shown /\ settled))
    /\ UNCHANGED <<client, up, bridge, fromHost, server, left, overtaken, roomLost, nickLost, stray>>

-----------------------------------------------------------------------------
(* The bridge, upwards: clientProcess(), and the server behind it. *)

\* The bridge reads the next packet; the first one names the slot.
Reads(kind) ==
    /\ up # <<>> /\ Head(up).kind = kind
    /\ up' = Tail(up)

Introduced == IF slotName = NoName THEN Kept[Head(up).name] ELSE slotName

\* Mutant: the thread's own copy of the name is changed, the slot's is not.
NickChangedUnheard ==
    /\ Reads("NICKCHANGED")
    /\ UNCHANGED <<client, bridge, fromHost, down, server, left, history>>

\* NICKCHANGED stays in the bridge.
NickChanged ==
    /\ Reads("NICKCHANGED")
    /\ slotName' = Kept[Head(up).nick]
    /\ UNCHANGED <<client, link, gReconnect, fromHost, down, server, left, history>>

\* Without a connection the send fails, and nobody is told.
SendFails ==
    /\ ~link /\ \E kind \in {"IAMHERE", "NEWROOM", "chat"} : Reads(kind)
    /\ slotName' = Introduced
    /\ UNCHANGED <<client, link, gReconnect, fromHost, down, server, left, history>>

UserRoom(room) == Packet("USERROOM", room, srvName)
UserNick(to, nick) == [Packet("USERNICK", NoRoom, to) EXCEPT !.nick = nick]

\* The client introduced itself under a name it has given up since, or will
\* when it gets what is under way from before the connection failed.
Outdated(name) ==
    \/ name # chatterName
    \/ \E i \in DOMAIN down : \/ down[i].kind = "USERNICK"
                              \/ down[i].kind = "direct" /\ down[i].name # name

\* A user the server does not know is registered, under another name if his
\* is in use.
ServerIamHere ==
    /\ link /\ Reads("IAMHERE")
    /\ slotName' = Introduced
    /\ LET name == Head(up).name IN
       \/ /\ srvName = NoName /\ srvName' = name
          /\ nickLost' = Outdated(name)
          /\ UNCHANGED <<fromHost, left>>
       \/ /\ srvName = NoName /\ Spend("rename")
          /\ srvName' \in Nicks \ {name}
          /\ fromHost' = Append(fromHost, UserNick(name, srvName'))
          /\ UNCHANGED nickLost
       \/ /\ srvName # NoName
          /\ UNCHANGED <<srvName, fromHost, left, nickLost>>
    /\ UNCHANGED <<client, link, gReconnect, down, srvRoom, overtaken, roomLost, missed, stray>>

\* A room change of a known user is obeyed and confirmed.
ServerNewRoom ==
    /\ link /\ Reads("NEWROOM")
    /\ slotName' = Introduced
    /\ \/ /\ srvName # NoName
          /\ srvRoom' = Head(up).room
          /\ fromHost' = Append(fromHost, UserRoom(srvRoom'))
       \/ /\ srvName = NoName
          /\ UNCHANGED <<srvRoom, fromHost>>
    /\ UNCHANGED <<client, link, gReconnect, down, srvName, left, history>>

\* A line goes to the room it names, wherever its sender is.
ServerLine ==
    /\ link /\ Reads("chat")
    /\ slotName' = Introduced
    /\ stray' = (stray \/ (Head(up).calm /\ srvRoom \notin {NoRoom, Head(up).room}))
    /\ UNCHANGED <<client, link, gReconnect, fromHost, down, server, left,
                   overtaken, roomLost, nickLost, missed>>

-----------------------------------------------------------------------------
(* What the server does of its own accord. *)

\* The user is moved; what he has already said no longer counts as calm.
ServerMoves(r) ==
    /\ srvRoom \notin {NoRoom, r} /\ Spend("move")
    /\ srvRoom' = r
    /\ fromHost' = Append(fromHost, UserRoom(r))
    /\ up' = [i \in DOMAIN up |-> [up[i] EXCEPT !.calm = FALSE]]
    /\ user' = [user EXCEPT !.calm = FALSE]
    /\ UNCHANGED <<gRoom, chatterName, receiver, bridge, down, srvName, history>>

ServerRenames(n) ==
    /\ srvName \notin {NoName, n} /\ Spend("rename")
    /\ srvName' = n
    /\ fromHost' = Append(fromHost, UserNick(srvName, n))
    /\ UNCHANGED <<client, up, bridge, down, srvRoom, history>>

\* Somebody else's line for the user's room, or for the user alone.
ServerRelays ==
    /\ srvRoom # NoRoom /\ Spend("chat")
    /\ \/ fromHost' = Append(fromHost, Packet("chat", srvRoom, NoName))
       \/ fromHost' = Append(fromHost, Packet("direct", NoRoom, srvName))
    /\ UNCHANGED <<client, up, bridge, down, server, history>>

-----------------------------------------------------------------------------
(* The bridge, downwards, and its connection. *)

\* sendToLocalClients() compares the addressee with the slot's name.
Route ==
    /\ link /\ fromHost # <<>>
    /\ fromHost' = Tail(fromHost)
    /\ LET pkt == Head(fromHost) IN
       \/ /\ pkt.name \in {slotName, NoName}
          /\ down' = Append(down, pkt)
          /\ roomLost' = (roomLost /\ pkt.kind # "USERROOM")
          /\ nickLost' = (nickLost /\ pkt.kind # "USERNICK")
          /\ UNCHANGED <<overtaken, missed, stray>>
       \/ /\ pkt.name \notin {slotName, NoName}
          /\ down' = down
          /\ roomLost' = (roomLost \/ pkt.kind = "USERROOM")
          /\ nickLost' = (nickLost \/ pkt.kind = "USERNICK")
          /\ missed' = (missed \/ (NameSettled /\ ~nickLost /\ Kept[pkt.name] = pkt.name))
          /\ UNCHANGED <<overtaken, stray>>
    /\ UNCHANGED <<client, up, bridge, server, left>>

\* The connection drops, or the server closes it with GOODBYE, which leaves
\* gReconnect as it was.  The server forgets its users.
Drop ==
    /\ link /\ Spend("drop")
    /\ link' = FALSE
    /\ gReconnect' \in {TRUE, gReconnect}
    /\ fromHost' = <<>>
    /\ srvRoom' = NoRoom /\ srvName' = NoName
    /\ nickLost' = FALSE
    /\ UNCHANGED <<client, up, slotName, down, overtaken, roomLost, missed, stray>>

Reconnects ==
    /\ ~link
    /\ link' = TRUE
    /\ UNCHANGED <<client, up, slotName, gReconnect, fromHost, down, server, left, history>>

\* HELLO: the clients are told of a reconnection that is flagged.
Hello ==
    /\ link /\ gReconnect
    /\ down' = Append(down, Packet("RECONNECT", NoRoom, NoName))
    /\ gReconnect' = FALSE
    /\ UNCHANGED <<client, up, slotName, link, fromHost, server, left, history>>

User     == (\E r \in Rooms : Join(r)) \/ Joined \/ Say \/ SayRest
Receiver == \/ TakeUserRoom \/ TakeUserNick \/ TakeReconnect
            \/ AnnounceNick \/ Rejoin \/ TakeLine("chat") \/ TakeLine("direct")
Upwards  == NickChanged \/ SendFails \/ ServerIamHere \/ ServerNewRoom \/ ServerLine
Server   == \/ \E r \in Rooms : ServerMoves(r)
            \/ \E n \in Nicks : ServerRenames(n)
            \/ ServerRelays

Next == User \/ Receiver \/ StillHere \/ Upwards \/ Server \/ Route \/ Drop \/ Reconnects \/ Hello

\* Every thread that has something to do goes on; nobody has to say, join or
\* move anything, and no connection has to fail.
Fairness ==
    /\ WF_vars(Joined) /\ WF_vars(SayRest)
    /\ WF_vars(Receiver) /\ WF_vars(Upwards) /\ WF_vars(Route)
    /\ WF_vars(Reconnects) /\ WF_vars(Hello)

Spec == Init /\ [][Next]_vars /\ Fairness

-----------------------------------------------------------------------------
(* What should hold. *)

\* "USERROOM ... Client must enforce or routing will break": with nothing
\* under way the client is in the room where the server has the user, as far
\* as its name fits gRoom, whatever joins, moves and reconnections crossed
\* each other.  The two ways to miss it are a /join that wrote gRoom after
\* its answer had come, and a confirmation the bridge could not deliver.
RoomAgrees ==
    RoomSettled /\ Trusted /\ srvRoom # NoRoom => gRoom = KeptRoom[srvRoom]

\* With no change of name under way the client, the bridge and the server
\* call the user the same, as far as the name fits the bridge's buffer,
\* unless a second change overtook the bridge's knowledge of the first, or
\* the server took a name from an introduction that was out of date.
NamesAgree ==
    NameSettled /\ ~nickLost /\ srvName # NoName =>
        chatterName = srvName /\ slotName = Kept[srvName]

\* A line for the user's room or for the user, and every order of the
\* server, reaches the user, except while his room or name is changing or
\* is one that does not fit.
NothingMissed == ~missed

\* What is said while the rooms agree arrives, with all its packets, in the
\* room the user is in when it arrives, unless the server moved the user.
NothingAstray == ~stray

\* Once a reconnection is announced, the user gets back into a room without
\* doing anything, or the connection fails again.
Rejoined ==
    Carries(down, {"RECONNECT"}) ~> (srvRoom # NoRoom \/ ~link)
=============================================================================
