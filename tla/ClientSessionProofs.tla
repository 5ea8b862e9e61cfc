------------------------- MODULE ClientSessionProofs ------------------------
(***************************************************************************)
(* Proofs about one chat session, for any rooms and names, and any number  *)
(* of joins, lines, moves, renames and failed connections.                 *)
(*                                                                         *)
(* Each property compares the two ends of a chain of queues, so the        *)
(* invariant says what the queues hold in between.  Going from the server  *)
(* to the client, the last word on the room is the server's room (RoomInv) *)
(* and the last word on the name is its name for the user (NameInv); a     *)
(* line may follow the word it belongs to, but not precede the next one.   *)
(* Going up, the last NICKCHANGED is the client's name (SlotInv), and what *)
(* was said calmly has no room change before it but to its own room        *)
(* (CalmInv).                                                              *)
(***************************************************************************)
EXTENDS ClientSession, TLAPS

\* What can be in each of the three queues.
UpPackets ==
    {p \in Packets : /\ p.kind \in {"IAMHERE", "NEWROOM", "NICKCHANGED", "chat"}
                     /\ p.kind \in {"NEWROOM", "chat"} => p.room \in Rooms
                     /\ p.kind # "NICKCHANGED" => p.name \in Nicks
                     /\ p.kind = "NICKCHANGED" => p.nick \in Nicks}

DownPackets ==
    {p \in Packets : /\ p.kind \in {"USERROOM", "USERNICK", "chat", "direct", "RECONNECT"}
                     /\ p.kind = "USERROOM" => p.room \in Rooms
                     /\ p.kind = "USERNICK" => p.nick \in Nicks}

HostPackets == {p \in DownPackets : p.kind # "RECONNECT" /\ (p.kind = "chat" => p.name = NoName)}

Users == [at : {"idle", "joining", "saying"}, room : Rooms \cup {NoRoom}, calm : BOOLEAN]
Receivers == [at : {"recv", "announce", "rejoin"}]

StateInv ==
    /\ gRoom \in Rooms /\ chatterName \in Nicks
    /\ user \in Users /\ receiver \in Receivers
    /\ user.at # "idle" => user.room \in Rooms
    /\ slotName \in Nicks \cup {NoName}
    /\ srvRoom \in Rooms \cup {NoRoom} /\ srvName \in Nicks \cup {NoName}
    /\ link \in BOOLEAN /\ gReconnect \in BOOLEAN
    /\ overtaken \in BOOLEAN /\ roomLost \in BOOLEAN /\ nickLost \in BOOLEAN

PacketInv == up \in Seq(UpPackets) /\ fromHost \in Seq(HostPackets) /\ down \in Seq(DownPackets)

\* The server has nothing for a user it does not know.
ServerInv ==
    /\ srvName = NoName => srvRoom = NoRoom /\ fromHost = <<>>
    /\ ~link => srvName = NoName
    /\ srvRoom = NoRoom => ~Carries(fromHost, {"USERROOM"})

-----------------------------------------------------------------------------
(* The queues.  Last says that no packet of the kind follows the i-th.     *)

Last(q, i, kind) == \A j \in DOMAIN q : j > i => q[j].kind # kind

\* All from the last USERROOM on is about room r.
RoomInQueue(q, r) ==
    \A i \in DOMAIN q :
        q[i].kind \in {"USERROOM", "chat"} /\ Last(q, i, "USERROOM") => q[i].room = r

\* All of these kinds from the last USERNICK on is for name n.
NameInQueue(q, kinds, n) ==
    \A i \in DOMAIN q : Last(q, i, "USERNICK") =>
        /\ q[i].kind = "USERNICK" => q[i].nick = n
        /\ q[i].kind \in kinds => q[i].name = n

\* The last NICKCHANGED tells of name n.
NickInQueue(q, n) ==
    \A i \in DOMAIN q :
        q[i].kind = "NICKCHANGED" /\ Last(q, i, "NICKCHANGED") => q[i].nick = n

\* All packets of the kind name room r.
RoomsAre(q, kind, r) == \A i \in DOMAIN q : q[i].kind = kind => q[i].room = r

\* What was said calmly arrives in a room r, or comes behind a change to it.
CalmInQueue(q, r) ==
    \A i \in DOMAIN q : q[i].calm =>
        /\ r \in {NoRoom, q[i].room}
        /\ \A j \in DOMAIN q : j < i /\ q[j].kind = "NEWROOM" => q[j].room = q[i].room

LEMMA AppendQueue ==
    ASSUME NEW S, NEW q \in Seq(S), NEW x \in S
    PROVE  /\ Append(q, x) \in Seq(S) /\ Len(q) \in Nat
           /\ DOMAIN Append(q, x) = 1..Len(q) + 1 /\ DOMAIN q = 1..Len(q)
           /\ \A i \in 1..Len(q) : Append(q, x)[i] = q[i]
           /\ Append(q, x)[Len(q) + 1] = x
  OBVIOUS

LEMMA TailQueue ==
    ASSUME NEW S, NEW q \in Seq(S), q # <<>>
    PROVE  /\ Tail(q) \in Seq(S) /\ Len(q) \in Nat \ {0}
           /\ DOMAIN Tail(q) = 1..Len(q) - 1 /\ DOMAIN q = 1..Len(q)
           /\ \A i \in 1..Len(q) - 1 : Tail(q)[i] = q[i + 1]
           /\ Head(q) = q[1] /\ Head(q) \in S
  OBVIOUS

LEMMA CarriesQueue ==
    ASSUME NEW S, NEW q \in Seq(S), NEW K
    PROVE  /\ ~Carries(<<>>, K)
           /\ \A x \in S : Carries(Append(q, x), K) <=> Carries(q, K) \/ x.kind \in K
           /\ q # <<>> => (Carries(q, K) <=> Head(q).kind \in K \/ Carries(Tail(q), K))
<1>1. ~Carries(<<>>, K) BY DEF Carries
<1>2. ASSUME NEW x \in S PROVE Carries(Append(q, x), K) <=> Carries(q, K) \/ x.kind \in K
  <2>1. ASSUME Carries(Append(q, x), K) PROVE Carries(q, K) \/ x.kind \in K
    BY <2>1, AppendQueue DEF Carries
  <2>2. ASSUME Carries(q, K) PROVE Carries(Append(q, x), K)
    BY <2>2, AppendQueue DEF Carries
  <2>3. ASSUME x.kind \in K PROVE Carries(Append(q, x), K)
    <3>1. Len(q) + 1 \in DOMAIN Append(q, x) /\ Append(q, x)[Len(q) + 1] = x BY AppendQueue
    <3>2. QED BY <2>3, <3>1 DEF Carries
  <2>4. QED BY <2>1, <2>2, <2>3
<1>3. ASSUME q # <<>> PROVE Carries(q, K) <=> Head(q).kind \in K \/ Carries(Tail(q), K)
  <2>1. ASSUME Carries(q, K) PROVE Head(q).kind \in K \/ Carries(Tail(q), K)
    <3>1. PICK i \in DOMAIN q : q[i].kind \in K BY <2>1 DEF Carries
    <3>2. CASE i = 1 BY <1>3, <3>1, <3>2, TailQueue
    <3>3. CASE i # 1
      <4>1. i - 1 \in DOMAIN Tail(q) /\ Tail(q)[i - 1] = q[i] BY <1>3, <3>3, TailQueue
      <4>2. QED BY <3>1, <4>1 DEF Carries
    <3>4. QED BY <3>2, <3>3
  <2>2. ASSUME Head(q).kind \in K PROVE Carries(q, K)
    <3>1. 1 \in DOMAIN q /\ q[1] = Head(q) BY <1>3, TailQueue
    <3>2. QED BY <2>2, <3>1 DEF Carries
  <2>3. ASSUME Carries(Tail(q), K) PROVE Carries(q, K)
    <3>1. PICK i \in DOMAIN Tail(q) : Tail(q)[i].kind \in K BY <2>3 DEF Carries
    <3>2. i + 1 \in DOMAIN q /\ q[i + 1] = Tail(q)[i] BY <1>3, TailQueue
    <3>3. QED BY <3>1, <3>2 DEF Carries
  <2>4. QED BY <2>1, <2>2, <2>3
<1>4. QED BY <1>1, <1>2, <1>3

\* What follows a packet is the same with one packet more or less.
LEMMA LastQueue ==
    ASSUME NEW S, NEW q \in Seq(S), NEW kind
    PROVE  /\ \A x \in S : \A i \in DOMAIN q :
                  Last(Append(q, x), i, kind) => Last(q, i, kind) /\ x.kind # kind
           /\ q # <<>> => \A i \in DOMAIN Tail(q) :
                  Last(Tail(q), i, kind) => Last(q, i + 1, kind)
           /\ q # <<>> /\ ~Carries(Tail(q), {kind}) => Last(q, 1, kind)
<1>1. ASSUME NEW x \in S, NEW i \in DOMAIN q, Last(Append(q, x), i, kind)
      PROVE  Last(q, i, kind) /\ x.kind # kind
  <2>1. Len(q) + 1 \in DOMAIN Append(q, x) /\ Append(q, x)[Len(q) + 1] = x /\ Len(q) + 1 > i BY AppendQueue
  <2>2. x.kind # kind BY <1>1, <2>1 DEF Last
  <2>3. \A j \in DOMAIN q : j \in DOMAIN Append(q, x) /\ Append(q, x)[j] = q[j] BY AppendQueue
  <2>4. QED BY <1>1, <2>2, <2>3 DEF Last
<1>2. ASSUME q # <<>>, NEW i \in DOMAIN Tail(q), Last(Tail(q), i, kind) PROVE Last(q, i + 1, kind)
  <2> SUFFICES ASSUME NEW j \in DOMAIN q, j > i + 1 PROVE q[j].kind # kind BY DEF Last
  <2>1. j - 1 \in DOMAIN Tail(q) /\ Tail(q)[j - 1] = q[j] /\ j - 1 > i BY <1>2, TailQueue
  <2>2. QED BY <1>2, <2>1 DEF Last
<1>3. ASSUME q # <<>>, ~Carries(Tail(q), {kind}) PROVE Last(q, 1, kind)
  <2> SUFFICES ASSUME NEW j \in DOMAIN q, j > 1 PROVE q[j].kind # kind BY DEF Last
  <2>1. j - 1 \in DOMAIN Tail(q) /\ Tail(q)[j - 1] = q[j] BY <1>3, TailQueue
  <2>2. QED BY <1>3, <2>1 DEF Carries
<1>4. QED BY <1>1, <1>2, <1>3

LEMMA RoomQueue ==
    ASSUME NEW S, NEW q \in Seq(S), NEW r
    PROVE  /\ RoomInQueue(<<>>, r)
           /\ \A x \in S : /\ x.kind = "USERROOM" /\ x.room = r => RoomInQueue(Append(q, x), r)
                           /\ RoomInQueue(q, r) /\ (x.kind \in {"USERROOM", "chat"} => x.room = r)
                              => RoomInQueue(Append(q, x), r)
           /\ q # <<>> /\ RoomInQueue(q, r) =>
                  /\ RoomInQueue(Tail(q), r)
                  /\ Head(q).kind \in {"USERROOM", "chat"} /\ ~Carries(Tail(q), {"USERROOM"})
                     => Head(q).room = r
<1>1. RoomInQueue(<<>>, r) BY DEF RoomInQueue
<1>2. ASSUME NEW x \in S, \/ x.kind = "USERROOM" /\ x.room = r
                          \/ RoomInQueue(q, r) /\ (x.kind \in {"USERROOM", "chat"} => x.room = r)
      PROVE  RoomInQueue(Append(q, x), r)
  <2> SUFFICES ASSUME NEW i \in DOMAIN Append(q, x),
                      Append(q, x)[i].kind \in {"USERROOM", "chat"}, Last(Append(q, x), i, "USERROOM")
               PROVE  Append(q, x)[i].room = r
    BY DEF RoomInQueue
  <2>1. CASE i = Len(q) + 1 BY <1>2, <2>1, AppendQueue
  <2>2. CASE i # Len(q) + 1
    <3>1. i \in DOMAIN q /\ Append(q, x)[i] = q[i] BY <2>2, AppendQueue
    <3>2. Last(q, i, "USERROOM") /\ x.kind # "USERROOM" BY <3>1, LastQueue
    <3>3. QED BY <1>2, <3>1, <3>2 DEF RoomInQueue
  <2>3. QED BY <2>1, <2>2
<1>3. ASSUME q # <<>>, RoomInQueue(q, r) PROVE RoomInQueue(Tail(q), r)
  <2> SUFFICES ASSUME NEW i \in DOMAIN Tail(q),
                      Tail(q)[i].kind \in {"USERROOM", "chat"}, Last(Tail(q), i, "USERROOM")
               PROVE  Tail(q)[i].room = r
    BY DEF RoomInQueue
  <2>1. i + 1 \in DOMAIN q /\ q[i + 1] = Tail(q)[i] BY <1>3, TailQueue
  <2>2. Last(q, i + 1, "USERROOM") BY <1>3, LastQueue
  <2>3. QED BY <1>3, <2>1, <2>2 DEF RoomInQueue
<1>4. ASSUME q # <<>>, RoomInQueue(q, r), Head(q).kind \in {"USERROOM", "chat"}, ~Carries(Tail(q), {"USERROOM"})
      PROVE  Head(q).room = r
  <2>1. 1 \in DOMAIN q /\ q[1] = Head(q) BY <1>4, TailQueue
  <2>2. Last(q, 1, "USERROOM") BY <1>4, LastQueue
  <2>3. QED BY <1>4, <2>1, <2>2 DEF RoomInQueue
<1>5. QED BY <1>1, <1>2, <1>3, <1>4

LEMMA NameQueue ==
    ASSUME NEW S, NEW q \in Seq(S), NEW K, NEW n
    PROVE  /\ NameInQueue(<<>>, K, n)
           /\ \A x \in S : /\ x.kind = "USERNICK" /\ x.kind \notin K /\ x.nick = n => NameInQueue(Append(q, x), K, n)
                           /\ NameInQueue(q, K, n) /\ (x.kind = "USERNICK" => x.nick = n) /\ (x.kind \in K => x.name = n)
                              => NameInQueue(Append(q, x), K, n)
           /\ q # <<>> /\ NameInQueue(q, K, n) =>
                  /\ NameInQueue(Tail(q), K, n)
                  /\ ~Carries(Tail(q), {"USERNICK"}) =>
                         /\ Head(q).kind = "USERNICK" => Head(q).nick = n
                         /\ Head(q).kind \in K => Head(q).name = n
<1>1. NameInQueue(<<>>, K, n) BY DEF NameInQueue
<1>2. ASSUME NEW x \in S, \/ x.kind = "USERNICK" /\ x.kind \notin K /\ x.nick = n
                          \/ NameInQueue(q, K, n) /\ (x.kind = "USERNICK" => x.nick = n) /\ (x.kind \in K => x.name = n)
      PROVE  NameInQueue(Append(q, x), K, n)
  <2> SUFFICES ASSUME NEW i \in DOMAIN Append(q, x), Last(Append(q, x), i, "USERNICK")
               PROVE  /\ Append(q, x)[i].kind = "USERNICK" => Append(q, x)[i].nick = n
                      /\ Append(q, x)[i].kind \in K => Append(q, x)[i].name = n
    BY DEF NameInQueue
  <2>1. CASE i = Len(q) + 1
    <3>1. Append(q, x)[i] = x BY <2>1, AppendQueue
    <3>2. QED BY <1>2, <3>1
  <2>2. CASE i # Len(q) + 1
    <3>1. i \in DOMAIN q /\ Append(q, x)[i] = q[i] BY <2>2, AppendQueue
    <3>2. Last(q, i, "USERNICK") /\ x.kind # "USERNICK" BY <3>1, LastQueue
    <3>3. QED BY <1>2, <3>1, <3>2 DEF NameInQueue
  <2>3. QED BY <2>1, <2>2
<1>3. ASSUME q # <<>>, NameInQueue(q, K, n) PROVE NameInQueue(Tail(q), K, n)
  <2> SUFFICES ASSUME NEW i \in DOMAIN Tail(q), Last(Tail(q), i, "USERNICK")
               PROVE  /\ Tail(q)[i].kind = "USERNICK" => Tail(q)[i].nick = n
                      /\ Tail(q)[i].kind \in K => Tail(q)[i].name = n
    BY DEF NameInQueue
  <2>1. i + 1 \in DOMAIN q /\ q[i + 1] = Tail(q)[i] BY <1>3, TailQueue
  <2>2. Last(q, i + 1, "USERNICK") BY <1>3, LastQueue
  <2>3. QED BY <1>3, <2>1, <2>2 DEF NameInQueue
<1>4. ASSUME q # <<>>, NameInQueue(q, K, n), ~Carries(Tail(q), {"USERNICK"})
      PROVE  /\ Head(q).kind = "USERNICK" => Head(q).nick = n
             /\ Head(q).kind \in K => Head(q).name = n
  <2>1. 1 \in DOMAIN q /\ q[1] = Head(q) BY <1>4, TailQueue
  <2>2. Last(q, 1, "USERNICK") BY <1>4, LastQueue
  <2>3. QED BY <1>4, <2>1, <2>2 DEF NameInQueue
<1>5. QED BY <1>1, <1>2, <1>3, <1>4

LEMMA NickQueue ==
    ASSUME NEW S, NEW q \in Seq(S), NEW n
    PROVE  /\ \A x \in S : /\ x.kind = "NICKCHANGED" /\ x.nick = n => NickInQueue(Append(q, x), n)
                           /\ NickInQueue(q, n) /\ x.kind # "NICKCHANGED" => NickInQueue(Append(q, x), n)
           /\ q # <<>> /\ NickInQueue(q, n) =>
                  /\ NickInQueue(Tail(q), n)
                  /\ Head(q).kind = "NICKCHANGED" /\ ~Carries(Tail(q), {"NICKCHANGED"}) => Head(q).nick = n
<1>2. ASSUME NEW x \in S, \/ x.kind = "NICKCHANGED" /\ x.nick = n
                          \/ NickInQueue(q, n) /\ x.kind # "NICKCHANGED"
      PROVE  NickInQueue(Append(q, x), n)
  <2> SUFFICES ASSUME NEW i \in DOMAIN Append(q, x),
                      Append(q, x)[i].kind = "NICKCHANGED", Last(Append(q, x), i, "NICKCHANGED")
               PROVE  Append(q, x)[i].nick = n
    BY DEF NickInQueue
  <2>1. CASE i = Len(q) + 1
    <3>1. Append(q, x)[i] = x BY <2>1, AppendQueue
    <3>2. QED BY <1>2, <3>1
  <2>2. CASE i # Len(q) + 1
    <3>1. i \in DOMAIN q /\ Append(q, x)[i] = q[i] BY <2>2, AppendQueue
    <3>2. Last(q, i, "NICKCHANGED") /\ x.kind # "NICKCHANGED" BY <3>1, LastQueue
    <3>3. QED BY <1>2, <3>1, <3>2 DEF NickInQueue
  <2>3. QED BY <2>1, <2>2
<1>3. ASSUME q # <<>>, NickInQueue(q, n) PROVE NickInQueue(Tail(q), n)
  <2> SUFFICES ASSUME NEW i \in DOMAIN Tail(q),
                      Tail(q)[i].kind = "NICKCHANGED", Last(Tail(q), i, "NICKCHANGED")
               PROVE  Tail(q)[i].nick = n
    BY DEF NickInQueue
  <2>1. i + 1 \in DOMAIN q /\ q[i + 1] = Tail(q)[i] BY <1>3, TailQueue
  <2>2. Last(q, i + 1, "NICKCHANGED") BY <1>3, LastQueue
  <2>3. QED BY <1>3, <2>1, <2>2 DEF NickInQueue
<1>4. ASSUME q # <<>>, NickInQueue(q, n), Head(q).kind = "NICKCHANGED", ~Carries(Tail(q), {"NICKCHANGED"})
      PROVE  Head(q).nick = n
  <2>1. 1 \in DOMAIN q /\ q[1] = Head(q) BY <1>4, TailQueue
  <2>2. Last(q, 1, "NICKCHANGED") BY <1>4, LastQueue
  <2>3. QED BY <1>4, <2>1, <2>2 DEF NickInQueue
<1>5. QED BY <1>2, <1>3, <1>4

LEMMA RoomsQueue ==
    ASSUME NEW S, NEW q \in Seq(S), NEW kind, NEW r
    PROVE  /\ RoomsAre(<<>>, kind, r)
           /\ ~Carries(q, {kind}) => RoomsAre(q, kind, r)
           /\ \A x \in S : RoomsAre(q, kind, r) /\ (x.kind = kind => x.room = r) => RoomsAre(Append(q, x), kind, r)
           /\ q # <<>> /\ RoomsAre(q, kind, r) =>
                  RoomsAre(Tail(q), kind, r) /\ (Head(q).kind = kind => Head(q).room = r)
<1>1. RoomsAre(<<>>, kind, r) BY DEF RoomsAre
<1>2. ~Carries(q, {kind}) => RoomsAre(q, kind, r) BY DEF Carries, RoomsAre
<1>3. ASSUME NEW x \in S, RoomsAre(q, kind, r), x.kind = kind => x.room = r
      PROVE  RoomsAre(Append(q, x), kind, r)
  <2> SUFFICES ASSUME NEW i \in DOMAIN Append(q, x), Append(q, x)[i].kind = kind
               PROVE  Append(q, x)[i].room = r
    BY DEF RoomsAre
  <2>1. \/ i = Len(q) + 1 /\ Append(q, x)[i] = x
        \/ i \in DOMAIN q /\ Append(q, x)[i] = q[i]
    BY AppendQueue
  <2>2. QED BY <1>3, <2>1 DEF RoomsAre
<1>4. ASSUME q # <<>>, RoomsAre(q, kind, r)
      PROVE  RoomsAre(Tail(q), kind, r) /\ (Head(q).kind = kind => Head(q).room = r)
  <2>1. 1 \in DOMAIN q /\ q[1] = Head(q) BY <1>4, TailQueue
  <2>2. \A i \in DOMAIN Tail(q) : i + 1 \in DOMAIN q /\ q[i + 1] = Tail(q)[i] BY <1>4, TailQueue
  <2>3. QED BY <1>4, <2>1, <2>2 DEF RoomsAre
<1>5. QED BY <1>1, <1>2, <1>3, <1>4

LEMMA CalmQueue ==
    ASSUME NEW S, NEW q \in Seq(S), NEW r
    PROVE  /\ CalmInQueue(q, r) => CalmInQueue(q, NoRoom)
           /\ \A x \in S : CalmInQueue(q, r) /\ (x.calm => r \in {NoRoom, x.room} /\ RoomsAre(q, "NEWROOM", x.room))
                           => CalmInQueue(Append(q, x), r)
           /\ q # <<>> /\ CalmInQueue(q, r) =>
                  /\ CalmInQueue(Tail(q), r)
                  /\ Head(q).calm => r \in {NoRoom, Head(q).room}
                  /\ Head(q).kind = "NEWROOM" => CalmInQueue(Tail(q), Head(q).room)
<1>1. CalmInQueue(q, r) => CalmInQueue(q, NoRoom) BY DEF CalmInQueue
<1>2. ASSUME NEW x \in S, CalmInQueue(q, r), x.calm => r \in {NoRoom, x.room} /\ RoomsAre(q, "NEWROOM", x.room)
      PROVE  CalmInQueue(Append(q, x), r)
  <2> SUFFICES ASSUME NEW i \in DOMAIN Append(q, x), Append(q, x)[i].calm
               PROVE  /\ r \in {NoRoom, Append(q, x)[i].room}
                      /\ \A j \in DOMAIN Append(q, x) : j < i /\ Append(q, x)[j].kind = "NEWROOM"
                            => Append(q, x)[j].room = Append(q, x)[i].room
    BY DEF CalmInQueue
  <2>1. \A j \in DOMAIN Append(q, x) : j < i => j \in DOMAIN q /\ Append(q, x)[j] = q[j] BY AppendQueue
  <2>2. CASE i = Len(q) + 1
    <3>1. Append(q, x)[i] = x BY <2>2, AppendQueue
    <3>2. QED BY <1>2, <2>1, <3>1 DEF RoomsAre
  <2>3. CASE i # Len(q) + 1
    <3>1. i \in DOMAIN q /\ Append(q, x)[i] = q[i] BY <2>3, AppendQueue
    <3>2. QED BY <1>2, <2>1, <3>1 DEF CalmInQueue
  <2>4. QED BY <2>2, <2>3
<1>3. ASSUME q # <<>>, CalmInQueue(q, r)
      PROVE  /\ CalmInQueue(Tail(q), r)
             /\ Head(q).calm => r \in {NoRoom, Head(q).room}
             /\ Head(q).kind = "NEWROOM" => CalmInQueue(Tail(q), Head(q).room)
  <2>1. 1 \in DOMAIN q /\ q[1] = Head(q) BY <1>3, TailQueue
  <2>2. \A i \in DOMAIN Tail(q) : i \in Nat \ {0} /\ i + 1 \in DOMAIN q /\ q[i + 1] = Tail(q)[i] BY <1>3, TailQueue
  <2>3. Head(q).calm => r \in {NoRoom, Head(q).room} BY <1>3, <2>1 DEF CalmInQueue
  <2>4. ASSUME NEW i \in DOMAIN Tail(q), Tail(q)[i].calm
        PROVE  /\ r \in {NoRoom, Tail(q)[i].room}
               /\ \A j \in DOMAIN Tail(q) : j < i /\ Tail(q)[j].kind = "NEWROOM" => Tail(q)[j].room = Tail(q)[i].room
               /\ Head(q).kind = "NEWROOM" => Head(q).room = Tail(q)[i].room
    <3>1. i + 1 \in DOMAIN q /\ q[i + 1].calm BY <2>2, <2>4
    <3>2. /\ r \in {NoRoom, q[i + 1].room}
          /\ \A j \in DOMAIN q : j < i + 1 /\ q[j].kind = "NEWROOM" => q[j].room = q[i + 1].room
      BY <1>3, <3>1 DEF CalmInQueue
    <3>3. \A j \in DOMAIN Tail(q) : j < i => j + 1 < i + 1 BY <2>2
    <3>4. 1 < i + 1 BY <2>2
    <3>5. QED BY <2>1, <2>2, <3>2, <3>3, <3>4
  <2>5. QED BY <2>3, <2>4 DEF CalmInQueue
<1>4. QED BY <1>1, <1>2, <1>3

-----------------------------------------------------------------------------
(* The invariant.                                                          *)

\* The server's last word on the room, and on the name, is in down or has
\* reached the client.
KnownRoom == srvRoom # NoRoom /\ ~roomLost /\ ~Carries(fromHost, {"USERROOM"})
KnownName == srvName # NoName /\ ~nickLost /\ ~Carries(fromHost, {"USERNICK"})

RoomInv ==
    /\ srvRoom # NoRoom => RoomInQueue(fromHost, srvRoom)
    /\ KnownRoom => RoomInQueue(down, srvRoom)
    /\ KnownRoom /\ ~overtaken /\ ~Carries(down, {"USERROOM"}) /\ ~Carries(up, {"NEWROOM"}) =>
           gRoom = KeptRoom[srvRoom] /\ user.at # "joining"

NameInv ==
    /\ NameInQueue(fromHost, {"USERROOM", "direct"}, srvName)
    /\ KnownName => NameInQueue(down, {"direct"}, srvName)
    /\ KnownName /\ ~Carries(down, {"USERNICK"}) => chatterName = srvName

\* The slot's name is the client's, or will be with the last NICKCHANGED.
SlotInv ==
    /\ slotName = NoName =>
           /\ srvName = NoName /\ chatterName = FirstNick /\ receiver.at # "announce"
           /\ ~Carries(up, {"NICKCHANGED"}) /\ ~Carries(down, {"USERNICK"})
           /\ up # <<>> /\ Head(up).kind = "IAMHERE" /\ Head(up).name = FirstNick
    /\ slotName # NoName /\ receiver.at # "announce" =>
           /\ NickInQueue(up, chatterName)
           /\ ~Carries(up, {"NICKCHANGED"}) => slotName = Kept[chatterName]

\* Between the two packets of what was begun calmly all room changes under
\* way are to the room the user is in.
CalmInv ==
    /\ CalmInQueue(up, srvRoom)
    /\ user.at = "saying" /\ user.calm =>
           /\ gRoom = user.room /\ srvRoom \in {NoRoom, user.room}
           /\ KeptRoom[user.room] = user.room
           /\ RoomsAre(up, "NEWROOM", user.room)
           /\ RoomsAre(fromHost, "USERROOM", user.room)
           /\ RoomsAre(down, "USERROOM", user.room)

IInv == /\ StateInv /\ PacketInv /\ ServerInv /\ RoomInv /\ NameInv /\ SlotInv /\ CalmInv
        /\ NothingMissed /\ NothingAstray

LEMMA Distinct == /\ NoRoom \notin Rooms /\ NoName \notin Nicks /\ DefaultRoom \in Rooms
                  /\ FirstNick \in Nicks /\ Kept \in [Nicks -> Nicks]
                  /\ KeptRoom \in [Rooms -> Rooms]
  BY SessionAssumption

\* The packets the actions make.
LEMMA MadeIamHere ==
    ASSUME NEW room \in Rooms, NEW name \in Nicks, NEW p, p = Packet("IAMHERE", room, name)
    PROVE  p \in UpPackets /\ p.kind = "IAMHERE" /\ p.name = name /\ p.calm = FALSE
  BY DEF Packet, UpPackets, Packets, Kinds

LEMMA MadeNewRoom ==
    ASSUME NEW room \in Rooms, NEW name \in Nicks, NEW p, p = Packet("NEWROOM", room, name)
    PROVE  p \in UpPackets /\ p.kind = "NEWROOM" /\ p.room = room /\ p.calm = FALSE
  BY DEF Packet, UpPackets, Packets, Kinds

LEMMA MadeNick ==
    ASSUME NEW name \in Nicks, NEW p, p = [Packet("NICKCHANGED", NoRoom, name) EXCEPT !.nick = name]
    PROVE  p \in UpPackets /\ p.kind = "NICKCHANGED" /\ p.nick = name /\ p.calm = FALSE
<1>1. Packet("NICKCHANGED", NoRoom, name)
      = [kind |-> "NICKCHANGED", room |-> NoRoom, name |-> name, nick |-> NoName, calm |-> FALSE]
  BY DEF Packet
<1>2. Packet("NICKCHANGED", NoRoom, name) \in Packets BY DEF Packet, Packets, Kinds
<1>3. p \in Packets /\ p.kind = "NICKCHANGED" /\ p.nick = name /\ p.calm = FALSE
  BY <1>1, <1>2 DEF Packets
<1>4. QED BY <1>3 DEF UpPackets

LEMMA MadeUserRoom ==
    ASSUME NEW room \in Rooms, srvName \in Nicks, NEW p, p = UserRoom(room)
    PROVE  p \in HostPackets /\ p.kind = "USERROOM" /\ p.room = room /\ p.name = srvName
  BY DEF UserRoom, Packet, HostPackets, DownPackets, Packets, Kinds

LEMMA MadeChat ==
    ASSUME NEW room \in Rooms, NEW p, p = Packet("chat", room, NoName)
    PROVE  p \in HostPackets /\ p.kind = "chat" /\ p.room = room /\ p.name = NoName
  BY DEF Packet, HostPackets, DownPackets, Packets, Kinds

LEMMA MadeDirect ==
    ASSUME NEW name \in Nicks, NEW p, p = Packet("direct", NoRoom, name)
    PROVE  p \in HostPackets /\ p.kind = "direct" /\ p.name = name
  BY DEF Packet, HostPackets, DownPackets, Packets, Kinds

LEMMA MadeReconnect ==
    ASSUME NEW p, p = Packet("RECONNECT", NoRoom, NoName)
    PROVE  p \in DownPackets /\ p.kind = "RECONNECT"
  BY DEF Packet, DownPackets, Packets, Kinds

LEMMA MadeUserNick ==
    ASSUME NEW to \in Nicks, NEW nick \in Nicks, NEW p, p = UserNick(to, nick)
    PROVE  p \in HostPackets /\ p.kind = "USERNICK" /\ p.nick = nick /\ p.name = to
<1>1. Packet("USERNICK", NoRoom, to)
      = [kind |-> "USERNICK", room |-> NoRoom, name |-> to, nick |-> NoName, calm |-> FALSE]
  BY DEF Packet
<1>2. Packet("USERNICK", NoRoom, to) \in Packets BY DEF Packet, Packets, Kinds
<1>3. p \in Packets /\ p.kind = "USERNICK" /\ p.nick = nick /\ p.name = to
  BY <1>1, <1>2 DEF Packets, UserNick
<1>4. QED BY <1>3 DEF HostPackets, DownPackets

LEMMA MadeLine ==
    ASSUME StateInv, NEW calm \in BOOLEAN
    PROVE  Line(calm) \in UpPackets /\ Line(calm).kind = "chat" /\ Line(calm).room = gRoom /\ Line(calm).calm = calm
<1>1. Line(calm) = [kind |-> "chat", room |-> gRoom, name |-> chatterName, nick |-> NoName, calm |-> calm]
  BY DEF Line, Packet
<1>2. QED BY <1>1 DEF UpPackets, Packets, Kinds, StateInv

\* What a step does to the queues.
LEMMA UpAppend ==
    ASSUME PacketInv, NEW x \in UpPackets, up' = Append(up, x)
    PROVE  /\ up' \in Seq(UpPackets) /\ up' # <<>>
           /\ up # <<>> => Head(up') = Head(up)
           /\ \A K : Carries(up', K) <=> Carries(up, K) \/ x.kind \in K
           /\ x.kind = "NICKCHANGED" => NickInQueue(up', x.nick)
           /\ x.kind # "NICKCHANGED" => \A n : NickInQueue(up, n) => NickInQueue(up', n)
           /\ \A r : RoomsAre(up, "NEWROOM", r) /\ (x.kind = "NEWROOM" => x.room = r) => RoomsAre(up', "NEWROOM", r)
           /\ \A r : CalmInQueue(up, r) /\ (x.calm => r \in {NoRoom, x.room} /\ RoomsAre(up, "NEWROOM", x.room))
                     => CalmInQueue(up', r)
<1>0. up \in Seq(UpPackets) BY DEF PacketInv
<1>1. up' \in Seq(UpPackets) /\ up' # <<>> /\ (up # <<>> => Head(up') = Head(up)) BY <1>0
<1>2. \A K : Carries(up', K) <=> Carries(up, K) \/ x.kind \in K BY <1>0, CarriesQueue
<1>3. /\ x.kind = "NICKCHANGED" => NickInQueue(up', x.nick)
      /\ x.kind # "NICKCHANGED" => \A n : NickInQueue(up, n) => NickInQueue(up', n)
  BY <1>0, NickQueue
<1>4. \A r : RoomsAre(up, "NEWROOM", r) /\ (x.kind = "NEWROOM" => x.room = r) => RoomsAre(up', "NEWROOM", r)
  BY <1>0, RoomsQueue
<1>5. \A r : CalmInQueue(up, r) /\ (x.calm => r \in {NoRoom, x.room} /\ RoomsAre(up, "NEWROOM", x.room))
             => CalmInQueue(up', r)
  BY <1>0, CalmQueue
<1>6. QED BY <1>1, <1>2, <1>3, <1>4, <1>5

LEMMA UpTail ==
    ASSUME PacketInv, up # <<>>, up' = Tail(up)
    PROVE  /\ up' \in Seq(UpPackets) /\ Head(up) \in UpPackets
           /\ \A K : Carries(up, K) <=> Head(up).kind \in K \/ Carries(up', K)
           /\ \A n : NickInQueue(up, n) =>
                  /\ NickInQueue(up', n)
                  /\ Head(up).kind = "NICKCHANGED" /\ ~Carries(up', {"NICKCHANGED"}) => Head(up).nick = n
           /\ \A r : RoomsAre(up, "NEWROOM", r) =>
                  RoomsAre(up', "NEWROOM", r) /\ (Head(up).kind = "NEWROOM" => Head(up).room = r)
           /\ \A r : CalmInQueue(up, r) =>
                  /\ CalmInQueue(up', r)
                  /\ Head(up).calm => r \in {NoRoom, Head(up).room}
                  /\ Head(up).kind = "NEWROOM" => CalmInQueue(up', Head(up).room)
<1>0. up \in Seq(UpPackets) BY DEF PacketInv
<1>1. up' \in Seq(UpPackets) /\ Head(up) \in UpPackets BY <1>0
<1>2. \A K : Carries(up, K) <=> Head(up).kind \in K \/ Carries(up', K) BY <1>0, CarriesQueue
<1>3. \A n : NickInQueue(up, n) =>
          /\ NickInQueue(up', n)
          /\ Head(up).kind = "NICKCHANGED" /\ ~Carries(up', {"NICKCHANGED"}) => Head(up).nick = n
  BY <1>0, NickQueue
<1>4. \A r : RoomsAre(up, "NEWROOM", r) =>
          RoomsAre(up', "NEWROOM", r) /\ (Head(up).kind = "NEWROOM" => Head(up).room = r)
  BY <1>0, RoomsQueue
<1>5. \A r : CalmInQueue(up, r) =>
          /\ CalmInQueue(up', r)
          /\ Head(up).calm => r \in {NoRoom, Head(up).room}
          /\ Head(up).kind = "NEWROOM" => CalmInQueue(up', Head(up).room)
  BY <1>0, CalmQueue
<1>6. QED BY <1>1, <1>2, <1>3, <1>4, <1>5

LEMMA DownAppend ==
    ASSUME PacketInv, NEW x \in DownPackets, down' = Append(down, x)
    PROVE  /\ down' \in Seq(DownPackets)
           /\ \A K : Carries(down', K) <=> Carries(down, K) \/ x.kind \in K
           /\ x.kind = "USERROOM" => RoomInQueue(down', x.room)
           /\ \A r : RoomInQueue(down, r) /\ (x.kind \in {"USERROOM", "chat"} => x.room = r) => RoomInQueue(down', r)
           /\ x.kind = "USERNICK" => NameInQueue(down', {"direct"}, x.nick)
           /\ \A n : NameInQueue(down, {"direct"}, n) /\ (x.kind = "USERNICK" => x.nick = n) /\ (x.kind = "direct" => x.name = n)
                     => NameInQueue(down', {"direct"}, n)
           /\ \A r : RoomsAre(down, "USERROOM", r) /\ (x.kind = "USERROOM" => x.room = r) => RoomsAre(down', "USERROOM", r)
<1>0. down \in Seq(DownPackets) BY DEF PacketInv
<1>1. down' \in Seq(DownPackets) BY <1>0
<1>2. \A K : Carries(down', K) <=> Carries(down, K) \/ x.kind \in K BY <1>0, CarriesQueue
<1>3. /\ x.kind = "USERROOM" => RoomInQueue(down', x.room)
      /\ \A r : RoomInQueue(down, r) /\ (x.kind \in {"USERROOM", "chat"} => x.room = r) => RoomInQueue(down', r)
  BY <1>0, RoomQueue
<1>4. /\ x.kind = "USERNICK" => NameInQueue(down', {"direct"}, x.nick)
      /\ \A n : NameInQueue(down, {"direct"}, n) /\ (x.kind = "USERNICK" => x.nick = n) /\ (x.kind = "direct" => x.name = n)
                => NameInQueue(down', {"direct"}, n)
  BY <1>0, NameQueue
<1>5. \A r : RoomsAre(down, "USERROOM", r) /\ (x.kind = "USERROOM" => x.room = r) => RoomsAre(down', "USERROOM", r)
  BY <1>0, RoomsQueue
<1>6. QED BY <1>1, <1>2, <1>3, <1>4, <1>5

LEMMA DownTail ==
    ASSUME PacketInv, down # <<>>, down' = Tail(down)
    PROVE  /\ down' \in Seq(DownPackets) /\ Head(down) \in DownPackets
           /\ \A K : Carries(down, K) <=> Head(down).kind \in K \/ Carries(down', K)
           /\ \A r : RoomInQueue(down, r) =>
                  /\ RoomInQueue(down', r)
                  /\ Head(down).kind \in {"USERROOM", "chat"} /\ ~Carries(down', {"USERROOM"}) => Head(down).room = r
           /\ \A n : NameInQueue(down, {"direct"}, n) =>
                  /\ NameInQueue(down', {"direct"}, n)
                  /\ Head(down).kind = "USERNICK" /\ ~Carries(down', {"USERNICK"}) => Head(down).nick = n
                  /\ Head(down).kind = "direct" /\ ~Carries(down', {"USERNICK"}) => Head(down).name = n
           /\ \A r : RoomsAre(down, "USERROOM", r) =>
                  RoomsAre(down', "USERROOM", r) /\ (Head(down).kind = "USERROOM" => Head(down).room = r)
<1>0. down \in Seq(DownPackets) BY DEF PacketInv
<1>1. down' \in Seq(DownPackets) /\ Head(down) \in DownPackets BY <1>0
<1>2. \A K : Carries(down, K) <=> Head(down).kind \in K \/ Carries(down', K) BY <1>0, CarriesQueue
<1>3. \A r : RoomInQueue(down, r) =>
          /\ RoomInQueue(down', r)
          /\ Head(down).kind \in {"USERROOM", "chat"} /\ ~Carries(down', {"USERROOM"}) => Head(down).room = r
  BY <1>0, RoomQueue
<1>4. \A n : NameInQueue(down, {"direct"}, n) =>
          /\ NameInQueue(down', {"direct"}, n)
          /\ Head(down).kind = "USERNICK" /\ ~Carries(down', {"USERNICK"}) => Head(down).nick = n
          /\ Head(down).kind = "direct" /\ ~Carries(down', {"USERNICK"}) => Head(down).name = n
  BY <1>0, NameQueue
<1>5. \A r : RoomsAre(down, "USERROOM", r) =>
          RoomsAre(down', "USERROOM", r) /\ (Head(down).kind = "USERROOM" => Head(down).room = r)
  BY <1>0, RoomsQueue
<1>6. QED BY <1>1, <1>2, <1>3, <1>4, <1>5

LEMMA HostAppend ==
    ASSUME PacketInv, NEW x \in HostPackets, fromHost' = Append(fromHost, x)
    PROVE  /\ fromHost' \in Seq(HostPackets) /\ fromHost' # <<>>
           /\ \A K : Carries(fromHost', K) <=> Carries(fromHost, K) \/ x.kind \in K
           /\ x.kind = "USERROOM" => RoomInQueue(fromHost', x.room)
           /\ \A r : RoomInQueue(fromHost, r) /\ (x.kind \in {"USERROOM", "chat"} => x.room = r) => RoomInQueue(fromHost', r)
           /\ x.kind = "USERNICK" => NameInQueue(fromHost', {"USERROOM", "direct"}, x.nick)
           /\ \A n : /\ NameInQueue(fromHost, {"USERROOM", "direct"}, n)
                     /\ x.kind = "USERNICK" => x.nick = n
                     /\ x.kind \in {"USERROOM", "direct"} => x.name = n
                     => NameInQueue(fromHost', {"USERROOM", "direct"}, n)
           /\ \A r : RoomsAre(fromHost, "USERROOM", r) /\ (x.kind = "USERROOM" => x.room = r)
                     => RoomsAre(fromHost', "USERROOM", r)
<1>0. fromHost \in Seq(HostPackets) BY DEF PacketInv
<1>1. fromHost' \in Seq(HostPackets) /\ fromHost' # <<>> BY <1>0
<1>2. \A K : Carries(fromHost', K) <=> Carries(fromHost, K) \/ x.kind \in K BY <1>0, CarriesQueue
<1>3. /\ x.kind = "USERROOM" => RoomInQueue(fromHost', x.room)
      /\ \A r : RoomInQueue(fromHost, r) /\ (x.kind \in {"USERROOM", "chat"} => x.room = r) => RoomInQueue(fromHost', r)
  BY <1>0, RoomQueue
<1>4. /\ x.kind = "USERNICK" => NameInQueue(fromHost', {"USERROOM", "direct"}, x.nick)
      /\ \A n : /\ NameInQueue(fromHost, {"USERROOM", "direct"}, n)
                /\ x.kind = "USERNICK" => x.nick = n
                /\ x.kind \in {"USERROOM", "direct"} => x.name = n
                => NameInQueue(fromHost', {"USERROOM", "direct"}, n)
  BY <1>0, NameQueue
<1>5. \A r : RoomsAre(fromHost, "USERROOM", r) /\ (x.kind = "USERROOM" => x.room = r)
             => RoomsAre(fromHost', "USERROOM", r)
  BY <1>0, RoomsQueue
<1>6. QED BY <1>1, <1>2, <1>3, <1>4, <1>5

LEMMA HostTail ==
    ASSUME PacketInv, fromHost # <<>>, fromHost' = Tail(fromHost)
    PROVE  /\ fromHost' \in Seq(HostPackets) /\ Head(fromHost) \in HostPackets
           /\ \A K : Carries(fromHost, K) <=> Head(fromHost).kind \in K \/ Carries(fromHost', K)
           /\ \A r : RoomInQueue(fromHost, r) =>
                  /\ RoomInQueue(fromHost', r)
                  /\ Head(fromHost).kind \in {"USERROOM", "chat"} /\ ~Carries(fromHost', {"USERROOM"})
                     => Head(fromHost).room = r
           /\ \A n : NameInQueue(fromHost, {"USERROOM", "direct"}, n) =>
                  /\ NameInQueue(fromHost', {"USERROOM", "direct"}, n)
                  /\ ~Carries(fromHost', {"USERNICK"}) =>
                         /\ Head(fromHost).kind = "USERNICK" => Head(fromHost).nick = n
                         /\ Head(fromHost).kind \in {"USERROOM", "direct"} => Head(fromHost).name = n
           /\ \A r : RoomsAre(fromHost, "USERROOM", r) =>
                  RoomsAre(fromHost', "USERROOM", r) /\ (Head(fromHost).kind = "USERROOM" => Head(fromHost).room = r)
<1>0. fromHost \in Seq(HostPackets) BY DEF PacketInv
<1>1. fromHost' \in Seq(HostPackets) /\ Head(fromHost) \in HostPackets BY <1>0
<1>2. \A K : Carries(fromHost, K) <=> Head(fromHost).kind \in K \/ Carries(fromHost', K) BY <1>0, CarriesQueue
<1>3. \A r : RoomInQueue(fromHost, r) =>
          /\ RoomInQueue(fromHost', r)
          /\ Head(fromHost).kind \in {"USERROOM", "chat"} /\ ~Carries(fromHost', {"USERROOM"})
             => Head(fromHost).room = r
  BY <1>0, RoomQueue
<1>4. \A n : NameInQueue(fromHost, {"USERROOM", "direct"}, n) =>
          /\ NameInQueue(fromHost', {"USERROOM", "direct"}, n)
          /\ ~Carries(fromHost', {"USERNICK"}) =>
                 /\ Head(fromHost).kind = "USERNICK" => Head(fromHost).nick = n
                 /\ Head(fromHost).kind \in {"USERROOM", "direct"} => Head(fromHost).name = n
  BY <1>0, NameQueue
<1>5. \A r : RoomsAre(fromHost, "USERROOM", r) =>
          RoomsAre(fromHost', "USERROOM", r) /\ (Head(fromHost).kind = "USERROOM" => Head(fromHost).room = r)
  BY <1>0, RoomsQueue
<1>6. QED BY <1>1, <1>2, <1>3, <1>4, <1>5

-----------------------------------------------------------------------------
(* The user's thread.                                                      *)

LEMMA JoinKeeps == ASSUME IInv, NEW r \in Rooms, Join(r) PROVE IInv'
<1> DEFINE x == Packet("NEWROOM", r, chatterName)
<1>0. /\ StateInv /\ PacketInv /\ ServerInv /\ RoomInv /\ NameInv /\ SlotInv /\ CalmInv
      /\ NothingMissed /\ NothingAstray
  BY DEF IInv
<1>1. /\ user.at = "idle" /\ up' = Append(up, x) /\ user' = [at |-> "joining", room |-> r, calm |-> FALSE]
      /\ UNCHANGED <<gRoom, chatterName, receiver, slotName, link, gReconnect, fromHost, down, srvRoom, srvName,
                     overtaken, roomLost, nickLost, missed, stray>>
  BY DEF Join, bridge, server, history
<1>2. x \in UpPackets /\ x.kind = "NEWROOM" /\ x.room = r /\ x.calm = FALSE
  <2>1. gRoom \in Rooms /\ chatterName \in Nicks BY <1>0 DEF StateInv
  <2>2. QED BY <2>1, MadeNewRoom
<1> HIDE DEF x
<1>3. /\ up' \in Seq(UpPackets) /\ up' # <<>> /\ (up # <<>> => Head(up') = Head(up))
      /\ Carries(up', {"NEWROOM"}) /\ (Carries(up', {"NICKCHANGED"}) <=> Carries(up, {"NICKCHANGED"}))
      /\ \A n : NickInQueue(up, n) => NickInQueue(up', n)
      /\ \A q : CalmInQueue(up, q) => CalmInQueue(up', q)
  BY <1>0, <1>1, <1>2, UpAppend
<1>4. user' \in Users /\ user'.at = "joining" /\ user'.room = r BY <1>1 DEF Users
<1>5. StateInv' BY <1>0, <1>1, <1>4 DEF StateInv
<1>6. PacketInv' BY <1>0, <1>1, <1>3 DEF PacketInv
<1>7. ServerInv' BY <1>0, <1>1 DEF ServerInv
<1>8. RoomInv' BY <1>0, <1>1, <1>3 DEF RoomInv, KnownRoom
<1>9. NameInv' BY <1>0, <1>1 DEF NameInv, KnownName
<1>10. SlotInv' BY <1>0, <1>1, <1>3 DEF SlotInv
<1>11. CalmInv' BY <1>0, <1>1, <1>3, <1>4 DEF CalmInv
<1>12. NothingMissed' /\ NothingAstray' BY <1>0, <1>1 DEF NothingMissed, NothingAstray
<1>13. QED BY <1>5, <1>6, <1>7, <1>8, <1>9, <1>10, <1>11, <1>12 DEF IInv

\* Were there no NEWROOM and no USERROOM left, gRoom would be final.
LEMMA JoinedKeeps == ASSUME IInv, Joined PROVE IInv'
<1>0. /\ StateInv /\ PacketInv /\ ServerInv /\ RoomInv /\ NameInv /\ SlotInv /\ CalmInv
      /\ NothingMissed /\ NothingAstray
  BY DEF IInv
<1>1. /\ user.at = "joining" /\ gRoom' = KeptRoom[user.room] /\ user' = Idle
      /\ UNCHANGED <<chatterName, receiver, up, slotName, link, gReconnect, fromHost, down, srvRoom, srvName,
                     overtaken, roomLost, nickLost, missed, stray>>
  BY DEF Joined, bridge, server, history
<1>2. user' \in Users /\ user'.at = "idle" BY <1>1 DEF Users, Idle
<1>3. StateInv'
  <2>1. gRoom' \in Rooms BY <1>0, <1>1, Distinct DEF StateInv
  <2>2. QED BY <1>0, <1>1, <1>2, <2>1 DEF StateInv
<1>4. PacketInv' BY <1>0, <1>1 DEF PacketInv
<1>5. ServerInv' BY <1>0, <1>1 DEF ServerInv
<1>6. RoomInv' BY <1>0, <1>1 DEF RoomInv, KnownRoom
<1>7. NameInv' BY <1>0, <1>1 DEF NameInv, KnownName
<1>8. SlotInv' BY <1>0, <1>1 DEF SlotInv
<1>9. CalmInv' BY <1>0, <1>1, <1>2 DEF CalmInv
<1>10. NothingMissed' /\ NothingAstray' BY <1>0, <1>1 DEF NothingMissed, NothingAstray
<1>11. QED BY <1>3, <1>4, <1>5, <1>6, <1>7, <1>8, <1>9, <1>10 DEF IInv

\* With the rooms settled client and server have the same.
LEMMA RoomsSame == IInv => RoomAgrees
<1> SUFFICES ASSUME IInv, RoomSettled, Trusted, srvRoom # NoRoom PROVE gRoom = KeptRoom[srvRoom]
  BY DEF RoomAgrees
<1>1. /\ ~Carries(fromHost, {"USERROOM"}) /\ ~Carries(up, {"NEWROOM"})
      /\ ~Carries(down, {"USERROOM", "RECONNECT"})
  BY DEF RoomSettled
<1>2. ~Carries(down, {"USERROOM"}) BY <1>1 DEF Carries
<1>3. QED BY <1>1, <1>2 DEF IInv, RoomInv, KnownRoom, Trusted

\* With the names settled all three have the same.
LEMMA NamesSame == IInv => NamesAgree
<1> SUFFICES ASSUME IInv, NameSettled, ~nickLost, srvName # NoName
             PROVE  chatterName = srvName /\ slotName = Kept[srvName]
  BY DEF NamesAgree
<1>1. /\ receiver.at # "announce" /\ ~Carries(up, {"NICKCHANGED"}) /\ ~Carries(fromHost, {"USERNICK"})
      /\ ~Carries(down, {"USERNICK"})
  BY DEF NameSettled
<1>2. chatterName = srvName BY <1>1 DEF IInv, NameInv, KnownName
<1>3. slotName = Kept[chatterName] BY <1>1 DEF IInv, SlotInv
<1>4. QED BY <1>2, <1>3

LEMMA SayKeeps == ASSUME IInv, Say PROVE IInv'
<1> DEFINE c == RoomSettled /\ Trusted /\ RoomFits
           x == Line(c)
<1>0. /\ StateInv /\ PacketInv /\ ServerInv /\ RoomInv /\ NameInv /\ SlotInv /\ CalmInv
      /\ NothingMissed /\ NothingAstray
  BY DEF IInv
<1>1. /\ user.at = "idle" /\ up' = Append(up, x) /\ user' = [at |-> "saying", room |-> gRoom, calm |-> c]
      /\ UNCHANGED <<gRoom, chatterName, receiver, slotName, link, gReconnect, fromHost, down, srvRoom, srvName,
                     overtaken, roomLost, nickLost, missed, stray>>
  BY DEF Say, bridge, server, history
<1>2. c \in BOOLEAN OBVIOUS
<1>3. c => /\ gRoom = srvRoom /\ KeptRoom[gRoom] = gRoom /\ ~Carries(up, {"NEWROOM"})
           /\ ~Carries(fromHost, {"USERROOM"}) /\ ~Carries(down, {"USERROOM"})
  <2>1. c => gRoom = srvRoom /\ KeptRoom[gRoom] = gRoom BY RoomsSame DEF RoomAgrees, RoomFits
  <2>2. RoomSettled => /\ ~Carries(up, {"NEWROOM"}) /\ ~Carries(fromHost, {"USERROOM"})
                       /\ ~Carries(down, {"USERROOM", "RECONNECT"})
    BY DEF RoomSettled
  <2>3. ~Carries(down, {"USERROOM", "RECONNECT"}) => ~Carries(down, {"USERROOM"}) BY DEF Carries
  <2>4. QED BY <2>1, <2>2, <2>3
<1> HIDE DEF c
<1>4. x \in UpPackets /\ x.kind = "chat" /\ x.room = gRoom /\ x.calm = c BY <1>0, <1>2, MadeLine
<1> HIDE DEF x
<1>5. user' \in Users /\ user'.at = "saying" /\ user'.room = gRoom /\ user'.calm = c
  BY <1>0, <1>1, <1>2 DEF Users, StateInv
<1>6. c => RoomsAre(up, "NEWROOM", gRoom) /\ RoomsAre(fromHost, "USERROOM", gRoom) /\ RoomsAre(down, "USERROOM", gRoom)
  BY <1>0, <1>3, RoomsQueue DEF PacketInv
<1>7. /\ up' \in Seq(UpPackets) /\ up' # <<>> /\ (up # <<>> => Head(up') = Head(up))
      /\ Carries(up', {"NEWROOM"}) <=> Carries(up, {"NEWROOM"})
      /\ Carries(up', {"NICKCHANGED"}) <=> Carries(up, {"NICKCHANGED"})
      /\ \A n : NickInQueue(up, n) => NickInQueue(up', n)
      /\ RoomsAre(up, "NEWROOM", gRoom) => RoomsAre(up', "NEWROOM", gRoom)
      /\ \A q : CalmInQueue(up, q) /\ (c => q \in {NoRoom, gRoom} /\ RoomsAre(up, "NEWROOM", gRoom)) => CalmInQueue(up', q)
  BY <1>0, <1>1, <1>4, UpAppend
<1>8. StateInv' BY <1>0, <1>1, <1>5 DEF StateInv
<1>9. PacketInv' BY <1>0, <1>1, <1>7 DEF PacketInv
<1>10. ServerInv' BY <1>0, <1>1 DEF ServerInv
<1>11. RoomInv' BY <1>0, <1>1, <1>5, <1>7 DEF RoomInv, KnownRoom
<1>12. NameInv' BY <1>0, <1>1 DEF NameInv, KnownName
<1>13. SlotInv' BY <1>0, <1>1, <1>7 DEF SlotInv
<1>14. CalmInv' BY <1>0, <1>1, <1>3, <1>5, <1>6, <1>7 DEF CalmInv
<1>15. NothingMissed' /\ NothingAstray' BY <1>0, <1>1 DEF NothingMissed, NothingAstray
<1>16. QED BY <1>8, <1>9, <1>10, <1>11, <1>12, <1>13, <1>14, <1>15 DEF IInv

LEMMA SayRestKeeps == ASSUME IInv, SayRest PROVE IInv'
<1> DEFINE x == Line(user.calm)
<1>0. /\ StateInv /\ PacketInv /\ ServerInv /\ RoomInv /\ NameInv /\ SlotInv /\ CalmInv
      /\ NothingMissed /\ NothingAstray
  BY DEF IInv
<1>1. /\ user.at = "saying" /\ up' = Append(up, x) /\ user' = Idle
      /\ UNCHANGED <<gRoom, chatterName, receiver, slotName, link, gReconnect, fromHost, down, srvRoom, srvName,
                     overtaken, roomLost, nickLost, missed, stray>>
  BY DEF SayRest, bridge, server, history
<1>2. user.calm \in BOOLEAN BY <1>0 DEF StateInv, Users
<1>3. x \in UpPackets /\ x.kind = "chat" /\ x.room = gRoom /\ x.calm = user.calm BY <1>0, <1>2, MadeLine
<1> HIDE DEF x
<1>4. user' \in Users /\ user'.at = "idle" BY <1>1 DEF Users, Idle
<1>5. /\ up' \in Seq(UpPackets) /\ up' # <<>> /\ (up # <<>> => Head(up') = Head(up))
      /\ Carries(up', {"NEWROOM"}) <=> Carries(up, {"NEWROOM"})
      /\ Carries(up', {"NICKCHANGED"}) <=> Carries(up, {"NICKCHANGED"})
      /\ \A n : NickInQueue(up, n) => NickInQueue(up', n)
      /\ \A q : CalmInQueue(up, q) /\ (user.calm => q \in {NoRoom, gRoom} /\ RoomsAre(up, "NEWROOM", gRoom))
                => CalmInQueue(up', q)
  BY <1>0, <1>1, <1>3, UpAppend
<1>6. StateInv' BY <1>0, <1>1, <1>4 DEF StateInv
<1>7. PacketInv' BY <1>0, <1>1, <1>5 DEF PacketInv
<1>8. ServerInv' BY <1>0, <1>1 DEF ServerInv
<1>9. RoomInv' BY <1>0, <1>1, <1>4, <1>5 DEF RoomInv, KnownRoom
<1>10. NameInv' BY <1>0, <1>1 DEF NameInv, KnownName
<1>11. SlotInv' BY <1>0, <1>1, <1>5 DEF SlotInv
<1>12. CalmInv' BY <1>0, <1>1, <1>4, <1>5 DEF CalmInv
<1>13. NothingMissed' /\ NothingAstray' BY <1>0, <1>1 DEF NothingMissed, NothingAstray
<1>14. QED BY <1>6, <1>7, <1>8, <1>9, <1>10, <1>11, <1>12, <1>13 DEF IInv

-----------------------------------------------------------------------------
(* The receiver.                                                           *)

LEMMA TakeUserRoomKeeps == ASSUME IInv, TakeUserRoom PROVE IInv'
<1>0. /\ StateInv /\ PacketInv /\ ServerInv /\ RoomInv /\ NameInv /\ SlotInv /\ CalmInv
      /\ NothingMissed /\ NothingAstray
  BY DEF IInv
<1>1. /\ down # <<>> /\ Head(down).kind = "USERROOM" /\ down' = Tail(down) /\ gRoom' = KeptRoom[Head(down).room]
      /\ overtaken' = (user.at = "joining" /\ ~Carries(up, {"NEWROOM"}))
      /\ UNCHANGED <<chatterName, user, receiver, up, slotName, link, gReconnect, fromHost, srvRoom, srvName,
                     roomLost, nickLost, missed, stray>>
  BY DEF TakeUserRoom, Takes, bridge, server
<1>2. /\ down' \in Seq(DownPackets) /\ Head(down) \in DownPackets
      /\ Carries(down, {"USERNICK"}) <=> Carries(down', {"USERNICK"})
      /\ \A r : RoomInQueue(down, r) =>
             RoomInQueue(down', r) /\ (~Carries(down', {"USERROOM"}) => Head(down).room = r)
      /\ \A n : NameInQueue(down, {"direct"}, n) => NameInQueue(down', {"direct"}, n)
      /\ \A r : RoomsAre(down, "USERROOM", r) => RoomsAre(down', "USERROOM", r) /\ Head(down).room = r
  BY <1>0, <1>1, DownTail
<1>3. Head(down).room \in Rooms /\ gRoom' \in Rooms
  <2>1. Head(down).room \in Rooms BY <1>1, <1>2 DEF DownPackets
  <2>2. QED BY <1>1, <2>1, Distinct
<1>4. overtaken' \in BOOLEAN BY <1>1
<1>5. StateInv' BY <1>0, <1>1, <1>3, <1>4 DEF StateInv
<1>6. PacketInv' BY <1>0, <1>1, <1>2 DEF PacketInv
<1>7. ServerInv' BY <1>0, <1>1 DEF ServerInv
<1>8. RoomInv' BY <1>0, <1>1, <1>2 DEF RoomInv, KnownRoom
<1>9. NameInv' BY <1>0, <1>1, <1>2 DEF NameInv, KnownName
<1>10. SlotInv' BY <1>0, <1>1, <1>2 DEF SlotInv
<1>11. CalmInv' BY <1>0, <1>1, <1>2 DEF CalmInv
<1>12. NothingMissed' /\ NothingAstray' BY <1>0, <1>1 DEF NothingMissed, NothingAstray
<1>13. QED BY <1>5, <1>6, <1>7, <1>8, <1>9, <1>10, <1>11, <1>12 DEF IInv

LEMMA TakeUserNickKeeps == ASSUME IInv, TakeUserNick PROVE IInv'
<1>0. /\ StateInv /\ PacketInv /\ ServerInv /\ RoomInv /\ NameInv /\ SlotInv /\ CalmInv
      /\ NothingMissed /\ NothingAstray
  BY DEF IInv
<1>1. /\ down # <<>> /\ Head(down).kind = "USERNICK" /\ down' = Tail(down) /\ chatterName' = Head(down).nick
      /\ receiver' = [at |-> "announce"]
      /\ UNCHANGED <<gRoom, user, up, slotName, link, gReconnect, fromHost, srvRoom, srvName,
                     overtaken, roomLost, nickLost, missed, stray>>
  BY DEF TakeUserNick, Takes, bridge, server, history
<1>2. /\ down' \in Seq(DownPackets) /\ Head(down) \in DownPackets /\ Carries(down, {"USERNICK"})
      /\ Carries(down, {"USERROOM"}) <=> Carries(down', {"USERROOM"})
      /\ \A r : RoomInQueue(down, r) => RoomInQueue(down', r)
      /\ \A n : NameInQueue(down, {"direct"}, n) =>
             NameInQueue(down', {"direct"}, n) /\ (~Carries(down', {"USERNICK"}) => Head(down).nick = n)
      /\ \A r : RoomsAre(down, "USERROOM", r) => RoomsAre(down', "USERROOM", r)
  BY <1>0, <1>1, DownTail
<1>3. Head(down).nick \in Nicks BY <1>1, <1>2 DEF DownPackets
<1>4. receiver' \in Receivers /\ receiver'.at = "announce" BY <1>1 DEF Receivers
<1>5. StateInv' BY <1>0, <1>1, <1>3, <1>4 DEF StateInv
<1>6. PacketInv' BY <1>0, <1>1, <1>2 DEF PacketInv
<1>7. ServerInv' BY <1>0, <1>1 DEF ServerInv
<1>8. RoomInv' BY <1>0, <1>1, <1>2 DEF RoomInv, KnownRoom
<1>9. NameInv' BY <1>0, <1>1, <1>2 DEF NameInv, KnownName
<1>10. SlotInv' BY <1>0, <1>1, <1>2, <1>4 DEF SlotInv
<1>11. CalmInv' BY <1>0, <1>1, <1>2 DEF CalmInv
<1>12. NothingMissed' /\ NothingAstray' BY <1>0, <1>1 DEF NothingMissed, NothingAstray
<1>13. QED BY <1>5, <1>6, <1>7, <1>8, <1>9, <1>10, <1>11, <1>12 DEF IInv

LEMMA AnnounceNickKeeps == ASSUME IInv, AnnounceNick PROVE IInv'
<1> DEFINE x == [Packet("NICKCHANGED", NoRoom, chatterName) EXCEPT !.nick = chatterName]
<1>0. /\ StateInv /\ PacketInv /\ ServerInv /\ RoomInv /\ NameInv /\ SlotInv /\ CalmInv
      /\ NothingMissed /\ NothingAstray
  BY DEF IInv
<1>1. /\ receiver.at = "announce" /\ up' = Append(up, x) /\ receiver' = [at |-> "recv"]
      /\ UNCHANGED <<gRoom, chatterName, user, slotName, link, gReconnect, fromHost, down, srvRoom, srvName,
                     overtaken, roomLost, nickLost, missed, stray>>
  BY DEF AnnounceNick, bridge, server, history
<1>2. x \in UpPackets /\ x.kind = "NICKCHANGED" /\ x.nick = chatterName /\ x.calm = FALSE
  BY <1>0, MadeNick DEF StateInv
<1> HIDE DEF x
<1>3. /\ up' \in Seq(UpPackets) /\ up' # <<>> /\ Carries(up', {"NICKCHANGED"})
      /\ Carries(up', {"NEWROOM"}) <=> Carries(up, {"NEWROOM"})
      /\ NickInQueue(up', chatterName)
      /\ \A r : RoomsAre(up, "NEWROOM", r) => RoomsAre(up', "NEWROOM", r)
      /\ \A r : CalmInQueue(up, r) => CalmInQueue(up', r)
  BY <1>0, <1>1, <1>2, UpAppend
<1>4. receiver' \in Receivers /\ receiver'.at = "recv" BY <1>1 DEF Receivers
<1>5. StateInv' BY <1>0, <1>1, <1>4 DEF StateInv
<1>6. PacketInv' BY <1>0, <1>1, <1>3 DEF PacketInv
<1>7. ServerInv' BY <1>0, <1>1 DEF ServerInv
<1>8. RoomInv' BY <1>0, <1>1, <1>3 DEF RoomInv, KnownRoom
<1>9. NameInv' BY <1>0, <1>1 DEF NameInv, KnownName
<1>10. SlotInv' BY <1>0, <1>1, <1>3, <1>4 DEF SlotInv
<1>11. CalmInv' BY <1>0, <1>1, <1>3 DEF CalmInv
<1>12. NothingMissed' /\ NothingAstray' BY <1>0, <1>1 DEF NothingMissed, NothingAstray
<1>13. QED BY <1>5, <1>6, <1>7, <1>8, <1>9, <1>10, <1>11, <1>12 DEF IInv

LEMMA TakeReconnectKeeps == ASSUME IInv, TakeReconnect PROVE IInv'
<1> DEFINE x == Packet("IAMHERE", gRoom, chatterName)
<1>0. /\ StateInv /\ PacketInv /\ ServerInv /\ RoomInv /\ NameInv /\ SlotInv /\ CalmInv
      /\ NothingMissed /\ NothingAstray
  BY DEF IInv
<1>1. /\ receiver.at = "recv" /\ down # <<>> /\ Head(down).kind = "RECONNECT" /\ down' = Tail(down)
      /\ up' = Append(up, x) /\ receiver' = [at |-> "rejoin"]
      /\ UNCHANGED <<gRoom, chatterName, user, slotName, link, gReconnect, fromHost, srvRoom, srvName,
                     overtaken, roomLost, nickLost, missed, stray>>
  BY DEF TakeReconnect, Takes, bridge, server, history
<1>2. x \in UpPackets /\ x.kind = "IAMHERE" /\ x.name = chatterName /\ x.calm = FALSE
  <2>1. gRoom \in Rooms /\ chatterName \in Nicks BY <1>0 DEF StateInv
  <2>2. QED BY <2>1, MadeIamHere
<1> HIDE DEF x
<1>3. /\ up' \in Seq(UpPackets) /\ up' # <<>> /\ (up # <<>> => Head(up') = Head(up))
      /\ Carries(up', {"NEWROOM"}) <=> Carries(up, {"NEWROOM"})
      /\ Carries(up', {"NICKCHANGED"}) <=> Carries(up, {"NICKCHANGED"})
      /\ \A n : NickInQueue(up, n) => NickInQueue(up', n)
      /\ \A r : RoomsAre(up, "NEWROOM", r) => RoomsAre(up', "NEWROOM", r)
      /\ \A r : CalmInQueue(up, r) => CalmInQueue(up', r)
  BY <1>0, <1>1, <1>2, UpAppend
<1>4. /\ down' \in Seq(DownPackets)
      /\ Carries(down, {"USERROOM"}) <=> Carries(down', {"USERROOM"})
      /\ Carries(down, {"USERNICK"}) <=> Carries(down', {"USERNICK"})
      /\ \A r : RoomInQueue(down, r) => RoomInQueue(down', r)
      /\ \A n : NameInQueue(down, {"direct"}, n) => NameInQueue(down', {"direct"}, n)
      /\ \A r : RoomsAre(down, "USERROOM", r) => RoomsAre(down', "USERROOM", r)
  BY <1>0, <1>1, DownTail
<1>5. receiver' \in Receivers /\ receiver'.at = "rejoin" BY <1>1 DEF Receivers
<1>6. StateInv' BY <1>0, <1>1, <1>5 DEF StateInv
<1>7. PacketInv' BY <1>0, <1>1, <1>3, <1>4 DEF PacketInv
<1>8. ServerInv' BY <1>0, <1>1 DEF ServerInv
<1>9. RoomInv' BY <1>0, <1>1, <1>3, <1>4 DEF RoomInv, KnownRoom
<1>10. NameInv' BY <1>0, <1>1, <1>4 DEF NameInv, KnownName
<1>11. SlotInv' BY <1>0, <1>1, <1>3, <1>4, <1>5 DEF SlotInv
<1>12. CalmInv' BY <1>0, <1>1, <1>3, <1>4 DEF CalmInv
<1>13. NothingMissed' /\ NothingAstray' BY <1>0, <1>1 DEF NothingMissed, NothingAstray
<1>14. QED BY <1>6, <1>7, <1>8, <1>9, <1>10, <1>11, <1>12, <1>13 DEF IInv

LEMMA RejoinKeeps == ASSUME IInv, Rejoin PROVE IInv'
<1> DEFINE x == Packet("NEWROOM", gRoom, chatterName)
<1>0. /\ StateInv /\ PacketInv /\ ServerInv /\ RoomInv /\ NameInv /\ SlotInv /\ CalmInv
      /\ NothingMissed /\ NothingAstray
  BY DEF IInv
<1>1. /\ receiver.at = "rejoin" /\ up' = Append(up, x) /\ receiver' = [at |-> "recv"]
      /\ UNCHANGED <<gRoom, chatterName, user, slotName, link, gReconnect, fromHost, down, srvRoom, srvName,
                     overtaken, roomLost, nickLost, missed, stray>>
  BY DEF Rejoin, bridge, server, history
<1>2. x \in UpPackets /\ x.kind = "NEWROOM" /\ x.room = gRoom /\ x.calm = FALSE
  <2>1. gRoom \in Rooms /\ chatterName \in Nicks BY <1>0 DEF StateInv
  <2>2. QED BY <2>1, MadeNewRoom
<1> HIDE DEF x
<1>3. /\ up' \in Seq(UpPackets) /\ up' # <<>> /\ (up # <<>> => Head(up') = Head(up))
      /\ Carries(up', {"NEWROOM"}) /\ (Carries(up', {"NICKCHANGED"}) <=> Carries(up, {"NICKCHANGED"}))
      /\ \A n : NickInQueue(up, n) => NickInQueue(up', n)
      /\ RoomsAre(up, "NEWROOM", gRoom) => RoomsAre(up', "NEWROOM", gRoom)
      /\ \A r : CalmInQueue(up, r) => CalmInQueue(up', r)
  BY <1>0, <1>1, <1>2, UpAppend
<1>4. receiver' \in Receivers /\ receiver'.at = "recv" BY <1>1 DEF Receivers
<1>5. StateInv' BY <1>0, <1>1, <1>4 DEF StateInv
<1>6. PacketInv' BY <1>0, <1>1, <1>3 DEF PacketInv
<1>7. ServerInv' BY <1>0, <1>1 DEF ServerInv
<1>8. RoomInv' BY <1>0, <1>1, <1>3 DEF RoomInv, KnownRoom
<1>9. NameInv' BY <1>0, <1>1 DEF NameInv, KnownName
<1>10. SlotInv' BY <1>0, <1>1, <1>3, <1>4 DEF SlotInv
<1>11. CalmInv' BY <1>0, <1>1, <1>3 DEF CalmInv
<1>12. NothingMissed' /\ NothingAstray' BY <1>0, <1>1 DEF NothingMissed, NothingAstray
<1>13. QED BY <1>5, <1>6, <1>7, <1>8, <1>9, <1>10, <1>11, <1>12 DEF IInv

LEMMA StillHereKeeps == ASSUME IInv, StillHere PROVE IInv'
<1> DEFINE x == Packet("IAMHERE", gRoom, chatterName)
<1>0. /\ StateInv /\ PacketInv /\ ServerInv /\ RoomInv /\ NameInv /\ SlotInv /\ CalmInv
      /\ NothingMissed /\ NothingAstray
  BY DEF IInv
<1>1. /\ receiver.at = "recv" /\ up' = Append(up, x)
      /\ UNCHANGED <<gRoom, chatterName, user, receiver, slotName, link, gReconnect, fromHost, down, srvRoom, srvName,
                     overtaken, roomLost, nickLost, missed, stray>>
  BY DEF StillHere, client, bridge, server, history
<1>2. x \in UpPackets /\ x.kind = "IAMHERE" /\ x.name = chatterName /\ x.calm = FALSE
  <2>1. gRoom \in Rooms /\ chatterName \in Nicks BY <1>0 DEF StateInv
  <2>2. QED BY <2>1, MadeIamHere
<1> HIDE DEF x
<1>3. /\ up' \in Seq(UpPackets) /\ up' # <<>> /\ (up # <<>> => Head(up') = Head(up))
      /\ Carries(up', {"NEWROOM"}) <=> Carries(up, {"NEWROOM"})
      /\ Carries(up', {"NICKCHANGED"}) <=> Carries(up, {"NICKCHANGED"})
      /\ \A n : NickInQueue(up, n) => NickInQueue(up', n)
      /\ \A r : RoomsAre(up, "NEWROOM", r) => RoomsAre(up', "NEWROOM", r)
      /\ \A r : CalmInQueue(up, r) => CalmInQueue(up', r)
  BY <1>0, <1>1, <1>2, UpAppend
<1>4. StateInv' BY <1>0, <1>1 DEF StateInv
<1>5. PacketInv' BY <1>0, <1>1, <1>3 DEF PacketInv
<1>6. ServerInv' BY <1>0, <1>1 DEF ServerInv
<1>7. RoomInv' BY <1>0, <1>1, <1>3 DEF RoomInv, KnownRoom
<1>8. NameInv' BY <1>0, <1>1 DEF NameInv, KnownName
<1>9. SlotInv' BY <1>0, <1>1, <1>3 DEF SlotInv
<1>10. CalmInv' BY <1>0, <1>1, <1>3 DEF CalmInv
<1>11. NothingMissed' /\ NothingAstray' BY <1>0, <1>1 DEF NothingMissed, NothingAstray
<1>12. QED BY <1>4, <1>5, <1>6, <1>7, <1>8, <1>9, <1>10, <1>11 DEF IInv

\* A line at the head of the queue is for the room, or for the name, that
\* the settled client has.
LEMMA TakeLineKeeps == ASSUME IInv, NEW kind \in {"chat", "direct"}, TakeLine(kind) PROVE IInv'
<1>0. /\ StateInv /\ PacketInv /\ ServerInv /\ RoomInv /\ NameInv /\ SlotInv /\ CalmInv
      /\ NothingMissed /\ NothingAstray
  BY DEF IInv
<1>1. /\ down # <<>> /\ Head(down).kind = kind /\ down' = Tail(down)
      /\ UNCHANGED <<gRoom, chatterName, user, receiver, up, slotName, link, gReconnect, fromHost, srvRoom, srvName,
                     overtaken, roomLost, nickLost, stray>>
  BY DEF TakeLine, Takes, client, bridge, server
<1>2. /\ down' \in Seq(DownPackets)
      /\ Carries(down, {"USERROOM"}) <=> Carries(down', {"USERROOM"})
      /\ Carries(down, {"USERNICK"}) <=> Carries(down', {"USERNICK"})
      /\ \A r : RoomInQueue(down, r) =>
             RoomInQueue(down', r) /\ (kind = "chat" /\ ~Carries(down', {"USERROOM"}) => Head(down).room = r)
      /\ \A n : NameInQueue(down, {"direct"}, n) =>
             NameInQueue(down', {"direct"}, n) /\ (kind = "direct" /\ ~Carries(down', {"USERNICK"}) => Head(down).name = n)
      /\ \A r : RoomsAre(down, "USERROOM", r) => RoomsAre(down', "USERROOM", r)
  BY <1>0, <1>1, DownTail
<1>3. missed' = FALSE
  <2>1. CASE kind = "chat"
    <3>1. missed' = (missed \/ (Head(down).room # gRoom /\ RoomSettled /\ Trusted /\ RoomFits))
      BY <2>1 DEF TakeLine
    <3>2. ASSUME RoomSettled, Trusted, RoomFits PROVE Head(down).room = gRoom
      <4>1. gRoom = srvRoom /\ srvRoom # NoRoom BY <3>2, RoomsSame DEF RoomAgrees, RoomFits
      <4>2. ~Carries(fromHost, {"USERROOM"}) /\ ~Carries(down, {"USERROOM", "RECONNECT"}) BY <3>2 DEF RoomSettled
      <4>3. ~Carries(down, {"USERROOM"}) BY <4>2 DEF Carries
      <4>4. KnownRoom BY <3>2, <4>1, <4>2 DEF KnownRoom, Trusted
      <4>5. QED BY <1>0, <1>2, <2>1, <4>1, <4>3, <4>4 DEF RoomInv
    <3>3. QED BY <1>0, <3>1, <3>2 DEF NothingMissed
  <2>2. CASE kind = "direct"
    <3>1. missed' = (missed \/ (Head(down).name # chatterName /\ NameSettled /\ ~nickLost /\ srvName # NoName))
      BY <2>2 DEF TakeLine
    <3>2. ASSUME NameSettled, ~nickLost, srvName # NoName PROVE Head(down).name = chatterName
      <4>1. chatterName = srvName BY <3>2, NamesSame DEF NamesAgree
      <4>2. ~Carries(fromHost, {"USERNICK"}) /\ ~Carries(down, {"USERNICK"}) BY <3>2 DEF NameSettled
      <4>3. KnownName BY <3>2, <4>2 DEF KnownName
      <4>4. QED BY <1>0, <1>2, <2>2, <4>1, <4>2, <4>3 DEF NameInv
    <3>3. QED BY <1>0, <3>1, <3>2 DEF NothingMissed
  <2>3. QED BY <2>1, <2>2
<1>4. StateInv' BY <1>0, <1>1 DEF StateInv
<1>5. PacketInv' BY <1>0, <1>1, <1>2 DEF PacketInv
<1>6. ServerInv' BY <1>0, <1>1 DEF ServerInv
<1>7. RoomInv' BY <1>0, <1>1, <1>2 DEF RoomInv, KnownRoom
<1>8. NameInv' BY <1>0, <1>1, <1>2 DEF NameInv, KnownName
<1>9. SlotInv' BY <1>0, <1>1, <1>2 DEF SlotInv
<1>10. CalmInv' BY <1>0, <1>1, <1>2 DEF CalmInv
<1>11. NothingMissed' /\ NothingAstray' BY <1>0, <1>1, <1>3 DEF NothingMissed, NothingAstray
<1>12. QED BY <1>4, <1>5, <1>6, <1>7, <1>8, <1>9, <1>10, <1>11 DEF IInv

-----------------------------------------------------------------------------
(* The bridge, upwards, and the server behind it.                          *)

LEMMA NoNick == ASSUME NEW q, NEW n, ~Carries(q, {"NICKCHANGED"}) PROVE NickInQueue(q, n)
  BY DEF Carries, NickInQueue

LEMMA NickChangedKeeps == ASSUME IInv, NickChanged PROVE IInv'
<1>0. /\ StateInv /\ PacketInv /\ ServerInv /\ RoomInv /\ NameInv /\ SlotInv /\ CalmInv
      /\ NothingMissed /\ NothingAstray
  BY DEF IInv
<1>1. /\ up # <<>> /\ Head(up).kind = "NICKCHANGED" /\ up' = Tail(up) /\ slotName' = Kept[Head(up).nick]
      /\ UNCHANGED <<gRoom, chatterName, user, receiver, link, gReconnect, fromHost, down, srvRoom, srvName,
                     overtaken, roomLost, nickLost, missed, stray>>
  BY DEF NickChanged, Reads, client, server, history
<1>2. /\ up' \in Seq(UpPackets) /\ Head(up) \in UpPackets /\ Carries(up, {"NICKCHANGED"})
      /\ Carries(up, {"NEWROOM"}) <=> Carries(up', {"NEWROOM"})
      /\ \A n : NickInQueue(up, n) =>
             NickInQueue(up', n) /\ (~Carries(up', {"NICKCHANGED"}) => Head(up).nick = n)
      /\ \A r : RoomsAre(up, "NEWROOM", r) => RoomsAre(up', "NEWROOM", r)
      /\ \A r : CalmInQueue(up, r) => CalmInQueue(up', r)
  BY <1>0, <1>1, UpTail
<1>3. slotName' \in Nicks /\ slotName' # NoName
  <2>1. Head(up).nick \in Nicks BY <1>1, <1>2 DEF UpPackets
  <2>2. QED BY <1>1, <2>1, Distinct
<1>4. StateInv' BY <1>0, <1>1, <1>3 DEF StateInv
<1>5. PacketInv' BY <1>0, <1>1, <1>2 DEF PacketInv
<1>6. ServerInv' BY <1>0, <1>1 DEF ServerInv
<1>7. RoomInv' BY <1>0, <1>1, <1>2 DEF RoomInv, KnownRoom
<1>8. NameInv' BY <1>0, <1>1 DEF NameInv, KnownName
<1>9. SlotInv' BY <1>0, <1>1, <1>2, <1>3 DEF SlotInv
<1>10. CalmInv' BY <1>0, <1>1, <1>2 DEF CalmInv
<1>11. NothingMissed' /\ NothingAstray' BY <1>0, <1>1 DEF NothingMissed, NothingAstray
<1>12. QED BY <1>4, <1>5, <1>6, <1>7, <1>8, <1>9, <1>10, <1>11 DEF IInv

\* Any packet but NICKCHANGED names a slot without a name, and no other.
LEMMA IntroducedKeepsSlot ==
    ASSUME StateInv, PacketInv, SlotInv, up # <<>>, Head(up).kind \in {"IAMHERE", "NEWROOM", "chat"},
           up' = Tail(up), slotName' = Introduced, UNCHANGED <<chatterName, receiver>>
    PROVE  slotName' \in Nicks \cup {NoName} /\ slotName' # NoName /\ SlotInv'
<1>1. /\ Carries(up, {"NICKCHANGED"}) <=> Carries(up', {"NICKCHANGED"})
      /\ \A n : NickInQueue(up, n) => NickInQueue(up', n)
  BY UpTail
<1>2. CASE slotName = NoName
  <2>1. slotName' = Kept[FirstNick] /\ chatterName = FirstNick /\ ~Carries(up, {"NICKCHANGED"})
    BY <1>2 DEF Introduced, SlotInv
  <2>2. slotName' \in Nicks /\ slotName' # NoName BY <2>1, Distinct
  <2>3. NickInQueue(up', chatterName) BY <1>1, <2>1, NoNick
  <2>4. QED BY <1>1, <2>1, <2>2, <2>3 DEF SlotInv
<1>3. CASE slotName # NoName
  <2>1. slotName' = slotName BY <1>3 DEF Introduced
  <2>2. QED BY <1>1, <1>3, <2>1 DEF SlotInv, StateInv
<1>4. QED BY <1>2, <1>3

LEMMA SendFailsKeeps == ASSUME IInv, SendFails PROVE IInv'
<1>0. /\ StateInv /\ PacketInv /\ ServerInv /\ RoomInv /\ NameInv /\ SlotInv /\ CalmInv
      /\ NothingMissed /\ NothingAstray
  BY DEF IInv
<1>1. /\ ~link /\ up # <<>> /\ Head(up).kind \in {"IAMHERE", "NEWROOM", "chat"} /\ up' = Tail(up)
      /\ slotName' = Introduced
      /\ UNCHANGED <<gRoom, chatterName, user, receiver, link, gReconnect, fromHost, down, srvRoom, srvName,
                     overtaken, roomLost, nickLost, missed, stray>>
  BY DEF SendFails, Reads, client, server, history
<1>2. /\ up' \in Seq(UpPackets)
      /\ \A r : RoomsAre(up, "NEWROOM", r) => RoomsAre(up', "NEWROOM", r)
      /\ \A r : CalmInQueue(up, r) => CalmInQueue(up', r)
  BY <1>0, <1>1, UpTail
<1>3. slotName' \in Nicks \cup {NoName} /\ SlotInv' BY <1>0, <1>1, IntroducedKeepsSlot
<1>4. srvName = NoName /\ srvRoom = NoRoom BY <1>0, <1>1 DEF ServerInv
<1>5. StateInv' BY <1>0, <1>1, <1>3 DEF StateInv
<1>6. PacketInv' BY <1>0, <1>1, <1>2 DEF PacketInv
<1>7. ServerInv' BY <1>0, <1>1 DEF ServerInv
<1>8. RoomInv' BY <1>1, <1>4 DEF RoomInv, KnownRoom
<1>9. NameInv' BY <1>0, <1>1 DEF NameInv, KnownName
<1>10. CalmInv' BY <1>0, <1>1, <1>2 DEF CalmInv
<1>11. NothingMissed' /\ NothingAstray' BY <1>0, <1>1 DEF NothingMissed, NothingAstray
<1>12. QED BY <1>3, <1>5, <1>6, <1>7, <1>8, <1>9, <1>10, <1>11 DEF IInv

\* A user who was registered as he calls himself has nothing else under way
\* to him; one who was renamed has USERNICK.
LEMMA ServerIamHereKeeps == ASSUME IInv, ServerIamHere PROVE IInv'
<1>0. /\ StateInv /\ PacketInv /\ ServerInv /\ RoomInv /\ NameInv /\ SlotInv /\ CalmInv
      /\ NothingMissed /\ NothingAstray
  BY DEF IInv
<1>1. /\ link /\ up # <<>> /\ Head(up).kind = "IAMHERE" /\ up' = Tail(up) /\ slotName' = Introduced
      /\ UNCHANGED <<gRoom, chatterName, user, receiver, link, gReconnect, down, srvRoom,
                     overtaken, roomLost, missed, stray>>
  BY DEF ServerIamHere, Reads, client
<1>2. /\ up' \in Seq(UpPackets) /\ Head(up) \in UpPackets
      /\ Carries(up, {"NEWROOM"}) <=> Carries(up', {"NEWROOM"})
      /\ \A r : RoomsAre(up, "NEWROOM", r) => RoomsAre(up', "NEWROOM", r)
      /\ \A r : CalmInQueue(up, r) => CalmInQueue(up', r)
  BY <1>0, <1>1, UpTail
<1>3. slotName' \in Nicks \cup {NoName} /\ SlotInv' BY <1>0, <1>1, IntroducedKeepsSlot
<1>4. Head(up).name \in Nicks BY <1>1, <1>2 DEF UpPackets
<1>5. NothingMissed' /\ NothingAstray' BY <1>0, <1>1 DEF NothingMissed, NothingAstray
<1>6. CASE srvName = NoName /\ srvName' = Head(up).name /\ nickLost' = Outdated(Head(up).name) /\ fromHost' = fromHost
  <2>1. Outdated(Head(up).name) \in BOOLEAN BY DEF Outdated
  <2>2. StateInv' BY <1>0, <1>1, <1>3, <1>4, <1>6, <2>1 DEF StateInv
  <2>3. PacketInv' BY <1>0, <1>1, <1>2, <1>6 DEF PacketInv
  <2>4. ServerInv' BY <1>0, <1>1, <1>4, <1>6, Distinct DEF ServerInv
  <2>5. RoomInv' BY <1>0, <1>1, <1>2, <1>6 DEF RoomInv, KnownRoom
  <2>6. NameInv'
    <3>1. fromHost = <<>> BY <1>0, <1>6 DEF ServerInv
    <3>2. NameInQueue(fromHost', {"USERROOM", "direct"}, srvName')
      BY <1>0, <1>6, <3>1, NameQueue DEF PacketInv
    <3>3. ASSUME ~Outdated(Head(up).name)
          PROVE  chatterName = Head(up).name /\ NameInQueue(down, {"direct"}, Head(up).name)
      BY <3>3 DEF Outdated, NameInQueue
    <3>4. QED BY <1>1, <1>6, <3>2, <3>3 DEF NameInv, KnownName
  <2>7. CalmInv' BY <1>0, <1>1, <1>2, <1>6 DEF CalmInv
  <2>8. QED BY <1>3, <1>5, <2>2, <2>3, <2>4, <2>5, <2>6, <2>7 DEF IInv
<1>7. CASE /\ srvName = NoName /\ srvName' \in Nicks \ {Head(up).name} /\ nickLost' = nickLost
           /\ fromHost' = Append(fromHost, UserNick(Head(up).name, srvName'))
  <2> DEFINE n == srvName'
  <2>1. n \in Nicks /\ n # NoName BY <1>7, Distinct
  <2>2. PICK x : x = UserNick(Head(up).name, n) OBVIOUS
  <2>3. x \in HostPackets /\ x.kind = "USERNICK" /\ x.nick = n BY <1>4, <2>1, <2>2, MadeUserNick
  <2>4. fromHost' = Append(fromHost, x) BY <1>7, <2>2
  <2>5. /\ fromHost' \in Seq(HostPackets) /\ Carries(fromHost', {"USERNICK"})
        /\ Carries(fromHost', {"USERROOM"}) <=> Carries(fromHost, {"USERROOM"})
        /\ NameInQueue(fromHost', {"USERROOM", "direct"}, n)
        /\ \A r : RoomsAre(fromHost, "USERROOM", r) => RoomsAre(fromHost', "USERROOM", r)
    BY <1>0, <2>3, <2>4, HostAppend
  <2>6. srvRoom = NoRoom BY <1>0, <1>7 DEF ServerInv
  <2>7. StateInv' BY <1>0, <1>1, <1>3, <1>7, <2>1 DEF StateInv
  <2>8. PacketInv' BY <1>0, <1>1, <1>2, <2>5 DEF PacketInv
  <2>9. ServerInv' BY <1>0, <1>1, <2>1, <2>5 DEF ServerInv
  <2>10. RoomInv' BY <1>1, <2>6 DEF RoomInv, KnownRoom
  <2>11. NameInv' BY <1>1, <2>5 DEF NameInv, KnownName
  <2>12. CalmInv' BY <1>0, <1>1, <1>2, <2>5 DEF CalmInv
  <2>13. QED BY <1>3, <1>5, <2>7, <2>8, <2>9, <2>10, <2>11, <2>12 DEF IInv
<1>8. CASE srvName # NoName /\ UNCHANGED <<srvName, fromHost, left, nickLost>>
  <2>1. StateInv' BY <1>0, <1>1, <1>3, <1>8 DEF StateInv
  <2>2. PacketInv' BY <1>0, <1>1, <1>2, <1>8 DEF PacketInv
  <2>3. ServerInv' BY <1>0, <1>1, <1>8 DEF ServerInv
  <2>4. RoomInv' BY <1>0, <1>1, <1>2, <1>8 DEF RoomInv, KnownRoom
  <2>5. NameInv' BY <1>0, <1>1, <1>8 DEF NameInv, KnownName
  <2>6. CalmInv' BY <1>0, <1>1, <1>2, <1>8 DEF CalmInv
  <2>7. QED BY <1>3, <1>5, <2>1, <2>2, <2>3, <2>4, <2>5, <2>6 DEF IInv
<1>9. QED BY <1>6, <1>7, <1>8 DEF ServerIamHere

LEMMA ServerNewRoomKeeps == ASSUME IInv, ServerNewRoom PROVE IInv'
<1>0. /\ StateInv /\ PacketInv /\ ServerInv /\ RoomInv /\ NameInv /\ SlotInv /\ CalmInv
      /\ NothingMissed /\ NothingAstray
  BY DEF IInv
<1>1. /\ link /\ up # <<>> /\ Head(up).kind = "NEWROOM" /\ up' = Tail(up) /\ slotName' = Introduced
      /\ UNCHANGED <<gRoom, chatterName, user, receiver, link, gReconnect, down, srvName,
                     overtaken, roomLost, nickLost, missed, stray>>
  BY DEF ServerNewRoom, Reads, client, history
<1>2. /\ up' \in Seq(UpPackets) /\ Head(up) \in UpPackets
      /\ \A r : RoomsAre(up, "NEWROOM", r) => RoomsAre(up', "NEWROOM", r) /\ Head(up).room = r
      /\ \A r : CalmInQueue(up, r) => CalmInQueue(up', r) /\ CalmInQueue(up', Head(up).room)
  BY <1>0, <1>1, UpTail
<1>3. slotName' \in Nicks \cup {NoName} /\ SlotInv' BY <1>0, <1>1, IntroducedKeepsSlot
<1>4. Head(up).room \in Rooms BY <1>1, <1>2 DEF UpPackets
<1>5. NothingMissed' /\ NothingAstray' BY <1>0, <1>1 DEF NothingMissed, NothingAstray
<1>6. CASE srvName # NoName /\ srvRoom' = Head(up).room /\ fromHost' = Append(fromHost, UserRoom(srvRoom'))
  <2>1. srvRoom' \in Rooms /\ srvRoom' # NoRoom /\ srvName \in Nicks BY <1>0, <1>4, <1>6, Distinct DEF StateInv
  <2>2. PICK x : x = UserRoom(Head(up).room) OBVIOUS
  <2>3. x \in HostPackets /\ x.kind = "USERROOM" /\ x.room = Head(up).room /\ x.name = srvName
    BY <1>4, <2>1, <2>2, MadeUserRoom
  <2>4. fromHost' = Append(fromHost, x) BY <1>6, <2>2 DEF UserRoom
  <2>5. /\ fromHost' \in Seq(HostPackets) /\ Carries(fromHost', {"USERROOM"})
        /\ Carries(fromHost', {"USERNICK"}) <=> Carries(fromHost, {"USERNICK"})
        /\ RoomInQueue(fromHost', Head(up).room)
        /\ \A n : NameInQueue(fromHost, {"USERROOM", "direct"}, n) /\ srvName = n
                  => NameInQueue(fromHost', {"USERROOM", "direct"}, n)
        /\ \A r : RoomsAre(fromHost, "USERROOM", r) /\ Head(up).room = r => RoomsAre(fromHost', "USERROOM", r)
    BY <1>0, <2>3, <2>4, HostAppend
  <2>6. StateInv' BY <1>0, <1>1, <1>3, <2>1 DEF StateInv
  <2>7. PacketInv' BY <1>0, <1>1, <1>2, <2>5 DEF PacketInv
  <2>8. ServerInv' BY <1>0, <1>1, <1>6, <2>1 DEF ServerInv
  <2>9. RoomInv' BY <1>6, <2>5 DEF RoomInv, KnownRoom
  <2>10. NameInv' BY <1>0, <1>1, <2>5 DEF NameInv, KnownName
  <2>11. CalmInv' BY <1>0, <1>1, <1>2, <1>6, <2>5 DEF CalmInv
  <2>12. QED BY <1>3, <1>5, <2>6, <2>7, <2>8, <2>9, <2>10, <2>11 DEF IInv
<1>7. CASE srvName = NoName /\ UNCHANGED <<srvRoom, fromHost>>
  <2>1. srvRoom = NoRoom BY <1>0, <1>7 DEF ServerInv
  <2>2. StateInv' BY <1>0, <1>1, <1>3, <1>7 DEF StateInv
  <2>3. PacketInv' BY <1>0, <1>1, <1>2, <1>7 DEF PacketInv
  <2>4. ServerInv' BY <1>0, <1>1, <1>7 DEF ServerInv
  <2>5. RoomInv' BY <1>7, <2>1 DEF RoomInv, KnownRoom
  <2>6. NameInv' BY <1>0, <1>1, <1>7 DEF NameInv, KnownName
  <2>7. CalmInv' BY <1>0, <1>1, <1>2, <1>7 DEF CalmInv
  <2>8. QED BY <1>3, <1>5, <2>2, <2>3, <2>4, <2>5, <2>6, <2>7 DEF IInv
<1>8. QED BY <1>6, <1>7 DEF ServerNewRoom

\* What was said calmly comes to the room the user is in.
LEMMA ServerLineKeeps == ASSUME IInv, ServerLine PROVE IInv'
<1>0. /\ StateInv /\ PacketInv /\ ServerInv /\ RoomInv /\ NameInv /\ SlotInv /\ CalmInv
      /\ NothingMissed /\ NothingAstray
  BY DEF IInv
<1>1. /\ up # <<>> /\ Head(up).kind = "chat" /\ up' = Tail(up) /\ slotName' = Introduced
      /\ stray' = (stray \/ (Head(up).calm /\ srvRoom \notin {NoRoom, Head(up).room}))
      /\ UNCHANGED <<gRoom, chatterName, user, receiver, link, gReconnect, fromHost, down, srvRoom, srvName,
                     overtaken, roomLost, nickLost, missed>>
  BY DEF ServerLine, Reads, client, server
<1>2. /\ up' \in Seq(UpPackets)
      /\ Carries(up, {"NEWROOM"}) <=> Carries(up', {"NEWROOM"})
      /\ \A r : RoomsAre(up, "NEWROOM", r) => RoomsAre(up', "NEWROOM", r)
      /\ \A r : CalmInQueue(up, r) => CalmInQueue(up', r) /\ (Head(up).calm => r \in {NoRoom, Head(up).room})
  BY <1>0, <1>1, UpTail
<1>3. slotName' \in Nicks \cup {NoName} /\ SlotInv' BY <1>0, <1>1, IntroducedKeepsSlot
<1>4. StateInv' BY <1>0, <1>1, <1>3 DEF StateInv
<1>5. PacketInv' BY <1>0, <1>1, <1>2 DEF PacketInv
<1>6. ServerInv' BY <1>0, <1>1 DEF ServerInv
<1>7. RoomInv' BY <1>0, <1>1, <1>2 DEF RoomInv, KnownRoom
<1>8. NameInv' BY <1>0, <1>1 DEF NameInv, KnownName
<1>9. CalmInv' BY <1>0, <1>1, <1>2 DEF CalmInv
<1>10. NothingMissed' BY <1>0, <1>1 DEF NothingMissed
<1>11. NothingAstray' BY <1>0, <1>1, <1>2 DEF NothingAstray, CalmInv
<1>12. QED BY <1>3, <1>4, <1>5, <1>6, <1>7, <1>8, <1>9, <1>10, <1>11 DEF IInv

-----------------------------------------------------------------------------
(* What the server does of its own accord.                                 *)

\* The queue with all calm taken from it.
LEMMA CalmTaken ==
    ASSUME PacketInv, up' = [i \in DOMAIN up |-> [up[i] EXCEPT !.calm = FALSE]]
    PROVE  /\ up' \in Seq(UpPackets) /\ (up # <<>> => up' # <<>>)
           /\ up # <<>> => Head(up').kind = Head(up).kind /\ Head(up').name = Head(up).name
           /\ \A K : Carries(up', K) <=> Carries(up, K)
           /\ \A n : NickInQueue(up, n) => NickInQueue(up', n)
           /\ \A r : CalmInQueue(up', r)
<1>0. up \in Seq(UpPackets) /\ DOMAIN up = 1..Len(up) /\ Len(up) \in Nat BY DEF PacketInv
<1>1. \A i \in DOMAIN up : /\ up'[i] \in UpPackets /\ up'[i].kind = up[i].kind /\ up'[i].name = up[i].name
                           /\ up'[i].nick = up[i].nick /\ up'[i].calm = FALSE
  <2> SUFFICES ASSUME NEW i \in DOMAIN up
               PROVE  /\ up'[i] \in UpPackets /\ up'[i].kind = up[i].kind /\ up'[i].name = up[i].name
                      /\ up'[i].nick = up[i].nick /\ up'[i].calm = FALSE
    OBVIOUS
  <2> DEFINE p == up[i]
             x == [p EXCEPT !.calm = FALSE]
  <2>1. p \in UpPackets BY <1>0
  <2>2. up'[i] = x OBVIOUS
  <2> HIDE DEF p
  <2>3. x \in Packets /\ x.kind = p.kind /\ x.room = p.room /\ x.name = p.name /\ x.nick = p.nick /\ x.calm = FALSE
    BY <2>1 DEF UpPackets, Packets
  <2> HIDE DEF x
  <2>4. x \in UpPackets BY <2>1, <2>3 DEF UpPackets
  <2>5. QED BY <2>2, <2>3, <2>4 DEF p
<1>2. DOMAIN up' = DOMAIN up OBVIOUS
<1>3. up' \in Seq(UpPackets) /\ Len(up') = Len(up)
  <2>1. up' \in [1..Len(up) -> UpPackets] BY <1>0, <1>1
  <2>2. up' \in Seq(UpPackets) BY <1>0, <2>1
  <2>3. Len(up') = Len(up) BY <1>0, <1>2, <2>2
  <2>4. QED BY <2>2, <2>3
<1>4. ASSUME up # <<>>
      PROVE  up' # <<>> /\ Head(up').kind = Head(up).kind /\ Head(up').name = Head(up).name
  <2>1. Len(up) # 0 BY <1>0, <1>4
  <2>2. 1 \in DOMAIN up /\ Head(up) = up[1] BY <1>0, <2>1
  <2>3. up' # <<>> BY <1>3, <2>1
  <2>4. Head(up') = up'[1] BY <1>3, <2>3
  <2>5. QED BY <1>1, <2>2, <2>3, <2>4
<1>5. \A K : Carries(up', K) <=> Carries(up, K) BY <1>1, <1>2 DEF Carries
<1>6. \A n : NickInQueue(up, n) => NickInQueue(up', n) BY <1>1, <1>2 DEF NickInQueue, Last
<1>7. \A r : CalmInQueue(up', r) BY <1>1, <1>2 DEF CalmInQueue
<1>8. QED BY <1>3, <1>4, <1>5, <1>6, <1>7

LEMMA ServerMovesKeeps == ASSUME IInv, NEW r \in Rooms, ServerMoves(r) PROVE IInv'
<1>0. /\ StateInv /\ PacketInv /\ ServerInv /\ RoomInv /\ NameInv /\ SlotInv /\ CalmInv
      /\ NothingMissed /\ NothingAstray
  BY DEF IInv
<1>1. /\ srvRoom # NoRoom /\ srvRoom' = r /\ fromHost' = Append(fromHost, UserRoom(r))
      /\ up' = [i \in DOMAIN up |-> [up[i] EXCEPT !.calm = FALSE]]
      /\ user' = [user EXCEPT !.calm = FALSE]
      /\ UNCHANGED <<gRoom, chatterName, receiver, slotName, link, gReconnect, down, srvName,
                     overtaken, roomLost, nickLost, missed, stray>>
  BY DEF ServerMoves, bridge, history
<1>2. srvName # NoName /\ srvName \in Nicks BY <1>0, <1>1 DEF ServerInv, StateInv
<1>3. PICK x : x = UserRoom(r) OBVIOUS
<1>4. x \in HostPackets /\ x.kind = "USERROOM" /\ x.room = r /\ x.name = srvName BY <1>2, <1>3, MadeUserRoom
<1>5. fromHost' = Append(fromHost, x) BY <1>1, <1>3
<1>6. /\ fromHost' \in Seq(HostPackets) /\ Carries(fromHost', {"USERROOM"})
      /\ Carries(fromHost', {"USERNICK"}) <=> Carries(fromHost, {"USERNICK"})
      /\ RoomInQueue(fromHost', r)
      /\ \A n : NameInQueue(fromHost, {"USERROOM", "direct"}, n) /\ srvName = n
                => NameInQueue(fromHost', {"USERROOM", "direct"}, n)
  BY <1>0, <1>4, <1>5, HostAppend
<1>7. /\ up' \in Seq(UpPackets) /\ (up # <<>> => up' # <<>>)
      /\ up # <<>> => Head(up').kind = Head(up).kind /\ Head(up').name = Head(up).name
      /\ Carries(up', {"NICKCHANGED"}) <=> Carries(up, {"NICKCHANGED"})
      /\ \A n : NickInQueue(up, n) => NickInQueue(up', n)
      /\ \A q : CalmInQueue(up', q)
  BY <1>0, <1>1, CalmTaken
<1>8. user' \in Users /\ user'.calm = FALSE /\ user'.at = user.at /\ user'.room = user.room
  BY <1>0, <1>1 DEF StateInv, Users
<1>9. StateInv' BY <1>0, <1>1, <1>8 DEF StateInv
<1>10. PacketInv' BY <1>0, <1>1, <1>6, <1>7 DEF PacketInv
<1>11. ServerInv' BY <1>0, <1>1, <1>2, Distinct DEF ServerInv
<1>12. RoomInv' BY <1>1, <1>6 DEF RoomInv, KnownRoom
<1>13. NameInv' BY <1>0, <1>1, <1>6 DEF NameInv, KnownName
<1>14. SlotInv' BY <1>0, <1>1, <1>7 DEF SlotInv
<1>15. CalmInv' BY <1>7, <1>8 DEF CalmInv
<1>16. NothingMissed' /\ NothingAstray' BY <1>0, <1>1 DEF NothingMissed, NothingAstray
<1>17. QED BY <1>9, <1>10, <1>11, <1>12, <1>13, <1>14, <1>15, <1>16 DEF IInv

LEMMA ServerRenamesKeeps == ASSUME IInv, NEW n \in Nicks, ServerRenames(n) PROVE IInv'
<1>0. /\ StateInv /\ PacketInv /\ ServerInv /\ RoomInv /\ NameInv /\ SlotInv /\ CalmInv
      /\ NothingMissed /\ NothingAstray
  BY DEF IInv
<1>1. /\ srvName # NoName /\ srvName' = n /\ fromHost' = Append(fromHost, UserNick(srvName, n))
      /\ UNCHANGED <<gRoom, chatterName, user, receiver, up, slotName, link, gReconnect, down, srvRoom,
                     overtaken, roomLost, nickLost, missed, stray>>
  BY DEF ServerRenames, client, bridge, history
<1>2. srvName \in Nicks /\ n # NoName BY <1>0, <1>1, Distinct DEF StateInv
<1>3. PICK x : x = UserNick(srvName, n) OBVIOUS
<1>4. x \in HostPackets /\ x.kind = "USERNICK" /\ x.nick = n BY <1>2, <1>3, MadeUserNick
<1>5. fromHost' = Append(fromHost, x) BY <1>1, <1>3
<1>6. /\ fromHost' \in Seq(HostPackets) /\ Carries(fromHost', {"USERNICK"})
      /\ Carries(fromHost', {"USERROOM"}) <=> Carries(fromHost, {"USERROOM"})
      /\ NameInQueue(fromHost', {"USERROOM", "direct"}, n)
      /\ \A r : RoomInQueue(fromHost, r) => RoomInQueue(fromHost', r)
      /\ \A r : RoomsAre(fromHost, "USERROOM", r) => RoomsAre(fromHost', "USERROOM", r)
  BY <1>0, <1>4, <1>5, HostAppend
<1>7. StateInv' BY <1>0, <1>1 DEF StateInv
<1>8. PacketInv' BY <1>0, <1>1, <1>6 DEF PacketInv
<1>9. ServerInv' BY <1>0, <1>1, <1>2, <1>6 DEF ServerInv
<1>10. RoomInv' BY <1>0, <1>1, <1>6 DEF RoomInv, KnownRoom
<1>11. NameInv' BY <1>1, <1>6 DEF NameInv, KnownName
<1>12. SlotInv' BY <1>0, <1>1 DEF SlotInv
<1>13. CalmInv' BY <1>0, <1>1, <1>6 DEF CalmInv
<1>14. NothingMissed' /\ NothingAstray' BY <1>0, <1>1 DEF NothingMissed, NothingAstray
<1>15. QED BY <1>7, <1>8, <1>9, <1>10, <1>11, <1>12, <1>13, <1>14 DEF IInv

LEMMA ServerRelaysKeeps == ASSUME IInv, ServerRelays PROVE IInv'
<1>0. /\ StateInv /\ PacketInv /\ ServerInv /\ RoomInv /\ NameInv /\ SlotInv /\ CalmInv
      /\ NothingMissed /\ NothingAstray
  BY DEF IInv
<1>1. /\ srvRoom # NoRoom
      /\ UNCHANGED <<gRoom, chatterName, user, receiver, up, slotName, link, gReconnect, down, srvRoom, srvName,
                     overtaken, roomLost, nickLost, missed, stray>>
  BY DEF ServerRelays, client, bridge, server, history
<1>2. srvName \in Nicks /\ srvName # NoName /\ srvRoom \in Rooms BY <1>0, <1>1 DEF StateInv, ServerInv
<1>3. PICK x : /\ fromHost' = Append(fromHost, x)
               /\ (x = Packet("chat", srvRoom, NoName)) \/ (x = Packet("direct", NoRoom, srvName))
  BY DEF ServerRelays
<1>4. /\ x \in HostPackets
      /\ (x.kind = "chat" /\ x.room = srvRoom) \/ (x.kind = "direct" /\ x.name = srvName)
  <2>1. CASE x = Packet("chat", srvRoom, NoName) BY <1>2, <2>1, MadeChat
  <2>2. CASE x = Packet("direct", NoRoom, srvName) BY <1>2, <2>2, MadeDirect
  <2>3. QED BY <1>3, <2>1, <2>2
<1>5. /\ fromHost' \in Seq(HostPackets)
      /\ Carries(fromHost', {"USERNICK"}) <=> Carries(fromHost, {"USERNICK"})
      /\ Carries(fromHost', {"USERROOM"}) <=> Carries(fromHost, {"USERROOM"})
      /\ \A n : NameInQueue(fromHost, {"USERROOM", "direct"}, n) /\ srvName = n
                => NameInQueue(fromHost', {"USERROOM", "direct"}, n)
      /\ \A r : RoomInQueue(fromHost, r) /\ srvRoom = r => RoomInQueue(fromHost', r)
      /\ \A r : RoomsAre(fromHost, "USERROOM", r) => RoomsAre(fromHost', "USERROOM", r)
  BY <1>0, <1>3, <1>4, HostAppend
<1>6. StateInv' BY <1>0, <1>1 DEF StateInv
<1>7. PacketInv' BY <1>0, <1>1, <1>5 DEF PacketInv
<1>8. ServerInv' BY <1>0, <1>1, <1>2 DEF ServerInv
<1>9. RoomInv' BY <1>0, <1>1, <1>5 DEF RoomInv, KnownRoom
<1>10. NameInv' BY <1>0, <1>1, <1>5 DEF NameInv, KnownName
<1>11. SlotInv' BY <1>0, <1>1 DEF SlotInv
<1>12. CalmInv' BY <1>0, <1>1, <1>5 DEF CalmInv
<1>13. NothingMissed' /\ NothingAstray' BY <1>0, <1>1 DEF NothingMissed, NothingAstray
<1>14. QED BY <1>6, <1>7, <1>8, <1>9, <1>10, <1>11, <1>12, <1>13 DEF IInv

-----------------------------------------------------------------------------
(* The bridge, downwards, and its connection.                              *)

\* A packet that is not delivered is one of a name under change, one that
\* does not fit, or the last word, which is lost then.
LEMMA RouteKeeps == ASSUME IInv, Route PROVE IInv'
<1> DEFINE pkt == Head(fromHost)
<1>0. /\ StateInv /\ PacketInv /\ ServerInv /\ RoomInv /\ NameInv /\ SlotInv /\ CalmInv
      /\ NothingMissed /\ NothingAstray
  BY DEF IInv
<1>1. /\ fromHost # <<>> /\ fromHost' = Tail(fromHost)
      /\ UNCHANGED <<gRoom, chatterName, user, receiver, up, slotName, link, gReconnect, srvRoom, srvName,
                     overtaken, stray>>
  BY DEF Route, client, bridge, server
<1>2. /\ fromHost' \in Seq(HostPackets) /\ pkt \in HostPackets
      /\ Carries(fromHost, {"USERROOM"}) <=> pkt.kind = "USERROOM" \/ Carries(fromHost', {"USERROOM"})
      /\ Carries(fromHost, {"USERNICK"}) <=> pkt.kind = "USERNICK" \/ Carries(fromHost', {"USERNICK"})
      /\ \A r : RoomInQueue(fromHost, r) =>
             /\ RoomInQueue(fromHost', r)
             /\ pkt.kind \in {"USERROOM", "chat"} /\ ~Carries(fromHost', {"USERROOM"}) => pkt.room = r
      /\ \A n : NameInQueue(fromHost, {"USERROOM", "direct"}, n) =>
             /\ NameInQueue(fromHost', {"USERROOM", "direct"}, n)
             /\ ~Carries(fromHost', {"USERNICK"}) =>
                    /\ pkt.kind = "USERNICK" => pkt.nick = n
                    /\ pkt.kind \in {"USERROOM", "direct"} => pkt.name = n
      /\ \A r : RoomsAre(fromHost, "USERROOM", r) =>
             RoomsAre(fromHost', "USERROOM", r) /\ (pkt.kind = "USERROOM" => pkt.room = r)
  BY <1>0, <1>1, HostTail
<1>3. srvName # NoName /\ slotName # NoName BY <1>0, <1>1 DEF ServerInv, SlotInv
<1>4. pkt \in DownPackets BY <1>2 DEF HostPackets
<1>5. ServerInv'
  <2>1. srvRoom = NoRoom => ~Carries(fromHost', {"USERROOM"}) BY <1>0, <1>2 DEF ServerInv
  <2>2. QED BY <1>0, <1>1, <1>3, <2>1 DEF ServerInv
<1>6. NothingAstray' BY <1>0, <1>1 DEF NothingAstray
<1>7. CASE /\ pkt.name \in {slotName, NoName} /\ down' = Append(down, pkt)
           /\ roomLost' = (roomLost /\ pkt.kind # "USERROOM") /\ nickLost' = (nickLost /\ pkt.kind # "USERNICK")
           /\ missed' = missed
  <2> HIDE DEF pkt
  <2>1. /\ down' \in Seq(DownPackets)
        /\ Carries(down', {"USERROOM"}) <=> Carries(down, {"USERROOM"}) \/ pkt.kind = "USERROOM"
        /\ Carries(down', {"USERNICK"}) <=> Carries(down, {"USERNICK"}) \/ pkt.kind = "USERNICK"
        /\ pkt.kind = "USERROOM" => RoomInQueue(down', pkt.room)
        /\ \A r : RoomInQueue(down, r) /\ (pkt.kind \in {"USERROOM", "chat"} => pkt.room = r) => RoomInQueue(down', r)
        /\ pkt.kind = "USERNICK" => NameInQueue(down', {"direct"}, pkt.nick)
        /\ \A n : /\ NameInQueue(down, {"direct"}, n)
                  /\ pkt.kind = "USERNICK" => pkt.nick = n
                  /\ pkt.kind = "direct" => pkt.name = n
                  => NameInQueue(down', {"direct"}, n)
        /\ \A r : RoomsAre(down, "USERROOM", r) /\ (pkt.kind = "USERROOM" => pkt.room = r) => RoomsAre(down', "USERROOM", r)
    BY <1>0, <1>4, <1>7, DownAppend
  <2>2. StateInv' BY <1>0, <1>1, <1>7 DEF StateInv
  <2>3. PacketInv' BY <1>0, <1>1, <1>2, <2>1 DEF PacketInv
  <2>4. RoomInv'
    <3>1. CASE pkt.kind = "USERROOM" BY <1>0, <1>1, <1>2, <2>1, <3>1 DEF RoomInv, KnownRoom
    <3>2. CASE pkt.kind # "USERROOM"
      <4>1. KnownRoom' => KnownRoom BY <1>1, <1>2, <1>7, <3>2 DEF KnownRoom
      <4>2. srvRoom' # NoRoom => RoomInQueue(fromHost', srvRoom') BY <1>0, <1>1, <1>2 DEF RoomInv
      <4>3. KnownRoom' => RoomInQueue(down', srvRoom')
        BY <1>0, <1>1, <1>2, <2>1, <3>2, <4>1 DEF RoomInv, KnownRoom
      <4>4. QED BY <1>0, <1>1, <2>1, <3>2, <4>1, <4>2, <4>3 DEF RoomInv
    <3>3. QED BY <3>1, <3>2
  <2>5. NameInv'
    <3>1. CASE pkt.kind = "USERNICK" BY <1>0, <1>1, <1>2, <2>1, <3>1 DEF NameInv, KnownName
    <3>2. CASE pkt.kind # "USERNICK"
      <4>1. KnownName' => KnownName BY <1>1, <1>2, <1>7, <3>2 DEF KnownName
      <4>2. NameInQueue(fromHost', {"USERROOM", "direct"}, srvName') BY <1>0, <1>1, <1>2 DEF NameInv
      <4>3. KnownName' => NameInQueue(down', {"direct"}, srvName')
        BY <1>0, <1>1, <1>2, <2>1, <3>2, <4>1 DEF NameInv, KnownName
      <4>4. QED BY <1>0, <1>1, <2>1, <3>2, <4>1, <4>2, <4>3 DEF NameInv
    <3>3. QED BY <3>1, <3>2
  <2>6. SlotInv' BY <1>0, <1>1, <1>3 DEF SlotInv
  <2>7. CalmInv' BY <1>0, <1>1, <1>2, <2>1 DEF CalmInv
  <2>8. NothingMissed' BY <1>0, <1>7 DEF NothingMissed
  <2>9. QED BY <1>5, <1>6, <2>2, <2>3, <2>4, <2>5, <2>6, <2>7, <2>8 DEF IInv
<1>8. CASE /\ pkt.name \notin {slotName, NoName} /\ down' = down
           /\ roomLost' = (roomLost \/ pkt.kind = "USERROOM") /\ nickLost' = (nickLost \/ pkt.kind = "USERNICK")
           /\ missed' = (missed \/ (NameSettled /\ ~nickLost /\ Kept[pkt.name] = pkt.name))
  <2>1. ~(NameSettled /\ ~nickLost /\ Kept[pkt.name] = pkt.name)
    <3> SUFFICES ASSUME NameSettled, ~nickLost, Kept[pkt.name] = pkt.name PROVE FALSE OBVIOUS
    <3>1. slotName = Kept[srvName] BY <1>3, NamesSame DEF NamesAgree
    <3>2. ~Carries(fromHost, {"USERNICK"}) BY DEF NameSettled
    <3>3. pkt.kind \in {"USERROOM", "direct"} => pkt.name = srvName BY <1>0, <1>2, <3>2 DEF NameInv
    <3>4. pkt.kind \in {"USERROOM", "direct", "chat"} BY <1>2, <3>2 DEF HostPackets, DownPackets
    <3>5. pkt.kind = "chat" => pkt.name = NoName BY <1>2 DEF HostPackets
    <3>6. QED BY <1>8, <3>1, <3>3, <3>4, <3>5
  <2>2. missed' = FALSE BY <1>0, <1>8, <2>1 DEF NothingMissed
  <2> HIDE DEF pkt
  <2>3. StateInv' BY <1>0, <1>1, <1>8 DEF StateInv
  <2>4. PacketInv' BY <1>0, <1>1, <1>2, <1>8 DEF PacketInv
  <2>5. RoomInv' BY <1>0, <1>1, <1>2, <1>8 DEF RoomInv, KnownRoom
  <2>6. NameInv' BY <1>0, <1>1, <1>2, <1>8 DEF NameInv, KnownName
  <2>7. SlotInv' BY <1>0, <1>1, <1>3 DEF SlotInv
  <2>8. CalmInv' BY <1>0, <1>1, <1>2, <1>8 DEF CalmInv
  <2>9. NothingMissed' BY <1>0, <2>2 DEF NothingMissed
  <2>10. QED BY <1>5, <1>6, <2>3, <2>4, <2>5, <2>6, <2>7, <2>8, <2>9 DEF IInv
<1>9. QED BY <1>7, <1>8 DEF Route

LEMMA DropKeeps == ASSUME IInv, Drop PROVE IInv'
<1>0. /\ StateInv /\ PacketInv /\ ServerInv /\ RoomInv /\ NameInv /\ SlotInv /\ CalmInv
      /\ NothingMissed /\ NothingAstray
  BY DEF IInv
<1>1. /\ link' = FALSE /\ gReconnect' \in {TRUE, gReconnect} /\ fromHost' = <<>>
      /\ srvRoom' = NoRoom /\ srvName' = NoName /\ nickLost' = FALSE
      /\ UNCHANGED <<gRoom, chatterName, user, receiver, up, slotName, down, overtaken, roomLost, missed, stray>>
  BY DEF Drop, client
<1>2. /\ fromHost' \in Seq(HostPackets) /\ ~Carries(fromHost', {"USERROOM"})
      /\ NameInQueue(fromHost', {"USERROOM", "direct"}, NoName)
      /\ \A r : RoomsAre(fromHost', "USERROOM", r)
  <2>1. <<>> \in Seq(HostPackets) OBVIOUS
  <2>2. QED BY <1>1, <2>1, CarriesQueue, NameQueue, RoomsQueue
<1>3. CalmInQueue(up, NoRoom) BY <1>0, CalmQueue DEF PacketInv, CalmInv
<1>4. StateInv'
  <2>1. gReconnect' \in BOOLEAN /\ link' \in BOOLEAN /\ nickLost' \in BOOLEAN BY <1>0, <1>1 DEF StateInv
  <2>2. QED BY <1>0, <1>1, <2>1 DEF StateInv
<1>5. PacketInv' BY <1>0, <1>1, <1>2 DEF PacketInv
<1>6. ServerInv' BY <1>1, <1>2 DEF ServerInv
<1>7. RoomInv' BY <1>1 DEF RoomInv, KnownRoom
<1>8. NameInv' BY <1>1, <1>2 DEF NameInv, KnownName
<1>9. SlotInv' BY <1>0, <1>1 DEF SlotInv
<1>10. CalmInv' BY <1>0, <1>1, <1>2, <1>3 DEF CalmInv
<1>11. NothingMissed' /\ NothingAstray' BY <1>0, <1>1 DEF NothingMissed, NothingAstray
<1>12. QED BY <1>4, <1>5, <1>6, <1>7, <1>8, <1>9, <1>10, <1>11 DEF IInv

LEMMA ReconnectsKeeps == ASSUME IInv, Reconnects PROVE IInv'
<1>0. /\ StateInv /\ PacketInv /\ ServerInv /\ RoomInv /\ NameInv /\ SlotInv /\ CalmInv
      /\ NothingMissed /\ NothingAstray
  BY DEF IInv
<1>1. /\ link' = TRUE
      /\ UNCHANGED <<gRoom, chatterName, user, receiver, up, slotName, gReconnect, fromHost, down, srvRoom, srvName,
                     overtaken, roomLost, nickLost, missed, stray>>
  BY DEF Reconnects, client, server, history
<1>2. StateInv' /\ PacketInv' BY <1>0, <1>1 DEF StateInv, PacketInv
<1>3. ServerInv' BY <1>0, <1>1 DEF ServerInv
<1>4. RoomInv' /\ NameInv' BY <1>0, <1>1 DEF RoomInv, KnownRoom, NameInv, KnownName
<1>5. SlotInv' /\ CalmInv' BY <1>0, <1>1 DEF SlotInv, CalmInv
<1>6. NothingMissed' /\ NothingAstray' BY <1>0, <1>1 DEF NothingMissed, NothingAstray
<1>7. QED BY <1>2, <1>3, <1>4, <1>5, <1>6 DEF IInv

LEMMA HelloKeeps == ASSUME IInv, Hello PROVE IInv'
<1>0. /\ StateInv /\ PacketInv /\ ServerInv /\ RoomInv /\ NameInv /\ SlotInv /\ CalmInv
      /\ NothingMissed /\ NothingAstray
  BY DEF IInv
<1>1. PICK x : x = Packet("RECONNECT", NoRoom, NoName) OBVIOUS
<1>2. /\ down' = Append(down, x) /\ gReconnect' = FALSE
      /\ UNCHANGED <<gRoom, chatterName, user, receiver, up, slotName, link, fromHost, srvRoom, srvName,
                     overtaken, roomLost, nickLost, missed, stray>>
  BY <1>1 DEF Hello, client, server, history
<1>3. x \in DownPackets /\ x.kind = "RECONNECT" BY <1>1, MadeReconnect
<1>4. /\ down' \in Seq(DownPackets)
      /\ Carries(down', {"USERROOM"}) <=> Carries(down, {"USERROOM"})
      /\ Carries(down', {"USERNICK"}) <=> Carries(down, {"USERNICK"})
      /\ \A r : RoomInQueue(down, r) => RoomInQueue(down', r)
      /\ \A n : NameInQueue(down, {"direct"}, n) => NameInQueue(down', {"direct"}, n)
      /\ \A r : RoomsAre(down, "USERROOM", r) => RoomsAre(down', "USERROOM", r)
  BY <1>0, <1>2, <1>3, DownAppend
<1>5. StateInv' BY <1>0, <1>2 DEF StateInv
<1>6. PacketInv' BY <1>0, <1>2, <1>4 DEF PacketInv
<1>7. ServerInv' BY <1>0, <1>2 DEF ServerInv
<1>8. RoomInv' BY <1>0, <1>2, <1>4 DEF RoomInv, KnownRoom
<1>9. NameInv' BY <1>0, <1>2, <1>4 DEF NameInv, KnownName
<1>10. SlotInv' BY <1>0, <1>2, <1>4 DEF SlotInv
<1>11. CalmInv' BY <1>0, <1>2, <1>4 DEF CalmInv
<1>12. NothingMissed' /\ NothingAstray' BY <1>0, <1>2 DEF NothingMissed, NothingAstray
<1>13. QED BY <1>5, <1>6, <1>7, <1>8, <1>9, <1>10, <1>11, <1>12 DEF IInv


LEMMA StutterKeeps == ASSUME IInv, UNCHANGED vars PROVE IInv'
<1>0. /\ StateInv /\ PacketInv /\ ServerInv /\ RoomInv /\ NameInv /\ SlotInv /\ CalmInv
      /\ NothingMissed /\ NothingAstray
  BY DEF IInv
<1>1. UNCHANGED <<gRoom, chatterName, user, receiver, up, slotName, link, gReconnect, fromHost, down,
                  srvRoom, srvName, overtaken, roomLost, nickLost, missed, stray>>
  BY DEF vars, client, bridge, server, history
<1>2. StateInv' /\ PacketInv' BY <1>0, <1>1 DEF StateInv, PacketInv
<1>3. ServerInv' BY <1>0, <1>1 DEF ServerInv
<1>4. RoomInv' /\ NameInv' BY <1>0, <1>1 DEF RoomInv, KnownRoom, NameInv, KnownName
<1>5. SlotInv' /\ CalmInv' BY <1>0, <1>1 DEF SlotInv, CalmInv
<1>6. NothingMissed' /\ NothingAstray' BY <1>0, <1>1 DEF NothingMissed, NothingAstray
<1>7. QED BY <1>2, <1>3, <1>4, <1>5, <1>6 DEF IInv

-----------------------------------------------------------------------------
(* The theorems.                                                           *)

LEMMA InitIInv == Init => IInv
<1> SUFFICES ASSUME Init PROVE IInv OBVIOUS
<1> DEFINE x == Packet("IAMHERE", DefaultRoom, FirstNick)
           y == Packet("NEWROOM", DefaultRoom, FirstNick)
<1>1. /\ gRoom = DefaultRoom /\ chatterName = FirstNick
      /\ user = Idle /\ receiver = [at |-> "recv"]
      /\ up = <<Packet("IAMHERE", DefaultRoom, FirstNick), Packet("NEWROOM", DefaultRoom, FirstNick)>>
      /\ slotName = NoName /\ link = TRUE /\ gReconnect = FALSE
      /\ fromHost = <<>> /\ down = <<>>
      /\ srvRoom = NoRoom /\ srvName = NoName
      /\ overtaken = FALSE /\ roomLost = FALSE /\ nickLost = FALSE
      /\ missed = FALSE /\ stray = FALSE
  BY DEF Init
<1>4. x \in UpPackets /\ x.kind = "IAMHERE" /\ x.name = FirstNick /\ x.calm = FALSE
  <2>1. DefaultRoom \in Rooms /\ FirstNick \in Nicks BY Distinct
  <2>2. QED BY <2>1, MadeIamHere
<1>5. y \in UpPackets /\ y.kind = "NEWROOM" /\ y.room = DefaultRoom /\ y.calm = FALSE
  <2>1. DefaultRoom \in Rooms /\ FirstNick \in Nicks BY Distinct
  <2>2. QED BY <2>1, MadeNewRoom
<1>6. up = <<x, y>> BY <1>1
<1> HIDE DEF x, y
<1>7. /\ up \in Seq(UpPackets) /\ up # <<>> /\ Head(up) = x
      /\ DOMAIN up = 1..2 /\ up[1] = x /\ up[2] = y
  BY <1>4, <1>5, <1>6
<1>8. user \in Users /\ user.at = "idle" /\ receiver \in Receivers /\ receiver.at = "recv"
  BY <1>1 DEF Idle, Users, Receivers
<1>9. StateInv BY <1>1, <1>8, Distinct DEF StateInv
<1>10. PacketInv
  <2>1. fromHost \in Seq(HostPackets) BY <1>1
  <2>2. down \in Seq(DownPackets) BY <1>1
  <2>3. QED BY <1>7, <2>1, <2>2 DEF PacketInv
<1>11. DOMAIN fromHost = {} /\ DOMAIN down = {} BY <1>1
<1>12. ServerInv BY <1>1, <1>11 DEF ServerInv, Carries
<1>13. RoomInv BY <1>1, <1>11 DEF RoomInv, RoomInQueue, KnownRoom
<1>14. NameInv BY <1>1, <1>11 DEF NameInv, NameInQueue, KnownName
<1>15. SlotInv
  <2>1. ~Carries(up, {"NICKCHANGED"}) BY <1>4, <1>5, <1>7 DEF Carries
  <2>2. ~Carries(down, {"USERNICK"}) BY <1>11 DEF Carries
  <2>3. QED BY <1>1, <1>4, <1>7, <1>8, <2>1, <2>2 DEF SlotInv
<1>16. CalmInv
  <2>1. CalmInQueue(up, srvRoom) BY <1>4, <1>5, <1>7 DEF CalmInQueue
  <2>2. QED BY <1>8, <2>1 DEF CalmInv
<1>17. NothingMissed /\ NothingAstray BY <1>1 DEF NothingMissed, NothingAstray
<1>18. QED BY <1>9, <1>10, <1>12, <1>13, <1>14, <1>15, <1>16, <1>17 DEF IInv

LEMMA NextIInv == ASSUME IInv, [Next]_vars PROVE IInv'
<1>1. CASE User
  <2>1. ASSUME NEW r \in Rooms, Join(r) PROVE IInv' BY <2>1, JoinKeeps
  <2>2. QED BY <1>1, <2>1, JoinedKeeps, SayKeeps, SayRestKeeps DEF User
<1>2. CASE Receiver
  BY <1>2, TakeUserRoomKeeps, TakeUserNickKeeps, TakeReconnectKeeps, AnnounceNickKeeps, RejoinKeeps,
     TakeLineKeeps DEF Receiver
<1>3. CASE Upwards
  BY <1>3, NickChangedKeeps, SendFailsKeeps, ServerIamHereKeeps, ServerNewRoomKeeps, ServerLineKeeps DEF Upwards
<1>4. CASE Server
  <2>1. ASSUME NEW r \in Rooms, ServerMoves(r) PROVE IInv' BY <2>1, ServerMovesKeeps
  <2>2. ASSUME NEW n \in Nicks, ServerRenames(n) PROVE IInv' BY <2>2, ServerRenamesKeeps
  <2>3. QED BY <1>4, <2>1, <2>2, ServerRelaysKeeps DEF Server
<1>5. CASE Route BY <1>5, RouteKeeps
<1>6. CASE Drop BY <1>6, DropKeeps
<1>7. CASE Reconnects BY <1>7, ReconnectsKeeps
<1>8. CASE Hello BY <1>8, HelloKeeps
<1>9. CASE UNCHANGED vars BY <1>9, StutterKeeps
<1>10. CASE StillHere BY <1>10, StillHereKeeps
<1>11. QED BY <1>1, <1>2, <1>3, <1>4, <1>5, <1>6, <1>7, <1>8, <1>9, <1>10 DEF Next

\* The invariant, from the start and over every step.
THEOREM InductiveInvariant == Spec => []IInv
<1>1. Init => IInv BY InitIInv
<1>2. IInv /\ [Next]_vars => IInv' BY NextIInv
<1>3. QED BY <1>1, <1>2, PTL DEF Spec

\* With nothing under way the client is in the room where the server has the
\* user, as far as its name fits gRoom, whatever joins, moves and reconnections crossed each other (USERROOM
\* of the client's processServerMessage, /join, and the bridge's routing).
THEOREM RoomsDoAgree == Spec => []RoomAgrees
<1>1. IInv => RoomAgrees BY RoomsSame DEF IInv
<1>2. QED BY <1>1, InductiveInvariant, PTL

\* With no change of name under way the client, the bridge's slot and the
\* server call the user the same (USERNICK, NICKCHANGED).
THEOREM NamesDoAgree == Spec => []NamesAgree
<1>1. IInv => NamesAgree BY NamesSame DEF IInv
<1>2. QED BY <1>1, InductiveInvariant, PTL

\* A line or an order that is for the user reaches him, except while his
\* room or name is changing (the client's filter and the bridge's routing).
THEOREM LinesAreShown == Spec => []NothingMissed
<1>1. IInv => NothingMissed BY DEF IInv
<1>2. QED BY <1>1, InductiveInvariant, PTL

\* What is said while the rooms agree arrives, with all its packets, in the
\* room the user is in (toRoom is read again for every packet).
THEOREM LinesStayInTheRoom == Spec => []NothingAstray
<1>1. IInv => NothingAstray BY DEF IInv
<1>2. QED BY <1>1, InductiveInvariant, PTL
-----------------------------------------------------------------------------
(* The types, with what may still happen.                                  *)

LeftInv == left \in [DOMAIN Budget -> Nat] /\ \A k \in DOMAIN Budget : left[k] <= Budget[k]

LEMMA BudgetBounds ==
  /\ DOMAIN Budget = {"join", "say", "move", "rename", "drop", "chat", "here", "all"}
  /\ Budget \in [DOMAIN Budget -> Nat]
<1> DEFINE K == {"join", "say", "move", "rename", "drop", "chat", "here", "all"}
<1>1. Budget \in [join : Nat, say : Nat, move : Nat, rename : Nat, drop : Nat, chat : Nat, here : Nat, all : Nat]
  BY SessionAssumption DEF Budget
<1>2. DOMAIN Budget = K BY DEF Budget
<1>3. \A k \in K : Budget[k] \in Nat BY <1>1
<1>4. Budget = [k \in K |-> Budget[k]] BY <1>2 DEF Budget
<1> HIDE DEF K
<1>5. Budget \in [K -> Nat] BY ONLY <1>3, <1>4
<1>6. QED BY <1>2, <1>5 DEF K

\* What happens takes from what may still happen.
LEMMA SpendKeeps ==
  ASSUME LeftInv, NEW kind \in DOMAIN Budget \ {"all"}, Spend(kind)
  PROVE  LeftInv'
<1> DEFINE K == DOMAIN Budget
<1>1. "all" \in K /\ kind \in K /\ kind # "all" /\ Budget \in [K -> Nat] BY BudgetBounds
<1>2. left \in [K -> Nat] /\ (\A k \in K : left[k] <= Budget[k]) /\ left["all"] > 0 /\ left[kind] > 0
      /\ left' = [left EXCEPT ![kind] = @ - 1, !["all"] = @ - 1]
  BY DEF LeftInv, Spend
<1>3. DOMAIN Budget' = K /\ Budget' = Budget BY DEF Budget
<1> HIDE DEF K
<1>4. \A k \in K : left'[k] = IF k \in {kind, "all"} THEN left[k] - 1 ELSE left[k] BY ONLY <1>1, <1>2
<1>5. \A k \in K : left[k] \in Nat /\ Budget[k] \in Nat BY ONLY <1>1, <1>2
<1>6. \A k \in K : left'[k] \in Nat /\ left'[k] <= Budget[k] BY ONLY <1>2, <1>4, <1>5
<1>7. left' \in [K -> Nat]
  <2>1. left' = [k \in K |-> left'[k]] BY ONLY <1>2
  <2>2. QED BY ONLY <1>6, <2>1
<1>8. QED BY <1>3, <1>6, <1>7 DEF LeftInv, K

\* Every step spends or leaves alone what may still happen.
LEMMA LeftStep == ASSUME LeftInv, [Next]_vars PROVE LeftInv'
<1> DEFINE K == DOMAIN Budget \ {"all"}
<1>1. {"join", "say", "move", "rename", "drop", "chat", "here"} \subseteq K BY BudgetBounds
<1> HIDE DEF K
<1>2. left' = left \/ \E kind \in K : Spend(kind)
  <2>1. CASE User BY <1>1, <2>1 DEF User, Join, Joined, Say, SayRest
  <2>2. CASE Receiver
    BY <2>2 DEF Receiver, TakeUserRoom, TakeUserNick, TakeReconnect, AnnounceNick, Rejoin, TakeLine
  <2>3. CASE StillHere BY <1>1, <2>3 DEF StillHere
  <2>4. CASE Upwards
    <3>1. CASE ServerIamHere BY <1>1, <3>1 DEF ServerIamHere
    <3>2. CASE ~ServerIamHere BY <2>4, <3>2 DEF Upwards, NickChanged, SendFails, ServerNewRoom, ServerLine
    <3>3. QED BY <3>1, <3>2
  <2>5. CASE Server BY <1>1, <2>5 DEF Server, ServerMoves, ServerRenames, ServerRelays
  <2>6. CASE Route BY <2>6 DEF Route
  <2>7. CASE Drop BY <1>1, <2>7 DEF Drop
  <2>8. CASE Reconnects \/ Hello BY <2>8 DEF Reconnects, Hello
  <2>9. CASE UNCHANGED vars BY <2>9 DEF vars
  <2>10. QED BY <2>1, <2>2, <2>3, <2>4, <2>5, <2>6, <2>7, <2>8, <2>9 DEF Next
<1>3. CASE left' = left BY <1>3 DEF LeftInv, Budget
<1>4. CASE \E kind \in K : Spend(kind) BY <1>4, SpendKeeps DEF K
<1>5. QED BY <1>2, <1>3, <1>4

\* The last of the history is true or false.
LEMMA FlagStep ==
  ASSUME missed \in BOOLEAN, stray \in BOOLEAN, [Next]_vars
  PROVE  missed' \in BOOLEAN /\ stray' \in BOOLEAN
<1>1. CASE User BY <1>1 DEF User, Join, Joined, Say, SayRest, history
<1>2. CASE Receiver
  BY <1>2 DEF Receiver, TakeUserRoom, TakeUserNick, TakeReconnect, AnnounceNick, Rejoin, TakeLine, history
<1>3. CASE StillHere BY <1>3 DEF StillHere, history
<1>4. CASE Upwards
  BY <1>4 DEF Upwards, NickChanged, SendFails, ServerIamHere, ServerNewRoom, ServerLine, history
<1>5. CASE Server BY <1>5 DEF Server, ServerMoves, ServerRenames, ServerRelays, history
<1>6. CASE Route BY <1>6 DEF Route
<1>7. CASE Drop BY <1>7 DEF Drop
<1>8. CASE Reconnects \/ Hello BY <1>8 DEF Reconnects, Hello, history
<1>9. CASE UNCHANGED vars BY <1>9 DEF vars, history
<1>10. QED BY <1>1, <1>2, <1>3, <1>4, <1>5, <1>6, <1>7, <1>8, <1>9 DEF Next

\* The types hold, and no more happens than may, for any sets of rooms and
\* names and any bounds (the globals of main.c and the packets under way).
THEOREM TypeCorrect == Spec => []TypeOK
<1>1. Init => LeftInv
  <2> SUFFICES ASSUME left = Budget PROVE LeftInv BY DEF Init
  <2>1. \A k \in DOMAIN Budget : Budget[k] \in Nat BY BudgetBounds
  <2>2. QED BY <2>1, BudgetBounds DEF LeftInv
<1> DEFINE Flags == missed \in BOOLEAN /\ stray \in BOOLEAN
<1>2. Init => Flags BY DEF Init
<1>3. LeftInv /\ Flags /\ [Next]_vars => LeftInv' /\ Flags' BY LeftStep, FlagStep
<1>4. IInv /\ LeftInv /\ Flags => TypeOK
  <2> SUFFICES ASSUME IInv, LeftInv, Flags PROVE TypeOK OBVIOUS
  <2>1. StateInv /\ PacketInv /\ NothingMissed /\ NothingAstray BY DEF IInv
  <2>2. UpPackets \subseteq Packets /\ DownPackets \subseteq Packets /\ HostPackets \subseteq Packets
    BY DEF UpPackets, DownPackets, HostPackets
  <2>3. up \in Seq(Packets) /\ fromHost \in Seq(Packets) /\ down \in Seq(Packets)
    BY <2>1, <2>2 DEF PacketInv
  <2>4. {link, gReconnect, overtaken, roomLost, nickLost, missed, stray} \subseteq BOOLEAN
    <3>1. {link, gReconnect, overtaken, roomLost, nickLost} \subseteq BOOLEAN BY <2>1 DEF StateInv
    <3>2. QED BY <3>1
  <2>5. \A k \in DOMAIN left : left[k] \in 0..Budget[k]
    <3>1. DOMAIN left = DOMAIN Budget /\ \A k \in DOMAIN Budget : left[k] \in Nat /\ left[k] <= Budget[k] /\ Budget[k] \in Nat
      BY BudgetBounds DEF LeftInv
    <3>2. QED BY ONLY <3>1
  <2>6. QED BY <2>1, <2>3, <2>4, <2>5 DEF TypeOK, StateInv, Users, Receivers
<1> HIDE DEF Flags
<1>5. Spec => [](LeftInv /\ Flags) BY <1>1, <1>2, <1>3, PTL DEF Spec
<1>6. QED BY <1>4, <1>5, InductiveInvariant, PTL
=============================================================================
