---------------------------- MODULE FramingProofs ---------------------------
(***************************************************************************)
(* Proofs about the two readers of a packet stream: ClientFraming, the     *)
(* client reading from the bridge, and BridgeFraming, the bridge reading   *)
(* from the host.                                                          *)
(*                                                                         *)
(* What either of them has kept and what is still on the wire are together *)
(* the stream from some piece on (At), so split() cuts a read into runs of *)
(* pieces, each of one packet (SplitRuns).                                 *)
(*                                                                         *)
(* As long as no receiver of an earlier session reads along (Alone), the   *)
(* client is always at the beginning of a packet (ReadingInv): split()     *)
(* gives it whole packets and the start of one, and the lines still to be  *)
(* processed are the packets from the next one to hand on up to that one   *)
(* (LinesInv).  Of the receivers that outlive their session no more is     *)
(* said than where they can be (PlaceInv) and that no token they make      *)
(* holds a line feed (SplitOfAny).  However the reads fall and however     *)
(* often chat is left and entered again, it is a LineStream.               *)
(*                                                                         *)
(* The bridge may be inside a packet, of which it has passed on the first  *)
(* pieces or thrown them away: HostPlaced says where it is, and that only  *)
(* a packet that was in a read without a line feed was treated so.         *)
(***************************************************************************)
EXTENDS ClientFraming, BridgeFraming, FiniteSetTheorems, FunctionTheorems, WellFoundedInduction, TLAPS

-----------------------------------------------------------------------------
(* Packets and pieces. *)

\* The pieces of a packet with its line feed.
Size == 5

LEMMA Pieces ==
  /\ Len(Tildes) + 1 = Size /\ Parts = 1..4 /\ Size = 5
  /\ Tildes[2] = 3
  BY DEF Tildes, Parts, Size

LEMMA WholePacket ==
  ASSUME NEW i
  PROVE  /\ Len(Whole(i)) = 4 /\ DOMAIN Whole(i) = 1..4
         /\ \A k \in 1..4 : Whole(i)[k] = [packet |-> i, part |-> k]
         /\ HasTilde(Whole(i))
         /\ i \in Packets => Whole(i) \in Seq(Bytes \ {LF})
<1>1. DOMAIN Whole(i) = 1..4 /\ \A k \in 1..4 : Whole(i)[k] = [packet |-> i, part |-> k]
  BY Pieces DEF Whole
<1>2. Whole(i) \in Seq({[packet |-> i, part |-> k] : k \in 1..4})
  BY Pieces DEF Whole
<1>3. Len(Whole(i)) = 4 BY <1>1, <1>2
<1>4. HasTilde(Whole(i))
  <2>1. 2 \in DOMAIN Whole(i) /\ Whole(i)[2].part = 2 BY <1>1
  <2>2. QED BY <2>1, Pieces DEF HasTilde
<1>5. ASSUME i \in Packets PROVE Whole(i) \in Seq(Bytes \ {LF})
  <2>1. \A k \in 1..4 : [packet |-> i, part |-> k] \in Bytes \ {LF}
    BY <1>5, Pieces DEF Bytes, LF
  <2>2. QED BY <2>1, Pieces DEF Whole
<1>6. QED BY <1>1, <1>3, <1>4, <1>5

LEMMA WholeDiffer == ASSUME NEW i, NEW j, Whole(i) = Whole(j) PROVE i = j
<1>1. Whole(i)[1] = [packet |-> i, part |-> 1] BY Pieces DEF Whole
<1>2. Whole(j)[1] = [packet |-> j, part |-> 1] BY Pieces DEF Whole
<1>3. QED BY <1>1, <1>2

\* Every place in the stream is a piece of one packet.
LEMMA PlaceOf ==
  ASSUME NEW m \in Nat, m > 0
  PROVE  \E q \in Nat, r \in 1..5 : m = 5 * q + r
<1> DEFINE q == (m - 1) \div 5
           r == ((m - 1) % 5) + 1
<1>1. q \in Nat /\ r \in 1..5 /\ m = 5 * q + r OBVIOUS
<1>2. QED BY <1>1

-----------------------------------------------------------------------------
(* Sequences. *)

LEMMA RangeAppended ==
  ASSUME NEW S, NEW list \in Seq(S), NEW x
  PROVE  Range(Append(list, x)) = Range(list) \cup {x}
<1>1. /\ DOMAIN Append(list, x) = 1..Len(list) + 1 /\ DOMAIN list = 1..Len(list) /\ Len(list) \in Nat
      /\ Append(list, x)[Len(list) + 1] = x
      /\ \A k \in 1..Len(list) : Append(list, x)[k] = list[k]
  OBVIOUS
<1>2. 1..Len(list) + 1 = 1..Len(list) \cup {Len(list) + 1} BY <1>1
<1>3. QED BY <1>1, <1>2 DEF Range

LEMMA Joined ==
  ASSUME NEW S, NEW a \in Seq(S), NEW b \in Seq(S)
  PROVE  /\ a \o b \in Seq(S) /\ Len(a \o b) = Len(a) + Len(b)
         /\ \A m \in 1..Len(a) : (a \o b)[m] = a[m]
         /\ \A k \in 1..Len(b) : (a \o b)[Len(a) + k] = b[k]
<1>1. a \o b \in Seq(S) OBVIOUS
<1>2. Len(a \o b) = Len(a) + Len(b) OBVIOUS
<1>3. \A m \in 1..Len(a) : (a \o b)[m] = a[m] OBVIOUS
<1>4. \A k \in 1..Len(b) : (a \o b)[Len(a) + k] = b[k] OBVIOUS
<1>5. QED BY <1>1, <1>2, <1>3, <1>4

LEMMA Written ==
  ASSUME NEW S, NEW a \in Seq(S), NEW b \in Seq(S), NEW x \in S,
         NEW c, c = Append(a \o b, x)
  PROVE  /\ c \in Seq(S) /\ Len(c) = Len(a) + Len(b) + 1
         /\ \A m \in 1..Len(a) : c[m] = a[m]
         /\ \A k \in 1..Len(b) : c[Len(a) + k] = b[k]
         /\ c[Len(a) + Len(b) + 1] = x
<1> DEFINE both == a \o b
<1>0. c = Append(both, x) OBVIOUS
<1>1. both \in Seq(S) /\ Len(both) = Len(a) + Len(b) BY Joined, Zenon
<1>2. \A m \in 1..Len(a) : both[m] = a[m] BY Joined, Zenon
<1>3. \A k \in 1..Len(b) : both[Len(a) + k] = b[k] OBVIOUS
<1>4. Len(a) \in Nat /\ Len(b) \in Nat OBVIOUS
<1> HIDE DEF both
<1>5. c \in Seq(S) /\ Len(c) = Len(both) + 1 /\ c[Len(both) + 1] = x BY <1>0, <1>1
<1>6. \A m \in 1..Len(both) : c[m] = both[m] BY <1>0, <1>1, <1>4
<1>7. Len(c) = Len(a) + Len(b) + 1 /\ c[Len(a) + Len(b) + 1] = x BY <1>1, <1>4, <1>5
<1>8. ASSUME NEW k \in 1..Len(b) PROVE c[Len(a) + k] = b[k]
  <2>1. Len(a) + k \in 1..Len(both) BY <1>1, <1>4
  <2>2. QED BY <1>3, <1>6, <2>1
<1>9. \A m \in 1..Len(a) : c[m] = a[m] BY <1>1, <1>2, <1>4, <1>6
<1>10. QED BY <1>5, <1>7, <1>8, <1>9

LEMMA OfMore == ASSUME NEW S, NEW T, S \subseteq T, NEW list \in Seq(S) PROVE list \in Seq(T)
  OBVIOUS

LEMMA Part ==
  ASSUME NEW S, NEW list \in Seq(S), NEW a \in 1..Len(list) + 1, NEW b \in 0..Len(list), a <= b + 1
  PROVE  /\ SubSeq(list, a, b) \in Seq(S) /\ Len(SubSeq(list, a, b)) = b + 1 - a
         /\ \A m \in 1..Len(SubSeq(list, a, b)) : SubSeq(list, a, b)[m] = list[a + m - 1]
<1>1. SubSeq(list, a, b) \in Seq(S) OBVIOUS
<1>2. Len(SubSeq(list, a, b)) = b + 1 - a OBVIOUS
<1>3. \A m \in 1..Len(SubSeq(list, a, b)) : SubSeq(list, a, b)[m] = list[a + m - 1] OBVIOUS
<1>4. QED BY <1>1, <1>2, <1>3

LEMMA JoinedForm ==
  ASSUME NEW S, NEW a \in Seq(S), NEW b \in Seq(S), NEW c, c = a \o b
  PROVE  /\ c \in Seq(S) /\ Len(c) = Len(a) + Len(b)
         /\ \A m \in 1..Len(a) : c[m] = a[m]
         /\ \A k \in 1..Len(b) : c[Len(a) + k] = b[k]
<1>1. c \in Seq(S) OBVIOUS
<1>2. Len(c) = Len(a) + Len(b) OBVIOUS
<1>3. \A m \in 1..Len(a) : c[m] = a[m] OBVIOUS
<1>4. \A k \in 1..Len(b) : c[Len(a) + k] = b[k] OBVIOUS
<1>5. QED BY <1>1, <1>2, <1>3, <1>4

LEMMA Elements ==
  ASSUME NEW S, NEW T, NEW list \in Seq(S), \A m \in 1..Len(list) : list[m] \in T
  PROVE  list \in Seq(T)
<1>1. [m \in 1..Len(list) |-> list[m]] \in Seq(T) OBVIOUS
<1>2. list = [m \in 1..Len(list) |-> list[m]] OBVIOUS
<1>3. QED BY <1>1, <1>2, Zenon

\* A prefix of lines and an empty one.
LEMMA ClosedLines ==
  ASSUME NEW S, NEW lines \in Seq(S), NEW c \in Nat, Len(lines) = c + 1, NEW last,
         NEW closed, closed = Append(SubSeq(lines, 1, c), last)
  PROVE  /\ Len(closed) = c + 1 /\ DOMAIN closed = 1..c + 1
         /\ \A t \in 1..c : closed[t] = lines[t]
         /\ closed[c + 1] = last
<1> DEFINE front == SubSeq(lines, 1, c)
<1>1. front \in Seq(S) /\ Len(front) = c /\ \A m \in 1..Len(front) : front[m] = lines[1 + m - 1]
  <2>1. 1 \in 1..Len(lines) + 1 /\ c \in 0..Len(lines) /\ 1 <= c + 1 /\ c + 1 - 1 = c OBVIOUS
  <2>2. front \in Seq(S) /\ Len(front) = c + 1 - 1 /\ \A m \in 1..Len(front) : front[m] = lines[1 + m - 1]
    BY ONLY <2>1, lines \in Seq(S), Part
  <2>3. QED BY <2>1, <2>2
<1>2. closed = Append(front, last) OBVIOUS
<1> HIDE DEF front
<1>3. front \in Seq(S \cup {last}) BY <1>1, OfMore
<1>4. /\ Len(closed) = Len(front) + 1 /\ DOMAIN closed = 1..Len(front) + 1
      /\ closed[Len(front) + 1] = last
      /\ \A m \in 1..Len(front) : closed[m] = front[m]
  BY ONLY <1>2, <1>3
<1>5. \A t \in 1..c : 1 + t - 1 = t OBVIOUS
<1>6. QED BY ONLY <1>1, <1>4, <1>5, c \in Nat

\* The lines left when the first of them is taken.
LEMMA TailForm ==
  ASSUME NEW S, NEW list \in Seq(S), list # <<>>
  PROVE  /\ Tail(list) \in Seq(S) /\ Len(Tail(list)) = Len(list) - 1
         /\ \A m \in 1..Len(list) - 1 : Tail(list)[m] = list[m + 1]
         /\ Len(list) = 1 => Tail(list) = <<>>
  OBVIOUS

\* The first k elements of a sequence, and those after them.
Upto(list, k)  == SubSeq(list, 1, k)
After(list, k) == SubSeq(list, k + 1, Len(list))

\* One sequence is the first k elements, or all but the first, of another.
StartOf(part, list, k) == Len(part) = k /\ \A m \in 1..Len(part) : part[m] = list[m]
RestOf(part, list, k) ==
    /\ Len(part) = Len(list) - k
    /\ \A m \in 1..Len(part) : part[m] = list[k + m]

\* Moving the first k elements of one sequence to the end of another, and
\* then taking e away at the front, leaves the rest of the two.
LEMMA Regrouped ==
  ASSUME NEW S, NEW p \in Seq(S), NEW w \in Seq(S), NEW k \in 0..Len(w), NEW e \in 0..Len(p) + k
  PROVE  /\ p \o Upto(w, k) \in Seq(S)
         /\ StartOf(p \o Upto(w, k), p \o w, Len(p) + k)
         /\ RestOf(After(p \o Upto(w, k), e) \o After(w, k), p \o w, e)
<1> DEFINE all  == p \o w
           text == p \o Upto(w, k)
           rest == After(text, e) \o After(w, k)
<1> DEFINE data == SubSeq(w, 1, k)
           kept == SubSeq(text, e + 1, Len(text))
           after == SubSeq(w, k + 1, Len(w))
<1>1. text = p \o data /\ rest = kept \o after BY DEF Upto, After
<1>0. all = p \o w OBVIOUS
<1> HIDE DEF all, text, rest
<1>2. Len(p) \in Nat /\ Len(w) \in Nat OBVIOUS
<1>3. data \in Seq(S) /\ Len(data) = k /\ \A m \in 1..Len(data) : data[m] = w[1 + m - 1]
  <2>1. 1 \in 1..Len(w) + 1 /\ k \in 0..Len(w) /\ 1 <= k + 1 /\ k + 1 - 1 = k BY <1>2
  <2>2. data \in Seq(S) /\ Len(data) = k + 1 - 1 /\ \A m \in 1..Len(data) : data[m] = w[1 + m - 1]
    BY ONLY <2>1, w \in Seq(S), Part
  <2>3. QED BY <2>1, <2>2
<1> HIDE DEF data
<1>4. /\ all \in Seq(S) /\ Len(all) = Len(p) + Len(w)
      /\ \A m \in 1..Len(p) : all[m] = p[m]
      /\ \A m \in 1..Len(w) : all[Len(p) + m] = w[m]
  BY ONLY <1>0, p \in Seq(S), w \in Seq(S), JoinedForm
<1>5. /\ text \in Seq(S) /\ Len(text) = Len(p) + Len(data)
      /\ \A m \in 1..Len(p) : text[m] = p[m]
      /\ \A m \in 1..Len(data) : text[Len(p) + m] = data[m]
  <2>1. p \in Seq(S) /\ data \in Seq(S) /\ text = p \o data BY ONLY p \in Seq(S), <1>1, <1>3
  <2>2. QED BY ONLY <2>1, JoinedForm
<1>6. Len(text) = Len(p) + k /\ Len(text) \in Nat BY <1>2, <1>3, <1>5
<1>7. ASSUME NEW m \in 1..Len(text) PROVE text[m] = all[m]
  <2>1. CASE m <= Len(p)
    <3>1. m \in 1..Len(p) BY <1>2, <2>1
    <3>2. QED BY ONLY <1>4, <1>5, <3>1
  <2>2. CASE m > Len(p)
    <3>1. PICK j \in 1..Len(data) : m = Len(p) + j /\ j \in 1..Len(w)
      <4>1. m - Len(p) \in 1..Len(data) /\ m = Len(p) + (m - Len(p)) /\ m - Len(p) \in 1..Len(w)
        BY ONLY <1>2, <1>3, <1>6, <2>2, m \in 1..Len(text), k \in 0..Len(w)
      <4>2. QED BY <4>1
    <3>2. 1 + j - 1 = j OBVIOUS
    <3>3. text[Len(p) + j] = data[j] BY ONLY <1>5, <3>1
    <3>4. data[j] = w[j] BY ONLY <1>3, <3>1, <3>2
    <3>5. all[Len(p) + j] = w[j] BY ONLY <1>4, <3>1
    <3>6. QED BY ONLY <3>1, <3>3, <3>4, <3>5
  <2>3. QED BY ONLY <1>2, <1>6, <2>1, <2>2, m \in 1..Len(text)
<1>8. /\ kept \in Seq(S) /\ Len(kept) = Len(text) - e
      /\ \A m \in 1..Len(kept) : kept[m] = text[e + 1 + m - 1]
  <2>1. e + 1 \in 1..Len(text) + 1 /\ Len(text) \in 0..Len(text) /\ e + 1 <= Len(text) + 1
        /\ Len(text) + 1 - (e + 1) = Len(text) - e
    BY ONLY <1>2, <1>6, k \in 0..Len(w), e \in 0..Len(p) + k
  <2>2. /\ kept \in Seq(S) /\ Len(kept) = Len(text) + 1 - (e + 1)
        /\ \A m \in 1..Len(kept) : kept[m] = text[e + 1 + m - 1]
    <3>1. text \in Seq(S) BY ONLY <1>5
    <3>2. QED BY ONLY <2>1, <3>1, Part
  <2>3. QED BY <2>1, <2>2
<1>9. /\ after \in Seq(S) /\ Len(after) = Len(w) - k
      /\ \A m \in 1..Len(after) : after[m] = w[k + 1 + m - 1]
  <2>1. k + 1 \in 1..Len(w) + 1 /\ Len(w) \in 0..Len(w) /\ k + 1 <= Len(w) + 1
        /\ Len(w) + 1 - (k + 1) = Len(w) - k
    BY <1>2
  <2>2. /\ after \in Seq(S) /\ Len(after) = Len(w) + 1 - (k + 1)
        /\ \A m \in 1..Len(after) : after[m] = w[k + 1 + m - 1]
    BY ONLY w \in Seq(S), <2>1, Part
  <2>3. QED BY <2>1, <2>2
<1> HIDE DEF kept, after
<1>10. /\ rest \in Seq(S) /\ Len(rest) = Len(kept) + Len(after)
       /\ \A m \in 1..Len(kept) : rest[m] = kept[m]
       /\ \A m \in 1..Len(after) : rest[Len(kept) + m] = after[m]
  <2>1. kept \in Seq(S) /\ after \in Seq(S) /\ rest = kept \o after BY ONLY <1>1, <1>8, <1>9
  <2>2. QED BY ONLY <2>1, JoinedForm
<1>11. Len(rest) = Len(all) - e /\ Len(kept) \in Nat /\ Len(after) \in Nat
  BY ONLY <1>2, <1>4, <1>6, <1>8, <1>9, <1>10, k \in 0..Len(w), e \in 0..Len(p) + k
<1>12. ASSUME NEW m \in 1..Len(rest) PROVE rest[m] = all[e + m]
  <2>1. CASE m <= Len(kept)
    <3>1. m \in 1..Len(kept) /\ e + 1 + m - 1 = e + m /\ e + m \in 1..Len(text)
      BY ONLY <1>6, <1>8, <1>11, <2>1, m \in 1..Len(rest), e \in 0..Len(p) + k, <1>2, k \in 0..Len(w)
    <3>2. rest[m] = kept[m] /\ kept[m] = text[e + m] BY ONLY <1>8, <1>10, <3>1
    <3>3. text[e + m] = all[e + m] BY ONLY <1>7, <3>1
    <3>4. QED BY ONLY <3>2, <3>3
  <2>2. CASE m > Len(kept)
    <3>1. PICK j \in 1..Len(after) : m = Len(kept) + j
      <4>1. m - Len(kept) \in 1..Len(after) /\ m = Len(kept) + (m - Len(kept))
        BY ONLY <1>10, <1>11, <2>2, m \in 1..Len(rest)
      <4>2. QED BY <4>1
    <3>2. k + 1 + j - 1 = k + j /\ k + j \in 1..Len(w) /\ Len(p) + (k + j) = e + m
      BY ONLY <1>2, <1>6, <1>8, <1>9, <1>11, <3>1, k \in 0..Len(w), e \in 0..Len(p) + k
    <3>3. rest[m] = after[j] BY ONLY <1>10, <3>1
    <3>4. after[j] = w[k + j] BY ONLY <1>9, <3>1, <3>2
    <3>5. all[Len(p) + (k + j)] = w[k + j] BY ONLY <1>4, <3>2
    <3>6. QED BY ONLY <3>2, <3>3, <3>4, <3>5
  <2>3. QED BY ONLY <1>10, <1>11, <2>1, <2>2, m \in 1..Len(rest)
<1>13. text \in Seq(S) /\ StartOf(text, all, Len(p) + k) BY <1>5, <1>6, <1>7 DEF StartOf
<1>14. RestOf(rest, all, e) BY <1>11, <1>12 DEF RestOf
<1>15. QED BY <1>13, <1>14 DEF all, text, rest

-----------------------------------------------------------------------------
(* The stream, and what split() makes of a part of it. *)

\* The stream, byte by byte: packets from the first on, with their line feeds.
Piece(a) == IF a % Size = 0 THEN LF ELSE [packet |-> a \div Size + 1, part |-> a % Size]

\* The text is what follows the first a bytes of the stream.
At(text, a) == \A p \in 1..Len(text) : text[p] = Piece(a + p)

\* The text begins with piece m of packet i and ends with piece d of packet
\* i + c, a line feed counting as the fifth piece.
Covers(text, i, m, c, d) ==
    Len(text) = Size * c + d - (m - 1) /\ At(text, Size * (i - 1) + (m - 1))

\* Pieces m to n of packet i.
Run(i, m, n) == SubSeq(Whole(i), m, n)

\* Token t of those that begin with piece m of packet i and end with piece d
\* of packet i + c.
Token(i, m, c, d, t) == Run(i + t - 1, IF t = 1 THEN m ELSE 1, IF t <= c THEN 4 ELSE d)

TokensOf(tokens, i, m, c, d) ==
    Len(tokens) = c + 1 /\ \A t \in 1..c + 1 : tokens[t] = Token(i, m, c, d, t)

LEMMA PieceIs ==
  ASSUME NEW i \in Nat, i >= 1, NEW r \in 1..5
  PROVE  Piece(5 * (i - 1) + r) = IF r = 5 THEN LF ELSE [packet |-> i, part |-> r]
<1> DEFINE a == 5 * (i - 1) + r
<1>1. CASE r = 5
  <2>1. a = 5 * i BY <1>1
  <2>2. a % 5 = 0 BY <2>1
  <2>3. QED BY <1>1, <2>2 DEF Piece, Size
<1>2. CASE r # 5
  <2>1. r \in 1..4 BY <1>2
  <2>2. a % 5 = r /\ a \div 5 = i - 1 BY <2>1
  <2>3. (i - 1) + 1 = i OBVIOUS
  <2>4. r # 0 BY <2>1
  <2>5. QED BY <1>2, <2>2, <2>3, <2>4 DEF Piece, Size
<1>3. QED BY <1>1, <1>2

LEMMA RunIs ==
  ASSUME NEW i, NEW m \in 1..5, NEW n \in 0..4, m <= n + 1
  PROVE  Run(i, m, n) = [p \in 1..n + 1 - m |-> [packet |-> i, part |-> m + p - 1]]
<1> DEFINE whole == Whole(i)
           S == {[packet |-> i, part |-> k] : k \in 1..4}
<1>1. whole \in Seq(S) /\ Len(whole) = 4 /\ \A k \in 1..4 : whole[k] = [packet |-> i, part |-> k]
  BY Pieces DEF Whole
<1> HIDE DEF whole
<1>2. SubSeq(whole, m, n) = [p \in 1..n + 1 - m |-> whole[m + p - 1]]
  BY <1>1
<1>3. \A p \in 1..n + 1 - m : m + p - 1 \in 1..4 OBVIOUS
<1>4. QED BY <1>1, <1>2, <1>3 DEF Run, whole

LEMMA RunForm ==
  ASSUME NEW i, NEW m \in 1..5, NEW n \in 0..4, m <= n + 1
  PROVE  /\ Len(Run(i, m, n)) = n + 1 - m
         /\ \A p \in 1..n + 1 - m : Run(i, m, n)[p] = [packet |-> i, part |-> m + p - 1]
         /\ n + 1 = m => Run(i, m, n) = <<>>
         /\ i \in Packets => Run(i, m, n) \in Seq(Bytes \ {LF})
<1> DEFINE S == {[packet |-> i, part |-> k] : k \in 1..4}
           f == [p \in 1..n + 1 - m |-> [packet |-> i, part |-> m + p - 1]]
<1>1. Run(i, m, n) = f BY RunIs
<1>2. n + 1 - m \in Nat /\ \A p \in 1..n + 1 - m : m + p - 1 \in 1..4 OBVIOUS
<1>3. Len(f) = n + 1 - m BY <1>2
<1>4. ASSUME i \in Packets PROVE f \in Seq(Bytes \ {LF})
  <2>1. \A p \in 1..n + 1 - m : [packet |-> i, part |-> m + p - 1] \in Bytes \ {LF}
    BY <1>2, <1>4, Pieces DEF Bytes, LF
  <2>2. QED BY <1>2, <2>1
<1>5. f \in Seq(S)
  <2>1. \A p \in 1..n + 1 - m : [packet |-> i, part |-> m + p - 1] \in S BY <1>2
  <2>2. QED BY <1>2, <2>1
<1>6. \A p \in 1..n + 1 - m : f[p] = [packet |-> i, part |-> m + p - 1] OBVIOUS
<1> HIDE DEF f, S
<1>7. n + 1 = m => f = <<>>
  <2>1. n + 1 = m => Len(f) = 0 BY <1>3
  <2>2. QED BY <1>5, <2>1
<1>8. QED BY <1>1, <1>3, <1>4, <1>6, <1>7

LEMMA WholeRun == ASSUME NEW i PROVE Run(i, 1, 4) = Whole(i)
<1> DEFINE whole == Whole(i)
<1>1. whole \in Seq({[packet |-> i, part |-> k] : k \in 1..4}) /\ Len(whole) = 4
  BY Pieces DEF Whole
<1> HIDE DEF whole
<1>2. SubSeq(whole, 1, 4) = whole BY <1>1
<1>3. QED BY <1>2 DEF Run, whole

LEMMA TokenIsRun ==
  ASSUME NEW S, NEW text \in Seq(S), NEW a \in Nat, At(text, a),
         NEW x \in 1..Len(text) + 1, NEW y \in 0..Len(text), x <= y + 1,
         NEW j \in Nat, j >= 1, NEW m \in 1..5, NEW n \in 0..4,
         a + x = 5 * (j - 1) + m, y - x = n - m
  PROVE  SubSeq(text, x, y) = Run(j, m, n)
<1> DEFINE token == SubSeq(text, x, y)
<1>1. token \in Seq(S) /\ Len(token) = y + 1 - x /\ \A p \in 1..Len(token) : token[p] = text[x + p - 1]
  <2>1. /\ SubSeq(text, x, y) \in Seq(S) /\ Len(SubSeq(text, x, y)) = y + 1 - x
        /\ \A p \in 1..Len(SubSeq(text, x, y)) : SubSeq(text, x, y)[p] = text[x + p - 1]
    BY ONLY text \in Seq(S), x \in 1..Len(text) + 1, y \in 0..Len(text), x <= y + 1, Part
  <2>2. QED BY <2>1
<1>2. y + 1 - x = n + 1 - m /\ m <= n + 1 OBVIOUS
<1>3. ASSUME NEW p \in 1..n + 1 - m PROVE token[p] = [packet |-> j, part |-> m + p - 1]
  <2>1. x + p - 1 \in 1..Len(text) /\ m + p - 1 \in 1..5 /\ m + p - 1 # 5
        /\ a + (x + p - 1) = 5 * (j - 1) + (m + p - 1)
    BY <1>2
  <2>2. text[x + p - 1] = Piece(a + (x + p - 1)) BY <2>1 DEF At
  <2>3. Piece(5 * (j - 1) + (m + p - 1)) = [packet |-> j, part |-> m + p - 1] BY <2>1, PieceIs
  <2>4. QED BY <1>1, <1>2, <2>1, <2>2, <2>3
<1>4. token = [p \in 1..n + 1 - m |-> token[p]] BY <1>1, <1>2
<1> HIDE DEF token
<1>5. Run(j, m, n) = [p \in 1..n + 1 - m |-> [packet |-> j, part |-> m + p - 1]] BY <1>2, RunIs
<1>6. QED BY <1>3, <1>4, <1>5 DEF token

LEMMA Multiples ==
  ASSUME NEW t \in Nat, NEW e \in 0..4
  PROVE  Cardinality({5 * u - e : u \in 1..t}) = t
<1> DEFINE S == {5 * u - e : u \in 1..t}
           f == [u \in 1..t |-> 5 * u - e]
<1>1. f \in [1..t -> S] OBVIOUS
<1>2. \A a, b \in 1..t : f[a] = f[b] => a = b OBVIOUS
<1>3. \A x \in S : \E u \in 1..t : f[u] = x OBVIOUS
<1> HIDE DEF f, S
<1>4. f \in Bijection(1..t, S) BY <1>1, <1>2, <1>3, Fun_IsBij
<1>5. ExistsBijection(1..t, S) BY <1>4 DEF ExistsBijection
<1>6. Cardinality(S) = t BY <1>5, FS_CountingElements
<1>7. QED BY <1>6 DEF S

\* Such a text has c line feeds, the k-th at a known place.
LEMMA BreaksOfStream ==
  ASSUME NEW S, NEW text \in Seq(S), NEW i \in Nat, i >= 1, NEW m \in 1..5,
         NEW c \in Nat, NEW d \in 0..4, Covers(text, i, m, c, d)
  PROVE  Breaks(text) = {5 * u - (m - 1) : u \in 1..c}
<1>0. /\ DOMAIN text = 1..Len(text) /\ Len(text) = 5 * c + d - (m - 1)
      /\ At(text, 5 * (i - 1) + (m - 1))
  BY DEF Covers, Size
<1>1. ASSUME NEW p \in 1..Len(text)
      PROVE  text[p] = LF <=> (m - 1 + p) % 5 = 0
  <2>1. text[p] = Piece(5 * (i - 1) + (m - 1) + p) BY <1>0 DEF At
  <2>2. (5 * (i - 1) + (m - 1) + p) % 5 = (m - 1 + p) % 5 OBVIOUS
  <2>3. \A b \in Nat : \A x : [packet |-> b \div 5 + 1, part |-> x] # LF
    BY DEF LF
  <2>4. 5 * (i - 1) + (m - 1) + p \in Nat OBVIOUS
  <2> HIDE DEF Piece
  <2>5. QED BY <2>1, <2>2, <2>3, <2>4 DEF Piece, Size
<1>2. ASSUME NEW p \in Breaks(text) PROVE p \in {5 * u - (m - 1) : u \in 1..c}
  <2>1. p \in 1..Len(text) /\ (m - 1 + p) % 5 = 0 BY <1>0, <1>1 DEF Breaks
  <2> DEFINE u == (m - 1 + p) \div 5
  <2>2. u \in Nat /\ m - 1 + p = 5 * u BY <2>1
  <2> HIDE DEF u
  <2>3. u \in 1..c /\ p = 5 * u - (m - 1) BY <1>0, <2>1, <2>2
  <2>4. QED BY <2>3
<1>3. ASSUME NEW u \in 1..c PROVE 5 * u - (m - 1) \in Breaks(text)
  <2>1. 5 * u - (m - 1) \in 1..Len(text) BY <1>0
  <2>2. m - 1 + (5 * u - (m - 1)) = 5 * u /\ (5 * u) % 5 = 0 OBVIOUS
  <2>3. QED BY <1>0, <1>1, <2>1, <2>2 DEF Breaks
<1>4. QED BY <1>2, <1>3

LEMMA BreakOfStream ==
  ASSUME NEW text, NEW c \in Nat, NEW e \in 0..4, Breaks(text) = {5 * u - e : u \in 1..c}, NEW k \in 1..c
  PROVE  Break(text, k) = 5 * k - e
<1> DEFINE upTo(i) == {j \in Breaks(text) : j <= i}
<1>1. ASSUME NEW u \in 1..c PROVE Cardinality(upTo(5 * u - e)) = u
  <2>1. upTo(5 * u - e) = {5 * v - e : v \in 1..u} OBVIOUS
  <2>2. Cardinality({5 * v - e : v \in 1..u}) = u
    <3>1. u \in Nat OBVIOUS
    <3>2. QED BY ONLY <3>1, e \in 0..4, Multiples
  <2>3. QED BY ONLY <2>1, <2>2
<1>2. 5 * k - e \in Breaks(text) /\ Cardinality(upTo(5 * k - e)) = k BY <1>1
<1>3. ASSUME NEW i \in Breaks(text), Cardinality(upTo(i)) = k PROVE i = 5 * k - e
  <2>1. PICK u \in 1..c : i = 5 * u - e OBVIOUS
  <2>2. QED BY <1>1, <1>3, <2>1
<1> HIDE DEF upTo
<1>4. (CHOOSE i \in Breaks(text) : Cardinality(upTo(i)) = k) = 5 * k - e BY <1>2, <1>3
<1>5. QED BY <1>4 DEF Break, upTo

\* split() cuts it into the rest of packet i, whole packets and a start of
\* the last one; without a line feed it leaves the text as it is.
LEMMA SplitRuns ==
  ASSUME NEW S, NEW text \in Seq(S), NEW i \in Nat, i >= 1, NEW m \in 1..5,
         NEW c \in Nat, NEW d \in 0..4, Covers(text, i, m, c, d)
  PROVE  Split(text) \in Seq(Seq(S)) /\ TokensOf(Split(text), i, m, c, d)
<1> DEFINE e == m - 1
<1>0. e \in 0..4 /\ Len(text) \in Nat /\ Len(text) = 5 * c + d - e BY DEF Covers, Size
<1>1. Breaks(text) = {5 * u - e : u \in 1..c} BY BreaksOfStream
<1> HIDE DEF e
<1>2. Cardinality(Breaks(text)) = c BY <1>0, <1>1, Multiples
<1>3. \A k \in 1..c : Break(text, k) = 5 * k - e BY <1>0, <1>1, BreakOfStream
<1> DEFINE first(k) == IF k = 1 THEN 1 ELSE Break(text, k - 1) + 1
           last(k)  == IF k > c THEN Len(text) ELSE Break(text, k) - 1
<1>4. Split(text) = [k \in 1..c + 1 |-> SubSeq(text, first(k), last(k))] BY <1>2 DEF Split
<1>5. \A k \in 1..c + 1 : first(k) = IF k = 1 THEN 1 ELSE 5 * k - 4 - e
  <2> SUFFICES ASSUME NEW k \in 1..c + 1, k # 1 PROVE first(k) = 5 * k - 4 - e OBVIOUS
  <2>1. k - 1 \in 1..c OBVIOUS
  <2>2. Break(text, k - 1) = 5 * (k - 1) - e BY <1>3, <2>1
  <2>3. 5 * (k - 1) - e + 1 = 5 * k - 4 - e BY <1>0
  <2>4. QED BY <2>2, <2>3
<1>6. \A k \in 1..c : last(k) = 5 * k - 1 - e
  <2> SUFFICES ASSUME NEW k \in 1..c PROVE last(k) = 5 * k - 1 - e OBVIOUS
  <2>1. Break(text, k) = 5 * k - e BY <1>3
  <2>2. 5 * k - e - 1 = 5 * k - 1 - e /\ ~(k > c) BY <1>0
  <2>3. QED BY <2>1, <2>2
<1>7. last(c + 1) = Len(text) OBVIOUS
<1> HIDE DEF first, last
<1>8. \A k \in 1..c + 1 : /\ first(k) \in 1..Len(text) + 1 /\ last(k) \in 0..Len(text)
                          /\ first(k) <= last(k) + 1
  <2> SUFFICES ASSUME NEW k \in 1..c + 1
               PROVE  first(k) \in 1..Len(text) + 1 /\ last(k) \in 0..Len(text) /\ first(k) <= last(k) + 1
    OBVIOUS
  <2>1. CASE k = c + 1
    <3>1. last(k) = Len(text) /\ first(k) = IF k = 1 THEN 1 ELSE 5 * k - 4 - e BY <1>5, <1>7, <2>1
    <3>2. QED BY <1>0, <2>1, <3>1
  <2>2. CASE k # c + 1
    <3>1. k \in 1..c BY <2>2
    <3>2. last(k) = 5 * k - 1 - e /\ first(k) = IF k = 1 THEN 1 ELSE 5 * k - 4 - e BY <1>5, <1>6, <3>1
    <3>3. QED BY <1>0, <3>1, <3>2
  <2>3. QED BY <2>1, <2>2
<1>9. Split(text) \in Seq(Seq(S)) /\ Len(Split(text)) = c + 1
  <2>1. \A k \in 1..c + 1 : SubSeq(text, first(k), last(k)) \in Seq(S) BY <1>8, Part
  <2>2. Split(text) \in [1..c + 1 -> Seq(S)] BY <1>4, <2>1
  <2>3. QED BY <2>2
<1>10. ASSUME NEW t \in 1..c PROVE Split(text)[t] = Run(i + t - 1, IF t = 1 THEN m ELSE 1, 4)
  <2>1. t \in 1..c + 1 OBVIOUS
  <2>2. Split(text)[t] = SubSeq(text, first(t), last(t)) BY <1>4, <2>1
  <2>3. first(t) \in 1..Len(text) + 1 /\ last(t) \in 0..Len(text) /\ first(t) <= last(t) + 1
    BY <1>8, <2>1
  <2>4. last(t) = 5 * t - 1 - e /\ first(t) = IF t = 1 THEN 1 ELSE 5 * t - 4 - e BY <1>5, <1>6, <2>1
  <2> DEFINE mm == IF t = 1 THEN m ELSE 1
             a == 5 * (i - 1) + (m - 1)
             j == i + t - 1
             x == first(t)
             y == last(t)
  <2>5. /\ mm \in 1..5 /\ 4 \in 0..4 /\ a \in Nat /\ j \in Nat /\ j >= 1
        /\ a + x = 5 * (j - 1) + mm
        /\ y - x = 4 - mm /\ x \in 1..Len(text) + 1 /\ y \in 0..Len(text) /\ x <= y + 1
    BY <1>0, <2>3, <2>4 DEF e
  <2>6. At(text, a) BY DEF Covers, Size
  <2> HIDE DEF mm, a, j, x, y
  <2>7. SubSeq(text, x, y) = Run(j, mm, 4)
    BY ONLY <2>5, <2>6, text \in Seq(S), TokenIsRun, SMTT(30)
  <2>8. QED BY <2>2, <2>7 DEF mm, j, x, y
<1>11. c + 1 \in 1..c + 1 OBVIOUS
<1>12. Split(text)[c + 1] = SubSeq(text, first(c + 1), Len(text)) BY <1>4, <1>7, <1>11
<1>13. first(c + 1) = IF c = 0 THEN 1 ELSE 5 * c + 1 - e
  <2>1. first(c + 1) = IF c + 1 = 1 THEN 1 ELSE 5 * (c + 1) - 4 - e BY <1>5, <1>11
  <2>2. QED BY <1>0, <2>1
<1>14. Split(text)[c + 1] = Run(i + c, IF c = 0 THEN m ELSE 1, d)
  <2> DEFINE mm == IF c = 0 THEN m ELSE 1
             a == 5 * (i - 1) + (m - 1)
             j == i + c
             x == first(c + 1)
             y == Len(text)
  <2>1. first(c + 1) \in 1..Len(text) + 1 /\ last(c + 1) \in 0..Len(text) /\ first(c + 1) <= last(c + 1) + 1
    BY <1>8, <1>11
  <2>2. x \in 1..Len(text) + 1 /\ y \in 0..Len(text) /\ x <= y + 1 BY <1>0, <1>7, <2>1
  <2>3. /\ mm \in 1..5 /\ a \in Nat /\ j \in Nat /\ j >= 1
        /\ a + x = 5 * (j - 1) + mm
        /\ y - x = d - mm
    BY <1>0, <1>13 DEF e
  <2>4. At(text, a) BY DEF Covers, Size
  <2> HIDE DEF mm, a, j, x, y
  <2>5. SubSeq(text, x, y) = Run(j, mm, d)
    BY ONLY <2>2, <2>3, <2>4, text \in Seq(S), d \in 0..4, TokenIsRun, SMTT(30)
  <2>6. QED BY <1>12, <2>5 DEF mm, j, x, y
<1>15. ASSUME NEW t \in 1..c + 1 PROVE Split(text)[t] = Token(i, m, c, d, t)
  <2>1. CASE t <= c
    <3>1. t \in 1..c BY <2>1
    <3>2. QED BY <1>10, <2>1, <3>1 DEF Token
  <2>2. CASE t > c
    <3>1. t = c + 1 /\ ~(t <= c) /\ i + t - 1 = i + c /\ (t = 1 <=> c = 0) BY <2>2
    <3>2. QED BY <1>14, <3>1 DEF Token
  <2>3. QED BY <2>1, <2>2
<1>16. QED BY ONLY <1>9, <1>15 DEF TokensOf

-----------------------------------------------------------------------------
(* split() of any text. *)

Before == {mm \in Nat \X Nat : mm[1] < mm[2]}

LEMMA LeastNatural ==
  ASSUME NEW T, T \subseteq Nat, T # {}
  PROVE  \E x \in T : \A y \in T : ~(y < x)
<1>1. IsWellFoundedOn(Before, Nat) BY NatLessThanWellFounded DEF OpToRel, Before
<1>2. PICK x \in T : \A y \in T : ~(<<y, x>> \in Before) BY <1>1, WFMin
<1>3. QED BY <1>2 DEF Before

\* Those of a set of numbers that are at most m.
UpTo(N, m) == {j \in N : j <= m}

LEMMA Counting ==
  ASSUME NEW l \in Nat, NEW N, N \subseteq 1..l
  PROVE  /\ Cardinality(N) \in Nat
         /\ \A m \in Nat : Cardinality(UpTo(N, m)) \in Nat /\ Cardinality(UpTo(N, m)) <= Cardinality(N)
         /\ Cardinality(UpTo(N, 0)) = 0 /\ UpTo(N, l) = N
         /\ \A m, n \in Nat : m <= n => Cardinality(UpTo(N, m)) <= Cardinality(UpTo(N, n))
         /\ \A m, n \in Nat : m < n /\ n \in N => Cardinality(UpTo(N, m)) < Cardinality(UpTo(N, n))
<1>0. \A j \in N : j \in Nat /\ 1 <= j /\ j <= l OBVIOUS
<1>1. IsFiniteSet(N)
  <2>1. IsFiniteSet(1..l) BY FS_Interval
  <2>2. QED BY <2>1, FS_Subset
<1>2. \A m : UpTo(N, m) \in SUBSET N BY DEF UpTo
<1>3. \A m : IsFiniteSet(UpTo(N, m)) /\ Cardinality(UpTo(N, m)) <= Cardinality(N)
  BY <1>1, <1>2, FS_Subset
<1>4. Cardinality(N) \in Nat /\ \A m : Cardinality(UpTo(N, m)) \in Nat
  BY <1>1, <1>3, FS_CardinalityType
<1>5. Cardinality(UpTo(N, 0)) = 0
  <2>1. UpTo(N, 0) = {}
    <3>1. \A j \in N : ~(j <= 0) BY <1>0
    <3>2. QED BY <3>1 DEF UpTo
  <2>2. QED BY <2>1, FS_EmptySet
<1>6. UpTo(N, l) = N BY <1>0 DEF UpTo
<1>7. ASSUME NEW m \in Nat, NEW n \in Nat, m <= n
      PROVE  Cardinality(UpTo(N, m)) <= Cardinality(UpTo(N, n))
  <2>1. UpTo(N, m) \in SUBSET UpTo(N, n)
    <3>1. \A j \in N : j <= m => j <= n BY <1>0, <1>7
    <3>2. QED BY <3>1 DEF UpTo
  <2>2. QED BY <1>3, <2>1, FS_Subset
<1>8. ASSUME NEW m \in Nat, NEW n \in Nat, m < n, n \in N
      PROVE  Cardinality(UpTo(N, m)) < Cardinality(UpTo(N, n))
  <2>1. UpTo(N, m) \cup {n} \in SUBSET UpTo(N, n) /\ n \notin UpTo(N, m)
    <3>1. (\A j \in N : j <= m => j <= n) /\ n <= n /\ ~(n <= m) BY <1>0, <1>8
    <3>2. QED BY <1>8, <3>1 DEF UpTo
  <2>2. Cardinality(UpTo(N, m) \cup {n}) = Cardinality(UpTo(N, m)) + 1 BY <1>3, <2>1, FS_AddElement
  <2>3. Cardinality(UpTo(N, m) \cup {n}) <= Cardinality(UpTo(N, n)) BY <1>3, <2>1, FS_Subset
  <2>4. QED BY <1>4, <2>2, <2>3
<1>9. QED BY <1>3, <1>4, <1>5, <1>6, <1>7, <1>8

\* A set of c numbers has a k-th one for every k up to c.
LEMMA NthMember ==
  ASSUME NEW l \in Nat, NEW N, N \subseteq 1..l, NEW k \in 1..Cardinality(N)
  PROVE  \E i \in N : Cardinality(UpTo(N, i)) = k
<1> DEFINE T == {m \in Nat : Cardinality(UpTo(N, m)) >= k}
<1>1. /\ Cardinality(N) \in Nat
      /\ \A m \in Nat : Cardinality(UpTo(N, m)) \in Nat
      /\ Cardinality(UpTo(N, 0)) = 0 /\ UpTo(N, l) = N
  BY Counting
<1>2. T \subseteq Nat /\ l \in T BY <1>1
<1>3. PICK m \in T : \A y \in T : ~(y < m) BY <1>2, LeastNatural
<1>4. m \in Nat /\ Cardinality(UpTo(N, m)) >= k /\ \A y \in Nat : y < m => Cardinality(UpTo(N, y)) < k
  BY <1>1, <1>3
<1> HIDE DEF T
<1>5. m # 0 /\ m - 1 \in Nat /\ m - 1 < m BY <1>1, <1>4
<1>6. Cardinality(UpTo(N, m - 1)) < k BY <1>4, <1>5
<1>7. m \in N
  <2> SUFFICES ASSUME m \notin N PROVE FALSE OBVIOUS
  <2>1. \A j \in N : j <= m <=> j <= m - 1 BY <1>4
  <2>2. UpTo(N, m) = UpTo(N, m - 1) BY <2>1 DEF UpTo
  <2>3. QED BY <1>1, <1>4, <1>5, <1>6, <2>2
<1>8. Cardinality(UpTo(N, m)) = Cardinality(UpTo(N, m - 1)) + 1
  <2>1. UpTo(N, m) = UpTo(N, m - 1) \cup {m} /\ m \notin UpTo(N, m - 1)
    <3>1. \A j \in N : j <= m <=> j <= m - 1 \/ j = m BY <1>4
    <3>2. ~(m <= m - 1) BY <1>4
    <3>3. QED BY <1>7, <3>1, <3>2 DEF UpTo
  <2>2. IsFiniteSet(UpTo(N, m - 1))
    <3>1. UpTo(N, m - 1) \in SUBSET (1..l) BY DEF UpTo
    <3>2. IsFiniteSet(1..l) BY FS_Interval
    <3>3. QED BY <3>1, <3>2, FS_Subset
  <2>3. QED BY <2>1, <2>2, FS_AddElement
<1>9. Cardinality(UpTo(N, m)) = k BY <1>1, <1>4, <1>5, <1>6, <1>8
<1>10. QED BY <1>7, <1>9

\* The k-th line feed of a text, and where it is among the others.
LEMMA BreakIs ==
  ASSUME NEW text, NEW l \in Nat, Breaks(text) \subseteq 1..l, NEW k \in 1..Cardinality(Breaks(text))
  PROVE  Break(text, k) \in Breaks(text) /\ Cardinality(UpTo(Breaks(text), Break(text, k))) = k
<1>1. \E i \in Breaks(text) : Cardinality(UpTo(Breaks(text), i)) = k BY NthMember
<1>2. Break(text, k) = CHOOSE i \in Breaks(text) : Cardinality(UpTo(Breaks(text), i)) = k
  BY DEF Break, UpTo
<1>3. QED BY <1>1, <1>2

\* Whatever the text, no token that split() makes of it holds a line feed.
LEMMA SplitOfAny ==
  ASSUME NEW S, NEW text \in Seq(S)
  PROVE  Split(text) \in Seq(Seq(S \ {LF})) /\ Len(Split(text)) \in Nat \ {0}
<1> DEFINE l == Len(text)
           N == Breaks(text)
           c == Cardinality(N)
           first(k) == IF k = 1 THEN 1 ELSE Break(text, k - 1) + 1
           last(k)  == IF k > c THEN Len(text) ELSE Break(text, k) - 1
           place(k) == Break(text, k)
           cnt(m) == Cardinality(UpTo(N, m))
<1>1. l \in Nat /\ N \subseteq 1..l /\ \A m \in N : m \in Nat
  <2>1. l \in Nat /\ N \subseteq 1..l BY DEF Breaks
  <2>2. QED BY <2>1
<1>2. /\ c \in Nat
      /\ \A m \in Nat : cnt(m) \in Nat /\ cnt(m) <= c
      /\ cnt(0) = 0
      /\ \A m, n \in Nat : m <= n => cnt(m) <= cnt(n)
      /\ \A m, n \in Nat : m < n /\ n \in N => cnt(m) < cnt(n)
  BY <1>1, Counting
<1>3. \A k \in 1..c : place(k) \in N /\ cnt(place(k)) = k BY <1>1, BreakIs
<1>4. Split(text) = [k \in 1..c + 1 |-> SubSeq(text, first(k), last(k))] BY DEF Split
<1>5. \A m \in 1..l : m \in N <=> text[m] = LF BY DEF Breaks
<1>6. ASSUME NEW k \in 1..c + 1 PROVE first(k) = IF k = 1 THEN 1 ELSE place(k - 1) + 1 OBVIOUS
<1>7. ASSUME NEW k \in 1..c + 1 PROVE last(k) = IF k = c + 1 THEN l ELSE place(k) - 1
  <2>1. c \in Nat /\ k \in 1..c + 1 BY <1>2
  <2> HIDE DEF c
  <2>2. k > c <=> k = c + 1 BY ONLY <2>1
  <2>3. QED BY ONLY <2>2
<1> HIDE DEF l, N, c, first, last, place, cnt
<1>8. ASSUME NEW k \in 1..c, k + 1 \in 1..c PROVE place(k) < place(k + 1)
  <2>1. place(k) \in Nat /\ place(k + 1) \in Nat BY <1>1, <1>3, <1>8
  <2>2. cnt(place(k)) = k /\ cnt(place(k + 1)) = k + 1 BY <1>3, <1>8
  <2>3. ~(place(k + 1) <= place(k)) BY <1>2, <2>1, <2>2
  <2>4. QED BY <2>1, <2>3
<1>9. ASSUME NEW k \in 1..c + 1
      PROVE  first(k) \in 1..l + 1 /\ last(k) \in 0..l /\ first(k) <= last(k) + 1
  <2>1. k = 1 \/ (k - 1 \in 1..c /\ k - 1 + 1 = k) BY <1>2
  <2>2. k = c + 1 \/ k \in 1..c BY <1>2
  <2>3. first(k) \in 1..l + 1
    <3>1. CASE k = 1 BY <1>1, <1>6, <3>1
    <3>2. CASE k # 1
      <4>1. place(k - 1) \in 1..l BY <1>1, <1>3, <2>1, <3>2
      <4>2. QED BY <1>1, <1>6, <3>2, <4>1
    <3>3. QED BY <3>1, <3>2
  <2>4. last(k) \in 0..l
    <3>1. CASE k = c + 1 BY <1>1, <1>7, <3>1
    <3>2. CASE k # c + 1
      <4>1. place(k) \in 1..l BY <1>1, <1>3, <2>2, <3>2
      <4>2. QED BY <1>1, <1>7, <3>2, <4>1
    <3>3. QED BY <3>1, <3>2
  <2>5. first(k) <= last(k) + 1
    <3>1. CASE k = c + 1
      <4>1. last(k) = l BY <1>7, <3>1
      <4>2. QED BY <1>1, <2>3, <4>1
    <3>2. CASE k # c + 1 /\ k = 1
      <4>1. first(k) = 1 BY <1>6, <3>2
      <4>2. QED BY <1>1, <2>4, <4>1
    <3>3. CASE k # c + 1 /\ k # 1
      <4>1. k \in 1..c /\ k - 1 \in 1..c /\ k - 1 + 1 = k BY <2>1, <2>2, <3>3
      <4>2. place(k - 1) < place(k) BY <1>8, <4>1
      <4>3. place(k - 1) \in 1..l /\ place(k) \in 1..l BY <1>1, <1>3, <4>1
      <4>4. first(k) = place(k - 1) + 1 /\ last(k) = place(k) - 1 BY <1>6, <1>7, <3>3
      <4>5. QED BY <1>1, <4>2, <4>3, <4>4
    <3>4. QED BY <3>1, <3>2, <3>3
  <2>6. QED BY <2>3, <2>4, <2>5
<1>10. ASSUME NEW k \in 1..c + 1, NEW p \in 1..l, first(k) <= p, p <= last(k) PROVE text[p] # LF
  <2> SUFFICES ASSUME p \in N PROVE FALSE BY <1>5
  <2>1. p \in Nat /\ cnt(p) \in Nat BY <1>1, <1>2
  <2>2. cnt(p) >= k
    <3>1. CASE k = 1
      <4>1. 0 < p /\ 0 \in Nat BY <1>1
      <4>2. cnt(0) < cnt(p) BY <1>2, <2>1, <4>1
      <4>3. QED BY <1>2, <2>1, <3>1, <4>2
    <3>2. CASE k # 1
      <4>1. k - 1 \in 1..c BY <1>2, <3>2
      <4>2. place(k - 1) \in Nat /\ cnt(place(k - 1)) = k - 1 BY <1>1, <1>3, <4>1
      <4>3. place(k - 1) < p BY <1>6, <1>10, <2>1, <3>2, <4>2
      <4>4. cnt(place(k - 1)) < cnt(p) BY <1>2, <2>1, <4>2, <4>3
      <4>5. QED BY <1>2, <2>1, <4>2, <4>4
    <3>3. QED BY <3>1, <3>2
  <2>3. CASE k = c + 1
    <3>1. cnt(p) <= c BY <1>2, <2>1
    <3>2. QED BY <1>2, <2>1, <2>2, <2>3, <3>1
  <2>4. CASE k # c + 1
    <3>1. k \in 1..c BY <1>2, <2>4
    <3>2. place(k) \in N /\ place(k) \in Nat /\ cnt(place(k)) = k BY <1>1, <1>3, <3>1
    <3>3. p < place(k) BY <1>7, <1>10, <2>1, <2>4, <3>2
    <3>4. cnt(p) < cnt(place(k)) BY <1>2, <2>1, <3>2, <3>3
    <3>5. QED BY <1>2, <2>1, <2>2, <3>2, <3>4
  <2>5. QED BY <2>3, <2>4
<1>11. ASSUME NEW k \in 1..c + 1 PROVE SubSeq(text, first(k), last(k)) \in Seq(S \ {LF})
  <2> DEFINE x == first(k)
             y == last(k)
             token == SubSeq(text, x, y)
  <2>1. x \in 1..Len(text) + 1 /\ y \in 0..Len(text) /\ x <= y + 1 BY <1>9 DEF l
  <2> HIDE DEF x, y
  <2>2. /\ token \in Seq(S) /\ Len(token) = y + 1 - x
        /\ \A m \in 1..Len(token) : token[m] = text[x + m - 1]
    BY ONLY <2>1, text \in Seq(S), Part
  <2> HIDE DEF token
  <2>3. ASSUME NEW m \in 1..Len(token) PROVE token[m] \in S \ {LF}
    <3>1. x + m - 1 \in 1..Len(text) /\ x <= x + m - 1 /\ x + m - 1 <= y BY <2>1, <2>2
    <3>2. text[x + m - 1] # LF BY <1>10, <3>1 DEF x, y, l
    <3>3. token[m] \in S BY <2>2
    <3>4. QED BY <2>2, <3>2, <3>3
  <2>4. token \in Seq(S \ {LF}) BY ONLY <2>2, <2>3, Elements
  <2>5. QED BY <2>4 DEF token, x, y
<1>12. Split(text) \in [1..c + 1 -> Seq(S \ {LF})] BY <1>4, <1>11
<1>13. c + 1 \in Nat BY <1>2
<1>14. Split(text) \in Seq(Seq(S \ {LF})) /\ Len(Split(text)) = c + 1 BY ONLY <1>12, <1>13
<1>15. QED BY <1>2, <1>14

-----------------------------------------------------------------------------
(* The client: the inductive invariant. *)

\* The text is a stream of packets, from the beginning of packet i on.
StreamOf(text, i) ==
    \A q \in 0..PacketCount, r \in 1..Size :
        Size * q + r <= Len(text) =>
            text[Size * q + r] = IF r = Size THEN LF ELSE [packet |-> i + q, part |-> r]

\* What this session's own receiver has kept, and its lines.
Mine == pending[Current]
Todo == packets[Current]

Unread == Mine \o wire

\* The reader is at packet i, of which it may have kept a start.
ReadingInv(i) ==
    /\ Len(Mine) < Size
    /\ Len(Unread) = Size * (sent + 1 - i)
    /\ StreamOf(Unread, i)

\* The lines still to be processed are the packets from n on.
LinesInv(i, n) ==
    /\ Todo = <<>> => n = i
    /\ Todo # <<>> =>
        /\ Len(Todo) = i + 1 - n
        /\ \A j \in 1..i - n : Todo[j] = Whole(n + j - 1)
        /\ Todo[i + 1 - n] = <<>>

\* Of this connection's packets those before n were handed on.
DoneInv(n) ==
    /\ \A j \in before + 1..n - 1 : Whole(j) \in Range(processed)
    /\ \A j \in n..PacketCount : Whole(j) \notin Range(processed)

Placed(i, n) == ReadingInv(i) /\ LinesInv(i, n) /\ DoneInv(n)

Tracked == \E i, n \in before + 1..sent + 1 : n <= i /\ Placed(i, n)

\* Where a receiver can be: not yet there, its session not having begun, with
\* nothing kept; or inside recv() with all its lines done, and on the socket
\* of this session only if it is its own or the session is shared.
PlaceInv(r) ==
    /\ r > Current \/ (r = Current /\ ~inChat) => at[r] = "off"
    /\ at[r] = "off" => pending[r] = <<>> /\ packets[r] = <<>>
    /\ at[r] = "recv" => packets[r] = <<>> /\ sock[r] # 0
    /\ at[r] = "recv" /\ sock[r] = Current /\ r # Current => shared
    /\ at[r] = "recv" /\ r = Current => sock[r] = Current

OutInv == ~inChat => wire = <<>> /\ before = sent /\ ~shared

\* No packet is handed on before it is written.
NewInv == \A j \in sent + 1..PacketCount : Whole(j) \notin Range(processed)

IInv ==
    /\ TypeOK /\ OutInv /\ NewInv
    /\ \A r \in Receivers : PlaceInv(r)
    /\ Alone => Tracked

\* split() cuts a stream from the beginning of packet i on into whole packets
\* and the first d pieces of another.
LEMMA SplitTokens ==
  ASSUME NEW S, NEW text \in Seq(S), NEW i \in Nat, i >= 1, StreamOf(text, i), PacketCount \in Nat,
         NEW c \in Nat, NEW d \in 0..4, Len(text) = 5 * c + d, Len(text) <= 5 * PacketCount
  PROVE  /\ Split(text) \in Seq(Seq(S)) /\ Len(Split(text)) = c + 1
         /\ \A t \in 1..c : Split(text)[t] = Whole(i + t - 1)
         /\ Split(text)[c + 1] = SubSeq(text, 5 * c + 1, Len(text))
<1>1. ASSUME NEW p \in 1..Len(text) PROVE text[p] = Piece(5 * (i - 1) + p)
  <2>1. PICK q \in Nat, r \in 1..5 : p = 5 * q + r
    <3>1. p \in Nat /\ p > 0 OBVIOUS
    <3>2. QED BY ONLY <3>1, PlaceOf
  <2>2. q \in 0..PacketCount /\ 5 * q + r <= Len(text) BY <2>1
  <2>3. text[p] = IF r = 5 THEN LF ELSE [packet |-> i + q, part |-> r]
    BY <2>1, <2>2 DEF StreamOf, Size
  <2>4. i + q \in Nat /\ i + q >= 1 /\ 5 * (i - 1) + p = 5 * ((i + q) - 1) + r BY <2>1
  <2>5. Piece(5 * ((i + q) - 1) + r) = IF r = 5 THEN LF ELSE [packet |-> i + q, part |-> r]
    BY ONLY <2>4, r \in 1..5, PieceIs
  <2>6. QED BY <2>3, <2>4, <2>5
<1>2. Covers(text, i, 1, c, d)
  <2>1. 5 * (i - 1) + (1 - 1) = 5 * (i - 1) /\ 5 * c + d - (1 - 1) = 5 * c + d OBVIOUS
  <2>2. QED BY <1>1, <2>1 DEF Covers, At, Size
<1>3. Split(text) \in Seq(Seq(S)) /\ TokensOf(Split(text), i, 1, c, d)
  <2>1. 1 \in 1..5 OBVIOUS
  <2>2. QED BY ONLY <1>2, <2>1, text \in Seq(S), i \in Nat, i >= 1, c \in Nat, d \in 0..4, SplitRuns
<1>4. ASSUME NEW t \in 1..c PROVE Split(text)[t] = Whole(i + t - 1)
  <2>1. t \in 1..c + 1 /\ t <= c OBVIOUS
  <2>2. Split(text)[t] = Run(i + t - 1, 1, 4) BY <1>3, <2>1 DEF TokensOf, Token
  <2>3. QED BY <2>2, WholeRun
<1>5. Split(text)[c + 1] = Run(i + c, 1, d)
  <2>1. c + 1 \in 1..c + 1 /\ ~(c + 1 <= c) /\ i + (c + 1) - 1 = i + c OBVIOUS
  <2>2. QED BY <1>3, <2>1 DEF TokensOf, Token
<1>6. SubSeq(text, 5 * c + 1, Len(text)) = Run(i + c, 1, d)
  <2> DEFINE a == 5 * (i - 1)
             x == 5 * c + 1
             y == Len(text)
             j == i + c
             m == 1
  <2>1. /\ a \in Nat /\ x \in 1..Len(text) + 1 /\ y \in 0..Len(text) /\ x <= y + 1
        /\ j \in Nat /\ j >= 1 /\ m \in 1..5 /\ a + x = 5 * (j - 1) + m /\ y - x = d - m
    OBVIOUS
  <2>2. At(text, a) BY <1>1 DEF At
  <2> HIDE DEF a, x, y, j, m
  <2>3. SubSeq(text, x, y) = Run(j, m, d)
    BY ONLY <2>1, <2>2, text \in Seq(S), d \in 0..4, TokenIsRun, SMTT(30)
  <2>4. QED BY <2>3 DEF x, y, j, m
<1>7. Len(Split(text)) = c + 1 BY <1>3 DEF TokensOf
<1>8. QED BY <1>3, <1>4, <1>5, <1>6, <1>7

-----------------------------------------------------------------------------
(* The client: every step keeps the invariant. *)

\* Numbers and lengths of the stream.
LEMMA StreamTypes ==
  ASSUME TypeOK
  PROVE  /\ PacketCount \in Nat /\ DataLen \in Nat /\ DataLen > 5
         /\ sent \in Nat /\ sent <= PacketCount /\ before \in Nat /\ before <= sent
         /\ drops \in Nat /\ drops <= MaxDrops /\ MaxDrops \in Nat
         /\ Current \in Nat /\ Current \in Receivers
         /\ wire \in Seq(Bytes) /\ Len(wire) \in Nat
         /\ Mine \in Seq(Bytes \ {LF}) /\ Todo \in Lines
         /\ Mine \in Seq(Bytes) /\ Len(Mine) \in Nat
         /\ Unread \in Seq(Bytes) /\ Len(Unread) = Len(Mine) + Len(wire)
         /\ \A m \in 1..Len(Mine) : Unread[m] = Mine[m]
         /\ \A m \in 1..Len(wire) : Unread[Len(Mine) + m] = wire[m]
<1>1. PacketCount \in Nat /\ DataLen \in Nat /\ DataLen > 5 /\ MaxDrops \in Nat
  BY StreamAssumption, Pieces
<1>2. /\ sent \in Nat /\ sent <= PacketCount /\ before \in Nat /\ before <= sent
      /\ drops \in Nat /\ drops <= MaxDrops
  BY <1>1 DEF TypeOK, StreamTypeOK
<1>3. wire \in Seq(Bytes) /\ Len(wire) \in Nat BY DEF TypeOK, StreamTypeOK
<1>4. Current \in Nat /\ Current \in Receivers BY <1>1, <1>2 DEF Current, Receivers
<1>5. Mine \in Seq(Bytes \ {LF}) /\ Todo \in Lines
  <2>1. pending \in [Receivers -> Seq(Bytes \ {LF})] /\ packets \in [Receivers -> Lines] BY DEF TypeOK
  <2>2. QED BY ONLY <1>4, <2>1 DEF Mine, Todo
<1>6. Mine \in Seq(Bytes) /\ Len(Mine) \in Nat
  <2>1. Mine \in Seq(Bytes) BY <1>5, OfMore
  <2>2. QED BY <2>1
<1>7. /\ Unread \in Seq(Bytes) /\ Len(Unread) = Len(Mine) + Len(wire)
      /\ \A m \in 1..Len(Mine) : Unread[m] = Mine[m]
      /\ \A m \in 1..Len(wire) : Unread[Len(Mine) + m] = wire[m]
  BY ONLY <1>3, <1>6, Joined DEF Unread
<1>8. QED BY <1>1, <1>2, <1>3, <1>4, <1>5, <1>6, <1>7

\* A step that leaves the stream and this session's own receiver alone.
LEMMA TrackedFrame ==
  ASSUME Tracked, wire' = wire, sent' = sent, before' = before, processed' = processed,
         Mine' = Mine, Todo' = Todo
  PROVE  Tracked'
<1>1. PICK i, n \in before + 1..sent + 1 : n <= i /\ Placed(i, n) BY DEF Tracked
<1>2. Unread' = Unread BY DEF Unread
<1>3. ReadingInv(i)' /\ LinesInv(i, n)' /\ DoneInv(n)'
  BY <1>1, <1>2 DEF Placed, ReadingInv, LinesInv, DoneInv
<1>4. i \in (before + 1..sent + 1)' /\ n \in (before + 1..sent + 1)' BY <1>1
<1>5. QED BY <1>1, <1>3, <1>4 DEF Placed, Tracked

\* A receiver without anything starts at the first packet of its session.
LEMMA TrackedFresh ==
  ASSUME TypeOK, NewInv, Mine = <<>>, Todo = <<>>, wire = <<>>, before = sent
  PROVE  Tracked
<1>1. sent \in Nat /\ before \in Nat /\ PacketCount \in Nat /\ sent <= PacketCount BY StreamTypes
<1>2. Len(Mine) = 0 /\ Len(wire) = 0 OBVIOUS
<1>3. Len(Unread) = 0 BY <1>2, StreamTypes
<1>4. PICK e : e = sent + 1 OBVIOUS
<1>5. ReadingInv(e) BY <1>1, <1>2, <1>3, <1>4 DEF ReadingInv, StreamOf, Size
<1>6. LinesInv(e, e) BY DEF LinesInv
<1>7. DoneInv(e)
  <2>1. before + 1..e - 1 = {} BY <1>1, <1>4
  <2>2. QED BY <1>4, <2>1 DEF DoneInv, NewInv
<1>8. e \in before + 1..sent + 1 /\ e <= e BY <1>1, <1>4
<1>9. QED BY <1>5, <1>6, <1>7, <1>8 DEF Placed, Tracked

LEMMA InitIInv == Init => IInv
<1> SUFFICES ASSUME Init PROVE IInv OBVIOUS
<1>1. wire = <<>> /\ sent = 0 /\ drops = 0 /\ before = 0 /\ processed = <<>> /\ ~inChat /\ ~shared
  BY DEF Init, StreamInit
<1>2. TypeOK
  <2>1. wire \in Seq(Bytes) BY <1>1
  <2>2. <<>> \in Seq(Bytes \ {LF}) /\ <<>> \in Lines /\ <<>> \in Seq(Bytes) BY DEF Lines
  <2>3. pending \in [Receivers -> Seq(Bytes \ {LF})] BY <2>2 DEF Init
  <2>4. packets \in [Receivers -> Lines] /\ processed \in Lines BY <2>2 DEF Init
  <2>5. leftover \in [Receivers -> Seq(Bytes)] BY <2>2 DEF Init
  <2>6. at \in [Receivers -> {"off", "loop", "recv", "got", "ended"}] BY DEF Init
  <2>7. sock \in [Receivers -> 0..Current] BY <1>1 DEF Init, Current
  <2>8. inChat \in BOOLEAN /\ shared \in BOOLEAN BY DEF Init
  <2>9. StreamTypeOK BY <1>1, <2>1, StreamAssumption DEF StreamTypeOK
  <2>10. QED BY <2>3, <2>4, <2>5, <2>6, <2>7, <2>8, <2>9 DEF TypeOK
<1>3. NewInv BY <1>1 DEF NewInv, Range
<1>4. OutInv BY <1>1 DEF OutInv
<1>5. ASSUME NEW r \in Receivers PROVE PlaceInv(r)
  <2>1. at[r] = "off" /\ pending[r] = <<>> /\ packets[r] = <<>> BY DEF Init
  <2>2. QED BY <2>1 DEF PlaceInv
<1>6. QED BY <1>1, <1>2, <1>3, <1>4, <1>5 DEF IInv, Alone

LEMMA WriteKeeps == ASSUME IInv, BridgeWrites, Alone PROVE Tracked'
<1>1. PICK i, n \in before + 1..sent + 1 : n <= i /\ Placed(i, n) BY DEF IInv, Tracked
<1>2. TypeOK BY DEF IInv
<1> DEFINE more == Append(Whole(sent + 1), LF)
<1>3. /\ sent < PacketCount /\ sent' = sent + 1 /\ wire' = Append(wire \o Whole(sent + 1), LF)
      /\ UNCHANGED <<drops, before, Mine, Todo, processed>>
  BY DEF BridgeWrites, Write, Mine, Todo, Current
<1>4. sent + 1 \in Packets
  <2>1. sent \in Nat /\ PacketCount \in Nat BY <1>2, StreamTypes
  <2>2. QED BY ONLY <1>3, <2>1 DEF Packets
<1>5. Whole(sent + 1) \in Seq(Bytes) /\ Len(Whole(sent + 1)) = 4
  <2> DEFINE whole == Whole(sent + 1)
  <2>1. whole \in Seq(Bytes \ {LF}) BY <1>4, WholePacket
  <2>2. Len(whole) = 4 BY WholePacket
  <2> HIDE DEF whole
  <2>3. whole \in Seq(Bytes) BY <2>1, OfMore
  <2>4. QED BY <2>2, <2>3 DEF whole
<1>6. LF \in Bytes BY DEF Bytes
<1>7. /\ wire' \in Seq(Bytes) /\ Len(wire') = Len(wire) + 5
      /\ \A m \in 1..Len(wire) : wire'[m] = wire[m]
      /\ \A k \in 1..4 : wire'[Len(wire) + k] = Whole(sent + 1)[k]
      /\ wire'[Len(wire) + 5] = LF
  <2> DEFINE whole == Whole(sent + 1)
  <2>1. wire \in Seq(Bytes) /\ whole \in Seq(Bytes) BY <1>2, <1>5, StreamTypes
  <2>2. wire' = Append(wire \o whole, LF) BY <1>3
  <2>3. Len(whole) = 4 BY <1>5
  <2> HIDE DEF whole
  <2>4. /\ wire' \in Seq(Bytes) /\ Len(wire') = Len(wire) + Len(whole) + 1
        /\ \A m \in 1..Len(wire) : wire'[m] = wire[m]
        /\ \A k \in 1..Len(whole) : wire'[Len(wire) + k] = whole[k]
        /\ wire'[Len(wire) + Len(whole) + 1] = LF
    BY <1>6, <2>1, <2>2, Written
  <2>5. Len(wire) \in Nat BY <2>1
  <2>6. Len(wire) + Len(whole) + 1 = Len(wire) + 5 /\ 1..Len(whole) = 1..4 BY <2>3, <2>5
  <2>7. wire'[Len(wire) + 5] = LF /\ Len(wire') = Len(wire) + 5 BY <2>4, <2>6
  <2>8. \A k \in 1..4 : wire'[Len(wire) + k] = whole[k] BY <2>4, <2>6
  <2>9. \A k \in 1..4 : wire'[Len(wire) + k] = Whole(sent + 1)[k] BY <2>8 DEF whole
  <2>10. QED BY <2>4, <2>7, <2>9
<1>9. ReadingInv(i)'
  <2>1. Len(Mine) < 5 /\ Len(Unread) = 5 * (sent + 1 - i) /\ StreamOf(Unread, i)
    BY <1>1 DEF Placed, ReadingInv, Size
  <2>2. /\ Len(Unread') = Len(Unread) + 5
        /\ \A m \in 1..Len(Unread) : Unread'[m] = Unread[m]
        /\ \A k \in 1..4 : Unread'[Len(Unread) + k] = Whole(sent + 1)[k]
        /\ Unread'[Len(Unread) + 5] = LF
    <3>1. Mine \in Seq(Bytes) /\ wire \in Seq(Bytes) BY <1>2, StreamTypes
    <3>2. Unread' = Mine \o wire' BY <1>3 DEF Unread
    <3>3. Unread = Mine \o wire BY DEF Unread
    <3>4. wire' \in Seq(Bytes) /\ Len(wire') = Len(wire) + 5 /\ Len(wire) \in Nat /\ Len(Mine) \in Nat
      BY <1>7, <3>1
    <3>5. Len(Unread') = Len(Mine) + Len(wire') /\ Len(Unread) = Len(Mine) + Len(wire)
      BY <3>1, <3>2, <3>3, <3>4, Joined
    <3>6. /\ \A m \in 1..Len(Mine) : Unread'[m] = Mine[m]
          /\ \A m \in 1..Len(wire') : Unread'[Len(Mine) + m] = wire'[m]
      BY <3>1, <3>2, <3>4, Joined
    <3>7. /\ \A m \in 1..Len(Mine) : Unread[m] = Mine[m]
          /\ \A m \in 1..Len(wire) : Unread[Len(Mine) + m] = wire[m]
      BY <1>2, StreamTypes
    <3>8. ASSUME NEW m \in 1..Len(Unread) PROVE Unread'[m] = Unread[m]
      <4>1. CASE m \in 1..Len(Mine) BY <3>6, <3>7, <4>1
      <4>2. CASE m \notin 1..Len(Mine)
        <5>1. m - Len(Mine) \in 1..Len(wire) /\ m - Len(Mine) \in 1..Len(wire')
              /\ Len(Mine) + (m - Len(Mine)) = m
          BY <3>4, <3>5, <4>2
        <5>2. Unread'[Len(Mine) + (m - Len(Mine))] = wire'[m - Len(Mine)] BY <3>6, <5>1
        <5>3. Unread[Len(Mine) + (m - Len(Mine))] = wire[m - Len(Mine)] BY <3>7, <5>1
        <5>4. wire'[m - Len(Mine)] = wire[m - Len(Mine)] BY <1>7, <5>1
        <5>5. QED BY <5>1, <5>2, <5>3, <5>4
      <4>3. QED BY <4>1, <4>2
    <3>9. ASSUME NEW k \in 1..5 PROVE Unread'[Len(Unread) + k] = wire'[Len(wire) + k]
      <4>1. Len(wire) + k \in 1..Len(wire') /\ Len(Mine) + (Len(wire) + k) = Len(Unread) + k
        BY <3>4, <3>5
      <4>2. QED BY <3>6, <4>1
    <3>10. QED BY <1>7, <3>4, <3>5, <3>8, <3>9
  <2>3. sent \in Nat /\ i \in Nat /\ PacketCount \in Nat /\ i <= sent + 1 BY <1>2, StreamTypes
  <2>4. StreamOf(Unread, i)'
    <3> SUFFICES ASSUME NEW q \in 0..PacketCount, NEW r \in 1..5, 5 * q + r <= Len(Unread')
                 PROVE  Unread'[5 * q + r] = IF r = 5 THEN LF ELSE [packet |-> i + q, part |-> r]
      BY DEF StreamOf, Size
    <3>1. CASE 5 * q + r <= Len(Unread)
      <4>1. Unread[5 * q + r] = IF r = 5 THEN LF ELSE [packet |-> i + q, part |-> r]
        BY <2>1, <3>1 DEF StreamOf, Size
      <4>2. 5 * q + r \in 1..Len(Unread) BY <2>1, <2>2, <2>3, <3>1
      <4>3. Unread'[5 * q + r] = Unread[5 * q + r] BY ONLY <2>2, <4>2
      <4>4. QED BY <4>1, <4>3
    <3>2. CASE 5 * q + r > Len(Unread)
      <4>1. q = sent + 1 - i /\ 5 * q + r = Len(Unread) + r /\ i + q = sent + 1 
          BY ONLY <2>1, <2>2, <2>3, <3>2, q \in 0..PacketCount, r \in 1..5, 5 * q + r <= Len(Unread')
      <4>2. CASE r = 5 BY <2>2, <4>1, <4>2
      <4>3. CASE r # 5
        <5>1. r \in 1..4 BY <4>3
        <5>2. Unread'[5 * q + r] = Whole(sent + 1)[r] BY <2>2, <4>1, <5>1
        <5>3. Whole(sent + 1)[r] = [packet |-> sent + 1, part |-> r] BY <5>1, Pieces DEF Whole
        <5>4. QED BY <4>1, <4>3, <5>2, <5>3
      <4>4. QED BY <4>2, <4>3
    <3>3. QED BY <2>1, <2>3, <3>1, <3>2
  <2>5. Len(Unread') = 5 * (sent' + 1 - i) BY <1>3, <2>1, <2>2, <2>3
  <2>6. QED BY <1>3, <2>1, <2>4, <2>5 DEF ReadingInv, Size
<1>10. LinesInv(i, n)' /\ DoneInv(n)' BY <1>1, <1>3 DEF Placed, LinesInv, DoneInv
<1>11. i \in (before + 1..sent + 1)' /\ n \in (before + 1..sent + 1)'
  <2>1. sent \in Nat /\ before \in Nat BY <1>2, StreamTypes
  <2>2. before' = before /\ sent' = sent + 1 BY <1>3
  <2>3. QED BY ONLY <2>1, <2>2, i \in before + 1..sent + 1, n \in before + 1..sent + 1
<1>12. QED BY <1>1, <1>9, <1>10, <1>11 DEF Placed, Tracked

\* Writing a packet.
LEMMA WriteTypes ==
  ASSUME TypeOK, Write
  PROVE  StreamTypeOK' /\ sent' = sent + 1 /\ drops' = drops /\ before' = before
<1>1. sent < PacketCount /\ sent' = sent + 1 /\ wire' = Append(wire \o Whole(sent + 1), LF)
      /\ drops' = drops /\ before' = before
  BY DEF Write
<1>2. PacketCount \in Nat /\ sent \in Nat /\ before \in Nat /\ before <= sent /\ wire \in Seq(Bytes)
      /\ drops \in Nat /\ drops <= MaxDrops /\ MaxDrops \in Nat
  BY StreamTypes
<1>3. wire' \in Seq(Bytes)
  <2> DEFINE whole == Whole(sent + 1)
  <2>1. sent + 1 \in Packets BY <1>1, <1>2 DEF Packets
  <2>2. whole \in Seq(Bytes \ {LF}) BY <2>1, WholePacket
  <2>3. wire' = Append(wire \o whole, LF) BY <1>1
  <2> HIDE DEF whole
  <2>4. whole \in Seq(Bytes) BY <2>2, OfMore
  <2>5. LF \in Bytes BY DEF Bytes
  <2>6. QED BY ONLY <1>2, <2>3, <2>4, <2>5, Written
<1>4. sent' \in 0..PacketCount /\ before' \in 0..sent' /\ drops' \in 0..MaxDrops BY ONLY <1>1, <1>2
<1>5. QED BY <1>1, <1>3, <1>4 DEF StreamTypeOK

LEMMA BridgeWritesKeeps == ASSUME IInv, BridgeWrites PROVE IInv'
<1>1. /\ inChat /\ Write
      /\ UNCHANGED <<inChat, at, sock, pending, packets, leftover, processed, shared>>
  BY DEF BridgeWrites
<1>2. TypeOK BY DEF IInv
<1>3. StreamTypeOK' /\ sent' = sent + 1 /\ drops' = drops /\ Current' = Current
  BY <1>1, <1>2, WriteTypes DEF Current
<1>4. TypeOK' BY <1>1, <1>2, <1>3 DEF TypeOK
<1>5. OutInv' BY <1>1 DEF OutInv
<1>6. NewInv'
  <2>1. sent \in Nat BY <1>2, StreamTypes
  <2>2. \A j \in sent' + 1..PacketCount : j \in sent + 1..PacketCount BY <1>3, <2>1
  <2>3. QED BY <1>1, <2>2 DEF NewInv, IInv
<1>7. ASSUME NEW r \in Receivers PROVE PlaceInv(r)'
  <2>1. PlaceInv(r) BY DEF IInv
  <2>2. QED BY <1>1, <1>3, <2>1 DEF PlaceInv
<1>8. Alone' => Tracked' BY <1>1, WriteKeeps DEF Alone
<1>9. QED BY <1>4, <1>5, <1>6, <1>7, <1>8 DEF IInv

\* The receiver of a new session starts at its first packet.
LEMMA EnterKeeps == ASSUME IInv, Enter PROVE IInv'
<1>1. /\ ~inChat /\ inChat' = TRUE /\ at' = [at EXCEPT ![Current] = "loop"]
      /\ UNCHANGED <<wire, sent, drops, before, sock, pending, packets, leftover, processed, shared>>
  BY DEF Enter, streamVars
<1>2. TypeOK BY DEF IInv
<1>3. Current' = Current /\ Current \in Receivers BY <1>1, <1>2, StreamTypes DEF Current
<1>4. at \in [Receivers -> {"off", "loop", "recv", "got", "ended"}] BY <1>2 DEF TypeOK
<1>5. at' \in [Receivers -> {"off", "loop", "recv", "got", "ended"}] BY ONLY <1>1, <1>3, <1>4
<1>6. TypeOK' BY <1>1, <1>2, <1>3, <1>5 DEF TypeOK, StreamTypeOK
<1>7. OutInv' /\ NewInv' BY <1>1 DEF IInv, OutInv, NewInv
<1>8. ASSUME NEW r \in Receivers PROVE PlaceInv(r)'
  <2>1. PlaceInv(r) BY DEF IInv
  <2>2. CASE r = Current
    <3>1. at'[r] = "loop" BY <1>3, <1>4, <1>1, <2>2
    <3>2. ~(r > Current) BY <1>2, <2>2, StreamTypes
    <3>3. QED BY <1>1, <1>3, <3>1, <3>2 DEF PlaceInv
  <2>3. CASE r # Current
    <3>1. at'[r] = at[r] BY <1>1, <1>4, <2>3
    <3>2. QED BY <1>1, <1>3, <2>1, <2>3, <3>1 DEF PlaceInv
  <2>4. QED BY <2>2, <2>3
<1>9. Tracked'
  <2>1. PlaceInv(Current) BY <1>3 DEF IInv
  <2>2. Mine = <<>> /\ Todo = <<>> BY <1>1, <2>1 DEF PlaceInv, Mine, Todo
  <2>3. wire = <<>> /\ before = sent BY <1>1 DEF IInv, OutInv
  <2>4. Tracked BY <1>2, <2>2, <2>3, TrackedFresh DEF IInv
  <2>5. Mine' = Mine /\ Todo' = Todo BY <1>1, <1>3 DEF Mine, Todo
  <2>6. QED BY <1>1, <2>4, <2>5, TrackedFrame
<1>10. QED BY <1>6, <1>7, <1>8, <1>9 DEF IInv

\* The end of a session, whoever brings it about.
LEMMA EndKeeps ==
  ASSUME IInv, EndSession, at' \in [Receivers -> {"off", "loop", "recv", "got", "ended"}],
         \A q \in Receivers : at'[q] = at[q] \/ (at[q] = "recv" /\ at'[q] = "loop"),
         UNCHANGED <<sock, pending, packets, processed>>
  PROVE  IInv'
<1>1. /\ drops < MaxDrops /\ drops' = drops + 1 /\ before' = sent /\ wire' = <<>> /\ sent' = sent
      /\ inChat' = FALSE /\ shared' = FALSE
  BY DEF EndSession, Lose
<1>2. TypeOK BY DEF IInv
<1>3. /\ drops \in Nat /\ MaxDrops \in Nat /\ sent \in Nat /\ Current \in Nat /\ Current \in Receivers
      /\ Current' = Current + 1
  BY <1>1, <1>2, StreamTypes DEF Current
<1>4. TypeOK'
  <2>1. StreamTypeOK'
    <3>1. <<>> \in Seq(Bytes) OBVIOUS
    <3>2. sent' \in 0..PacketCount BY <1>1, <1>2 DEF TypeOK, StreamTypeOK
    <3>3. drops' \in 0..MaxDrops /\ before' \in 0..sent' BY ONLY <1>1, <1>3
    <3>4. QED BY <1>1, <3>1, <3>2, <3>3 DEF StreamTypeOK
  <2>2. leftover' \in [Receivers -> Seq(Bytes)]
    <3>1. leftover \in [Receivers -> Seq(Bytes)] /\ wire \in Seq(Bytes) BY <1>2 DEF TypeOK, StreamTypeOK
    <3>2. <<>> \in Seq(Bytes) OBVIOUS
    <3>3. QED BY <1>3, <3>1, <3>2 DEF EndSession
  <2>3. sock' \in [Receivers -> 0..Current']
    <3>1. sock \in [Receivers -> 0..Current] BY <1>2 DEF TypeOK
    <3>2. 0..Current \subseteq 0..Current + 1 BY <1>3
    <3>3. QED BY <1>3, <3>1, <3>2
  <2>4. QED BY <1>1, <1>2, <2>1, <2>2, <2>3 DEF TypeOK
<1>5. OutInv' /\ NewInv' BY <1>1 DEF IInv, OutInv, NewInv
<1>6. ASSUME NEW r \in Receivers PROVE PlaceInv(r)'
  <2>1. PlaceInv(r) /\ r \in Nat BY DEF IInv, Receivers
  <2>2. sock[r] # Current + 1
    <3>1. sock[r] \in 0..Current BY <1>2 DEF TypeOK
    <3>2. QED BY <1>3, <3>1
  <2>3. r > Current' \/ r = Current' => r > Current BY <1>3, <2>1
  <2>4. at'[r] = "off" => at[r] = "off" OBVIOUS
  <2>5. at'[r] = "recv" => at[r] = "recv" OBVIOUS
  <2>6. r > Current => at[r] = "off" /\ at'[r] = "off" BY <2>1 DEF PlaceInv
  <2>7. sock'[r] # Current' BY <1>3, <2>2
  <2>8. r = Current' => at'[r] = "off" BY <2>3, <2>6
  <2>9. /\ at[r] = "off" => pending'[r] = <<>> /\ packets'[r] = <<>>
        /\ at[r] = "recv" => packets'[r] = <<>> /\ sock'[r] # 0
    BY <2>1 DEF PlaceInv
  <2>10. QED BY ONLY <2>3, <2>4, <2>5, <2>6, <2>7, <2>8, <2>9 DEF PlaceInv
<1>7. ~Alone' BY <1>1 DEF Alone
<1>8. QED BY <1>4, <1>5, <1>6, <1>7 DEF IInv

LEMMA LeaveKeeps == ASSUME IInv, Leave PROVE IInv'
<1>1. EndSession /\ UNCHANGED <<at, sock, pending, packets, processed>> BY DEF Leave
<1>2. at' \in [Receivers -> {"off", "loop", "recv", "got", "ended"}] BY <1>1 DEF IInv, TypeOK
<1>3. QED BY <1>1, <1>2, EndKeeps

\* Steps of one receiver that leave the stream and what it has kept alone.
LEMMA MoveKeeps ==
  ASSUME IInv, NEW r \in Receivers, at[r] # "off",
         NEW next \in {"loop", "recv", "got", "ended"}, at' = [at EXCEPT ![r] = next],
         \A q \in Receivers \ {r} : sock'[q] = sock[q],
         sock' \in [Receivers -> 0..Current], shared' \in BOOLEAN, shared => shared',
         ~inChat => ~shared',
         next = "recv" => packets[r] = <<>> /\ sock'[r] # 0 /\ (sock'[r] = Current /\ r # Current => shared')
                          /\ (r = Current => sock'[r] = Current),
         UNCHANGED <<wire, sent, drops, before, inChat, pending, packets, leftover, processed>>
  PROVE  IInv'
<1>1. TypeOK BY DEF IInv
<1>2. Current' = Current /\ Current \in Nat /\ r \in Nat BY <1>1, StreamTypes DEF Current, Receivers
<1>3. at \in [Receivers -> {"off", "loop", "recv", "got", "ended"}] BY <1>1 DEF TypeOK
<1>4. at' \in [Receivers -> {"off", "loop", "recv", "got", "ended"}] BY ONLY <1>3, at' = [at EXCEPT ![r] = next],
        next \in {"loop", "recv", "got", "ended"}
<1>5. TypeOK' BY <1>1, <1>2, <1>4 DEF TypeOK, StreamTypeOK
<1>6. OutInv' /\ NewInv' BY DEF IInv, OutInv, NewInv
<1>7. ASSUME NEW q \in Receivers PROVE PlaceInv(q)'
  <2>1. PlaceInv(q) BY DEF IInv
  <2>2. CASE q = r
    <3>1. at'[q] = next BY <1>3, <2>2
    <3>2. ~(q > Current \/ (q = Current /\ ~inChat)) BY <2>1, <2>2 DEF PlaceInv
    <3>3. QED BY <1>2, <2>2, <3>1, <3>2 DEF PlaceInv
  <2>3. CASE q # r
    <3>1. at'[q] = at[q] /\ sock'[q] = sock[q] BY <1>3, <2>3
    <3>2. QED BY <1>2, <2>1, <3>1 DEF PlaceInv
  <2>4. QED BY <2>2, <2>3
<1>8. Alone' => Tracked'
  <2>1. Mine' = Mine /\ Todo' = Todo BY <1>2 DEF Mine, Todo
  <2>2. Alone' => Alone BY DEF Alone
  <2>3. QED BY <2>1, <2>2, TrackedFrame DEF IInv
<1>9. QED BY <1>5, <1>6, <1>7, <1>8 DEF IInv

LEMMA CallRecvKeeps == ASSUME IInv, NEW r \in Receivers, CallRecv(r) PROVE IInv'
<1>1. /\ inChat /\ at[r] = "loop" /\ packets[r] = <<>>
      /\ at' = [at EXCEPT ![r] = "recv"] /\ sock' = [sock EXCEPT ![r] = Current]
      /\ shared' = (shared \/ r # Current)
      /\ UNCHANGED <<wire, sent, drops, before, inChat, pending, packets, leftover, processed>>
  BY DEF CallRecv, streamVars
<1>2. TypeOK BY DEF IInv
<1>3. sock \in [Receivers -> 0..Current] /\ shared \in BOOLEAN /\ Current \in Nat BY <1>2, StreamTypes DEF TypeOK
<1>4. sock' \in [Receivers -> 0..Current] /\ \A q \in Receivers \ {r} : sock'[q] = sock[q]
  BY ONLY <1>1, <1>3
<1>5. sock'[r] = Current /\ Current # 0
  <2>1. sock'[r] = Current BY ONLY <1>1, <1>3, r \in Receivers
  <2>2. Current # 0 BY <1>2, StreamTypes DEF Current
  <2>3. QED BY <2>1, <2>2
<1>6. shared' \in BOOLEAN /\ (shared => shared') /\ (r # Current => shared') BY <1>1, <1>3
<1>7. at[r] # "off" BY <1>1
<1>8. QED BY <1>1, <1>4, <1>5, <1>6, <1>7, MoveKeeps

LEMMA GoOnKeeps == ASSUME IInv, NEW r \in Receivers, GoOn(r) PROVE IInv'
<1>1. /\ at[r] = "got" /\ at' = [at EXCEPT ![r] = "loop"]
      /\ UNCHANGED <<wire, sent, drops, before, inChat, sock, pending, packets, leftover, processed, shared>>
  BY DEF GoOn, streamVars
<1>2. /\ sock' \in [Receivers -> 0..Current] /\ shared' \in BOOLEAN /\ (shared => shared') /\ (~inChat => ~shared')
      /\ \A q \in Receivers \ {r} : sock'[q] = sock[q]
  BY <1>1 DEF IInv, TypeOK, OutInv
<1>3. at[r] # "off" BY <1>1
<1>4. QED BY <1>1, <1>2, <1>3, MoveKeeps

LEMMA ClosedKeeps == ASSUME IInv, NEW r \in Receivers, Closed(r) PROVE IInv'
<1>1. at[r] = "recv" /\ UNCHANGED <<sock, pending, packets, processed>> BY DEF Closed
<1>2. at \in [Receivers -> {"off", "loop", "recv", "got", "ended"}] BY DEF IInv, TypeOK
<1>3. CASE EndSession /\ at' = [at EXCEPT ![r] = "loop"]
  <2>1. at' \in [Receivers -> {"off", "loop", "recv", "got", "ended"}] BY ONLY <1>2, <1>3
  <2>2. \A q \in Receivers : at'[q] = at[q] \/ (at[q] = "recv" /\ at'[q] = "loop") BY ONLY <1>1, <1>2, <1>3
  <2>3. QED BY <1>1, <1>3, <2>1, <2>2, EndKeeps
<1>4. CASE at' = [at EXCEPT ![r] = "ended"] /\ UNCHANGED <<streamVars, inChat, leftover, shared>>
  <2>1. UNCHANGED <<wire, sent, drops, before, inChat, sock, pending, packets, leftover, processed, shared>>
    BY <1>1, <1>4 DEF streamVars
  <2>2. /\ sock' \in [Receivers -> 0..Current] /\ shared' \in BOOLEAN /\ (shared => shared') /\ (~inChat => ~shared')
        /\ \A q \in Receivers \ {r} : sock'[q] = sock[q]
    BY <2>1 DEF IInv, TypeOK, OutInv
  <2>3. at[r] # "off" BY <1>1
  <2>4. QED BY <1>4, <2>1, <2>2, <2>3, MoveKeeps
<1>5. QED BY <1>3, <1>4 DEF Closed

\* A receiver drops lines, or all it has, outside a session.
LEMMA OutsideKeeps ==
  ASSUME IInv, ~inChat, NEW r \in Receivers, at[r] \in {"got", "loop"},
         at' \in [Receivers -> {"off", "loop", "recv", "got", "ended"}],
         at'[r] \in {"loop", "ended"}, \A q \in Receivers \ {r} : at'[q] = at[q],
         pending' \in [Receivers -> Seq(Bytes \ {LF})], \A q \in Receivers \ {r} : pending'[q] = pending[q],
         packets' \in [Receivers -> Lines], \A q \in Receivers \ {r} : packets'[q] = packets[q],
         UNCHANGED <<wire, sent, drops, before, inChat, sock, leftover, processed, shared>>
  PROVE  IInv'
<1>1. TypeOK BY DEF IInv
<1>2. Current' = Current BY DEF Current
<1>3. TypeOK' BY <1>1, <1>2 DEF TypeOK, StreamTypeOK
<1>4. OutInv' /\ NewInv' BY DEF IInv, OutInv, NewInv
<1>5. ASSUME NEW q \in Receivers PROVE PlaceInv(q)'
  <2>1. PlaceInv(q) BY DEF IInv
  <2>2. CASE q = r
    <3>1. ~(q > Current \/ (q = Current /\ ~inChat)) BY <2>1, <2>2 DEF PlaceInv
    <3>2. QED BY <1>2, <2>2, <3>1 DEF PlaceInv
  <2>3. CASE q # r
    <3>1. at'[q] = at[q] /\ pending'[q] = pending[q] /\ packets'[q] = packets[q] BY <2>3
    <3>2. QED BY <1>2, <2>1, <3>1 DEF PlaceInv
  <2>4. QED BY <2>2, <2>3
<1>6. ~Alone' BY DEF Alone
<1>7. QED BY <1>3, <1>4, <1>5, <1>6 DEF IInv

LEMMA AbandonKeeps == ASSUME IInv, NEW r \in Receivers, Abandon(r) PROVE IInv'
<1>1. /\ ~inChat /\ at[r] = "loop" /\ packets' = [packets EXCEPT ![r] = <<>>]
      /\ UNCHANGED <<wire, sent, drops, before, inChat, at, sock, pending, leftover, processed, shared>>
  BY DEF Abandon, streamVars
<1>2. /\ at' \in [Receivers -> {"off", "loop", "recv", "got", "ended"}]
      /\ pending' \in [Receivers -> Seq(Bytes \ {LF})] /\ packets \in [Receivers -> Lines]
  BY <1>1 DEF IInv, TypeOK
<1>3. <<>> \in Lines BY DEF Lines
<1>4. packets' \in [Receivers -> Lines] /\ \A q \in Receivers \ {r} : packets'[q] = packets[q]
  BY ONLY <1>1, <1>2, <1>3
<1>5. QED BY <1>1, <1>2, <1>4, OutsideKeeps

LEMMA StopKeeps == ASSUME IInv, NEW r \in Receivers, Stop(r) PROVE IInv'
<1>1. /\ ~inChat /\ at[r] \in {"got", "loop"} /\ at' = [at EXCEPT ![r] = "ended"]
      /\ pending' = [pending EXCEPT ![r] = <<>>] /\ packets' = [packets EXCEPT ![r] = <<>>]
      /\ UNCHANGED <<wire, sent, drops, before, inChat, sock, leftover, processed, shared>>
  BY DEF Stop, streamVars
<1>2. /\ at \in [Receivers -> {"off", "loop", "recv", "got", "ended"}]
      /\ pending \in [Receivers -> Seq(Bytes \ {LF})] /\ packets \in [Receivers -> Lines]
  BY DEF IInv, TypeOK
<1>3. <<>> \in Lines /\ <<>> \in Seq(Bytes \ {LF}) BY DEF Lines
<1>4. packets' \in [Receivers -> Lines] /\ \A q \in Receivers \ {r} : packets'[q] = packets[q]
  BY ONLY <1>1, <1>2, <1>3
<1>5. pending' \in [Receivers -> Seq(Bytes \ {LF})] /\ \A q \in Receivers \ {r} : pending'[q] = pending[q]
  BY ONLY <1>1, <1>2, <1>3
<1>6. /\ at' \in [Receivers -> {"off", "loop", "recv", "got", "ended"}] /\ at'[r] = "ended"
      /\ \A q \in Receivers \ {r} : at'[q] = at[q]
  BY ONLY <1>1, <1>2, r \in Receivers
<1>7. QED BY <1>1, <1>4, <1>5, <1>6, OutsideKeeps

\* What a recv() does to the receiver that called it, whatever it holds.
LEMMA KeepForm ==
  ASSUME TypeOK, NEW r \in Receivers, NEW data \in Seq(Bytes), Keep(r, data)
  PROVE  /\ at' \in [Receivers -> {"off", "loop", "recv", "got", "ended"}] /\ at'[r] = "got"
         /\ pending' \in [Receivers -> Seq(Bytes \ {LF})] /\ packets' \in [Receivers -> Lines]
         /\ \A q \in Receivers \ {r} : at'[q] = at[q] /\ pending'[q] = pending[q] /\ packets'[q] = packets[q]
         /\ packets'[r] = Append(Front(Split(pending[r] \o data)), <<>>)
         /\ pending'[r] = IF Len(Last(Split(pending[r] \o data))) < DataLen
                          THEN Last(Split(pending[r] \o data)) ELSE <<>>
<1> DEFINE text  == pending[r] \o data
           lines == Split(text)
           kept  == IF Len(Last(lines)) < DataLen THEN Last(lines) ELSE <<>>
           todo  == Append(Front(lines), <<>>)
<1>1. /\ at \in [Receivers -> {"off", "loop", "recv", "got", "ended"}]
      /\ pending \in [Receivers -> Seq(Bytes \ {LF})] /\ packets \in [Receivers -> Lines]
  BY DEF TypeOK
<1>2. /\ packets' = [packets EXCEPT ![r] = todo] /\ pending' = [pending EXCEPT ![r] = kept]
      /\ at' = [at EXCEPT ![r] = "got"]
  BY DEF Keep
<1>3. text \in Seq(Bytes)
  <2>1. pending[r] \in Seq(Bytes \ {LF}) BY <1>1
  <2>2. pending[r] \in Seq(Bytes) BY ONLY <2>1
  <2>3. QED BY ONLY <2>2, data \in Seq(Bytes), Joined
<1> HIDE DEF text
<1>4. lines \in Seq(Seq(Bytes \ {LF})) /\ Len(lines) \in Nat \ {0} BY ONLY <1>3, SplitOfAny
<1> HIDE DEF lines
<1>5. <<>> \in Seq(Bytes \ {LF}) OBVIOUS
<1>6. kept \in Seq(Bytes \ {LF})
  <2>1. Last(lines) \in Seq(Bytes \ {LF}) BY ONLY <1>4 DEF Last
  <2>2. QED BY ONLY <1>5, <2>1
<1>7. todo \in Lines
  <2>1. SubSeq(lines, 1, Len(lines) - 1) \in Seq(Seq(Bytes \ {LF}))
    <3>1. 1 \in 1..Len(lines) + 1 /\ Len(lines) - 1 \in 0..Len(lines) /\ 1 <= Len(lines) - 1 + 1 BY ONLY <1>4
    <3>2. QED BY ONLY <1>4, <3>1, Part
  <2>2. Front(lines) \in Seq(Seq(Bytes \ {LF})) BY <2>1 DEF Front
  <2>3. QED BY ONLY <1>5, <2>2 DEF Lines
<1> HIDE DEF kept, todo
<1>8. /\ at' \in [Receivers -> {"off", "loop", "recv", "got", "ended"}] /\ at'[r] = "got"
      /\ \A q \in Receivers \ {r} : at'[q] = at[q]
  BY ONLY <1>1, <1>2, r \in Receivers
<1>9. /\ pending' \in [Receivers -> Seq(Bytes \ {LF})] /\ pending'[r] = kept
      /\ \A q \in Receivers \ {r} : pending'[q] = pending[q]
  BY ONLY <1>1, <1>2, <1>6, r \in Receivers
<1>10. /\ packets' \in [Receivers -> Lines] /\ packets'[r] = todo
       /\ \A q \in Receivers \ {r} : packets'[q] = packets[q]
  BY ONLY <1>1, <1>2, <1>7, r \in Receivers
<1>11. packets'[r] = Append(Front(Split(pending[r] \o data)), <<>>)
  BY ONLY <1>10 DEF todo, lines, text
<1>12. pending'[r] = IF Len(Last(Split(pending[r] \o data))) < DataLen
                     THEN Last(Split(pending[r] \o data)) ELSE <<>>
  BY ONLY <1>9 DEF kept, lines, text
<1>13. QED BY ONLY <1>8, <1>9, <1>10, <1>11, <1>12

\* The first k bytes of a text, and what is left of it.
LEMMA Cut ==
  ASSUME NEW S, NEW list \in Seq(S), NEW k \in 1..Len(list)
  PROVE  /\ SubSeq(list, 1, k) \in Seq(S) /\ Len(SubSeq(list, 1, k)) = k
         /\ SubSeq(list, k + 1, Len(list)) \in Seq(S)
<1>0. Len(list) \in Nat OBVIOUS
<1>1. 1 \in 1..Len(list) + 1 /\ k \in 0..Len(list) /\ 1 <= k + 1 /\ k + 1 - 1 = k
  BY ONLY <1>0, k \in 1..Len(list)
<1>2. k + 1 \in 1..Len(list) + 1 /\ Len(list) \in 0..Len(list) /\ k + 1 <= Len(list) + 1
  BY ONLY <1>0, k \in 1..Len(list)
<1>3. SubSeq(list, 1, k) \in Seq(S) /\ Len(SubSeq(list, 1, k)) = k + 1 - 1
  BY ONLY <1>1, list \in Seq(S), Part
<1>4. SubSeq(list, k + 1, Len(list)) \in Seq(S) BY ONLY <1>2, list \in Seq(S), Part
<1>5. QED BY <1>1, <1>3, <1>4

\* A recv() from the socket of this session.
LEMMA ReadTakes ==
  ASSUME TypeOK, NEW r \in Receivers, Read(r)
  PROVE  \E k \in 1..Len(wire) :
           /\ SubSeq(wire, 1, k) \in Seq(Bytes) /\ Len(SubSeq(wire, 1, k)) = k
           /\ Keep(r, SubSeq(wire, 1, k))
           /\ wire' = SubSeq(wire, k + 1, Len(wire)) /\ wire' \in Seq(Bytes)
           /\ UNCHANGED <<sent, drops, before, inChat, sock, leftover, processed, shared>>
<1>1. PICK data \in Received(DataLen - 1) : Consume(data) /\ Keep(r, data) BY DEF Read
<1>2. wire \in Seq(Bytes) /\ Len(wire) \in Nat /\ DataLen \in Nat /\ DataLen > 5 BY StreamTypes
<1>3. PICK k \in 1..Len(wire) : data = SubSeq(wire, 1, k)
  <2>1. PICK k \in 1..(IF DataLen - 1 < Len(wire) THEN DataLen - 1 ELSE Len(wire)) : data = SubSeq(wire, 1, k)
    BY DEF Received
  <2>2. k \in 1..Len(wire) BY <1>2
  <2>3. QED BY <2>1, <2>2
<1>4. /\ SubSeq(wire, 1, k) \in Seq(Bytes) /\ Len(SubSeq(wire, 1, k)) = k
      /\ SubSeq(wire, k + 1, Len(wire)) \in Seq(Bytes)
  BY ONLY <1>2, k \in 1..Len(wire), Cut
<1>5. wire' = SubSeq(wire, k + 1, Len(wire)) /\ UNCHANGED <<sent, drops, before>>
  BY <1>1, <1>3, <1>4 DEF Consume
<1>6. UNCHANGED <<inChat, sock, leftover, processed, shared>> BY DEF Read
<1>7. QED BY <1>1, <1>3, <1>4, <1>5, <1>6

\* What a read makes of the state of this session's own receiver, the only
\* one: c packets and what it keeps.
LEMMA ReadForm ==
  ASSUME IInv, Alone, Read(Current)
  PROVE  \E i \in before + 1..sent + 1, c \in Nat :
           /\ i + c <= sent + 1 /\ Placed(i, i) /\ Todo = <<>>
           /\ UNCHANGED <<sent, drops, before, processed>>
           /\ wire' \in Seq(Bytes)
           /\ Mine' \in Seq(Bytes) /\ Len(Mine') < 5
           /\ Len(Unread') = Len(Unread) - 5 * c
           /\ \A m \in 1..Len(Unread') : Unread'[m] = Unread[5 * c + m]
           /\ Unread' = Mine' \o wire'
           /\ \E lines \in Seq(Seq(Bytes)) :
                /\ Len(lines) = c + 1
                /\ \A t \in 1..c : lines[t] = Whole(i + t - 1)
                /\ Todo' = Append(SubSeq(lines, 1, c), <<>>)
<1>1. PICK i, n \in before + 1..sent + 1 : n <= i /\ Placed(i, n) BY DEF IInv, Tracked
<1>2. TypeOK /\ Current \in Receivers BY StreamTypes DEF IInv
<1>3. Todo = <<>> /\ n = i
  <2>1. at[Current] = "recv" /\ PlaceInv(Current) BY <1>2 DEF Read, IInv
  <2>2. Todo = <<>> BY <2>1 DEF PlaceInv, Todo
  <2>3. QED BY <1>1, <2>2 DEF Placed, LinesInv
<1>4. PICK k \in 1..Len(wire) :
           /\ SubSeq(wire, 1, k) \in Seq(Bytes) /\ Len(SubSeq(wire, 1, k)) = k
           /\ Keep(Current, SubSeq(wire, 1, k))
           /\ wire' = SubSeq(wire, k + 1, Len(wire)) /\ wire' \in Seq(Bytes)
           /\ UNCHANGED <<sent, drops, before, inChat, sock, leftover, processed, shared>>
  BY <1>2, ReadTakes
<1>5. PICK data : data = SubSeq(wire, 1, k) OBVIOUS
<1>50. /\ Todo' = Append(Front(Split(Mine \o data)), <<>>)
       /\ Mine' = IF Len(Last(Split(Mine \o data))) < DataLen THEN Last(Split(Mine \o data)) ELSE <<>>
  <2>1. Keep(Current, data) /\ data \in Seq(Bytes) /\ Current' = Current BY <1>4, <1>5 DEF Current
  <2>2. /\ packets'[Current] = Append(Front(Split(pending[Current] \o data)), <<>>)
        /\ pending'[Current] = IF Len(Last(Split(pending[Current] \o data))) < DataLen
                               THEN Last(Split(pending[Current] \o data)) ELSE <<>>
    BY ONLY <1>2, <2>1, KeepForm
  <2>3. QED BY <2>1, <2>2 DEF Mine, Todo
<1> DEFINE text == Mine \o data
           lines == Split(text)
           rest  == Last(lines)
           c     == Len(text) \div 5
           d     == Len(text) % 5
<1>6. /\ PacketCount \in Nat /\ DataLen \in Nat /\ DataLen > 5
      /\ sent \in Nat /\ sent <= PacketCount /\ before \in Nat /\ i \in Nat /\ i >= 1
      /\ wire \in Seq(Bytes) /\ Len(wire) \in Nat
      /\ Mine \in Seq(Bytes) /\ Len(Mine) \in Nat
  <2>1. /\ PacketCount \in Nat /\ DataLen \in Nat /\ DataLen > 5
        /\ sent \in Nat /\ sent <= PacketCount /\ before \in Nat
        /\ wire \in Seq(Bytes) /\ Len(wire) \in Nat
        /\ Mine \in Seq(Bytes) /\ Len(Mine) \in Nat
    BY <1>2, StreamTypes
  <2>2. i \in Nat /\ i >= 1 BY ONLY <2>1, i \in before + 1..sent + 1
  <2>3. QED BY ONLY <2>1, <2>2
<1>7. Len(Mine) < 5 /\ Len(Unread) = 5 * (sent + 1 - i) /\ StreamOf(Unread, i)
  BY <1>1 DEF Placed, ReadingInv, Size
<1>8. data \in Seq(Bytes) /\ Len(data) = k BY <1>4, <1>5
<1>9. text \in Seq(Bytes) /\ Len(text) = Len(Mine) + k /\ \A m \in 1..Len(text) : text[m] = Unread[m]
  <2>1. k \in 0..Len(wire) /\ 0 \in 0..Len(Mine) + k BY ONLY <1>6, k \in 1..Len(wire)
  <2>2. Unread = Mine \o wire /\ text = Mine \o Upto(wire, k) BY <1>5 DEF Unread, Upto
  <2>3. Mine \in Seq(Bytes) /\ wire \in Seq(Bytes) BY <1>6
  <2> HIDE DEF text
  <2>4. /\ Mine \o Upto(wire, k) \in Seq(Bytes)
        /\ StartOf(Mine \o Upto(wire, k), Mine \o wire, Len(Mine) + k)
    BY ONLY <2>1, <2>3, Regrouped
  <2>5. text \in Seq(Bytes) /\ StartOf(text, Unread, Len(Mine) + k) BY ONLY <2>2, <2>4
  <2>6. QED BY <2>5 DEF StartOf
<1>10. Len(Unread) = Len(Mine) + Len(wire) /\ Unread \in Seq(Bytes) BY <1>2, StreamTypes
<1> HIDE DEF text
<1>11. c \in Nat /\ d \in 0..4 /\ Len(text) = 5 * c + d /\ Len(text) \in Nat
  <2>1. Len(text) \in Nat BY <1>6, <1>9
  <2>2. QED BY <2>1
<1> HIDE DEF c, d
<1>12. Len(text) <= Len(Unread) /\ Len(text) <= 5 * PacketCount /\ i + c <= sent + 1
  BY ONLY <1>6, <1>7, <1>9, <1>10, <1>11, k \in 1..Len(wire), i \in before + 1..sent + 1
<1>13. StreamOf(text, i)
  <2> SUFFICES ASSUME NEW q \in 0..PacketCount, NEW r \in 1..5, 5 * q + r <= Len(text)
               PROVE  text[5 * q + r] = IF r = 5 THEN LF ELSE [packet |-> i + q, part |-> r]
    BY DEF StreamOf, Size
  <2>1. 5 * q + r \in 1..Len(text) /\ 5 * q + r <= Len(Unread) BY <1>6, <1>10, <1>11, <1>12
  <2>2. Unread[5 * q + r] = IF r = 5 THEN LF ELSE [packet |-> i + q, part |-> r]
    BY <1>7, <2>1 DEF StreamOf, Size
  <2>3. QED BY <1>9, <2>1, <2>2
<1>14. /\ lines \in Seq(Seq(Bytes)) /\ Len(lines) = c + 1
       /\ \A t \in 1..c : lines[t] = Whole(i + t - 1)
       /\ lines[c + 1] = SubSeq(text, 5 * c + 1, Len(text))
  BY ONLY <1>6, <1>9, <1>11, <1>12, <1>13, SplitTokens
<1> HIDE DEF lines
<1>15. rest = SubSeq(text, 5 * c + 1, Len(text)) BY <1>14 DEF Last
<1>16. rest \in Seq(Bytes) /\ Len(rest) = d
  <2>1. 5 * c + 1 \in 1..Len(text) + 1 /\ Len(text) \in 0..Len(text) /\ 5 * c + 1 <= Len(text) + 1
        /\ Len(text) + 1 - (5 * c + 1) = d
    BY ONLY <1>11
  <2>2. rest \in Seq(Bytes) /\ Len(rest) = Len(text) + 1 - (5 * c + 1) BY ONLY <1>9, <1>15, <2>1, Part
  <2>3. QED BY ONLY <2>1, <2>2
<1> HIDE DEF rest
<1>17. Mine' = rest
  <2>1. Len(rest) < DataLen BY <1>6, <1>11, <1>16
  <2>2. QED BY <1>50, <2>1 DEF lines, rest, text
<1>18. Todo' = Append(SubSeq(lines, 1, c), <<>>)
  <2>1. Todo' = Append(Front(lines), <<>>) BY <1>50 DEF lines, text
  <2>2. Len(lines) - 1 = c BY <1>11, <1>14
  <2>3. QED BY <2>1, <2>2 DEF Front
<1>19. wire' = SubSeq(wire, k + 1, Len(wire)) /\ UNCHANGED <<sent, drops, before, processed>>
  BY <1>4
<1>20. wire' \in Seq(Bytes) BY <1>4
<1>21. Unread' = Mine' \o wire' BY DEF Unread
<1>22. Len(Unread') = Len(Unread) - 5 * c /\ \A m \in 1..Len(Unread') : Unread'[m] = Unread[5 * c + m]
  <2> DEFINE e == 5 * c
  <2>1. k \in 0..Len(wire) /\ e \in 0..Len(Mine) + k BY ONLY <1>6, <1>9, <1>11, k \in 1..Len(wire)
  <2>2. Unread = Mine \o wire /\ text = Mine \o Upto(wire, k) BY <1>5 DEF Unread, text, Upto
  <2>3. Unread' = After(text, e) \o After(wire, k) BY <1>15, <1>17, <1>19, <1>21 DEF After
  <2> HIDE DEF e
  <2>4. Unread' = After(Mine \o Upto(wire, k), e) \o After(wire, k) BY <2>2, <2>3
  <2>5. Mine \in Seq(Bytes) /\ wire \in Seq(Bytes) BY <1>6
  <2>6. RestOf(After(Mine \o Upto(wire, k), e) \o After(wire, k), Mine \o wire, e)
    BY ONLY <2>1, <2>5, Regrouped
  <2>7. RestOf(Unread', Unread, e) BY ONLY <2>2, <2>4, <2>6
  <2>8. QED BY <2>7 DEF e, RestOf
<1>23. Len(Mine') < 5 /\ Mine' \in Seq(Bytes) BY <1>11, <1>16, <1>17
<1>24. QED
  <2> c \in Nat BY <1>11
  <2> WITNESS i \in before + 1..sent + 1, c \in Nat
  <2>1. \E l \in Seq(Seq(Bytes)) :
          /\ Len(l) = c + 1
          /\ \A t \in 1..c : l[t] = Whole(i + t - 1)
          /\ Todo' = Append(SubSeq(l, 1, c), <<>>)
    BY <1>14, <1>18
  <2>2. QED BY <1>1, <1>3, <1>12, <1>19, <1>20, <1>21, <1>22, <1>23, <2>1

LEMMA ReadTracked == ASSUME IInv, Alone, Read(Current) PROVE Tracked'
<1>1. PICK i \in before + 1..sent + 1, c \in Nat :
           /\ i + c <= sent + 1 /\ Placed(i, i) /\ Todo = <<>>
           /\ UNCHANGED <<sent, drops, before, processed>>
           /\ wire' \in Seq(Bytes)
           /\ Mine' \in Seq(Bytes) /\ Len(Mine') < 5
           /\ Len(Unread') = Len(Unread) - 5 * c
           /\ \A m \in 1..Len(Unread') : Unread'[m] = Unread[5 * c + m]
           /\ Unread' = Mine' \o wire'
           /\ \E lines \in Seq(Seq(Bytes)) :
                /\ Len(lines) = c + 1
                /\ \A t \in 1..c : lines[t] = Whole(i + t - 1)
                /\ Todo' = Append(SubSeq(lines, 1, c), <<>>)
  BY ReadForm
<1>2. TypeOK BY DEF IInv
<1>3. /\ PacketCount \in Nat /\ sent \in Nat /\ sent <= PacketCount /\ before \in Nat /\ i \in Nat /\ i >= 1
      /\ Len(Mine) \in Nat /\ Unread \in Seq(Bytes) /\ i + c <= sent + 1
  <2>1. /\ PacketCount \in Nat /\ sent \in Nat /\ sent <= PacketCount /\ before \in Nat
        /\ Len(Mine) \in Nat /\ Unread \in Seq(Bytes)
    BY <1>2, StreamTypes
  <2>2. i + c <= sent + 1 BY <1>1
  <2>3. QED BY ONLY <2>1, <2>2, i \in before + 1..sent + 1
<1>4. Len(Unread) = 5 * (sent + 1 - i) /\ StreamOf(Unread, i) BY <1>1 DEF Placed, ReadingInv, Size
<1>5. PICK lines \in Seq(Seq(Bytes)) :
                /\ Len(lines) = c + 1
                /\ \A t \in 1..c : lines[t] = Whole(i + t - 1)
                /\ Todo' = Append(SubSeq(lines, 1, c), <<>>)
  BY <1>1
<1>6. /\ Len(Todo') = c + 1 /\ DOMAIN Todo' = 1..c + 1
      /\ \A t \in 1..c : Todo'[t] = lines[t]
      /\ Todo'[c + 1] = <<>>
  BY ONLY <1>5, c \in Nat, ClosedLines
<1>7. \A t \in 1..c : Todo'[t] = Whole(i + t - 1) BY <1>5, <1>6
<1>8. Len(Unread') = 5 * (sent + 1 - (i + c))
  <2>1. Len(Unread') = Len(Unread) - 5 * c BY <1>1
  <2>2. Len(Unread) = 5 * (sent + 1 - i) BY <1>4
  <2>3. QED BY ONLY <1>3, <2>1, <2>2, c \in Nat
<1>9. StreamOf(Unread', i + c)
  <2> SUFFICES ASSUME NEW q \in 0..PacketCount, NEW r \in 1..5, 5 * q + r <= Len(Unread')
               PROVE  Unread'[5 * q + r] = IF r = 5 THEN LF ELSE [packet |-> i + c + q, part |-> r]
    BY DEF StreamOf, Size
  <2>1. /\ 5 * q + r \in 1..Len(Unread') /\ c + q \in 0..PacketCount
        /\ 5 * c + (5 * q + r) = 5 * (c + q) + r /\ i + (c + q) = i + c + q
        /\ 5 * (c + q) + r <= Len(Unread)
    BY ONLY <1>3, <1>4, <1>8, c \in Nat, q \in 0..PacketCount, r \in 1..5, 5 * q + r <= Len(Unread')
  <2>2. Unread'[5 * q + r] = Unread[5 * c + (5 * q + r)] BY <1>1, <2>1
  <2>3. Unread[5 * (c + q) + r] = IF r = 5 THEN LF ELSE [packet |-> i + (c + q), part |-> r]
    BY <1>4, <2>1 DEF StreamOf, Size
  <2>4. QED BY <2>1, <2>2, <2>3
<1>10. ReadingInv(i + c)' BY <1>1, <1>8, <1>9 DEF ReadingInv, Size
<1>11. LinesInv(i + c, i)'
  <2>1. Todo' # <<>> BY <1>6
  <2>2. i + c + 1 - i = c + 1 /\ 1..i + c - i = 1..c BY <1>3
  <2>3. \A j \in 1..c : Todo'[j] = Whole(i + j - 1) BY <1>7
  <2>4. QED BY <1>6, <2>1, <2>2, <2>3 DEF LinesInv
<1>12. DoneInv(i)' BY <1>1 DEF Placed, DoneInv
<1>14. QED
  <2>1. i + c \in (before + 1..sent + 1)' /\ i \in (before + 1..sent + 1)' /\ i <= i + c BY <1>1, <1>3
  <2>2. Placed(i + c, i)' BY <1>10, <1>11, <1>12 DEF Placed
  <2>3. QED BY <2>1, <2>2 DEF Tracked

LEMMA ReadKeeps == ASSUME IInv, NEW r \in Receivers, Read(r) PROVE IInv'
<1>1. TypeOK BY DEF IInv
<1>2. PICK k \in 1..Len(wire) :
           /\ SubSeq(wire, 1, k) \in Seq(Bytes) /\ Len(SubSeq(wire, 1, k)) = k
           /\ Keep(r, SubSeq(wire, 1, k))
           /\ wire' = SubSeq(wire, k + 1, Len(wire)) /\ wire' \in Seq(Bytes)
           /\ UNCHANGED <<sent, drops, before, inChat, sock, leftover, processed, shared>>
  BY <1>1, ReadTakes
<1>3. PICK data \in Seq(Bytes) : Keep(r, data) BY <1>2
<1>4. /\ at' \in [Receivers -> {"off", "loop", "recv", "got", "ended"}] /\ at'[r] = "got"
      /\ pending' \in [Receivers -> Seq(Bytes \ {LF})] /\ packets' \in [Receivers -> Lines]
      /\ \A q \in Receivers \ {r} : at'[q] = at[q] /\ pending'[q] = pending[q] /\ packets'[q] = packets[q]
  BY ONLY <1>1, <1>3, r \in Receivers, KeepForm
<1>5. Current' = Current BY <1>2 DEF Current
<1>6. TypeOK' BY <1>1, <1>2, <1>4, <1>5 DEF TypeOK, StreamTypeOK
<1>7. at[r] = "recv" /\ sock[r] = Current /\ PlaceInv(r) BY DEF Read, IInv
<1>8. inChat
  <2> SUFFICES ASSUME ~inChat PROVE FALSE OBVIOUS
  <2>1. wire = <<>> BY DEF IInv, OutInv
  <2>2. QED BY <2>1
<1>9. OutInv' /\ NewInv' BY <1>2, <1>8 DEF IInv, OutInv, NewInv
<1>10. ASSUME NEW q \in Receivers PROVE PlaceInv(q)'
  <2>1. PlaceInv(q) BY DEF IInv
  <2>2. CASE q = r
    <3>1. ~(q > Current \/ (q = Current /\ ~inChat)) BY <1>7, <2>2 DEF PlaceInv
    <3>2. QED BY <1>2, <1>4, <1>5, <2>2, <3>1 DEF PlaceInv
  <2>3. CASE q # r
    <3>1. at'[q] = at[q] /\ pending'[q] = pending[q] /\ packets'[q] = packets[q] BY <1>4, <2>3
    <3>2. QED BY <1>2, <1>5, <2>1, <3>1 DEF PlaceInv
  <2>4. QED BY <2>2, <2>3
<1>11. ASSUME Alone' PROVE Tracked'
  <2>1. Alone BY <1>2, <1>11 DEF Alone
  <2>2. r = Current BY <1>7, <2>1 DEF PlaceInv, Alone
  <2>3. QED BY <2>1, <2>2, ReadTracked
<1>12. QED BY <1>6, <1>9, <1>10, <1>11 DEF IInv

\* A recv() that was called before its socket was closed.
LEMMA ReadOldKeeps == ASSUME IInv, NEW r \in Receivers, ReadOld(r) PROVE IInv'
<1>1. TypeOK BY DEF IInv
<1>2. PICK n \in 1..(DataLen - 1) :
        /\ n <= Len(leftover[sock[r]]) /\ Keep(r, SubSeq(leftover[sock[r]], 1, n))
        /\ leftover' = [leftover EXCEPT ![sock[r]] = SubSeq(leftover[sock[r]], n + 1, Len(leftover[sock[r]]))]
  BY DEF ReadOld
<1>3. /\ at[r] = "recv" /\ sock[r] # Current
      /\ UNCHANGED <<wire, sent, drops, before, inChat, sock, processed, shared>>
  BY DEF ReadOld, streamVars
<1>4. leftover \in [Receivers -> Seq(Bytes)] /\ sock[r] \in 0..Current BY <1>1 DEF TypeOK
<1>5. sock[r] \in Receivers
  <2>1. Current \in Nat /\ Current = drops + 1 /\ drops \in Nat /\ drops <= MaxDrops /\ MaxDrops \in Nat
    BY <1>1, StreamTypes DEF Current
  <2>2. sock[r] # 0 BY <1>3 DEF IInv, PlaceInv
  <2>3. QED BY ONLY <1>3, <1>4, <2>1, <2>2 DEF Receivers
<1>6. PICK old : old = leftover[sock[r]] OBVIOUS
<1>7. old \in Seq(Bytes) BY <1>4, <1>5, <1>6
<1>8. n \in 1..Len(old)
  <2>1. Len(old) \in Nat /\ n <= Len(old) /\ n \in 1..DataLen - 1 BY <1>2, <1>6, <1>7
  <2>2. DataLen \in Nat BY <1>1, StreamTypes
  <2>3. QED BY ONLY <2>1, <2>2
<1>9. SubSeq(old, 1, n) \in Seq(Bytes) /\ SubSeq(old, n + 1, Len(old)) \in Seq(Bytes)
  BY ONLY <1>7, <1>8, Cut
<1>10. leftover' \in [Receivers -> Seq(Bytes)] BY ONLY <1>2, <1>4, <1>6, <1>9
<1>11. PICK data \in Seq(Bytes) : Keep(r, data) BY <1>2, <1>6, <1>9
<1>12. /\ at' \in [Receivers -> {"off", "loop", "recv", "got", "ended"}] /\ at'[r] = "got"
       /\ pending' \in [Receivers -> Seq(Bytes \ {LF})] /\ packets' \in [Receivers -> Lines]
       /\ \A q \in Receivers \ {r} : at'[q] = at[q] /\ pending'[q] = pending[q] /\ packets'[q] = packets[q]
  BY ONLY <1>1, <1>11, r \in Receivers, KeepForm
<1>13. Current' = Current BY <1>3 DEF Current
<1>14. TypeOK' BY <1>1, <1>3, <1>10, <1>12, <1>13 DEF TypeOK, StreamTypeOK
<1>15. OutInv' /\ NewInv' BY <1>3 DEF IInv, OutInv, NewInv
<1>16. PlaceInv(r) /\ r # Current BY <1>3 DEF IInv, PlaceInv
<1>17. ASSUME NEW q \in Receivers PROVE PlaceInv(q)'
  <2>1. PlaceInv(q) BY DEF IInv
  <2>2. CASE q = r
    <3>1. ~(q > Current \/ (q = Current /\ ~inChat)) BY <1>3, <1>16, <2>2 DEF PlaceInv
    <3>2. QED BY <1>3, <1>12, <1>13, <2>2, <3>1 DEF PlaceInv
  <2>3. CASE q # r
    <3>1. at'[q] = at[q] /\ pending'[q] = pending[q] /\ packets'[q] = packets[q] BY <1>12, <2>3
    <3>2. QED BY <1>3, <1>13, <2>1, <3>1 DEF PlaceInv
  <2>4. QED BY <2>2, <2>3
<1>18. ASSUME Alone' PROVE Tracked'
  <2>1. Alone BY <1>3, <1>18 DEF Alone
  <2>2. Current \in Receivers \ {r} BY <1>1, <1>16, StreamTypes
  <2>3. Mine' = Mine /\ Todo' = Todo BY <1>12, <1>13, <2>2 DEF Mine, Todo
  <2>4. QED BY <1>3, <2>1, <2>3, TrackedFrame DEF IInv
<1>19. QED BY <1>14, <1>15, <1>17, <1>18 DEF IInv

\* Only the last line can be without a tilde, and it is the empty one.
LEMMA LineForm ==
  ASSUME TypeOK, Todo # <<>>, NEW i \in before + 1..sent + 1, NEW n \in before + 1..sent + 1, n <= i, LinesInv(i, n)
  PROVE  /\ Len(Todo) = i + 1 - n /\ Todo[i + 1 - n] = <<>>
         /\ n = i => ~HasTilde(Todo[1])
         /\ n < i => Todo[1] = Whole(n) /\ HasTilde(Todo[1])
<1>1. /\ Len(Todo) = i + 1 - n
      /\ \A j \in 1..i - n : Todo[j] = Whole(n + j - 1)
      /\ Todo[i + 1 - n] = <<>>
  BY DEF LinesInv
<1>2. sent \in Nat /\ before \in Nat /\ i \in Nat /\ n \in Nat BY StreamTypes
<1>3. n = i => Todo[1] = <<>>
  <2>1. n = i => i + 1 - n = 1 BY <1>2
  <2>2. QED BY <1>1, <2>1
<1>4. ~HasTilde(<<>>) BY DEF HasTilde
<1>5. n < i => Todo[1] = Whole(n)
  <2>1. n < i => 1 \in 1..i - n /\ n + 1 - 1 = n BY <1>2
  <2>2. QED BY <1>1, <2>1
<1>6. HasTilde(Whole(n)) BY WholePacket
<1>7. QED BY <1>1, <1>3, <1>4, <1>5, <1>6

LEMMA SkipTracked == ASSUME IInv, Alone, SkipInvalid(Current) PROVE Tracked'
<1>1. PICK i, n \in before + 1..sent + 1 : n <= i /\ Placed(i, n) BY DEF IInv, Tracked
<1>2. TypeOK BY DEF IInv
<1>3. /\ Todo # <<>> /\ ~HasTilde(Todo[1]) /\ Todo' = Tail(Todo) /\ Mine' = Mine
      /\ UNCHANGED <<wire, sent, before, processed>>
  <2>1. packets \in [Receivers -> Lines] /\ Current \in Receivers BY <1>2, StreamTypes DEF TypeOK
  <2>2. packets' = [packets EXCEPT ![Current] = Tail(packets[Current])] /\ Current' = Current
    BY DEF SkipInvalid, streamVars, Current
  <2>3. Todo' = Tail(Todo) BY ONLY <2>1, <2>2 DEF Todo
  <2>4. QED BY <2>2, <2>3 DEF SkipInvalid, streamVars, Todo, Mine
<1>4. Todo \in Seq(Seq(Bytes \ {LF})) BY <1>2, StreamTypes DEF Lines
<1>5. n = i /\ Len(Todo) = 1
  <2>1. LinesInv(i, n) BY <1>1 DEF Placed
  <2>2. sent \in Nat /\ before \in Nat /\ i \in Nat /\ n \in Nat BY <1>2, StreamTypes
  <2>3. n = i BY <1>1, <1>2, <1>3, <2>1, <2>2, LineForm
  <2>4. Len(Todo) = i + 1 - n BY <1>1, <1>2, <1>3, <2>1, LineForm
  <2>5. QED BY <2>2, <2>3, <2>4
<1>6. Todo' = <<>> BY ONLY <1>3, <1>4, <1>5, TailForm
<1>7. Unread' = Unread BY <1>3 DEF Unread
<1>8. ReadingInv(i)' /\ DoneInv(n)' BY <1>1, <1>3, <1>7 DEF Placed, ReadingInv, DoneInv
<1>9. LinesInv(i, n)' BY <1>5, <1>6 DEF LinesInv
<1>10. i \in (before + 1..sent + 1)' /\ n \in (before + 1..sent + 1)' BY <1>3
<1>11. QED BY <1>1, <1>8, <1>9, <1>10 DEF Placed, Tracked

\* A receiver is done with a line.
LEMMA LineKeeps ==
  ASSUME IInv, inChat, NEW r \in Receivers, at[r] = "loop", packets[r] # <<>>,
         packets' = [packets EXCEPT ![r] = Tail(packets[r])], processed' \in Lines,
         UNCHANGED <<wire, sent, drops, before, inChat, at, sock, pending, leftover, shared>>,
         NewInv', Alone => Tracked'
  PROVE  IInv'
<1>1. TypeOK BY DEF IInv
<1>2. Current' = Current BY DEF Current
<1>3. packets \in [Receivers -> Lines] BY <1>1 DEF TypeOK
<1>4. Tail(packets[r]) \in Lines
  <2>1. packets[r] \in Seq(Seq(Bytes \ {LF})) BY <1>3 DEF Lines
  <2>2. QED BY ONLY <2>1, packets[r] # <<>>, TailForm DEF Lines
<1>5. /\ packets' \in [Receivers -> Lines] /\ \A q \in Receivers \ {r} : packets'[q] = packets[q]
  BY ONLY <1>3, <1>4, packets' = [packets EXCEPT ![r] = Tail(packets[r])]
<1>6. TypeOK' BY <1>1, <1>2, <1>5 DEF TypeOK, StreamTypeOK
<1>7. OutInv' BY DEF OutInv
<1>8. ASSUME NEW q \in Receivers PROVE PlaceInv(q)'
  <2>1. PlaceInv(q) BY DEF IInv
  <2>2. CASE q = r
    <3>1. ~(q > Current \/ (q = Current /\ ~inChat)) BY <2>1, <2>2 DEF PlaceInv
    <3>2. QED BY <1>2, <2>2, <3>1 DEF PlaceInv
  <2>3. CASE q # r
    <3>1. packets'[q] = packets[q] BY <1>5, <2>3
    <3>2. QED BY <1>2, <2>1, <3>1 DEF PlaceInv
  <2>4. QED BY <2>2, <2>3
<1>9. Alone' => Alone BY DEF Alone
<1>10. QED BY <1>6, <1>7, <1>8, <1>9 DEF IInv

\* The lines of another receiver.
LEMMA OthersLine ==
  ASSUME IInv, Alone, NEW r \in Receivers, r # Current, packets' = [packets EXCEPT ![r] = Tail(packets[r])],
         UNCHANGED <<wire, sent, drops, before, pending, processed>>
  PROVE  Tracked'
<1>1. packets \in [Receivers -> Lines] /\ Current \in Receivers BY StreamTypes DEF IInv, TypeOK
<1>2. Current' = Current BY DEF Current
<1>3. packets'[Current] = packets[Current] BY <1>1
<1>4. Mine' = Mine /\ Todo' = Todo BY <1>2, <1>3 DEF Mine, Todo
<1>5. QED BY <1>4, TrackedFrame DEF IInv

LEMMA SkipKeeps == ASSUME IInv, NEW r \in Receivers, SkipInvalid(r) PROVE IInv'
<1>1. /\ inChat /\ at[r] = "loop" /\ packets[r] # <<>> /\ packets' = [packets EXCEPT ![r] = Tail(packets[r])]
      /\ UNCHANGED <<wire, sent, drops, before, inChat, at, sock, pending, leftover, processed, shared>>
  BY DEF SkipInvalid, streamVars
<1>2. processed' \in Lines /\ NewInv' BY <1>1 DEF IInv, TypeOK, NewInv
<1>3. Alone => Tracked'
  <2>1. CASE r = Current BY <2>1, SkipTracked
  <2>2. CASE r # Current BY <1>1, <2>2, OthersLine
  <2>3. QED BY <2>1, <2>2
<1>4. QED BY <1>1, <1>2, <1>3, LineKeeps

\* The line handed on is the next packet.
LEMMA ProcessForm ==
  ASSUME TypeOK, Alone, Process(Current), NEW i \in before + 1..sent + 1, NEW n \in before + 1..sent + 1, n <= i,
         LinesInv(i, n)
  PROVE  n < i /\ processed' = Append(processed, Whole(n))
<1>1. Todo # <<>> /\ HasTilde(Todo[1]) /\ processed' = Append(processed, Todo[1]) BY DEF Process, Todo
<1>2. sent \in Nat /\ before \in Nat /\ i \in Nat /\ n \in Nat BY StreamTypes
<1>3. n < i BY <1>1, <1>2, LineForm
<1>4. Todo[1] = Whole(n) BY <1>1, <1>3, LineForm
<1>5. QED BY <1>1, <1>3, <1>4

LEMMA ProcessTracked == ASSUME IInv, Alone, Process(Current) PROVE Tracked'
<1>1. PICK i, n \in before + 1..sent + 1 : n <= i /\ Placed(i, n) BY DEF IInv, Tracked
<1>2. TypeOK BY DEF IInv
<1>3. /\ Todo # <<>> /\ Todo' = Tail(Todo) /\ Mine' = Mine
      /\ UNCHANGED <<wire, sent, before>>
  <2>1. packets \in [Receivers -> Lines] /\ Current \in Receivers BY <1>2, StreamTypes DEF TypeOK
  <2>2. packets' = [packets EXCEPT ![Current] = Tail(packets[Current])] /\ Current' = Current
    BY DEF Process, streamVars, Current
  <2>3. Todo' = Tail(Todo) BY ONLY <2>1, <2>2 DEF Todo
  <2>4. QED BY <2>2, <2>3 DEF Process, streamVars, Todo, Mine
<1>4. LinesInv(i, n) /\ DoneInv(n) /\ ReadingInv(i) BY <1>1 DEF Placed
<1>5. n < i /\ processed' = Append(processed, Whole(n)) BY <1>1, <1>2, <1>4, ProcessForm
<1>6. /\ Todo \in Seq(Seq(Bytes \ {LF})) /\ processed \in Seq(Seq(Bytes \ {LF}))
      /\ sent \in Nat /\ before \in Nat /\ i \in Nat /\ n \in Nat /\ n \in Packets /\ PacketCount \in Nat
  <2>1. /\ Todo \in Seq(Seq(Bytes \ {LF})) /\ processed \in Seq(Seq(Bytes \ {LF}))
    BY <1>2, StreamTypes DEF TypeOK, Lines
  <2>2. sent \in Nat /\ before \in Nat /\ i \in Nat /\ n \in Nat /\ PacketCount \in Nat /\ sent <= PacketCount
    BY <1>2, StreamTypes
  <2>3. n \in Packets BY <1>5, <2>2 DEF Packets
  <2>4. QED BY <2>1, <2>2, <2>3
<1>7. /\ Len(Todo) = i + 1 - n
      /\ \A j \in 1..i - n : Todo[j] = Whole(n + j - 1)
      /\ Todo[i + 1 - n] = <<>>
  BY <1>3, <1>4 DEF LinesInv
<1>8. /\ Todo' \in Seq(Seq(Bytes \ {LF})) /\ Len(Todo') = Len(Todo) - 1
      /\ \A m \in 1..Len(Todo) - 1 : Todo'[m] = Todo[m + 1]
  BY ONLY <1>3, <1>6, TailForm
<1>9. LinesInv(i, n + 1)'
  <2>1. Len(Todo') = i + 1 - (n + 1) /\ Len(Todo') > 0 BY <1>5, <1>6, <1>7, <1>8
  <2>2. ASSUME NEW j \in 1..i - (n + 1) PROVE Todo'[j] = Whole(n + 1 + j - 1)
    <3>1. j \in 1..Len(Todo) - 1 /\ j + 1 \in 1..i - n /\ n + (j + 1) - 1 = n + 1 + j - 1
      <4>1. Len(Todo) - 1 = i - n BY ONLY <1>6, <1>7
      <4>2. j \in 1..i - n /\ j + 1 \in 1..i - n /\ n + (j + 1) - 1 = n + 1 + j - 1
        BY ONLY <1>6, j \in 1..i - (n + 1)
      <4>3. QED BY <4>1, <4>2
    <3>2. Todo'[j] = Todo[j + 1] BY <1>8, <3>1
    <3>3. Todo[j + 1] = Whole(n + (j + 1) - 1) BY <1>7, <3>1
    <3>4. QED BY <3>1, <3>2, <3>3
  <2>3. Todo'[i + 1 - (n + 1)] = <<>>
    <3>1. i + 1 - (n + 1) \in 1..Len(Todo) - 1 /\ i + 1 - (n + 1) + 1 = i + 1 - n BY <1>5, <1>6, <1>7
    <3>2. Todo'[i + 1 - (n + 1)] = Todo[i + 1 - (n + 1) + 1] BY <1>8, <3>1
    <3>3. QED BY <1>7, <3>1, <3>2
  <2>4. Todo' # <<>> BY <2>1
  <2>5. QED BY <2>1, <2>2, <2>3, <2>4 DEF LinesInv
<1>10. DoneInv(n + 1)'
  <2>1. Range(processed') = Range(processed) \cup {Whole(n)} BY <1>5, <1>6, RangeAppended
  <2>2. ASSUME NEW j \in before + 1..(n + 1) - 1 PROVE Whole(j) \in Range(processed')
    <3>1. CASE j = n BY <2>1, <3>1
    <3>2. CASE j # n
      <4>1. j \in before + 1..n - 1 BY <1>6, <3>2
      <4>2. QED BY <1>4, <2>1, <4>1 DEF DoneInv
    <3>3. QED BY <3>1, <3>2
  <2>3. ASSUME NEW j \in n + 1..PacketCount PROVE Whole(j) \notin Range(processed')
    <3>1. j # n /\ j \in n..PacketCount BY <1>6
    <3>2. Whole(j) # Whole(n) BY <3>1, WholeDiffer
    <3>3. Whole(j) \notin Range(processed) BY <1>4, <3>1 DEF DoneInv
    <3>4. QED BY <2>1, <3>2, <3>3
  <2>4. QED BY <1>3, <2>2, <2>3 DEF DoneInv
<1>12. ReadingInv(i)'
  <2>1. Unread' = Unread BY <1>3 DEF Unread
  <2>2. QED BY <1>3, <1>4, <2>1 DEF ReadingInv
<1>13. n + 1 \in (before + 1..sent + 1)' /\ i \in (before + 1..sent + 1)' /\ n + 1 <= i BY <1>3, <1>5, <1>6
<1>14. QED BY <1>9, <1>10, <1>12, <1>13 DEF Placed, Tracked

LEMMA ProcessKeeps == ASSUME IInv, NEW r \in Receivers, Process(r) PROVE IInv'
<1>1. /\ inChat /\ at[r] = "loop" /\ packets[r] # <<>> /\ packets' = [packets EXCEPT ![r] = Tail(packets[r])]
      /\ UNCHANGED <<wire, sent, drops, before, inChat, at, sock, pending, leftover, shared>>
      /\ processed' = IF Alone /\ r = Current THEN Append(processed, packets[r][1]) ELSE processed
  BY DEF Process, streamVars
<1>2. TypeOK BY DEF IInv
<1>4. processed' \in Lines
  <2>1. packets[r] \in Seq(Seq(Bytes \ {LF})) /\ processed \in Seq(Seq(Bytes \ {LF})) BY <1>2 DEF TypeOK, Lines
  <2>2. packets[r][1] \in Seq(Bytes \ {LF})
    <3>1. Len(packets[r]) \in Nat /\ Len(packets[r]) # 0 BY ONLY <1>1, <2>1
    <3>2. QED BY ONLY <2>1, <3>1
  <2>3. Append(processed, packets[r][1]) \in Seq(Seq(Bytes \ {LF})) BY ONLY <2>1, <2>2
  <2>4. QED BY <1>1, <2>1, <2>3 DEF Lines
<1>5. Alone => Tracked'
  <2>1. CASE r = Current BY <2>1, ProcessTracked
  <2>2. CASE r # Current
    <3>1. processed' = processed BY <1>1, <2>2
    <3>2. QED BY <1>1, <2>2, <3>1, OthersLine
  <2>3. QED BY <2>1, <2>2
<1>6. NewInv'
  <2>1. CASE Alone
    <3>1. PICK i, n \in (before + 1..sent + 1)' : n <= i /\ Placed(i, n)' BY <1>5, <2>1 DEF Tracked
    <3>2. DoneInv(n)' BY <3>1 DEF Placed
    <3>3. before \in Nat /\ sent \in Nat /\ sent' = sent /\ before' = before BY <1>1, <1>2, StreamTypes
    <3>4. \A j \in sent' + 1..PacketCount : j \in n..PacketCount BY <3>1, <3>3
    <3>5. QED BY <3>2, <3>4 DEF DoneInv, NewInv
  <2>2. CASE ~Alone BY <1>1, <2>2 DEF IInv, NewInv
  <2>3. QED BY <2>1, <2>2
<1>7. QED BY <1>1, <1>4, <1>5, <1>6, LineKeeps

LEMMA StutterKeeps == ASSUME IInv, UNCHANGED vars PROVE IInv'
<1>1. /\ UNCHANGED <<wire, sent, drops, before, inChat, at, sock, pending, packets>>
      /\ UNCHANGED <<leftover, processed, shared>>
  BY DEF vars, streamVars
<1>2. Current' = Current /\ Mine' = Mine /\ Todo' = Todo BY <1>1 DEF Current, Mine, Todo
<1>3. TypeOK' BY <1>1, <1>2 DEF IInv, TypeOK, StreamTypeOK
<1>4. OutInv' /\ NewInv' BY <1>1 DEF IInv, OutInv, NewInv
<1>5. ASSUME NEW r \in Receivers PROVE PlaceInv(r)'
  <2>1. PlaceInv(r) BY DEF IInv
  <2>2. QED BY <1>1, <1>2, <2>1 DEF PlaceInv
<1>6. ASSUME Alone' PROVE Tracked'
  <2>1. Tracked BY <1>1, <1>6 DEF IInv, Alone
  <2>2. QED BY <1>1, <1>2, <2>1, TrackedFrame
<1>7. QED BY <1>3, <1>4, <1>5, <1>6 DEF IInv

LEMMA ReceiveKeeps == ASSUME IInv, NEW r \in Receivers, Receive(r) PROVE IInv'
<1>1. CASE CallRecv(r) BY <1>1, CallRecvKeeps
<1>2. CASE Read(r) BY <1>2, ReadKeeps
<1>3. CASE ReadOld(r) BY <1>3, ReadOldKeeps
<1>4. CASE Closed(r) BY <1>4, ClosedKeeps
<1>5. CASE GoOn(r) BY <1>5, GoOnKeeps
<1>6. CASE SkipInvalid(r) BY <1>6, SkipKeeps
<1>7. CASE Process(r) BY <1>7, ProcessKeeps
<1>8. CASE Abandon(r) BY <1>8, AbandonKeeps
<1>9. CASE Stop(r) BY <1>9, StopKeeps
<1>10. QED BY <1>1, <1>2, <1>3, <1>4, <1>5, <1>6, <1>7, <1>8, <1>9 DEF Receive

\* The invariant is inductive: it holds in the initial state and survives
\* every step of the bridge, of the user and of all the receivers.
THEOREM InductiveInvariant == Spec => []IInv
<1>1. Init => IInv BY InitIInv
<1>2. IInv /\ [Next]_vars => IInv'
  <2> SUFFICES ASSUME IInv, [Next]_vars PROVE IInv' OBVIOUS
  <2>1. CASE BridgeWrites BY <2>1, BridgeWritesKeeps
  <2>2. CASE Enter BY <2>2, EnterKeeps
  <2>3. CASE Leave BY <2>3, LeaveKeeps
  <2>4. ASSUME NEW r \in Receivers, Receive(r) PROVE IInv' BY <2>4, ReceiveKeeps
  <2>5. CASE UNCHANGED vars BY <2>5, StutterKeeps
  <2>6. QED BY <2>1, <2>2, <2>3, <2>4, <2>5 DEF Next
<1>3. QED BY <1>1, <1>2, PTL DEF Spec

\* Type correctness.
THEOREM TypeCorrect == Spec => []TypeOK
<1>1. IInv => TypeOK BY DEF IInv
<1>2. QED BY <1>1, InductiveInvariant, PTL

\* What a session's receiver keeps between two reads (handleIncomingMessages,
\* pending) is the start of one packet, of which the rest is still under way,
\* for as long as no receiver of an earlier session reads along: it neither
\* outgrows its buffer nor passes for a packet.
THEOREM KeptIsUnfinished == Spec => []PendingIsUnfinished
<1>1. ASSUME IInv, Alone, Mine # <<>>
      PROVE  (\E i \in (before + 1)..sent : IsPrefix(Mine, Whole(i))) /\ wire # <<>>
  <2>1. PICK i, n \in before + 1..sent + 1 : n <= i /\ Placed(i, n) BY <1>1 DEF IInv, Tracked
  <2>2. TypeOK BY <1>1 DEF IInv
  <2>3. /\ sent \in Nat /\ before \in Nat /\ i \in Nat /\ PacketCount \in Nat
        /\ Mine \in Seq(Bytes) /\ Len(Mine) \in Nat /\ Len(wire) \in Nat /\ wire \in Seq(Bytes)
        /\ Len(Unread) = Len(Mine) + Len(wire)
        /\ \A m \in 1..Len(Mine) : Unread[m] = Mine[m]
    BY <2>2, StreamTypes
  <2>4. Len(Mine) < 5 /\ Len(Unread) = 5 * (sent + 1 - i) /\ StreamOf(Unread, i)
    BY <2>1 DEF Placed, ReadingInv, Size
  <2>5. Len(Mine) > 0 BY <1>1, <2>3
  <2>6. i \in before + 1..sent /\ Len(wire) > 0
    BY ONLY <2>3, <2>4, <2>5, i \in before + 1..sent + 1
  <2>7. ASSUME NEW r \in 1..Len(Mine) PROVE Mine[r] = Whole(i)[r]
    <3>1. r \in 1..4 /\ r # 5 /\ 5 * 0 + r = r /\ 5 * 0 + r <= Len(Unread) /\ 0 \in 0..PacketCount /\ r \in 1..5
          /\ i + 0 = i
      BY <2>3, <2>4
    <3>2. Unread[5 * 0 + r] = [packet |-> i + 0, part |-> r] BY <2>4, <3>1 DEF StreamOf, Size
    <3>3. Whole(i)[r] = [packet |-> i, part |-> r] BY <3>1, Pieces DEF Whole
    <3>4. QED BY <2>3, <3>1, <3>2, <3>3
  <2>8. IsPrefix(Mine, Whole(i))
    <3> DEFINE whole == Whole(i)
    <3>1. i \in Packets BY <2>2, <2>3, <2>6, StreamTypes DEF Packets
    <3>2. whole \in Seq(Bytes \ {LF}) /\ Len(whole) = 4 BY <3>1, WholePacket
    <3>3. \A r \in 1..Len(Mine) : Mine[r] = whole[r] BY <2>7
    <3> HIDE DEF whole
    <3>4. SubSeq(whole, 1, Len(Mine)) = Mine
      <4>1. SubSeq(whole, 1, Len(Mine)) = [r \in 1..Len(Mine) |-> whole[r]]
        BY <2>3, <2>4, <3>2
      <4>2. Mine = [r \in 1..Len(Mine) |-> Mine[r]] BY <2>3
      <4>3. QED BY <3>3, <4>1, <4>2
    <3>5. Len(Mine) <= Len(whole) BY <2>4, <3>2
    <3>6. QED BY <3>4, <3>5 DEF IsPrefix, whole
  <2>9. QED BY <2>3, <2>6, <2>8
<1>2. IInv => PendingIsUnfinished BY <1>1 DEF PendingIsUnfinished, Mine
<1>3. QED BY <1>2, InductiveInvariant, PTL

-----------------------------------------------------------------------------
(* The client is a LineStream. *)

\* What the abstract reader counts as lost.
Lost == {i \in 1..Gone : Whole(i) \notin Range(processed)}

LEMMA ProcessDelivers ==
  ASSUME IInv, Alone, Process(Current)
  PROVE  \E n \in Packets : Stream!Deliver(n)
<1>1. PICK i, n \in before + 1..sent + 1 : n <= i /\ Placed(i, n) BY DEF IInv, Tracked
<1>2. TypeOK BY DEF IInv
<1>3. DoneInv(n) /\ LinesInv(i, n) BY <1>1 DEF Placed
<1>4. n < i /\ processed' = Append(processed, Whole(n)) /\ before' = before /\ Gone = before /\ Gone' = before'
  <2>1. n < i /\ processed' = Append(processed, Whole(n)) BY <1>1, <1>2, <1>3, ProcessForm
  <2>2. before' = before /\ Gone = before /\ Gone' = before' BY DEF Process, streamVars, Alone, Gone
  <2>3. QED BY <2>1, <2>2
<1>5. /\ sent \in Nat /\ before \in Nat /\ PacketCount \in Nat /\ sent <= PacketCount /\ before <= sent
      /\ i \in Nat /\ n \in Nat /\ n \in 1..PacketCount /\ before < n
  BY <1>2, <1>4, StreamTypes
<1>6. Range(processed') = Range(processed) \cup {Whole(n)}
  BY <1>2, <1>4, RangeAppended DEF TypeOK, Lines
<1>7. Whole(n) \notin Range(processed) BY <1>3, <1>5 DEF DoneInv
<1>8. n \notin Lost BY <1>4, <1>5 DEF Lost
<1>9. ASSUME NEW j \in 1..n - 1 PROVE Whole(j) \in Range(processed) \/ j \in Lost
  <2>1. CASE j <= before
    <3>1. j \in 1..before BY <1>5, <2>1
    <3>2. QED BY <1>4, <3>1 DEF Lost
  <2>2. CASE j > before
    <3>1. j \in before + 1..n - 1 BY <1>5, <2>2
    <3>2. QED BY <1>3, <3>1 DEF DoneInv
  <2>3. QED BY <1>5, <2>1, <2>2
<1>10. Lost' = Lost
  <2>1. ASSUME NEW j \in 1..before PROVE Whole(j) # Whole(n)
    <3>1. j # n BY <1>5
    <3>2. QED BY <3>1, WholeDiffer
  <2>2. QED BY <1>4, <1>6, <2>1 DEF Lost
<1>11. Stream!Deliver(n)
  BY <1>4, <1>7, <1>8, <1>9, <1>10 DEF Stream!Deliver, Stream!Delivered, Stream!Range, Range, Lost
<1>12. n \in Packets BY <1>5 DEF Packets
<1>13. QED BY <1>11, <1>12

\* What is no longer one receiver's to read can only grow.
LEMMA MoreIsGone ==
  ASSUME TypeOK, processed' = processed, Gone' = Gone \/ Gone' = sent', Gone <= Gone',
         sent' \in Nat, sent' <= PacketCount
  PROVE  UNCHANGED <<processed, Lost>> \/ \E m \in Packets : Stream!Drop(m)
<1>1. CASE Gone' = Gone
  <2>1. Lost' = Lost BY <1>1 DEF Lost
  <2>2. QED BY <2>1
<1>2. CASE Gone' = sent' /\ sent' = 0
  <2>1. 1..Gone' = {} BY <1>2
  <2>2. 1..Gone = {}
    <3>1. Gone \in Nat BY StreamTypes DEF Gone
    <3>2. QED BY <1>2, <3>1
  <2>3. Lost = {} /\ Lost' = {} BY <2>1, <2>2 DEF Lost
  <2>4. QED BY <2>3
<1>3. CASE Gone' = sent' /\ sent' # 0
  <2>1. Lost' = {i \in 1..sent' : Whole(i) \notin Range(processed)} BY <1>3 DEF Lost
  <2>2. Lost \subseteq Lost'
    <3>1. Gone \in Nat BY StreamTypes DEF Gone
    <3>2. \A i \in 1..Gone : i \in 1..sent' BY <1>3, <3>1
    <3>3. QED BY <2>1, <3>2 DEF Lost
  <2>3. Stream!Drop(sent')
    BY <2>1, <2>2 DEF Stream!Drop, Stream!Delivered, Stream!Range, Range, Lost
  <2>4. sent' \in Packets BY <1>3, StreamTypes DEF Packets
  <2>5. QED BY <2>3, <2>4
<1>4. QED BY <1>1, <1>2, <1>3

\* Every step but a delivery.
LEMMA OthersDrop ==
  ASSUME IInv, [Next]_vars, ~\E r \in Receivers : Process(r) /\ Alone /\ r = Current
  PROVE  UNCHANGED <<processed, Lost>> \/ \E m \in Packets : Stream!Drop(m)
<1>1. TypeOK BY DEF IInv
<1>2. /\ sent \in Nat /\ before \in Nat /\ before <= sent /\ PacketCount \in Nat /\ sent <= PacketCount
      /\ Gone \in {before, sent} /\ (shared => Gone = sent) /\ (~shared => Gone = before)
  BY <1>1, StreamTypes DEF Gone
<1>3. CASE BridgeWrites
  <2>1. processed' = processed /\ shared' = shared /\ sent' = sent + 1 /\ before' = before /\ sent < PacketCount
    BY <1>3 DEF BridgeWrites, Write
  <2>2. (Gone' = Gone \/ Gone' = sent') /\ Gone <= Gone' BY <1>2, <2>1 DEF Gone
  <2>3. sent' \in Nat /\ sent' <= PacketCount BY <1>2, <2>1
  <2>4. QED BY <1>1, <2>1, <2>2, <2>3, MoreIsGone
<1>4. ASSUME EndSession, processed' = processed
      PROVE  UNCHANGED <<processed, Lost>> \/ \E m \in Packets : Stream!Drop(m)
  <2>1. before' = sent /\ sent' = sent /\ shared' = FALSE BY <1>4 DEF EndSession, Lose
  <2>2. Gone' = sent' /\ Gone <= Gone' BY <1>2, <2>1 DEF Gone
  <2>3. QED BY <1>1, <1>2, <1>4, <2>1, <2>2, MoreIsGone
<1>5. ASSUME processed' = processed, sent' = sent, before' = before, shared' = shared
      PROVE  UNCHANGED <<processed, Lost>>
  <2>1. Gone' = Gone BY <1>5 DEF Gone
  <2>2. QED BY <1>5, <2>1 DEF Lost
<1>6. CASE Enter BY <1>5, <1>6 DEF Enter, streamVars
<1>7. CASE Leave BY <1>4, <1>7 DEF Leave
<1>8. CASE UNCHANGED vars BY <1>5, <1>8 DEF vars, streamVars
<1>9. ASSUME NEW r \in Receivers, Receive(r)
      PROVE  UNCHANGED <<processed, Lost>> \/ \E m \in Packets : Stream!Drop(m)
  <2>1. CASE CallRecv(r)
    <3>1. /\ processed' = processed /\ sent' = sent /\ before' = before
          /\ shared' = shared \/ (shared' = TRUE /\ ~shared)
      BY <1>1, <2>1 DEF CallRecv, streamVars, TypeOK
    <3>2. (Gone' = Gone \/ Gone' = sent') /\ Gone <= Gone' BY <1>2, <3>1 DEF Gone
    <3>3. QED BY <1>1, <1>2, <3>1, <3>2, MoreIsGone
  <2>2. CASE Read(r)
    <3>1. processed' = processed /\ sent' = sent /\ before' = before /\ shared' = shared
      BY <2>2 DEF Read, Consume
    <3>2. QED BY <1>5, <3>1
  <2>3. CASE ReadOld(r) BY <1>5, <2>3 DEF ReadOld, streamVars
  <2>4. CASE Closed(r) BY <1>4, <1>5, <2>4 DEF Closed, streamVars
  <2>5. CASE GoOn(r) BY <1>5, <2>5 DEF GoOn, streamVars
  <2>6. CASE SkipInvalid(r) BY <1>5, <2>6 DEF SkipInvalid, streamVars
  <2>7. CASE Process(r)
    <3>1. ~(Alone /\ r = Current) BY <2>7
    <3>2. processed' = processed /\ sent' = sent /\ before' = before /\ shared' = shared
      BY <2>7, <3>1 DEF Process, streamVars
    <3>3. QED BY <1>5, <3>2
  <2>8. CASE Abandon(r) BY <1>5, <2>8 DEF Abandon, streamVars
  <2>9. CASE Stop(r) BY <1>5, <2>9 DEF Stop, streamVars
  <2>10. QED BY <1>9, <2>1, <2>2, <2>3, <2>4, <2>5, <2>6, <2>7, <2>8, <2>9 DEF Receive
<1>10. QED BY <1>3, <1>6, <1>7, <1>8, <1>9 DEF Next

\* However the reads cut the stream and however often chat is left and
\* entered again, a session's receiver calls processPacket() with every
\* packet, whole, once and in order, up to the end of the session or the
\* first recv() of a receiver that has survived an earlier one
\* (handleIncomingMessages).
THEOREM ReaderIsLineStream == Spec => DeliversLines
<1>1. Init => Stream!Init
  <2> SUFFICES ASSUME Init PROVE Stream!Init OBVIOUS
  <2>1. processed = <<>> /\ Gone = 0 BY DEF Init, StreamInit, Gone
  <2>2. 1..Gone = {} BY <2>1
  <2>3. QED BY <2>1, <2>2 DEF Stream!Init
<1>2. IInv /\ [Next]_vars => [Stream!Next]_(Stream!vars)
  <2> SUFFICES ASSUME IInv, [Next]_vars PROVE Stream!Next \/ UNCHANGED <<processed, Lost>>
    BY DEF Stream!vars, Lost
  <2>1. CASE \E r \in Receivers : Process(r) /\ Alone /\ r = Current
    <3>1. Process(Current) /\ Alone BY <2>1
    <3>2. QED BY <3>1, ProcessDelivers DEF Stream!Next, Packets, Stream!Packets
  <2>2. CASE ~\E r \in Receivers : Process(r) /\ Alone /\ r = Current
    BY <2>2, OthersDrop DEF Stream!Next, Packets, Stream!Packets
  <2>3. QED BY <2>1, <2>2
<1>3. QED BY <1>1, <1>2, InductiveInvariant, PTL DEF Spec, DeliversLines, Stream!Spec

-----------------------------------------------------------------------------
(* The bridge: the six-tilde test of a run of pieces. *)

-----------------------------------------------------------------------------
(* The six-tilde test. *)

\* The tildes of a token, by the piece they are in and their place there.
TildesOf(token) == UNION {{k} \X (1..Tildes[token[k].part]) : k \in DOMAIN token}

LEMMA TildesOfRun ==
  ASSUME NEW i, NEW m \in 1..5, NEW n \in 0..4, m <= n + 1
  PROVE  TildesOf(Run(i, m, n)) = UNION {{k} \X (1..Tildes[m + k - 1]) : k \in 1..n + 1 - m}
<1> DEFINE token == Run(i, m, n)
<1>1. token = [p \in 1..n + 1 - m |-> [packet |-> i, part |-> m + p - 1]] BY RunIs
<1> HIDE DEF token
<1>2. DOMAIN token = 1..n + 1 - m /\ \A k \in 1..n + 1 - m : token[k].part = m + k - 1 BY <1>1
<1>3. QED BY <1>2 DEF TildesOf, token

\* A piece of a packet passes if and only if it has both pieces with three.
LEMMA ValidRun ==
  ASSUME NEW i, NEW m \in 1..5, NEW n \in 0..4, m <= n + 1
  PROVE  Valid(Run(i, m, n)) <=> m <= 2 /\ n >= 3
<1> DEFINE T == UNION {{k} \X (1..Tildes[m + k - 1]) : k \in 1..n + 1 - m}
<1>1. Valid(Run(i, m, n)) <=> Cardinality(T) >= 6
  <2>1. TildesOf(Run(i, m, n)) = T BY TildesOfRun
  <2>2. Valid(Run(i, m, n)) <=> Cardinality(TildesOf(Run(i, m, n))) >= 6
    BY ONLY Zenon DEF Valid, TildeCount, TildesOf
  <2> HIDE DEF T
  <2>3. QED BY ONLY <2>1, <2>2
<1>2. Tildes[1] = 0 /\ Tildes[2] = 3 /\ Tildes[3] = 3 /\ Tildes[4] = 1 BY DEF Tildes
<1>3. \A k \in 1..n + 1 - m : m + k - 1 \in 1..4 OBVIOUS
<1>4. IsFiniteSet(1..3) /\ Cardinality(1..3) = 3
  <2>1. IsFiniteSet(1..3) /\ Cardinality(1..3) = IF 1 > 3 THEN 0 ELSE 3 - 1 + 1 BY ONLY FS_Interval, 1 \in Int, 3 \in Int
  <2>2. QED BY <2>1
<1>5. CASE m <= 2 /\ n >= 3
  <2> DEFINE six == {3 - m, 4 - m} \X (1..3)
             all == (1..4) \X (1..3)
  <2>1. Cardinality(six) = 6
    <3>1. 3 - m # 4 - m OBVIOUS
    <3>2. IsFiniteSet({3 - m, 4 - m}) /\ Cardinality({3 - m, 4 - m}) = 2
      <4> DEFINE one == {3 - m}
      <4>1. IsFiniteSet(one) /\ Cardinality(one) = 1 /\ 4 - m \notin one BY <3>1, FS_Singleton
      <4> HIDE DEF one
      <4>2. IsFiniteSet(one \cup {4 - m}) /\ Cardinality(one \cup {4 - m}) = 2 BY ONLY <4>1, FS_AddElement
      <4>3. one \cup {4 - m} = {3 - m, 4 - m} BY DEF one
      <4>4. QED BY <4>2, <4>3
    <3>3. Cardinality(six) = Cardinality({3 - m, 4 - m}) * Cardinality(1..3)
      BY ONLY <1>4, <3>2, FS_Product
    <3>4. QED BY <1>4, <3>2, <3>3
  <2>2. six \subseteq T
    <3> SUFFICES ASSUME NEW k \in {3 - m, 4 - m}, NEW j \in 1..3 PROVE <<k, j>> \in T OBVIOUS
    <3>1. k \in 1..n + 1 - m /\ m + k - 1 \in {2, 3} BY <1>5
    <3>2. Tildes[m + k - 1] = 3 BY <1>2, <3>1
    <3>3. <<k, j>> \in {k} \X (1..Tildes[m + k - 1]) BY <3>2
    <3>4. QED BY <3>1, <3>3
  <2>3. T \subseteq all
    <3> SUFFICES ASSUME NEW k \in 1..n + 1 - m, NEW j \in 1..Tildes[m + k - 1] PROVE <<k, j>> \in all OBVIOUS
    <3>1. m + k - 1 \in 1..4 BY <1>3
    <3>2. Tildes[m + k - 1] \in {0, 1, 3} BY <1>2, <3>1
    <3>3. j \in 1..3 /\ k \in 1..4 BY <3>2
    <3>4. QED BY <3>3
  <2>4. IsFiniteSet(all)
    <3>1. IsFiniteSet(1..4) BY ONLY FS_Interval, 1 \in Int, 4 \in Int
    <3>2. QED BY ONLY <1>4, <3>1, FS_Product
  <2> HIDE DEF six, all, T
  <2>5. IsFiniteSet(T) BY ONLY <2>3, <2>4, FS_Subset
  <2>6. Cardinality(six) <= Cardinality(T) BY ONLY <2>2, <2>5, FS_Subset
  <2>7. Cardinality(T) \in Nat BY ONLY <2>5, FS_CardinalityType
  <2>8. QED BY <1>1, <1>5, <2>1, <2>6, <2>7
<1>6. CASE ~(m <= 2 /\ n >= 3)
  <2> DEFINE x == IF m <= 2 THEN 3 - m ELSE 4 - m
             three == {x} \X (1..3)
             four == three \cup {<<5 - m, 1>>}
  <2>1. T \subseteq four
    <3> SUFFICES ASSUME NEW k \in 1..n + 1 - m, NEW j \in 1..Tildes[m + k - 1] PROVE <<k, j>> \in four OBVIOUS
    <3>1. m + k - 1 \in 1..4 BY <1>3
    <3>2. CASE m + k - 1 = 1 BY <1>2, <3>2
    <3>3. CASE m + k - 1 \in {2, 3}
      <4>1. k = x BY <1>6, <3>3
      <4>2. j \in 1..3 BY <1>2, <3>3
      <4>3. QED BY <4>1, <4>2
    <3>4. CASE m + k - 1 = 4
      <4>1. k = 5 - m /\ j = 1 BY <1>2, <3>4
      <4>2. QED BY <4>1
    <3>5. QED BY <3>1, <3>2, <3>3, <3>4
  <2>2. IsFiniteSet(three) /\ Cardinality(three) = 3
    <3>1. IsFiniteSet({x}) /\ Cardinality({x}) = 1 BY FS_Singleton
    <3>2. IsFiniteSet(three) /\ Cardinality(three) = Cardinality({x}) * Cardinality(1..3)
      BY ONLY <1>4, <3>1, FS_Product
    <3>3. QED BY <1>4, <3>1, <3>2
  <2> HIDE DEF three, x, T
  <2>3. IsFiniteSet(four) /\ (Cardinality(four) = 3 \/ Cardinality(four) = 4)
    BY <2>2, FS_AddElement
  <2> HIDE DEF four
  <2>4. IsFiniteSet(T) /\ Cardinality(T) <= Cardinality(four) BY ONLY <2>1, <2>3, FS_Subset
  <2>5. Cardinality(T) \in Nat BY ONLY <2>4, FS_CardinalityType
  <2>6. QED BY <1>1, <1>6, <2>3, <2>4, <2>5
<1>7. QED BY <1>5, <1>6

-----------------------------------------------------------------------------
(* The host's stream: the inductive invariant. *)

\* What is on the wire begins after piece d of packet j.
WireFrom(j, d) ==
    LET a == Size * (j - 1) + d IN Len(wire) = Size * sent - a /\ At(wire, a)

\* The tokens left of this read begin with piece m of packet i and end with
\* piece d of packet i + c, or such a one was kept.
TokensInv(i, m, c, d) ==
    /\ packets = <<>> => c = 0 /\ partialPacket = Run(i, m, d)
    /\ packets # <<>> =>
        /\ partialPacket = <<>> /\ TokensOf(packets, i, m, c, d)
        /\ pktCount \in Nat \ {0} /\ (pktCount = 1 => c = 0 /\ i \in headless)

\* The next token begins with piece m of packet i: what lies before it.
PassedInv(i, m) ==
    /\ m > 1 => i \in headless
    /\ \A j \in before + 1..i - 1 : j \in headless \/ Whole(j) \in Range(processed)
    /\ \A k \in DOMAIN processed :
         /\ processed[k][1].packet \in Nat
         /\ processed[k][1].packet < i \/ (processed[k][1].packet = i /\ m >= 4)

WholeInv ==
    \A k \in DOMAIN processed :
        processed[k][1].packet \notin headless => processed[k] = Whole(processed[k][1].packet)

HostPlaced(i, m, c, d) ==
    /\ i + c <= sent + 1 /\ (c = 0 => m <= d + 1)
    /\ WireFrom(i + c, d) /\ TokensInv(i, m, c, d) /\ PassedInv(i, m)

HostInv ==
    /\ HostTypeOK /\ OnceInOrder /\ WholeInv
    /\ \E i \in before + 1..sent + 1, m \in 1..5, c \in Nat, d \in 0..4 : HostPlaced(i, m, c, d)

LEMMA HostTypes ==
  ASSUME HostTypeOK
  PROVE  /\ PacketCount \in Nat /\ DataLen \in Nat /\ DataLen > 5
         /\ sent \in Nat /\ sent <= PacketCount /\ before \in Nat /\ before <= sent
         /\ wire \in Seq(Bytes) /\ Len(wire) \in Nat
         /\ partialPacket \in Seq(Bytes)
         /\ packets \in Seq(Seq(Bytes \ {LF})) /\ processed \in Seq(Seq(Bytes \ {LF}))
<1>1. PacketCount \in Nat /\ DataLen \in Nat /\ DataLen > 5 BY StreamAssumption, Pieces
<1>2. sent \in Nat /\ sent <= PacketCount /\ before \in Nat /\ before <= sent
  BY <1>1 DEF HostTypeOK, StreamTypeOK
<1>3. wire \in Seq(Bytes) /\ Len(wire) \in Nat BY DEF HostTypeOK, StreamTypeOK
<1>4. partialPacket \in Seq(Bytes \ {LF}) BY DEF HostTypeOK
<1>5. partialPacket \in Seq(Bytes) BY <1>4
<1>6. packets \in Seq(Seq(Bytes \ {LF})) /\ processed \in Seq(Seq(Bytes \ {LF})) BY DEF HostTypeOK
<1>7. QED BY <1>1, <1>2, <1>3, <1>5, <1>6

LEMMA EmptyRun == ASSUME NEW i, NEW d \in 0..4 PROVE Run(i, d + 1, d) = <<>>
<1>1. d + 1 \in 1..5 /\ d + 1 <= d + 1 OBVIOUS
<1>2. QED BY ONLY <1>1, d \in 0..4, RunForm

LEMMA InitHostInv == HostInit => HostInv
<1> SUFFICES ASSUME HostInit PROVE HostInv OBVIOUS
<1>1. /\ wire = <<>> /\ sent = 0 /\ drops = 0 /\ before = 0
      /\ partialPacket = <<>> /\ packets = <<>> /\ pktCount = 0 /\ processed = <<>> /\ headless = {}
  BY DEF HostInit, StreamInit
<1>2. HostTypeOK
  <2>1. wire \in Seq(Bytes) BY <1>1
  <2>2. partialPacket \in Seq(Bytes \ {LF}) BY <1>1
  <2>3. packets \in Seq(Seq(Bytes \ {LF})) BY <1>1
  <2>4. processed \in Seq(Seq(Bytes \ {LF})) BY <1>1
  <2>5. QED BY <1>1, <2>1, <2>2, <2>3, <2>4, StreamAssumption DEF HostTypeOK, StreamTypeOK
<1>3. OnceInOrder /\ WholeInv BY <1>1 DEF OnceInOrder, WholeInv
<1>4. WireFrom(1, 0) BY <1>1 DEF WireFrom, At, Size
<1>5. TokensInv(1, 1, 0, 0)
  <2>1. Run(1, 0 + 1, 0) = <<>> BY ONLY EmptyRun, 0 \in 0..4
  <2>2. QED BY <1>1, <2>1 DEF TokensInv
<1>6. PassedInv(1, 1) BY <1>1 DEF PassedInv
<1>7. HostPlaced(1, 1, 0, 0) BY <1>1, <1>4, <1>5, <1>6 DEF HostPlaced
<1>8. 1 \in before + 1..sent + 1 BY <1>1
<1>9. QED BY <1>2, <1>3, <1>7, <1>8 DEF HostInv

LEMMA HostWritesKeeps == ASSUME HostInv, HostWrites PROVE HostInv'
<1>1. PICK i \in before + 1..sent + 1, m \in 1..5, c \in Nat, d \in 0..4 : HostPlaced(i, m, c, d)
  BY DEF HostInv
<1>2. HostTypeOK BY DEF HostInv
<1>3. /\ sent < PacketCount /\ sent' = sent + 1 /\ wire' = Append(wire \o Whole(sent + 1), LF)
      /\ UNCHANGED <<drops, before, partialPacket, packets, pktCount, processed, headless>>
  BY DEF HostWrites, Write
<1>4. /\ PacketCount \in Nat /\ sent \in Nat /\ sent <= PacketCount /\ before \in Nat /\ before <= sent
      /\ wire \in Seq(Bytes) /\ Len(wire) \in Nat
  BY <1>2, HostTypes
<1>5. sent + 1 \in Packets BY <1>3, <1>4 DEF Packets
<1>6. /\ wire' \in Seq(Bytes) /\ Len(wire') = Len(wire) + 5
      /\ \A p \in 1..Len(wire) : wire'[p] = wire[p]
      /\ \A k \in 1..4 : wire'[Len(wire) + k] = [packet |-> sent + 1, part |-> k]
      /\ wire'[Len(wire) + 5] = LF
  <2> DEFINE whole == Whole(sent + 1)
  <2>1. whole \in Seq(Bytes \ {LF}) /\ Len(whole) = 4 /\ \A k \in 1..4 : whole[k] = [packet |-> sent + 1, part |-> k]
    BY <1>5, WholePacket
  <2>2. wire' = Append(wire \o whole, LF) BY <1>3
  <2> HIDE DEF whole
  <2>3. whole \in Seq(Bytes) BY <2>1, OfMore
  <2>4. LF \in Bytes BY DEF Bytes
  <2>5. /\ wire' \in Seq(Bytes) /\ Len(wire') = Len(wire) + Len(whole) + 1
        /\ \A p \in 1..Len(wire) : wire'[p] = wire[p]
        /\ \A k \in 1..Len(whole) : wire'[Len(wire) + k] = whole[k]
        /\ wire'[Len(wire) + Len(whole) + 1] = LF
    BY <1>4, <2>2, <2>3, <2>4, Written
  <2>6. Len(wire) + Len(whole) + 1 = Len(wire) + 5 /\ 1..Len(whole) = 1..4 BY <1>4, <2>1
  <2>7. QED BY <2>1, <2>5, <2>6
<1>7. HostTypeOK'
  <2>1. sent' \in 0..PacketCount /\ before' \in 0..sent' /\ drops' \in 0..MaxDrops
    BY <1>2, <1>3, <1>4 DEF HostTypeOK, StreamTypeOK
  <2>2. QED BY <1>2, <1>3, <1>6, <2>1 DEF HostTypeOK, StreamTypeOK
<1>8. WireFrom(i + c, d)'
  <2> DEFINE a == 5 * (i + c - 1) + d
  <2>1. Len(wire) = 5 * sent - a /\ At(wire, a) BY <1>1 DEF HostPlaced, WireFrom, Size
  <2>2. i \in Nat /\ i >= 1 /\ a \in Nat BY <1>4
  <2> HIDE DEF a
  <2>3. Len(wire') = 5 * sent' - a BY <1>3, <1>4, <1>6, <2>1, <2>2
  <2>4. ASSUME NEW p \in 1..Len(wire') PROVE wire'[p] = Piece(a + p)
    <3>1. CASE p <= Len(wire)
      <4>1. p \in 1..Len(wire) BY <1>4, <3>1
      <4>2. QED BY <1>6, <2>1, <4>1 DEF At
    <3>2. CASE p > Len(wire)
      <4>1. PICK k \in 1..5 : p = Len(wire) + k
        <5>1. p - Len(wire) \in 1..5 /\ p = Len(wire) + (p - Len(wire))
          BY ONLY <1>4, <1>6, <3>2, p \in 1..Len(wire')
        <5>2. QED BY <5>1
      <4>2. a + p = 5 * ((sent + 1) - 1) + k BY <1>4, <2>1, <2>2, <4>1
      <4>3. Piece(5 * ((sent + 1) - 1) + k) = IF k = 5 THEN LF ELSE [packet |-> sent + 1, part |-> k]
        <5>1. sent + 1 \in Nat /\ sent + 1 >= 1 BY <1>4
        <5>2. QED BY ONLY <5>1, k \in 1..5, PieceIs
      <4>4. wire'[p] = IF k = 5 THEN LF ELSE [packet |-> sent + 1, part |-> k]
        <5>1. CASE k = 5 BY <1>6, <4>1, <5>1
        <5>2. CASE k # 5
          <6>1. k \in 1..4 BY <5>2
          <6>2. QED BY <1>6, <4>1, <5>2, <6>1
        <5>3. QED BY <5>1, <5>2
      <4>5. QED BY <4>2, <4>3, <4>4
    <3>3. QED BY <1>4, <1>6, <3>1, <3>2
  <2>5. QED BY <2>3, <2>4 DEF WireFrom, At, Size, a
<1>9. TokensInv(i, m, c, d)' /\ PassedInv(i, m)' /\ (c = 0 => m <= d + 1)
  BY <1>1, <1>3 DEF HostPlaced, TokensInv, PassedInv
<1>10. OnceInOrder' /\ WholeInv' BY <1>3 DEF HostInv, OnceInOrder, WholeInv
<1>11. i \in (before + 1..sent + 1)' /\ i + c <= sent' + 1
  BY <1>1, <1>3, <1>4 DEF HostPlaced
<1>12. QED BY <1>7, <1>8, <1>9, <1>10, <1>11 DEF HostInv, HostPlaced

-----------------------------------------------------------------------------
(* The bridge: every step keeps the invariant. *)


\* k pieces read where packet i is left after piece d, put behind its pieces
\* from m on, and what stays on the wire.
ReadGives(i, m, d, k) ==
    LET text == partialPacket \o SubSeq(wire, 1, k)
        rest == SubSeq(wire, k + 1, Len(wire))
        a    == Size * (i - 1) + d + k
    IN  /\ text \in Seq(Bytes) /\ Len(text) = d + k - (m - 1)
        /\ At(text, Size * (i - 1) + (m - 1))
        /\ a <= Size * sent /\ Len(SubSeq(wire, 1, k)) = k
        /\ rest \in Seq(Bytes) /\ Len(rest) = Size * sent - a /\ At(rest, a)

\* What a read hands over, put behind what was kept, is the stream from piece
\* m of packet i on, and what stays on the wire follows it.
LEMMA ReadText ==
  ASSUME HostTypeOK, NEW i \in Nat, i >= 1, NEW m \in 1..5, NEW d \in 0..4, m <= d + 1,
         WireFrom(i, d), partialPacket = Run(i, m, d), NEW k \in 1..Len(wire)
  PROVE  ReadGives(i, m, d, k)
<1> DEFINE data == SubSeq(wire, 1, k)
           text == partialPacket \o data
           rest == SubSeq(wire, k + 1, Len(wire))
           a    == 5 * (i - 1) + d
           b    == 5 * (i - 1) + (m - 1)
<1>0. /\ data = SubSeq(wire, 1, k) /\ text = partialPacket \o data
      /\ rest = SubSeq(wire, k + 1, Len(wire)) /\ a = 5 * (i - 1) + d /\ b = 5 * (i - 1) + (m - 1)
  OBVIOUS
<1> HIDE DEF data, text, rest, a, b
<1>1. wire \in Seq(Bytes) /\ Len(wire) \in Nat /\ partialPacket \in Seq(Bytes) /\ sent \in Nat BY HostTypes
<1>2. Len(wire) = 5 * sent - a /\ At(wire, a) BY ONLY WireFrom(i, d), <1>0 DEF WireFrom, Size
<1>3. /\ Len(partialPacket) = d + 1 - m
      /\ \A p \in 1..d + 1 - m : partialPacket[p] = [packet |-> i, part |-> m + p - 1]
  BY ONLY partialPacket = Run(i, m, d), m \in 1..5, d \in 0..4, m <= d + 1, RunForm
<1>4. data \in Seq(Bytes) /\ Len(data) = k /\ \A p \in 1..Len(data) : data[p] = wire[p]
  <2>1. 1 \in 1..Len(wire) + 1 /\ k \in 0..Len(wire) /\ 1 <= k + 1 /\ k + 1 - 1 = k BY ONLY <1>1, k \in 1..Len(wire)
  <2>2. /\ SubSeq(wire, 1, k) \in Seq(Bytes) /\ Len(SubSeq(wire, 1, k)) = k + 1 - 1
        /\ \A p \in 1..Len(SubSeq(wire, 1, k)) : SubSeq(wire, 1, k)[p] = wire[1 + p - 1]
    BY ONLY <1>1, <2>1, Part
  <2>3. \A p \in 1..k : 1 + p - 1 = p OBVIOUS
  <2>4. QED BY ONLY <2>1, <2>2, <2>3, <1>0
<1>5. /\ rest \in Seq(Bytes) /\ Len(rest) = Len(wire) + 1 - (k + 1)
      /\ \A p \in 1..Len(rest) : rest[p] = wire[k + 1 + p - 1]
  <2>1. k + 1 \in 1..Len(wire) + 1 /\ Len(wire) \in 0..Len(wire) /\ k + 1 <= Len(wire) + 1
    BY ONLY <1>1, k \in 1..Len(wire)
  <2>2. /\ SubSeq(wire, k + 1, Len(wire)) \in Seq(Bytes)
        /\ Len(SubSeq(wire, k + 1, Len(wire))) = Len(wire) + 1 - (k + 1)
        /\ \A p \in 1..Len(SubSeq(wire, k + 1, Len(wire))) :
             SubSeq(wire, k + 1, Len(wire))[p] = wire[k + 1 + p - 1]
    BY ONLY <1>1, <2>1, Part
  <2>3. QED BY ONLY <2>2, <1>0
<1>6. a \in Nat /\ b \in Nat /\ a = b + (d + 1 - m) /\ d + 1 - m \in Nat BY <1>0
<1>7. /\ text \in Seq(Bytes) /\ Len(text) = Len(partialPacket) + Len(data)
      /\ \A p \in 1..Len(partialPacket) : text[p] = partialPacket[p]
      /\ \A p \in 1..Len(data) : text[Len(partialPacket) + p] = data[p]
  BY ONLY <1>0, <1>1, <1>4, JoinedForm
<1>8. Len(text) = d + 1 - m + k BY <1>3, <1>4, <1>7
<1>9. At(text, b)
  <2> SUFFICES ASSUME NEW p \in 1..Len(text) PROVE text[p] = Piece(b + p) BY DEF At
  <2>1. CASE p <= d + 1 - m
    <3>1. p \in Nat /\ p >= 1 BY <1>8, <1>6
    <3>2. p \in 1..d + 1 - m /\ m + p - 1 \in 1..5 /\ m + p - 1 # 5
      BY ONLY <2>1, <3>1, m \in 1..5, d \in 0..4, m <= d + 1
    <3>3. 5 * (i - 1) + (m + p - 1) = b + p
      BY <1>0, <3>1
    <3>4. Piece(5 * (i - 1) + (m + p - 1)) = [packet |-> i, part |-> m + p - 1]
      BY ONLY <3>2, i \in Nat, i >= 1, PieceIs
    <3>5. text[p] = partialPacket[p] BY ONLY <1>3, <1>7, <3>2
    <3>6. QED BY <1>3, <3>2, <3>3, <3>4, <3>5
  <2>2. CASE p > d + 1 - m
    <3>1. PICK j \in 1..k : p = d + 1 - m + j
      <4>1. p - (d + 1 - m) \in 1..k /\ p = d + 1 - m + (p - (d + 1 - m)) BY <1>6, <1>8, <2>2
      <4>2. QED BY <4>1
    <3>2. j \in 1..Len(wire) /\ j \in 1..Len(data) BY <1>4
    <3>3. text[p] = wire[j] BY <1>3, <1>4, <1>7, <3>1, <3>2
    <3>4. wire[j] = Piece(a + j) BY <1>2, <3>2 DEF At
    <3>5. a + j = b + p BY <1>6, <3>1
    <3>6. QED BY <3>3, <3>4, <3>5
  <2>3. QED BY <1>6, <1>8, <2>1, <2>2
<1>10. At(rest, a + k)
  <2> SUFFICES ASSUME NEW p \in 1..Len(rest) PROVE rest[p] = Piece(a + k + p) BY DEF At
  <2> DEFINE w == Len(wire)
             r == Len(rest)
  <2>0. w \in Nat /\ r = w + 1 - (k + 1) /\ p \in 1..r /\ k \in 1..w BY <1>1, <1>5
  <2> HIDE DEF w, r
  <2>1. k + 1 + p - 1 \in 1..w /\ a + (k + 1 + p - 1) = a + k + p
    BY ONLY <2>0, <1>6
  <2>2. wire[k + 1 + p - 1] = Piece(a + (k + 1 + p - 1)) BY <1>2, <2>1 DEF At, w
  <2>3. QED BY <1>5, <2>1, <2>2
<1>11. a + k <= 5 * sent /\ Len(rest) = 5 * sent - (a + k) BY <1>1, <1>2, <1>5, <1>6
<1>12. Len(text) = d + k - (m - 1) BY <1>8
<1>13. a + k = Size * (i - 1) + d + k /\ Size = 5 BY <1>0 DEF Size
<1>14. b = Size * (i - 1) + (m - 1) BY <1>0 DEF Size
<1>15. QED
  BY ONLY <1>4, <1>5, <1>7, <1>9, <1>10, <1>11, <1>12, <1>13, <1>14 DEF ReadGives, data, text, rest

LEMMA ReadHostKeeps == ASSUME HostInv, ReadHost PROVE HostInv'
<1>1. PICK i \in before + 1..sent + 1, m \in 1..5, c0 \in Nat, d0 \in 0..4 : HostPlaced(i, m, c0, d0)
  BY DEF HostInv
<1>2. HostTypeOK BY DEF HostInv
<1>3. packets = <<>> BY DEF ReadHost
<1>4. c0 = 0 /\ partialPacket = Run(i, m, d0) /\ m <= d0 + 1 /\ WireFrom(i, d0) /\ PassedInv(i, m)
  <2>1. c0 = 0 /\ partialPacket = Run(i, m, d0) BY <1>1, <1>3 DEF HostPlaced, TokensInv
  <2>2. i \in Nat /\ i + 0 = i BY <1>2, HostTypes
  <2>3. QED BY <1>1, <2>1, <2>2 DEF HostPlaced
<1>5. PICK data \in Received(DataLen - 1 - Len(partialPacket)) :
        LET tokens == Split(partialPacket \o data) IN
           /\ Consume(data)
           /\ packets' = tokens
           /\ pktCount' = Len(tokens)
           /\ headless' = headless \cup (IF Len(tokens) = 1 THEN PacketsIn(tokens[1]) ELSE {})
  BY DEF ReadHost
<1>6. partialPacket' = <<>> /\ UNCHANGED <<sent, drops, before, processed>>
  BY <1>5 DEF ReadHost, Consume
<1>7. /\ PacketCount \in Nat /\ DataLen \in Nat /\ sent \in Nat /\ sent <= PacketCount
      /\ before \in Nat /\ before <= sent /\ i \in Nat /\ i >= 1
      /\ wire \in Seq(Bytes) /\ Len(wire) \in Nat
  BY <1>2, HostTypes
<1>8. PICK k \in 1..Len(wire) : data = SubSeq(wire, 1, k)
  <2> DEFINE room == DataLen - 1 - Len(partialPacket)
  <2>1. PICK k \in 1..(IF room < Len(wire) THEN room ELSE Len(wire)) : data = SubSeq(wire, 1, k)
    BY DEF Received
  <2>2. room \in Int
    <3>1. Len(partialPacket) \in Nat BY <1>2, HostTypes
    <3>2. QED BY <1>7, <3>1
  <2> HIDE DEF room
  <2>3. k \in 1..Len(wire) BY <1>7, <2>1, <2>2
  <2>4. QED BY <2>1, <2>3
<1> DEFINE text   == partialPacket \o data
           tokens == Split(text)
           rest   == SubSeq(wire, k + 1, Len(wire))
           a      == 5 * (i - 1) + d0
           b      == 5 * (i - 1) + (m - 1)
<1>9. /\ text \in Seq(Bytes) /\ Len(text) = d0 + k - (m - 1) /\ At(text, b)
      /\ a + k <= 5 * sent /\ Len(data) = k
      /\ rest \in Seq(Bytes) /\ Len(rest) = 5 * sent - (a + k) /\ At(rest, a + k)
  <2>1. i \in Nat /\ i >= 1 /\ m <= d0 + 1 BY <1>4, <1>7
  <2>2. ReadGives(i, m, d0, k)
    BY ONLY <1>2, <1>4, <2>1, m \in 1..5, d0 \in 0..4, k \in 1..Len(wire), ReadText
  <2>3. QED BY ONLY <1>8, <2>2 DEF ReadGives, Size, text, rest, a, b
<1>10. PICK c \in Nat, d \in 0..4 : d0 + k = 5 * c + d
  <2>1. d0 + k \in Nat BY <1>7
  <2>2. (d0 + k) \div 5 \in Nat /\ (d0 + k) % 5 \in 0..4 /\ d0 + k = 5 * ((d0 + k) \div 5) + ((d0 + k) % 5)
    BY <2>1
  <2>3. QED BY <2>2
<1> HIDE DEF text, rest, a, b
<1>11. tokens \in Seq(Seq(Bytes)) /\ TokensOf(tokens, i, m, c, d)
  <2>1. Len(text) = 5 * c + d - (m - 1) BY <1>9, <1>10
  <2>2. Covers(text, i, m, c, d) BY ONLY <1>9, <2>1 DEF Covers, Size, b
  <2>3. QED BY ONLY <1>7, <1>9, <1>10, <2>2, m \in 1..5, SplitRuns DEF tokens
<1>12. /\ packets' = tokens /\ pktCount' = c + 1 /\ wire' = rest
       /\ headless' = headless \cup (IF c = 0 THEN PacketsIn(tokens[1]) ELSE {})
  <2>1. packets' = tokens /\ pktCount' = Len(tokens) /\ wire' = SubSeq(wire, Len(data) + 1, Len(wire))
        /\ headless' = headless \cup (IF Len(tokens) = 1 THEN PacketsIn(tokens[1]) ELSE {})
    BY <1>5 DEF tokens, text, Consume
  <2>2. Len(tokens) = 1 <=> c = 0 BY <1>10, <1>11 DEF TokensOf
  <2>3. Len(tokens) = c + 1 BY <1>11 DEF TokensOf
  <2>4. SubSeq(wire, Len(data) + 1, Len(wire)) = rest BY <1>9 DEF rest
  <2>5. QED BY ONLY <2>1, <2>2, <2>3, <2>4
<1> HIDE DEF tokens
<1>13. i + c <= sent + 1 /\ (c = 0 => m <= d + 1 /\ m <= d /\ i <= sent) /\ (d > 0 => i + c <= sent)
  BY ONLY <1>4, <1>7, <1>9, <1>10, k \in 1..Len(wire), m \in 1..5, d0 \in 0..4 DEF a
<1>14. ASSUME c = 0 PROVE PacketsIn(tokens[1]) = {i}
  <2>1. 1 \in 1..c + 1 /\ ~(1 <= c) /\ i + 1 - 1 = i BY <1>7, <1>10, <1>14
  <2>2. tokens[1] = Run(i, m, d) BY <1>11, <2>1 DEF Token, TokensOf
  <2> DEFINE run == Run(i, m, d)
             S == {[packet |-> i, part |-> x] : x \in Nat}
  <2>3. /\ Len(run) = d + 1 - m
        /\ \A p \in 1..d + 1 - m : run[p] = [packet |-> i, part |-> m + p - 1]
    <3>1. d \in 0..4 /\ m <= d + 1 BY <1>10, <1>13, <1>14
    <3>2. QED BY ONLY <3>1, m \in 1..5, RunForm DEF run
  <2>4. run \in Seq(Bytes)
    <3>1. run = tokens[1] /\ 1 \in DOMAIN tokens BY <1>11, <2>1, <2>2 DEF TokensOf
    <3>2. QED BY <1>11, <3>1
  <2> HIDE DEF run
  <2>5. DOMAIN run = 1..d + 1 - m /\ 1 \in 1..d + 1 - m
    <3>1. m <= d /\ d \in 0..4 BY <1>10, <1>13, <1>14
    <3>2. DOMAIN run = 1..Len(run) BY ONLY <2>4
    <3>3. QED BY ONLY <2>3, <3>1, <3>2, m \in 1..5
  <2>6. PacketsIn(run) = {i} BY <2>3, <2>5 DEF PacketsIn
  <2>7. QED BY <2>2, <2>6 DEF run
<1>15. headless \subseteq headless' /\ (c = 0 => i \in headless') /\ headless' \subseteq Packets
  <2>1. headless \subseteq Packets BY <1>2 DEF HostTypeOK
  <2>2. c = 0 => i \in Packets BY <1>7, <1>13 DEF Packets
  <2>3. QED BY <1>12, <1>14, <2>1, <2>2
<1>16. packets' \in Seq(Seq(Bytes \ {LF}))
  <2>1. ASSUME NEW t \in 1..Len(tokens) PROVE tokens[t] \in Seq(Bytes \ {LF})
    <3> DEFINE j == i + t - 1
               mm == IF t = 1 THEN m ELSE 1
               n == IF t <= c THEN 4 ELSE d
    <3>0. t \in 1..c + 1 BY <1>11 DEF TokensOf
    <3>1. tokens[t] = Run(j, mm, n) BY <1>11, <3>0 DEF Token, TokensOf
    <3>2. mm \in 1..5 /\ n \in 0..4 /\ mm <= n + 1 /\ j \in Nat /\ j >= 1
      BY <1>7, <1>10, <1>13, <3>0
    <3>3. CASE j <= sent
      <4>1. j \in Packets BY <1>7, <3>2, <3>3 DEF Packets
      <4> HIDE DEF j, mm, n
      <4>2. Run(j, mm, n) \in Seq(Bytes \ {LF}) BY ONLY <3>2, <4>1, RunForm
      <4>3. QED BY ONLY <3>1, <4>2
    <3>4. CASE j > sent
      <4>1. n + 1 = mm BY <1>7, <1>10, <1>13, <3>0, <3>4
      <4> HIDE DEF j, mm, n
      <4>2. Run(j, mm, n) = <<>> BY ONLY <3>2, <4>1, RunForm
      <4>3. QED BY <3>1, <4>2
    <3>5. QED BY <1>7, <3>2, <3>3, <3>4
  <2>2. QED BY ONLY <1>11, <1>12, <2>1, Elements
<1>17. HostTypeOK'
  <2>1. partialPacket' \in Seq(Bytes \ {LF}) BY <1>6
  <2>2. pktCount' \in Nat BY <1>10, <1>12
  <2>3. wire' \in Seq(Bytes) BY <1>9, <1>12
  <2>4. QED BY <1>2, <1>6, <1>15, <1>16, <2>1, <2>2, <2>3 DEF HostTypeOK, StreamTypeOK
<1>18. WireFrom(i + c, d)'
  <2>1. 5 * (i + c - 1) + d = a + k BY <1>7, <1>10 DEF a
  <2>2. wire' = rest /\ sent' = sent BY <1>6, <1>12
  <2>3. Len(wire') = 5 * sent' - (a + k) BY ONLY <1>9, <2>2
  <2>4. \A p \in 1..Len(wire') : wire'[p] = Piece(a + k + p) BY ONLY <1>9, <2>2 DEF At
  <2>5. QED BY ONLY <2>1, <2>3, <2>4 DEF WireFrom, Size, At
<1>19. TokensInv(i, m, c, d)'
  <2>1. packets' # <<>> BY <1>10, <1>11, <1>12 DEF TokensOf
  <2>2. TokensOf(packets', i, m, c, d) BY <1>11, <1>12
  <2>3. pktCount' \in Nat \ {0} /\ (pktCount' = 1 => c = 0 /\ i \in headless') BY <1>10, <1>12, <1>15
  <2>4. QED BY <1>6, <2>1, <2>2, <2>3 DEF TokensInv
<1>20. PassedInv(i, m)' BY <1>4, <1>6, <1>15 DEF PassedInv
<1>21. OnceInOrder' /\ WholeInv' BY <1>6, <1>15 DEF HostInv, OnceInOrder, WholeInv
<1>22. i \in (before + 1..sent + 1)' BY <1>6
<1>23. HostPlaced(i, m, c, d)' BY <1>6, <1>13, <1>18, <1>19, <1>20 DEF HostPlaced
<1>24. QED BY <1>10, <1>17, <1>21, <1>22, <1>23 DEF HostInv

LEMMA RunStart ==
  ASSUME NEW i, NEW m \in 1..5, NEW n \in 0..4, m <= n + 1
  PROVE  /\ Run(i, m, n) = <<>> <=> m = n + 1
         /\ m <= n => Run(i, m, n)[1].packet = i
<1> DEFINE run == Run(i, m, n)
<1>1. /\ Len(run) = n + 1 - m
      /\ \A p \in 1..n + 1 - m : run[p] = [packet |-> i, part |-> m + p - 1]
      /\ n + 1 = m => run = <<>>
  BY ONLY m \in 1..5, n \in 0..4, m <= n + 1, RunForm
<1> HIDE DEF run
<1>2. m # n + 1 => run # <<>>
  <2> SUFFICES ASSUME run = <<>> PROVE m = n + 1 OBVIOUS
  <2>1. Len(run) = 0 OBVIOUS
  <2>2. QED BY ONLY <1>1, <2>1, m \in 1..5, n \in 0..4
<1>3. ASSUME m <= n PROVE run[1].packet = i
  <2>1. 1 \in 1..n + 1 - m BY <1>3
  <2>2. run[1] = [packet |-> i, part |-> m + 1 - 1] BY <1>1, <2>1
  <2>3. QED BY <2>2
<1>4. QED BY <1>1, <1>2, <1>3 DEF run

LEMMA FirstToken ==
  ASSUME NEW tokens, NEW i \in Nat, NEW m, NEW c \in Nat, NEW d, TokensOf(tokens, i, m, c, d)
  PROVE  tokens[1] = Run(i, m, IF c = 0 THEN d ELSE 4)
<1>1. 1 \in 1..c + 1 /\ i + 1 - 1 = i /\ (1 <= c <=> c # 0) OBVIOUS
<1>2. tokens[1] = Token(i, m, c, d, 1) BY <1>1 DEF TokensOf
<1>3. Token(i, m, c, d, 1) = Run(i, m, IF c = 0 THEN d ELSE 4)
  <2>1. CASE c = 0
    <3>1. ~(1 <= c) BY <2>1
    <3>2. QED BY <1>1, <2>1, <3>1 DEF Token
  <2>2. CASE c # 0
    <3>1. 1 <= c BY <2>2
    <3>2. QED BY <1>1, <2>2, <3>1 DEF Token
  <2>3. QED BY <2>1, <2>2
<1>4. QED BY <1>2, <1>3

LEMMA LaterTokens ==
  ASSUME NEW S, NEW tokens \in Seq(S), NEW i \in Nat, NEW m, NEW c \in Nat, c > 0, NEW d,
         TokensOf(tokens, i, m, c, d), NEW rest, rest = Tail(tokens)
  PROVE  rest # <<>> /\ TokensOf(rest, i + 1, 1, c - 1, d)
<1>1. Len(tokens) = c + 1 /\ tokens # <<>>
  <2>1. Len(tokens) = c + 1 BY DEF TokensOf
  <2>2. Len(tokens) # 0 BY <2>1
  <2>3. QED BY <2>1, <2>2
<1>2. rest \in Seq(S) /\ Len(rest) = c /\ \A t \in 1..c : rest[t] = tokens[t + 1]
  <2>1. /\ rest \in Seq(S) /\ Len(rest) = Len(tokens) - 1
        /\ \A t \in 1..Len(tokens) - 1 : rest[t] = tokens[t + 1]
    BY <1>1, TailForm
  <2>2. Len(tokens) - 1 = c BY <1>1
  <2>3. QED BY <2>1, <2>2
<1>3. ASSUME NEW t \in 1..(c - 1) + 1 PROVE rest[t] = Token(i + 1, 1, c - 1, d, t)
  <2>1. /\ t \in 1..c /\ t + 1 \in 1..c + 1 /\ t + 1 # 1 /\ i + (t + 1) - 1 = (i + 1) + t - 1
        /\ (t + 1 <= c <=> t <= c - 1)
    OBVIOUS
  <2>2. rest[t] = Token(i, m, c, d, t + 1) BY <1>2, <2>1 DEF TokensOf
  <2>3. Token(i, m, c, d, t + 1) = Run((i + 1) + t - 1, 1, IF t <= c - 1 THEN 4 ELSE d)
    <3>1. CASE t <= c - 1
      <4>1. t + 1 <= c BY <3>1
      <4>2. QED BY ONLY <2>1, <3>1, <4>1 DEF Token
    <3>2. CASE ~(t <= c - 1)
      <4>1. ~(t + 1 <= c) BY <3>2
      <4>2. QED BY ONLY <2>1, <3>2, <4>1 DEF Token
    <3>3. QED BY <3>1, <3>2
  <2>4. Token(i + 1, 1, c - 1, d, t) = Run((i + 1) + t - 1, 1, IF t <= c - 1 THEN 4 ELSE d)
    BY DEF Token
  <2>5. QED BY <2>2, <2>3, <2>4
<1>4. rest # <<>>
  <2>1. Len(rest) # 0 BY <1>2
  <2>2. QED BY <2>1
<1>5. QED BY <1>2, <1>3, <1>4 DEF TokensOf

LEMMA CaptureKeeps == ASSUME HostInv, Capture PROVE HostInv'
<1>1. PICK i \in before + 1..sent + 1, m \in 1..5, c \in Nat, d \in 0..4 : HostPlaced(i, m, c, d)
  BY DEF HostInv
<1>2. HostTypeOK BY DEF HostInv
<1>3. /\ packets # <<>> /\ IsPartial /\ partialPacket' = packets[1] /\ packets' = <<>>
      /\ UNCHANGED <<wire, sent, drops, before, pktCount, processed, headless>>
  BY DEF Capture, streamVars
<1>4. i \in Nat BY <1>2, HostTypes
<1>5. TokensOf(packets, i, m, c, d) BY <1>1, <1>3 DEF HostPlaced, TokensInv
<1>6. c = 0
  <2>1. Len(packets) = c + 1 /\ Len(packets) = 1 BY <1>3, <1>5 DEF TokensOf, IsPartial
  <2>2. c + 1 = 1 BY ONLY <2>1
  <2>3. QED BY ONLY <2>2, c \in Nat
<1>7. packets[1] = Run(i, m, d) BY <1>4, <1>5, <1>6, FirstToken
<1>8. HostTypeOK'
  <2>1. packets \in Seq(Seq(Bytes \ {LF})) BY <1>2 DEF HostTypeOK
  <2>2. packets[1] \in Seq(Bytes \ {LF}) BY <1>3, <2>1
  <2>3. <<>> \in Seq(Seq(Bytes \ {LF})) OBVIOUS
  <2>4. QED BY <1>2, <1>3, <2>2, <2>3 DEF HostTypeOK, StreamTypeOK
<1>9. TokensInv(i, m, c, d)' BY <1>3, <1>6, <1>7 DEF TokensInv
<1>10. WireFrom(i + c, d)' /\ PassedInv(i, m)' /\ OnceInOrder' /\ WholeInv'
  BY <1>1, <1>3 DEF HostInv, HostPlaced, WireFrom, PassedInv, OnceInOrder, WholeInv
<1>11. i + c <= sent' + 1 /\ (c = 0 => m <= d + 1) /\ i \in (before + 1..sent + 1)'
  BY <1>1, <1>3 DEF HostPlaced
<1>12. HostPlaced(i, m, c, d)' BY <1>9, <1>10, <1>11 DEF HostPlaced
<1>13. QED BY <1>8, <1>10, <1>11, <1>12 DEF HostInv

\* The next token is taken, and that was right: the stream goes on behind it.
LEMMA Advance ==
  ASSUME HostTypeOK, NEW i \in before + 1..sent + 1, NEW m \in 1..5, NEW c \in Nat, NEW d \in 0..4,
         HostPlaced(i, m, c, d), packets # <<>>, ~IsPartial,
         packets' = Tail(packets),
         UNCHANGED <<wire, sent, drops, before, partialPacket, pktCount, headless>>,
         c > 0 => i \in headless \/ Whole(i) \in Range(processed'),
         Range(processed) \subseteq Range(processed'),
         \A k \in DOMAIN processed' :
            /\ processed'[k][1].packet \in Nat
            /\ \/ processed'[k][1].packet < i
               \/ processed'[k][1].packet = i /\ (c > 0 \/ d >= 3)
  PROVE  \E i2 \in (before + 1..sent + 1)', m2 \in 1..5, c2 \in Nat, d2 \in 0..4 :
            HostPlaced(i2, m2, c2, d2)'
<1>1. /\ i \in Nat /\ i >= before + 1 /\ before \in Nat /\ sent \in Nat /\ i <= sent + 1
      /\ packets \in Seq(Seq(Bytes \ {LF}))
  BY HostTypes
<1>2. /\ partialPacket = <<>> /\ TokensOf(packets, i, m, c, d)
      /\ pktCount \in Nat \ {0} /\ (pktCount = 1 => c = 0 /\ i \in headless)
  BY DEF HostPlaced, TokensInv
<1>3. /\ i + c <= sent + 1 /\ (c = 0 => m <= d + 1) /\ WireFrom(i + c, d)
      /\ m > 1 => i \in headless
      /\ \A j \in before + 1..i - 1 : j \in headless \/ Whole(j) \in Range(processed)
  BY DEF HostPlaced, PassedInv
<1>4. CASE c > 0
  <2>1. packets' # <<>> /\ TokensOf(packets', i + 1, 1, c - 1, d)
    BY ONLY <1>1, <1>2, <1>4, packets' = Tail(packets), c \in Nat, LaterTokens
  <2>2. TokensInv(i + 1, 1, c - 1, d)' BY <1>2, <1>4, <2>1 DEF TokensInv
  <2>3. PassedInv(i + 1, 1)'
    <3>1. ASSUME NEW j \in before + 1..(i + 1) - 1
          PROVE  j \in headless \/ Whole(j) \in Range(processed')
      <4>1. CASE j = i BY <1>4, <4>1
      <4>2. CASE j # i
        <5>1. j \in before + 1..i - 1 BY <1>1, <4>2
        <5>2. QED BY <1>3, <5>1
      <4>3. QED BY <4>1, <4>2
    <3>2. \A k \in DOMAIN processed' : processed'[k][1].packet \in Nat /\ processed'[k][1].packet < i + 1
      <4> SUFFICES ASSUME NEW k \in DOMAIN processed' PROVE processed'[k][1].packet \in Nat /\ processed'[k][1].packet < i + 1
        OBVIOUS
      <4> DEFINE x == processed'[k][1].packet
      <4>1. x \in Nat /\ (x < i \/ x = i) OBVIOUS
      <4> HIDE DEF x
      <4>2. x < i + 1 BY <1>1, <4>1
      <4>3. QED BY <4>1, <4>2 DEF x
    <3>3. headless' = headless /\ before' = before OBVIOUS
    <3>4. QED BY ONLY <3>1, <3>2, <3>3 DEF PassedInv
  <2>4. (i + 1) + (c - 1) = i + c /\ 1 <= d + 1 /\ c - 1 \in Nat BY <1>1, <1>4
  <2>5. WireFrom((i + 1) + (c - 1), d)' BY <1>3, <2>4 DEF WireFrom
  <2>6. (i + 1) + (c - 1) <= sent' + 1 BY <1>3, <2>4
  <2>7. HostPlaced(i + 1, 1, c - 1, d)' BY <2>2, <2>3, <2>4, <2>5, <2>6 DEF HostPlaced
  <2>8. i + 1 \in (before + 1..sent + 1)' /\ 1 \in 1..5 BY <1>1, <1>3, <1>4
  <2>9. QED BY ONLY <2>4, <2>7, <2>8, d \in 0..4
<1>5. CASE c = 0
  <2>1. Len(packets) = 1 /\ packets[1] = Run(i, m, d)
    <3>1. Len(packets) = 1 BY <1>2, <1>5 DEF TokensOf
    <3>2. QED BY <1>1, <1>2, <1>5, <3>1, FirstToken
  <2>2. packets' = <<>> BY <1>1, <2>1, TailForm
  <2>3. d > 0 => i \in headless
    <3>1. CASE pktCount = 1 BY <1>2, <3>1
    <3>2. CASE pktCount # 1
      <4>1. pktCount > 1 BY <1>2, <3>2
      <4>2. Run(i, m, d) = <<>> BY <2>1, <4>1 DEF IsPartial
      <4>3. m = d + 1 BY <1>3, <1>5, <4>2, RunStart
      <4>4. QED BY <1>3, <4>3
    <3>3. QED BY <3>1, <3>2
  <2>4. TokensInv(i, d + 1, c, d)'
    <3>1. Run(i, d + 1, d) = <<>> BY EmptyRun
    <3>2. QED BY <1>2, <1>5, <2>2, <3>1 DEF TokensInv
  <2>5. PassedInv(i, d + 1)'
    <3>1. d + 1 > 1 => i \in headless' BY <2>3
    <3>2. \A j \in before' + 1..i - 1 : j \in headless' \/ Whole(j) \in Range(processed') BY <1>3
    <3>3. ASSUME NEW k \in DOMAIN processed'
          PROVE  /\ processed'[k][1].packet \in Nat
                 /\ processed'[k][1].packet < i \/ (processed'[k][1].packet = i /\ d + 1 >= 4)
      <4>1. d >= 3 => d + 1 >= 4 OBVIOUS
      <4>2. ~(c > 0) BY <1>5
      <4>3. QED BY <4>1, <4>2
    <3>4. QED BY ONLY <3>1, <3>2, <3>3 DEF PassedInv
  <2>6. WireFrom(i + c, d)' BY <1>3 DEF WireFrom
  <2>7. HostPlaced(i, d + 1, c, d)' BY <1>3, <2>4, <2>5, <2>6 DEF HostPlaced
  <2>8. i \in (before + 1..sent + 1)' /\ d + 1 \in 1..5 BY <1>1
  <2>9. QED BY ONLY <2>7, <2>8, c \in Nat, d \in 0..4
<1>6. QED BY <1>4, <1>5

LEMMA SkipTokenKeeps == ASSUME HostInv, SkipToken PROVE HostInv'
<1>1. PICK i \in before + 1..sent + 1, m \in 1..5, c \in Nat, d \in 0..4 : HostPlaced(i, m, c, d)
  BY DEF HostInv
<1>2. HostTypeOK BY DEF HostInv
<1>3. /\ packets # <<>> /\ ~IsPartial /\ ~Valid(packets[1]) /\ packets' = Tail(packets)
      /\ UNCHANGED <<wire, sent, drops, before, partialPacket, pktCount, processed, headless>>
  BY DEF SkipToken, streamVars
<1>4. i \in Nat BY <1>2, HostTypes
<1>5. TokensOf(packets, i, m, c, d) /\ (c = 0 => m <= d + 1) /\ (m > 1 => i \in headless)
  BY <1>1, <1>3 DEF HostPlaced, TokensInv, PassedInv
<1> DEFINE n == IF c = 0 THEN d ELSE 4
<1>6. n \in 0..4 /\ m <= n + 1 BY <1>5
<1>7. packets[1] = Run(i, m, n) BY <1>4, <1>5, FirstToken
<1> HIDE DEF n
<1>8. ~(m <= 2 /\ n >= 3) BY ONLY <1>3, <1>6, <1>7, m \in 1..5, ValidRun
<1>9. c > 0 => i \in headless
  <2>1. c > 0 => n = 4 BY DEF n
  <2>2. c > 0 => m > 1 BY <1>8, <2>1
  <2>3. QED BY <1>5, <2>2
<1>10. ASSUME NEW k \in DOMAIN processed'
       PROVE  /\ processed'[k][1].packet \in Nat
              /\ \/ processed'[k][1].packet < i
                 \/ processed'[k][1].packet = i /\ (c > 0 \/ d >= 3)
  <2>1. /\ processed'[k][1].packet \in Nat
        /\ processed'[k][1].packet < i \/ (processed'[k][1].packet = i /\ m >= 4)
    BY <1>1, <1>3 DEF HostPlaced, PassedInv
  <2>2. m >= 4 => c > 0 \/ d >= 3 BY <1>5
  <2>3. QED BY <2>1, <2>2
<1>11. \E i2 \in (before + 1..sent + 1)', m2 \in 1..5, c2 \in Nat, d2 \in 0..4 :
         HostPlaced(i2, m2, c2, d2)'
  BY <1>1, <1>2, <1>3, <1>9, <1>10, Advance
<1>12. HostTypeOK'
  <2>1. packets \in Seq(Seq(Bytes \ {LF})) BY <1>2 DEF HostTypeOK
  <2>2. packets' \in Seq(Seq(Bytes \ {LF})) BY <1>3, <2>1, TailForm
  <2>3. QED BY <1>2, <1>3, <2>2 DEF HostTypeOK, StreamTypeOK
<1>13. OnceInOrder' /\ WholeInv' BY <1>3 DEF HostInv, OnceInOrder, WholeInv
<1>14. QED BY <1>11, <1>12, <1>13 DEF HostInv

LEMMA ProcessTokenKeeps == ASSUME HostInv, ProcessToken PROVE HostInv'
<1>1. PICK i \in before + 1..sent + 1, m \in 1..5, c \in Nat, d \in 0..4 : HostPlaced(i, m, c, d)
  BY DEF HostInv
<1>2. HostTypeOK BY DEF HostInv
<1> DEFINE token == packets[1]
           n == IF c = 0 THEN d ELSE 4
<1>3. /\ packets # <<>> /\ ~IsPartial /\ Valid(token) /\ packets' = Tail(packets)
      /\ processed' = Append(processed, token)
      /\ UNCHANGED <<wire, sent, drops, before, partialPacket, pktCount, headless>>
  BY DEF ProcessToken, streamVars
<1>4. /\ i \in Nat /\ i >= 1 /\ sent \in Nat /\ sent <= PacketCount /\ PacketCount \in Nat
      /\ packets \in Seq(Seq(Bytes \ {LF})) /\ processed \in Seq(Seq(Bytes \ {LF}))
      /\ token \in Seq(Bytes \ {LF})
  <2>1. packets \in Seq(Seq(Bytes \ {LF})) BY <1>2, HostTypes
  <2>2. token \in Seq(Bytes \ {LF}) BY <1>3, <2>1
  <2>3. QED BY <1>2, <2>1, <2>2, HostTypes
<1>5. /\ TokensOf(packets, i, m, c, d) /\ (c = 0 => m <= d + 1) /\ (m > 1 => i \in headless)
      /\ i + c <= sent + 1 /\ WireFrom(i + c, d)
      /\ pktCount \in Nat \ {0} /\ (pktCount = 1 => c = 0 /\ i \in headless)
      /\ \A k \in DOMAIN processed :
           /\ processed[k][1].packet \in Nat
           /\ processed[k][1].packet < i \/ (processed[k][1].packet = i /\ m >= 4)
  BY <1>1, <1>3 DEF HostPlaced, TokensInv, PassedInv
<1>6. n \in 0..4 /\ m <= n + 1 BY <1>5
<1>7. token = Run(i, m, n) BY <1>4, <1>5, FirstToken
<1> HIDE DEF n, token
<1>8. m <= 2 /\ n >= 3 BY ONLY <1>3, <1>6, <1>7, m \in 1..5, ValidRun
<1>9. token # <<>> /\ token[1].packet = i
  <2>1. m <= n /\ m # n + 1 BY <1>6, <1>8
  <2>2. QED BY ONLY <1>6, <1>7, <2>1, m \in 1..5, RunStart
<1>10. c = 0 => d >= 3 /\ i \in headless
  <2>1. c = 0 => d >= 3 BY <1>8 DEF n
  <2>2. ASSUME c = 0, pktCount # 1 PROVE FALSE
    <3>1. pktCount > 1 BY <1>5, <2>2
    <3>2. Len(packets) = 1 BY <1>5, <2>2 DEF TokensOf
    <3>3. QED BY <1>3, <1>9, <3>1, <3>2 DEF IsPartial, token
  <2>3. QED BY <1>5, <2>1, <2>2
<1>11. i \in Packets
  <2>1. CASE c > 0 BY <1>4, <1>5, <2>1 DEF Packets
  <2>2. CASE c = 0
    <3>1. Len(wire) \in Nat /\ Len(wire) = 5 * sent - (5 * (i + c - 1) + d)
      BY <1>2, <1>5, HostTypes DEF WireFrom, Size
    <3>2. i <= sent BY ONLY <1>4, <1>10, <2>2, <3>1, d \in 0..4
    <3>3. QED BY <1>4, <3>2 DEF Packets
  <2>3. QED BY <2>1, <2>2
<1> DEFINE l == Len(processed)
<1>12. /\ l \in Nat /\ DOMAIN processed = 1..l /\ DOMAIN processed' = 1..l + 1
       /\ processed'[l + 1] = token /\ \A k \in 1..l : processed'[k] = processed[k]
       /\ Range(processed') = Range(processed) \cup {token}
  <2>1. Range(processed') = Range(processed) \cup {token} BY <1>3, <1>4, RangeAppended
  <2>2. /\ l \in Nat /\ DOMAIN processed = 1..l /\ DOMAIN processed' = 1..l + 1
        /\ processed'[l + 1] = token /\ \A k \in 1..l : processed'[k] = processed[k]
    BY ONLY <1>3, <1>4
  <2>3. QED BY <2>1, <2>2
<1> HIDE DEF l
<1>13. \A k \in 1..l : processed[k][1].packet \in Nat /\ processed[k][1].packet < i
  <2> SUFFICES ASSUME NEW k \in 1..l PROVE processed[k][1].packet \in Nat /\ processed[k][1].packet < i
    OBVIOUS
  <2>1. ~(m >= 4) BY <1>8
  <2>2. QED BY <1>5, <1>12, <2>1
<1>14. ASSUME NEW k \in DOMAIN processed'
       PROVE  /\ processed'[k][1].packet \in Nat
              /\ \/ processed'[k][1].packet < i
                 \/ processed'[k][1].packet = i /\ (c > 0 \/ d >= 3)
  <2>1. CASE k \in 1..l BY <1>12, <1>13, <2>1
  <2>2. CASE k = l + 1
    <3>1. c > 0 \/ d >= 3 BY <1>10
    <3>2. QED BY <1>4, <1>9, <1>12, <2>2, <3>1
  <2>3. QED BY <1>12, <2>1, <2>2
<1>15. c > 0 => i \in headless \/ Whole(i) \in Range(processed')
  <2>1. CASE m = 1
    <3>1. ASSUME c > 0 PROVE token = Whole(i)
      <4>1. n = 4 BY <3>1 DEF n
      <4>2. QED BY <1>7, <2>1, <4>1, WholeRun
    <3>2. QED BY <1>12, <3>1
  <2>2. CASE m # 1
    <3>1. m > 1 BY <2>2
    <3>2. QED BY <1>5, <3>1
  <2>3. QED BY <2>1, <2>2
<1>16. \E i2 \in (before + 1..sent + 1)', m2 \in 1..5, c2 \in Nat, d2 \in 0..4 :
         HostPlaced(i2, m2, c2, d2)'
  BY <1>1, <1>2, <1>3, <1>12, <1>14, <1>15, Advance
<1>17. HostTypeOK'
  <2>1. packets' \in Seq(Seq(Bytes \ {LF})) BY <1>3, <1>4, TailForm
  <2>2. processed' \in Seq(Seq(Bytes \ {LF})) BY <1>3, <1>4
  <2>3. QED BY <1>2, <1>3, <2>1, <2>2 DEF HostTypeOK, StreamTypeOK
<1>18. WholeInv'
  <2> SUFFICES ASSUME NEW k \in DOMAIN processed', processed'[k][1].packet \notin headless'
               PROVE  processed'[k] = Whole(processed'[k][1].packet)
    BY DEF WholeInv
  <2>1. CASE k \in 1..l BY <1>3, <1>12, <2>1 DEF HostInv, WholeInv
  <2>2. CASE k = l + 1
    <3>1. processed'[k] = token /\ i \notin headless BY <1>3, <1>9, <1>12, <2>2
    <3>2. c # 0 /\ ~(m > 1) BY <1>5, <1>10, <3>1
    <3>3. n = 4 /\ m = 1 BY <3>2 DEF n
    <3>4. token = Whole(i) BY <1>7, <3>3, WholeRun
    <3>5. QED BY <1>9, <3>1, <3>4
  <2>3. QED BY <1>12, <2>1, <2>2
<1>19. OnceInOrder'
  <2>1. ASSUME NEW k \in DOMAIN processed'
        PROVE  \E x \in Packets, y, z \in Parts : processed'[k] = SubSeq(Whole(x), y, z)
    <3>1. CASE k \in 1..l BY <1>12, <3>1 DEF HostInv, OnceInOrder
    <3>2. CASE k = l + 1
      <4>1. m \in Parts /\ n \in Parts BY <1>6, <1>8, Pieces
      <4>2. processed'[k] = SubSeq(Whole(i), m, n) BY <1>7, <1>12, <3>2 DEF Run
      <4>3. QED BY <1>11, <4>1, <4>2
    <3>3. QED BY <1>12, <3>1, <3>2
  <2>2. ASSUME NEW k \in DOMAIN processed', NEW h \in DOMAIN processed', k < h
        PROVE  processed'[k][1].packet < processed'[h][1].packet
    <3>1. CASE h \in 1..l
      <4>1. k \in 1..l BY <1>12, <2>2, <3>1
      <4>2. QED BY <1>12, <2>2, <3>1, <4>1 DEF HostInv, OnceInOrder
    <3>2. CASE h = l + 1
      <4>1. k \in 1..l BY <1>12, <2>2, <3>2
      <4>2. processed'[h][1].packet = i BY <1>9, <1>12, <3>2
      <4>3. QED BY <1>12, <1>13, <4>1, <4>2
    <3>3. QED BY <1>12, <3>1, <3>2
  <2>3. QED BY <2>1, <2>2 DEF OnceInOrder
<1>20. QED BY <1>16, <1>17, <1>18, <1>19 DEF HostInv

LEMMA ReconnectKeeps == ASSUME HostInv, Reconnect PROVE HostInv'
<1>1. PICK i \in before + 1..sent + 1, m \in 1..5, c \in Nat, d \in 0..4 : HostPlaced(i, m, c, d)
  BY DEF HostInv
<1>2. HostTypeOK BY DEF HostInv
<1>3. /\ packets = <<>> /\ drops < MaxDrops /\ drops' = drops + 1 /\ before' = sent /\ wire' = <<>>
      /\ partialPacket' = <<>> /\ UNCHANGED <<sent, packets, pktCount, processed, headless>>
  BY DEF Reconnect, Lose
<1>4. i \in Nat /\ i >= 1 /\ sent \in Nat /\ i <= sent + 1 /\ before \in Nat BY <1>2, HostTypes
<1>5. c = 0 /\ m <= d + 1 BY <1>1, <1>3 DEF HostPlaced, TokensInv
<1>6. d > 0 => i <= sent
  <2>1. Len(wire) \in Nat /\ Len(wire) = 5 * sent - (5 * (i + c - 1) + d)
    BY <1>1, <1>2, HostTypes DEF HostPlaced, WireFrom, Size
  <2>2. QED BY ONLY <1>4, <1>5, <2>1, d \in 0..4
<1>7. HostTypeOK'
  <2>1. drops' \in 0..MaxDrops /\ before' \in 0..sent'
    BY <1>2, <1>3, <1>4, StreamAssumption DEF HostTypeOK, StreamTypeOK
  <2>2. wire' \in Seq(Bytes) /\ partialPacket' \in Seq(Bytes \ {LF}) BY <1>3
  <2>3. QED BY <1>2, <1>3, <2>1, <2>2 DEF HostTypeOK, StreamTypeOK
<1>8. OnceInOrder' /\ WholeInv' BY <1>3 DEF HostInv, OnceInOrder, WholeInv
<1>9. WireFrom((sent + 1) + 0, 0)'
  <2>1. Len(wire') = 0 /\ 5 * (((sent' + 1) + 0) - 1) + 0 = 5 * sent' BY <1>3, <1>4
  <2>2. QED BY <1>3, <1>4, <2>1 DEF WireFrom, At, Size
<1>10. TokensInv(sent + 1, 1, 0, 0)'
  <2>1. Run(sent' + 1, 0 + 1, 0) = <<>> BY ONLY EmptyRun, 0 \in 0..4
  <2>2. QED BY <1>3, <2>1 DEF TokensInv
<1>11. PassedInv(sent + 1, 1)'
  <2>1. ASSUME NEW k \in DOMAIN processed
        PROVE  processed[k][1].packet \in Nat /\ processed[k][1].packet < sent + 1
    <3>1. /\ processed[k][1].packet \in Nat
          /\ processed[k][1].packet < i \/ (processed[k][1].packet = i /\ m >= 4)
      BY <1>1 DEF HostPlaced, PassedInv
    <3> DEFINE x == processed[k][1].packet
    <3> HIDE DEF x
    <3>2. x \in Nat /\ (x < i \/ (x = i /\ m >= 4)) BY <3>1 DEF x
    <3>3. m >= 4 => d > 0 BY <1>5
    <3>4. x < sent + 1 BY ONLY <1>4, <1>6, <3>2, <3>3
    <3>5. QED BY <3>2, <3>4 DEF x
  <2>2. before' + 1..(sent' + 1) - 1 = {} BY <1>3, <1>4
  <2>3. QED BY <1>3, <2>1, <2>2 DEF PassedInv
<1>12. HostPlaced(sent + 1, 1, 0, 0)'
  <2>1. (sent' + 1) + 0 <= sent' + 1 /\ 1 <= 0 + 1 BY <1>3, <1>4
  <2>2. QED BY <1>9, <1>10, <1>11, <2>1 DEF HostPlaced
<1>13. (sent + 1)' \in (before + 1..sent + 1)' BY <1>3, <1>4
<1>14. QED
  <2>1. 1 \in 1..5 /\ 0 \in Nat /\ 0 \in 0..4 OBVIOUS
  <2>2. \E i2 \in (before + 1..sent + 1)', m2 \in 1..5, c2 \in Nat, d2 \in 0..4 :
          HostPlaced(i2, m2, c2, d2)'
    <3>1. sent' + 1 = sent + 1 BY <1>3
    <3>2. HostPlaced(sent + 1, 1, 0, 0)' BY <1>12
    <3> DEFINE x == sent' + 1
    <3>3. QED BY <1>12, <1>13, <2>1, <3>1
  <2>3. QED BY <1>7, <1>8, <2>2 DEF HostInv

LEMMA HostStutterKeeps == ASSUME HostInv, UNCHANGED hostVars PROVE HostInv'
<1>1. PICK i \in before + 1..sent + 1, m \in 1..5, c \in Nat, d \in 0..4 : HostPlaced(i, m, c, d)
  BY DEF HostInv
<1>2. /\ wire' = wire /\ sent' = sent /\ drops' = drops /\ before' = before
      /\ packets' = packets /\ processed' = processed /\ partialPacket' = partialPacket
      /\ pktCount' = pktCount /\ headless' = headless
  BY DEF hostVars, streamVars
<1>3. HostPlaced(i, m, c, d)' BY <1>1, <1>2 DEF HostPlaced, WireFrom, TokensInv, PassedInv
<1>4. HostTypeOK' /\ OnceInOrder' /\ WholeInv'
  BY <1>2 DEF HostInv, HostTypeOK, StreamTypeOK, OnceInOrder, WholeInv
<1>5. i \in (before + 1..sent + 1)' BY <1>2
<1>6. QED BY <1>3, <1>4, <1>5 DEF HostInv

\* At every step of the bridge's receive loop what it holds and what is on the
\* wire are the host's stream from some piece on (mrcHostProcess).
THEOREM HostSafety == HostSpec => []HostInv
<1>1. HostInv /\ [HostNext]_hostVars => HostInv'
  <2> SUFFICES ASSUME HostInv, [HostNext]_hostVars PROVE HostInv' OBVIOUS
  <2>1. CASE HostWrites BY <2>1, HostWritesKeeps
  <2>2. CASE ReadHost BY <2>2, ReadHostKeeps
  <2>3. CASE Capture BY <2>3, CaptureKeeps
  <2>4. CASE SkipToken BY <2>4, SkipTokenKeeps
  <2>5. CASE ProcessToken BY <2>5, ProcessTokenKeeps
  <2>6. CASE Reconnect BY <2>6, ReconnectKeeps
  <2>7. CASE UNCHANGED hostVars BY <2>7, HostStutterKeeps
  <2>8. QED BY <2>1, <2>2, <2>3, <2>4, <2>5, <2>6, <2>7 DEF HostNext
<1>2. QED BY <1>1, InitHostInv, PTL DEF HostSpec

\* No line feed is in the packet kept, in a token or in a packet passed on
\* (mrcHostProcess).
THEOREM HostTypeCorrect == HostSpec => []HostTypeOK
<1>1. HostInv => HostTypeOK BY DEF HostInv
<1>2. QED BY <1>1, HostSafety, PTL

\* mrcHostProcess() passes no packet on twice, none out of order and none put
\* together from two, whatever the reads and however often the host is lost.
THEOREM HostOnceInOrder == HostSpec => []OnceInOrder
<1>1. HostInv => OnceInOrder BY DEF HostInv
<1>2. QED BY <1>1, HostSafety, PTL

LEMMA WholeFromInv == ASSUME HostInv PROVE WholeUnlessHeadless
<1>1. PICK i \in before + 1..sent + 1, m \in 1..5, c \in Nat, d \in 0..4 : HostPlaced(i, m, c, d)
  BY DEF HostInv
<1>2. HostTypeOK BY DEF HostInv
<1>3. /\ i \in Nat /\ i >= 1 /\ sent \in Nat /\ i <= sent + 1 /\ before \in Nat
      /\ wire \in Seq(Bytes) /\ partialPacket \in Seq(Bytes) /\ Len(wire) \in Nat
  BY <1>2, HostTypes
<1>4. \A k \in DOMAIN processed :
         processed[k][1].packet \notin headless => processed[k] = Whole(processed[k][1].packet)
  BY DEF HostInv, WholeInv
<1>5. ASSUME packets = <<>>, NEW x \in before + 1..sent
      PROVE  x \in headless \/ Whole(x) \in Range(processed) \/ x \in PacketsIn(wire \o partialPacket)
  <2> DEFINE text == wire \o partialPacket
  <2>1. c = 0 /\ m <= d + 1 /\ partialPacket = Run(i, m, d) BY <1>1, <1>5 DEF HostPlaced, TokensInv
  <2>2. /\ m > 1 => i \in headless
        /\ \A j \in before + 1..i - 1 : j \in headless \/ Whole(j) \in Range(processed)
    BY <1>1 DEF HostPlaced, PassedInv
  <2>3. /\ text \in Seq(Bytes) /\ Len(text) = Len(wire) + Len(partialPacket)
        /\ \A p \in 1..Len(wire) : text[p] = wire[p]
        /\ \A p \in 1..Len(partialPacket) : text[Len(wire) + p] = partialPacket[p]
    BY ONLY <1>3, Joined
  <2> HIDE DEF text
  <2>4. DOMAIN text = 1..Len(text) /\ Len(partialPacket) \in Nat BY <1>3, <2>3
  <2>5. Len(wire) = 5 * sent - (5 * (i - 1) + d) /\ At(wire, 5 * (i - 1) + d)
    <3>1. i + c = i BY <1>3, <2>1
    <3>2. QED BY <1>1, <3>1 DEF HostPlaced, WireFrom, Size
  <2>6. ASSUME NEW y \in i..sent, 5 * (y - i) + 1 - d >= 1
        PROVE  y \in PacketsIn(text)
    <3> DEFINE p == 5 * (y - i) + 1 - d
    <3>1. p \in 1..Len(wire) /\ 5 * (i - 1) + d + p = 5 * (y - 1) + 1 BY <1>3, <2>5, <2>6
    <3>2. wire[p] = Piece(5 * (y - 1) + 1)
      <4>1. wire[p] = Piece(5 * (i - 1) + d + p) BY <2>5, <3>1 DEF At
      <4>2. QED BY <3>1, <4>1
    <3>3. Piece(5 * (y - 1) + 1) = [packet |-> y, part |-> 1]
      <4>1. y \in Nat /\ y >= 1 /\ 1 \in 1..5 /\ 1 # 5 BY <1>3
      <4>2. Piece(5 * (y - 1) + 1) = IF 1 = 5 THEN LF ELSE [packet |-> y, part |-> 1]
        BY ONLY <4>1, PieceIs
      <4>3. QED BY <4>1, <4>2
    <3> HIDE DEF p
    <3>4. p \in DOMAIN text /\ text[p].packet = y BY <1>3, <2>3, <2>4, <3>1, <3>2, <3>3
    <3>5. QED BY <3>4 DEF PacketsIn
  <2>7. CASE x < i
    <3>1. x \in before + 1..i - 1 BY <1>3, <2>7
    <3>2. QED BY <2>2, <3>1
  <2>8. CASE x = i
    <3>1. CASE m > 1 BY <2>2, <2>8, <3>1
    <3>2. CASE d = 0
      <4>1. 5 * (x - i) + 1 - d >= 1 /\ x \in i..sent BY <1>3, <2>8, <3>2
      <4>2. QED BY <2>6, <4>1 DEF text
    <3>3. CASE ~(m > 1) /\ d # 0
      <4>1. m = 1 /\ m <= d BY <3>3
      <4>2. partialPacket # <<>> /\ partialPacket[1].packet = i
        BY ONLY <2>1, <4>1, m \in 1..5, d \in 0..4, RunStart
      <4>3. 1 \in 1..Len(partialPacket) BY <1>3, <4>2
      <4>4. Len(wire) + 1 \in DOMAIN text /\ text[Len(wire) + 1].packet = i
        BY <1>3, <2>3, <2>4, <4>2, <4>3
      <4>5. QED BY <2>8, <4>4 DEF PacketsIn, text
    <3>4. QED BY <3>1, <3>2, <3>3
  <2>9. CASE x > i
    <3>1. 5 * (x - i) + 1 - d >= 1 /\ x \in i..sent BY <1>3, <2>9
    <3>2. QED BY <2>6, <3>1 DEF text
  <2>10. QED BY <1>3, <2>7, <2>8, <2>9
<1>6. QED BY <1>4, <1>5 DEF WholeUnlessHeadless

\* A packet that came with its line feed on a connection that held is passed
\* on whole; only one read without any line feed can be passed on in part.
THEOREM HostWholeUnlessHeadless == HostSpec => []WholeUnlessHeadless
<1>1. HostInv => WholeUnlessHeadless BY WholeFromInv
<1>2. QED BY <1>1, HostSafety, PTL
=============================================================================
