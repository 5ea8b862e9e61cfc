-------------------------- MODULE ChatChunksProofs --------------------------
(***************************************************************************)
(* Proofs about sendChatMessage(), for every window and every text.        *)
(*                                                                         *)
(* That a word is not torn is not a matter of one turn of the loop: where  *)
(* a chunk starts is where the one before it ended, or behind the spaces   *)
(* that were dropped.  StartsWell and CutsWell say how a chunk starts and  *)
(* ends, PlaceInv what the loop knows of the one it is at work on, and     *)
(* ChunkInv what is left of that in the chunks that were sent.             *)
(***************************************************************************)
EXTENDS ChatChunks, TLAPS

\* A chunk starts with the text, behind a space, or behind a window of
\* letters, where a word too long for one packet was cut.
StartsWell(at) ==
    \/ at = 0
    \/ bodyText[at] = Space
    \/ at >= Window /\ \A p \in at - Window + 1 .. at : bodyText[p] = Letter

\* It ends with the text, before the last space of its window, or in the
\* middle of a word that fills the window.
CutsWell(at, len) ==
    \/ at + len = Total
    \/ /\ at + Window < Total
       /\ len < Window /\ bodyText[at + len + 1] = Space
       /\ \A p \in at + len + 2 .. at + Window : bodyText[p] = Letter
    \/ /\ at + Window < Total
       /\ len = Window
       /\ \A p \in at + 1 .. at + Window : bodyText[p] = Letter

PlaceInv ==
    /\ pc \in {"measure", "seek", "send"} =>
           /\ \/ chunks = <<>> /\ offset = 0
              \/ offset < Total /\ bodyText[offset + 1] # Space
           /\ StartsWell(offset)
    /\ pc = "seek" =>
           /\ offset + Window < Total
           /\ take = Window
           /\ \A p \in offset + breakAt + 1 .. offset + Window : bodyText[p] = Letter
    /\ pc = "send" => CutsWell(offset, take)
    /\ pc = "skip" =>
           /\ chunks # <<>>
           /\ \/ offset = Total
              \/ bodyText[offset + 1] = Space
              \/ StartsWell(offset) /\ offset > chunks[Len(chunks)].at
    /\ pc = "done" => offset = Total

ChunkInv ==
    \A i \in DOMAIN chunks :
        /\ CutsWell(chunks[i].at, chunks[i].len)
        /\ StartsWell(chunks[i].at)
        /\ chunks[i].at + chunks[i].len <= offset
        /\ i + 1 \in DOMAIN chunks => chunks[i].at + chunks[i].len < Total
        /\ chunks[i].len = 0 => i = 1 /\ (Total = 0 \/ bodyText[1] = Space)

IInv == TypeOK /\ PlaceInv /\ ChunkInv /\ SaidOnceInOrder

-----------------------------------------------------------------------------
(* The initial states, and every step. *)

LEMMA InitIInv == Init => IInv
<1>1. SUFFICES ASSUME Init PROVE IInv
  OBVIOUS
<1>2. bodyText \in Seq({Space, Letter})
  BY <1>1, ChunksAssumption DEF Init
<1>3. TypeOK
  BY <1>1, <1>2, ChunksAssumption DEF Init, TypeOK, Total
<1>4. PlaceInv
  BY <1>1 DEF Init, PlaceInv, StartsWell
<1>5. ChunkInv
  BY <1>1 DEF Init, ChunkInv
<1>6. SaidOnceInOrder
  BY <1>1, <1>2 DEF Init, SaidOnceInOrder, Positions, Total
<1>7. QED BY <1>3, <1>4, <1>5, <1>6 DEF IInv

\* What TypeOK says of the chunks, for one of them.
LEMMA ChunkType ==
    ASSUME TypeOK, NEW i \in DOMAIN chunks
    PROVE  /\ chunks[i] \in [at : 0..Total, len : 0..Window]
           /\ chunks[i].at \in 0..Total /\ chunks[i].len \in 0..Window
<1>1. ASSUME NEW S, NEW s \in Seq(S), NEW k \in DOMAIN s PROVE s[k] \in S
  OBVIOUS
<1>2. chunks[i] \in [at : 0..Total, len : 0..Window]
  BY <1>1 DEF TypeOK
<1>3. QED BY <1>2

\* A step that sends nothing and stays where it is leaves the chunks alone.
LEMMA ChunksKept ==
    ASSUME IInv, chunks' = chunks, bodyText' = bodyText, offset' = offset, pc' # "done"
    PROVE  ChunkInv' /\ SaidOnceInOrder'
  BY DEF IInv, ChunkInv, SaidOnceInOrder, CutsWell, StartsWell, Total, Positions, InChunk

LEMMA MeasureKeeps == IInv /\ Measure => IInv'
<1>1. SUFFICES ASSUME IInv, Measure PROVE IInv'
  OBVIOUS
<1>2. bodyText' = bodyText /\ offset' = offset /\ chunks' = chunks /\ Total' = Total
  BY <1>1 DEF Measure, Total
<1>3. Total \in Nat /\ Window \in Nat
  BY <1>1, ChunksAssumption DEF IInv, TypeOK, Total
<1>4. TypeOK'
  BY <1>1, <1>2, <1>3 DEF Measure, IInv, TypeOK, Remaining
<1>5. PlaceInv'
  BY <1>1, <1>2, <1>3 DEF Measure, IInv, TypeOK, PlaceInv, StartsWell, CutsWell, Remaining
<1>6. ChunkInv' /\ SaidOnceInOrder'
  BY <1>1, <1>2, ChunksKept DEF Measure
<1>7. QED BY <1>4, <1>5, <1>6 DEF IInv

LEMMA SeekOnKeeps == IInv /\ SeekOn => IInv'
<1>1. SUFFICES ASSUME IInv, SeekOn PROVE IInv'
  OBVIOUS
<1>2. UNCHANGED <<pc, bodyText, offset, take, chunks>> /\ Total' = Total
  BY <1>1 DEF SeekOn, Total
<1>3. Total \in Nat /\ Window \in Nat
  BY <1>1, ChunksAssumption DEF IInv, TypeOK, Total
<1>4. TypeOK'
  BY <1>1, <1>2, <1>3 DEF SeekOn, IInv, TypeOK
<1>5. bodyText[offset + breakAt] = Letter
  <2>1. offset + breakAt \in 1..Len(bodyText)
    BY <1>1, <1>3 DEF SeekOn, IInv, TypeOK, PlaceInv, Total
  <2>2. bodyText[offset + breakAt] \in {Space, Letter}
    BY <1>1, <2>1 DEF IInv, TypeOK
  <2>3. QED BY <1>1, <2>2 DEF SeekOn, AtSpace
<1>6. PlaceInv'
  <2>1. /\ offset + Window < Total /\ take = Window
        /\ \A p \in offset + breakAt + 1 .. offset + Window : bodyText[p] = Letter
    BY <1>1 DEF SeekOn, IInv, PlaceInv
  <2>2. /\ offset \in Nat /\ breakAt \in 0..Window
        /\ breakAt' = breakAt - 1 /\ pc = "seek" /\ pc' = "seek"
    BY <1>1, <1>2, <1>3 DEF SeekOn, IInv, TypeOK
  <2>3. \A p \in offset + breakAt' + 1 .. offset + Window : bodyText[p] = Letter
    BY <1>3, <1>5, <2>1, <2>2
  <2>4. /\ \/ chunks = <<>> /\ offset = 0
           \/ offset < Total /\ bodyText[offset + 1] # Space
        /\ StartsWell(offset)
    BY <1>1, <2>2 DEF IInv, PlaceInv
  <2>5. StartsWell(offset)'
    BY <1>2, <2>4 DEF StartsWell
  <2>6. QED BY <1>2, <2>1, <2>2, <2>3, <2>4, <2>5 DEF PlaceInv
<1>7. ChunkInv' /\ SaidOnceInOrder'
  BY <1>1, <1>2, ChunksKept DEF SeekOn
<1>8. QED BY <1>4, <1>6, <1>7 DEF IInv

LEMMA SeekEndsKeeps == IInv /\ SeekEnds => IInv'
<1>1. SUFFICES ASSUME IInv, SeekEnds PROVE IInv'
  OBVIOUS
<1>2. UNCHANGED <<bodyText, offset, breakAt, chunks>> /\ Total' = Total
  BY <1>1 DEF SeekEnds, Total
<1>3. Total \in Nat /\ Window \in Nat
  BY <1>1, ChunksAssumption DEF IInv, TypeOK, Total
<1>4. TypeOK'
  BY <1>1, <1>2, <1>3 DEF SeekEnds, IInv, TypeOK
<1>5. CutsWell(offset, take')
  <2>1. /\ offset + Window < Total /\ take = Window
        /\ \A p \in offset + breakAt + 1 .. offset + Window : bodyText[p] = Letter
    BY <1>1 DEF SeekEnds, IInv, PlaceInv
  <2>2. offset \in Nat /\ breakAt \in 0..Window
    BY <1>1, <1>3 DEF IInv, TypeOK
  <2>3. CASE breakAt > 0 /\ AtSpace /\ take' = breakAt - 1
    BY <1>3, <2>1, <2>2, <2>3 DEF CutsWell, AtSpace
  <2>4. CASE breakAt = 0 /\ take' = take
    BY <1>3, <2>1, <2>2, <2>4 DEF CutsWell
  <2>5. QED BY <1>1, <2>3, <2>4 DEF SeekEnds
<1>6. PlaceInv'
  BY <1>1, <1>2, <1>5 DEF SeekEnds, IInv, PlaceInv, StartsWell, CutsWell, Total
<1>7. ChunkInv' /\ SaidOnceInOrder'
  BY <1>1, <1>2, ChunksKept DEF SeekEnds
<1>8. QED BY <1>4, <1>6, <1>7 DEF IInv

LEMMA SendKeeps == IInv /\ Send => IInv'
<1>1. SUFFICES ASSUME IInv, Send PROVE IInv'
  OBVIOUS
<1> DEFINE new == [at |-> offset, len |-> take]
<1>2. /\ bodyText' = bodyText /\ Total' = Total /\ offset' = offset + take
      /\ pc = "send" /\ pc' = "skip" /\ chunks' = Append(chunks, new)
      /\ UNCHANGED <<breakAt, take>>
  BY <1>1 DEF Send, Total
<1>3. /\ Total \in Nat /\ Window \in Nat \ {0} /\ offset \in 0..Total /\ take \in 0..Window
      /\ bodyText \in Seq({Space, Letter})
  BY <1>1, ChunksAssumption DEF IInv, TypeOK, Total
<1>4. CutsWell(offset, take) /\ StartsWell(offset)
  BY <1>1, <1>2 DEF IInv, PlaceInv
<1>5. offset + take <= Total
  BY <1>3, <1>4 DEF CutsWell
<1>6. chunks \in Seq([at : 0..Total, len : 0..Window]) /\ new \in [at : 0..Total, len : 0..Window]
  BY <1>1, <1>3 DEF IInv, TypeOK
<1>7. /\ Len(chunks') = Len(chunks) + 1 /\ Len(chunks) \in Nat
      /\ DOMAIN chunks' = 1..Len(chunks) + 1 /\ DOMAIN chunks = 1..Len(chunks)
      /\ \A i \in 1..Len(chunks) : chunks'[i] = chunks[i]
      /\ chunks'[Len(chunks) + 1] = new
  BY <1>2, <1>6
<1>8. TypeOK'
  <2>1. chunks' \in Seq([at : 0..Total, len : 0..Window])
    BY <1>2, <1>6
  <2>2. QED BY <1>1, <1>2, <1>3, <1>5, <2>1 DEF IInv, TypeOK
<1>9. \/ chunks = <<>> /\ offset = 0
      \/ offset < Total /\ bodyText[offset + 1] # Space
  BY <1>1, <1>2 DEF IInv, PlaceInv
<1>10. take = 0 => chunks = <<>> /\ (Total = 0 \/ bodyText[1] = Space)
  <2>1. CASE chunks = <<>> /\ offset = 0
    BY <1>3, <1>4, <2>1 DEF CutsWell
  <2>2. CASE offset < Total /\ bodyText[offset + 1] # Space
    BY <1>3, <1>4, <2>2 DEF CutsWell
  <2>3. QED BY <1>9, <2>1, <2>2
<1>11. \/ offset' = Total
       \/ bodyText[offset' + 1] = Space
       \/ StartsWell(offset') /\ offset' > offset
  BY <1>2, <1>3, <1>4 DEF CutsWell, StartsWell
<1>12. PlaceInv'
  <2>1. chunks'[Len(chunks')].at = offset /\ chunks' # <<>>
    BY <1>7
  <2>2. StartsWell(offset') => StartsWell(offset)'
    BY <1>2 DEF StartsWell
  <2>3. QED BY <1>2, <1>11, <2>1, <2>2 DEF PlaceInv
<1>13. ChunkInv'
  <2>1. SUFFICES ASSUME NEW i \in 1..Len(chunks) + 1
                 PROVE  /\ CutsWell(chunks'[i].at, chunks'[i].len)
                        /\ StartsWell(chunks'[i].at)
                        /\ chunks'[i].at + chunks'[i].len <= offset'
                        /\ i + 1 \in 1..Len(chunks) + 1 => chunks'[i].at + chunks'[i].len < Total
                        /\ chunks'[i].len = 0 => i = 1 /\ (Total = 0 \/ bodyText[1] = Space)
    BY <1>2, <1>7 DEF ChunkInv, CutsWell, StartsWell
  <2>2. CASE i = Len(chunks) + 1
    <3>1. chunks'[i].at = offset /\ chunks'[i].len = take
      BY <1>7, <2>2
    <3>2. take = 0 => i = 1
      BY <1>7, <1>10, <2>2
    <3>3. QED BY <1>2, <1>3, <1>4, <1>5, <1>7, <1>10, <2>2, <3>1, <3>2
  <2>3. CASE i \in 1..Len(chunks)
    <3>1. chunks'[i] = chunks[i] /\ chunks[i] \in [at : 0..Total, len : 0..Window]
      <4>1. chunks[i] \in [at : 0..Total, len : 0..Window]
        BY <1>1, <1>7, <2>3, ChunkType DEF IInv
      <4>2. QED BY <1>7, <2>3, <4>1
    <3>2. /\ CutsWell(chunks[i].at, chunks[i].len) /\ StartsWell(chunks[i].at)
          /\ chunks[i].at + chunks[i].len <= offset
          /\ chunks[i].len = 0 => i = 1 /\ (Total = 0 \/ bodyText[1] = Space)
      BY <1>1, <1>7, <2>3 DEF IInv, ChunkInv
    <3>3. offset < Total
      BY <1>7, <1>9, <2>3
    <3>4. QED BY <1>2, <1>3, <3>1, <3>2, <3>3
  <2>4. QED BY <1>7, <2>2, <2>3
<1>14. SaidOnceInOrder'
  <2>1. \A p \in 1..Total : p <= offset + take /\ bodyText[p] = Letter =>
            \E i \in 1..Len(chunks) + 1 : /\ chunks'[i].at < p
                                         /\ p <= chunks'[i].at + chunks'[i].len
    <3>1. SUFFICES ASSUME NEW p \in 1..Total, p <= offset + take, bodyText[p] = Letter
                   PROVE  \E i \in 1..Len(chunks) + 1 :
                              chunks'[i].at < p /\ p <= chunks'[i].at + chunks'[i].len
      OBVIOUS
    <3>2. CASE p <= offset
      <4>1. PICK i \in 1..Len(chunks) : chunks[i].at < p /\ p <= chunks[i].at + chunks[i].len
        BY <1>1, <1>7, <3>1, <3>2 DEF IInv, SaidOnceInOrder, Positions, InChunk
      <4>2. chunks'[i] = chunks[i] /\ i \in 1..Len(chunks) + 1
        BY <1>7
      <4>3. QED BY <4>1, <4>2
    <3>3. CASE p > offset
      BY <1>3, <1>7, <3>1, <3>3
    <3>4. QED BY <1>3, <3>2, <3>3
  <2>2. \A i, j \in 1..Len(chunks) + 1 :
            i < j => chunks'[i].at + chunks'[i].len <= chunks'[j].at
    <3>1. SUFFICES ASSUME NEW i \in 1..Len(chunks) + 1, NEW j \in 1..Len(chunks) + 1, i < j
                   PROVE  chunks'[i].at + chunks'[i].len <= chunks'[j].at
      OBVIOUS
    <3>2. i \in 1..Len(chunks) /\ chunks'[i] = chunks[i]
      BY <1>7, <3>1
    <3>3. CASE j = Len(chunks) + 1
      BY <1>1, <1>7, <3>2, <3>3 DEF IInv, ChunkInv
    <3>4. CASE j \in 1..Len(chunks)
      BY <1>1, <1>7, <3>1, <3>2, <3>4 DEF IInv, SaidOnceInOrder
    <3>5. QED BY <1>7, <3>3, <3>4
  <2>3. QED BY <1>2, <1>7, <2>1, <2>2 DEF SaidOnceInOrder, Positions, InChunk
<1>15. QED BY <1>8, <1>12, <1>13, <1>14 DEF IInv

LEMMA SkipSpaceKeeps == IInv /\ SkipSpace => IInv'
<1>1. SUFFICES ASSUME IInv, SkipSpace PROVE IInv'
  OBVIOUS
<1>2. /\ UNCHANGED <<pc, bodyText, breakAt, take, chunks>> /\ Total' = Total
      /\ offset' = offset + 1 /\ pc = "skip" /\ offset < Total /\ bodyText[offset + 1] = Space
  BY <1>1 DEF SkipSpace, Total
<1>3. /\ Total \in Nat /\ Window \in Nat \ {0} /\ offset \in 0..Total
      /\ chunks \in Seq([at : 0..Total, len : 0..Window])
  BY <1>1, ChunksAssumption DEF IInv, TypeOK, Total
<1>4. TypeOK'
  BY <1>1, <1>2, <1>3 DEF IInv, TypeOK
<1>5. \A i \in DOMAIN chunks : /\ chunks[i].at \in 0..Total /\ chunks[i].len \in 0..Window
                               /\ chunks[i].at + chunks[i].len <= offset
  <2>1. \A i \in DOMAIN chunks : chunks[i] \in [at : 0..Total, len : 0..Window]
    BY <1>1, ChunkType DEF IInv
  <2>2. QED BY <1>1, <2>1 DEF IInv, ChunkInv
<1>6. PlaceInv'
  <2>1. chunks # <<>>
    BY <1>1, <1>2 DEF IInv, PlaceInv
  <2>2. Len(chunks) \in DOMAIN chunks
    BY <1>3, <2>1
  <2>3. chunks[Len(chunks)].at < offset'
    BY <1>2, <1>3, <1>5, <2>2
  <2>4. StartsWell(offset)'
    BY <1>2 DEF StartsWell
  <2>5. QED BY <1>2, <2>1, <2>3, <2>4 DEF PlaceInv
<1>7. ChunkInv'
  <2>1. \A i \in DOMAIN chunks : chunks[i].at + chunks[i].len <= offset'
    BY <1>2, <1>3, <1>5
  <2>2. QED BY <1>1, <1>2, <2>1 DEF IInv, ChunkInv, CutsWell, StartsWell
<1>8. SaidOnceInOrder'
  <2>1. \A p \in 1..Total : p <= offset' /\ bodyText[p] = Letter => p <= offset
    BY <1>2, <1>3, ChunksAssumption
  <2>2. QED BY <1>1, <1>2, <2>1 DEF IInv, SaidOnceInOrder, Positions, InChunk
<1>9. QED BY <1>4, <1>6, <1>7, <1>8 DEF IInv

LEMMA SkipEndsKeeps == IInv /\ SkipEnds => IInv'
<1>1. SUFFICES ASSUME IInv, SkipEnds PROVE IInv'
  OBVIOUS
<1>2. /\ UNCHANGED <<bodyText, offset, breakAt, take, chunks>> /\ Total' = Total
      /\ pc = "skip" /\ (offset < Total => bodyText[offset + 1] # Space)
      /\ pc' = IF offset < Total THEN "measure" ELSE "done"
  BY <1>1 DEF SkipEnds, Total
<1>3. Total \in Nat /\ offset \in 0..Total
  BY <1>1 DEF IInv, TypeOK, Total
<1>4. TypeOK'
  BY <1>1, <1>2 DEF IInv, TypeOK
<1>5. PlaceInv'
  BY <1>1, <1>2, <1>3 DEF IInv, PlaceInv, StartsWell
<1>6. ChunkInv'
  BY <1>1, <1>2 DEF IInv, ChunkInv, CutsWell, StartsWell
<1>7. SaidOnceInOrder'
  BY <1>1, <1>2, <1>3 DEF IInv, SaidOnceInOrder, Positions, InChunk
<1>8. QED BY <1>4, <1>5, <1>6, <1>7 DEF IInv

LEMMA NextKeeps == IInv /\ [Next]_vars => IInv'
<1>1. CASE UNCHANGED vars
  BY <1>1 DEF vars, IInv, TypeOK, PlaceInv, ChunkInv, SaidOnceInOrder, CutsWell, StartsWell,
              Total, Positions, InChunk
<1>2. QED BY <1>1, MeasureKeeps, SeekOnKeeps, SeekEndsKeeps, SendKeeps, SkipSpaceKeeps,
             SkipEndsKeeps DEF Next

LEMMA InductiveInvariant == Spec => []IInv
  BY InitIInv, NextKeeps, PTL DEF Spec

-----------------------------------------------------------------------------
(* What it is good for. *)

\* The variables keep their types, and no chunk is longer than the window.
THEOREM TypeCorrect == Spec => []TypeOK
<1>1. IInv => TypeOK
  BY DEF IInv
<1>2. QED BY <1>1, InductiveInvariant, PTL

\* Whatever is said is sent once, in order, and whole.
THEOREM EverythingIsSaid == Spec => []SaidOnceInOrder
<1>1. IInv => SaidOnceInOrder
  BY DEF IInv
<1>2. QED BY <1>1, InductiveInvariant, PTL

\* Packets are filled, and an empty one is only ever the first.
THEOREM PacketsAreFilled == Spec => []PacketsFilled
<1>1. ASSUME IInv, NEW i \in DOMAIN chunks PROVE
        /\ i + 1 \in DOMAIN chunks =>
             \A p \in chunks[i].at + chunks[i].len + 2 .. chunks[i].at + Window :
                 bodyText[p] = Letter
        /\ chunks[i].len = 0 => i = 1 /\ (Total = 0 \/ bodyText[1] = Space)
  <2>1. chunks[i].at \in Nat /\ chunks[i].len \in Nat /\ Window \in Nat /\ Total \in Nat
    <3>1. /\ chunks \in Seq([at : 0..Total, len : 0..Window])
          /\ Window \in Nat /\ Total \in Nat
      BY <1>1, ChunksAssumption DEF IInv, TypeOK, Total
    <3>2. chunks[i] \in [at : 0..Total, len : 0..Window]
      BY <1>1, ChunkType DEF IInv
    <3>3. QED BY <3>1, <3>2
  <2>2. QED BY <1>1, <2>1 DEF IInv, ChunkInv, CutsWell
<1>2. IInv => PacketsFilled
  BY <1>1 DEF PacketsFilled
<1>3. QED BY <1>2, InductiveInvariant, PTL

\* The loop moves on, so the message ends.
THEOREM LoopMovesOn == Spec => MovesOn
<1>1. IInv /\ [Next]_vars =>
          [pc = "skip" /\ pc' = "measure" => offset' > chunks[Len(chunks)].at]_vars
  <2>1. SUFFICES ASSUME IInv, Next, pc = "skip", pc' = "measure"
                 PROVE  offset' > chunks[Len(chunks)].at
    OBVIOUS
  <2>2. SkipEnds
    BY <2>1 DEF Next, Measure, SeekOn, SeekEnds, Send, SkipSpace
  <2>3. offset' = offset /\ offset < Total /\ bodyText[offset + 1] # Space
    BY <2>1, <2>2 DEF SkipEnds
  <2>4. Total \in Nat /\ offset \in Nat
    BY <2>1 DEF IInv, TypeOK, Total
  <2>5. QED BY <2>1, <2>3, <2>4 DEF IInv, PlaceInv
<1>2. QED BY <1>1, InductiveInvariant, PTL DEF Spec, MovesOn

\* A word that fits into a packet is not torn: a chunk that ends inside of it
\* would have to end before a space or with a window of letters, and one that
\* starts inside of it behind a space or behind such a window.
THEOREM WordsStayWhole == Spec => []WordsKeptWhole
<1>1. ASSUME IInv,
             NEW a \in Positions, NEW b \in Positions, a <= b, b - a < Window, IsWord(a, b),
             NEW i \in DOMAIN chunks
      PROVE  InChunk(a, i) <=> InChunk(b, i)
  <2> DEFINE at == chunks[i].at
             end == chunks[i].at + chunks[i].len
  <2>1. /\ Total \in Nat /\ Window \in Nat \ {0} /\ offset \in 0..Total
        /\ a \in 1..Total /\ b \in 1..Total
    BY <1>1, ChunksAssumption DEF IInv, TypeOK, Total, Positions
  <2>2. chunks[i].at \in Nat /\ chunks[i].len \in 0..Window
    BY <1>1, <2>1, ChunkType DEF IInv
  <2>3. CutsWell(chunks[i].at, chunks[i].len) /\ StartsWell(chunks[i].at)
    BY <1>1 DEF IInv, ChunkInv
  <2>4. \A p \in a..b : bodyText[p] = Letter
    BY <1>1 DEF IsWord
  <2>5. a > 1 => bodyText[a - 1] # Letter
    BY <1>1, ChunksAssumption DEF IsWord
  <2>6. ASSUME InChunk(a, i) PROVE InChunk(b, i)
    <3>1. at < a /\ a <= end
      BY <2>6 DEF InChunk
    <3>2. SUFFICES ASSUME b > end PROVE FALSE
      BY <1>1, <2>1, <2>2, <3>1 DEF InChunk
    <3>3. CASE end = Total
      BY <2>1, <3>2, <3>3
    <3>4. CASE bodyText[end + 1] = Space
      BY <2>1, <2>2, <2>4, <3>1, <3>2, <3>4, ChunksAssumption
    <3>5. CASE /\ chunks[i].len = Window
               /\ \A p \in at + 1 .. at + Window : bodyText[p] = Letter
      <4>1. a = at + 1
        BY <2>1, <2>2, <2>5, <3>1, <3>5
      <4>2. QED BY <1>1, <2>1, <2>2, <3>2, <3>5, <4>1
    <3>6. QED BY <2>3, <3>3, <3>4, <3>5 DEF CutsWell
  <2>7. ASSUME InChunk(b, i) PROVE InChunk(a, i)
    <3>1. at < b /\ b <= end
      BY <2>7 DEF InChunk
    <3>2. SUFFICES ASSUME a <= at PROVE FALSE
      BY <1>1, <2>1, <2>2, <3>1 DEF InChunk
    <3>3. bodyText[at] = Letter /\ at # 0
      BY <2>1, <2>2, <2>4, <3>1, <3>2
    <3>4. at >= Window /\ \A p \in at - Window + 1 .. at : bodyText[p] = Letter
      BY <2>3, <3>3, ChunksAssumption DEF StartsWell
    <3>5. a <= at - Window + 1
      BY <2>1, <2>2, <2>5, <3>2, <3>4
    <3>6. QED BY <1>1, <2>1, <2>2, <3>1, <3>5
  <2>8. QED BY <2>6, <2>7
<1>2. IInv => WordsKeptWhole
  BY <1>1 DEF WordsKeptWhole
<1>3. QED BY <1>2, InductiveInvariant, PTL
=============================================================================
