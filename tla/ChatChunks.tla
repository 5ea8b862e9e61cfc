------------------------------ MODULE ChatChunks ----------------------------
(***************************************************************************)
(* sendChatMessage() in umrc-client/main.c: a text is sent in as many      *)
(* packets as it needs, cut at spaces where that can be done.              *)
(*                                                                         *)
(* A text is a sequence of Space and other characters, which are not told  *)
(* apart: where a character goes is a matter of its position.  A chunk is  *)
(* the part of the text that a packet takes, without its prefix, which the *)
(* window does not count.  The two loops of the function are steps, so     *)
(* that nothing here is recursive.                                         *)
(***************************************************************************)
EXTENDS Integers, Sequences

CONSTANTS Space, Letter,
          Window,           \* maxBodyPerChunk, MSG_LEN - 1
          Texts             \* what may be said

ASSUME ChunksAssumption ==
    /\ Space # Letter
    /\ Window \in Nat \ {0}
    /\ Texts \subseteq Seq({Space, Letter})

VARIABLES pc,        \* where sendChatMessage() stands, "done" outside it
          bodyText,
          offset,    \* characters of the text that are dealt with
          breakAt,   \* how much of the window is still to be searched
          take,      \* characters the next chunk takes
          chunks     \* what has been sent, in order

vars == <<pc, bodyText, offset, breakAt, take, chunks>>

Total     == Len(bodyText)
Remaining == Total - offset

Init ==
    /\ pc = "measure"
    /\ bodyText \in Texts
    /\ offset = 0 /\ breakAt = 0 /\ take = 0
    /\ chunks = <<>>

\* Mutant: the search leaves out the window's last character.
MeasureShort ==
    /\ pc = "measure"
    /\ \/ /\ Remaining <= Window
          /\ take' = Remaining
          /\ pc' = "send"
          /\ breakAt' = breakAt
       \/ /\ Remaining > Window
          /\ take' = Window
          /\ pc' = "seek"
          /\ breakAt' = Window - 1
    /\ UNCHANGED <<bodyText, offset, chunks>>

\* What is left fits into a packet, or the window is searched for a space.
Measure ==
    /\ pc = "measure"
    /\ \/ /\ Remaining <= Window
          /\ take' = Remaining
          /\ pc' = "send"
          /\ breakAt' = breakAt
       \/ /\ Remaining > Window
          /\ take' = Window
          /\ pc' = "seek"
          /\ breakAt' = Window
    /\ UNCHANGED <<bodyText, offset, chunks>>

AtSpace == bodyText[offset + breakAt] = Space

\* The search goes on towards the start of the window.
SeekOn ==
    /\ pc = "seek" /\ breakAt > 0 /\ ~AtSpace
    /\ breakAt' = breakAt - 1
    /\ UNCHANGED <<pc, bodyText, offset, take, chunks>>

\* Mutant: the chunk is cut wherever the window ends.
SeekEndsHard ==
    /\ pc = "seek"
    /\ pc' = "send"
    /\ UNCHANGED <<bodyText, offset, breakAt, take, chunks>>

\* The chunk ends before the last space of the window; without a space the
\* window is sent whole.
SeekEnds ==
    /\ pc = "seek"
    /\ \/ breakAt > 0 /\ AtSpace /\ take' = breakAt - 1
       \/ breakAt = 0 /\ take' = take
    /\ pc' = "send"
    /\ UNCHANGED <<bodyText, offset, breakAt, chunks>>

\* Mutant: the character after a chunk is taken for the space it ended at.
SendPastSpace ==
    /\ pc = "send"
    /\ chunks' = Append(chunks, [at |-> offset, len |-> take])
    /\ offset' = IF offset + take < Total THEN offset + take + 1 ELSE Total
    /\ pc' = "skip"
    /\ UNCHANGED <<bodyText, breakAt, take>>

Send ==
    /\ pc = "send"
    /\ chunks' = Append(chunks, [at |-> offset, len |-> take])
    /\ offset' = offset + take
    /\ pc' = "skip"
    /\ UNCHANGED <<bodyText, breakAt, take>>

\* Spaces at the start of the next chunk are dropped.
SkipSpace ==
    /\ pc = "skip" /\ offset < Total /\ bodyText[offset + 1] = Space
    /\ offset' = offset + 1
    /\ UNCHANGED <<pc, bodyText, breakAt, take, chunks>>

\* Mutant: the loop that drops them is forgotten.
SkipNothing ==
    /\ pc = "skip"
    /\ pc' = IF offset < Total THEN "measure" ELSE "done"
    /\ UNCHANGED <<bodyText, offset, breakAt, take, chunks>>

SkipEnds ==
    /\ pc = "skip"
    /\ offset < Total => bodyText[offset + 1] # Space
    /\ pc' = IF offset < Total THEN "measure" ELSE "done"
    /\ UNCHANGED <<bodyText, offset, breakAt, take, chunks>>

Next == Measure \/ SeekOn \/ SeekEnds \/ Send \/ SkipSpace \/ SkipEnds

Spec == Init /\ [][Next]_vars

-----------------------------------------------------------------------------
(* What is promised. *)

Positions == 1..Total
InChunk(p, i) == chunks[i].at < p /\ p <= chunks[i].at + chunks[i].len

\* The machine's variables have their types, and a chunk fits its packet:
\* it is never longer than the window, and never reaches past the text.
TypeOK ==
    /\ pc \in {"measure", "seek", "send", "skip", "done"}
    /\ bodyText \in Seq({Space, Letter})
    /\ offset \in 0..Total
    /\ breakAt \in 0..Window
    /\ take \in 0..Window
    /\ chunks \in Seq([at : 0..Total, len : 0..Window])

\* Every character that is not a space and has been passed is in exactly one
\* of the chunks, and the chunks follow one another in the text: nothing
\* said is lost, repeated or moved, whatever the spaces are.
SaidOnceInOrder ==
    /\ \A p \in Positions : p <= offset /\ bodyText[p] = Letter =>
           \E i \in DOMAIN chunks : InChunk(p, i)
    /\ \A i, j \in DOMAIN chunks :
           i < j => chunks[i].at + chunks[i].len <= chunks[j].at
    /\ pc = "done" => offset = Total

\* The word a..b of the text: letters with a space or an end at both sides.
IsWord(a, b) ==
    /\ \A p \in a..b : bodyText[p] = Letter
    /\ a > 1 => bodyText[a - 1] = Space
    /\ b < Total => bodyText[b + 1] = Space

\* "a word is never split across two packets -- only a single word too long
\* to fit in one packet at all gets hard-cut": a word that fits into the
\* window lies in one chunk as soon as a part of it has been sent.
WordsKeptWhole ==
    \A a, b \in Positions :
        a <= b /\ b - a < Window /\ IsWord(a, b) =>
            \A i \in DOMAIN chunks : InChunk(a, i) <=> InChunk(b, i)

\* Packets are filled: a word is only left to the next packet if it reaches
\* the end of the window, so that it and the space after it had no room; and
\* a packet without any text is only the first one of a text that is empty or
\* starts with a space, never one in the middle of a message.
PacketsFilled ==
    \A i \in DOMAIN chunks :
        /\ i + 1 \in DOMAIN chunks =>
             \A p \in chunks[i].at + chunks[i].len + 2 .. chunks[i].at + Window :
                 bodyText[p] = Letter
        /\ chunks[i].len = 0 => i = 1 /\ (Total = 0 \/ bodyText[1] = Space)

\* Every turn of the loop moves on: after a chunk and the spaces behind it
\* the next one starts further on, so that the message ends.
MovesOn ==
    [][pc = "skip" /\ pc' = "measure" =>
           offset' > chunks[Len(chunks)].at]_vars
=============================================================================
