------------------------- MODULE ClientInboxProofs -------------------------
(***************************************************************************)
(* Proofs about the message slot, the scrollback and the mentions, for any *)
(* number of messages, of views and of sessions.  FairSpec implies Spec,   *)
(* so what is proved of Spec holds of the specification the runs check.    *)
(*                                                                         *)
(* HoldInv says where a receiver holds a message and of which kind;        *)
(* CauseInv, that no flag is set before a message to be highlighted has    *)
(* come; PlaceInv, that a message a receiver still has for itself is       *)
(* nowhere else; AloneInv and WriterInv, that while only the user's thread *)
(* writes the scrollback there is one receiver, and what is in the slot    *)
(* while it copies and while the user's thread shows.                      *)
(*                                                                         *)
(* CountInv and FirstInv are about gMentionCount, which receivers read in  *)
(* one step and store in another.  IdInv says that an identifier stands    *)
(* for one message; with ShownOnce it bounds the scrollback, as the types  *)
(* need.                                                                   *)
(***************************************************************************)
EXTENDS ClientInbox, SequenceTheorems, FiniteSetTheorems, TLAPS

UiRecords == [pc : UiSteps, line : Lines \cup {NoLine}, n : Nat, after : Afterwards]
RxRecords == [pc : RxSteps, sock : 0..MaxSessions, msg : Messages \cup {NoMsg},
              mention : BOOLEAN, n : Nat]

\* The types, but for the bounds on counts, which take a proof of their own.
ShapeInv ==
    /\ inChat \in BOOLEAN /\ paused \in BOOLEAN
    /\ message \in Messages \cup {NoMsg} /\ message.kind # "closed"
    /\ copied \in BOOLEAN /\ isMention \in BOOLEAN
    /\ mentionCount \in Nat /\ mentionCountChanged \in BOOLEAN
    /\ scrollback \in Seq(Lines)
    /\ ui \in UiRecords
    /\ rx \in [Sessions -> RxRecords]
    /\ session \in 0..MaxSessions /\ received \in 0..MaxMessages /\ views \in 0..MaxViews
    /\ handed \subseteq 1..MaxMessages /\ crowded \in BOOLEAN /\ flagged \in BOOLEAN

\* Which message a receiver holds at each place.
Holds(s) ==
    /\ rx[s].msg = NoMsg <=> rx[s].pc \in {"off", "recv"}
    /\ rx[s].msg.kind = "closed" => rx[s].pc \in {"measure", "append", "next"}
    /\ rx[s].pc \in {"count", "store"} => Addressed(rx[s].msg)

HoldInv ==
    /\ ui.pc \in {"measure", "append"} <=> ui.line # NoLine
    /\ \A s \in Sessions : Holds(s)

\* Receiver s goes on to p with this message, flag and number.
RxStep(s, p, msg, mention, n) ==
    /\ rx' \in [Sessions -> RxRecords]
    /\ rx'[s].pc = p /\ rx'[s].msg = msg /\ rx'[s].mention = mention /\ rx'[s].n = n
    /\ \A t \in Sessions \ {s} : rx'[t] = rx[t]

UiStep(p, line, n, after) ==
    /\ ui' \in UiRecords
    /\ ui'.pc = p /\ ui'.line = line /\ ui'.n = n /\ ui'.after = after

\* A receiver's flag and message, when nothing to be highlighted has come.
Caused(s) ==
    /\ rx[s].mention => rx[s].msg.kind = "closed" \/ flagged
    /\ Addressed(rx[s].msg) \/ (Announced(rx[s].msg) /\ rx[s].msg.kind # "closed") => flagged

CauseInv ==
    /\ mentionCountChanged => flagged
    /\ isMention => flagged
    /\ ui.line.mention => flagged
    /\ \A s \in Sessions : Caused(s)
    /\ HighlightHasCause

\* What the scrollback shows.
ShownMessages == {scrollback[k].msg : k \in DOMAIN scrollback}

\* The receiver has the message for itself.
Carries(s) == rx[s].pc \in {"count", "store", "call", "wait", "copy", "measure", "append"}

\* Identifiers are given out in order.
KnownInv ==
    /\ message.id <= received /\ ui.line.msg.id <= received
    /\ \A s \in Sessions : rx[s].msg.id <= received
    /\ \A m \in ShownMessages : m.id <= received

\* What it has for itself is nowhere else.
Own(s) ==
    Carries(s) =>
        /\ rx[s].msg # message /\ rx[s].msg # ui.line.msg
        /\ rx[s].msg \notin ShownMessages
        /\ \A t \in Sessions \ {s} : rx[t].msg # rx[s].msg

\* Every message is in one place, but for the one being shown, which is
\* cleared from the slot last.
PlaceInv ==
    /\ KnownInv
    /\ \A s \in Sessions : Own(s)
    /\ ui.pc # "clear" => message \notin ShownMessages
    /\ ui.line.msg \notin ShownMessages
    /\ ShownOnce

\* Without a view chat has not been paused, and a session that was not
\* crowded when it began has one receiver.
AloneInv ==
    /\ ~crowded => \A s \in Sessions : rx[s].pc # "off" => s = session
    /\ views = 0 => /\ ~paused /\ ui.pc \notin {"open", "viewing"}
                    /\ \A s \in Sessions : rx[s].pc \in {"measure", "append"} => rx[s].msg.kind = "closed"

\* What the slot is to the one receiver there is.
Copying(s) ==
    /\ rx[s].pc = "copy" => message = NoMsg
    /\ rx[s].pc \in {"rest", "flag"} => message = rx[s].msg \/ rx[s].msg.id \in Shown

\* What it is to the user's thread.
Showing ==
    /\ ui.pc \in {"measure", "append"} => message = ui.line.msg
    /\ ui.pc = "append" => ui.n = Len(scrollback)
    /\ ui.pc = "clear" => message # NoMsg /\ message.id \in Shown
    /\ handed \subseteq Shown \cup {message.id}

WriterInv == OneWriter => Showing /\ \A s \in Sessions : Copying(s)

IInv == ShapeInv /\ HoldInv /\ CauseInv /\ PlaceInv /\ AloneInv /\ WriterInv

-----------------------------------------------------------------------------
(* The operators, and what the actions do to the records.                  *)

\* The null values are none of the values.
LEMMA NoMsgNotMessage == NoMsg \notin Messages /\ NoMsg.id = 0 /\ NoMsg.kind = "none"
  BY DEF NoMsg, Messages

LEMMA NoLineNotLine == NoLine \notin Lines /\ NoLine.msg = NoMsg /\ NoLine.mention = FALSE
  BY NoMsgNotMessage DEF NoLine, Lines

\* What a message is made of.
LEMMA MessageFields == \A m \in Messages : m.id \in 1..MaxMessages /\ m.kind \in Kinds \cup {"closed"} /\ m.id # 0
  BY InboxAssumption DEF Messages

\* The message that arrives next.
LEMMA NewMessage ==
  ASSUME received \in 0..MaxMessages, received < MaxMessages, NEW k \in Kinds \cup {"closed"}
  PROVE  /\ [id |-> received + 1, kind |-> k] \in Messages
         /\ received + 1 \in 0..MaxMessages
  BY InboxAssumption DEF Messages

\* The places of a receiver.
LEMMA StepsAre ==
  \A p : p \in {"off", "recv", "count", "store", "call", "wait", "copy", "rest", "flag", "measure", "append", "next"}
        => p \in RxSteps
  BY DEF RxSteps

\* A receiver that waits to be started, and one that has just been.
LEMMA IdleRecord ==
  ASSUME NEW k \in 0..MaxSessions, NEW r, r = [Idle EXCEPT !.pc = "recv", !.sock = k]
  PROVE  /\ Idle \in RxRecords
         /\ Idle.pc = "off" /\ Idle.msg = NoMsg /\ Idle.mention = FALSE /\ Idle.n = 0
         /\ r \in RxRecords
         /\ r.pc = "recv" /\ r.msg = NoMsg /\ r.mention = FALSE /\ r.n = 0
<1>1. 0 \in 0..MaxSessions BY InboxAssumption
<1>2. "off" \in RxSteps /\ "recv" \in RxSteps BY DEF RxSteps
<1>3. Idle \in RxRecords BY <1>1, <1>2 DEF Idle, RxRecords
<1>4. Idle.pc = "off" /\ Idle.msg = NoMsg /\ Idle.mention = FALSE /\ Idle.n = 0 BY DEF Idle
<1>5. r \in RxRecords BY <1>2 DEF Idle, RxRecords
<1>6. r.pc = "recv" /\ r.msg = NoMsg /\ r.mention = FALSE /\ r.n = 0 BY DEF Idle
<1>7. QED BY <1>3, <1>4, <1>5, <1>6

\* The ways a step changes the record of a receiver.
LEMMA RxPc ==
  ASSUME rx \in [Sessions -> RxRecords], NEW s \in Sessions, NEW p \in RxSteps,
         rx' = [rx EXCEPT ![s].pc = p]
  PROVE  RxStep(s, p, rx[s].msg, rx[s].mention, rx[s].n)
  BY DEF RxStep, RxRecords

LEMMA RxNumber ==
  ASSUME rx \in [Sessions -> RxRecords], NEW s \in Sessions, NEW p \in RxSteps, NEW n \in Nat,
         rx' = [rx EXCEPT ![s].pc = p, ![s].n = n]
  PROVE  RxStep(s, p, rx[s].msg, rx[s].mention, n)
  BY DEF RxStep, RxRecords

LEMMA RxMention ==
  ASSUME rx \in [Sessions -> RxRecords], NEW s \in Sessions, NEW p \in RxSteps, NEW b \in BOOLEAN,
         rx' = [rx EXCEPT ![s].pc = p, ![s].mention = b]
  PROVE  RxStep(s, p, rx[s].msg, b, rx[s].n)
  BY DEF RxStep, RxRecords

LEMMA RxMsg ==
  ASSUME rx \in [Sessions -> RxRecords], NEW s \in Sessions, NEW p \in RxSteps, NEW msg \in Messages,
         rx' = [rx EXCEPT ![s].pc = p, ![s].msg = msg]
  PROVE  RxStep(s, p, msg, rx[s].mention, rx[s].n)
  BY DEF RxStep, RxRecords

LEMMA RxMentionMsg ==
  ASSUME rx \in [Sessions -> RxRecords], NEW s \in Sessions, NEW p \in RxSteps, NEW b \in BOOLEAN, NEW msg \in Messages,
         rx' = [rx EXCEPT ![s].pc = p, ![s].mention = b, ![s].msg = msg]
  PROVE  RxStep(s, p, msg, b, rx[s].n)
  BY DEF RxStep, RxRecords

LEMMA RxSets ==
  ASSUME rx \in [Sessions -> RxRecords], NEW s \in Sessions, NEW r \in RxRecords, rx' = [rx EXCEPT ![s] = r]
  PROVE  RxStep(s, r.pc, r.msg, r.mention, r.n)
  BY DEF RxStep

\* What each action of a receiver makes of its record.
LEMMA ReceiverForms ==
  ASSUME ShapeInv, NEW s \in Sessions
  PROVE  /\ Receive(s) => \E k \in Kinds :
              LET msg == [id |-> received + 1, kind |-> k] IN
              /\ RxStep(s, IF Addressed(msg) THEN "count" ELSE "call", msg, rx[s].mention, rx[s].n)
              /\ flagged' = (flagged \/ Addressed(msg) \/ Announced(msg))
         /\ CountMention(s) => RxStep(s, "store", rx[s].msg, rx[s].mention, mentionCount)
         /\ StoreMention(s) => RxStep(s, "call", rx[s].msg, rx[s].mention, rx[s].n)
         /\ Queue(s) /\ rx[s].msg.kind \in Kinds =>
              RxStep(s, IF paused THEN "measure" ELSE "wait", rx[s].msg, MentionArgument(rx[s].msg.kind), rx[s].n)
         /\ WaitForSlot(s) => RxStep(s, "copy", rx[s].msg, rx[s].mention, rx[s].n)
         /\ CopyFirst(s) => RxStep(s, "rest", rx[s].msg, rx[s].mention, rx[s].n)
         /\ CopyRest(s) => RxStep(s, "flag", rx[s].msg, rx[s].mention, rx[s].n)
         /\ SetMention(s) => RxStep(s, "next", rx[s].msg, rx[s].mention, rx[s].n)
         /\ Measure(s) => RxStep(s, "append", rx[s].msg, rx[s].mention, Len(scrollback))
         /\ AppendLine(s) => RxStep(s, "next", rx[s].msg, rx[s].mention, rx[s].n)
         /\ ConnectionClosed(s) => RxStep(s, "measure", [id |-> received + 1, kind |-> "closed"], TRUE, rx[s].n)
         /\ NextRead(s) => RxStep(s, IF inChat' THEN "recv" ELSE "off", NoMsg, FALSE, 0)
         /\ ReadEnds(s) => RxStep(s, "off", NoMsg, FALSE, 0)
<1> USE StepsAre DEF Rx
<1>0. /\ rx \in [Sessions -> RxRecords] /\ scrollback \in Seq(Lines) /\ mentionCount \in Nat
      /\ mentionCountChanged \in BOOLEAN /\ received \in 0..MaxMessages /\ session \in 0..MaxSessions
  BY DEF ShapeInv
<1> USE <1>0
<1>1. ASSUME Receive(s)
      PROVE  \E k \in Kinds :
              LET msg == [id |-> received + 1, kind |-> k] IN
              /\ RxStep(s, IF Addressed(msg) THEN "count" ELSE "call", msg, rx[s].mention, rx[s].n)
              /\ flagged' = (flagged \/ Addressed(msg) \/ Announced(msg))
  <2> DEFINE msg(k) == [id |-> received + 1, kind |-> k]
             next(k) == IF Addressed(msg(k)) THEN "count" ELSE "call"
  <2>1. PICK k \in Kinds :
          /\ rx' = [rx EXCEPT ![s].pc = next(k), ![s].msg = msg(k)]
          /\ flagged' = (flagged \/ Addressed(msg(k)) \/ Announced(msg(k)))
    BY <1>1 DEF Receive
  <2>2. msg(k) \in Messages BY <1>1, NewMessage DEF Receive
  <2>3. next(k) \in RxSteps OBVIOUS
  <2>4. RxStep(s, next(k), msg(k), rx[s].mention, rx[s].n)
    <3> HIDE DEF msg, next
    <3>1. QED BY <2>1, <2>2, <2>3, RxMsg
  <2>5. QED BY <2>1, <2>4
<1>2. CountMention(s) => RxStep(s, "store", rx[s].msg, rx[s].mention, mentionCount)
  <2>1. CountMention(s) => rx' = [rx EXCEPT ![s].pc = "store", ![s].n = mentionCount] BY DEF CountMention
  <2>2. QED BY <2>1, RxNumber
<1>3. StoreMention(s) => RxStep(s, "call", rx[s].msg, rx[s].mention, rx[s].n)
  <2>1. StoreMention(s) => rx' = [rx EXCEPT ![s].pc = "call"] BY DEF StoreMention
  <2>2. QED BY <2>1, RxPc
<1>4. WaitForSlot(s) => RxStep(s, "copy", rx[s].msg, rx[s].mention, rx[s].n)
  <2>1. WaitForSlot(s) => rx' = [rx EXCEPT ![s].pc = "copy"] BY DEF WaitForSlot
  <2>2. QED BY <2>1, RxPc
<1>5. CopyFirst(s) => RxStep(s, "rest", rx[s].msg, rx[s].mention, rx[s].n)
  <2>1. CopyFirst(s) => rx' = [rx EXCEPT ![s].pc = "rest"] BY DEF CopyFirst
  <2>2. QED BY <2>1, RxPc
<1>6. CopyRest(s) => RxStep(s, "flag", rx[s].msg, rx[s].mention, rx[s].n)
  <2>1. CopyRest(s) => rx' = [rx EXCEPT ![s].pc = "flag"] BY DEF CopyRest
  <2>2. QED BY <2>1, RxPc
<1>7. SetMention(s) => RxStep(s, "next", rx[s].msg, rx[s].mention, rx[s].n)
  <2>1. SetMention(s) => rx' = [rx EXCEPT ![s].pc = "next"] BY DEF SetMention
  <2>2. QED BY <2>1, RxPc
<1>8. Measure(s) => RxStep(s, "append", rx[s].msg, rx[s].mention, Len(scrollback))
  <2>1. Measure(s) => rx' = [rx EXCEPT ![s].pc = "append", ![s].n = Len(scrollback)] BY DEF Measure
  <2>2. QED BY <2>1, RxNumber, LenProperties
<1>9. AppendLine(s) => RxStep(s, "next", rx[s].msg, rx[s].mention, rx[s].n)
  <2>1. AppendLine(s) => rx' = [rx EXCEPT ![s].pc = "next"] BY DEF AppendLine
  <2>2. QED BY <2>1, RxPc
<1>10. Queue(s) /\ rx[s].msg.kind \in Kinds =>
         RxStep(s, IF paused THEN "measure" ELSE "wait", rx[s].msg, MentionArgument(rx[s].msg.kind), rx[s].n)
  <2> DEFINE p == IF paused THEN "measure" ELSE "wait"
             b == MentionArgument(rx[s].msg.kind)
  <2>1. Queue(s) => rx' = [rx EXCEPT ![s].pc = p, ![s].mention = b] BY DEF Queue
  <2>2. rx[s].msg.kind \in Kinds => b \in BOOLEAN
    BY InboxAssumption DEF MentionArgument, AllKinds
  <2>3. p \in RxSteps OBVIOUS
  <2> HIDE DEF p, b
  <2>4. Queue(s) /\ rx[s].msg.kind \in Kinds => RxStep(s, p, rx[s].msg, b, rx[s].n)
    BY <2>1, <2>2, <2>3, RxMention
  <2>5. QED BY <2>4 DEF p, b
<1>11. ConnectionClosed(s) => RxStep(s, "measure", [id |-> received + 1, kind |-> "closed"], TRUE, rx[s].n)
  <2> DEFINE msg == [id |-> received + 1, kind |-> "closed"]
  <2> SUFFICES ASSUME ConnectionClosed(s) PROVE RxStep(s, "measure", msg, TRUE, rx[s].n) OBVIOUS
  <2>1. rx' = [rx EXCEPT ![s].pc = "measure", ![s].mention = TRUE, ![s].msg = msg]
    BY DEF ConnectionClosed
  <2>2. msg \in Messages BY NewMessage DEF ConnectionClosed
  <2> HIDE DEF msg
  <2>3. QED BY <2>1, <2>2, RxMentionMsg
<1>12. NextRead(s) => RxStep(s, IF inChat' THEN "recv" ELSE "off", NoMsg, FALSE, 0)
  <2> DEFINE r == [Idle EXCEPT !.pc = "recv", !.sock = session]
  <2>1. NextRead(s) => rx' = [rx EXCEPT ![s] = IF inChat' THEN r ELSE Idle]
    BY DEF NextRead
  <2> HIDE DEF r
  <2>2. r \in RxRecords /\ r.pc = "recv" /\ r.msg = NoMsg /\ r.mention = FALSE /\ r.n = 0
    BY IdleRecord DEF r
  <2>4. CASE inChat'
    <3>1. NextRead(s) => rx' = [rx EXCEPT ![s] = r] BY <2>1, <2>4
    <3>2. QED BY <2>2, <2>4, <3>1, RxSets
  <2>5. CASE ~inChat'
    <3>1. NextRead(s) => rx' = [rx EXCEPT ![s] = Idle] BY <2>1, <2>5
    <3>2. QED BY <2>5, <3>1, IdleRecord, RxSets
  <2>6. QED BY <2>4, <2>5
<1>13. ReadEnds(s) => RxStep(s, "off", NoMsg, FALSE, 0)
  <2>1. ReadEnds(s) => rx' = [rx EXCEPT ![s] = Idle] BY DEF ReadEnds
  <2>2. QED BY <2>1, IdleRecord, RxSets
<1>14. QED
  BY <1>1, <1>2, <1>3, <1>4, <1>5, <1>6, <1>7, <1>8, <1>9, <1>10, <1>11, <1>12, <1>13

LEMMA ReceiveForm ==
  ASSUME ShapeInv, NEW s \in Sessions, Receive(s)
  PROVE  \E p, m, b, n : p \in {"count", "call"} /\ RxStep(s, p, m, b, n)
<1>1. PICK k \in Kinds :
        LET msg == [id |-> received + 1, kind |-> k] IN
        RxStep(s, IF Addressed(msg) THEN "count" ELSE "call", msg, rx[s].mention, rx[s].n)
  BY ReceiverForms
<1> DEFINE msg == [id |-> received + 1, kind |-> k]
           place == IF Addressed(msg) THEN "count" ELSE "call"
<1>2. place \in {"count", "call"} OBVIOUS
<1>3. RxStep(s, place, msg, rx[s].mention, rx[s].n) BY <1>1
<1> HIDE DEF msg, place
<1>4. QED BY <1>2, <1>3

\* The end of displayMessage() on the user's thread.
LEMMA UiShown ==
  ASSUME ui \in UiRecords, NEW p \in UiSteps, NEW line \in Lines \cup {NoLine}, NEW n \in Nat,
         ui' = [ui EXCEPT !.pc = p, !.line = line, !.n = n]
  PROVE  UiStep(p, line, n, ui.after)
  BY DEF UiStep, UiRecords

\* What each action of the user's thread makes of its record.
LEMMA UserForms ==
  ASSUME ShapeInv
  PROVE  /\ EnterChat => /\ UiStep("top", ui.line, ui.n, ui.after)
                         /\ session + 1 \in Sessions
                         /\ RxStep(session + 1, "recv", NoMsg, FALSE, 0)
         /\ TakeMessage => UiStep("measure", [msg |-> message, mention |-> isMention, whole |-> copied], ui.n, ui.after)
         /\ NoMessage => UiStep("flags", ui.line, ui.n, ui.after)
         /\ MeasureShown => UiStep("append", ui.line, Len(scrollback), ui.after)
         /\ AppendShown => UiStep("clear", NoLine, 0, ui.after)
         /\ ClearMessage => UiStep("unflag", ui.line, ui.n, ui.after)
         /\ ClearMention => UiStep("flags", ui.line, ui.n, ui.after)
         /\ ShowCount => UiStep(IF mentionCountChanged THEN "ack" ELSE "input", ui.line, ui.n, ui.after)
         /\ AckCount => UiStep("input", ui.line, ui.n, ui.after)
         /\ NoKey => UiStep("top", ui.line, ui.n, ui.after)
         /\ View => \E after \in Afterwards : UiStep("viewing", ui.line, ui.n, after)
         /\ MentionsCommand => UiStep("open", ui.line, ui.n, ui.after)
         /\ OpenMentions => UiStep("viewing", ui.line, ui.n, ui.after)
         /\ StopViewing => UiStep(ui.after, ui.line, ui.n, "top")
         /\ ResetCount => UiStep("top", ui.line, ui.n, ui.after)
         /\ LeaveChat => UiStep("menu", ui.line, ui.n, ui.after)
<1>0. /\ rx \in [Sessions -> RxRecords] /\ ui \in UiRecords /\ scrollback \in Seq(Lines)
      /\ message \in Messages \cup {NoMsg} /\ copied \in BOOLEAN /\ isMention \in BOOLEAN
      /\ session \in 0..MaxSessions
  BY DEF ShapeInv
<1> USE <1>0 DEF Ui, UiSteps, Afterwards, UiStep, UiRecords
<1>1. EnterChat => /\ UiStep("top", ui.line, ui.n, ui.after)
                   /\ session + 1 \in Sessions
                   /\ RxStep(session + 1, "recv", NoMsg, FALSE, 0)
  <2> SUFFICES ASSUME EnterChat
               PROVE  /\ UiStep("top", ui.line, ui.n, ui.after)
                      /\ session + 1 \in Sessions
                      /\ RxStep(session + 1, "recv", NoMsg, FALSE, 0)
    OBVIOUS
  <2>1. session + 1 \in Sessions /\ session + 1 \in 0..MaxSessions
    BY InboxAssumption DEF EnterChat, Sessions
  <2> DEFINE r == [Idle EXCEPT !.pc = "recv", !.sock = session + 1]
  <2>2. rx' = [rx EXCEPT ![session + 1] = r]
    BY DEF EnterChat
  <2> HIDE DEF r
  <2>3. r \in RxRecords /\ r.pc = "recv" /\ r.msg = NoMsg /\ r.mention = FALSE /\ r.n = 0
    BY <2>1, IdleRecord DEF r
  <2>4. RxStep(session + 1, "recv", NoMsg, FALSE, 0)
    BY <2>1, <2>2, <2>3 DEF RxStep
  <2>5. QED BY <2>1, <2>4 DEF EnterChat
<1>2. TakeMessage => UiStep("measure", [msg |-> message, mention |-> isMention, whole |-> copied], ui.n, ui.after)
  <2> SUFFICES ASSUME TakeMessage
               PROVE  UiStep("measure", [msg |-> message, mention |-> isMention, whole |-> copied], ui.n, ui.after)
    OBVIOUS
  <2> DEFINE l == [msg |-> message, mention |-> isMention, whole |-> copied]
  <2>1. l \in Lines BY DEF TakeMessage, Lines
  <2>2. ui' = [ui EXCEPT !.pc = "measure", !.line = l] BY DEF TakeMessage
  <2> HIDE DEF l
  <2>3. UiStep("measure", l, ui.n, ui.after) BY <2>1, <2>2
  <2>4. QED BY <2>3 DEF l
<1>3. NoMessage => UiStep("flags", ui.line, ui.n, ui.after) BY DEF NoMessage
<1>4. MeasureShown => UiStep("append", ui.line, Len(scrollback), ui.after)
  <2>1. Len(scrollback) \in Nat BY LenProperties
  <2>2. QED BY <2>1 DEF MeasureShown
<1>5. AppendShown => UiStep("clear", NoLine, 0, ui.after)
  <2> DEFINE l == NoLine
  <2>1. AppendShown => ui' = [ui EXCEPT !.pc = "clear", !.line = l, !.n = 0] BY DEF AppendShown
  <2>2. l \in Lines \cup {NoLine} OBVIOUS
  <2> HIDE DEF l
  <2>3. AppendShown => UiStep("clear", l, 0, ui.after) BY <2>1, <2>2, UiShown
  <2>4. QED BY <2>3 DEF l
<1>6. ClearMessage => UiStep("unflag", ui.line, ui.n, ui.after) BY DEF ClearMessage
<1>7. ClearMention => UiStep("flags", ui.line, ui.n, ui.after) BY DEF ClearMention
<1>8. ShowCount => UiStep(IF mentionCountChanged THEN "ack" ELSE "input", ui.line, ui.n, ui.after)
  BY DEF ShowCount
<1>9. AckCount => UiStep("input", ui.line, ui.n, ui.after) BY DEF AckCount
<1>10. NoKey => UiStep("top", ui.line, ui.n, ui.after) BY DEF NoKey
<1>11. View => \E after \in Afterwards : UiStep("viewing", ui.line, ui.n, after)
  BY DEF View
<1>12. MentionsCommand => UiStep("open", ui.line, ui.n, ui.after) BY DEF MentionsCommand
<1>13. OpenMentions => UiStep("viewing", ui.line, ui.n, ui.after) BY DEF OpenMentions
<1>14. StopViewing => UiStep(ui.after, ui.line, ui.n, "top") BY DEF StopViewing
<1>15. ResetCount => UiStep("top", ui.line, ui.n, ui.after) BY DEF ResetCount
<1>16. LeaveChat => UiStep("menu", ui.line, ui.n, ui.after) BY DEF LeaveChat
<1>17. QED
  <2> HIDE DEF Ui, UiSteps, Afterwards, UiStep, UiRecords
  <2>1. QED
    BY <1>1, <1>2, <1>3, <1>4, <1>5, <1>6, <1>7, <1>8, <1>9, <1>10, <1>11, <1>12, <1>13, <1>14, <1>15, <1>16

\* addToScrollBack() keeps a beginning of the text and puts the line behind it.
LEMMA AppendedFacts ==
  ASSUME scrollback \in Seq(Lines), NEW n \in Nat, NEW line \in Lines
  PROVE  /\ Appended(n, line) \in Seq(Lines)
         /\ \E m \in 0..Len(scrollback) :
              /\ Len(Appended(n, line)) = m + 1
              /\ \A k \in 1..m : Appended(n, line)[k] = scrollback[k]
              /\ Appended(n, line)[m + 1] = line
              /\ n = Len(scrollback) => m = n
<1> DEFINE m == IF n < Len(scrollback) THEN n ELSE Len(scrollback)
<1>1. m \in 0..Len(scrollback) /\ (n = Len(scrollback) => m = n) /\ m \in Nat
  BY LenProperties
<1>2. SubSeq(scrollback, 1, m) \in Seq(Lines) /\ Len(SubSeq(scrollback, 1, m)) = m
      /\ \A k \in 1..m : SubSeq(scrollback, 1, m)[k] = scrollback[k]
  BY <1>1
<1>3. Appended(n, line) = Append(SubSeq(scrollback, 1, m), line)
  BY DEF Appended
<1> HIDE DEF m
<1>4. /\ Appended(n, line) \in Seq(Lines) /\ Len(Appended(n, line)) = m + 1
      /\ \A k \in 1..m : Appended(n, line)[k] = scrollback[k]
      /\ Appended(n, line)[m + 1] = line
  BY <1>1, <1>2, <1>3, AppendProperties
<1>5. QED BY <1>1, <1>4

\* Only messages are shown.
LEMMA ShownAreMessages == ShapeInv => ShownMessages \subseteq Messages /\ NoMsg \notin ShownMessages
<1> SUFFICES ASSUME ShapeInv, NEW k \in DOMAIN scrollback PROVE scrollback[k].msg \in Messages
  BY NoMsgNotMessage DEF ShownMessages
<1>1. scrollback[k] \in Lines BY DEF ShapeInv
<1>2. QED BY <1>1 DEF Lines

\* Identifiers can be compared.
LEMMA IdTypes ==
  ASSUME ShapeInv
  PROVE  /\ message.id \in Nat /\ ui.line.msg.id \in Nat
         /\ \A t \in Sessions : rx[t].msg.id \in Nat
         /\ \A m \in ShownMessages : m.id \in Nat
<1>1. \A m \in Messages \cup {NoMsg} : m.id \in Nat
  BY MessageFields, NoMsgNotMessage
<1>2. ui.line.msg \in Messages \cup {NoMsg}
  BY NoLineNotLine DEF ShapeInv, UiRecords, Lines
<1>3. \A t \in Sessions : rx[t].msg \in Messages \cup {NoMsg}
  BY DEF ShapeInv, RxRecords
<1>4. QED BY <1>1, <1>2, <1>3, ShownAreMessages DEF ShapeInv

\* Which messages are shown after a line has been added.
LEMMA AppendedMessages ==
  ASSUME ShapeInv, NEW n \in Nat, NEW line \in Lines, scrollback' = Appended(n, line)
  PROVE  /\ ShownMessages' \subseteq ShownMessages \cup {line.msg}
         /\ line.msg \in ShownMessages'
         /\ n = Len(scrollback) => ShownMessages' = ShownMessages \cup {line.msg}
         /\ ShownOnce /\ line.msg \notin ShownMessages => ShownOnce'
<1>1. PICK m \in 0..Len(scrollback) :
        /\ Len(Appended(n, line)) = m + 1
        /\ \A k \in 1..m : Appended(n, line)[k] = scrollback[k]
        /\ Appended(n, line)[m + 1] = line
        /\ n = Len(scrollback) => m = n
  BY AppendedFacts DEF ShapeInv
<1>2. DOMAIN (scrollback') = 1..(m + 1) /\ DOMAIN scrollback = 1..Len(scrollback) /\ Len(scrollback) \in Nat
  BY <1>1, AppendedFacts DEF ShapeInv
<1>3. \A k \in 1..(m + 1) : k = m + 1 \/ k \in 1..m
  BY <1>1, <1>2
<1>4. \A k \in 1..m : scrollback'[k] = scrollback[k] /\ k \in DOMAIN scrollback /\ k \in DOMAIN (scrollback')
  <2>1. \A k \in 1..m : k \in 1..Len(scrollback) /\ k \in 1..(m + 1) BY <1>2
  <2>2. \A k \in 1..m : scrollback'[k] = scrollback[k] BY <1>1
  <2>3. QED BY <1>2, <2>1, <2>2
<1>5. scrollback'[m + 1] = line /\ m + 1 \in DOMAIN (scrollback')
  <2>1. m + 1 \in 1..(m + 1) BY <1>2
  <2>2. scrollback'[m + 1] = line BY <1>1
  <2>3. QED BY <1>2, <2>1, <2>2
<1>6. ShownMessages' \subseteq ShownMessages \cup {line.msg} /\ line.msg \in ShownMessages'
  BY <1>2, <1>3, <1>4, <1>5 DEF ShownMessages
<1>7. ASSUME n = Len(scrollback) PROVE ShownMessages \subseteq ShownMessages'
  <2>1. DOMAIN scrollback = 1..m BY <1>1, <1>2, <1>7
  <2>2. QED BY <1>4, <2>1 DEF ShownMessages
<1>8. ASSUME ShownOnce, line.msg \notin ShownMessages PROVE ShownOnce'
  <2> SUFFICES ASSUME NEW k \in 1..(m + 1), NEW l \in 1..(m + 1), scrollback'[k].msg = scrollback'[l].msg
               PROVE  k = l
    BY <1>2 DEF ShownOnce
  <2>1. \A j \in 1..m : scrollback'[j].msg # line.msg BY <1>4, <1>8 DEF ShownMessages
  <2>2. CASE k \in 1..m /\ l \in 1..m BY <1>4, <1>8, <2>2 DEF ShownOnce
  <2>3. QED BY <1>3, <1>5, <2>1, <2>2
<1>9. QED BY <1>6, <1>7, <1>8

-----------------------------------------------------------------------------
(* Every step keeps each part of the invariant.                            *)

\* The types are kept.
LEMMA ShapeStep ==
  ASSUME ShapeInv, HoldInv, Next
  PROVE  ShapeInv'
<1>0. \A s \in Sessions : Receiver(s) => rx' \in [Sessions -> RxRecords] /\ ui' \in UiRecords
  <2> SUFFICES ASSUME NEW s \in Sessions PROVE Receiver(s) => rx' \in [Sessions -> RxRecords] /\ ui' \in UiRecords
    OBVIOUS
  <2>1. Receive(s) => rx' \in [Sessions -> RxRecords] /\ UNCHANGED ui
    BY ReceiverForms DEF RxStep, Receive, shared, counters, bounds, ghosts
  <2>2. CountMention(s) => rx' \in [Sessions -> RxRecords] /\ UNCHANGED ui
    BY ReceiverForms DEF RxStep, CountMention, shared, counters, bounds, ghosts
  <2>3. StoreMention(s) => rx' \in [Sessions -> RxRecords] /\ UNCHANGED ui
    BY ReceiverForms DEF RxStep, StoreMention, shared, counters, bounds, ghosts
  <2>4. Queue(s) => rx' \in [Sessions -> RxRecords] /\ UNCHANGED ui
    <3>1. ASSUME Queue(s) PROVE rx[s].msg.kind \in Kinds
      <4>1. rx[s].pc = "call" /\ rx[s] \in RxRecords BY <3>1 DEF Queue, ShapeInv
      <4>2. rx[s].msg \in Messages /\ rx[s].msg.kind # "closed" BY <4>1 DEF HoldInv, Holds, RxRecords
      <4>3. QED BY <4>2, MessageFields
    <3>2. QED BY <3>1, ReceiverForms DEF RxStep, Queue, shared, counters, bounds, ghosts
  <2>5. WaitForSlot(s) => rx' \in [Sessions -> RxRecords] /\ UNCHANGED ui
    BY ReceiverForms DEF RxStep, WaitForSlot, shared, counters, bounds, ghosts
  <2>6. CopyFirst(s) => rx' \in [Sessions -> RxRecords] /\ UNCHANGED ui
    BY ReceiverForms DEF RxStep, CopyFirst, shared, counters, bounds, ghosts
  <2>7. CopyRest(s) => rx' \in [Sessions -> RxRecords] /\ UNCHANGED ui
    BY ReceiverForms DEF RxStep, CopyRest, shared, counters, bounds, ghosts
  <2>8. SetMention(s) => rx' \in [Sessions -> RxRecords] /\ UNCHANGED ui
    BY ReceiverForms DEF RxStep, SetMention, shared, counters, bounds, ghosts
  <2>9. Measure(s) => rx' \in [Sessions -> RxRecords] /\ UNCHANGED ui
    BY ReceiverForms DEF RxStep, Measure, shared, counters, bounds, ghosts
  <2>10. AppendLine(s) => rx' \in [Sessions -> RxRecords] /\ UNCHANGED ui
    BY ReceiverForms DEF RxStep, AppendLine, shared, counters, bounds, ghosts
  <2>11. ConnectionClosed(s) => rx' \in [Sessions -> RxRecords] /\ UNCHANGED ui
    BY ReceiverForms DEF RxStep, ConnectionClosed, shared, counters, bounds, ghosts
  <2>12. NextRead(s) => rx' \in [Sessions -> RxRecords] /\ UNCHANGED ui
    BY ReceiverForms DEF RxStep, NextRead, shared, counters, bounds, ghosts
  <2>13. ReadEnds(s) => rx' \in [Sessions -> RxRecords] /\ UNCHANGED ui
    BY ReceiverForms DEF RxStep, ReadEnds, shared, counters, bounds, ghosts
  <2>14. QED BY <2>1, <2>2, <2>3, <2>4, <2>5, <2>6, <2>7, <2>8, <2>9, <2>10, <2>11, <2>12, <2>13 DEF Receiver, ShapeInv
<1>1. UserThread => rx' \in [Sessions -> RxRecords] /\ ui' \in UiRecords
  <2>1. EnterChat => ui' \in UiRecords /\ rx' \in [Sessions -> RxRecords]
    BY UserForms DEF UiStep, RxStep, ShapeInv, EnterChat
  <2>2. TakeMessage => ui' \in UiRecords /\ rx' \in [Sessions -> RxRecords]
    BY UserForms DEF UiStep, RxStep, ShapeInv, TakeMessage
  <2>3. NoMessage => ui' \in UiRecords /\ rx' \in [Sessions -> RxRecords]
    BY UserForms DEF UiStep, RxStep, ShapeInv, NoMessage
  <2>4. MeasureShown => ui' \in UiRecords /\ rx' \in [Sessions -> RxRecords]
    BY UserForms DEF UiStep, RxStep, ShapeInv, MeasureShown
  <2>5. AppendShown => ui' \in UiRecords /\ rx' \in [Sessions -> RxRecords]
    BY UserForms DEF UiStep, RxStep, ShapeInv, AppendShown
  <2>6. ClearMessage => ui' \in UiRecords /\ rx' \in [Sessions -> RxRecords]
    BY UserForms DEF UiStep, RxStep, ShapeInv, ClearMessage
  <2>7. ClearMention => ui' \in UiRecords /\ rx' \in [Sessions -> RxRecords]
    BY UserForms DEF UiStep, RxStep, ShapeInv, ClearMention
  <2>8. ShowCount => ui' \in UiRecords /\ rx' \in [Sessions -> RxRecords]
    BY UserForms DEF UiStep, RxStep, ShapeInv, ShowCount
  <2>9. AckCount => ui' \in UiRecords /\ rx' \in [Sessions -> RxRecords]
    BY UserForms DEF UiStep, RxStep, ShapeInv, AckCount
  <2>10. NoKey => ui' \in UiRecords /\ rx' \in [Sessions -> RxRecords]
    BY UserForms DEF UiStep, RxStep, ShapeInv, NoKey
  <2>11. View => ui' \in UiRecords /\ rx' \in [Sessions -> RxRecords]
    BY UserForms DEF UiStep, RxStep, ShapeInv, View
  <2>12. MentionsCommand => ui' \in UiRecords /\ rx' \in [Sessions -> RxRecords]
    BY UserForms DEF UiStep, RxStep, ShapeInv, MentionsCommand
  <2>13. OpenMentions => ui' \in UiRecords /\ rx' \in [Sessions -> RxRecords]
    BY UserForms DEF UiStep, RxStep, ShapeInv, OpenMentions
  <2>14. StopViewing => ui' \in UiRecords /\ rx' \in [Sessions -> RxRecords]
    BY UserForms DEF UiStep, RxStep, ShapeInv, StopViewing
  <2>15. ResetCount => ui' \in UiRecords /\ rx' \in [Sessions -> RxRecords]
    BY UserForms DEF UiStep, RxStep, ShapeInv, ResetCount
  <2>16. LeaveChat => ui' \in UiRecords /\ rx' \in [Sessions -> RxRecords]
    BY UserForms DEF UiStep, RxStep, ShapeInv, LeaveChat
  <2>17. QED BY <2>1, <2>2, <2>3, <2>4, <2>5, <2>6, <2>7, <2>8, <2>9, <2>10, <2>11, <2>12, <2>13, <2>14, <2>15, <2>16 DEF UserThread
<1> DEFINE Rest ==
      /\ inChat \in BOOLEAN /\ paused \in BOOLEAN
      /\ message \in Messages \cup {NoMsg} /\ message.kind # "closed"
      /\ copied \in BOOLEAN /\ isMention \in BOOLEAN
      /\ mentionCount \in Nat /\ mentionCountChanged \in BOOLEAN
      /\ scrollback \in Seq(Lines)
      /\ session \in 0..MaxSessions /\ received \in 0..MaxMessages /\ views \in 0..MaxViews
      /\ handed \subseteq 1..MaxMessages /\ crowded \in BOOLEAN /\ flagged \in BOOLEAN
<1> USE InboxAssumption DEF ShapeInv, shared, counters, bounds, ghosts
<1>2. ASSUME NEW s \in Sessions, Receiver(s) PROVE Rest'
  <2> USE DEF Rx
  <2>1. rx[s] \in RxRecords OBVIOUS
  <2>2. rx[s].pc \in {"copy", "flag", "append"} => rx[s].msg \in Messages /\ rx[s].msg.id \in 1..MaxMessages
    BY <2>1, MessageFields DEF HoldInv, Holds, RxRecords
  <2>20. rx[s].pc = "copy" => rx[s].msg.kind # "closed" BY DEF HoldInv, Holds
  <2>21. rx[s].n \in Nat /\ rx[s].mention \in BOOLEAN BY <2>1 DEF RxRecords
  <2>3. Receive(s) => Rest'
    BY DEF Receive, Addressed, Announced
  <2>4. CountMention(s) => Rest'
    BY <2>2, <2>20, <2>21 DEF CountMention
  <2>5. StoreMention(s) => Rest'
    BY <2>2, <2>20, <2>21 DEF StoreMention
  <2>6. Queue(s) => Rest'
    BY <2>2, <2>20, <2>21 DEF Queue
  <2>7. WaitForSlot(s) => Rest'
    BY <2>2, <2>20, <2>21 DEF WaitForSlot
  <2>8. CopyFirst(s) => Rest'
    BY <2>2, <2>20, <2>21 DEF CopyFirst
  <2>9. CopyRest(s) => Rest'
    BY <2>2, <2>20, <2>21 DEF CopyRest
  <2>10. SetMention(s) => Rest'
    BY <2>2, <2>20, <2>21 DEF SetMention
  <2>11. Measure(s) => Rest'
    BY <2>2, <2>20, <2>21 DEF Measure
  <2>12. AppendLine(s) => Rest'
    <3> DEFINE line == [msg |-> rx[s].msg, mention |-> rx[s].mention, whole |-> TRUE]
    <3> SUFFICES ASSUME AppendLine(s) PROVE Rest' OBVIOUS
    <3>1. line \in Lines BY <2>2, <2>21 DEF AppendLine, Lines
    <3>2. scrollback' = Appended(rx[s].n, line) BY DEF AppendLine
    <3>3. scrollback' \in Seq(Lines) BY <2>21, <3>1, <3>2, AppendedFacts
    <3>4. QED BY <2>2, <3>3 DEF AppendLine
  <2>13. ConnectionClosed(s) => Rest'
    BY <2>2, <2>20, <2>21 DEF ConnectionClosed
  <2>14. NextRead(s) => Rest'
    BY DEF NextRead
  <2>15. ReadEnds(s) => Rest'
    BY <2>2, <2>20, <2>21 DEF ReadEnds
  <2>16. QED BY <1>2, <2>3, <2>4, <2>5, <2>6, <2>7, <2>8, <2>9, <2>10, <2>11, <2>12, <2>13, <2>14, <2>15 DEF Receiver
<1>3. UserThread => Rest'
  <2> USE NoMsgNotMessage DEF Ui
  <2>1. EnterChat => Rest' BY DEF EnterChat
  <2>2. TakeMessage => Rest' BY DEF TakeMessage
  <2>3. NoMessage => Rest' BY DEF NoMessage
  <2>4. MeasureShown => Rest' BY DEF MeasureShown
  <2>5. AppendShown => Rest'
    <3> SUFFICES ASSUME AppendShown PROVE Rest' OBVIOUS
    <3>1. ui.line \in Lines /\ ui.n \in Nat BY DEF AppendShown, UiRecords, HoldInv
    <3>2. scrollback' = Appended(ui.n, ui.line) BY DEF AppendShown
    <3>3. scrollback' \in Seq(Lines) BY <3>1, <3>2, AppendedFacts
    <3>4. QED BY <3>3 DEF AppendShown
  <2>6. ClearMessage => Rest' BY DEF ClearMessage
  <2>7. ClearMention => Rest' BY DEF ClearMention
  <2>8. ShowCount => Rest' BY DEF ShowCount
  <2>9. AckCount => Rest' BY DEF AckCount
  <2>10. NoKey => Rest' BY DEF NoKey
  <2>11. View => Rest' BY DEF View
  <2>12. MentionsCommand => Rest' BY DEF MentionsCommand
  <2>13. OpenMentions => Rest' BY DEF OpenMentions
  <2>14. StopViewing => Rest' BY DEF StopViewing
  <2>15. ResetCount => Rest' BY DEF ResetCount
  <2>16. ASSUME LeaveChat PROVE Rest'
    <3>1. <<>> \in Seq(Lines) OBVIOUS
    <3>2. /\ scrollback' = <<>> /\ mentionCount' = 0 /\ inChat' = FALSE
          /\ UNCHANGED <<paused, message, copied, isMention, mentionCountChanged, session, received,
                        views, handed, crowded, flagged>>
      BY <2>16 DEF LeaveChat
    <3>3. scrollback' \in Seq(Lines) BY <3>1, <3>2
    <3>4. mentionCount' \in Nat BY <3>2
    <3>5. inChat' \in BOOLEAN BY <3>2
    <3>6. QED BY <3>2, <3>3, <3>4, <3>5
  <2>17. QED BY <2>1, <2>2, <2>3, <2>4, <2>5, <2>6, <2>7, <2>8, <2>9, <2>10, <2>11, <2>12, <2>13, <2>14, <2>15, <2>16 DEF UserThread
<1>4. QED BY <1>0, <1>1, <1>2, <1>3 DEF Next

\* Each receiver holds what its place says.
LEMMA HoldStep ==
  ASSUME ShapeInv, HoldInv, Next
  PROVE  HoldInv'
<1> USE NoMsgNotMessage
<1>1. ASSUME NEW s \in Sessions, Receiver(s) PROVE HoldInv'
  <2> DEFINE New == Holds(s)' /\ UNCHANGED ui /\ \A t \in Sessions \ {s} : rx'[t] = rx[t]
  <2>0. rx[s] \in RxRecords /\ Holds(s) BY DEF ShapeInv, HoldInv
  <2>k. rx[s].pc \notin {"off", "recv"} => rx[s].msg \in Messages
    BY <2>0 DEF RxRecords, Holds
  <2>m. received < MaxMessages => \A k \in Kinds \cup {"closed"} : [id |-> received + 1, kind |-> k] # NoMsg
    BY NewMessage DEF ShapeInv
  <2>1. Receive(s) => New
    <3> SUFFICES ASSUME Receive(s) PROVE New OBVIOUS
    <3>1. PICK k \in Kinds :
            RxStep(s, IF Addressed([id |-> received + 1, kind |-> k]) THEN "count" ELSE "call",
                   [id |-> received + 1, kind |-> k], rx[s].mention, rx[s].n)
      BY ReceiverForms
    <3>2. k # "closed" BY InboxAssumption DEF AllKinds
    <3>3. [id |-> received + 1, kind |-> k] # NoMsg BY <2>m DEF Receive
    <3>4. QED BY <3>1, <3>2, <3>3 DEF RxStep, Holds, Receive, shared
  <2>2. CountMention(s) => New BY <2>0, ReceiverForms DEF RxStep, Holds, CountMention
  <2>3. StoreMention(s) => New BY <2>0, ReceiverForms DEF RxStep, Holds, StoreMention, Rx
  <2>4. Queue(s) => New
    <3>1. Queue(s) => rx[s].msg.kind \in Kinds BY <2>0, <2>k, MessageFields DEF Queue, Holds
    <3>2. QED BY <2>0, <3>1, ReceiverForms DEF RxStep, Holds, Queue
  <2>5. WaitForSlot(s) => New BY <2>0, ReceiverForms DEF RxStep, Holds, WaitForSlot, Rx
  <2>6. CopyFirst(s) => New BY <2>0, ReceiverForms DEF RxStep, Holds, CopyFirst, Rx
  <2>7. CopyRest(s) => New BY <2>0, ReceiverForms DEF RxStep, Holds, CopyRest, Rx
  <2>8. SetMention(s) => New BY <2>0, ReceiverForms DEF RxStep, Holds, SetMention, Rx
  <2>9. Measure(s) => New BY <2>0, ReceiverForms DEF RxStep, Holds, Measure
  <2>10. AppendLine(s) => New BY <2>0, ReceiverForms DEF RxStep, Holds, AppendLine, Rx
  <2>11. ConnectionClosed(s) => New
    <3>1. ConnectionClosed(s) => [id |-> received + 1, kind |-> "closed"] # NoMsg BY <2>m DEF ConnectionClosed
    <3>2. QED BY <2>0, <3>1, ReceiverForms DEF RxStep, Holds, ConnectionClosed
  <2>12. NextRead(s) => New BY <2>0, ReceiverForms DEF RxStep, Holds, NextRead
  <2>13. ReadEnds(s) => New BY <2>0, ReceiverForms DEF RxStep, Holds, ReadEnds
  <2>14. New BY <1>1, <2>1, <2>2, <2>3, <2>4, <2>5, <2>6, <2>7, <2>8, <2>9, <2>10, <2>11, <2>12, <2>13 DEF Receiver
  <2>15. QED BY <2>14 DEF HoldInv, Holds
<1>2. ASSUME UserThread PROVE HoldInv'
  <2> DEFINE Line == (ui.pc \in {"measure", "append"} <=> ui.line # NoLine)
  <2>0. /\ ui \in UiRecords /\ Line /\ message \in Messages \cup {NoMsg} BY DEF ShapeInv, HoldInv
  <2>1. EnterChat => Line' BY <2>0, UserForms DEF UiStep, EnterChat, Ui
  <2>2. TakeMessage => Line' /\ rx' = rx
    <3>1. [msg |-> message, mention |-> isMention, whole |-> copied] # NoLine \/ message = NoMsg
      BY DEF NoLine
    <3>2. QED BY <2>0, <3>1, UserForms DEF UiStep, TakeMessage
  <2>3. NoMessage => Line' /\ rx' = rx BY <2>0, UserForms DEF UiStep, NoMessage, Ui
  <2>4. MeasureShown => Line' /\ rx' = rx BY <2>0, UserForms DEF UiStep, MeasureShown
  <2>5. AppendShown => Line' /\ rx' = rx BY <2>0, UserForms DEF UiStep, AppendShown
  <2>6. ClearMessage => Line' /\ rx' = rx BY <2>0, UserForms DEF UiStep, ClearMessage, Ui
  <2>7. ClearMention => Line' /\ rx' = rx BY <2>0, UserForms DEF UiStep, ClearMention, Ui
  <2>8. ShowCount => Line' /\ rx' = rx BY <2>0, UserForms DEF UiStep, ShowCount
  <2>9. AckCount => Line' /\ rx' = rx BY <2>0, UserForms DEF UiStep, AckCount, Ui
  <2>10. NoKey => Line' /\ rx' = rx BY <2>0, UserForms DEF UiStep, NoKey, Ui
  <2>11. View => Line' /\ rx' = rx BY <2>0, UserForms DEF UiStep, View
  <2>12. MentionsCommand => Line' /\ rx' = rx BY <2>0, UserForms DEF UiStep, MentionsCommand
  <2>13. OpenMentions => Line' /\ rx' = rx BY <2>0, UserForms DEF UiStep, OpenMentions, Ui
  <2>14. StopViewing => Line' /\ rx' = rx BY <2>0, UserForms DEF UiStep, StopViewing, Afterwards, UiRecords
  <2>15. ResetCount => Line' /\ rx' = rx BY <2>0, UserForms DEF UiStep, ResetCount, Ui
  <2>16. LeaveChat => Line' /\ rx' = rx BY <2>0, UserForms DEF UiStep, LeaveChat, Ui
  <2>17. Line' BY <1>2, <2>1, <2>2, <2>3, <2>4, <2>5, <2>6, <2>7, <2>8, <2>9, <2>10, <2>11, <2>12, <2>13, <2>14, <2>15, <2>16 DEF UserThread
  <2>18. CASE EnterChat
    <3>1. PICK s \in Sessions : RxStep(s, "recv", NoMsg, FALSE, 0) BY <2>18, UserForms
    <3>2. Holds(s)' BY <3>1 DEF RxStep, Holds
    <3>3. \A t \in Sessions \ {s} : rx'[t] = rx[t] BY <3>1 DEF RxStep
    <3>4. QED BY <2>17, <3>2, <3>3 DEF HoldInv, Holds
  <2>19. CASE rx' = rx BY <2>17, <2>19 DEF HoldInv, Holds
  <2>20. QED BY <1>2, <2>18, <2>19, <2>2, <2>3, <2>4, <2>5, <2>6, <2>7, <2>8, <2>9, <2>10, <2>11, <2>12, <2>13, <2>14, <2>15, <2>16 DEF UserThread
<1>3. QED BY <1>1, <1>2 DEF Next

\* As long as nothing to be highlighted has come, no flag is set.
LEMMA CauseStep ==
  ASSUME ShapeInv, HoldInv, CauseInv, Next
  PROVE  CauseInv'
<1>1. CASE flagged'
  BY <1>1 DEF CauseInv, Caused, HighlightHasCause
<1>2. CASE ~flagged'
  <2> DEFINE Quiet == /\ ~mentionCountChanged /\ ~isMention /\ ~ui.line.mention /\ ~flagged
             Fine(line) == line.mention => Addressed(line.msg) \/ Announced(line.msg)
             Calm(s) == /\ rx[s].mention => rx[s].msg.kind = "closed"
                        /\ ~Addressed(rx[s].msg)
                        /\ Announced(rx[s].msg) => rx[s].msg.kind = "closed"
             Kept == \A k \in DOMAIN scrollback : Fine(scrollback[k])
  <2>0. ~flagged
    <3>1. UserThread => flagged' = flagged
      BY DEF UserThread, EnterChat, TakeMessage, NoMessage, MeasureShown, AppendShown, ClearMessage,
             ClearMention, ShowCount, AckCount, NoKey, View, MentionsCommand, OpenMentions, StopViewing,
             ResetCount, LeaveChat, ghosts
    <3>2. ASSUME NEW s \in Sessions, Receiver(s) PROVE flagged => flagged'
      BY <3>2 DEF Receiver, Receive, CountMention, StoreMention, Queue, WaitForSlot, CopyFirst, CopyRest,
             SetMention, Measure, AppendLine, ConnectionClosed, NextRead, ReadEnds, ghosts
    <3>3. QED BY <1>2, <3>1, <3>2 DEF Next
  <2>1. Quiet /\ Kept /\ \A s \in Sessions : Calm(s)
    BY <2>0 DEF CauseInv, Caused, HighlightHasCause
  <2>2. ASSUME Quiet', Kept', \A s \in Sessions : Calm(s)' PROVE CauseInv'
    BY <2>2 DEF CauseInv, Caused, HighlightHasCause
  <2>3. ASSUME NEW n \in Nat, NEW line \in Lines, Fine(line), scrollback' = Appended(n, line)
        PROVE  Kept'
    <3>1. PICK m \in 0..Len(scrollback) :
            /\ Len(Appended(n, line)) = m + 1
            /\ \A k \in 1..m : Appended(n, line)[k] = scrollback[k]
            /\ Appended(n, line)[m + 1] = line
      BY <2>3, AppendedFacts DEF ShapeInv
    <3>2. DOMAIN (scrollback') = 1..(m + 1) /\ DOMAIN scrollback = 1..Len(scrollback) /\ Len(scrollback) \in Nat
      BY <2>3, <3>1, AppendedFacts DEF ShapeInv
    <3>3. SUFFICES ASSUME NEW k \in 1..(m + 1) PROVE Fine(scrollback'[k]) BY <3>2
    <3>4. CASE k = m + 1 BY <2>3, <3>1, <3>4
    <3>5. CASE k \in 1..m
      <4>1. scrollback'[k] = scrollback[k] /\ k \in DOMAIN scrollback BY <2>3, <3>1, <3>2, <3>5
      <4>2. QED BY <2>1, <4>1
    <3>6. QED BY <3>1, <3>4, <3>5
  <2>4. ASSUME NEW s \in Sessions, Receiver(s) PROVE CauseInv'
    <3>0. rx[s] \in RxRecords /\ Holds(s) /\ Calm(s) BY <2>1 DEF ShapeInv, HoldInv
    <3> DEFINE Good == Quiet' /\ Kept' /\ Calm(s)' /\ \A t \in Sessions \ {s} : rx'[t] = rx[t]
    <3> USE <1>2
    <3>1. Receive(s) => Good
      <4> SUFFICES ASSUME Receive(s) PROVE Good OBVIOUS
      <4>1. PICK k \in Kinds :
              /\ RxStep(s, IF Addressed([id |-> received + 1, kind |-> k]) THEN "count" ELSE "call",
                        [id |-> received + 1, kind |-> k], rx[s].mention, rx[s].n)
              /\ flagged' = (flagged \/ Addressed([id |-> received + 1, kind |-> k])
                                      \/ Announced([id |-> received + 1, kind |-> k]))
        BY ReceiverForms
      <4>2. ~rx[s].mention
        <5>1. rx[s].pc = "recv" /\ rx[s].msg = NoMsg BY <3>0 DEF Receive, Holds
        <5>2. QED BY <3>0, <5>1, NoMsgNotMessage
      <4>3. UNCHANGED <<mentionCountChanged, isMention, ui, scrollback>> BY DEF Receive, shared, counters
      <4>4. QED BY <2>1, <4>1, <4>2, <4>3 DEF RxStep
    <3>2. CountMention(s) => Good
      <4>1. CountMention(s) => UNCHANGED <<mentionCountChanged, isMention, ui, scrollback, flagged>>
        BY DEF CountMention, shared, counters, ghosts
      <4>2. QED BY <2>1, <3>0, <4>1, ReceiverForms DEF RxStep
    <3>3. StoreMention(s) => Good
      <4>1. StoreMention(s) => FALSE BY <3>0 DEF StoreMention, Rx, Holds
      <4>2. QED BY <4>1
    <3>4. Queue(s) => Good
      <4> SUFFICES ASSUME Queue(s) PROVE Good OBVIOUS
      <4>1. rx[s].msg.kind \in Kinds /\ rx[s].msg.kind # "closed"
        BY <3>0, MessageFields DEF Queue, Holds, RxRecords
      <4>2. ~MentionArgument(rx[s].msg.kind)
        <5>1. rx[s].msg.kind \notin {"direct", "renamed", "terminate"}
          BY <3>0, <4>1 DEF Addressed, Announced
        <5>2. rx[s].msg.kind \in {"notice", "room", "mention"}
          BY <3>0, <4>1, <5>1, InboxAssumption DEF AllKinds
        <5>3. CASE rx[s].msg.kind = "notice" BY <5>3 DEF MentionArgument
        <5>4. CASE rx[s].msg.kind \in {"room", "mention"} BY <2>1, <5>4 DEF MentionArgument
        <5>5. QED BY <5>2, <5>3, <5>4
      <4>3. UNCHANGED <<mentionCountChanged, isMention, ui, scrollback, flagged>>
        BY DEF Queue, shared, counters, ghosts
      <4>4. QED BY <2>1, <3>0, <4>1, <4>2, <4>3, ReceiverForms DEF RxStep
    <3>5. WaitForSlot(s) => Good
      <4>1. WaitForSlot(s) => UNCHANGED <<mentionCountChanged, isMention, ui, scrollback, flagged>>
        BY DEF WaitForSlot, shared, counters, ghosts
      <4>2. QED BY <2>1, <3>0, <4>1, ReceiverForms DEF RxStep
    <3>6. CopyFirst(s) => Good
      <4>1. CopyFirst(s) => UNCHANGED <<mentionCountChanged, isMention, ui, scrollback, flagged>>
        BY DEF CopyFirst, shared, counters, ghosts
      <4>2. QED BY <2>1, <3>0, <4>1, ReceiverForms DEF RxStep
    <3>7. CopyRest(s) => Good
      <4>1. CopyRest(s) => UNCHANGED <<mentionCountChanged, isMention, ui, scrollback, flagged>>
        BY DEF CopyRest, shared, counters, ghosts
      <4>2. QED BY <2>1, <3>0, <4>1, ReceiverForms DEF RxStep
    <3>8. SetMention(s) => Good
      <4> SUFFICES ASSUME SetMention(s) PROVE Good OBVIOUS
      <4>1. ~rx[s].mention BY <3>0 DEF SetMention, Rx, Holds
      <4>2. UNCHANGED <<mentionCountChanged, ui, scrollback, flagged>> /\ isMention' = rx[s].mention
        BY DEF SetMention, counters
      <4>3. QED BY <2>1, <3>0, <4>1, <4>2, ReceiverForms DEF RxStep
    <3>9. Measure(s) => Good
      <4>1. Measure(s) => UNCHANGED <<mentionCountChanged, isMention, ui, scrollback, flagged>>
        BY DEF Measure, shared, counters, ghosts
      <4>2. QED BY <2>1, <3>0, <4>1, ReceiverForms DEF RxStep
    <3>10. AppendLine(s) => Good
      <4> SUFFICES ASSUME AppendLine(s) PROVE Good OBVIOUS
      <4> DEFINE line == [msg |-> rx[s].msg, mention |-> rx[s].mention, whole |-> TRUE]
      <4>1. rx[s].msg \in Messages BY <3>0 DEF AppendLine, Rx, Holds, RxRecords
      <4>2. line \in Lines /\ rx[s].n \in Nat BY <3>0, <4>1 DEF Lines, RxRecords
      <4>3. Fine(line) BY <3>0 DEF Announced
      <4>4. scrollback' = Appended(rx[s].n, line) BY DEF AppendLine
      <4>5. Kept' BY <2>3, <4>2, <4>3, <4>4
      <4>6. UNCHANGED <<mentionCountChanged, isMention, ui, flagged>> BY DEF AppendLine, shared, counters
      <4>7. QED BY <2>1, <3>0, <4>5, <4>6, ReceiverForms DEF RxStep
    <3>11. ConnectionClosed(s) => Good
      <4> SUFFICES ASSUME ConnectionClosed(s) PROVE Good OBVIOUS
      <4> DEFINE msg == [id |-> received + 1, kind |-> "closed"]
      <4>1. RxStep(s, "measure", msg, TRUE, rx[s].n) BY ReceiverForms
      <4>2. msg.kind = "closed" /\ ~Addressed(msg) BY DEF Addressed
      <4> HIDE DEF msg
      <4>3. UNCHANGED <<mentionCountChanged, isMention, ui, scrollback, flagged>>
        BY DEF ConnectionClosed, shared, counters, ghosts
      <4>4. QED BY <2>1, <4>1, <4>2, <4>3 DEF RxStep
    <3>12. NextRead(s) => Good
      <4>1. NextRead(s) => UNCHANGED <<mentionCountChanged, isMention, ui, scrollback, flagged>>
        BY DEF NextRead, shared, counters, ghosts
      <4>2. ~Addressed(NoMsg) /\ ~Announced(NoMsg) BY NoMsgNotMessage DEF Addressed, Announced
      <4>3. QED BY <2>1, <4>1, <4>2, ReceiverForms DEF RxStep
    <3>13. ReadEnds(s) => Good
      <4>1. ReadEnds(s) => UNCHANGED <<mentionCountChanged, isMention, ui, scrollback, flagged>>
        BY DEF ReadEnds, shared, counters, ghosts
      <4>2. ~Addressed(NoMsg) /\ ~Announced(NoMsg) BY NoMsgNotMessage DEF Addressed, Announced
      <4>3. QED BY <2>1, <4>1, <4>2, ReceiverForms DEF RxStep
    <3>14. Good BY <2>4, <3>1, <3>2, <3>3, <3>4, <3>5, <3>6, <3>7, <3>8, <3>9, <3>10, <3>11, <3>12, <3>13 DEF Receiver
    <3>15. \A t \in Sessions : Calm(t)' BY <2>1, <3>14
    <3>16. QED BY <2>2, <3>14, <3>15
  <2>5. ASSUME UserThread PROVE CauseInv'
    <3> DEFINE Good == Quiet' /\ Kept' /\ \A s \in Sessions : Calm(s)'
    <3> USE <1>2, NoLineNotLine
    <3>1. EnterChat => Good
      <4> SUFFICES ASSUME EnterChat PROVE Good OBVIOUS
      <4>1. PICK s \in Sessions : RxStep(s, "recv", NoMsg, FALSE, 0) BY UserForms
      <4>2. ~Addressed(NoMsg) /\ ~Announced(NoMsg) BY NoMsgNotMessage DEF Addressed, Announced
      <4>3. \A t \in Sessions : Calm(t)' BY <2>1, <4>1, <4>2 DEF RxStep
      <4>4. UNCHANGED <<mentionCountChanged, isMention, scrollback, flagged>> BY DEF EnterChat, counters
      <4>5. QED BY <2>1, <4>3, <4>4, UserForms DEF UiStep
    <3>2. TakeMessage => Good
      <4> SUFFICES ASSUME TakeMessage PROVE Good OBVIOUS
      <4>1. ui'.line.mention = isMention BY UserForms DEF UiStep
      <4>2. UNCHANGED <<mentionCountChanged, isMention, rx, flagged, scrollback>> BY DEF TakeMessage, shared, counters, ghosts
      <4>3. QED BY <2>1, <4>1, <4>2
    <3>3. NoMessage => Good
      <4>1. NoMessage => UNCHANGED <<mentionCountChanged, isMention, rx, flagged, scrollback>>
        BY DEF NoMessage, shared, counters, ghosts
      <4>2. QED BY <2>1, <4>1, UserForms DEF UiStep
    <3>4. MeasureShown => Good
      <4>1. MeasureShown => UNCHANGED <<mentionCountChanged, isMention, rx, flagged, scrollback>>
        BY DEF MeasureShown, shared, counters, ghosts
      <4>2. QED BY <2>1, <4>1, UserForms DEF UiStep
    <3>5. AppendShown => Good
      <4> SUFFICES ASSUME AppendShown PROVE Good OBVIOUS
      <4>1. ui.line \in Lines /\ ui.n \in Nat BY DEF AppendShown, UiRecords, HoldInv, ShapeInv
      <4>2. scrollback' = Appended(ui.n, ui.line) BY DEF AppendShown
      <4>3. Kept' BY <2>1, <2>3, <4>1, <4>2
      <4>4. UNCHANGED <<mentionCountChanged, isMention, rx, flagged>> BY DEF AppendShown, shared, counters, ghosts
      <4>5. QED BY <2>1, <4>3, <4>4, UserForms DEF UiStep
    <3>6. ClearMessage => Good
      <4>1. ClearMessage => UNCHANGED <<mentionCountChanged, isMention, rx, flagged, scrollback>>
        BY DEF ClearMessage, shared, counters, ghosts
      <4>2. QED BY <2>1, <4>1, UserForms DEF UiStep
    <3>7. ClearMention => Good
      <4>1. ClearMention => ~isMention' /\ UNCHANGED <<mentionCountChanged, rx, flagged, scrollback>>
        BY DEF ClearMention, counters, ghosts
      <4>2. QED BY <2>1, <4>1, UserForms DEF UiStep
    <3>8. ShowCount => Good
      <4>1. ShowCount => UNCHANGED <<mentionCountChanged, isMention, rx, flagged, scrollback>>
        BY DEF ShowCount, shared, counters, ghosts
      <4>2. QED BY <2>1, <4>1, UserForms DEF UiStep
    <3>9. AckCount => Good
      <4>1. AckCount => ~mentionCountChanged' /\ UNCHANGED <<isMention, rx, flagged, scrollback>>
        BY DEF AckCount, shared, ghosts
      <4>2. QED BY <2>1, <4>1, UserForms DEF UiStep
    <3>10. NoKey => Good
      <4>1. NoKey => UNCHANGED <<mentionCountChanged, isMention, rx, flagged, scrollback>>
        BY DEF NoKey, shared, counters, ghosts
      <4>2. QED BY <2>1, <4>1, UserForms DEF UiStep
    <3>11. View => Good
      <4>1. View => UNCHANGED <<mentionCountChanged, isMention, rx, flagged, scrollback>>
        BY DEF View, shared, counters, ghosts
      <4>2. QED BY <2>1, <4>1, UserForms DEF UiStep
    <3>12. MentionsCommand => Good
      <4>1. MentionsCommand => UNCHANGED <<mentionCountChanged, isMention, rx, flagged, scrollback>>
        BY DEF MentionsCommand, shared, counters, ghosts
      <4>2. QED BY <2>1, <4>1, UserForms DEF UiStep
    <3>13. OpenMentions => Good
      <4>1. OpenMentions => UNCHANGED <<mentionCountChanged, isMention, rx, flagged, scrollback>>
        BY DEF OpenMentions, shared, counters, ghosts
      <4>2. QED BY <2>1, <4>1, UserForms DEF UiStep
    <3>14. StopViewing => Good
      <4>1. StopViewing => UNCHANGED <<mentionCountChanged, isMention, rx, flagged, scrollback>>
        BY DEF StopViewing, shared, counters, ghosts
      <4>2. QED BY <2>1, <4>1, UserForms DEF UiStep
    <3>15. ResetCount => Good
      <4>1. ResetCount => UNCHANGED <<mentionCountChanged, isMention, rx, flagged, scrollback>>
        BY DEF ResetCount, shared, counters, ghosts
      <4>2. QED BY <2>1, <4>1, UserForms DEF UiStep
    <3>16. LeaveChat => Good
      <4> SUFFICES ASSUME LeaveChat PROVE Good OBVIOUS
      <4>1. DOMAIN (scrollback') = {} BY DEF LeaveChat
      <4>2. UNCHANGED <<mentionCountChanged, isMention, rx, flagged>> BY DEF LeaveChat, bounds, ghosts
      <4>3. QED BY <2>1, <4>1, <4>2, UserForms DEF UiStep
    <3>17. QED BY <2>2, <2>5, <3>1, <3>2, <3>3, <3>4, <3>5, <3>6, <3>7, <3>8, <3>9, <3>10, <3>11, <3>12, <3>13, <3>14, <3>15, <3>16 DEF UserThread
  <2>6. QED BY <2>4, <2>5 DEF Next
<1>3. QED BY <1>1, <1>2

\* A message never is in a second place.
LEMMA PlaceStep ==
  ASSUME ShapeInv, HoldInv, PlaceInv, Next
  PROVE  PlaceInv'
<1> DEFINE Unshown == ui.pc # "clear" => message \notin ShownMessages
<1>0. KnownInv /\ (\A s \in Sessions : Own(s)) /\ Unshown /\ ui.line.msg \notin ShownMessages /\ ShownOnce
      /\ NoMsg \notin ShownMessages /\ received \in Nat
  BY ShownAreMessages DEF PlaceInv, ShapeInv
<1>1. ASSUME KnownInv', \A s \in Sessions : Own(s)', Unshown', (ui.line.msg \notin ShownMessages)', ShownOnce'
      PROVE  PlaceInv'
  BY <1>1 DEF PlaceInv
<1>2. ASSUME UNCHANGED scrollback PROVE ShownMessages' = ShownMessages /\ (ShownOnce => ShownOnce')
  BY <1>2 DEF ShownMessages, ShownOnce
<1>3. ASSUME NEW s \in Sessions, Receiver(s) PROVE PlaceInv'
  <2>0. /\ rx[s] \in RxRecords /\ Holds(s) /\ Own(s)
        /\ Carries(s) => rx[s].msg \in Messages
        /\ rx[s].msg.id <= received
        /\ \A t \in Sessions : Own(t) /\ (Carries(t) => rx[t].msg # NoMsg)
    BY <1>0 DEF ShapeInv, HoldInv, Holds, RxRecords, Carries, KnownInv
  <2> DEFINE Good == PlaceInv'
  <2>20. ASSUME NEW q, NEW b, NEW n, RxStep(s, q, rx[s].msg, b, n), q \in {"rest", "flag", "next"} \/ Carries(s),
                UNCHANGED <<ui, message, received, scrollback>>
         PROVE  Good
    <3>1. Own(s)' BY <1>2, <2>0, <2>20 DEF Own, Carries, RxStep
    <3>2. \A t \in Sessions \ {s} : Own(t)' BY <1>2, <2>0, <2>20 DEF Own, Carries, RxStep
    <3>3. KnownInv' BY <1>0, <1>2, <2>20 DEF KnownInv, RxStep
    <3>4. QED BY <1>0, <1>1, <1>2, <2>20, <3>1, <3>2, <3>3
  <2>1. Receive(s) => Good
    <3> SUFFICES ASSUME Receive(s) PROVE Good OBVIOUS
    <3>1. PICK k \in Kinds, p \in {"count", "call"} :
            RxStep(s, p, [id |-> received + 1, kind |-> k], rx[s].mention, rx[s].n)
      BY ReceiverForms
    <3> DEFINE msg == [id |-> received + 1, kind |-> k]
    <3>2. RxStep(s, p, msg, rx[s].mention, rx[s].n) /\ msg.id = received + 1 BY <3>1
    <3> HIDE DEF msg
    <3>3. UNCHANGED <<message, ui, scrollback>> /\ received' = received + 1 BY DEF Receive, shared
    <3>4. msg # message /\ msg # ui.line.msg /\ msg \notin ShownMessages /\ \A t \in Sessions : rx[t].msg # msg
      BY <1>0, <3>2 DEF KnownInv
    <3>5. \A t \in Sessions \ {s} : rx'[t] = rx[t] /\ rx'[s].msg = msg BY <3>2 DEF RxStep
    <3>5a. rx'[s].msg = msg BY <3>2 DEF RxStep
    <3>6. Own(s)' BY <1>2, <3>3, <3>4, <3>5, <3>5a DEF Own
    <3>7. \A t \in Sessions \ {s} : Own(t)' BY <1>2, <2>0, <3>3, <3>4, <3>5, <3>5a DEF Own, Carries
    <3>9. KnownInv'
      <4>1. /\ message.id \in Nat /\ ui.line.msg.id \in Nat
            /\ \A t \in Sessions : rx[t].msg.id \in Nat
            /\ \A m \in ShownMessages : m.id \in Nat
        BY IdTypes
      <4>2. QED BY <1>0, <1>2, <3>2, <3>3, <3>5, <3>5a, <4>1 DEF KnownInv
    <3>10. QED BY <1>0, <1>1, <1>2, <3>3, <3>6, <3>7, <3>9
  <2>2. CountMention(s) => Good
    <3> SUFFICES ASSUME CountMention(s) PROVE Good OBVIOUS
    <3>1. PICK p, b, n : RxStep(s, p, rx[s].msg, b, n) /\ (p \in {"rest", "flag", "next"} \/ Carries(s))
      BY ReceiverForms DEF Carries, CountMention, Rx, Holds, RxRecords
    <3>2. UNCHANGED <<ui, message, received, scrollback>> BY DEF CountMention, bounds, shared
    <3>3. QED BY <2>20, <3>1, <3>2
  <2>3. StoreMention(s) => Good
    <3> SUFFICES ASSUME StoreMention(s) PROVE Good OBVIOUS
    <3>1. PICK p, b, n : RxStep(s, p, rx[s].msg, b, n) /\ (p \in {"rest", "flag", "next"} \/ Carries(s))
      BY ReceiverForms DEF Carries, StoreMention, Rx, Holds, RxRecords
    <3>2. UNCHANGED <<ui, message, received, scrollback>> BY DEF StoreMention, bounds, shared
    <3>3. QED BY <2>20, <3>1, <3>2
  <2>4. Queue(s) => Good
    <3> SUFFICES ASSUME Queue(s) PROVE Good OBVIOUS
    <3>1. PICK p, b, n : RxStep(s, p, rx[s].msg, b, n) /\ (p \in {"rest", "flag", "next"} \/ Carries(s))
      BY <2>0, MessageFields, ReceiverForms DEF Carries, Queue, Rx, Holds, RxRecords
    <3>2. UNCHANGED <<ui, message, received, scrollback>> BY DEF Queue, bounds, shared
    <3>3. QED BY <2>20, <3>1, <3>2
  <2>5. WaitForSlot(s) => Good
    <3> SUFFICES ASSUME WaitForSlot(s) PROVE Good OBVIOUS
    <3>1. PICK p, b, n : RxStep(s, p, rx[s].msg, b, n) /\ (p \in {"rest", "flag", "next"} \/ Carries(s))
      BY ReceiverForms DEF Carries, WaitForSlot, Rx, Holds, RxRecords
    <3>2. UNCHANGED <<ui, message, received, scrollback>> BY DEF WaitForSlot, bounds, shared
    <3>3. QED BY <2>20, <3>1, <3>2
  <2>6. CopyFirst(s) => Good
    <3> SUFFICES ASSUME CopyFirst(s) PROVE Good OBVIOUS
    <3>1. RxStep(s, "rest", rx[s].msg, rx[s].mention, rx[s].n) BY ReceiverForms
    <3>2. UNCHANGED <<ui, scrollback, received>> /\ message' = rx[s].msg /\ Carries(s)
      BY DEF CopyFirst, Rx, Carries, bounds
    <3>3. Own(s)' BY <3>1 DEF Own, Carries, RxStep
    <3>4. \A t \in Sessions \ {s} : Own(t)' BY <1>2, <2>0, <3>1, <3>2 DEF Own, Carries, RxStep
    <3>5. KnownInv' BY <1>0, <1>2, <3>1, <3>2 DEF KnownInv, RxStep
    <3>6. message' \notin ShownMessages' BY <1>2, <2>0, <3>2 DEF Own
    <3>7. QED BY <1>0, <1>1, <1>2, <3>2, <3>3, <3>4, <3>5, <3>6
  <2>7. CopyRest(s) => Good
    <3> SUFFICES ASSUME CopyRest(s) PROVE Good OBVIOUS
    <3>1. PICK p, b, n : RxStep(s, p, rx[s].msg, b, n) /\ (p \in {"rest", "flag", "next"} \/ Carries(s))
      BY ReceiverForms DEF Carries, CopyRest, Rx, Holds, RxRecords
    <3>2. UNCHANGED <<ui, message, received, scrollback>> BY DEF CopyRest, bounds, shared
    <3>3. QED BY <2>20, <3>1, <3>2
  <2>8. SetMention(s) => Good
    <3> SUFFICES ASSUME SetMention(s) PROVE Good OBVIOUS
    <3>1. PICK p, b, n : RxStep(s, p, rx[s].msg, b, n) /\ (p \in {"rest", "flag", "next"} \/ Carries(s))
      BY ReceiverForms DEF Carries, SetMention, Rx, Holds, RxRecords
    <3>2. UNCHANGED <<ui, message, received, scrollback>> BY DEF SetMention, bounds, shared
    <3>3. QED BY <2>20, <3>1, <3>2
  <2>9. Measure(s) => Good
    <3> SUFFICES ASSUME Measure(s) PROVE Good OBVIOUS
    <3>1. PICK p, b, n : RxStep(s, p, rx[s].msg, b, n) /\ (p \in {"rest", "flag", "next"} \/ Carries(s))
      BY ReceiverForms DEF Carries, Measure, Rx, Holds, RxRecords
    <3>2. UNCHANGED <<ui, message, received, scrollback>> BY DEF Measure, bounds, shared
    <3>3. QED BY <2>20, <3>1, <3>2
  <2>10. AppendLine(s) => Good
    <3> SUFFICES ASSUME AppendLine(s) PROVE Good OBVIOUS
    <3> DEFINE line == [msg |-> rx[s].msg, mention |-> rx[s].mention, whole |-> TRUE]
    <3>1. RxStep(s, "next", rx[s].msg, rx[s].mention, rx[s].n) BY ReceiverForms
    <3>2. UNCHANGED <<ui, message, received>> /\ Carries(s)
      BY DEF AppendLine, Rx, Carries, bounds, shared
    <3>3. scrollback' = Appended(rx[s].n, line) BY DEF AppendLine
    <3>4. line \in Lines /\ rx[s].n \in Nat /\ line.msg = rx[s].msg BY <2>0, <3>2 DEF Lines, RxRecords
    <3> HIDE DEF line
    <3>5. ShownMessages' \subseteq ShownMessages \cup {rx[s].msg} BY <3>3, <3>4, AppendedMessages
    <3>6. ShownOnce'
      <4>1. rx[s].msg \notin ShownMessages BY <2>0, <3>2 DEF Own
      <4>2. QED BY <1>0, <3>3, <3>4, <4>1, AppendedMessages
    <3>7. Own(s)' BY <3>1 DEF Own, Carries, RxStep
    <3>8. \A t \in Sessions \ {s} : Own(t)' BY <2>0, <3>1, <3>2, <3>5 DEF Own, Carries, RxStep
    <3>9. KnownInv' BY <1>0, <2>0, <3>1, <3>2, <3>5 DEF KnownInv, RxStep
    <3>10. Unshown' /\ (ui.line.msg \notin ShownMessages)' BY <1>0, <2>0, <3>2, <3>5 DEF Own
    <3>11. QED BY <1>1, <3>6, <3>7, <3>8, <3>9, <3>10
  <2>11. ConnectionClosed(s) => Good
    <3> SUFFICES ASSUME ConnectionClosed(s) PROVE Good OBVIOUS
    <3> DEFINE msg == [id |-> received + 1, kind |-> "closed"]
    <3>2. RxStep(s, "measure", msg, TRUE, rx[s].n) /\ msg.id = received + 1 BY ReceiverForms
    <3> HIDE DEF msg
    <3>3. UNCHANGED <<message, ui, scrollback>> /\ received' = received + 1 BY DEF ConnectionClosed, shared
    <3>4. msg # message /\ msg # ui.line.msg /\ msg \notin ShownMessages /\ \A t \in Sessions : rx[t].msg # msg
      BY <1>0, <3>2 DEF KnownInv
    <3>5. \A t \in Sessions \ {s} : rx'[t] = rx[t] /\ rx'[s].msg = msg BY <3>2 DEF RxStep
    <3>5a. rx'[s].msg = msg BY <3>2 DEF RxStep
    <3>6. Own(s)' BY <1>2, <3>3, <3>4, <3>5, <3>5a DEF Own
    <3>7. \A t \in Sessions \ {s} : Own(t)' BY <1>2, <2>0, <3>3, <3>4, <3>5, <3>5a DEF Own, Carries
    <3>9. KnownInv'
      <4>1. /\ message.id \in Nat /\ ui.line.msg.id \in Nat
            /\ \A t \in Sessions : rx[t].msg.id \in Nat
            /\ \A m \in ShownMessages : m.id \in Nat
        BY IdTypes
      <4>2. QED BY <1>0, <1>2, <3>2, <3>3, <3>5, <3>5a, <4>1 DEF KnownInv
    <3>10. QED BY <1>0, <1>1, <1>2, <3>3, <3>6, <3>7, <3>9
  <2>12. NextRead(s) => Good
    <3> SUFFICES ASSUME NextRead(s) PROVE Good OBVIOUS
    <3>1. PICK p \in {"recv", "off"} : RxStep(s, p, NoMsg, FALSE, 0) BY ReceiverForms
    <3>2. UNCHANGED <<ui, message, received, scrollback>> BY DEF NextRead, bounds, shared
    <3>3. Own(s)' BY <3>1 DEF Own, Carries, RxStep
    <3>4. \A t \in Sessions \ {s} : Own(t)' BY <1>2, <2>0, <3>1, <3>2 DEF Own, Carries, RxStep
    <3>5. KnownInv' BY <1>0, <1>2, <3>1, <3>2, NoMsgNotMessage DEF KnownInv, RxStep
    <3>6. QED BY <1>0, <1>1, <1>2, <3>2, <3>3, <3>4, <3>5
  <2>13. ReadEnds(s) => Good
    <3> SUFFICES ASSUME ReadEnds(s) PROVE Good OBVIOUS
    <3>1. PICK p \in {"recv", "off"} : RxStep(s, p, NoMsg, FALSE, 0) BY ReceiverForms
    <3>2. UNCHANGED <<ui, message, received, scrollback>> BY DEF ReadEnds, bounds, shared
    <3>3. Own(s)' BY <3>1 DEF Own, Carries, RxStep
    <3>4. \A t \in Sessions \ {s} : Own(t)' BY <1>2, <2>0, <3>1, <3>2 DEF Own, Carries, RxStep
    <3>5. KnownInv' BY <1>0, <1>2, <3>1, <3>2, NoMsgNotMessage DEF KnownInv, RxStep
    <3>6. QED BY <1>0, <1>1, <1>2, <3>2, <3>3, <3>4, <3>5
  <2>14. QED BY <1>3, <2>1, <2>2, <2>3, <2>4, <2>5, <2>6, <2>7, <2>8, <2>9, <2>10, <2>11, <2>12, <2>13 DEF Receiver
<1>4. ASSUME UserThread PROVE PlaceInv'
  <2>0. \A t \in Sessions : Own(t) /\ (Carries(t) => rx[t].msg # NoMsg)
    BY <1>0 DEF HoldInv, Holds, Carries
  <2> USE NoMsgNotMessage, NoLineNotLine
  <2>20. ASSUME UNCHANGED <<message, received, scrollback, rx>>, ui'.line = ui.line, ui.pc # "clear"
         PROVE  PlaceInv'
    <3>1. \A t \in Sessions : Own(t)' BY <1>2, <2>0, <2>20 DEF Own, Carries
    <3>2. KnownInv' BY <1>0, <1>2, <2>20 DEF KnownInv
    <3>3. QED BY <1>0, <1>1, <1>2, <2>20, <3>1, <3>2
  <2>1. EnterChat => PlaceInv'
    <3> SUFFICES ASSUME EnterChat PROVE PlaceInv' OBVIOUS
    <3>1. PICK s \in Sessions : RxStep(s, "recv", NoMsg, FALSE, 0) BY UserForms
    <3>2. UNCHANGED <<message, received, scrollback>> /\ ui.pc = "menu" BY DEF EnterChat, Ui
    <3>2a. ui'.line = ui.line BY UserForms DEF UiStep
    <3>3. Own(s)' BY <3>1 DEF Own, Carries, RxStep
    <3>4. \A t \in Sessions \ {s} : Own(t)' BY <1>2, <2>0, <3>1, <3>2, <3>2a DEF Own, Carries, RxStep
    <3>5. KnownInv' BY <1>0, <1>2, <3>1, <3>2, <3>2a DEF KnownInv, RxStep
    <3>6. QED BY <1>0, <1>1, <1>2, <3>2, <3>2a, <3>3, <3>4, <3>5
  <2>2. TakeMessage => PlaceInv'
    <3> SUFFICES ASSUME TakeMessage PROVE PlaceInv' OBVIOUS
    <3>1. ui'.line.msg = message /\ ui'.pc = "measure" BY UserForms DEF UiStep
    <3>2. UNCHANGED <<message, received, scrollback, rx>> /\ ui.pc = "top" BY DEF TakeMessage, shared, bounds
    <3>3. \A t \in Sessions : Own(t)' BY <1>2, <2>0, <3>1, <3>2 DEF Own, Carries
    <3>4. KnownInv' BY <1>0, <1>2, <3>1, <3>2 DEF KnownInv
    <3>5. QED BY <1>0, <1>1, <1>2, <3>1, <3>2, <3>3, <3>4
  <2>3. NoMessage => PlaceInv'
    <3> SUFFICES ASSUME NoMessage PROVE PlaceInv' OBVIOUS
    <3>1. ui'.line = ui.line BY UserForms DEF UiStep
    <3>2. UNCHANGED <<message, received, scrollback, rx>> /\ ui.pc # "clear" BY DEF NoMessage, Ui, shared, bounds
    <3>3. QED BY <2>20, <3>1, <3>2
  <2>4. MeasureShown => PlaceInv'
    <3> SUFFICES ASSUME MeasureShown PROVE PlaceInv' OBVIOUS
    <3>1. ui'.line = ui.line BY UserForms DEF UiStep
    <3>2. UNCHANGED <<message, received, scrollback, rx>> /\ ui.pc # "clear" BY DEF MeasureShown, Ui, shared, bounds
    <3>3. QED BY <2>20, <3>1, <3>2
  <2>5. AppendShown => PlaceInv'
    <3> SUFFICES ASSUME AppendShown PROVE PlaceInv' OBVIOUS
    <3>1. ui.line \in Lines /\ ui.n \in Nat BY DEF AppendShown, UiRecords, HoldInv, ShapeInv
    <3>2. scrollback' = Appended(ui.n, ui.line) /\ UNCHANGED <<message, received, rx>>
      BY DEF AppendShown, shared, bounds
    <3>3. ShownMessages' \subseteq ShownMessages \cup {ui.line.msg} BY <3>1, <3>2, AppendedMessages
    <3>4. ShownOnce' BY <1>0, <3>1, <3>2, AppendedMessages
    <3>5. ui'.line = NoLine /\ ui'.pc = "clear" BY UserForms DEF UiStep
    <3>6. ui.line.msg \in Messages BY <3>1 DEF Lines
    <3>7. ui'.line.msg \notin ShownMessages' BY <1>0, <3>3, <3>5, <3>6
    <3>8. \A t \in Sessions : Own(t)' BY <2>0, <3>2, <3>3, <3>5 DEF Own, Carries
    <3>9. KnownInv' BY <1>0, <3>2, <3>3, <3>5 DEF KnownInv
    <3>10. QED BY <1>1, <3>4, <3>5, <3>7, <3>8, <3>9
  <2>6. ClearMessage => PlaceInv'
    <3> SUFFICES ASSUME ClearMessage PROVE PlaceInv' OBVIOUS
    <3>1. ui'.line = ui.line BY UserForms DEF UiStep
    <3>2. UNCHANGED <<received, scrollback, rx>> /\ message' = NoMsg BY DEF ClearMessage, bounds
    <3>3. \A t \in Sessions : Own(t)' BY <1>2, <2>0, <3>1, <3>2 DEF Own, Carries
    <3>4. KnownInv' BY <1>0, <1>2, <3>1, <3>2 DEF KnownInv
    <3>5. QED BY <1>0, <1>1, <1>2, <3>1, <3>2, <3>3, <3>4
  <2>7. ClearMention => PlaceInv'
    <3> SUFFICES ASSUME ClearMention PROVE PlaceInv' OBVIOUS
    <3>1. ui'.line = ui.line BY UserForms DEF UiStep
    <3>2. UNCHANGED <<message, received, scrollback, rx>> /\ ui.pc # "clear" BY DEF ClearMention, Ui, shared, bounds
    <3>3. QED BY <2>20, <3>1, <3>2
  <2>8. ShowCount => PlaceInv'
    <3> SUFFICES ASSUME ShowCount PROVE PlaceInv' OBVIOUS
    <3>1. ui'.line = ui.line BY UserForms DEF UiStep
    <3>2. UNCHANGED <<message, received, scrollback, rx>> /\ ui.pc # "clear" BY DEF ShowCount, Ui, shared, bounds
    <3>3. QED BY <2>20, <3>1, <3>2
  <2>9. AckCount => PlaceInv'
    <3> SUFFICES ASSUME AckCount PROVE PlaceInv' OBVIOUS
    <3>1. ui'.line = ui.line BY UserForms DEF UiStep
    <3>2. UNCHANGED <<message, received, scrollback, rx>> /\ ui.pc # "clear" BY DEF AckCount, Ui, shared, bounds
    <3>3. QED BY <2>20, <3>1, <3>2
  <2>10. NoKey => PlaceInv'
    <3> SUFFICES ASSUME NoKey PROVE PlaceInv' OBVIOUS
    <3>1. ui'.line = ui.line BY UserForms DEF UiStep
    <3>2. UNCHANGED <<message, received, scrollback, rx>> /\ ui.pc # "clear" BY DEF NoKey, Ui, shared, bounds
    <3>3. QED BY <2>20, <3>1, <3>2
  <2>11. View => PlaceInv'
    <3> SUFFICES ASSUME View PROVE PlaceInv' OBVIOUS
    <3>1. ui'.line = ui.line BY UserForms DEF UiStep
    <3>2. UNCHANGED <<message, received, scrollback, rx>> /\ ui.pc # "clear" BY DEF View, Ui, shared, bounds
    <3>3. QED BY <2>20, <3>1, <3>2
  <2>12. MentionsCommand => PlaceInv'
    <3> SUFFICES ASSUME MentionsCommand PROVE PlaceInv' OBVIOUS
    <3>1. ui'.line = ui.line BY UserForms DEF UiStep
    <3>2. UNCHANGED <<message, received, scrollback, rx>> /\ ui.pc # "clear" BY DEF MentionsCommand, Ui, shared, bounds
    <3>3. QED BY <2>20, <3>1, <3>2
  <2>13. OpenMentions => PlaceInv'
    <3> SUFFICES ASSUME OpenMentions PROVE PlaceInv' OBVIOUS
    <3>1. ui'.line = ui.line BY UserForms DEF UiStep
    <3>2. UNCHANGED <<message, received, scrollback, rx>> /\ ui.pc # "clear" BY DEF OpenMentions, Ui, shared, bounds
    <3>3. QED BY <2>20, <3>1, <3>2
  <2>14. StopViewing => PlaceInv'
    <3> SUFFICES ASSUME StopViewing PROVE PlaceInv' OBVIOUS
    <3>1. ui'.line = ui.line BY UserForms DEF UiStep
    <3>2. UNCHANGED <<message, received, scrollback, rx>> /\ ui.pc # "clear" BY DEF StopViewing, Ui, shared, bounds
    <3>3. QED BY <2>20, <3>1, <3>2
  <2>15. ResetCount => PlaceInv'
    <3> SUFFICES ASSUME ResetCount PROVE PlaceInv' OBVIOUS
    <3>1. ui'.line = ui.line BY UserForms DEF UiStep
    <3>2. UNCHANGED <<message, received, scrollback, rx>> /\ ui.pc # "clear" BY DEF ResetCount, Ui, shared, bounds
    <3>3. QED BY <2>20, <3>1, <3>2
  <2>16. LeaveChat => PlaceInv'
    <3> SUFFICES ASSUME LeaveChat PROVE PlaceInv' OBVIOUS
    <3>1. ui'.line = ui.line BY UserForms DEF UiStep
    <3>2. UNCHANGED <<received, message, rx>> BY DEF LeaveChat, bounds
    <3>3. DOMAIN (scrollback') = {} BY DEF LeaveChat
    <3>4. ShownMessages' = {} /\ ShownOnce' BY <3>3 DEF ShownMessages, ShownOnce
    <3>5. \A t \in Sessions : Own(t)' BY <2>0, <3>1, <3>2, <3>4 DEF Own, Carries
    <3>6. KnownInv' BY <1>0, <3>1, <3>2, <3>4 DEF KnownInv
    <3>7. QED BY <1>1, <3>4, <3>5, <3>6
  <2>17. QED BY <1>4, <2>1, <2>2, <2>3, <2>4, <2>5, <2>6, <2>7, <2>8, <2>9, <2>10, <2>11, <2>12, <2>13, <2>14, <2>15, <2>16 DEF UserThread
<1>5. QED BY <1>3, <1>4 DEF Next

\* Without a view nobody pauses chat.
LEMMA AloneStep ==
  ASSUME ShapeInv, HoldInv, AloneInv, Next
  PROVE  AloneInv'
<1> DEFINE Paused(s) == views = 0 => (rx[s].pc \in {"measure", "append"} => rx[s].msg.kind = "closed")
           Resting == views = 0 => ~paused /\ ui.pc \notin {"open", "viewing"}
           Only(s) == ~crowded => (rx[s].pc # "off" => s = session)
<1>0. Resting /\ \A s \in Sessions : Paused(s) /\ Only(s)
  BY DEF AloneInv
<1>1. ASSUME Resting', \A s \in Sessions : Paused(s)' /\ Only(s)' PROVE AloneInv'
  BY <1>1 DEF AloneInv
<1>2. ASSUME NEW s \in Sessions, Receiver(s) PROVE AloneInv'
  <2>0. Paused(s) /\ Only(s) /\ rx[s] \in RxRecords /\ Holds(s) BY <1>0 DEF ShapeInv, HoldInv
  <2> DEFINE Good == /\ UNCHANGED <<paused, ui, views, crowded, session>> /\ Paused(s)' /\ Only(s)'
                     /\ \A t \in Sessions \ {s} : rx'[t] = rx[t]
  <2>1. Receive(s) => Good
    <3> SUFFICES ASSUME Receive(s) PROVE Good OBVIOUS
    <3>1. UNCHANGED <<paused, ui, views, crowded, session>> BY DEF Receive, shared, bounds, ghosts
    <3>2. rx[s].pc # "off" BY DEF Receive, Rx
    <3>3. PICK p, m, b, n : p \in {"count", "call"} /\ RxStep(s, p, m, b, n) BY ReceiveForm
    <3>4. QED BY <2>0, <3>1, <3>2, <3>3 DEF RxStep
  <2>2. CountMention(s) => Good
    <3> SUFFICES ASSUME CountMention(s) PROVE Good OBVIOUS
    <3>1. UNCHANGED <<paused, ui, views, crowded, session>> BY DEF CountMention, shared, bounds, ghosts
    <3>2. rx[s].pc # "off" BY DEF CountMention, Rx
    <3>3. QED BY <2>0, <3>1, <3>2, ReceiverForms DEF RxStep
  <2>3. StoreMention(s) => Good
    <3> SUFFICES ASSUME StoreMention(s) PROVE Good OBVIOUS
    <3>1. UNCHANGED <<paused, ui, views, crowded, session>> BY DEF StoreMention, shared, bounds, ghosts
    <3>2. rx[s].pc # "off" BY DEF StoreMention, Rx
    <3>3. QED BY <2>0, <3>1, <3>2, ReceiverForms DEF RxStep
  <2>4. Queue(s) => Good
    <3> SUFFICES ASSUME Queue(s) PROVE Good OBVIOUS
    <3>1. UNCHANGED <<paused, ui, views, crowded, session>> BY DEF Queue, shared, bounds, ghosts
    <3>2. rx[s].pc # "off" BY DEF Queue, Rx
    <3>3. rx[s].msg.kind \in Kinds BY <2>0, MessageFields DEF Queue, Holds, RxRecords
    <3>4. QED BY <1>0, <2>0, <3>1, <3>2, <3>3, ReceiverForms DEF RxStep
  <2>5. WaitForSlot(s) => Good
    <3> SUFFICES ASSUME WaitForSlot(s) PROVE Good OBVIOUS
    <3>1. UNCHANGED <<paused, ui, views, crowded, session>> BY DEF WaitForSlot, shared, bounds, ghosts
    <3>2. rx[s].pc # "off" BY DEF WaitForSlot, Rx
    <3>3. QED BY <2>0, <3>1, <3>2, ReceiverForms DEF RxStep
  <2>6. CopyFirst(s) => Good
    <3> SUFFICES ASSUME CopyFirst(s) PROVE Good OBVIOUS
    <3>1. UNCHANGED <<paused, ui, views, crowded, session>> BY DEF CopyFirst, shared, bounds, ghosts
    <3>2. rx[s].pc # "off" BY DEF CopyFirst, Rx
    <3>3. QED BY <2>0, <3>1, <3>2, ReceiverForms DEF RxStep
  <2>7. CopyRest(s) => Good
    <3> SUFFICES ASSUME CopyRest(s) PROVE Good OBVIOUS
    <3>1. UNCHANGED <<paused, ui, views, crowded, session>> BY DEF CopyRest, shared, bounds, ghosts
    <3>2. rx[s].pc # "off" BY DEF CopyRest, Rx
    <3>3. QED BY <2>0, <3>1, <3>2, ReceiverForms DEF RxStep
  <2>8. SetMention(s) => Good
    <3> SUFFICES ASSUME SetMention(s) PROVE Good OBVIOUS
    <3>1. UNCHANGED <<paused, ui, views, crowded, session>> BY DEF SetMention, shared, bounds, ghosts
    <3>2. rx[s].pc # "off" BY DEF SetMention, Rx
    <3>3. QED BY <2>0, <3>1, <3>2, ReceiverForms DEF RxStep
  <2>9. Measure(s) => Good
    <3> SUFFICES ASSUME Measure(s) PROVE Good OBVIOUS
    <3>1. UNCHANGED <<paused, ui, views, crowded, session>> BY DEF Measure, shared, bounds, ghosts
    <3>2. rx[s].pc # "off" BY DEF Measure, Rx
    <3>3. rx[s].pc = "measure" BY DEF Measure
    <3>4. QED BY <2>0, <3>1, <3>3, ReceiverForms DEF RxStep
  <2>10. AppendLine(s) => Good
    <3> SUFFICES ASSUME AppendLine(s) PROVE Good OBVIOUS
    <3>1. UNCHANGED <<paused, ui, views, crowded, session>> BY DEF AppendLine, shared, bounds, ghosts
    <3>2. rx[s].pc # "off" BY DEF AppendLine, Rx
    <3>3. QED BY <2>0, <3>1, <3>2, ReceiverForms DEF RxStep
  <2>11. ConnectionClosed(s) => Good
    <3> SUFFICES ASSUME ConnectionClosed(s) PROVE Good OBVIOUS
    <3>1. UNCHANGED <<paused, ui, views, crowded, session>> BY DEF ConnectionClosed, shared, bounds, ghosts
    <3>2. rx[s].pc # "off" BY DEF ConnectionClosed, Rx
    <3> DEFINE msg == [id |-> received + 1, kind |-> "closed"]
    <3>3. RxStep(s, "measure", msg, TRUE, rx[s].n) /\ msg.kind = "closed" BY ReceiverForms
    <3> HIDE DEF msg
    <3>4. QED BY <2>0, <3>1, <3>2, <3>3 DEF RxStep
  <2>12. NextRead(s) => Good
    <3> SUFFICES ASSUME NextRead(s) PROVE Good OBVIOUS
    <3>1. UNCHANGED <<paused, ui, views, crowded, session>> BY DEF NextRead, shared, bounds, ghosts
    <3>2. rx[s].pc # "off" BY DEF NextRead, Rx
    <3>3. QED BY <2>0, <3>1, <3>2, ReceiverForms DEF RxStep
  <2>13. ReadEnds(s) => Good
    <3> SUFFICES ASSUME ReadEnds(s) PROVE Good OBVIOUS
    <3>1. UNCHANGED <<paused, ui, views, crowded, session>> BY DEF ReadEnds, shared, bounds, ghosts
    <3>2. rx[s].pc # "off" BY DEF ReadEnds, Rx
    <3>3. QED BY <2>0, <3>1, <3>2, ReceiverForms DEF RxStep
  <2>14. Good BY <1>2, <2>1, <2>2, <2>3, <2>4, <2>5, <2>6, <2>7, <2>8, <2>9, <2>10, <2>11, <2>12, <2>13 DEF Receiver
  <2>15. QED BY <1>0, <1>1, <2>14
<1>3. ASSUME UserThread PROVE AloneInv'
  <2>0. views \in Nat BY InboxAssumption DEF ShapeInv
  <2>1. EnterChat => AloneInv'
    <3> SUFFICES ASSUME EnterChat PROVE AloneInv' OBVIOUS
    <3>1. PICK s \in Sessions : s = session + 1 /\ RxStep(s, "recv", NoMsg, FALSE, 0) BY UserForms
    <3>2. /\ UNCHANGED <<paused, views>> /\ session' = s
          /\ crowded' = (\E t \in Sessions : rx[t].pc # "off")
      BY <3>1 DEF EnterChat
    <3>3. Resting' BY <1>0, <3>2, UserForms DEF UiStep
    <3>4. \A t \in Sessions : Paused(t)' BY <1>0, <3>1, <3>2 DEF RxStep
    <3>5. \A t \in Sessions : Only(t)' BY <3>1, <3>2 DEF RxStep
    <3>6. QED BY <1>1, <3>3, <3>4, <3>5
  <2>2. TakeMessage => AloneInv'
    <3> SUFFICES ASSUME TakeMessage PROVE AloneInv' OBVIOUS
    <3>1. UNCHANGED <<rx, session, crowded, views, paused>> BY DEF TakeMessage, shared, bounds, ghosts
    <3>2. ui'.pc \notin {"open", "viewing"} BY UserForms DEF UiStep
    <3>3. QED BY <1>0, <1>1, <3>1, <3>2
  <2>3. NoMessage => AloneInv'
    <3> SUFFICES ASSUME NoMessage PROVE AloneInv' OBVIOUS
    <3>1. UNCHANGED <<rx, session, crowded, views, paused>> BY DEF NoMessage, shared, bounds, ghosts
    <3>2. ui'.pc \notin {"open", "viewing"} BY UserForms DEF UiStep
    <3>3. QED BY <1>0, <1>1, <3>1, <3>2
  <2>4. MeasureShown => AloneInv'
    <3> SUFFICES ASSUME MeasureShown PROVE AloneInv' OBVIOUS
    <3>1. UNCHANGED <<rx, session, crowded, views, paused>> BY DEF MeasureShown, shared, bounds, ghosts
    <3>2. ui'.pc \notin {"open", "viewing"} BY UserForms DEF UiStep
    <3>3. QED BY <1>0, <1>1, <3>1, <3>2
  <2>5. AppendShown => AloneInv'
    <3> SUFFICES ASSUME AppendShown PROVE AloneInv' OBVIOUS
    <3>1. UNCHANGED <<rx, session, crowded, views, paused>> BY DEF AppendShown, shared, bounds, ghosts
    <3>2. ui'.pc \notin {"open", "viewing"} BY UserForms DEF UiStep
    <3>3. QED BY <1>0, <1>1, <3>1, <3>2
  <2>6. ClearMessage => AloneInv'
    <3> SUFFICES ASSUME ClearMessage PROVE AloneInv' OBVIOUS
    <3>1. UNCHANGED <<rx, session, crowded, views, paused>> BY DEF ClearMessage, shared, bounds, ghosts
    <3>2. ui'.pc \notin {"open", "viewing"} BY UserForms DEF UiStep
    <3>3. QED BY <1>0, <1>1, <3>1, <3>2
  <2>7. ClearMention => AloneInv'
    <3> SUFFICES ASSUME ClearMention PROVE AloneInv' OBVIOUS
    <3>1. UNCHANGED <<rx, session, crowded, views, paused>> BY DEF ClearMention, shared, bounds, ghosts
    <3>2. ui'.pc \notin {"open", "viewing"} BY UserForms DEF UiStep
    <3>3. QED BY <1>0, <1>1, <3>1, <3>2
  <2>8. ShowCount => AloneInv'
    <3> SUFFICES ASSUME ShowCount PROVE AloneInv' OBVIOUS
    <3>1. UNCHANGED <<rx, session, crowded, views, paused>> BY DEF ShowCount, shared, bounds, ghosts
    <3>2. ui'.pc \notin {"open", "viewing"} BY UserForms DEF UiStep
    <3>3. QED BY <1>0, <1>1, <3>1, <3>2
  <2>9. AckCount => AloneInv'
    <3> SUFFICES ASSUME AckCount PROVE AloneInv' OBVIOUS
    <3>1. UNCHANGED <<rx, session, crowded, views, paused>> BY DEF AckCount, shared, bounds, ghosts
    <3>2. ui'.pc \notin {"open", "viewing"} BY UserForms DEF UiStep
    <3>3. QED BY <1>0, <1>1, <3>1, <3>2
  <2>10. NoKey => AloneInv'
    <3> SUFFICES ASSUME NoKey PROVE AloneInv' OBVIOUS
    <3>1. UNCHANGED <<rx, session, crowded, views, paused>> BY DEF NoKey, shared, bounds, ghosts
    <3>2. ui'.pc \notin {"open", "viewing"} BY UserForms DEF UiStep
    <3>3. QED BY <1>0, <1>1, <3>1, <3>2
  <2>11. View => AloneInv'
    <3> SUFFICES ASSUME View PROVE AloneInv' OBVIOUS
    <3>1. UNCHANGED <<rx, session, crowded>> /\ views' = views + 1 BY DEF View, ghosts, shared
    <3>2. views' # 0 BY <2>0, <3>1
    <3>3. QED BY <1>0, <1>1, <3>1, <3>2
  <2>12. MentionsCommand => AloneInv'
    <3> SUFFICES ASSUME MentionsCommand PROVE AloneInv' OBVIOUS
    <3>1. UNCHANGED <<rx, session, crowded>> /\ views' = views + 1 BY DEF MentionsCommand, ghosts, shared
    <3>2. views' # 0 BY <2>0, <3>1
    <3>3. QED BY <1>0, <1>1, <3>1, <3>2
  <2>13. OpenMentions => AloneInv'
    <3> SUFFICES ASSUME OpenMentions PROVE AloneInv' OBVIOUS
    <3>1. UNCHANGED <<rx, session, crowded, views>> /\ ui.pc = "open" BY DEF OpenMentions, Ui, bounds, ghosts
    <3>2. QED BY <1>0, <1>1, <3>1
  <2>14. StopViewing => AloneInv'
    <3> SUFFICES ASSUME StopViewing PROVE AloneInv' OBVIOUS
    <3>1. UNCHANGED <<rx, session, crowded, views>> /\ ~paused' BY DEF StopViewing, bounds, ghosts
    <3>2. ui'.pc \in {"top", "reset"} BY UserForms DEF UiStep, ShapeInv, UiRecords, Afterwards
    <3>3. QED BY <1>0, <1>1, <3>1, <3>2
  <2>15. ResetCount => AloneInv'
    <3> SUFFICES ASSUME ResetCount PROVE AloneInv' OBVIOUS
    <3>1. UNCHANGED <<rx, session, crowded, views, paused>> BY DEF ResetCount, shared, bounds, ghosts
    <3>2. ui'.pc \notin {"open", "viewing"} BY UserForms DEF UiStep
    <3>3. QED BY <1>0, <1>1, <3>1, <3>2
  <2>16. LeaveChat => AloneInv'
    <3> SUFFICES ASSUME LeaveChat PROVE AloneInv' OBVIOUS
    <3>1. UNCHANGED <<rx, session, crowded, views, paused>> BY DEF LeaveChat, shared, bounds, ghosts
    <3>2. ui'.pc \notin {"open", "viewing"} BY UserForms DEF UiStep
    <3>3. QED BY <1>0, <1>1, <3>1, <3>2
  <2>17. QED BY <1>3, <2>1, <2>2, <2>3, <2>4, <2>5, <2>6, <2>7, <2>8, <2>9, <2>10, <2>11, <2>12, <2>13, <2>14, <2>15, <2>16 DEF UserThread
<1>4. QED BY <1>2, <1>3 DEF Next

\* Shown speaks of identifiers, ShownMessages of messages.
LEMMA ShownIds == Shown = {m.id : m \in ShownMessages}
  BY DEF Shown, ShownMessages

\* One receiver and the slot: it copies only into an empty slot, and the user's
\* thread empties it only when its message is shown.
LEMMA WriterStep ==
  ASSUME ShapeInv, HoldInv, AloneInv, WriterInv, Next
  PROVE  WriterInv'
<1> SUFFICES ASSUME OneWriter' PROVE Showing' /\ \A s \in Sessions : Copying(s)'
  BY DEF WriterInv
<1>0. \A t \in Sessions : Holds(t) /\ rx[t] \in RxRecords BY DEF HoldInv, ShapeInv
<1>1. ASSUME NEW s \in Sessions, Receiver(s) PROVE Showing' /\ \A t \in Sessions : Copying(t)'
  <2>1. /\ UNCHANGED <<views, crowded, session>>
        /\ inChat' => inChat
        /\ rx[s].pc # "off"
        /\ \A t \in Sessions \ {s} : rx'[t] = rx[t]
        /\ rx'[s].msg.kind # "closed" /\ inChat' => rx[s].msg.kind # "closed"
    <3>0. rx[s] \in RxRecords /\ Holds(s) BY <1>0
    <3> DEFINE Good ==
          /\ UNCHANGED <<views, crowded, session>>
          /\ inChat' => inChat
          /\ rx[s].pc # "off"
          /\ \A t \in Sessions \ {s} : rx'[t] = rx[t]
          /\ rx'[s].msg.kind # "closed" /\ inChat' => rx[s].msg.kind # "closed"
    <3>1. Receive(s) => Good
      <4> SUFFICES ASSUME Receive(s) PROVE Good OBVIOUS
      <4>1. UNCHANGED <<views, crowded, session>> /\ (inChat' => inChat) /\ rx[s].pc # "off"
        BY DEF Receive, Rx, shared, bounds, ghosts
      <4>2. rx[s].msg.kind # "closed" BY <3>0 DEF Receive, Holds
      <4>3. PICK p, m, b, n : RxStep(s, p, m, b, n) BY ReceiverForms
      <4>4. QED BY <4>1, <4>2, <4>3 DEF RxStep
    <3>2. CountMention(s) => Good
      <4> SUFFICES ASSUME CountMention(s) PROVE Good OBVIOUS
      <4>1. UNCHANGED <<views, crowded, session>> /\ (inChat' => inChat) /\ rx[s].pc # "off"
        BY DEF CountMention, Rx, shared, bounds, ghosts
      <4>2. QED BY <4>1, ReceiverForms DEF RxStep
    <3>3. StoreMention(s) => Good
      <4> SUFFICES ASSUME StoreMention(s) PROVE Good OBVIOUS
      <4>1. UNCHANGED <<views, crowded, session>> /\ (inChat' => inChat) /\ rx[s].pc # "off"
        BY DEF StoreMention, Rx, shared, bounds, ghosts
      <4>2. QED BY <4>1, ReceiverForms DEF RxStep
    <3>4. Queue(s) => Good
      <4> SUFFICES ASSUME Queue(s) PROVE Good OBVIOUS
      <4>1. UNCHANGED <<views, crowded, session>> /\ (inChat' => inChat) /\ rx[s].pc # "off"
        BY DEF Queue, Rx, shared, bounds, ghosts
      <4>2. rx[s].msg.kind \in Kinds BY <3>0, MessageFields DEF Queue, Holds, RxRecords
      <4>3. QED BY <4>1, <4>2, ReceiverForms DEF RxStep
    <3>5. WaitForSlot(s) => Good
      <4> SUFFICES ASSUME WaitForSlot(s) PROVE Good OBVIOUS
      <4>1. UNCHANGED <<views, crowded, session>> /\ (inChat' => inChat) /\ rx[s].pc # "off"
        BY DEF WaitForSlot, Rx, shared, bounds, ghosts
      <4>2. QED BY <4>1, ReceiverForms DEF RxStep
    <3>6. CopyFirst(s) => Good
      <4> SUFFICES ASSUME CopyFirst(s) PROVE Good OBVIOUS
      <4>1. UNCHANGED <<views, crowded, session>> /\ (inChat' => inChat) /\ rx[s].pc # "off"
        BY DEF CopyFirst, Rx, shared, bounds, ghosts
      <4>2. QED BY <4>1, ReceiverForms DEF RxStep
    <3>7. CopyRest(s) => Good
      <4> SUFFICES ASSUME CopyRest(s) PROVE Good OBVIOUS
      <4>1. UNCHANGED <<views, crowded, session>> /\ (inChat' => inChat) /\ rx[s].pc # "off"
        BY DEF CopyRest, Rx, shared, bounds, ghosts
      <4>2. QED BY <4>1, ReceiverForms DEF RxStep
    <3>8. SetMention(s) => Good
      <4> SUFFICES ASSUME SetMention(s) PROVE Good OBVIOUS
      <4>1. UNCHANGED <<views, crowded, session>> /\ (inChat' => inChat) /\ rx[s].pc # "off"
        BY DEF SetMention, Rx, shared, bounds, ghosts
      <4>2. QED BY <4>1, ReceiverForms DEF RxStep
    <3>9. Measure(s) => Good
      <4> SUFFICES ASSUME Measure(s) PROVE Good OBVIOUS
      <4>1. UNCHANGED <<views, crowded, session>> /\ (inChat' => inChat) /\ rx[s].pc # "off"
        BY DEF Measure, Rx, shared, bounds, ghosts
      <4>2. QED BY <4>1, ReceiverForms DEF RxStep
    <3>10. AppendLine(s) => Good
      <4> SUFFICES ASSUME AppendLine(s) PROVE Good OBVIOUS
      <4>1. UNCHANGED <<views, crowded, session>> /\ (inChat' => inChat) /\ rx[s].pc # "off"
        BY DEF AppendLine, Rx, shared, bounds, ghosts
      <4>2. QED BY <4>1, ReceiverForms DEF RxStep
    <3>11. ConnectionClosed(s) => Good
      <4> SUFFICES ASSUME ConnectionClosed(s) PROVE Good OBVIOUS
      <4>1. UNCHANGED <<views, crowded, session>> /\ (inChat' => inChat) /\ rx[s].pc # "off"
        BY DEF ConnectionClosed, Rx, shared, bounds, ghosts
      <4>2. rx[s].msg.kind # "closed" BY <3>0 DEF ConnectionClosed, Holds
      <4>3. QED BY <4>1, <4>2, ReceiverForms DEF RxStep
    <3>12. NextRead(s) => Good
      <4> SUFFICES ASSUME NextRead(s) PROVE Good OBVIOUS
      <4>1. UNCHANGED <<views, crowded, session>> /\ (inChat' => inChat) /\ rx[s].pc # "off"
        BY DEF NextRead, Rx, shared, bounds, ghosts
      <4>2. inChat' => ~Final(rx[s].msg) BY DEF NextRead
      <4>3. QED BY <4>1, <4>2, ReceiverForms DEF RxStep, Final
    <3>13. ReadEnds(s) => Good
      <4> SUFFICES ASSUME ReadEnds(s) PROVE Good OBVIOUS
      <4>1. UNCHANGED <<views, crowded, session>> /\ (inChat' => inChat) /\ rx[s].pc # "off"
        BY DEF ReadEnds, Rx, shared, bounds, ghosts
      <4>2. rx[s].msg.kind # "closed" BY <3>0 DEF ReadEnds, Holds
      <4>3. QED BY <4>1, <4>2, ReceiverForms DEF RxStep
    <3>14. QED BY <1>1, <3>1, <3>2, <3>3, <3>4, <3>5, <3>6, <3>7, <3>8, <3>9, <3>10, <3>11, <3>12, <3>13 DEF Receiver
  <2>2. OneWriter
    BY <2>1 DEF OneWriter
  <2>3. Showing /\ Copying(s) /\ Holds(s) /\ rx[s] \in RxRecords BY <1>0, <2>2 DEF WriterInv
  <2>4. \A t \in Sessions \ {s} : rx[t].pc = "off" /\ rx'[t].pc = "off"
    BY <2>1, <2>2 DEF OneWriter, AloneInv
  <2>5. \A t \in Sessions \ {s} : Copying(t)'
    BY <2>4 DEF Copying
  <2>6. ASSUME UNCHANGED <<message, ui, scrollback>>
        PROVE  /\ Shown' = Shown
               /\ UNCHANGED handed => Showing'
    BY <2>3, <2>6 DEF Shown, Showing
  <2>7. rx[s].pc \notin {"measure", "append"} /\ rx'[s].msg.kind # "closed" /\ inChat' /\ ~paused
    BY <2>2 DEF OneWriter, AloneInv
  <2>11. Receive(s) => Showing' /\ Copying(s)'
    <3> SUFFICES ASSUME Receive(s) PROVE Showing' /\ Copying(s)' OBVIOUS
    <3>1. UNCHANGED <<message, ui, scrollback, handed>> BY DEF Receive, shared, ghosts
    <3>2. PICK p, m, b, n : p \in {"count", "call"} /\ RxStep(s, p, m, b, n) BY ReceiveForm
    <3>3. Copying(s)' BY <3>2 DEF RxStep, Copying
    <3>4. QED BY <2>6, <3>1, <3>3
  <2>12. CountMention(s) => Showing' /\ Copying(s)'
    <3> SUFFICES ASSUME CountMention(s) PROVE Showing' /\ Copying(s)' OBVIOUS
    <3>1. UNCHANGED <<message, ui, scrollback, handed>> BY DEF CountMention, shared, ghosts
    <3>2. Copying(s)' BY ReceiverForms DEF RxStep, Copying
    <3>3. QED BY <2>6, <3>1, <3>2
  <2>13. StoreMention(s) => Showing' /\ Copying(s)'
    <3> SUFFICES ASSUME StoreMention(s) PROVE Showing' /\ Copying(s)' OBVIOUS
    <3>1. UNCHANGED <<message, ui, scrollback, handed>> BY DEF StoreMention, shared, ghosts
    <3>2. Copying(s)' BY ReceiverForms DEF RxStep, Copying
    <3>3. QED BY <2>6, <3>1, <3>2
  <2>14. Queue(s) => Showing' /\ Copying(s)'
    <3> SUFFICES ASSUME Queue(s) PROVE Showing' /\ Copying(s)' OBVIOUS
    <3>1. UNCHANGED <<message, ui, scrollback, handed>> BY DEF Queue, shared, ghosts
    <3>2. rx[s].msg.kind \in Kinds BY <2>3, MessageFields DEF Queue, Holds, RxRecords
    <3>3. Copying(s)' BY <3>2, ReceiverForms DEF RxStep, Copying
    <3>4. QED BY <2>6, <3>1, <3>3
  <2>15. WaitForSlot(s) => Showing' /\ Copying(s)'
    <3> SUFFICES ASSUME WaitForSlot(s) PROVE Showing' /\ Copying(s)' OBVIOUS
    <3>1. UNCHANGED <<message, ui, scrollback, handed>> BY DEF WaitForSlot, shared, ghosts
    <3>2. message = NoMsg BY DEF WaitForSlot
    <3>3. Copying(s)' BY <3>1, <3>2, ReceiverForms DEF RxStep, Copying
    <3>4. QED BY <2>6, <3>1, <3>3
  <2>16. CopyFirst(s) => Showing' /\ Copying(s)'
    <3> SUFFICES ASSUME CopyFirst(s) PROVE Showing' /\ Copying(s)' OBVIOUS
    <3>1. message = NoMsg /\ message' = rx[s].msg /\ UNCHANGED <<ui, scrollback, handed>>
      BY <2>3 DEF CopyFirst, Rx, Copying, ghosts
    <3>2. Copying(s)' BY <3>1, ReceiverForms DEF RxStep, Copying
    <3>3. Shown' = Shown BY <3>1 DEF Shown
    <3>4. ui.pc \notin {"measure", "append"}
      <4>1. ui.pc \in {"measure", "append"} => ui.line \in Lines BY DEF HoldInv, ShapeInv, UiRecords
      <4>2. ui.pc \in {"measure", "append"} => ui.line.msg \in Messages BY <4>1 DEF Lines
      <4>3. QED BY <2>3, <3>1, <4>2, NoMsgNotMessage DEF Showing
    <3>5. ui.pc # "clear" BY <2>3, <3>1 DEF Showing
    <3>6. handed \subseteq Shown
      <4>1. 0 \notin handed BY DEF ShapeInv
      <4>2. QED BY <2>3, <3>1, <4>1, NoMsgNotMessage DEF Showing
    <3>7. QED BY <3>1, <3>2, <3>3, <3>4, <3>5, <3>6 DEF Showing
  <2>17. CopyRest(s) => Showing' /\ Copying(s)'
    <3> SUFFICES ASSUME CopyRest(s) PROVE Showing' /\ Copying(s)' OBVIOUS
    <3>1. UNCHANGED <<message, ui, scrollback, handed>> BY DEF CopyRest, shared, ghosts
    <3>2. rx[s].pc = "rest" BY DEF CopyRest, Rx
    <3>3. Copying(s)' BY <2>3, <2>6, <3>1, <3>2, ReceiverForms DEF RxStep, Copying
    <3>4. QED BY <2>6, <3>1, <3>3
  <2>18. SetMention(s) => Showing' /\ Copying(s)'
    <3> SUFFICES ASSUME SetMention(s) PROVE Showing' /\ Copying(s)' OBVIOUS
    <3>1. UNCHANGED <<message, ui, scrollback>> /\ handed' = handed \cup {rx[s].msg.id} /\ rx[s].pc = "flag"
      BY DEF SetMention, Rx
    <3>2. Copying(s)' BY ReceiverForms DEF RxStep, Copying
    <3>3. rx[s].msg.id \in Shown \cup {message.id} BY <2>3, <3>1 DEF Copying
    <3>4. QED BY <2>3, <2>6, <3>1, <3>2, <3>3 DEF Showing
  <2>19. Measure(s) => Showing' /\ Copying(s)'
    <3> SUFFICES ASSUME Measure(s) PROVE Showing' /\ Copying(s)' OBVIOUS
    <3>1. QED BY <2>7 DEF Measure, Rx
  <2>20. AppendLine(s) => Showing' /\ Copying(s)'
    <3> SUFFICES ASSUME AppendLine(s) PROVE Showing' /\ Copying(s)' OBVIOUS
    <3>1. QED BY <2>7 DEF AppendLine, Rx
  <2>21. ConnectionClosed(s) => Showing' /\ Copying(s)'
    <3> SUFFICES ASSUME ConnectionClosed(s) PROVE Showing' /\ Copying(s)' OBVIOUS
    <3>1. rx'[s].msg.kind = "closed"
      <4> DEFINE msg == [id |-> received + 1, kind |-> "closed"]
      <4>1. RxStep(s, "measure", msg, TRUE, rx[s].n) /\ msg.kind = "closed" BY ReceiverForms
      <4> HIDE DEF msg
      <4>2. QED BY <4>1 DEF RxStep
    <3>2. QED BY <2>7, <3>1
  <2>22. NextRead(s) => Showing' /\ Copying(s)'
    <3> SUFFICES ASSUME NextRead(s) PROVE Showing' /\ Copying(s)' OBVIOUS
    <3>1. UNCHANGED <<message, ui, scrollback, handed>> BY DEF NextRead, shared, ghosts
    <3>2. Copying(s)' BY ReceiverForms DEF RxStep, Copying
    <3>3. QED BY <2>6, <3>1, <3>2
  <2>23. ReadEnds(s) => Showing' /\ Copying(s)'
    <3> SUFFICES ASSUME ReadEnds(s) PROVE Showing' /\ Copying(s)' OBVIOUS
    <3>1. inChat' = inChat BY DEF ReadEnds, shared
    <3>2. QED BY <2>7, <3>1 DEF ReadEnds
  <2>30. QED BY <1>1, <2>5, <2>11, <2>12, <2>13, <2>14, <2>15, <2>16, <2>17, <2>18, <2>19, <2>20, <2>21, <2>22, <2>23 DEF Receiver
<1>2. ASSUME UserThread PROVE Showing' /\ \A t \in Sessions : Copying(t)'
  <2>0. views \in Nat BY InboxAssumption DEF ShapeInv
  <2>1. EnterChat => Showing' /\ \A t \in Sessions : Copying(t)'
    <3> SUFFICES ASSUME EnterChat PROVE Showing' /\ \A t \in Sessions : Copying(t)' OBVIOUS
    <3>1. PICK s \in Sessions : s = session + 1 /\ RxStep(s, "recv", NoMsg, FALSE, 0) BY UserForms
    <3>2. /\ handed' = {} /\ crowded' = (\E t \in Sessions : rx[t].pc # "off") BY DEF EnterChat
    <3>3. \A t \in Sessions : rx[t].pc = "off" BY <3>2 DEF OneWriter
    <3>4. \A t \in Sessions : rx'[t].pc \in {"off", "recv"} BY <3>1, <3>3 DEF RxStep
    <3>5. ui'.pc = "top" BY UserForms DEF UiStep
    <3>6. QED BY <3>2, <3>4, <3>5 DEF Showing, Copying
  <2>2. TakeMessage => Showing' /\ \A t \in Sessions : Copying(t)'
    <3> SUFFICES ASSUME TakeMessage PROVE Showing' /\ \A t \in Sessions : Copying(t)' OBVIOUS
    <3>1. UNCHANGED <<inChat, views, crowded, rx, handed, message, scrollback>> BY DEF TakeMessage, shared, bounds, ghosts
    <3>2. OneWriter BY <3>1 DEF OneWriter
    <3>3. Showing /\ \A t \in Sessions : Copying(t) BY <3>2 DEF WriterInv
    <3>4. ui'.pc = "measure" /\ ui'.line.msg = message BY UserForms DEF UiStep
    <3>5. Shown' = Shown BY <3>1 DEF Shown
    <3>6. QED BY <3>1, <3>3, <3>4, <3>5 DEF Showing, Copying
  <2>3. NoMessage => Showing' /\ \A t \in Sessions : Copying(t)'
    <3> SUFFICES ASSUME NoMessage PROVE Showing' /\ \A t \in Sessions : Copying(t)' OBVIOUS
    <3>1. UNCHANGED <<inChat, views, crowded, rx, handed, message, scrollback>> BY DEF NoMessage, shared, bounds, ghosts
    <3>2. OneWriter BY <3>1 DEF OneWriter
    <3>3. Showing /\ \A t \in Sessions : Copying(t) BY <3>2 DEF WriterInv
    <3>4. ui'.pc \notin {"measure", "append", "clear"} BY UserForms DEF UiStep
    <3>5. Shown' = Shown BY <3>1 DEF Shown
    <3>6. QED BY <3>1, <3>3, <3>4, <3>5 DEF Showing, Copying
  <2>4. MeasureShown => Showing' /\ \A t \in Sessions : Copying(t)'
    <3> SUFFICES ASSUME MeasureShown PROVE Showing' /\ \A t \in Sessions : Copying(t)' OBVIOUS
    <3>1. UNCHANGED <<inChat, views, crowded, rx, handed, message, scrollback>> BY DEF MeasureShown, shared, bounds, ghosts
    <3>2. OneWriter BY <3>1 DEF OneWriter
    <3>3. Showing /\ \A t \in Sessions : Copying(t) BY <3>2 DEF WriterInv
    <3>4. ui'.pc = "append" /\ ui'.line = ui.line /\ ui'.n = Len(scrollback) /\ ui.pc = "measure"
      BY UserForms DEF UiStep, MeasureShown
    <3>5. Shown' = Shown BY <3>1 DEF Shown
    <3>6. QED BY <3>1, <3>3, <3>4, <3>5 DEF Showing, Copying
  <2>5. AppendShown => Showing' /\ \A t \in Sessions : Copying(t)'
    <3> SUFFICES ASSUME AppendShown PROVE Showing' /\ \A t \in Sessions : Copying(t)' OBVIOUS
    <3>1. UNCHANGED <<inChat, views, crowded, rx, handed, message>> BY DEF AppendShown, shared, bounds, ghosts
    <3>2. OneWriter BY <3>1 DEF OneWriter
    <3>3. Showing /\ \A t \in Sessions : Copying(t) BY <3>2 DEF WriterInv
    <3>4. ui'.pc = "clear" /\ ui.pc = "append" /\ scrollback' = Appended(ui.n, ui.line)
      BY UserForms DEF UiStep, AppendShown
    <3>5. ui.n = Len(scrollback) /\ message = ui.line.msg BY <3>3, <3>4 DEF Showing
    <3>6. ui.line \in Lines /\ ui.n \in Nat BY <3>4 DEF HoldInv, ShapeInv, UiRecords
    <3>7. ShownMessages' = ShownMessages \cup {message} BY <3>4, <3>5, <3>6, AppendedMessages
    <3>8. Shown' = {m.id : m \in ShownMessages'} BY DEF Shown, ShownMessages
    <3>9. Shown' = Shown \cup {message.id} BY <3>7, <3>8, ShownIds
    <3>10. message # NoMsg BY <3>5, <3>6, NoMsgNotMessage DEF Lines
    <3>11. QED BY <3>1, <3>3, <3>4, <3>9, <3>10 DEF Showing, Copying
  <2>6. ClearMessage => Showing' /\ \A t \in Sessions : Copying(t)'
    <3> SUFFICES ASSUME ClearMessage PROVE Showing' /\ \A t \in Sessions : Copying(t)' OBVIOUS
    <3>1. UNCHANGED <<inChat, views, crowded, rx, handed, scrollback>> BY DEF ClearMessage, shared, bounds, ghosts
    <3>2. OneWriter BY <3>1 DEF OneWriter
    <3>3. Showing /\ \A t \in Sessions : Copying(t) BY <3>2 DEF WriterInv
    <3>4. message' = NoMsg /\ ui.pc = "clear" /\ ui'.pc = "unflag" BY UserForms DEF UiStep, ClearMessage, Ui
    <3>5. Shown' = Shown BY <3>1 DEF Shown
    <3>6. message.id \in Shown BY <3>3, <3>4 DEF Showing
    <3>7. QED BY <3>1, <3>3, <3>4, <3>5, <3>6 DEF Showing, Copying
  <2>7. ClearMention => Showing' /\ \A t \in Sessions : Copying(t)'
    <3> SUFFICES ASSUME ClearMention PROVE Showing' /\ \A t \in Sessions : Copying(t)' OBVIOUS
    <3>1. UNCHANGED <<inChat, views, crowded, rx, handed, message, scrollback>> BY DEF ClearMention, shared, bounds, ghosts
    <3>2. OneWriter BY <3>1 DEF OneWriter
    <3>3. Showing /\ \A t \in Sessions : Copying(t) BY <3>2 DEF WriterInv
    <3>4. ui'.pc \notin {"measure", "append", "clear"} BY UserForms DEF UiStep
    <3>5. Shown' = Shown BY <3>1 DEF Shown
    <3>6. QED BY <3>1, <3>3, <3>4, <3>5 DEF Showing, Copying
  <2>8. ShowCount => Showing' /\ \A t \in Sessions : Copying(t)'
    <3> SUFFICES ASSUME ShowCount PROVE Showing' /\ \A t \in Sessions : Copying(t)' OBVIOUS
    <3>1. UNCHANGED <<inChat, views, crowded, rx, handed, message, scrollback>> BY DEF ShowCount, shared, bounds, ghosts
    <3>2. OneWriter BY <3>1 DEF OneWriter
    <3>3. Showing /\ \A t \in Sessions : Copying(t) BY <3>2 DEF WriterInv
    <3>4. ui'.pc \notin {"measure", "append", "clear"} BY UserForms DEF UiStep
    <3>5. Shown' = Shown BY <3>1 DEF Shown
    <3>6. QED BY <3>1, <3>3, <3>4, <3>5 DEF Showing, Copying
  <2>9. AckCount => Showing' /\ \A t \in Sessions : Copying(t)'
    <3> SUFFICES ASSUME AckCount PROVE Showing' /\ \A t \in Sessions : Copying(t)' OBVIOUS
    <3>1. UNCHANGED <<inChat, views, crowded, rx, handed, message, scrollback>> BY DEF AckCount, shared, bounds, ghosts
    <3>2. OneWriter BY <3>1 DEF OneWriter
    <3>3. Showing /\ \A t \in Sessions : Copying(t) BY <3>2 DEF WriterInv
    <3>4. ui'.pc \notin {"measure", "append", "clear"} BY UserForms DEF UiStep
    <3>5. Shown' = Shown BY <3>1 DEF Shown
    <3>6. QED BY <3>1, <3>3, <3>4, <3>5 DEF Showing, Copying
  <2>10. NoKey => Showing' /\ \A t \in Sessions : Copying(t)'
    <3> SUFFICES ASSUME NoKey PROVE Showing' /\ \A t \in Sessions : Copying(t)' OBVIOUS
    <3>1. UNCHANGED <<inChat, views, crowded, rx, handed, message, scrollback>> BY DEF NoKey, shared, bounds, ghosts
    <3>2. OneWriter BY <3>1 DEF OneWriter
    <3>3. Showing /\ \A t \in Sessions : Copying(t) BY <3>2 DEF WriterInv
    <3>4. ui'.pc \notin {"measure", "append", "clear"} BY UserForms DEF UiStep
    <3>5. Shown' = Shown BY <3>1 DEF Shown
    <3>6. QED BY <3>1, <3>3, <3>4, <3>5 DEF Showing, Copying
  <2>11. View => Showing' /\ \A t \in Sessions : Copying(t)'
    <3> SUFFICES ASSUME View PROVE Showing' /\ \A t \in Sessions : Copying(t)' OBVIOUS
    <3>1. views' = views + 1 BY DEF View
    <3>2. QED BY <2>0, <3>1 DEF OneWriter
  <2>12. MentionsCommand => Showing' /\ \A t \in Sessions : Copying(t)'
    <3> SUFFICES ASSUME MentionsCommand PROVE Showing' /\ \A t \in Sessions : Copying(t)' OBVIOUS
    <3>1. views' = views + 1 BY DEF MentionsCommand
    <3>2. QED BY <2>0, <3>1 DEF OneWriter
  <2>13. OpenMentions => Showing' /\ \A t \in Sessions : Copying(t)'
    <3> SUFFICES ASSUME OpenMentions PROVE Showing' /\ \A t \in Sessions : Copying(t)' OBVIOUS
    <3>1. UNCHANGED <<inChat, views, crowded, rx, handed, message, scrollback>> BY DEF OpenMentions, shared, bounds, ghosts
    <3>2. OneWriter BY <3>1 DEF OneWriter
    <3>3. Showing /\ \A t \in Sessions : Copying(t) BY <3>2 DEF WriterInv
    <3>4. ui'.pc \notin {"measure", "append", "clear"} BY UserForms DEF UiStep
    <3>5. Shown' = Shown BY <3>1 DEF Shown
    <3>6. QED BY <3>1, <3>3, <3>4, <3>5 DEF Showing, Copying
  <2>14. StopViewing => Showing' /\ \A t \in Sessions : Copying(t)'
    <3> SUFFICES ASSUME StopViewing PROVE Showing' /\ \A t \in Sessions : Copying(t)' OBVIOUS
    <3>1. UNCHANGED <<inChat, views, crowded, rx, handed, message, scrollback>> BY DEF StopViewing, shared, bounds, ghosts
    <3>2. OneWriter BY <3>1 DEF OneWriter
    <3>3. Showing /\ \A t \in Sessions : Copying(t) BY <3>2 DEF WriterInv
    <3>4. ui'.pc \notin {"measure", "append", "clear"} BY UserForms DEF UiStep, ShapeInv, UiRecords, Afterwards
    <3>5. Shown' = Shown BY <3>1 DEF Shown
    <3>6. QED BY <3>1, <3>3, <3>4, <3>5 DEF Showing, Copying
  <2>15. ResetCount => Showing' /\ \A t \in Sessions : Copying(t)'
    <3> SUFFICES ASSUME ResetCount PROVE Showing' /\ \A t \in Sessions : Copying(t)' OBVIOUS
    <3>1. UNCHANGED <<inChat, views, crowded, rx, handed, message, scrollback>> BY DEF ResetCount, shared, bounds, ghosts
    <3>2. OneWriter BY <3>1 DEF OneWriter
    <3>3. Showing /\ \A t \in Sessions : Copying(t) BY <3>2 DEF WriterInv
    <3>4. ui'.pc \notin {"measure", "append", "clear"} BY UserForms DEF UiStep
    <3>5. Shown' = Shown BY <3>1 DEF Shown
    <3>6. QED BY <3>1, <3>3, <3>4, <3>5 DEF Showing, Copying
  <2>16. LeaveChat => Showing' /\ \A t \in Sessions : Copying(t)'
    <3> SUFFICES ASSUME LeaveChat PROVE Showing' /\ \A t \in Sessions : Copying(t)' OBVIOUS
    <3>1. ~inChat' BY DEF LeaveChat
    <3>2. QED BY <3>1 DEF OneWriter
  <2>17. QED BY <1>2, <2>1, <2>2, <2>3, <2>4, <2>5, <2>6, <2>7, <2>8, <2>9, <2>10, <2>11, <2>12, <2>13, <2>14, <2>15, <2>16 DEF UserThread
<1>3. QED BY <1>1, <1>2 DEF Next

-----------------------------------------------------------------------------
\* The invariant holds when the client starts.
LEMMA InitIInv == Init => IInv
<1> SUFFICES ASSUME Init PROVE IInv OBVIOUS
<1> USE InboxAssumption, NoMsgNotMessage, NoLineNotLine DEF Init
<1>0. \A s \in Sessions : rx[s].pc = "off" /\ rx[s].msg = NoMsg /\ rx[s].mention = FALSE
  BY DEF Idle
<1>1. DOMAIN scrollback = {} /\ ShownMessages = {}
  BY DEF ShownMessages
<1>2. ui.pc = "menu" /\ ui.line = NoLine
  OBVIOUS
<1>3. ShapeInv
  <2>1. ui \in UiRecords
    <3> DEFINE line == NoLine
    <3>1. ui = [pc |-> "menu", line |-> line, n |-> 0, after |-> "top"] OBVIOUS
    <3> HIDE DEF line
    <3>2. line = NoLine BY DEF line
    <3>3. QED BY <3>1, <3>2 DEF UiRecords, UiSteps, Afterwards
  <2>2. rx \in [Sessions -> RxRecords]
    <3>1. 0 \in 0..MaxSessions OBVIOUS
    <3>2. Idle \in RxRecords BY <3>1, IdleRecord
    <3>3. QED BY <3>2
  <2>3. scrollback \in Seq(Lines) OBVIOUS
  <2>4. /\ message = NoMsg /\ mentionCount = 0 /\ session = 0 /\ received = 0 /\ views = 0 /\ handed = {}
        /\ ~inChat /\ ~paused /\ ~copied /\ ~isMention /\ ~mentionCountChanged /\ ~crowded /\ ~flagged
        /\ inChat \in BOOLEAN /\ paused \in BOOLEAN /\ copied \in BOOLEAN /\ isMention \in BOOLEAN
        /\ mentionCountChanged \in BOOLEAN /\ crowded \in BOOLEAN /\ flagged \in BOOLEAN
    OBVIOUS
  <2>5. 0 \in 0..MaxSessions /\ 0 \in 0..MaxMessages /\ 0 \in 0..MaxViews /\ 0 \in Nat OBVIOUS
  <2>6. QED BY <2>1, <2>2, <2>3, <2>4, <2>5 DEF ShapeInv
<1>4. HoldInv BY <1>0, <1>2 DEF HoldInv, Holds
<1>5. CauseInv
  <2>1. \A s \in Sessions : Caused(s) BY <1>0 DEF Caused, Addressed, Announced
  <2>2. HighlightHasCause BY <1>1 DEF HighlightHasCause
  <2>3. ~mentionCountChanged /\ ~isMention /\ ~ui.line.mention BY <1>2
  <2>4. QED BY <2>1, <2>2, <2>3 DEF CauseInv
<1>6. PlaceInv
  <2>1. KnownInv BY <1>0, <1>1, <1>2 DEF KnownInv
  <2>2. \A s \in Sessions : Own(s) BY <1>0 DEF Own, Carries
  <2>3. ShownOnce BY <1>1 DEF ShownOnce
  <2>4. QED BY <1>1, <2>1, <2>2, <2>3 DEF PlaceInv
<1>7. AloneInv
  <2>1. ~paused OBVIOUS
  <2>2. QED BY <1>0, <1>2, <2>1 DEF AloneInv
<1>8. WriterInv
  <2>1. ~inChat OBVIOUS
  <2>2. QED BY <2>1 DEF WriterInv, OneWriter
<1>9. QED BY <1>3, <1>4, <1>5, <1>6, <1>7, <1>8 DEF IInv

\* And when nothing happens.
LEMMA StutterStep == IInv /\ UNCHANGED vars => IInv'
<1> SUFFICES ASSUME IInv, UNCHANGED vars PROVE IInv' OBVIOUS
<1> USE DEF IInv, vars, shared, counters, bounds, ghosts
<1>1. ShapeInv' BY DEF ShapeInv
<1>2. HoldInv' BY DEF HoldInv, Holds
<1>3. CauseInv' BY DEF CauseInv, Caused, HighlightHasCause
<1>4. PlaceInv' BY DEF PlaceInv, KnownInv, Own, Carries, ShownMessages, ShownOnce
<1>5. AloneInv' BY DEF AloneInv
<1>6. WriterInv' BY DEF WriterInv, OneWriter, Showing, Copying, Shown
<1>7. QED BY <1>1, <1>2, <1>3, <1>4, <1>5, <1>6

\* IInv is an invariant: every step of either thread keeps it.
THEOREM InductiveInvariant == Spec => []IInv
<1>1. Init => IInv
  BY InitIInv
<1>2. IInv /\ [Next]_vars => IInv'
  <2>1. ASSUME IInv, Next PROVE IInv'
    BY <2>1, ShapeStep, HoldStep, CauseStep, PlaceStep, AloneStep, WriterStep DEF IInv
  <2>2. QED BY <2>1, StutterStep
<1>3. QED BY <1>1, <1>2, PTL DEF Spec

\* A message that is not for the user is highlighted only after one that was
\* to be: the flags are never set out of nothing (processPacket, mq).
THEOREM HighlightsHaveCauses == Spec => []HighlightHasCause
<1>1. IInv => HighlightHasCause
  BY DEF IInv, CauseInv
<1>2. QED BY <1>1, InductiveInvariant, PTL

\* No message is shown twice, whatever the threads do between the showing
\* and the clearing of the slot (doChatRoutines, queueIncomingMessage).
THEOREM MessagesShownOnce == Spec => []ShownOnce
<1>1. IInv => ShownOnce
  BY DEF IInv, PlaceInv
<1>2. QED BY <1>1, InductiveInvariant, PTL

\* With one writer of the scrollback, what was handed over is shown or still
\* in the slot (queueIncomingMessage waits, doChatRoutines empties last).
THEOREM SlotNotOverwritten == Spec => []NotOverwritten
<1>1. IInv => NotOverwritten
  BY DEF IInv, WriterInv, Showing, NotOverwritten
<1>2. QED BY <1>1, InductiveInvariant, PTL
-----------------------------------------------------------------------------
(* The count of mentions.                                                  *)

\* Where a receiver has a mention that is still to be counted.
Steps == {"count", "store"}

\* What is counted, and what a receiver is about to store, leaves room for
\* those still to be counted.
CountInv ==
    /\ mentions \in Nat /\ mentions <= received
    /\ mentionCount + Cardinality(Counting) <= mentions
    /\ \A s \in Sessions : rx[s].pc = "store" => rx[s].n + Cardinality(Counting) <= mentions

\* Until the count is first reset there is one receiver.
FirstInv ==
    /\ \A s \in Sessions : s > session => rx[s].pc = "off"
    /\ session = 0 => mentions = 0 /\ mentionCount = 0
    /\ views = 0 => ui.pc # "reset"
    /\ session = 1 /\ views = 0 /\ ui.pc # "menu" =>
           /\ mentionCount + Cardinality(Counting) = mentions
           /\ \A s \in Sessions : rx[s].pc = "store" => rx[s].n = mentionCount

\* How many receivers are about to count changes by the one that steps.
LEMMA CountingSteps ==
  ASSUME NEW s \in Sessions, NEW p, NEW m, NEW b, NEW n, RxStep(s, p, m, b, n)
  PROVE  /\ Cardinality(Counting) \in Nat /\ Cardinality(Counting)' \in Nat
         /\ (rx[s].pc \in Steps <=> p \in Steps) => Cardinality(Counting)' = Cardinality(Counting)
         /\ rx[s].pc \notin Steps /\ p \in Steps => Cardinality(Counting)' = Cardinality(Counting) + 1
         /\ rx[s].pc \in Steps /\ p \notin Steps => Cardinality(Counting)' = Cardinality(Counting) - 1
<1> DEFINE C == {t \in Sessions : rx[t].pc \in Steps}
           D == {t \in Sessions : rx'[t].pc \in Steps}
<1>1. Counting = C /\ Counting' = D BY DEF Counting, Steps
<1>2. rx'[s].pc = p /\ \A t \in Sessions \ {s} : rx'[t] = rx[t] BY DEF RxStep
<1>3. s \in C <=> rx[s].pc \in Steps OBVIOUS
<1>4. D = IF p \in Steps THEN C \cup {s} ELSE C \ {s} BY <1>2
<1>5. IsFiniteSet(C)
  <2>1. MaxSessions \in Int /\ 1 \in Int BY InboxAssumption
  <2>2. IsFiniteSet(Sessions) BY <2>1, FS_Interval DEF Sessions
  <2>3. C \subseteq Sessions OBVIOUS
  <2> HIDE DEF C
  <2>4. QED BY <2>2, <2>3, FS_Subset
<1> HIDE DEF C, D
<1>6. Cardinality(C) \in Nat BY <1>5, FS_CardinalityType
<1>7. Cardinality(C \cup {s}) = IF s \in C THEN Cardinality(C) ELSE Cardinality(C) + 1
  BY <1>5, FS_AddElement
<1>8. Cardinality(C \ {s}) = IF s \in C THEN Cardinality(C) - 1 ELSE Cardinality(C)
  BY <1>5, FS_RemoveElement
<1>9. IsFiniteSet(D)
  <2>1. IsFiniteSet(C \cup {s}) /\ IsFiniteSet(C \ {s}) BY <1>5, FS_AddElement, FS_RemoveElement
  <2>2. QED BY <1>4, <2>1
<1>10. Cardinality(D) \in Nat BY <1>9, FS_CardinalityType
<1>11. QED BY <1>1, <1>3, <1>4, <1>6, <1>7, <1>8, <1>10

LEMMA CountingSize ==
  /\ Cardinality(Counting) \in Nat
  /\ UNCHANGED rx => Cardinality(Counting)' = Cardinality(Counting)
<1>1. Counting \subseteq Sessions BY DEF Counting
<1>2. IsFiniteSet(Sessions)
  <2>1. MaxSessions \in Int /\ 1 \in Int BY InboxAssumption
  <2>2. QED BY <2>1, FS_Interval DEF Sessions
<1>3. Cardinality(Counting) \in Nat BY <1>1, <1>2, FS_Subset, FS_CardinalityType
<1>4. UNCHANGED rx => Counting' = Counting BY DEF Counting
<1>5. QED BY <1>3, <1>4

LEMMA InitCount == Init => CountInv /\ FirstInv
<1> SUFFICES ASSUME Init PROVE CountInv /\ FirstInv OBVIOUS
<1>1. \A s \in Sessions : rx[s].pc = "off" BY DEF Init, Idle
<1>2. Counting = {} BY <1>1 DEF Counting
<1>3. Cardinality(Counting) = 0 BY <1>2, FS_EmptySet
<1>4. mentionCount = 0 /\ mentions = 0 /\ received = 0 /\ session = 0 /\ ui.pc = "menu" BY DEF Init
<1>5. CountInv BY <1>1, <1>3, <1>4 DEF CountInv
<1>6. FirstInv BY <1>1, <1>4 DEF FirstInv
<1>7. QED BY <1>5, <1>6

\* A receiver that goes from one place where it does not count to another.
LEMMA CountsNothing ==
  ASSUME IInv, CountInv, FirstInv, NEW s \in Sessions, NEW p, NEW m, NEW b, NEW n, RxStep(s, p, m, b, n),
         rx[s].pc \notin Steps \cup {"off"}, p \notin Steps,
         UNCHANGED <<mentionCount, mentions, session, views, ui>>,
         received' \in Nat, received' >= received
  PROVE  CountInv' /\ FirstInv'
<1>1. Cardinality(Counting)' = Cardinality(Counting) BY CountingSteps
<1>2. rx'[s].pc = p /\ \A t \in Sessions \ {s} : rx'[t] = rx[t] BY DEF RxStep
<1>3. \A t \in Sessions : rx'[t].pc = "store" => t # s /\ rx[t].pc = "store" /\ rx'[t].n = rx[t].n
  BY <1>2 DEF Steps
<1>4. received \in Nat BY DEF IInv, ShapeInv
<1>5. CountInv' BY <1>1, <1>3, <1>4 DEF CountInv
<1>6. \A t \in Sessions : t > session => rx'[t].pc = "off" BY <1>2 DEF FirstInv
<1>7. FirstInv' BY <1>1, <1>3, <1>6 DEF FirstInv
<1>8. QED BY <1>5, <1>7

LEMMA ReceiverCounts ==
  ASSUME IInv, CountInv, FirstInv, NEW s \in Sessions, Receiver(s)
  PROVE  CountInv' /\ FirstInv'
<1> DEFINE W == Cardinality(Counting)
<1>0. /\ ShapeInv /\ Holds(s) /\ rx[s] \in RxRecords /\ mentionCount \in Nat /\ received \in Nat /\ views \in Nat
      /\ session \in Nat /\ s \in Nat /\ W \in Nat /\ mentions \in Nat
      /\ \A t \in Sessions : rx[t].n \in Nat /\ t \in Nat
  BY InboxAssumption, CountingSize DEF IInv, ShapeInv, HoldInv, RxRecords, Sessions, CountInv
<1>1. /\ mentions <= received /\ mentionCount + W <= mentions
      /\ \A t \in Sessions : rx[t].pc = "store" => rx[t].n + W <= mentions
  BY DEF CountInv
<1>2. rx[s].pc # "off" => s <= session /\ session # 0 BY <1>0 DEF FirstInv, Sessions
<1>3. \A t \in Sessions : t > session => rx[t].pc = "off" BY DEF FirstInv
<1>4. session = 1 /\ rx[s].pc # "off" => \A t \in Sessions \ {s} : rx[t].pc = "off"
  BY <1>0, <1>2, <1>3 DEF Sessions
<1> DEFINE First == session = 1 /\ views = 0 /\ ui.pc # "menu"
<1>5. First => mentionCount + W = mentions /\ \A t \in Sessions : rx[t].pc = "store" => rx[t].n = mentionCount
  BY DEF FirstInv
<1>6. views = 0 => ui.pc # "reset" BY DEF FirstInv
<1> HIDE DEF W, First
<1>7. CASE Receive(s)
  <2>1. PICK k \in Kinds :
          LET msg == [id |-> received + 1, kind |-> k] IN
          /\ rx' = [rx EXCEPT ![s].pc = IF Addressed(msg) THEN "count" ELSE "call", ![s].msg = msg]
          /\ mentions' = IF Addressed(msg) THEN mentions + 1 ELSE mentions
    BY <1>7 DEF Receive
  <2> DEFINE msg == [id |-> received + 1, kind |-> k]
  <2>2. /\ received < MaxMessages /\ received' = received + 1 /\ rx[s].pc = "recv"
        /\ UNCHANGED <<mentionCount, session, views, ui>>
    BY <1>7 DEF Receive, counters
  <2>3. msg \in Messages BY <2>2, <1>0, NewMessage DEF ShapeInv
  <2>4. CASE Addressed(msg)
    <3>1. rx' = [rx EXCEPT ![s].pc = "count", ![s].msg = msg] /\ mentions' = mentions + 1 BY <2>1, <2>4
    <3> HIDE DEF msg
    <3>2. RxStep(s, "count", msg, rx[s].mention, rx[s].n)
      <4>1. rx \in [Sessions -> RxRecords] /\ "count" \in RxSteps BY <1>0 DEF ShapeInv, RxSteps
      <4>2. QED BY <2>3, <3>1, <4>1, RxMsg
    <3>3. W' = W + 1 BY <2>2, <3>2, CountingSteps DEF Steps, W
    <3>4. rx'[s].pc = "count" /\ \A t \in Sessions \ {s} : rx'[t] = rx[t] BY <3>2 DEF RxStep
    <3>5. \A t \in Sessions : rx'[t].pc = "store" => rx[t].pc = "store" /\ rx'[t].n = rx[t].n BY <3>4
    <3>6. CountInv'
      <4>1. mentions' \in Nat /\ mentions' <= received' BY <1>0, <1>1, <2>2, <3>1
      <4>2. mentionCount' + W' <= mentions' BY <1>0, <1>1, <2>2, <3>1, <3>3
      <4>3. ASSUME NEW t \in Sessions, rx'[t].pc = "store" PROVE rx'[t].n + W' <= mentions'
        <5>1. rx'[t].n = rx[t].n /\ rx[t].n + W <= mentions /\ rx[t].n \in Nat BY <1>0, <1>1, <3>5, <4>3
        <5>2. QED BY ONLY <1>0, <3>1, <3>3, <5>1
      <4>4. QED BY <4>1, <4>2, <4>3 DEF CountInv, W
    <3>7. FirstInv'
      <4>1. \A t \in Sessions : t > session' => rx'[t].pc = "off" BY <1>0, <1>2, <1>3, <2>2, <3>4
      <4>2. session' # 0 BY <1>2, <2>2
      <4>3. First' => mentionCount' + W' = mentions' BY <1>0, <1>5, <2>2, <3>1, <3>3 DEF First
      <4>4. First' => \A t \in Sessions : rx'[t].pc = "store" => rx'[t].n = mentionCount'
        BY <1>5, <2>2, <3>5 DEF First
      <4>5. QED BY <1>6, <2>2, <4>1, <4>2, <4>3, <4>4 DEF FirstInv, First, W
    <3>8. QED BY <3>6, <3>7
  <2>5. CASE ~Addressed(msg)
    <3>1. rx' = [rx EXCEPT ![s].pc = "call", ![s].msg = msg] /\ mentions' = mentions BY <2>1, <2>5
    <3> HIDE DEF msg
    <3>2. RxStep(s, "call", msg, rx[s].mention, rx[s].n)
      <4>1. rx \in [Sessions -> RxRecords] /\ "call" \in RxSteps BY <1>0 DEF ShapeInv, RxSteps
      <4>2. QED BY <2>3, <3>1, <4>1, RxMsg
    <3>3. received' \in Nat /\ received' >= received BY <1>0, <2>2
    <3>4. rx[s].pc \notin Steps \cup {"off"} /\ "call" \notin Steps BY <2>2 DEF Steps
    <3>5. UNCHANGED <<mentionCount, mentions, session, views, ui>> BY <2>2, <3>1
    <3>6. QED BY <3>2, <3>3, <3>4, <3>5, CountsNothing
  <2>6. QED BY <2>4, <2>5
<1>8. CASE CountMention(s)
  <2>1. RxStep(s, "store", rx[s].msg, rx[s].mention, mentionCount) BY <1>0, <1>8, ReceiverForms
  <2>2. rx[s].pc = "count" /\ UNCHANGED <<mentionCount, mentions, received, session, views, ui>>
    BY <1>8 DEF CountMention, counters, bounds, ghosts
  <2>3. W' = W BY <2>1, <2>2, CountingSteps DEF Steps, W
  <2>4. rx'[s].pc = "store" /\ rx'[s].n = mentionCount /\ \A t \in Sessions \ {s} : rx'[t] = rx[t]
    BY <2>1 DEF RxStep
  <2>5. \A t \in Sessions : rx'[t].pc = "store" =>
          rx'[t].n = mentionCount \/ (rx[t].pc = "store" /\ rx'[t].n = rx[t].n)
    BY <2>4
  <2>6. \A t \in Sessions : rx'[t].pc = "store" => rx'[t].n + W <= mentions BY <1>1, <2>5
  <2>7. CountInv' BY <1>0, <1>1, <2>2, <2>3, <2>6 DEF CountInv, W
  <2>8. \A t \in Sessions : t > session => rx'[t].pc = "off" BY <1>0, <1>2, <1>3, <2>2, <2>4
  <2>9. First => \A t \in Sessions : rx'[t].pc = "store" => rx'[t].n = mentionCount BY <1>5, <2>5
  <2>10. FirstInv' BY <1>2, <1>5, <1>6, <2>2, <2>3, <2>8, <2>9 DEF FirstInv, First, W
  <2>11. QED BY <2>7, <2>10
<1>9. CASE StoreMention(s)
  <2>1. RxStep(s, "call", rx[s].msg, rx[s].mention, rx[s].n) BY <1>0, <1>9, ReceiverForms
  <2>2. /\ rx[s].pc = "store" /\ mentionCount' = rx[s].n + 1
        /\ UNCHANGED <<mentions, received, session, views, ui>>
    BY <1>9 DEF StoreMention, Rx, bounds, ghosts
  <2>3. W' = W - 1 BY <2>1, <2>2, CountingSteps DEF Steps, W
  <2>4. rx'[s].pc = "call" /\ \A t \in Sessions \ {s} : rx'[t] = rx[t] BY <2>1 DEF RxStep
  <2>5. \A t \in Sessions : rx'[t].pc = "store" => t # s /\ rx[t].pc = "store" /\ rx'[t].n = rx[t].n BY <2>4
  <2>6. rx[s].n + W <= mentions BY <1>1, <2>2
  <2>7. CountInv'
    <3>1. mentionCount' + W' <= mentions BY <1>0, <2>2, <2>3, <2>6
    <3>2. ASSUME NEW t \in Sessions, rx'[t].pc = "store" PROVE rx'[t].n + W' <= mentions
      <4>1. rx'[t].n = rx[t].n /\ rx[t].n + W <= mentions /\ rx[t].n \in Nat BY <1>0, <1>1, <2>5, <3>2
      <4>2. QED BY ONLY <1>0, <2>3, <4>1
    <3>3. QED BY <1>0, <1>1, <2>2, <3>1, <3>2 DEF CountInv, W
  <2>8. \A t \in Sessions : t > session => rx'[t].pc = "off" BY <1>0, <1>2, <1>3, <2>2, <2>4
  <2>9. First => mentionCount' + W' = mentions BY <1>0, <1>5, <2>2, <2>3
  <2>10. First => \A t \in Sessions : rx'[t].pc # "store" BY <1>4, <2>2, <2>5 DEF First
  <2>11. FirstInv' BY <1>2, <1>6, <2>2, <2>8, <2>9, <2>10 DEF FirstInv, First, W
  <2>12. QED BY <2>7, <2>11
<1>10. CASE Queue(s) \/ WaitForSlot(s) \/ CopyFirst(s) \/ CopyRest(s) \/ SetMention(s) \/ Measure(s)
            \/ AppendLine(s) \/ ConnectionClosed(s) \/ NextRead(s) \/ ReadEnds(s)
  <2>1. UNCHANGED <<mentionCount, mentions, session, views, ui>> /\ received' \in Nat /\ received' >= received
    <3>1. UNCHANGED <<mentionCount, mentions, session, views, ui>>
      BY <1>10 DEF Queue, WaitForSlot, CopyFirst, CopyRest, SetMention, Measure, AppendLine, ConnectionClosed,
                   NextRead, ReadEnds, counters, bounds, ghosts
    <3>2. received' = received \/ received' = received + 1
      BY <1>10 DEF Queue, WaitForSlot, CopyFirst, CopyRest, SetMention, Measure, AppendLine, ConnectionClosed,
                   NextRead, ReadEnds, bounds
    <3>3. QED BY <1>0, <3>1, <3>2
  <2>2. rx[s].pc \notin Steps \cup {"off"}
    BY <1>10 DEF Queue, WaitForSlot, CopyFirst, CopyRest, SetMention, Measure, AppendLine, ConnectionClosed,
                 NextRead, ReadEnds, Rx, Steps
  <2>3. \E p, m, b, n : p \notin Steps /\ RxStep(s, p, m, b, n)
    <3>1. CASE Queue(s)
      <4>1. rx[s].msg.kind \in Kinds
        <5>1. rx[s].pc = "call" BY <3>1 DEF Queue
        <5>2. rx[s].msg \in Messages /\ rx[s].msg.kind # "closed" BY <1>0, <5>1 DEF Holds, RxRecords
        <5>3. QED BY <5>2, MessageFields
      <4>2. RxStep(s, IF paused THEN "measure" ELSE "wait", rx[s].msg, MentionArgument(rx[s].msg.kind), rx[s].n)
        BY <1>0, <3>1, <4>1, ReceiverForms
      <4>3. (IF paused THEN "measure" ELSE "wait") \notin Steps BY DEF Steps
      <4>4. QED BY <4>2, <4>3
    <3>2. CASE NextRead(s)
      <4>1. RxStep(s, IF inChat' THEN "recv" ELSE "off", NoMsg, FALSE, 0) BY <1>0, <3>2, ReceiverForms
      <4>2. (IF inChat' THEN "recv" ELSE "off") \notin Steps BY DEF Steps
      <4>3. QED BY <4>1, <4>2
    <3>3. CASE ConnectionClosed(s)
      <4>1. RxStep(s, "measure", [id |-> received + 1, kind |-> "closed"], TRUE, rx[s].n) BY <1>0, <3>3, ReceiverForms
      <4>2. QED BY <4>1 DEF Steps
    <3>4. CASE WaitForSlot(s) \/ CopyFirst(s) \/ CopyRest(s) \/ SetMention(s) \/ Measure(s) \/ AppendLine(s) \/ ReadEnds(s)
      <4>1. WaitForSlot(s) => RxStep(s, "copy", rx[s].msg, rx[s].mention, rx[s].n) BY <1>0, ReceiverForms
      <4>2. CopyFirst(s) => RxStep(s, "rest", rx[s].msg, rx[s].mention, rx[s].n) BY <1>0, ReceiverForms
      <4>3. CopyRest(s) => RxStep(s, "flag", rx[s].msg, rx[s].mention, rx[s].n) BY <1>0, ReceiverForms
      <4>4. SetMention(s) => RxStep(s, "next", rx[s].msg, rx[s].mention, rx[s].n) BY <1>0, ReceiverForms
      <4>5. Measure(s) => RxStep(s, "append", rx[s].msg, rx[s].mention, Len(scrollback)) BY <1>0, ReceiverForms
      <4>6. AppendLine(s) => RxStep(s, "next", rx[s].msg, rx[s].mention, rx[s].n) BY <1>0, ReceiverForms
      <4>7. ReadEnds(s) => RxStep(s, "off", NoMsg, FALSE, 0) BY <1>0, ReceiverForms
      <4>8. {"copy", "rest", "flag", "next", "append", "off"} \cap Steps = {} BY DEF Steps
      <4>9. QED BY <3>4, <4>1, <4>2, <4>3, <4>4, <4>5, <4>6, <4>7, <4>8
    <3>5. QED BY <1>10, <3>1, <3>2, <3>3, <3>4
  <2>4. QED BY <2>1, <2>2, <2>3, CountsNothing
<1>11. QED BY <1>7, <1>8, <1>9, <1>10 DEF Receiver

\* A step of the user's thread: it resets the count, or leaves it alone.
LEMMA UserCounts ==
  ASSUME IInv, CountInv, FirstInv, UserThread
  PROVE  CountInv' /\ FirstInv'
<1> DEFINE W == Cardinality(Counting)
<1>0. /\ ShapeInv /\ mentionCount \in Nat /\ received \in Nat /\ views \in Nat /\ session \in Nat /\ W \in Nat
      /\ mentions \in Nat /\ \A t \in Sessions : rx[t].n \in Nat /\ t \in Nat
  BY InboxAssumption, CountingSize DEF IInv, ShapeInv, RxRecords, Sessions, CountInv
<1>1. /\ mentions <= received /\ mentionCount + W <= mentions
      /\ \A t \in Sessions : rx[t].pc = "store" => rx[t].n + W <= mentions
  BY DEF CountInv
<1>2. CASE EnterChat
  <2>1. session + 1 \in Sessions /\ RxStep(session + 1, "recv", NoMsg, FALSE, 0) BY <1>0, <1>2, UserForms
  <2>2. session' = session + 1 /\ UNCHANGED <<mentionCount, mentions, received, views>>
    BY <1>2 DEF EnterChat, counters
  <2>3. rx[session + 1].pc = "off" BY <1>0, <2>1 DEF FirstInv
  <2>4. W' = W
    <3>1. rx[session + 1].pc \in Steps <=> "recv" \in Steps BY <2>3 DEF Steps
    <3>2. Cardinality(Counting)' = Cardinality(Counting) BY ONLY <2>1, <3>1, CountingSteps
    <3>3. QED BY <3>2
  <2>5. rx'[session + 1].pc = "recv" /\ \A t \in Sessions \ {session + 1} : rx'[t] = rx[t] BY <2>1 DEF RxStep
  <2>6. \A t \in Sessions : rx'[t].pc = "store" => rx[t].pc = "store" /\ rx'[t].n = rx[t].n BY <2>5
  <2> HIDE DEF W
  <2>7. CountInv' BY <1>0, <1>1, <2>2, <2>4, <2>6 DEF CountInv, W
  <2>8. \A t \in Sessions : t > session' => rx'[t].pc = "off"
    <3>1. \A t \in Sessions : t > session' => t # session + 1 /\ t > session BY <1>0, <2>2
    <3>2. QED BY <2>5, <3>1 DEF FirstInv
  <2>9. session' # 0 BY <1>0, <2>2
  <2>10. ui'.pc # "reset" BY <1>0, <1>2, UserForms DEF UiStep
  <2>11. session' = 1 => W' = 0 /\ mentionCount' = 0 /\ mentions' = 0 /\ \A t \in Sessions : rx'[t].pc # "store"
    <3> SUFFICES ASSUME session' = 1 PROVE W' = 0 /\ mentionCount' = 0 /\ mentions' = 0 /\ \A t \in Sessions : rx'[t].pc # "store"
      OBVIOUS
    <3>1. session = 0 BY <1>0, <2>2
    <3>2. \A t \in Sessions : rx[t].pc = "off" BY <1>0, <3>1 DEF FirstInv, Sessions
    <3>3. mentions = 0 /\ mentionCount = 0 BY <3>1 DEF FirstInv
    <3>4. QED BY <1>0, <1>1, <2>2, <2>4, <2>6, <3>2, <3>3
  <2>12. QED BY <2>7, <2>8, <2>9, <2>10, <2>11 DEF FirstInv, W
<1>3. CASE ~EnterChat
  <2>1. UNCHANGED <<rx, mentions, received, session>> /\ (views' = views \/ views' = views + 1)
        /\ (mentionCount' = mentionCount \/ mentionCount' = 0)
    BY <1>3 DEF UserThread, TakeMessage, NoMessage, MeasureShown, AppendShown, ClearMessage, ClearMention,
                ShowCount, AckCount, NoKey, View, MentionsCommand, OpenMentions, StopViewing, ResetCount, LeaveChat,
                counters, bounds, ghosts
  <2>2. W' = W BY <2>1, CountingSize
  <2>3. mentionCount' # mentionCount => views' > 0 \/ ui'.pc = "menu"
    <3>1. mentionCount' # mentionCount => MentionsCommand \/ ResetCount \/ LeaveChat
      BY <1>3 DEF UserThread, TakeMessage, NoMessage, MeasureShown, AppendShown, ClearMessage, ClearMention,
                  ShowCount, AckCount, NoKey, View, OpenMentions, StopViewing, counters
    <3>2. MentionsCommand => views' > 0 BY <1>0 DEF MentionsCommand
    <3>3. ResetCount => views' > 0
      <4>1. ResetCount => ui.pc = "reset" /\ views' = views BY DEF ResetCount, Ui, bounds
      <4>2. QED BY <1>0, <4>1 DEF FirstInv
    <3>4. LeaveChat => ui'.pc = "menu" BY <1>0, UserForms DEF UiStep
    <3>5. QED BY <3>1, <3>2, <3>3, <3>4
  <2>4. views' = 0 => views = 0 /\ ui'.pc # "reset"
    <3>1. views' = 0 => views = 0 BY <1>0, <2>1
    <3>2. ui'.pc = "reset" => StopViewing /\ ui.pc = "viewing"
      <4>1. TakeMessage \/ NoMessage \/ MeasureShown \/ AppendShown \/ ClearMessage \/ ClearMention \/ AckCount
              \/ NoKey \/ MentionsCommand \/ OpenMentions \/ ResetCount \/ LeaveChat => ui'.pc # "reset"
        BY <1>0, UserForms DEF UiStep
      <4>2. ShowCount => ui'.pc # "reset" BY <1>0, UserForms DEF UiStep
      <4>3. View => ui'.pc # "reset" BY <1>0, UserForms DEF UiStep
      <4>4. StopViewing => ui.pc = "viewing" BY DEF StopViewing
      <4>5. QED BY <1>3, <4>1, <4>2, <4>3, <4>4 DEF UserThread
    <3>3. views = 0 => ui.pc # "viewing" BY DEF IInv, AloneInv
    <3>4. QED BY <3>1, <3>2, <3>3
  <2>5. ui'.pc # "menu" => ui.pc # "menu"
    <3>1. ui.pc = "menu" => UNCHANGED vars \/ EnterChat
      BY DEF UserThread, TakeMessage, NoMessage, MeasureShown, AppendShown, ClearMessage, ClearMention,
             ShowCount, AckCount, NoKey, View, MentionsCommand, OpenMentions, StopViewing, ResetCount, LeaveChat, Ui
    <3>2. QED BY <1>3, <3>1 DEF vars
  <2> HIDE DEF W
  <2>6. CountInv'
    <3>1. mentionCount' + W' <= mentions' BY <1>0, <1>1, <2>1, <2>2
    <3>2. QED BY <1>0, <1>1, <2>1, <2>2, <3>1 DEF CountInv, W
  <2>7. session' = 1 /\ views' = 0 /\ ui'.pc # "menu" =>
          mentionCount' + W' = mentions' /\ \A t \in Sessions : rx'[t].pc = "store" => rx'[t].n = mentionCount'
    <3> SUFFICES ASSUME session' = 1, views' = 0, ui'.pc # "menu"
                 PROVE  mentionCount' + W' = mentions' /\ \A t \in Sessions : rx'[t].pc = "store" => rx'[t].n = mentionCount'
      OBVIOUS
    <3>1. mentionCount' = mentionCount BY <2>3
    <3>2. session = 1 /\ views = 0 /\ ui.pc # "menu" BY <2>1, <2>4, <2>5
    <3>3. mentionCount + W = mentions /\ \A t \in Sessions : rx[t].pc = "store" => rx[t].n = mentionCount
      BY <3>2 DEF FirstInv, W
    <3>4. QED BY <2>1, <2>2, <3>1, <3>3
  <2>8. FirstInv' BY <2>1, <2>4, <2>7 DEF FirstInv, W
  <2>9. QED BY <2>6, <2>8
<1>4. QED BY <1>2, <1>3

LEMMA CountInvariant == Spec => [](IInv /\ CountInv /\ FirstInv)
<1>1. IInv /\ CountInv /\ FirstInv /\ [Next]_vars => CountInv' /\ FirstInv'
  <2>1. ASSUME IInv, CountInv, FirstInv, UNCHANGED vars PROVE CountInv' /\ FirstInv'
    <3>1. UNCHANGED <<rx, mentions, received, mentionCount, session, views, ui>>
      BY <2>1 DEF vars, counters, bounds, ghosts
    <3>2. QED BY <2>1, <3>1, CountingSize DEF CountInv, FirstInv
  <2>2. QED BY <2>1, ReceiverCounts, UserCounts DEF Next
<1>2. QED BY <1>1, InitCount, InductiveInvariant, PTL DEF Spec

\* The count never says more than there were mentions, although receivers of
\* several sessions read and store it and the user's thread resets it; and
\* until it is first reset it misses none (processPacket, doChatRoutines).
THEOREM MentionsAreCounted == Spec => []MentionsCounted
<1>1. CountInv /\ FirstInv => MentionsCounted
  BY DEF CountInv, FirstInv, MentionsCounted
<1>2. QED BY <1>1, CountInvariant, PTL

-----------------------------------------------------------------------------
(* An identifier stands for one message, which bounds the scrollback.      *)

\* The messages that are anywhere.
Around == ShownMessages \cup {message, ui.line.msg} \cup {rx[s].msg : s \in Sessions}

IdInv == \A m, l \in Around : m.id = l.id => m = l

\* Where a line was to go, and what was counted, is within the bounds.
NumberInv == ui.n <= MaxMessages /\ \A s \in Sessions : rx[s].n <= MaxMessages

\* Ids are told apart: those given out from the next one and from none.
LEMMA AroundIds ==
  ASSUME IInv
  PROVE  /\ Around \subseteq Messages \cup {NoMsg}
         /\ \A m \in Around : m.id \in 0..received /\ (m.id = 0 => m = NoMsg)
<1>0. ShapeInv /\ KnownInv BY DEF IInv, PlaceInv
<1>1. ShownMessages \subseteq Messages BY <1>0, ShownAreMessages
<1>2. message \in Messages \cup {NoMsg} /\ ui.line.msg \in Messages \cup {NoMsg}
  BY <1>0, NoLineNotLine DEF ShapeInv, UiRecords, Lines
<1>3. \A s \in Sessions : rx[s].msg \in Messages \cup {NoMsg} BY <1>0 DEF ShapeInv, RxRecords
<1>4. Around \subseteq Messages \cup {NoMsg} BY <1>1, <1>2, <1>3 DEF Around
<1>5. \A m \in Messages \cup {NoMsg} : m.id \in Nat /\ (m.id = 0 => m = NoMsg)
  BY MessageFields, NoMsgNotMessage
<1>6. \A m \in Around : m.id <= received BY <1>0 DEF Around, KnownInv
<1>7. received \in Nat BY <1>0 DEF ShapeInv
<1>8. QED BY <1>4, <1>5, <1>6, <1>7

\* What is anywhere after a step was somewhere before, or has just arrived.
LEMMA IdKeeps ==
  ASSUME IInv, IdInv, NEW new, new.id = received + 1, Around' \subseteq Around \cup {NoMsg, new}
  PROVE  IdInv'
<1>1. \A m \in Around : m.id \in 0..received /\ (m.id = 0 => m = NoMsg) BY AroundIds
<1>2. NoMsg.id = 0 /\ received \in Nat BY NoMsgNotMessage DEF IInv, ShapeInv
<1>3. \A m, l \in Around \cup {NoMsg, new} : m.id = l.id => m = l
  <2> SUFFICES ASSUME NEW m \in Around \cup {NoMsg, new}, NEW l \in Around \cup {NoMsg, new}, m.id = l.id PROVE m = l
    OBVIOUS
  <2>1. CASE m \in Around /\ l \in Around BY <2>1 DEF IdInv
  <2>2. CASE m = NoMsg \/ l = NoMsg
    <3>1. m.id = 0 /\ l.id = 0 BY <1>2, <2>2
    <3>2. QED BY <1>1, <1>2, <3>1
  <2>3. CASE m = new \/ l = new
    <3>1. m.id = received + 1 /\ l.id = received + 1 BY <2>3
    <3>2. QED BY <1>1, <1>2, <3>1
  <2>4. QED BY <2>1, <2>2, <2>3
<1>4. QED BY <1>3 DEF IdInv

LEMMA AroundPieces ==
  ASSUME NEW S, ShownMessages' \subseteq S, message' \in S, ui'.line.msg \in S, \A t \in Sessions : rx'[t].msg \in S
  PROVE  Around' \subseteq S
  BY DEF Around

\* A receiver's step, with the message it has then.
LEMMA ReceiverAround ==
  ASSUME NEW s \in Sessions, NEW p, NEW m, NEW b, NEW n, NEW new, RxStep(s, p, m, b, n),
         m \in Around \cup {NoMsg, new}, UNCHANGED ui, message' \in {message, rx[s].msg},
         ShownMessages' \subseteq ShownMessages \cup {rx[s].msg}
  PROVE  Around' \subseteq Around \cup {NoMsg, new}
<1>1. rx'[s].msg = m /\ \A t \in Sessions \ {s} : rx'[t] = rx[t] BY DEF RxStep
<1>2. \A t \in Sessions : rx'[t].msg \in Around \cup {NoMsg, new} BY <1>1 DEF Around
<1>3. message' \in Around /\ ui'.line.msg \in Around /\ ShownMessages' \subseteq Around BY DEF Around
<1>4. QED BY <1>2, <1>3, AroundPieces

LEMMA ReceiverIds ==
  ASSUME IInv, IdInv, NEW s \in Sessions, Receiver(s)
  PROVE  IdInv'
<1>0. ShapeInv /\ Holds(s) /\ rx[s] \in RxRecords BY DEF IInv, ShapeInv, HoldInv
<1> DEFINE any == [id |-> received + 1, kind |-> "closed"]
<1>1. any.id = received + 1 OBVIOUS
<1> HIDE DEF any
<1>2. rx[s].msg \in Around BY DEF Around
<1>3. UNCHANGED scrollback => ShownMessages' = ShownMessages BY DEF ShownMessages
<1>4. CASE Receive(s)
  <2>1. PICK k \in Kinds :
          LET msg == [id |-> received + 1, kind |-> k] IN
          RxStep(s, IF Addressed(msg) THEN "count" ELSE "call", msg, rx[s].mention, rx[s].n)
    BY <1>0, <1>4, ReceiverForms
  <2> DEFINE msg == [id |-> received + 1, kind |-> k]
             place == IF Addressed(msg) THEN "count" ELSE "call"
  <2>2. RxStep(s, place, msg, rx[s].mention, rx[s].n) /\ msg.id = received + 1 BY <2>1
  <2> HIDE DEF msg, place
  <2>3. UNCHANGED <<ui, message, scrollback>> BY <1>4 DEF Receive, shared
  <2>4. /\ msg \in Around \cup {NoMsg, msg} /\ message' \in {message, rx[s].msg}
        /\ ShownMessages' \subseteq ShownMessages \cup {rx[s].msg}
    BY <1>3, <2>3
  <2>5. Around' \subseteq Around \cup {NoMsg, msg} BY ONLY <2>2, <2>3, <2>4, ReceiverAround
  <2>6. QED BY <2>2, <2>5, IdKeeps
<1>5. CASE ConnectionClosed(s)
  <2>1. RxStep(s, "measure", any, TRUE, rx[s].n) BY <1>0, <1>5, ReceiverForms DEF any
  <2>2. UNCHANGED <<ui, message, scrollback>> BY <1>5 DEF ConnectionClosed, shared
  <2>3. /\ any \in Around \cup {NoMsg, any} /\ message' \in {message, rx[s].msg}
        /\ ShownMessages' \subseteq ShownMessages \cup {rx[s].msg}
    BY <1>3, <2>2
  <2>4. Around' \subseteq Around \cup {NoMsg, any} BY ONLY <2>1, <2>2, <2>3, ReceiverAround
  <2>5. QED BY <1>1, <2>4, IdKeeps
<1>6. CASE NextRead(s) \/ ReadEnds(s)
  <2>1. PICK p : RxStep(s, p, NoMsg, FALSE, 0) BY <1>0, <1>6, ReceiverForms
  <2>2. UNCHANGED <<ui, message, scrollback>> BY <1>6 DEF NextRead, ReadEnds, shared
  <2>3. Around' \subseteq Around \cup {NoMsg, any} BY <1>3, <2>1, <2>2, ReceiverAround
  <2>4. QED BY <1>1, <2>3, IdKeeps
<1>7. CASE CountMention(s) \/ StoreMention(s) \/ Queue(s) \/ WaitForSlot(s) \/ CopyFirst(s) \/ CopyRest(s)
           \/ SetMention(s) \/ Measure(s) \/ AppendLine(s)
  <2>1. PICK p, b, n : RxStep(s, p, rx[s].msg, b, n)
    <3>1. CASE Queue(s)
      <4>1. rx[s].msg.kind \in Kinds
        <5>1. rx[s].pc = "call" BY <3>1 DEF Queue
        <5>2. rx[s].msg \in Messages /\ rx[s].msg.kind # "closed" BY <1>0, <5>1 DEF Holds, RxRecords
        <5>3. QED BY <5>2, MessageFields
      <4>2. RxStep(s, IF paused THEN "measure" ELSE "wait", rx[s].msg, MentionArgument(rx[s].msg.kind), rx[s].n)
        BY <1>0, <3>1, <4>1, ReceiverForms
      <4>3. QED BY <4>2
    <3>2. CASE ~Queue(s)
      <4>1. CountMention(s) => RxStep(s, "store", rx[s].msg, rx[s].mention, mentionCount) BY <1>0, ReceiverForms
      <4>2. StoreMention(s) => RxStep(s, "call", rx[s].msg, rx[s].mention, rx[s].n) BY <1>0, ReceiverForms
      <4>3. WaitForSlot(s) => RxStep(s, "copy", rx[s].msg, rx[s].mention, rx[s].n) BY <1>0, ReceiverForms
      <4>4. CopyFirst(s) => RxStep(s, "rest", rx[s].msg, rx[s].mention, rx[s].n) BY <1>0, ReceiverForms
      <4>5. CopyRest(s) => RxStep(s, "flag", rx[s].msg, rx[s].mention, rx[s].n) BY <1>0, ReceiverForms
      <4>6. SetMention(s) => RxStep(s, "next", rx[s].msg, rx[s].mention, rx[s].n) BY <1>0, ReceiverForms
      <4>7. Measure(s) => RxStep(s, "append", rx[s].msg, rx[s].mention, Len(scrollback)) BY <1>0, ReceiverForms
      <4>8. AppendLine(s) => RxStep(s, "next", rx[s].msg, rx[s].mention, rx[s].n) BY <1>0, ReceiverForms
      <4>9. QED BY <1>7, <3>2, <4>1, <4>2, <4>3, <4>4, <4>5, <4>6, <4>7, <4>8
    <3>3. QED BY <3>1, <3>2
  <2>2. UNCHANGED ui /\ message' \in {message, rx[s].msg}
    BY <1>7 DEF CountMention, StoreMention, Queue, WaitForSlot, CopyFirst, CopyRest, SetMention, Measure, AppendLine, shared
  <2>3. ShownMessages' \subseteq ShownMessages \cup {rx[s].msg}
    <3>1. CASE AppendLine(s)
      <4> DEFINE line == [msg |-> rx[s].msg, mention |-> rx[s].mention, whole |-> TRUE]
      <4>1. scrollback' = Appended(rx[s].n, line) BY <3>1 DEF AppendLine
      <4>2. line \in Lines
        <5>1. rx[s].pc = "append" BY <3>1 DEF AppendLine, Rx
        <5>2. rx[s].msg \in Messages /\ rx[s].mention \in BOOLEAN BY <1>0, <5>1 DEF Holds, RxRecords
        <5>3. QED BY <5>2 DEF Lines
      <4>3. line.msg = rx[s].msg OBVIOUS
      <4>4. rx[s].n \in Nat BY <1>0 DEF RxRecords
      <4> HIDE DEF line
      <4>5. ShownMessages' \subseteq ShownMessages \cup {line.msg} BY <1>0, <4>1, <4>2, <4>4, AppendedMessages
      <4>6. QED BY <4>3, <4>5
    <3>2. CASE ~AppendLine(s)
      <4>1. UNCHANGED scrollback
        BY <1>7, <3>2 DEF CountMention, StoreMention, Queue, WaitForSlot, CopyFirst, CopyRest, SetMention, Measure
      <4>2. QED BY <1>3, <4>1
    <3>3. QED BY <3>1, <3>2
  <2>4. Around' \subseteq Around \cup {NoMsg, any} BY <1>2, <2>1, <2>2, <2>3, ReceiverAround
  <2>5. QED BY <1>1, <2>4, IdKeeps
<1>8. QED BY <1>4, <1>5, <1>6, <1>7 DEF Receiver

LEMMA UserIds ==
  ASSUME IInv, IdInv, UserThread
  PROVE  IdInv'
<1>0. ShapeInv /\ HoldInv /\ ui \in UiRecords BY DEF IInv, ShapeInv
<1> DEFINE any == [id |-> received + 1, kind |-> "closed"]
           S == Around \cup {NoMsg, any}
<1>1. any.id = received + 1 OBVIOUS
<1> HIDE DEF any
<1>2. /\ message \in S /\ ui.line.msg \in S /\ ShownMessages \subseteq S /\ NoMsg \in S
      /\ \A t \in Sessions : rx[t].msg \in S
  BY DEF Around
<1> HIDE DEF S
<1>3. UNCHANGED scrollback => ShownMessages' = ShownMessages BY DEF ShownMessages
<1>4. Around' \subseteq S
  <2>1. CASE EnterChat
    <3>1. session + 1 \in Sessions /\ RxStep(session + 1, "recv", NoMsg, FALSE, 0) BY <1>0, <2>1, UserForms
    <3>2. \A t \in Sessions : rx'[t].msg \in S BY <1>2, <3>1 DEF RxStep
    <3>3. ui'.line = ui.line BY <1>0, <2>1, UserForms DEF UiStep
    <3>4. UNCHANGED <<message, scrollback>> BY <2>1 DEF EnterChat
    <3>5. QED BY <1>2, <1>3, <3>2, <3>3, <3>4, AroundPieces
  <2>2. CASE TakeMessage
    <3> DEFINE line == [msg |-> message, mention |-> isMention, whole |-> copied]
    <3>1. ui'.line = line BY <1>0, <2>2, UserForms DEF UiStep
    <3>2. ui'.line.msg = message BY <3>1
    <3>3. UNCHANGED <<message, scrollback, rx>> BY <2>2 DEF TakeMessage, shared
    <3>4. QED BY <1>2, <1>3, <3>2, <3>3, AroundPieces
  <2>3. CASE AppendShown
    <3>1. ui'.line = NoLine BY <1>0, <2>3, UserForms DEF UiStep
    <3>2. ui'.line.msg = NoMsg BY <3>1, NoLineNotLine
    <3>3. UNCHANGED <<message, rx>> /\ scrollback' = Appended(ui.n, ui.line) BY <2>3 DEF AppendShown, shared
    <3>4. ui.line \in Lines /\ ui.n \in Nat BY <1>0, <2>3 DEF AppendShown, UiRecords, HoldInv
    <3>5. ShownMessages' \subseteq ShownMessages \cup {ui.line.msg} BY <1>0, <3>3, <3>4, AppendedMessages
    <3>6. ShownMessages' \subseteq S BY <1>2, <3>5
    <3>7. QED BY <1>2, <3>2, <3>3, <3>6, AroundPieces
  <2>4. CASE LeaveChat
    <3>1. ui'.line = ui.line BY <1>0, <2>4, UserForms DEF UiStep
    <3>2. UNCHANGED <<message, rx>> /\ scrollback' = <<>> BY <2>4 DEF LeaveChat
    <3>3. ShownMessages' = {} BY <3>2 DEF ShownMessages
    <3>4. QED BY <1>2, <3>1, <3>2, <3>3, AroundPieces
  <2>5. CASE ~(EnterChat \/ TakeMessage \/ AppendShown \/ LeaveChat)
    <3>1. UNCHANGED <<rx, scrollback>> /\ message' \in {message, NoMsg}
      BY <2>5 DEF UserThread, NoMessage, MeasureShown, ClearMessage, ClearMention, ShowCount, AckCount, NoKey,
                  View, MentionsCommand, OpenMentions, StopViewing, ResetCount, shared
    <3>2. ui'.line = ui.line
      <4>1. NoMessage \/ MeasureShown \/ ClearMessage \/ ClearMention \/ AckCount \/ NoKey \/ MentionsCommand
              \/ OpenMentions \/ StopViewing \/ ResetCount => ui'.line = ui.line
        BY <1>0, UserForms DEF UiStep
      <4>2. ShowCount => ui'.line = ui.line BY <1>0, UserForms DEF UiStep
      <4>3. View => ui'.line = ui.line BY <1>0, UserForms DEF UiStep
      <4>4. QED BY <2>5, <4>1, <4>2, <4>3 DEF UserThread
    <3>3. message' \in S BY <1>2, <3>1
    <3>4. QED BY <1>2, <1>3, <3>1, <3>2, <3>3, AroundPieces
  <2>6. QED BY <2>1, <2>2, <2>3, <2>4, <2>5
<1>5. QED BY <1>1, <1>4, IdKeeps DEF S

\* Shown once, and known by its identifier: there is room for all.
LEMMA ScrollbackShort ==
  ASSUME IInv, IdInv
  PROVE  Len(scrollback) <= MaxMessages
<1> DEFINE n == Len(scrollback)
           f == [k \in 1..n |-> scrollback[k].msg.id]
<1>0. /\ scrollback \in Seq(Lines) /\ ShownOnce /\ MaxMessages \in Nat
      /\ n \in Nat /\ DOMAIN scrollback = 1..n
  BY InboxAssumption DEF IInv, ShapeInv, PlaceInv
<1>1. \A k \in 1..n : scrollback[k].msg \in Messages /\ scrollback[k].msg \in Around
  <2>1. \A k \in 1..n : scrollback[k].msg \in ShownMessages BY <1>0 DEF ShownMessages
  <2>2. QED BY <2>1, ShownAreMessages DEF Around, IInv
<1> HIDE DEF n
<1>2. f \in [1..n -> 1..MaxMessages] BY <1>1, MessageFields
<1>3. \A k, l \in 1..n : f[k] = f[l] => k = l
  <2> SUFFICES ASSUME NEW k \in 1..n, NEW l \in 1..n, f[k] = f[l] PROVE k = l OBVIOUS
  <2>1. scrollback[k].msg.id = scrollback[l].msg.id OBVIOUS
  <2>2. scrollback[k].msg = scrollback[l].msg BY <1>1, <2>1 DEF IdInv
  <2>3. QED BY <1>0, <2>2 DEF ShownOnce
<1> HIDE DEF f
<1>4. f \in Injection(1..n, 1..MaxMessages) BY <1>2, <1>3 DEF Injection, IsInjective
<1>5. 1 \in Int /\ n \in Int /\ MaxMessages \in Int BY <1>0
<1>6. IsFiniteSet(1..MaxMessages) /\ Cardinality(1..MaxMessages) = IF 1 > MaxMessages THEN 0 ELSE MaxMessages - 1 + 1
  BY <1>5, FS_Interval
<1>7. Cardinality(1..n) = IF 1 > n THEN 0 ELSE n - 1 + 1 BY <1>5, FS_Interval
<1>8. Cardinality(1..n) <= Cardinality(1..MaxMessages) BY <1>4, <1>6, FS_Injection
<1>9. QED BY <1>0, <1>6, <1>7, <1>8 DEF n

LEMMA NumberStep ==
  ASSUME IInv, CountInv, IdInv, NumberInv, Next
  PROVE  NumberInv'
<1>0. /\ ShapeInv /\ HoldInv /\ MaxMessages \in Nat /\ 0 <= MaxMessages
      /\ ui.n <= MaxMessages /\ \A t \in Sessions : rx[t].n <= MaxMessages
  BY InboxAssumption DEF IInv, NumberInv
<1>1. Len(scrollback) <= MaxMessages BY ScrollbackShort
<1>2. mentionCount <= MaxMessages
  <2>1. mentionCount \in Nat /\ received \in 0..MaxMessages BY DEF IInv, ShapeInv
  <2>2. Cardinality(Counting) \in Nat BY CountingSize
  <2>3. QED BY <1>0, <2>1, <2>2 DEF CountInv
<1>3. ASSUME NEW s \in Sessions, NEW p, NEW m, NEW b, NEW n, RxStep(s, p, m, b, n), n <= MaxMessages, UNCHANGED ui
      PROVE  NumberInv'
  BY <1>0, <1>3 DEF NumberInv, RxStep
<1>4. ASSUME NEW s \in Sessions, Receiver(s) PROVE NumberInv'
  <2>1. UNCHANGED ui
    BY <1>4 DEF Receiver, Receive, CountMention, StoreMention, Queue, WaitForSlot, CopyFirst, CopyRest, SetMention,
                Measure, AppendLine, ConnectionClosed, NextRead, ReadEnds
  <2>2. CASE Receive(s)
    <3>1. PICK k \in Kinds :
            LET msg == [id |-> received + 1, kind |-> k] IN
            RxStep(s, IF Addressed(msg) THEN "count" ELSE "call", msg, rx[s].mention, rx[s].n)
      BY <1>0, <2>2, ReceiverForms
    <3>2. QED BY <1>0, <1>3, <2>1, <3>1
  <2>3. CASE Queue(s)
    <3>1. rx[s].msg.kind \in Kinds
      <4>1. rx[s].pc = "call" /\ rx[s] \in RxRecords BY <1>0, <2>3 DEF Queue, ShapeInv
      <4>2. rx[s].msg \in Messages /\ rx[s].msg.kind # "closed" BY <1>0, <4>1 DEF HoldInv, Holds, RxRecords
      <4>3. QED BY <4>2, MessageFields
    <3>2. RxStep(s, IF paused THEN "measure" ELSE "wait", rx[s].msg, MentionArgument(rx[s].msg.kind), rx[s].n)
      BY <1>0, <2>3, <3>1, ReceiverForms
    <3>3. QED BY <1>0, <1>3, <2>1, <3>2
  <2>4. CASE CountMention(s)
    <3>1. RxStep(s, "store", rx[s].msg, rx[s].mention, mentionCount) BY <1>0, <2>4, ReceiverForms
    <3>2. QED BY <1>2, <1>3, <2>1, <3>1
  <2>5. CASE Measure(s)
    <3>1. RxStep(s, "append", rx[s].msg, rx[s].mention, Len(scrollback)) BY <1>0, <2>5, ReceiverForms
    <3>2. QED BY <1>1, <1>3, <2>1, <3>1
  <2>6. CASE NextRead(s) \/ ReadEnds(s)
    <3>1. PICK p : RxStep(s, p, NoMsg, FALSE, 0) BY <1>0, <2>6, ReceiverForms
    <3>2. QED BY <1>0, <1>3, <2>1, <3>1
  <2>7. CASE StoreMention(s) \/ WaitForSlot(s) \/ CopyFirst(s) \/ CopyRest(s) \/ SetMention(s) \/ AppendLine(s) \/ ConnectionClosed(s)
    <3>1. PICK p, m, b : RxStep(s, p, m, b, rx[s].n) BY <1>0, <2>7, ReceiverForms
    <3>2. QED BY <1>0, <1>3, <2>1, <3>1
  <2>8. QED BY <1>4, <2>2, <2>3, <2>4, <2>5, <2>6, <2>7 DEF Receiver
<1>5. ASSUME UserThread PROVE NumberInv'
  <2>1. ui'.n <= MaxMessages
    <3>1. MeasureShown => ui'.n = Len(scrollback) BY <1>0, UserForms DEF UiStep
    <3>2. AppendShown => ui'.n = 0 BY <1>0, UserForms DEF UiStep
    <3>3. EnterChat \/ NoMessage \/ ClearMessage \/ ClearMention \/ AckCount \/ NoKey \/ MentionsCommand
              \/ OpenMentions \/ StopViewing \/ ResetCount \/ LeaveChat => ui'.n = ui.n
      BY <1>0, UserForms DEF UiStep
    <3>4. TakeMessage => ui'.n = ui.n BY <1>0, UserForms DEF UiStep
    <3>5. ShowCount => ui'.n = ui.n BY <1>0, UserForms DEF UiStep
    <3>6. View => ui'.n = ui.n BY <1>0, UserForms DEF UiStep
    <3>7. QED BY <1>0, <1>1, <1>5, <3>1, <3>2, <3>3, <3>4, <3>5, <3>6 DEF UserThread
  <2>2. \A t \in Sessions : rx'[t].n <= MaxMessages
    <3>1. CASE EnterChat
      <4>1. session + 1 \in Sessions /\ RxStep(session + 1, "recv", NoMsg, FALSE, 0) BY <1>0, <3>1, UserForms
      <4>2. QED BY <1>0, <4>1 DEF RxStep
    <3>2. CASE ~EnterChat
      <4>1. UNCHANGED rx
        BY <1>5, <3>2 DEF UserThread, TakeMessage, NoMessage, MeasureShown, AppendShown, ClearMessage, ClearMention,
                ShowCount, AckCount, NoKey, View, MentionsCommand, OpenMentions, StopViewing, ResetCount, LeaveChat
      <4>2. QED BY <1>0, <4>1
    <3>3. QED BY <3>1, <3>2
  <2>3. QED BY <2>1, <2>2 DEF NumberInv
<1>6. QED BY <1>4, <1>5 DEF Next

LEMMA InitIds == Init => IdInv /\ NumberInv
<1> SUFFICES ASSUME Init PROVE IdInv /\ NumberInv OBVIOUS
<1>1. /\ scrollback = <<>> /\ message = NoMsg /\ ui = [pc |-> "menu", line |-> NoLine, n |-> 0, after |-> "top"]
      /\ \A s \in Sessions : rx[s] = Idle
  BY DEF Init
<1>2. ui.line = NoLine /\ ui.n = 0 BY <1>1
<1>3. \A s \in Sessions : rx[s].msg = NoMsg /\ rx[s].n = 0 BY <1>1 DEF Idle
<1>4. ShownMessages = {} BY <1>1 DEF ShownMessages
<1>5. Around \subseteq {NoMsg} BY <1>1, <1>2, <1>3, <1>4, NoLineNotLine DEF Around
<1>6. 0 <= MaxMessages BY InboxAssumption
<1>7. QED BY <1>2, <1>3, <1>5, <1>6 DEF IdInv, NumberInv

LEMMA IdInvariant == Spec => [](IdInv /\ NumberInv)
<1>1. IInv /\ CountInv /\ IdInv /\ NumberInv /\ [Next]_vars => IdInv' /\ NumberInv'
  <2>1. ASSUME IInv, IdInv, Next PROVE IdInv'
    BY <2>1, ReceiverIds, UserIds DEF Next
  <2>2. ASSUME IdInv, NumberInv, UNCHANGED vars PROVE IdInv' /\ NumberInv'
    <3>1. UNCHANGED <<scrollback, message, ui, rx>> BY <2>2 DEF vars, shared
    <3>2. Around' = Around BY <3>1 DEF Around, ShownMessages
    <3>3. QED BY <2>2, <3>1, <3>2 DEF IdInv, NumberInv
  <2>3. QED BY <2>1, <2>2, NumberStep
<1>2. QED BY <1>1, InitIds, CountInvariant, PTL DEF Spec

\* The variables keep their types: no more lines, mentions and places in the
\* scrollback than messages that arrived.
THEOREM TypeCorrect == Spec => []TypeOK
<1>1. IInv /\ CountInv /\ IdInv /\ NumberInv => TypeOK
  <2> SUFFICES ASSUME IInv, CountInv, IdInv, NumberInv PROVE TypeOK OBVIOUS
  <2>1. ShapeInv /\ MaxMessages \in Nat /\ mentionCount \in Nat /\ received \in 0..MaxMessages /\ mentions \in Nat
    BY InboxAssumption DEF IInv, ShapeInv, CountInv
  <2>2. mentionCount \in 0..MaxMessages /\ mentions \in 0..MaxMessages
    <3>1. Cardinality(Counting) \in Nat BY CountingSize
    <3>2. QED BY <2>1, <3>1 DEF CountInv
  <2>3. ui \in [pc : UiSteps, line : Lines \cup {NoLine}, n : 0..MaxMessages, after : Afterwards]
    <3>1. ui \in UiRecords /\ ui.n \in 0..MaxMessages BY <2>1 DEF ShapeInv, UiRecords, NumberInv
    <3>2. QED BY <3>1 DEF UiRecords
  <2>4. rx \in [Sessions -> [pc : RxSteps, sock : 0..MaxSessions, msg : Messages \cup {NoMsg},
                             mention : BOOLEAN, n : 0..MaxMessages]]
    <3>1. rx \in [Sessions -> RxRecords] BY <2>1 DEF ShapeInv
    <3>2. \A s \in Sessions : rx[s] \in RxRecords /\ rx[s].n \in 0..MaxMessages
      BY <2>1, <3>1 DEF RxRecords, NumberInv
    <3>3. \A s \in Sessions : rx[s] \in [pc : RxSteps, sock : 0..MaxSessions, msg : Messages \cup {NoMsg},
                                         mention : BOOLEAN, n : 0..MaxMessages]
      BY <3>2 DEF RxRecords
    <3>4. QED BY <3>1, <3>3
  <2>5. QED BY <2>1, <2>2, <2>3, <2>4 DEF TypeOK, ShapeInv
<1>2. QED BY <1>1, InductiveInvariant, CountInvariant, IdInvariant, PTL
=============================================================================
