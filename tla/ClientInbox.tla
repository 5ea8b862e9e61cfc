----------------------------- MODULE ClientInbox ----------------------------
(***************************************************************************)
(* The two threads of a chat session in umrc-client/main.c and what they   *)
(* share without a lock.  The receiver (handleIncomingMessages and the     *)
(* handlers it calls) hands messages to the user's thread through the one  *)
(* slot of mq; the user's thread (enterChat, doChatRoutines) shows them,   *)
(* keeps the scrollback and runs the commands.  While the user looks at    *)
(* the scrollback or the mentions, chat is paused and the receiver appends *)
(* to the scrollback itself.                                               *)
(*                                                                         *)
(* A step is one access to the shared state, or several of which only one  *)
(* can be told apart by the other thread.                                  *)
(***************************************************************************)
EXTENDS Naturals, Sequences, FiniteSets

CONSTANTS Kinds,         \* what may arrive, a subset of AllKinds
          MaxMessages,   \* messages that arrive in all
          MaxViews,      \* times the user opens the scrollback or the mentions
          MaxSessions    \* times the user enters chat

AllKinds == {"notice",      \* queueIncomingMessage(..., false)
             "room",        \* a chat message that does not name the user
             "mention",     \* one that does
             "direct",      \* a direct message
             "renamed",     \* SERVER has changed the user's name
             "terminate"}   \* SERVER tells the client to leave

ASSUME InboxAssumption ==
    /\ Kinds \subseteq AllKinds
    /\ MaxMessages \in Nat /\ MaxViews \in Nat /\ MaxSessions \in Nat

Sessions == 1..MaxSessions      \* each starts a receiver of its own
Messages == [id : 1..MaxMessages, kind : Kinds \cup {"closed"}]
NoMsg    == [id |-> 0, kind |-> "none"]

Addressed(msg) == msg.kind \in {"mention", "direct"}

\* Highlighted whoever it is for.
Announced(msg) == msg.kind \in {"renamed", "terminate", "closed"}

\* What ends the session: TERMINATE, and the note that the connection is closed.
Final(msg) == msg.kind \in {"terminate", "closed"}

\* A line of the scrollback: whose message, whether highlighted (and so also
\* in the mentions), and whether all of its text is there.
Lines == [msg : Messages, mention : BOOLEAN, whole : BOOLEAN]

VARIABLES
    inChat,                \* gIsInChat
    paused,                \* gIsChatPaused
    message, copied,       \* mq.message, and whether strcpy has finished it
    isMention,             \* mq.isMention
    mentionCount,          \* gMentionCount
    mentionCountChanged,   \* gMentionCountChanged
    scrollback,            \* gScrollBack (its highlighted lines are gMentions)
    ui,                    \* the user's thread
    rx,                    \* the receiver threads
    session, received, views,   \* counts of what is bounded
    handed,                \* history: messages handed over since chat was entered
    crowded,               \* history: this session began while a receiver of
                           \* an earlier one was still running
    flagged,               \* history: a message to be highlighted has arrived
    mentions               \* history: how many have that are addressed to the user

shared   == <<inChat, paused, message, copied, isMention>>
counters == <<mentionCount, mentionCountChanged>>
bounds   == <<session, received, views>>
ghosts   == <<handed, crowded, flagged, mentions>>
vars     == <<shared, counters, scrollback, ui, rx, bounds, ghosts>>

UiSteps == {"menu", "top", "measure", "append", "clear", "unflag", "flags", "ack",
            "input", "open", "viewing", "reset"}
RxSteps == {"off", "recv", "count", "store", "call", "wait", "copy", "rest", "flag",
            "measure", "append", "next"}

\* What follows the view: nothing, or what the UP key still does.
Afterwards == {"top", "reset"}

NoLine == [msg |-> NoMsg, mention |-> FALSE, whole |-> FALSE]
Idle   == [pc |-> "off", sock |-> 0, msg |-> NoMsg, mention |-> FALSE, n |-> 0]

TypeOK ==
    /\ inChat \in BOOLEAN /\ paused \in BOOLEAN
    /\ message \in Messages \cup {NoMsg}
    /\ copied \in BOOLEAN /\ isMention \in BOOLEAN
    /\ mentionCount \in 0..MaxMessages
    /\ mentionCountChanged \in BOOLEAN
    /\ scrollback \in Seq(Lines)
    /\ ui \in [pc : UiSteps, line : Lines \cup {NoLine}, n : 0..MaxMessages, after : Afterwards]
    /\ rx \in [Sessions -> [pc : RxSteps, sock : 0..MaxSessions,
                            msg : Messages \cup {NoMsg}, mention : BOOLEAN,
                            n : 0..MaxMessages]]
    /\ session \in 0..MaxSessions /\ received \in 0..MaxMessages /\ views \in 0..MaxViews
    /\ handed \subseteq 1..MaxMessages /\ crowded \in BOOLEAN /\ flagged \in BOOLEAN
    /\ mentions \in 0..MaxMessages

Init ==
    /\ inChat = FALSE /\ paused = FALSE
    /\ message = NoMsg /\ copied = FALSE /\ isMention = FALSE
    /\ mentionCount = 0 /\ mentionCountChanged = FALSE
    /\ scrollback = <<>>
    /\ ui = [pc |-> "menu", line |-> NoLine, n |-> 0, after |-> "top"]
    /\ rx = [s \in Sessions |-> Idle]
    /\ session = 0 /\ received = 0 /\ views = 0
    /\ handed = {} /\ crowded = FALSE /\ flagged = FALSE /\ mentions = 0

\* addToScrollBack(): the line goes where the text ended when it was measured.
Appended(n, line) == Append(SubSeq(scrollback, 1, IF n < Len(scrollback) THEN n ELSE Len(scrollback)), line)

-----------------------------------------------------------------------------
(* The receiver. *)

Rx(s, from, to) == rx[s].pc = from /\ rx' = [rx EXCEPT ![s].pc = to]

\* A packet that processPacket() and processServerMessage() make a message of.
Receive(s) ==
    /\ rx[s].pc = "recv" /\ rx[s].sock = session /\ inChat
    /\ received < MaxMessages
    /\ received' = received + 1
    /\ \E kind \in Kinds :
         LET msg == [id |-> received + 1, kind |-> kind] IN
         /\ rx' = [rx EXCEPT ![s].pc = IF Addressed(msg) THEN "count" ELSE "call", ![s].msg = msg]
         /\ flagged' = (flagged \/ Addressed(msg) \/ Announced(msg))
         /\ mentions' = IF Addressed(msg) THEN mentions + 1 ELSE mentions
    /\ UNCHANGED <<shared, counters, scrollback, ui, session, views, handed, crowded>>

\* gMentionCount = gMentionCount + 1; gMentionCountChanged = true.
CountMention(s) ==
    /\ rx[s].pc = "count"
    /\ rx' = [rx EXCEPT ![s].pc = "store", ![s].n = mentionCount]
    /\ UNCHANGED <<shared, counters, scrollback, ui, bounds, ghosts>>

StoreMention(s) ==
    /\ Rx(s, "store", "call")
    /\ mentionCount' = rx[s].n + 1
    /\ mentionCountChanged' = TRUE
    /\ UNCHANGED <<shared, scrollback, ui, bounds, ghosts>>

\* Mutant: every message that is not a notice is a mention.
MentionArgumentLoose(kind) == kind # "notice"

\* The second argument of queueIncomingMessage(); for a message to the room
\* it is the global itself.
MentionArgument(kind) ==
    CASE kind = "notice"                -> FALSE
      [] kind \in {"direct", "renamed", "terminate"} -> TRUE
      [] kind \in {"room", "mention"}     -> mentionCountChanged

Queue(s) ==
    /\ rx[s].pc = "call"
    /\ rx' = [rx EXCEPT ![s].pc = IF paused THEN "measure" ELSE "wait",
                        ![s].mention = MentionArgument(rx[s].msg.kind)]
    /\ UNCHANGED <<shared, counters, scrollback, ui, bounds, ghosts>>

\* Mutant: the slot is taken whether or not it is empty.
WaitForNothing(s) ==
    /\ Rx(s, "wait", "copy")
    /\ UNCHANGED <<shared, counters, scrollback, ui, bounds, ghosts>>

\* Mutant: the slot counts as empty only when its flag is cleared, too.
WaitForSlotAndFlag(s) ==
    /\ message = NoMsg /\ ~isMention
    /\ Rx(s, "wait", "copy")
    /\ UNCHANGED <<shared, counters, scrollback, ui, bounds, ghosts>>

WaitForSlot(s) ==
    /\ message = NoMsg
    /\ Rx(s, "wait", "copy")
    /\ UNCHANGED <<shared, counters, scrollback, ui, bounds, ghosts>>

\* strcpy_s(): the first characters, then the rest.  If the first one has
\* been cleared in between, the rest lies behind an empty string.
CopyFirst(s) ==
    /\ Rx(s, "copy", "rest")
    /\ message' = rx[s].msg /\ copied' = FALSE
    /\ UNCHANGED <<inChat, paused, isMention, counters, scrollback, ui, bounds, ghosts>>

CopyRest(s) ==
    /\ Rx(s, "rest", "flag")
    /\ copied' = (message = rx[s].msg)
    /\ UNCHANGED <<inChat, paused, message, isMention, counters, scrollback, ui, bounds, ghosts>>

SetMention(s) ==
    /\ Rx(s, "flag", "next")
    /\ isMention' = rx[s].mention
    /\ handed' = handed \cup {rx[s].msg.id}
    /\ UNCHANGED <<inChat, paused, message, copied, counters, scrollback, ui, bounds, crowded, flagged, mentions>>

\* displayMessage() on the receiver's thread, chosen because chat was paused.
Measure(s) ==
    /\ rx[s].pc = "measure"
    /\ rx' = [rx EXCEPT ![s].pc = "append", ![s].n = Len(scrollback)]
    /\ UNCHANGED <<shared, counters, scrollback, ui, bounds, ghosts>>

AppendLine(s) ==
    /\ Rx(s, "append", "next")
    /\ scrollback' = Appended(rx[s].n, [msg |-> rx[s].msg, mention |-> rx[s].mention, whole |-> TRUE])
    /\ handed' = handed \cup {rx[s].msg.id}
    /\ UNCHANGED <<shared, counters, ui, bounds, crowded, flagged, mentions>>

\* recv() returns 0: the bridge has closed the connection, or chat was left
\* and entered again since this receiver began to wait.
ConnectionClosed(s) ==
    /\ rx[s].pc = "recv" /\ inChat
    /\ received < MaxMessages
    /\ received' = received + 1
    /\ rx' = [rx EXCEPT ![s].pc = "measure", ![s].mention = TRUE,
                        ![s].msg = [id |-> received + 1, kind |-> "closed"]]
    /\ UNCHANGED <<shared, counters, scrollback, ui, session, views, ghosts>>

\* Back to the top of the loop, which ends with the session; what is final
\* ends the session first.  The next read is from mrcSock as it is now.
NextRead(s) ==
    /\ rx[s].pc = "next"
    /\ inChat' = (inChat /\ ~Final(rx[s].msg))
    /\ rx' = [rx EXCEPT ![s] = IF inChat' THEN [Idle EXCEPT !.pc = "recv", !.sock = session]
                                         ELSE Idle]
    /\ UNCHANGED <<paused, message, copied, isMention, counters, scrollback, ui, bounds, ghosts>>

\* recv() returns after chat has been left.
ReadEnds(s) ==
    /\ rx[s].pc = "recv" /\ ~inChat
    /\ rx' = [rx EXCEPT ![s] = Idle]
    /\ UNCHANGED <<shared, counters, scrollback, ui, bounds, ghosts>>

Receiver(s) ==
    \/ Receive(s) \/ CountMention(s) \/ StoreMention(s) \/ Queue(s)
    \/ WaitForSlot(s) \/ CopyFirst(s) \/ CopyRest(s) \/ SetMention(s)
    \/ Measure(s) \/ AppendLine(s) \/ ConnectionClosed(s) \/ NextRead(s) \/ ReadEnds(s)

-----------------------------------------------------------------------------
(* The user's thread. *)

Ui(from, to) == ui.pc = from /\ ui' = [ui EXCEPT !.pc = to]

EnterChat ==
    /\ session < MaxSessions
    /\ Ui("menu", "top")
    /\ session' = session + 1
    /\ inChat' = TRUE
    /\ rx' = [rx EXCEPT ![session + 1] = [Idle EXCEPT !.pc = "recv", !.sock = session + 1]]
    /\ crowded' = \E s \in Sessions : rx[s].pc # "off"
    /\ handed' = {}
    /\ UNCHANGED <<paused, message, copied, isMention, counters, scrollback, received, views, flagged, mentions>>

\* displayMessage(mq.message, mq.isMention), when there is a message.
TakeMessage ==
    /\ ui.pc = "top" /\ message # NoMsg
    /\ ui' = [ui EXCEPT !.pc = "measure",
                        !.line = [msg |-> message, mention |-> isMention, whole |-> copied]]
    /\ UNCHANGED <<shared, counters, scrollback, rx, bounds, ghosts>>

NoMessage ==
    /\ message = NoMsg
    /\ Ui("top", "flags")
    /\ UNCHANGED <<shared, counters, scrollback, rx, bounds, ghosts>>

MeasureShown ==
    /\ ui.pc = "measure"
    /\ ui' = [ui EXCEPT !.pc = "append", !.n = Len(scrollback)]
    /\ UNCHANGED <<shared, counters, scrollback, rx, bounds, ghosts>>

AppendShown ==
    /\ ui.pc = "append"
    /\ scrollback' = Appended(ui.n, ui.line)
    /\ ui' = [ui EXCEPT !.pc = "clear", !.line = NoLine, !.n = 0]
    /\ UNCHANGED <<shared, counters, rx, bounds, ghosts>>

\* Mutant: the message stays in the slot.
ClearNothing ==
    /\ Ui("clear", "unflag")
    /\ UNCHANGED <<shared, counters, scrollback, rx, bounds, ghosts>>

ClearMessage ==
    /\ Ui("clear", "unflag")
    /\ message' = NoMsg /\ copied' = FALSE
    /\ UNCHANGED <<inChat, paused, isMention, counters, scrollback, rx, bounds, ghosts>>

ClearMention ==
    /\ Ui("unflag", "flags")
    /\ isMention' = FALSE
    /\ UNCHANGED <<inChat, paused, message, copied, counters, scrollback, rx, bounds, ghosts>>

ShowCount ==
    /\ ui.pc = "flags"
    /\ ui' = [ui EXCEPT !.pc = IF mentionCountChanged THEN "ack" ELSE "input"]
    /\ UNCHANGED <<shared, counters, scrollback, rx, bounds, ghosts>>

\* Mutant: what was counted is taken to have been seen, too.
AckAndReset ==
    /\ Ui("ack", "input")
    /\ mentionCountChanged' = FALSE /\ mentionCount' = 0
    /\ UNCHANGED <<shared, scrollback, rx, bounds, ghosts>>

AckCount ==
    /\ Ui("ack", "input")
    /\ mentionCountChanged' = FALSE
    /\ UNCHANGED <<shared, mentionCount, scrollback, rx, bounds, ghosts>>

\* od_get_input() times out.
NoKey ==
    /\ Ui("input", "top")
    /\ UNCHANGED <<shared, counters, scrollback, rx, bounds, ghosts>>

\* The key, or /scroll, that opens the scrollback; the UP key opens the
\* mentions and resets their count afterwards.
View ==
    /\ ui.pc = "input" /\ inChat /\ views < MaxViews
    /\ views' = views + 1
    /\ paused' = TRUE
    /\ \E after \in {"top", "reset"} : ui' = [ui EXCEPT !.pc = "viewing", !.after = after]
    /\ UNCHANGED <<inChat, message, copied, isMention, counters, scrollback, rx, session, received, ghosts>>

\* /mentions resets the count first.
MentionsCommand ==
    /\ ui.pc = "input" /\ inChat /\ views < MaxViews
    /\ views' = views + 1
    /\ mentionCount' = 0
    /\ ui' = [ui EXCEPT !.pc = "open"]
    /\ UNCHANGED <<shared, mentionCountChanged, scrollback, rx, session, received, ghosts>>

OpenMentions ==
    /\ Ui("open", "viewing")
    /\ paused' = TRUE
    /\ UNCHANGED <<inChat, message, copied, isMention, counters, scrollback, rx, bounds, ghosts>>

StopViewing ==
    /\ ui.pc = "viewing"
    /\ ui' = [ui EXCEPT !.pc = ui.after, !.after = "top"]
    /\ paused' = FALSE
    /\ UNCHANGED <<inChat, message, copied, isMention, counters, scrollback, rx, bounds, ghosts>>

ResetCount ==
    /\ Ui("reset", "top")
    /\ mentionCount' = 0
    /\ UNCHANGED <<shared, mentionCountChanged, scrollback, rx, bounds, ghosts>>

\* /quit, or any key once the session has ended: the buffers are freed and
\* the user is back at the menu.  mq keeps what it holds.
LeaveChat ==
    /\ Ui("input", "menu")
    /\ inChat' = FALSE
    /\ scrollback' = <<>>
    /\ mentionCount' = 0
    /\ UNCHANGED <<paused, message, copied, isMention, mentionCountChanged, rx, bounds, ghosts>>

UserThread ==
    \/ EnterChat \/ TakeMessage \/ NoMessage \/ MeasureShown \/ AppendShown
    \/ ClearMessage \/ ClearMention \/ ShowCount \/ AckCount \/ NoKey
    \/ View \/ MentionsCommand \/ OpenMentions \/ StopViewing \/ ResetCount \/ LeaveChat

Next == UserThread \/ \E s \in Sessions : Receiver(s)

Spec == Init /\ [][Next]_vars

\* Both threads keep running; the user need never press a key.
UserThreadRuns ==
    \/ TakeMessage \/ NoMessage \/ MeasureShown \/ AppendShown \/ ClearMessage
    \/ ClearMention \/ ShowCount \/ AckCount \/ NoKey \/ OpenMentions \/ ResetCount

ReceiverRuns(s) ==
    \/ CountMention(s) \/ StoreMention(s) \/ Queue(s) \/ WaitForSlot(s) \/ CopyFirst(s)
    \/ CopyRest(s) \/ SetMention(s) \/ Measure(s) \/ AppendLine(s) \/ NextRead(s)

FairSpec == Spec /\ WF_vars(UserThreadRuns) /\ \A s \in Sessions : WF_vars(ReceiverRuns(s))

-----------------------------------------------------------------------------
Shown == {scrollback[k].msg.id : k \in DOMAIN scrollback}

\* No message is shown twice, although the thread that shows it clears it
\* only afterwards (doChatRoutines, mq).
ShownOnce ==
    \A k, l \in DOMAIN scrollback : scrollback[k].msg = scrollback[l].msg => k = l

\* The receiver leaves the scrollback to the user's thread: chat has not been
\* paused, no receiver is left of an earlier session, the connection stands.
OneWriter ==
    /\ inChat /\ views = 0 /\ ~crowded
    /\ \A s \in Sessions : rx[s].msg.kind # "closed"

\* As long as only the user's thread writes the scrollback, a message handed
\* over has been shown or is the one in the slot: the next never overwrites it
\* (queueIncomingMessage waits for the slot, doChatRoutines empties it last).
NotOverwritten == OneWriter => handed \subseteq Shown \cup {message.id}

\* A message is highlighted without being addressed to the user only if it
\* tells of a new name or of the session's end, or after one that was to be highlighted: the flags that
\* processPacket and mq keep may be those of an earlier message.
HighlightHasCause ==
    \A k \in DOMAIN scrollback :
        scrollback[k].mention =>
            Addressed(scrollback[k].msg) \/ Announced(scrollback[k].msg) \/ flagged

\* gMentionCount never says more than there were, although two receivers may
\* have read it before either stores it and a reset may fall in between; and
\* until the user first looks at a buffer or leaves it misses none.
Counting == {s \in Sessions : rx[s].pc \in {"count", "store"}}

MentionsCounted ==
    /\ mentionCount + Cardinality(Counting) <= mentions
    /\ session = 1 /\ views = 0 /\ ui.pc # "menu" => mentionCount + Cardinality(Counting) = mentions

\* A receiver waiting for the slot gets it, unless the user pauses chat or
\* leaves (queueIncomingMessage, doChatRoutines).
ReceiverReleased ==
    \A s \in Sessions : rx[s].pc = "wait" ~> (rx[s].pc # "wait" \/ paused \/ ~inChat)

-----------------------------------------------------------------------------
\* helpmentions.txt: every time someone mentions the user or sends a direct
\* message, the message is highlighted and stored to the mention buffer.
MentionsStored ==
    \A k \in DOMAIN scrollback : Addressed(scrollback[k].msg) => scrollback[k].mention
=============================================================================
