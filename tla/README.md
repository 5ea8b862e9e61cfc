# uMRC, modelled and checked

uMRC connects a bulletin board to the Multi Relay Chat network.  **umrc-bridge**
(`src/umrc-bridge/bridge.c`) is a daemon: it keeps one connection to the MRC
host and relays packets between it and the local clients.  **umrc-client**
(`src/umrc-client/main.c`) is a door program, one process per chatter, that
talks to the bridge over a local socket.  Both use `src/common/common.c`.

Everything in both programs is threads that share globals, **without a lock**
(but for the chatters' roster and the twit list in the client), and byte streams that TCP may cut
anywhere.  That is where a test hardly reaches, and what this directory is about:
TLA+ modules translated from the source, small instances that TLC checks, and
theorems that TLAPS proves for every value of the constants.

Line numbers are those of the source file named in the same paragraph.


## 1. The system

### 1.1 Components, their state and their operations

| Component | State | Operations |
|---|---|---|
| Bridge: table of local clients | `clients[MAX_CLIENTS]` (socket, chatter name) | `waitProcess` accepts and claims a slot, `clientProcess` names and clears it, `sendToLocalClients` walks the table |
| Bridge: connection to the host | `mrcHostSock`, `mrcHostSsl`, `usingSSL`, `gConnectionIsDown`, `gReconnect`, `gHasConnected`, `gRetry` | `main`'s retry loop, `mrcHostProcess`, `performSslHandshake`, HELLO and GOODBYE in `processPacket`, the three `send…Packet` functions |
| Bridge: framing of the host's stream | `partialPacket` (local to `mrcHostProcess`) | the receive loop, `split`, `countOfChars` |
| Bridge: one client's stream | `thisUser`, `cleanLogoff` (locals of `clientProcess`), `clients[pSlot].chatter` | the receive loop of `clientProcess` |
| Bridge: latency | `lt[]`, `gLatency` | filled by the senders of every thread, searched and cleared by `processPacket` |
| Client: framing of the bridge's stream | `pending` (local to `handleIncomingMessages`) | the receive loop |
| Client: message slot, scrollback, mentions | `mq`, `gScrollBack`, `gMentions`, `gMentionCount`, `gMentionCountChanged`, `gIsChatPaused`, `gIsInChat` | `queueIncomingMessage`, `displayMessage`, `addToScrollBack`, `enterScrollBack`, `doChatRoutines`, `enterChat` |
| Client: room, topic, nick | `gRoom`, `gTopic`, `user.chatterName` | `processServerMessage`, `processPacket`'s routing, `/join`, `/topic` |
| Client: chat in chunks | none beyond the call | `sendChatMessage` |
| Client: twit list | `gTwitFile`, `gTwits`, `gTwitCount` (under `gChattersLock`, mostly) | `loadTwits`, `checkTwit`, `addTwit`, `removeTwit`, `/twit clear` |
| Client: chatters' roster | `gChattersInRoom` (under `gChattersLock`) | USERLIST, TAB completion |
| Client: CTCP, screen, input line, menus | what is on the screen | OpenDoors calls |
| Setup | the configuration record | a questionnaire |

### 1.2 How they interact

```
   MRC host  --TCP/TLS-->  mrcHostProcess (main thread) --processPacket--> sendToLocalClients
      ^                        |  globals: usingSSL, mrcHostSsl, mrcHostSock     |  clients[]
      |                        v                                                 v
      +------ sendHostPacket, one clientProcess thread per client  <--TCP--  umrc-client
                                                                   ---------> handleIncomingMessages
   waitProcess (accept thread) claims clients[i] and starts clientProcess          |  mq
                                                                                   v
                                                                            doChatRoutines (user)
```

* The main thread, the accept thread and the client threads of the bridge share
  `clients[]` and the host connection's globals, with no lock at all.
* The client's receiver hands messages to the user's thread through the
  one-message slot `mq`; while the user looks at a buffer (`gIsChatPaused`) the
  receiver writes the scrollback itself.
* Packets are lines of seven `~`-separated fields.  Bridge and client each have
  a reader of their own, with different rules for what a read has cut.

### 1.3 What is hard, and what makes each part correct

* **The table** changes hands one field at a time.  Correct means: a slot has one
  owner, nobody is refused while there is room, a packet reaches whoever it is
  for and whose slot did not change, exactly once, and who has said who it is can be
  found by that name.
* **The host connection** is written to by threads that do not know that it is
  being torn down.  Correct means: while the bridge calls itself connected,
  what a sender reads is usable; the local clients are told of a lost and
  replaced connection; the number of attempts is the documented one; the bridge
  does get connected again.
* **A client's stream**: the host hears of each departure, by the client's LOGOFF or by the
  bridge's notice.
* **The streams**: no packet is spliced from two, lost or handled twice, however
  the reads fall and connections are lost.
* **The slot `mq`**: nothing is shown twice or overwritten, the receiver
  is not stuck, what is addressed to the user is highlighted.
* **Room and name** are kept by the client, the bridge and the server, each of
  which hears of a change from another.  Correct means: when nothing is under way
  they agree, nothing addressed to the user is missed and nothing he says goes astray, also
  after the bridge had to reconnect.
* **A long message** arrives whole, in order, and with its words whole.
* **The latency table** is written by every thread; its search must find what was
  sent, and what is announced must be a time somebody waited.
* **The twit list** lives in a file and in memory that one thread replaces while the
  other reads it: nobody reads what is not the list, what is in the file is what the user asked for.

`PROJECT.json` lists the hazards one by one, at their lines, with the properties
that would catch them.


## 2. The modules

| Module | Models | Extends or implements |
|---|---|---|
| `Admission` | the abstract promise to whoever connects: a seat of one's own or a justified refusal | |
| `BridgeSlots` | `clients[]`, `waitProcess`, `clientProcess`, `sendToLocalClients` | implements `Admission` |
| `BridgeSlotsProofs` | theorems about it | `BridgeSlots`, TLAPS |
| `BridgeHost` | `main`, `mrcHostProcess`, the senders | |
| `PacketStream` | a byte stream of packets, `recv`, `split`, `countOfChars`, `strstr` for a tilde | |
| `LineStream` | the abstract reader: every packet, whole, once, in order | |
| `BridgeFraming` | the receive loop of `mrcHostProcess` | `PacketStream` |
| `ClientFraming` | the receive loop of `handleIncomingMessages` | `PacketStream`, implements `LineStream` |
| `FramingProofs` | theorems about both readers | `BridgeFraming`, `ClientFraming`, TLAPS |
| `BridgeInbound` | the receive loop of `clientProcess`, from bytes to name, logoff and forwarding | |
| `BridgeProofs` | theorems about the bridge's two ends | `BridgeHost`, `BridgeInbound`, TLAPS |
| `ClientInbox` | the receivers and the user's thread around `mq`, scrollback and counters | |
| `ClientInboxProofs` | theorems about it | `ClientInbox`, TLAPS |
| `ClientSession` | the user's room and name in client, bridge and server, and what is said in it | |
| `ClientSessionProofs` | theorems about it | `ClientSession`, TLAPS |
| `ChatChunks` | `sendChatMessage` | |
| `ChatChunksProofs` | theorems about it | `ChatChunks`, TLAPS |
| `BridgeLatency` | `lt[]`, its writers and its reader | |
| `BridgeLatencyProofs` | theorems about it | `BridgeLatency`, TLAPS |
| `ClientTwits` | the twit list in file and memory | |
| `ClientTwitsProofs` | theorems about its memory and its file | `ClientTwits`, TLAPS |
| `MC…` | constants of the small instances | |

### 2.1 BridgeSlots

`sock` and `chatter` are the fields of `clients[]`.  `waitPc`, `waitConn`,
`waitIdx` are the accept thread (`newSock`, `i`); `pc`, `slotOf`, `thisUser`
the client threads (`pSlot`, `thisUser`), `hostPc`, `pkt`, `hostIdx` the walk of
`sendToLocalClients`.  A step is what one thread does between two accesses to
the table (one access of the table per step).

* `Accept`, `SkipSlot`, `Claim`, `NoMemory`, `CreateThread`, `EndScan`, `Reject`
  are lines 610-652 of bridge.c: the scan looks at one slot per step, so slots may be freed
  behind it.  `pthread_create`'s result is not looked at in the code, so
  `CreateThread` may leave a connection `"stillborn"`: seated, and read by nobody.
* `Identify`, `NickChanged`, `FinishNaming`: the name is copied byte by byte while others compare it,
  so it is `Torn` between two steps, and a torn name may match anything.
* `EndOfStream`, `ClearSock`, `ClearName` are 509-518, in that order: the slot is
  free for others from the second step on, and its name is cleared by the third, with
  which the thread and its locals end (`EndThread`).
* `HostPacket`, `CheckSlot`, `SendToSlot`, `ScanDone` are 415-427; the socket is read
  once for the condition and again for the send.
* `excuse`, `got`, `steady` and `heirs` are history: whether a refusal is justified, copies of the
  present packet, connections whose slot has not changed since it was taken up, and connections that got
  a slot whose last thread had its name still to clear (`Leaving`), until they are named again.
* What the host is told of a client that leaves depends on the reads of its stream, and is
  `BridgeInbound`'s.

A connection stands for its socket: `clientProcess` never closes `pSock`, so the
descriptor of a served connection is not given to another one.

### 2.2 BridgeHost

`pc` is the main thread in `main` (1259-1276) and `mrcHostProcess` (876-1152); a step
ends where it has written one of `usingSSL`, `mrcHostSsl`, `mrcHostSock`, because
a client thread may read them there.  A client thread reads `usingSSL`
(`ReadUsingSSL`), then the pointer (`ReadPointer`), then writes (`Write`, or
`WriteKills` when the pointer is stale or the pipe broken: nothing handles SIGPIPE).
A write that fails is reported (`WriteFails`, `Report`, 361-367), for which `usingSSL` and the
pointer are looked at once more (`ReportKills`).
`maxRetries` is `-R`'s value, chosen at the start from `RetryLimits`.
History: `attempts` since the last connection, `steady` (senders that began while
the connection was up, and it has been up since).

### 2.3 PacketStream, BridgeFraming, ClientFraming, LineStream

A packet is cut down to four pieces with 0, 3, 3 and 1 tildes, which is what the
readers' tests tell apart: a piece without any tilde, pieces with fewer than
six.  `packets` are the tokens of a read still to be looked at and `processed` what
`processPacket` was called with, in either reader.  `Received` is any non-empty prefix of the wire that fits the buffer, so TCP
joins and cuts as it likes.  `Lose` drops what is under way with the connection.
`BridgeFraming` looks at one token per step (`Capture`, `SkipToken`, `ProcessToken`),
as the loop of 1052-1095 does.  `ClientFraming` keeps what follows the last
line feed.

`enterChat` starts one receiver per session and joins none (main.c:2628), so `ClientFraming` has a
receiver for each session, `at[r]` where it is, `pending[r]` and `packets[r]` its locals.  `mrcSock`
is a global: `CallRecv` notes in `sock[r]` whose socket it was at the call, `Read` is a `recv` on the present
one, `ReadOld` on one that was closed meanwhile (`leftover` is what had arrived there).  A receiver that is held up while the
user leaves and comes back finds `gIsInChat` set again and reads the new session's stream beside the new
receiver, with what it had kept; and it ends that session when its old socket turns out closed
(`Closed`).  History: `shared` (a receiver of an earlier session has called `recv` on this one's socket), `processed` (what a session's
own receiver has handed on before that; the refinement of `LineStream` speaks of that, and `lost` of `LineStream` is
refined by the packets that are `Gone`).

### 2.4 BridgeInbound

`clientProcess` takes a read for a packet (458): it splits the whole read at `~`, takes
the first field for the name and looks for `~SERVER~~~LOGOFF~` and
`~SERVER~~~NICKCHANGED:` anywhere in it.  The model's packets are pieces such
that a read may begin and end between any two of them.  `Field6Arguments` are the names that field[6] of a read may
give: the new one, `Junk` for some other text, and any at all when the read has fewer than
seven fields, because 490-494 do not look at `fieldCount`; that look outside of the array may also end the
process (`ReadOutOfBounds`, `died`).

### 2.5 ClientInbox

`message`, `copied` and `isMention` are `mq`: `strcpy_s` takes two steps
(`CopyFirst`, `CopyRest`), the flag a third (`SetMention`), as
`queueIncomingMessage` writes them.  `ui` is the user's thread, `rx[s]` the
receiver started by session `s`.  A receiver is never joined (2628): one that
waits for the slot when the user leaves goes on waiting, and its next `recv` is
from the *new* session's socket, because `mrcSock` is a global; so `rx[s].sock`
is the session whose socket the receiver reads.  A receiver whose old socket is closed
while a new session runs reports "Connection closed" and ends that session
(`ConnectionClosed`, 2127-2139).  `addToScrollBack` measures, then writes
(`Measure`/`AppendLine`, `MeasureShown`/`AppendShown`), so two threads may write
to the same place; `gMentionCount` is read, then stored (`CountMention`/`StoreMention`).  `mentions` is history: how many
messages addressed to the user have been received.

### 2.6 ClientSession

The components above meet in what they know of one user: `gRoom` and
`chatterName` are the client's, `slotName` the bridge's, `srvRoom` and `srvName` the
server's (external: `src/` has no server, so it does what the client's and the bridge's code take
it to do).  `up`, `fromHost`, `down` are the streams between them.

* `Join`, `Joined` are the two halves of `/join` (main.c:1605-1612): NEWROOM is sent, then `gRoom` is
  written.  `Say`, `SayRest` are a message of two packets, sent to the room `gRoom`
  holds at each of the two moments.
* `TakeUserRoom`, `TakeUserNick` with `AnnounceNick`, `TakeReconnect` with `Rejoin`
  are `processServerMessage`, `TakeLine` is the routing of `processPacket`, `StillHere` the IAMHERE
  the receiver repeats every minute.
* `NickChanged`, `SendFails` and the `Server…` actions are what `clientProcess`
  does with a packet, `Route` is `sendToLocalClients` for this user's slot, `Drop`,
  `Reconnects`, `Hello` the connection to the host, as `BridgeHost` has it in detail.
* `Kept[n]` is what is left of the name `n` in `thisUser`, which is 6
  characters shorter than `chatter`; one of the names in the run is too long for it.
* `KeptRoom[r]` is what is left of a room's name in `gRoom[30]`: `/join` sends up to 30 characters
  (`newRoom[31]`) and keeps 29 (1612), and so does USERROOM (1814).  One of the rooms in the run is too long, and
  its cut form is a room of its own.  `RoomFits` is the test.
* History: `overtaken` (a `/join` wrote `gRoom` after its answer had been obeyed),
  `roomLost` and `nickLost` (an order the bridge could not deliver; `nickLost` also when the server
  took the user's name from an introduction that was out of date, `Outdated`), `calm` on a packet (said while
  the rooms agreed), `missed` and `stray` (a line that was not shown, or not said where the user is,
  without such an excuse).

### 2.7 ChatChunks

A text is a sequence of spaces and letters.  `Measure` is the head of the loop (main.c:1002-1008),
`SeekOn`/`SeekEnds` look for the last space in the window, `Send` is one packet,
`SkipSpace`/`SkipEnds` are the loop over the spaces behind it and the loop's condition.
`chunks` records where in the text each packet began and how much it took.

### 2.8 BridgeLatency

`lt` is the table; every thread that sends looks for the first free entry
(`LookTaken`, `LookFree`) and writes its four fields one at a time (`WriteEntry`, bridge.c:280-287, with
the clock read before the time is stored); the main thread looks for an entry like the packet it
received (`ScanOn`, `ScanFound`, `ScanEnds`), announces its age (`Measure`) and clears the
table field by field (`Clear`, 230-237).  A checksum and a length are one *mark*:
what matters is whether two packets have the same.  `order` is history: it is
`"kept"` while no two threads have been at the table at once, and again after
a clearing that nobody ran into.

### 2.9 ClientTwits

`file` is `gTwitFile`, `heap` the blocks of memory that `split` hands out, `live` those that
are not freed, `gTwits` and
`gTwitCount` the list.  `split` stores straight into `gTwits`: first a null
pointer, then the block, and its caller sets the count (`SplitNull`, `SplitArray`, `SplitCount`); `loadTwits` does
that under the lock and frees the old block after it (`FreeOld`), `/twit clear` does
it without a lock and frees nothing (main.c:1704).  The receiver reads one entry per step
(`CheckNext`); a read of what is not in the list's block is `CheckBad`, undefined in C, and stops
the model.  `SessionEnds` may come at any step of a command.  Opening the file, for reading as for
writing, may fail, and so may the allocations: in `LoadRead` the list stays as it is, in `SplitArray` lines are
left out (1414-1418: a line for which `realloc` finds no memory), in `SplitFails` there is no list.  History: `wanted` (the
names whose command the user gave last was to add them), `lost` (the file was not
written, or was written from a list that could not be read), `unread` (the list may lack some of the file),
`twice` (a name was added while it did), `dropped` (blocks `/twit clear` leaked).


## 3. The runs

| Run | Asks | Instance |
|---|---|---|
| `BridgeSlots_safe` | slots, names, refusals and deliveries at every interleaving | 3 connections (symmetric), 2 names, 2 slots, a direct and a not-me packet; 0.9 M states |
| `BridgeSlots_live` | is everybody answered, is every slot released, and does the table implement `Admission`? | 3 connections, 2 slots, no packets |
| `BridgeHost_link` | connecting, losing, retrying, with a sender in between; is it connected again? | TLS, no limit and `-R2`, 2 addresses, 1 sender |
| `BridgeFraming_reads` | every way of cutting the host's stream | 3 packets, 1 lost connection |
| `ClientFraming_reads` | the same for the client; implements `LineStream` | 3 packets, 2 sessions whose receivers may overlap |
| `BridgeInbound_reads` | every way of cutting a client's stream | 4 packets of 3 kinds |
| `ClientInbox_chat` | message slot, scrollback, flags over two sessions; is the receiver released? | 2 messages of 3 kinds, 1 view, 2 sessions |
| `ClientInbox_mentions` (violation) | is what names the user highlighted and stored? | 2 messages |
| `ChatChunks_split` | is every text sent whole, in order, its words whole, and does the loop end? | all texts of up to 10 characters, a window of 4 |
| `ClientSession_rooms` | do client, bridge and server agree on room and name; is anything missed or astray; back in a room after a reconnect? | 3 rooms, 3 names (one of each too long), 4 events out of a join, a move, renamings, lines, a repeated IAMHERE and up to 2 lost connections; 1.5 M states |
| `BridgeLatency_table` | what are the search and the announced latency worth? | 2 entries, main thread and 1 client, 2 marks; 2.2 M states |
| `ClientTwits_list` | file and list through commands and ended sessions, with a receiver that reads | 2 names (symmetric), 3 commands, 2 ended sessions; 3.8 M states |

### 3.1 What the passing runs show

* `SlotOwnership`: who holds a slot finds its own socket in it, and the reverse.
* `RejectedOnlyWhenFull`: slots are freed while the table is scanned, yet a client is turned away
  only if all were taken when its turn came, or for want of memory.
* `StaleNameOnlyWhileLeaving`: a foreign name in an occupied slot is that of a thread
  which is about to clear it, never an older one.
* `NameLostOnlyByHeirs`: who has said who it is has its name in its slot, but for whoever was given a slot whose last
  thread was about to clear it.
* `SteadyClientsServed`: whoever keeps its slot during a
  walk gets the packet exactly if it is an addressee; nobody gets it twice.
* `Served`, `ImplementsAdmission`: whoever connects is seated or refused, whoever is gone gives its slot back; see `Admission`.
* `UpMeansUsable`, `SteadySendsReach`: while `gConnectionIsDown` is FALSE, everything a sender reads
  is in order, and a send within that time takes the configured way.
* `FirstTriesExact`, `Reconnects`: ten attempts at first, none more and none less; without
  a limit, a replacement in the end.
* `OnceInOrder`, `WholeUnlessHeadless`: the bridge never splices, repeats or reorders; a
  packet is mishandled only if a read held no line feed.
* `PendingIsUnfinished`, `DeliversLines`: the client's reader is right however reads fall, as long as no
  receiver of an earlier session reads along.
* `ExactWhenAligned`, `AnnouncedOnlyIfCut`: what `clientProcess` guarantees
  when reads are packets, and what it still guarantees when they are not.
* `SparedOnlyIfForwarded`: whoever is spared the notice of a disconnection has logged off, and his LOGOFF went on to the host,
  unless a name change in the same read kept it back.
* `ShownOnce`, `NotOverwritten`, `HighlightHasCause`, `ReceiverReleased`: the hand-over through `mq`.
  `ShownOnce` holds even with two receivers; `NotOverwritten` needs one.
* `MentionsCounted`: `gMentionCount` never says more than there were, although nothing protects it, and misses
  none before the user first opens a buffer or leaves chat.
* `SaidOnceInOrder`, `WordsKeptWhole`, `PacketsFilled`, `MovesOn`: no letter is lost, repeated or moved; a
  word that fits into a packet is not torn; a packet without text is only ever the
  first one; a packet ends early only where the next word would not have fitted.
* `RoomAgrees`, `NamesAgree`: with nothing under way, client, bridge and server have
  the same room and name, as far as their buffers hold them, whatever crossed on the way.  The exceptions the code
  leaves are named: an overtaken `/join`, an order addressed to a name the bridge does not know yet, an
  introduction that was out of date when the server read it.
* `NothingMissed`, `NothingAstray`: outside of a change of room or name every line reaches the
  user, and what he says while the rooms agree arrives where he is, if the room and the name fit.
* `Rejoined`: after RECONNECT the user is back in a room without doing anything.
* `WholeAtRest`, `NothingOverlooked`, `LatencyPlausible`: while threads keep out of each other's way the table
  is a row of whole entries, the search may stop at the first free one, and the
  latency is the age of something sent since the last measurement.  After a collision none of
  this holds, and one clearing that nobody runs into restores all of it.
* `BadReadOnlyInClear`, `OneListOwned`: `/twit clear` is the only command during which the receiver may
  read what is not the list, and the only one that leaks it.
* `NobodyTwice`: `/twit add` looks the name up in memory, not in the file it appends to, and yet no name gets in twice, unless the list could not be read.
* `FileAsWanted`, `TwitsHidden`: the file holds what the user asked for, unless it could not be written, was written from a list
  that could not be read, or a session ended before it was; a message is hidden exactly if its sender is on that
  list, while the file can be read and written.

### 3.2 The bounds, and why they are enough

Three connections and two slots are the least with which a slot changes hands
while another client waits, is refused, and a third is being served.  Two names let
a direct message find its addressee or not; a packet to everybody is left out
of the run because it differs from "not me" for the sender only.  One sender is
enough for the link: senders only share what the main thread writes.  Two is the
least limit of retries with which a reconnection is attempted at all, 0 the
case without a limit.  In the streams a packet of four pieces can be cut before,
inside and after the tildes that matter, three packets allow one to be whole between
two that are cut, and a lost connection may fall anywhere.  For the client `MaxDrops` is the number of sessions: two are
what it takes for a receiver to meet the one of another session, and three packets leave the second
session one to be cut after a cut one in the first (one more of either takes TLC longer than five minutes).  Two messages fill
the slot and make the receiver wait; a second session is where a receiver
of the first may still run.  Counters that only grow (`got`, `attempts`, `gRetry`)
are compared with small numbers only; `CountCap` bounds the last two, `MaxPackets`,
`PacketCount`, `MaxDrops`, `MaxMessages`, `MaxViews`, `MaxSessions`, `MaxAddrs`
are bounds of the environment.

In `ChatChunks` a window of four has room for two words with a space between,
for one that fills it and for one that is longer; ten characters are two windows and a
rest.  In `ClientSession` each kind of event has its bound (`MaxJoins`, `MaxSays`,
`MaxMoves`, `MaxRenames`, `MaxDrops`, `MaxChats`, `MaxHeres`) and all together have
`MaxEvents`: a join may cross a move, two renamings overtake each other, and
lost connections may fall between any of them.  Three rooms are the default one, one whose name `gRoom` cannot hold, and the one
it becomes.  Two connections may be lost, or one with a repeated IAMHERE: that is what it takes
for the server to read an introduction that is out of date, an exception to `NamesAgree` that no earlier bound showed and the attempt to
prove it did.  In `BridgeLatency` two entries are a first and a last
one, `MaxTime` tells an entry of before a match from one after it.  With `MaxTime` 2, with two client threads
and one mark, and with three entries and one mark the same properties were
checked too (2.1 to 7.8 M states); the run keeps the smallest instance in which each of them can fail.
In `ClientTwits` `MaxCommands` lets a name be added, removed and added again, or a clearing fall between;
`MaxEnds` ends the sessions in which that happens.  Names are only compared with each other, so they are
interchangeable.

`BridgeLatency_table` checks deadlock; the other runs do not: there clients may
stay silent, streams end and programs exit.

### 3.3 Fairness

* `BridgeSlots`: the accept thread and each client thread take their next step
  unless they wait for their peer (weak fairness; nothing else disables a step for
  good).  Clients are free to stay and say nothing.
* `BridgeHost`: the main thread runs (weak), and an attempt that is made again
  and again succeeds some time (strong, for the name, the socket, the connection, the
  handshake and the greeting).  That a host comes back is an assumption about
  the network; without it no program could be connected again.
* `ClientInbox`: both threads run (weak); the user need never press a key.
* `ClientSession`: the receiver, the bridge's threads, the second half of what the user's thread began, and the
  return of the host run (weak).  Nobody has to join, say or move anything.

### 3.4 The violation

`ClientInbox_mentions` checks what helpmentions.txt:3-5 says, that every mention is highlighted and stored
(`MentionsStored`), and TLC finds it violated: the flag that means "redraw the counter" is passed as "this is a mention" (main.c:2031), and is
cleared by the other thread (2180-2182); and text and flag of `mq` are written
apart (1525-1526).  `PROJECT.json` quotes the lines.

### 3.5 Further divergences met while modelling

Eight of them contradict a sentence of the repository.  Each was stated as an invariant of its module and found violated
by TLC while modelling; what the code does promise instead is among the properties of the runs.

* bridge.c:487-489 says of a slot's name "so routing can continue": 517 frees the slot before 518 clears its name, and in
  between a new client may have claimed it and written its name, which is then erased.  `NameLostOnlyByHeirs` says that
  this is the only way to lose a name.
* changelog.txt:323-324 says "any users logged in will be notified": after GOODBYE (bridge.c:850) the
  receive loop does not set `gReconnect` (1130), so the next HELLO notifies nobody.
* readme.txt:168-169 says of `-Rx` "x is the number of retries": `gRetry` counts the sleep after the lost
  connection too, which leaves x - 1 attempts (bridge.c:1261-1264).  `RetriesExact` is the theorem about the code's own count.
* changelog.txt:242-243 says that no notice is needed "if their exit was already announced": what a
  read holds besides a NICKCHANGED is not sent on (bridge.c:503-505), a LOGOFF among it, and yet it counts as announced.
  `SparedOnlyIfForwarded` says that this is the only case, up to a `sendHostPacket` that fails.
* main.c:2085-2086 says "only split complete lines": a receiver that survives its session
  (2628) reads the next one's stream beside the new receiver, with what it had kept in front.  `DeliversLines` ends where that begins.
* main.c:1813 says "Client must enforce or routing will break": `/join` sends 30 characters and `gRoom`
  keeps 29 (1600-1612, 1814), so that the client hides what is said in a room of a longer name and speaks to another.
* The same comment: the server's answer to a `/join` may be obeyed before `/join` writes `gRoom` itself
  (1611-1612); a server that put the user elsewhere is overruled (`overtaken`).
* main.c:1473 says "ommitting the one to be deleted": `removeTwit` deletes the file, sleeps and writes it again from
  memory (1477-1497): a session that ends in between, a file that cannot be opened, a list that
  could not be read (1401-1418) each lose the other twits (`lost`).

The rest are behaviours of the models too, but for those of the screen and the input line.

* A read without any line feed is not kept (bridge.c:1058, `pktCount > 1`), although 1055-1057 mean to keep
  every incomplete packet.
* The new name is taken from field[6] of the read's first packet (bridge.c:490-495), which need not be the NICKCHANGED, and without a look
  at how many fields there are.
* Between a change of name and NICKCHANGED the bridge drops what is addressed to the new name, a USERROOM
  among it (`roomLost`).  A name of more than 29 characters is never found again (bridge.c:466 and 494).
* An IAMHERE is on its way when the server, on an earlier one, gives the user another name; if the connection fails before
  the server reads it, the server it is read by knows nobody and registers the user under the name he has given
  up (main.c:1862 and 2060, sent under the name of that moment; `Outdated`).  The client goes on under the other name.
* The rest of a long message goes to the room of that moment (main.c:1028, `toRoom` is a pointer to `gRoom`).
* A text that starts with a space whose next word reaches the end of the window sends an empty packet first, and a word that exactly fills the
  window is left to the next packet although it would fit (main.c:1008-1014).
* A full latency table without a STATS entry takes nothing more and is only emptied by a match; if the
  echoes it waits for are lost, the latency is never measured again (bridge.c:280-288, 776-783).  Nothing clears it on a reconnect.
* Two threads at the latency table may leave entries of two packets or a hole that ends the search early, and
  an absurd latency may be announced, until a clearing nobody runs into (bridge.c:230-237, 280-288).
* `/twit clear` replaces the list without the lock (main.c:1704): the receiver may read a null pointer or past the end, and
  the old list is never freed.
* A twit list whose file does not open for reading stays as it was, or empty (main.c:1399-1408): messages of twits are
  shown, and `/twit add` adds a name the file has already (`twice`).
* The loaded list always ends with an empty name, so a message without a sender is taken for one by a twit.
* CTRL+R with nothing to recall leaves the input loop and submits what has been typed (main.c:2373; the comment above
  says "do the same thing as F3 above", which ignores the key), and a half-typed line is handed on
  when the session ends (2193).
* The SSL object may be freed while a client thread is about to write through it
  (bridge.c:359 against 1141-1151; changelog.txt:44 announces a fix of crashes of this kind): `WriteKills`.
  `SteadySendsReach` says when it cannot happen.
* During the TLS handshake `usingSSL` is FALSE and the socket connected, so a client's packet
  goes out in clear (bridge.c:887-957; readme.txt:38 promises a secure connection).
* A LOGOFF cut by a read is missed, so that the user is announced as disconnected
  (bridge.c:482; changelog.txt:239-240).  `AnnouncedOnlyIfCut` says that this is the only case.
* Two threads that append to the scrollback at once may lose a line (main.c:1261-1277 and 1515-1519;
  helpscroll.txt:9-11 "so you won't miss anything").
* `gMentionCount` is incremented in one thread and reset in the other without a lock: a reset between reading and storing it is
  undone, and two receivers may count two mentions as one (main.c:2013 and 2025 against 1730 and 2326).
* A mention counted while the counter is drawn stays undrawn (main.c:2180-2182; readme.txt:337-338).
* After TERMINATE the user stays until a key is pressed (main.c:2190-2196; 1834-1835 "Client must enforce").
* A receiver that is not joined may also end the next session (`Closed`, `ConnectionClosed`; main.c:2127-2130 and 2628;
  2623-2625 speak of two threads).
* A receiver that found chat paused may draw on the screen (main.c:1515-1519 and 1389; 2158
  "We can only update the screen from this thread").
* `processServerMessage` compares with `strncmp(svrmsg, "BANNER", cmdsep)` (main.c:1790 and on): a prefix of a
  command before the colon, or a message that begins with one, is taken for the first command it is a prefix of.


## 4. The proofs

TLAPS proves, for every value of the constants allowed by the modules' assumptions:

| Theorem | Property |
|---|---|
| `BridgeSlotsProofs!TypeCorrect` | `TypeOK` |
| `BridgeSlotsProofs!OwnershipHolds` | `SlotOwnership` |
| `BridgeSlotsProofs!RejectionJustified` | `RejectedOnlyWhenFull` |
| `BridgeSlotsProofs!StaleNamesLeave` | `StaleNameOnlyWhileLeaving` |
| `BridgeSlotsProofs!SteadyClientsAreServed` | `SteadyClientsServed` |
| `BridgeSlotsProofs!NamesLostByHeirsOnly` | `NameLostOnlyByHeirs` |
| `BridgeSlotsProofs!Implements` | `ImplementsAdmission` |
| `BridgeProofs!TypeCorrect` | `TypeOK` |
| `BridgeProofs!UpIsUsable` | `UpMeansUsable` |
| `BridgeProofs!SteadySendsAreSafe` | `SteadySendsReach` |
| `BridgeProofs!FirstTriesAreExact` | `FirstTriesExact` |
| `BridgeProofs!RetriesAreExact` | `RetriesExact` (no run: the code's own count) |
| `BridgeProofs!InboundTypeCorrect` | `InboundTypeOK` |
| `BridgeProofs!InboundExactWhenAligned` | `ExactWhenAligned` |
| `BridgeProofs!InboundAnnouncedOnlyIfCut` | `AnnouncedOnlyIfCut` |
| `BridgeProofs!InboundSparedOnlyIfForwarded` | `SparedOnlyIfForwarded` |
| `ChatChunksProofs!TypeCorrect` | `TypeOK` |
| `ChatChunksProofs!EverythingIsSaid` | `SaidOnceInOrder` |
| `ChatChunksProofs!PacketsAreFilled` | `PacketsFilled` |
| `ChatChunksProofs!LoopMovesOn` | `MovesOn` |
| `ChatChunksProofs!WordsStayWhole` | `WordsKeptWhole` |
| `ClientTwitsProofs!BadReadsOnlyInClear` | `BadReadOnlyInClear` |
| `ClientTwitsProofs!ListIsOwned` | `OneListOwned` |
| `ClientTwitsProofs!FileIsAsWanted` | `FileAsWanted` |
| `ClientTwitsProofs!TwitsAreHidden` | `TwitsHidden` |
| `ClientTwitsProofs!NobodyIsTwice` | `NobodyTwice` |
| `ClientTwitsProofs!TypeCorrect` | `TypeOK` |
| `ClientInboxProofs!MessagesShownOnce` | `ShownOnce` |
| `ClientInboxProofs!SlotNotOverwritten` | `NotOverwritten` |
| `ClientInboxProofs!HighlightsHaveCauses` | `HighlightHasCause` |
| `ClientInboxProofs!MentionsAreCounted` | `MentionsCounted` |
| `ClientInboxProofs!TypeCorrect` | `TypeOK` |
| `BridgeLatencyProofs!TypeCorrect` | `TypeOK` |
| `BridgeLatencyProofs!TableWholeAtRest` | `WholeAtRest` |
| `BridgeLatencyProofs!NothingIsOverlooked` | `NothingOverlooked` |
| `BridgeLatencyProofs!LatencyIsPlausible` | `LatencyPlausible` |
| `ClientSessionProofs!TypeCorrect` | `TypeOK` |
| `ClientSessionProofs!RoomsDoAgree` | `RoomAgrees` |
| `ClientSessionProofs!NamesDoAgree` | `NamesAgree` |
| `ClientSessionProofs!LinesAreShown` | `NothingMissed` |
| `ClientSessionProofs!LinesStayInTheRoom` | `NothingAstray` |
| `FramingProofs!TypeCorrect` | `TypeOK` |
| `FramingProofs!KeptIsUnfinished` | `PendingIsUnfinished` |
| `FramingProofs!ReaderIsLineStream` | `DeliversLines` |
| `FramingProofs!HostTypeCorrect` | `HostTypeOK` |
| `FramingProofs!HostOnceInOrder` | `OnceInOrder` |
| `FramingProofs!HostWholeUnlessHeadless` | `WholeUnlessHeadless` |

**Assumptions.** `BridgeSlots`: at least one slot, names and connections distinct
from the markers used for "none", packets of the right shape.  `BridgeHost`:
`UseSSL` is a Boolean, limits of retries are naturals, a name resolves to at least
one address when it resolves.
`ChatChunks`: a window of at least one character, texts of two different kinds of characters.
`ClientTwits`: the empty name is nobody's, the null pointer is no block, the value for "no file" is no list of names,
there are finitely many names, bounds are naturals.
`BridgeLatency`: the main thread is no client, the table has an entry, marks and `MaxTime` are naturals.
`ClientInbox`: the kinds are some of `AllKinds`, bounds are naturals.
`ClientSession`: the default room is a room and the first name a name, the values for "none" are neither,
`Kept` takes names to names and `KeptRoom` rooms to rooms, the default room to itself (it fits); bounds are naturals.
`PacketStream`: counts are naturals, and the read buffer holds more than the longest packet with its line
feed and NUL.

**BridgeSlots.** `SlotOwnership` is not inductive: that the accept thread may
write to a slot it found free needs that the slot is not being used by a thread
that has yet to clear it, and that a connection in the backlog or in `waitConn`
holds nothing yet.  The strengthened invariant `IInv` says whom the accept
thread is claiming a slot for (`WaitInv`), that a connection waits in the backlog once and
before anything else (`BacklogInv`), that a free slot seen when the scan began is
still free and ahead of it (`FreeAheadInv`), that a session has no name before it is
given one (`BlankInv`), and that every name in the table, in occupied and in free slots
alike, is that of a thread which has yet to clear it (`NameInv`).  Each of these is a named conjunct with a lemma
"every step keeps it", one step per action.

What the host's packets do to the table has an invariant of its own, `WalkInv`, on top of `IInv`.  `OnceInv`: who has got
the present packet has its slot behind the walk, or is gone; so nobody gets it twice.  `SteadyInv` and `PassedInv`: a
steady client keeps its slot and the name that was seen there, hence each that the walk has passed was
served.  `RefusedInv`: a refused connection is never met again.  `HeirInv`: for whoever holds a slot and is no heir, nobody is left to clear the name there, and what is written there
is its own (`Secure`); with that `NameLostOnlyByHeirs` follows.  That `BridgeSlots` implements
`Admission` is shown action by action: a seat of `Admission` is taken exactly while a thread holds the slot, that is
until `ClearSock`, and what takes up, seats, refuses and releases nobody is a stutter (`Stutters`).

**BridgeHost.** What a sender reads is right because of where the main thread is:
`PhaseInv` ties the globals to `pc`; `SteadyInv` says that a steady sender exists
only while the connection is up and what it has read; `CountInv` how far `gRetry` (which counts
sleeps) is from `attempts` at each place, before the first connection and after
it.  `RetriesExact` follows from the fact that at exit `gRetry` has reached the limit and is
one ahead of the attempts.

**ChatChunks.** That a word stays whole is not a matter of one turn of the loop.  `StartsWell` and
`CutsWell` say where a chunk may start and end: with the text, at a space, or in a run of
letters as long as the window.  `PlaceInv` ties them to the place in the loop, `ChunkInv` keeps them for the chunks that
were sent, and a word that fits into the window can then neither be left nor entered in its middle.  The same invariant has
`SaidOnceInOrder` as a conjunct, because what the next chunk is cut from is what the others left.

**ClientTwits.** `LockInv` says who has `gChattersLock` at each place of the two threads, `/twit clear` being the
exception; `ListInv` what `gTwits`, `gTwitCount` and the block still to be freed are.  Outside of `split` the count is
the length of the list, so a receiver that reads something else must have met `split`, and with the lock
in hand it can only have met that of `/twit clear`.

The file has a second invariant, `WishInv`.  `FileInv`: the file is what the user wanted, but while `removeTwit` writes it, unless
it was `lost`.  `MemoryInv` says the same of the loaded list, unless it could not be read (`unread`), and that a list which has just been
read is the file; `LoopInv` that `checkTwit` has not yet passed the name it looks for.  What is taken of
a list (`Entries`, for the lines that were read and for `Without`) is shown by induction over its length, with the well-foundedness of
the naturals spelled out for one set.

`NobodyTwice` rests on `OnceInv`: unless a name was added while the list could not be read, the file, and each block `split` filled,
has no name twice, and when `addTwit` looks a
name up in memory it finds every name of the file there.  For `TypeOK`, `SizeInv` says that file and blocks have at most one
line for each command besides the first, and `CountInv` bounds the rest.

**ClientInbox.** What a receiver has for itself (`Own`: read but not yet handed over) is nowhere else, and what is in `mq` or
about to be written to the scrollback has not been shown; the one exception is the message being cleared from the slot,
which is done last.  `PlaceInv` says so; `HoldInv` which message a receiver holds at each place, `CauseInv` where
the flags come from.  `NotOverwritten` is about one receiver at a time: `AloneInv` says when there is only one, and that it
does not write the scrollback while chat is not paused; `WriterInv` what the slot is to it and to the user's thread.

`MentionsCounted` needs more than the count itself: what a receiver has read and is about to store leaves room for all the
mentions still to be counted (`CountInv`), so that neither a reset in between nor a second receiver takes
the count above `mentions`.  `FirstInv` is the exact half, for the first session before anything resets the count.  For `TypeOK`, `IdInv` says that an
identifier stands for one message: with `ShownOnce` the scrollback is then no longer than the messages received.

**BridgeLatency.** `Row(n)`: the first `n` entries are those of fresh packets, entry `n + 1` is free or being
written by the one thread at the table, the others are free.  `RowInv` keeps it while `order` is
`"kept"`.  It is restored by a clearing nobody ran into, which `ClearedInv` follows field by field.  `SearchInv` says
that what the search has passed does not match; `TimeInv` that no time stored, and no clock read, is ahead of the clock.

**ClientSession.** `RoomInv` and `NameInv`: the server's last word on the user's room and name is in the queue to the bridge
or the one to the client, or has been obeyed.  `SlotInv`: the last
NICKCHANGED in the queue to the bridge carries the client's name, and without one the slot has what is kept of it.
`CalmInv`: between the two packets of a message begun in calm, all changes of room under way are to the room the
user is in.  The proof of `NamesAgree` failed at first for a good reason: an IAMHERE that was
overtaken by a lost connection registers the name the user has given up, which the bound of the earlier
run did not reach.  The repeated IAMHERE (`StillHere`) and the excuse `Outdated` are in the model since, and the
bound is higher.  `LeftInv` (no kind of event occurs more often than its bound) completes `TypeOK`.

**ClientFraming.** As long as the session's receiver reads alone (`Alone`), `Tracked` says where it is in the stream: what has
not been handled yet, `pending \o wire`, is the stream from the beginning of some
packet `i` on (`ReadingInv`); the lines still to be processed are the packets `n` to `i - 1`, with an empty line at
the end (`LinesInv`); of this connection exactly the packets before `n` were handed on (`DoneInv`).  A read
moves `i`, a processed line moves `n`.  `PlaceInv` says of every receiver, those of earlier sessions included, where it can be:
above all that one which is inside `recv` on this session's socket without being the session's own makes it `shared`.  From there on nothing
is claimed but the types, for which `SplitOfAny` (a token of `split` has no line feed, whatever the text) is enough.
The heart is `SplitTokens`, what `split` makes of a stream of
so many packets and pieces of one.  Processing a line is `Deliver`, the end of a session and the first `recv` of a survivor are
`Drop`, all else stutters: with that the refinement of `LineStream` follows from the invariant.

**BridgeFraming.** The same lemmas about `split` serve the bridge, which is harder: a read without a line feed is not kept but
tried as it is, so the reader may stand inside a packet.  A position in the stream is a packet `i` and a piece `m` of it.
`WireFrom` says where the wire begins, `TokensInv` that the tokens left (or what was kept) are the runs of pieces
from `m` of `i` to there, `PassedInv` that a reader inside a packet got there by such a read (`headless`), that all before it was processed or
was met by such a read, and that a packet of which something was processed lies behind.  That no packet is processed twice hangs on the six-tilde
test, and `ValidRun` says what it lets through: a run of pieces is valid exactly if it begins with the first or second piece and goes at least to
the third, so the rest of a packet whose beginning passed cannot pass as well.  `WholeUnlessHeadless` used to except the packet
of which only the line feed is on the wire; the proof shows that the exception is never needed, and it is gone.

**BridgeInbound.** `WireInv`: what is on the wire is the end of what the client sent, piece by piece.  `LogoffInv`: a LOGOFF is the last packet,
and when the piece with its last words has been read, `cleanLogoff` is set or the read was cut within them; with `EndInv` (the host is told at the end, and
only without `cleanLogoff`) `AnnouncedOnlyIfCut` follows, whatever the reads were.  `AlignedAt(n)` is what holds after `n` packets, each in
a read of its own: the host has exactly the pieces of those that are no name change, in order, slot and thread have
the name the last of them was sent under, and `cleanLogoff` says whether one was a LOGOFF.  A read that is a packet is then the next one
(`NextPacket`), and has the seven fields without which its sender is not identified (`PacketFields`).
`ForwardInv`: what was forwarded has been read, hence is before all that is on the wire; a read that sets `cleanLogoff` is the last
one, and either carries the LOGOFF to the host (`ReadForHost`) or holds a name change, before which all that was forwarded lies.

**Only model-checked.** Liveness (`Served`, `Reconnects`, `ReceiverReleased`, `Rejoined`) needs fairness and ENABLED.
Every invariant and every action property that a run checks is a theorem.  Type invariants are the reverse: each
was checked while its proof was sought, and the proof has taken the place of the run.


## 5. Abstractions

* An access to one global or field is atomic, except for the copying of a name
  and of a message, which take two steps.  C promises less; a torn pointer or integer
  does not happen on the platforms the program is built for.
* A lost update of the scrollback is the later writer's line in the earlier's place; the
  `realloc` of a block another thread holds may also crash, which is not modelled.
* Packets fit their buffers (`partialPacket` and `mq.message` have 512 bytes).
* A thread that could not be created is `"stillborn"`.
* Message texts, colours, the screen and the log are left out; the clock is in `BridgeLatency` only.
* In `ClientFraming` the test of `gIsInChat` at 2056 and the call of `recv` are one step, and so is a read of either socket with what is kept of
  it; an error of `recv` that is tried again (2071-2072) is left out, a line of a mixed read is not cut
  to `PACKET_LEN`, and what the bridge writes to a socket the client has closed is not modelled.
* In `BridgeHost` the message about a failed write (`Report`) looks at `usingSSL` and the pointer in one step.
* In `ClientSession` a room name is copied in one step; packets are whole (the framing modules say when
  they are), and requests for the user list and TERMINATE are left out: neither
  changes a room or a name.  The server forgets its users with the connection, ignores NEWROOM of a user
  it does not know, and addresses a user by the name he has then.
* In `BridgeLatency` the fields of one entry are tested in one step, and the LATENCY packet that follows a match is left out.
* In `ClientTwits` a use of the file and the user's own `checkTwit` are one step each; a failing `malloc` of the first 40 bytes (1409) ends the
  session, as a `strcpy` to the null pointer does; a read of memory that is
  not the list's, which may also go unnoticed, stops the process.


## 6. Not modelled, and the plan

Not modelled: the setup program and the configuration record (sequential I/O),
drawing, themes, the input line with TAB completion and the roster it searches (editing of one
thread; the roster is replaced and searched under one lock and indexed modulo
its size), menus (OpenDoors, no protocol), CTCP (a reply to one packet, no state), PING's answer and the file
STATS writes, the libraries.  Most lines of `src/` are headers of OpenSSL (`src/lib/include`) and
OpenDoors, which declare somebody else's code: the modules model how the two programs use
it, and have nothing to translate there.  What is left of the programs' own lines is mostly
drawing, text layout, menus and the setup questionnaire.

Planned, in this order:

1. `BridgeSockets` - descriptors: never closed by `clientProcess`, a stale `mrcHostSock` reused by `accept`.
2. A pipeline from the host's stream over the table to a client's stream, from the modules
   there are, implementing `LineStream` end to end.
3. `InputLine` - what the input loop hands on, with TAB completion against a roster that changes.
