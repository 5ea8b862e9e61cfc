----------------------------- MODULE ClientTwits ----------------------------
(***************************************************************************)
(* The twit list of umrc-client/main.c: the chatters whose messages the    *)
(* user does not want to see.  It is kept twice, in the file gTwitFile and *)
(* in the array gTwits.  The user's thread changes both on /twit; the      *)
(* receiver looks every sender up in the array, under gChattersLock.       *)
(*                                                                         *)
(* The array is a block of memory that split() allocates and that is freed *)
(* once another one has taken its place, so the model keeps the blocks and *)
(* lets the receiver read one entry at a time.  The session may end at any *)
(* step (the carrier is lost, the process is killed); the next one loads   *)
(* what the file holds then.  Opening, reading, writing and removing the   *)
(* file may fail, and so may the allocations of split() and of the text it *)
(* gets; nothing of this is reported to whoever works with the list next.  *)
(***************************************************************************)
EXTENDS Integers, SequencesExt

CONSTANTS Names,        \* of chatters
          NoName,       \* the empty name
          Absent,       \* no file
          Null,         \* the null pointer
          MaxCommands,  \* bound on the /twit commands of all sessions
          MaxEnds       \* bound on the sessions that end, however they do

ASSUME TwitsAssumption ==
    /\ IsFiniteSet(Names) /\ NoName \notin Names
    /\ Absent \notin Seq(Names)
    /\ Null \notin Nat
    /\ MaxCommands \in Nat /\ MaxEnds \in Nat

VARIABLES file,         \* gTwitFile, Absent or its lines
          heap,         \* what the blocks of memory hold
          live,         \* the blocks that are allocated
          gTwits,       \* the block of the list
          gTwitCount,   \* and how many entries it is taken to have
          lock,         \* who holds gChattersLock
          user,         \* what the user's thread is doing
          receiver,     \* and the receiver
          commands,     \* counts /twit commands
          ends,         \* counts ended sessions
          wanted,       \* history: the twits the commands so far amount to
          lost,         \* history: the file was not written as it should be
          unread,       \* history: the list may lack some of the file
          twice,        \* history: a name was added to the file meanwhile
          dropped       \* history: blocks /twit clear let go of

memory  == <<heap, live, gTwits, gTwitCount>>
bounds  == <<commands, ends>>
failures == <<lost, unread, twice>>
history == <<wanted, failures, dropped>>
vars    == <<file, memory, lock, user, receiver, bounds, history>>

\* Every /twit clear leaves a block behind, and two more may be in use.
Blocks == 1..MaxCommands + 2

\* Lines of a file: one at first, and at most one more for each command.
MaxLines == MaxCommands + 1
Lists == UNION {[1..n -> Names] : n \in 0..MaxLines}

Quiet    == [at |-> "idle", cmd |-> "none", name |-> NoName, old |-> Null]
Entering == [Quiet EXCEPT !.at = "load", !.cmd = "enter"]
Waiting  == [at |-> "idle", from |-> NoName, i |-> 1, last |-> "shown"]

TypeOK ==
    /\ file \in Lists \cup {Absent}
    /\ heap \in [Blocks -> {<<>>} \cup {Append(l, NoName) : l \in Lists}] /\ live \subseteq Blocks
    /\ gTwits \in Blocks \cup {Null} /\ gTwitCount \in 0..MaxLines + 1
    /\ lock \in {"free", "user", "receiver"}
    /\ user \in [at : {"idle", "load", "lock", "null", "array", "count", "free",
                       "check", "rewrite", "remove", "done"},
                 cmd : {"none", "enter", "reenter", "add", "del", "clear"},
                 name : Names \cup {NoName}, old : Blocks \cup {Null}]
    /\ receiver \in [at : {"idle", "lock", "loop", "bad"}, from : Names \cup {NoName},
                     i : 1..MaxLines + 2, last : {"shown", "hidden"}]
    /\ commands \in 0..MaxCommands /\ ends \in 0..MaxEnds
    /\ wanted \subseteq Names /\ dropped \subseteq Blocks
    /\ {lost, unread, twice} \subseteq BOOLEAN

Lines == IF file = Absent THEN <<>> ELSE file
List  == IF gTwits = Null THEN <<>> ELSE heap[gTwits]
InList(n) == n \in ToSet(List)

\* A session begins in enterChat(), with nothing in memory.
Init ==
    /\ file \in {Absent} \cup {<<n>> : n \in Names}
    /\ heap = [b \in Blocks |-> <<>>] /\ live = {} /\ gTwits = Null /\ gTwitCount = 0
    /\ lock = "free" /\ user = Entering /\ receiver = Waiting
    /\ commands = 0 /\ ends = 0
    /\ wanted = ToSet(Lines) /\ dropped = {}
    /\ lost = FALSE /\ unread = FALSE /\ twice = FALSE

\* The entries of a list at some of its places, in their order.
Entries(list, places) ==
    LET lines[i \in 0..Len(list)] ==
            IF i = 0 THEN <<>>
            ELSE IF i \in places THEN Append(lines[i - 1], list[i])
            ELSE lines[i - 1]
    IN  lines[Len(list)]

-----------------------------------------------------------------------------
(* loadTwits() and the split() that stores straight into gTwits. *)

\* Without a file, or when it does not open, the list in memory stays.
LoadRead ==
    /\ user.at = "load"
    /\ \/ /\ file # Absent
          /\ user' = [user EXCEPT !.at = "lock", !.old = gTwits]
          /\ UNCHANGED unread
       \/ /\ unread' = (unread \/ file # Absent)
          /\ user' = [user EXCEPT !.at = "done"]
    /\ UNCHANGED <<file, memory, lock, receiver, bounds, wanted, lost, twice, dropped>>

\* Mutant: the lock is not taken.
LoadUnlocked ==
    /\ user.at = "lock"
    /\ user' = [user EXCEPT !.at = "null"]
    /\ UNCHANGED <<file, memory, lock, receiver, bounds, history>>

LoadLock ==
    /\ user.at = "lock" /\ lock = "free"
    /\ lock' = "user"
    /\ user' = [user EXCEPT !.at = "null"]
    /\ UNCHANGED <<file, memory, receiver, bounds, history>>

\* split() begins with *tokens = NULL; /twit clear keeps nothing to free.
SplitNull ==
    /\ user.at = "null"
    /\ gTwits' = Null
    /\ dropped' = IF user.cmd = "clear" /\ gTwits # Null THEN dropped \cup {gTwits} ELSE dropped
    /\ user' = [user EXCEPT !.at = "array"]
    /\ UNCHANGED <<file, heap, live, gTwitCount, lock, receiver, bounds, wanted, failures>>

\* One token per line that was read, and one more behind the last newline; a
\* line for which there is no memory is left out of the text.
SplitArray ==
    /\ user.at = "array"
    /\ \E b \in Blocks, read \in SUBSET DOMAIN Lines :
          /\ user.cmd = "clear" => read = {}
          /\ b \notin live /\ 1..b - 1 \subseteq live
          /\ live' = live \cup {b}
          /\ heap' = [heap EXCEPT ![b] = Append(Entries(Lines, read), NoName)]
          /\ gTwits' = b
          /\ unread' = IF user.cmd = "clear" THEN unread ELSE read # DOMAIN Lines
    /\ user' = [user EXCEPT !.at = "count"]
    /\ UNCHANGED <<file, gTwitCount, lock, receiver, bounds, wanted, lost, twice, dropped>>

\* Without memory for the tokens there is no list.
SplitFails ==
    /\ user.at = "array"
    /\ unread' = (unread \/ user.cmd # "clear")
    /\ user' = [user EXCEPT !.at = "count"]
    /\ UNCHANGED <<file, memory, lock, receiver, bounds, wanted, lost, twice, dropped>>

\* The count is assigned when split() is back; loadTwits() releases the lock.
SplitCount ==
    /\ user.at = "count"
    /\ gTwitCount' = Len(List)
    /\ lock' = IF lock = "user" THEN "free" ELSE lock
    /\ user' = [user EXCEPT !.at = IF user.cmd = "clear" THEN "remove" ELSE "free"]
    /\ UNCHANGED <<file, heap, live, gTwits, receiver, bounds, history>>

\* Mutant: the old list is not freed.
FreeNothing ==
    /\ user.at = "free"
    /\ user' = [user EXCEPT !.at = "done", !.old = Null]
    /\ UNCHANGED <<file, memory, lock, receiver, bounds, history>>

FreeOld ==
    /\ user.at = "free"
    /\ live' = live \ {user.old}
    /\ heap' = [b \in Blocks |-> IF b = user.old THEN <<>> ELSE heap[b]]
    /\ user' = [user EXCEPT !.at = "done", !.old = Null]
    /\ UNCHANGED <<file, gTwits, gTwitCount, lock, receiver, bounds, history>>

\* The user leaves chat and enters it again: the list is loaded anew, and a
\* receiver of the session before may still be at work.
Reenter ==
    /\ user.at = "idle" /\ ends < MaxEnds
    /\ ends' = ends + 1
    /\ user' = [Entering EXCEPT !.cmd = "reenter"]
    /\ UNCHANGED <<file, memory, lock, receiver, commands, history>>

-----------------------------------------------------------------------------
(* /twit add, del and clear. *)

Command(cmd, name, at) ==
    /\ user.at = "idle" /\ commands < MaxCommands
    /\ commands' = commands + 1
    /\ user' = [Quiet EXCEPT !.at = at, !.cmd = cmd, !.name = name]

AddTwit(n) ==
    /\ Command("add", n, "check")
    /\ UNCHANGED <<file, memory, lock, receiver, ends, history>>

\* checkTwit() says it is there already, or the file does not open.
AddNothing ==
    /\ user.at = "check" /\ lock = "free"
    /\ user' = Quiet
    /\ UNCHANGED <<file, memory, lock, receiver, bounds, history>>

\* Mutant: the list is not read again.
AddAppendUnread ==
    /\ user.at = "check" /\ lock = "free" /\ ~InList(user.name)
    /\ file' = Append(Lines, user.name)
    /\ wanted' = wanted \cup {user.name} /\ twice' = (twice \/ unread)
    /\ user' = [user EXCEPT !.at = "done"]
    /\ UNCHANGED <<memory, lock, receiver, bounds, lost, unread, dropped>>

AddAppend ==
    /\ user.at = "check" /\ lock = "free" /\ ~InList(user.name)
    /\ file' = Append(Lines, user.name)
    /\ wanted' = wanted \cup {user.name} /\ twice' = (twice \/ unread)
    /\ user' = [user EXCEPT !.at = "load"]
    /\ UNCHANGED <<memory, lock, receiver, bounds, lost, unread, dropped>>

\* What removeTwit() writes, entry by entry: neither the name nor the empty
\* entry behind the last newline.
Without(list, name) == Entries(list, {i \in DOMAIN list : list[i] \notin {name, NoName}})

\* The file is removed first, and 100 ms later written anew from the list.
RemoveTwit(n) ==
    /\ Command("del", n, "rewrite")
    /\ file' \in {Absent, file}
    /\ UNCHANGED <<memory, lock, receiver, ends, history>>

Rewrite ==
    /\ user.at = "rewrite"
    /\ \/ /\ file' = Without(List, user.name)
          /\ lost' = (lost \/ unread)
       \/ /\ lost' = TRUE
          /\ UNCHANGED file
    /\ wanted' = wanted \ {user.name}
    /\ user' = [user EXCEPT !.at = "load"]
    /\ UNCHANGED <<memory, lock, receiver, bounds, unread, twice, dropped>>

\* split() again, on an empty text and without the lock.
ClearTwits ==
    /\ Command("clear", NoName, "null")
    /\ UNCHANGED <<file, memory, lock, receiver, ends, history>>

\* Mutant: the file stays.
ClearKeepFile ==
    /\ user.at = "remove"
    /\ wanted' = {} /\ lost' = FALSE /\ unread' = FALSE /\ twice' = FALSE
    /\ user' = [user EXCEPT !.at = "done"]
    /\ UNCHANGED <<file, memory, lock, receiver, bounds, dropped>>

\* With the file gone there is nothing left to be wrong about.
ClearFile ==
    /\ user.at = "remove"
    /\ \/ /\ file' = Absent
          /\ lost' = FALSE /\ unread' = FALSE /\ twice' = FALSE
       \/ /\ file # Absent
          /\ lost' = TRUE /\ unread' = TRUE
          /\ UNCHANGED <<file, twice>>
    /\ wanted' = {}
    /\ user' = [user EXCEPT !.at = "done"]
    /\ UNCHANGED <<memory, lock, receiver, bounds, dropped>>

\* The command is over; add and del look once more, to tell the user.
Done ==
    /\ user.at = "done"
    /\ user.cmd \in {"add", "del"} => lock = "free"
    /\ user' = Quiet
    /\ UNCHANGED <<file, memory, lock, receiver, bounds, history>>

-----------------------------------------------------------------------------
(* The receiver: checkTwit() on the sender of each message. *)

Message(from) ==
    /\ receiver.at = "idle" /\ user.cmd # "enter"
    /\ receiver' = [receiver EXCEPT !.at = "lock", !.from = from]
    /\ UNCHANGED <<file, memory, lock, user, bounds, history>>

CheckLock ==
    /\ receiver.at = "lock" /\ lock = "free"
    /\ lock' = "receiver"
    /\ receiver' = [receiver EXCEPT !.at = "loop", !.i = 1]
    /\ UNCHANGED <<file, memory, user, bounds, history>>

\* gTwits[i] is in the block.
Readable == gTwits \in live /\ receiver.i <= Len(heap[gTwits])

CheckNext ==
    /\ receiver.at = "loop" /\ receiver.i <= gTwitCount
    /\ Readable /\ heap[gTwits][receiver.i] # receiver.from
    /\ receiver' = [receiver EXCEPT !.i = @ + 1]
    /\ UNCHANGED <<file, memory, lock, user, bounds, history>>

CheckFound ==
    /\ receiver.at = "loop" /\ receiver.i <= gTwitCount
    /\ Readable /\ heap[gTwits][receiver.i] = receiver.from
    /\ lock' = "free"
    /\ receiver' = [Waiting EXCEPT !.last = "hidden"]
    /\ UNCHANGED <<file, memory, user, bounds, history>>

CheckEnds ==
    /\ receiver.at = "loop" /\ receiver.i > gTwitCount
    /\ lock' = "free"
    /\ receiver' = Waiting
    /\ UNCHANGED <<file, memory, user, bounds, history>>

\* A read outside of the block: undefined, and taken to stop the process.
CheckBad ==
    /\ receiver.at = "loop" /\ receiver.i <= gTwitCount /\ ~Readable
    /\ receiver' = [receiver EXCEPT !.at = "bad"]
    /\ UNCHANGED <<file, memory, lock, user, bounds, history>>

-----------------------------------------------------------------------------
\* The session ends where it is, and the user comes back; the file stays as it
\* is, which is without a line while removeTwit() is about to write it.
SessionEnds ==
    /\ ends < MaxEnds
    /\ ends' = ends + 1
    /\ heap' = [b \in Blocks |-> <<>>] /\ live' = {} /\ gTwits' = Null /\ gTwitCount' = 0
    /\ lock' = "free" /\ user' = Entering /\ receiver' = Waiting
    /\ lost' = (lost \/ user.at = "rewrite")
    /\ unread' = FALSE /\ dropped' = {}
    /\ UNCHANGED <<file, commands, wanted, twice>>

User ==
    /\ receiver.at # "bad"
    /\ \/ LoadRead \/ LoadLock \/ SplitNull \/ SplitArray \/ SplitFails
       \/ SplitCount \/ FreeOld
       \/ AddNothing \/ AddAppend \/ Rewrite \/ ClearFile \/ Done

Commands ==
    /\ receiver.at # "bad"
    /\ Reenter \/ ClearTwits \/ \E n \in Names : AddTwit(n) \/ RemoveTwit(n)

Check == CheckLock \/ CheckNext \/ CheckFound \/ CheckEnds \/ CheckBad

Next == User \/ Commands \/ Check \/ SessionEnds \/ \E from \in Names \cup {NoName} : Message(from)

Spec == Init /\ [][Next]_vars

-----------------------------------------------------------------------------
(* What should hold. *)

\* Memory the list does not own is read during a /twit clear only.
BadReadOnlyInClear ==
    receiver.at = "bad" => user.cmd = "clear" /\ user.at \in {"array", "count"}

\* No list is lost without being freed, but by a /twit clear; none is freed
\* while gTwits has it.
OneListOwned ==
    /\ live \subseteq {gTwits, user.old} \cup dropped
    /\ gTwits # Null => gTwits \in live

\* The file holds what the commands so far amount to, whatever sessions ended
\* in between, although removeTwit() throws it away and writes it anew from
\* memory.  Until the next /twit clear that is so no longer once it could not
\* be written, was written from a list that could not be read, or the session
\* ended before it was written.
FileAsWanted ==
    ~lost /\ user.at # "rewrite" => ToSet(Lines) = wanted

\* The file names nobody twice: addTwit() looks the name up in the list, which
\* is replaced later than the file.  Once a name was added while the list was
\* not what the file had, it may.
NobodyTwice == ~twice => IsInjective(Lines)

\* The names a command may be about to change in the list.
Unsettled ==
    CASE user.cmd \in {"add", "del"} -> {user.name}
      [] user.cmd = "clear" -> Names
      [] OTHER -> {}

\* A message is hidden if and only if its sender is a twit, a command at work
\* on that name set aside, while the list could be read and the file written.
TwitsHidden ==
    [][receiver.at = "loop" /\ receiver'.at = "idle" /\ ends' = ends /\ ~lost /\ ~unread
            /\ receiver.from \in Names \ Unsettled
        => (receiver'.last = "hidden" <=> receiver.from \in wanted)]_vars
=============================================================================
