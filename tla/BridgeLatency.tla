---------------------------- MODULE BridgeLatency ---------------------------
(***************************************************************************)
(* The bridge's latency tracking in umrc-bridge/bridge.c.  Whoever has     *)
(* sent a packet to the host notes it in the first free entry of lt[]; the *)
(* main thread looks every packet from the host up in the table, and takes *)
(* the age of the entry it finds for the latency.  Then it clears the      *)
(* whole table.                                                            *)
(*                                                                         *)
(* The table has no lock, and the threads of the clients write to it while *)
(* the main thread reads and clears it: every access to an entry that the  *)
(* code makes on its own is a step here.  Packets are told apart by what   *)
(* the table keeps of them, their sum and length; the host is external and *)
(* may send anything at any time.                                          *)
(***************************************************************************)
EXTENDS Integers, Sequences

CONSTANTS Clients,      \* threads of clientProcess()
          Main,         \* the main thread, which sends commands too
          Size,         \* MAX_LATENCIES
          Marks,        \* what sum and length of a packet may be, one number
          MaxTime       \* bound on the clock

ASSUME LatencyAssumption ==
    /\ Main \notin Clients
    /\ Size \in Nat \ {0} /\ MaxTime \in Nat
    /\ Marks \subseteq Nat

Threads == Clients \cup {Main}
Entries == 1..Size

VARIABLES lt,           \* the table
          sender,       \* each thread's passage through the end of a send
          reader,       \* the main thread's passage through processPacket()
          gLatency,     \* the latency last measured
          now,          \* currentTimeMillis()
          emptied,      \* history: when a match was last found
          order         \* history: have two threads met at the table?

vars == <<lt, sender, reader, gLatency, now, emptied, order>>

Times == 0..MaxTime
None  == -1
Free  == [sum |-> None, len |-> None, time |-> None, isStats |-> FALSE]
Fields == <<"sum", "len", "time", "isStats">>

Idle    == [at |-> "idle", i |-> 1, mark |-> None, isStats |-> FALSE, clock |-> 0]
Waiting == [at |-> "recv", i |-> 1, field |-> 1, mark |-> None, stats |-> FALSE]

TypeOK ==
    /\ lt \in [Entries -> [sum : Marks \cup {None}, len : Marks \cup {None},
                           time : Times \cup {None}, isStats : BOOLEAN]]
    /\ sender \in [Threads -> [at : {"idle", "look", "sum", "len", "clock", "time", "isStats"},
                               i : Entries, mark : Marks \cup {None},
                               isStats : BOOLEAN, clock : Times]]
    /\ reader \in [at : {"recv", "scan", "measure", "clear"}, i : 1..Size + 1,
                   field : DOMAIN Fields, mark : Marks \cup {None}, stats : BOOLEAN]
    /\ gLatency \in 0..MaxTime + 1
    /\ now \in Times /\ emptied \in Times
    /\ order \in {"kept", "broken", "mending"}

\* initializeLt() before anything else runs.
Init ==
    /\ lt = [i \in Entries |-> Free]
    /\ sender = [t \in Threads |-> Idle]
    /\ reader = Waiting
    /\ gLatency = 0 /\ now = 0 /\ emptied = 0
    /\ order = "kept"

IsFree(i) == lt[i].sum = None /\ lt[i].len = None

Writing(t) == sender[t].at \notin {"idle", "look"}

\* Thread t is at the table: it writes, or has passed an entry.
AtTable(t) == Writing(t) \/ (sender[t].at = "look" /\ sender[t].i > 1)

\* Two threads are at the table.
Crowded ==
    \E t \in Threads : AtTable(t) /\ (reader.at # "recv" \/ \E u \in Threads \ {t} : AtTable(u))

\* Order is broken by a meeting, and mended by a clearing nobody meets.
KeepOrder ==
    order' = IF Crowded' THEN "broken"
             ELSE IF order = "broken" /\ reader.at = "measure" THEN "mending"
             ELSE IF order = "mending" /\ reader'.at = "recv" THEN "kept"
             ELSE order

Tick ==
    /\ now < MaxTime
    /\ now' = now + 1
    /\ UNCHANGED <<lt, sender, reader, gLatency, emptied>>

-----------------------------------------------------------------------------
(* The end of sendCmdPacket(), sendMsgPacket() and sendHostPacket(). *)

\* A packet has been sent, and is not one for NOTME from a client.  The main
\* thread sends between two packets only, and it alone asks for STATS.
Sent(t, mark, isStats) ==
    /\ sender[t].at = "idle"
    /\ t = Main => reader.at = "recv"
    /\ isStats => t = Main
    /\ sender' = [sender EXCEPT ![t] = [Idle EXCEPT !.at = "look", !.mark = mark, !.isStats = isStats]]
    /\ UNCHANGED <<lt, reader, gLatency, now, emptied>>

\* The entry is taken: on to the next; a full table takes no more.
LookTaken(t) ==
    /\ sender[t].at = "look" /\ ~IsFree(sender[t].i)
    /\ sender' = IF sender[t].i < Size THEN [sender EXCEPT ![t].i = @ + 1]
                 ELSE [sender EXCEPT ![t] = Idle]
    /\ UNCHANGED <<lt, reader, gLatency, now, emptied>>

LookFree(t) ==
    /\ sender[t].at = "look" /\ IsFree(sender[t].i)
    /\ sender' = [sender EXCEPT ![t].at = "sum"]
    /\ UNCHANGED <<lt, reader, gLatency, now, emptied>>

\* currentTimeMillis() is asked for before the time is stored.
ReadClock(t) ==
    /\ sender[t].at = "clock"
    /\ sender' = [sender EXCEPT ![t].at = "time", ![t].clock = now]
    /\ UNCHANGED <<lt, reader, gLatency, now, emptied>>

Write(t, field, value, next) ==
    /\ sender[t].at = field
    /\ lt' = [lt EXCEPT ![sender[t].i][field] = value]
    /\ sender' = [sender EXCEPT ![t] = IF next = "idle" THEN Idle ELSE [@ EXCEPT !.at = next]]
    /\ UNCHANGED <<reader, gLatency, now, emptied>>

\* Mutant: the time is forgotten.
WriteEntryTimeless(t) ==
    \/ Write(t, "sum", sender[t].mark, "len")
    \/ Write(t, "len", sender[t].mark, "isStats")
    \/ Write(t, "isStats", sender[t].isStats, "idle")

\* The fields of the entry, one after the other.
WriteEntry(t) ==
    \/ Write(t, "sum", sender[t].mark, "len")
    \/ Write(t, "len", sender[t].mark, "clock")
    \/ ReadClock(t)
    \/ Write(t, "time", sender[t].clock, "isStats")
    \/ Write(t, "isStats", sender[t].isStats, "idle")

-----------------------------------------------------------------------------
(* The main thread in processPacket(). *)

Matches(i, mark, stats) ==
    \/ lt[i].sum = mark /\ lt[i].len = mark
    \/ lt[i].isStats /\ stats

\* A packet has come; whether its body has the word STATS in it.
Receive(mark, stats) ==
    /\ reader.at = "recv" /\ sender[Main].at = "idle"
    /\ reader' = [Waiting EXCEPT !.at = "scan", !.mark = mark, !.stats = stats]
    /\ UNCHANGED <<lt, sender, gLatency, now, emptied>>

\* Nothing found: the end of the table, or its first free entry.
ScanEnds ==
    /\ reader.at = "scan"
    /\ reader.i \in Entries => IsFree(reader.i)
    /\ reader' = Waiting
    /\ UNCHANGED <<lt, sender, gLatency, now, emptied>>

\* Mutant: only the last packet sent is looked for.
ScanOnlyFirst ==
    /\ reader.at = "scan" /\ reader.i <= Size
    /\ ~IsFree(reader.i) /\ ~Matches(reader.i, reader.mark, reader.stats)
    /\ reader' = Waiting
    /\ UNCHANGED <<lt, sender, gLatency, now, emptied>>

ScanOn ==
    /\ reader.at = "scan" /\ reader.i <= Size
    /\ ~IsFree(reader.i) /\ ~Matches(reader.i, reader.mark, reader.stats)
    /\ reader' = [reader EXCEPT !.i = @ + 1]
    /\ UNCHANGED <<lt, sender, gLatency, now, emptied>>

ScanFound ==
    /\ reader.at = "scan" /\ reader.i <= Size
    /\ ~IsFree(reader.i) /\ Matches(reader.i, reader.mark, reader.stats)
    /\ reader' = [reader EXCEPT !.at = "measure"]
    /\ UNCHANGED <<lt, sender, gLatency, now, emptied>>

\* gLatency is the age of the entry, or what an entry without a time gives;
\* every local client is sent it once the table is cleared.
Measure ==
    /\ reader.at = "measure"
    /\ gLatency' = now - lt[reader.i].time
    /\ reader' = [reader EXCEPT !.at = "clear", !.i = 1, !.field = 1]
    /\ emptied' = now
    /\ UNCHANGED <<lt, sender, now>>

\* Where initializeLt() goes after a field, when it clears entries 1..last.
ClearOn(last) ==
    reader' = IF reader.field < Len(Fields) THEN [reader EXCEPT !.field = @ + 1]
              ELSE IF reader.i < last THEN [reader EXCEPT !.field = 1, !.i = @ + 1]
              ELSE Waiting

\* Mutant: only the entry found and those before it are cleared.
ClearFirst ==
    /\ reader.at = "clear"
    /\ lt' = [lt EXCEPT ![reader.i][Fields[reader.field]] = Free[Fields[reader.field]]]
    /\ ClearOn(1)
    /\ UNCHANGED <<sender, gLatency, now, emptied>>

\* initializeLt(), field by field.
Clear ==
    /\ reader.at = "clear"
    /\ lt' = [lt EXCEPT ![reader.i][Fields[reader.field]] = Free[Fields[reader.field]]]
    /\ ClearOn(Size)
    /\ UNCHANGED <<sender, gLatency, now, emptied>>

Sender(t) ==
    \/ \E mark \in Marks, isStats \in BOOLEAN : Sent(t, mark, isStats)
    \/ LookTaken(t) \/ LookFree(t) \/ WriteEntry(t)

Reader ==
    \/ \E mark \in Marks, stats \in BOOLEAN : Receive(mark, stats)
    \/ ScanEnds \/ ScanOn \/ ScanFound \/ Measure \/ Clear

Next == (Tick \/ Reader \/ \E t \in Threads : Sender(t)) /\ KeepOrder

Spec == Init /\ [][Next]_vars

-----------------------------------------------------------------------------
(* What should hold.  The table has no lock, so none of it does once two   *)
(* threads have met there; the clearing after a match puts that right.     *)

\* While the threads keep out of each other's way, and again after the first
\* clearing nobody runs into, the table between two of its users is a row of
\* whole entries with free ones behind, and none is older than the match it
\* was last cleared for: no packet of before is taken for an answer.
WholeAtRest ==
    order = "kept" /\ reader.at # "clear" /\ (\A t \in Threads : ~Writing(t)) =>
        \E n \in 0..Size :
            /\ \A i \in 1..n : lt[i].sum # None /\ lt[i].len = lt[i].sum /\ lt[i].time >= emptied
            /\ \A i \in n + 1..Size : lt[i] = Free

\* The search ends at the first free entry, and still misses nothing.
NothingOverlooked ==
    [][order = "kept" /\ reader.at = "scan" /\ reader'.at = "recv" =>
           ~\E i \in Entries : Matches(i, reader.mark, reader.stats)]_vars

\* The latency announced to every user is a time that has passed, and no
\* longer than the time since the one before was measured.
LatencyPlausible ==
    [][order = "kept" /\ reader.at = "measure" /\ reader'.at = "clear" =>
           gLatency' \in 0..now - emptied]_vars
=============================================================================
