------------------------ MODULE BridgeLatencyProofs ------------------------
(***************************************************************************)
(* Proofs about BridgeLatency: for any number of client threads, any size  *)
(* of the table and any packets, the table is whole at rest while the      *)
(* threads keep out of each other's way, a search of it misses nothing,    *)
(* and the latency announced is one that can have been.                    *)
(*                                                                         *)
(* The table is a row.  While order is kept there is a number n such that  *)
(* the entries up to n are whole and no older than the last match, those   *)
(* from n + 2 on are free, and entry n + 1 is free or is being written by  *)
(* the one thread that is at the table, which has got as far as its place  *)
(* says.  A thread that looks for a free entry has not gone past the row.  *)
(* The clearing after a match makes a new row, whatever was there before:  *)
(* this is why what has been cleared so far is known as soon as order is   *)
(* not broken, and not only while it is kept.                              *)
(***************************************************************************)
EXTENDS BridgeLatency, TLAPS

-----------------------------------------------------------------------------
(* The inductive invariant. *)

\* The types of an entry, of a thread's passage and of the main thread's.
EntryRecords == [sum : Marks \cup {None}, len : Marks \cup {None}, time : Times \cup {None}, isStats : BOOLEAN]
SenderRecords == [at : {"idle", "look", "sum", "len", "clock", "time", "isStats"}, i : Entries,
                  mark : Marks \cup {None}, isStats : BOOLEAN, clock : Times]
ReaderRecords == [at : {"recv", "scan", "measure", "clear"}, i : 1..Size + 1,
                  field : DOMAIN Fields, mark : Marks \cup {None}, stats : BOOLEAN]

\* Whoever is on its way has a packet, and the entry it found is one.
PassageInv ==
    /\ \A t \in Threads : sender[t].at # "idle" => sender[t].mark \in Marks
    /\ reader.at # "recv" => reader.mark \in Marks
    /\ reader.at \in {"measure", "clear"} => reader.i \in Entries

\* The clock only goes on.
TimeInv ==
    /\ emptied <= now
    /\ \A i \in Entries : lt[i].time <= now
    /\ \A t \in Threads : sender[t].clock <= now

\* Unbroken order is nobody in another's way; it is mended by a clearing.
OrderInv ==
    /\ order # "broken" => ~Crowded
    /\ order = "mending" => reader.at \in {"measure", "clear"}

\* The clearing that mends, or keeps, order has cleared what it has passed.
ClearedInv ==
    order # "broken" /\ reader.at = "clear" =>
        /\ \A i \in Entries : i < reader.i => lt[i] = Free
        /\ \A f \in DOMAIN Fields : f < reader.field => lt[reader.i][Fields[f]] = Free[Fields[f]]

\* Entry i is whole, and younger than the last match.
Fresh(i) == lt[i].sum \in Marks /\ lt[i].len = lt[i].sum /\ lt[i].time >= emptied

\* What thread t has written of its entry.
Begun(t) ==
    LET e == lt[sender[t].i] IN
    /\ sender[t].at \in {"len", "clock", "time"} => e.sum = sender[t].mark
    /\ sender[t].at \in {"clock", "time"} => e.len = sender[t].mark
    /\ sender[t].at = "time" => sender[t].clock >= emptied
    /\ sender[t].at = "isStats" => Fresh(sender[t].i)

\* n whole entries, perhaps one being written, and free ones.
Row(n) ==
    /\ \A i \in 1..n : Fresh(i)
    /\ \A i \in n + 2..Size : lt[i] = Free
    /\ n < Size => lt[n + 1] = Free \/ \E t \in Threads : Writing(t)
    /\ \A t \in Threads : Writing(t) => sender[t].i = n + 1 /\ Begun(t)
    /\ \A t \in Threads : sender[t].at = "look" => sender[t].i <= n + 1

RowInv == order = "kept" /\ reader.at # "clear" => \E n \in 0..Size : Row(n)

\* The search has passed no entry that answers the packet.
SearchInv ==
    order = "kept" =>
        /\ reader.at = "scan" =>
             \A i \in Entries : i < reader.i => ~Matches(i, reader.mark, reader.stats)
        /\ reader.at = "measure" => ~IsFree(reader.i)
-----------------------------------------------------------------------------
(* What a step does, for the proofs below. *)

\* Thread t goes on to this place, entry and clock, with the packet it has.
SenderStep(t, at, i, clock) ==
    /\ sender' \in [Threads -> SenderRecords]
    /\ sender'[t].at = at /\ sender'[t].i = i /\ sender'[t].clock = clock
    /\ sender'[t].mark = sender[t].mark
    /\ \A u \in Threads \ {t} : sender'[u] = sender[u]

\* Thread t is done.
SenderDone(t) ==
    /\ sender' \in [Threads -> SenderRecords]
    /\ sender'[t].at = "idle" /\ sender'[t].i = 1 /\ sender'[t].clock = 0
    /\ \A u \in Threads \ {t} : sender'[u] = sender[u]

\* Entry i alone is written; it becomes this.
EntryStep(i, sum, len, time) ==
    /\ lt' \in [Entries -> EntryRecords]
    /\ lt'[i].sum = sum /\ lt'[i].len = len /\ lt'[i].time = time
    /\ \A j \in Entries \ {i} : lt'[j] = lt[j]

\* The main thread goes on to this place, entry and field.
ReaderStep(at, i, field) ==
    /\ reader' \in ReaderRecords
    /\ reader'.at = at /\ reader'.i = i /\ reader'.field = field
    /\ reader'.mark = reader.mark /\ reader'.stats = reader.stats

\* The types of what the actions read.
Sane ==
        /\ lt \in [Entries -> EntryRecords] /\ sender \in [Threads -> SenderRecords]
        /\ reader \in ReaderRecords /\ now \in Times /\ emptied \in Times

\* -1 stands for no packet and for no time.
LEMMA NoneIsNoMark == None \notin Marks /\ None \notin Times /\ None \in Int /\ 0 \in Times /\ 1 \in Entries /\ Times \subseteq Nat
  BY LatencyAssumption DEF None, Times, Entries

\* The four fields, by number.
LEMMA FieldNames ==
  /\ DOMAIN Fields = 1..4 /\ Len(Fields) = 4
  /\ Fields[1] = "sum" /\ Fields[2] = "len" /\ Fields[3] = "time" /\ Fields[4] = "isStats"
  BY DEF Fields

\* What an entry is after initializeLt().
LEMMA FreeEntry ==
  /\ Free \in EntryRecords
  /\ Free.sum = None /\ Free.len = None /\ Free.time = None /\ Free.isStats = FALSE
  /\ Free["sum"] = None /\ Free["len"] = None /\ Free["time"] = None /\ Free["isStats"] = FALSE
  BY DEF Free, EntryRecords

\* What a thread is between two packets.
LEMMA IdleSender == Idle \in SenderRecords /\ Idle.at = "idle" /\ Idle.i = 1 /\ Idle.clock = 0
  BY NoneIsNoMark DEF Idle, SenderRecords

\* What the main thread is between two packets.
LEMMA WaitingReader == Waiting \in ReaderRecords /\ Waiting.at = "recv"
<1>1. 1 \in 1..Size + 1 /\ 1 \in DOMAIN Fields BY LatencyAssumption, FieldNames
<1>2. QED BY <1>1 DEF Waiting, ReaderRecords

\* The names of the fields are those of the records.
LEMMA FieldsOfEntries ==
  ASSUME NEW e \in EntryRecords
  PROVE  e["sum"] = e.sum /\ e["len"] = e.len /\ e["time"] = e.time /\ e["isStats"] = e.isStats
  BY DEF EntryRecords

\* The assignments to a thread's passage, as SenderStep and SenderDone.
LEMMA SenderMoves ==
  ASSUME sender \in [Threads -> SenderRecords], NEW t \in Threads,
         NEW at \in {"look", "sum", "len", "clock", "time", "isStats"}
  PROVE  /\ sender' = [sender EXCEPT ![t].at = at] => SenderStep(t, at, sender[t].i, sender[t].clock)
         /\ \A clock \in Times : sender' = [sender EXCEPT ![t].at = at, ![t].clock = clock]
                => SenderStep(t, at, sender[t].i, clock)
         /\ \A i \in Entries : sender' = [sender EXCEPT ![t].i = i]
                => SenderStep(t, sender[t].at, i, sender[t].clock)
         /\ sender' = [sender EXCEPT ![t] = [@ EXCEPT !.at = at]] => SenderStep(t, at, sender[t].i, sender[t].clock)
         /\ sender' = [sender EXCEPT ![t] = Idle] => SenderDone(t)
<1>1. sender' = [sender EXCEPT ![t].at = at] => SenderStep(t, at, sender[t].i, sender[t].clock)
  BY DEF SenderStep, SenderRecords
<1>2. ASSUME NEW clock \in Times, sender' = [sender EXCEPT ![t].at = at, ![t].clock = clock]
      PROVE  SenderStep(t, at, sender[t].i, clock)
  <2> DEFINE r == [[sender[t] EXCEPT !.at = at] EXCEPT !.clock = clock]
  <2>0. sender[t] \in SenderRecords OBVIOUS
  <2>1. /\ r \in SenderRecords /\ r.at = at /\ r.i = sender[t].i
        /\ r.clock = clock /\ r.mark = sender[t].mark
    BY <2>0 DEF SenderRecords
  <2>2. sender' = [sender EXCEPT ![t] = r] BY <1>2
  <2> HIDE DEF r
  <2>3. sender'[t] = r BY <2>2
  <2>4. QED BY <2>1, <2>2, <2>3 DEF SenderStep
<1>3. \A i \in Entries : sender' = [sender EXCEPT ![t].i = i]
                => SenderStep(t, sender[t].at, i, sender[t].clock)
  BY DEF SenderStep, SenderRecords
<1>4. sender' = [sender EXCEPT ![t] = [@ EXCEPT !.at = at]] => SenderStep(t, at, sender[t].i, sender[t].clock)
  BY DEF SenderStep, SenderRecords
<1>5. sender' = [sender EXCEPT ![t] = Idle] => SenderDone(t)
  BY IdleSender DEF SenderDone
<1>6. QED BY <1>1, <1>2, <1>3, <1>4, <1>5

\* A thread that has sent a packet starts to look at entry 1.
LEMMA SentForm ==
  ASSUME Sane, NEW t \in Threads, NEW mark \in Marks, NEW isStats \in BOOLEAN, Sent(t, mark, isStats)
  PROVE  /\ sender' \in [Threads -> SenderRecords]
         /\ sender'[t].at = "look" /\ sender'[t].i = 1 /\ sender'[t].clock = 0 /\ sender'[t].mark = mark
         /\ \A u \in Threads \ {t} : sender'[u] = sender[u]
<1> DEFINE r == [Idle EXCEPT !.at = "look", !.mark = mark, !.isStats = isStats]
<1>1. r \in SenderRecords /\ r.at = "look" /\ r.i = 1 /\ r.clock = 0 /\ r.mark = mark
  BY NoneIsNoMark DEF Idle, SenderRecords
<1>2. sender' = [sender EXCEPT ![t] = r] BY DEF Sent
<1> HIDE DEF r
<1>3. QED BY <1>1, <1>2 DEF Sane

\* Where each action of a thread takes it.
LEMMA SenderForms ==
  ASSUME Sane, NEW t \in Threads
  PROVE  /\ LookTaken(t) => IF sender[t].i < Size
                            THEN SenderStep(t, "look", sender[t].i + 1, sender[t].clock)
                            ELSE SenderDone(t)
         /\ LookFree(t) => SenderStep(t, "sum", sender[t].i, sender[t].clock)
         /\ ReadClock(t) => SenderStep(t, "time", sender[t].i, now)
         /\ Write(t, "sum", sender[t].mark, "len") => SenderStep(t, "len", sender[t].i, sender[t].clock)
         /\ Write(t, "len", sender[t].mark, "clock") => SenderStep(t, "clock", sender[t].i, sender[t].clock)
         /\ Write(t, "time", sender[t].clock, "isStats") => SenderStep(t, "isStats", sender[t].i, sender[t].clock)
         /\ Write(t, "isStats", sender[t].isStats, "idle") => SenderDone(t)
<1>0. sender \in [Threads -> SenderRecords] /\ sender[t] \in SenderRecords BY DEF Sane
<1>1. LookTaken(t) => IF sender[t].i < Size
                      THEN SenderStep(t, "look", sender[t].i + 1, sender[t].clock)
                      ELSE SenderDone(t)
  <2> SUFFICES ASSUME LookTaken(t)
               PROVE  IF sender[t].i < Size
                      THEN SenderStep(t, "look", sender[t].i + 1, sender[t].clock)
                      ELSE SenderDone(t)
    OBVIOUS
  <2>1. CASE sender[t].i < Size
    <3>1. sender[t].i + 1 \in Entries BY <1>0, <2>1, LatencyAssumption DEF SenderRecords, Entries
    <3>2. sender' = [sender EXCEPT ![t].i = sender[t].i + 1]
      BY <2>1 DEF LookTaken
    <3>3. SenderStep(t, sender[t].at, sender[t].i + 1, sender[t].clock) BY <1>0, <3>1, <3>2, SenderMoves
    <3>4. QED BY <2>1, <3>3 DEF LookTaken
  <2>2. CASE ~(sender[t].i < Size)
    <3>1. sender' = [sender EXCEPT ![t] = Idle] BY <2>2 DEF LookTaken
    <3>2. QED BY <1>0, <2>2, <3>1, SenderMoves
  <2>3. QED BY <2>1, <2>2
<1>2. LookFree(t) => SenderStep(t, "sum", sender[t].i, sender[t].clock)
  BY <1>0, SenderMoves DEF LookFree
<1>3. ReadClock(t) => SenderStep(t, "time", sender[t].i, now)
  BY <1>0, SenderMoves DEF ReadClock, Sane
<1>4. Write(t, "sum", sender[t].mark, "len") => SenderStep(t, "len", sender[t].i, sender[t].clock)
  BY <1>0, SenderMoves DEF Write
<1>5. Write(t, "len", sender[t].mark, "clock") => SenderStep(t, "clock", sender[t].i, sender[t].clock)
  BY <1>0, SenderMoves DEF Write
<1>6. Write(t, "time", sender[t].clock, "isStats") => SenderStep(t, "isStats", sender[t].i, sender[t].clock)
  BY <1>0, SenderMoves DEF Write
<1>7. Write(t, "isStats", sender[t].isStats, "idle") => SenderDone(t)
  BY <1>0, SenderMoves DEF Write
<1>8. QED BY <1>1, <1>2, <1>3, <1>4, <1>5, <1>6, <1>7

\* What each action of a thread writes.
LEMMA EntryForms ==
  ASSUME Sane, NEW t \in Threads
  PROVE  LET i == sender[t].i IN
         /\ Write(t, "sum", sender[t].mark, "len") => EntryStep(i, sender[t].mark, lt[i].len, lt[i].time)
         /\ Write(t, "len", sender[t].mark, "clock") => EntryStep(i, lt[i].sum, sender[t].mark, lt[i].time)
         /\ Write(t, "time", sender[t].clock, "isStats") => EntryStep(i, lt[i].sum, lt[i].len, sender[t].clock)
         /\ Write(t, "isStats", sender[t].isStats, "idle") => EntryStep(i, lt[i].sum, lt[i].len, lt[i].time)
<1> DEFINE i == sender[t].i
<1>0. /\ lt \in [Entries -> EntryRecords] /\ i \in Entries
      /\ sender[t].mark \in Marks \cup {None} /\ sender[t].clock \in Times /\ sender[t].isStats \in BOOLEAN
  BY DEF Sane, SenderRecords
<1> HIDE DEF i
<1>1. ASSUME lt' = [lt EXCEPT ![i]["sum"] = sender[t].mark]
      PROVE  EntryStep(i, sender[t].mark, lt[i].len, lt[i].time)
  BY <1>0, <1>1 DEF EntryStep, EntryRecords
<1>2. ASSUME lt' = [lt EXCEPT ![i]["len"] = sender[t].mark]
      PROVE  EntryStep(i, lt[i].sum, sender[t].mark, lt[i].time)
  BY <1>0, <1>2 DEF EntryStep, EntryRecords
<1>3. ASSUME lt' = [lt EXCEPT ![i]["time"] = sender[t].clock]
      PROVE  EntryStep(i, lt[i].sum, lt[i].len, sender[t].clock)
  BY <1>0, <1>3 DEF EntryStep, EntryRecords
<1>4. ASSUME lt' = [lt EXCEPT ![i]["isStats"] = sender[t].isStats]
      PROVE  EntryStep(i, lt[i].sum, lt[i].len, lt[i].time)
  BY <1>0, <1>4 DEF EntryStep, EntryRecords
<1>5. QED BY <1>1, <1>2, <1>3, <1>4 DEF Write, i

\* Where each action of the main thread takes it.
LEMMA ReaderForms ==
  ASSUME Sane
  PROVE  /\ \A mark \in Marks, stats \in BOOLEAN : Receive(mark, stats) =>
              reader' \in ReaderRecords /\ reader'.at = "scan" /\ reader'.i = 1 /\ reader'.mark = mark
         /\ ScanEnds => reader' \in ReaderRecords /\ reader'.at = "recv"
         /\ ScanOn => ReaderStep("scan", reader.i + 1, reader.field)
         /\ ScanFound => ReaderStep("measure", reader.i, reader.field)
         /\ Measure => ReaderStep("clear", 1, 1)
         /\ Clear => IF reader.field < 4 THEN ReaderStep("clear", reader.i, reader.field + 1)
                     ELSE IF reader.i < Size THEN ReaderStep("clear", reader.i + 1, 1)
                     ELSE reader' \in ReaderRecords /\ reader'.at = "recv"
<1>0. /\ reader \in ReaderRecords /\ reader.i \in 1..Size + 1 /\ reader.field \in 1..4
      /\ 1 \in 1..Size + 1 /\ 1 \in DOMAIN Fields /\ DOMAIN Fields = 1..4
  BY LatencyAssumption, FieldNames DEF Sane, ReaderRecords
<1>1. ASSUME NEW mark \in Marks, NEW stats \in BOOLEAN, Receive(mark, stats)
      PROVE  reader' \in ReaderRecords /\ reader'.at = "scan" /\ reader'.i = 1 /\ reader'.mark = mark
  <2>1. reader' = [at |-> "scan", i |-> 1, field |-> 1, mark |-> mark, stats |-> stats]
    BY <1>1 DEF Receive, Waiting
  <2>2. QED BY <1>0, <2>1 DEF ReaderRecords
<1>2. ScanEnds => reader' \in ReaderRecords /\ reader'.at = "recv"
  BY WaitingReader DEF ScanEnds
<1>3. ScanOn => ReaderStep("scan", reader.i + 1, reader.field)
  <2> SUFFICES ASSUME ScanOn PROVE ReaderStep("scan", reader.i + 1, reader.field) OBVIOUS
  <2>1. reader.i + 1 \in 1..Size + 1 BY <1>0, LatencyAssumption DEF ScanOn
  <2>2. reader' = [reader EXCEPT !.i = reader.i + 1] /\ reader.at = "scan" BY DEF ScanOn
  <2>3. QED BY <1>0, <2>1, <2>2 DEF ReaderStep, ReaderRecords
<1>4. ScanFound => ReaderStep("measure", reader.i, reader.field)
  BY <1>0 DEF ScanFound, ReaderStep, ReaderRecords
<1>5. Measure => ReaderStep("clear", 1, 1)
  BY <1>0 DEF Measure, ReaderStep, ReaderRecords
<1>6. ASSUME Clear
      PROVE  IF reader.field < 4 THEN ReaderStep("clear", reader.i, reader.field + 1)
             ELSE IF reader.i < Size THEN ReaderStep("clear", reader.i + 1, 1)
             ELSE reader' \in ReaderRecords /\ reader'.at = "recv"
  <2>0. reader.at = "clear" BY <1>6 DEF Clear
  <2>1. CASE reader.field < 4
    <3>1. reader' = [reader EXCEPT !.field = reader.field + 1] BY <1>6, <2>1, FieldNames DEF Clear, ClearOn
    <3>2. reader.field + 1 \in DOMAIN Fields BY <1>0, <2>1
    <3>3. QED BY <1>0, <2>0, <2>1, <3>1, <3>2 DEF ReaderStep, ReaderRecords
  <2>2. CASE ~(reader.field < 4) /\ reader.i < Size
    <3>1. reader' = [reader EXCEPT !.field = 1, !.i = reader.i + 1] BY <1>6, <2>2, FieldNames DEF Clear, ClearOn
    <3>2. reader.i + 1 \in 1..Size + 1 BY <1>0, <2>2, LatencyAssumption
    <3>3. ReaderStep("clear", reader.i + 1, 1) BY <1>0, <2>0, <3>1, <3>2 DEF ReaderStep, ReaderRecords
    <3>4. QED BY <2>2, <3>3
  <2>3. CASE ~(reader.field < 4) /\ ~(reader.i < Size)
    <3>1. reader' = Waiting BY <1>6, <2>3, FieldNames DEF Clear, ClearOn
    <3>2. QED BY <2>3, <3>1, WaitingReader
  <2>4. QED BY <2>1, <2>2, <2>3
<1>7. QED BY <1>1, <1>2, <1>3, <1>4, <1>5, <1>6

\* The type invariant in terms of the records above.
LEMMA TypesAreSane == TypeOK => Sane
  BY DEF TypeOK, Sane, EntryRecords, SenderRecords, ReaderRecords

\* initializeLt() clears one field of one entry.
LEMMA ClearForm ==
  ASSUME Sane, reader.i \in Entries, Clear
  PROVE  /\ lt' \in [Entries -> EntryRecords]
         /\ \A j \in Entries \ {reader.i} : lt'[j] = lt[j]
         /\ \A f \in DOMAIN Fields :
              lt'[reader.i][Fields[f]] =
                IF f = reader.field THEN Free[Fields[f]] ELSE lt[reader.i][Fields[f]]
<1> DEFINE i == reader.i
           f == reader.field
<1>0. /\ lt \in [Entries -> EntryRecords] /\ i \in Entries /\ f \in 1..4
  BY FieldNames DEF Sane, ReaderRecords
<1>1. lt' = [lt EXCEPT ![i][Fields[f]] = Free[Fields[f]]] BY DEF Clear
<1> DEFINE Goal == /\ lt' \in [Entries -> EntryRecords]
                   /\ \A j \in Entries \ {i} : lt'[j] = lt[j]
                   /\ lt'[i]["sum"] = IF f = 1 THEN Free["sum"] ELSE lt[i]["sum"]
                   /\ lt'[i]["len"] = IF f = 2 THEN Free["len"] ELSE lt[i]["len"]
                   /\ lt'[i]["time"] = IF f = 3 THEN Free["time"] ELSE lt[i]["time"]
                   /\ lt'[i]["isStats"] = IF f = 4 THEN Free["isStats"] ELSE lt[i]["isStats"]
<1> HIDE DEF i, f
<1>2. Goal
  <2>1. CASE f = 1
    <3>1. lt' = [lt EXCEPT ![i]["sum"] = None] BY <1>1, <2>1, FieldNames, FreeEntry
    <3>2. QED BY <1>0, <2>1, <3>1, FreeEntry DEF EntryRecords
  <2>2. CASE f = 2
    <3>1. lt' = [lt EXCEPT ![i]["len"] = None] BY <1>1, <2>2, FieldNames, FreeEntry
    <3>2. QED BY <1>0, <2>2, <3>1, FreeEntry DEF EntryRecords
  <2>3. CASE f = 3
    <3>1. lt' = [lt EXCEPT ![i]["time"] = None] BY <1>1, <2>3, FieldNames, FreeEntry
    <3>2. QED BY <1>0, <2>3, <3>1, FreeEntry DEF EntryRecords
  <2>4. CASE f = 4
    <3>1. lt' = [lt EXCEPT ![i]["isStats"] = FALSE] BY <1>1, <2>4, FieldNames, FreeEntry
    <3> DEFINE e == [lt[i] EXCEPT !["isStats"] = FALSE]
    <3>2. lt' = [lt EXCEPT ![i] = e] BY <3>1
    <3>3. lt[i] \in EntryRecords BY <1>0
    <3>4. /\ e \in EntryRecords /\ e.sum = lt[i].sum /\ e.len = lt[i].len
          /\ e.time = lt[i].time /\ e.isStats = FALSE
      BY <3>3 DEF EntryRecords
    <3> HIDE DEF e
    <3>5. lt'[i] = e BY <1>0, <3>2
    <3>6. /\ e["sum"] = lt[i]["sum"] /\ e["len"] = lt[i]["len"]
          /\ e["time"] = lt[i]["time"] /\ e["isStats"] = FALSE
      BY <3>3, <3>4, FieldsOfEntries
    <3>7. lt' \in [Entries -> EntryRecords] /\ \A j \in Entries \ {i} : lt'[j] = lt[j]
      BY <1>0, <3>2, <3>4
    <3>8. /\ lt'[i]["sum"] = lt[i]["sum"] /\ lt'[i]["len"] = lt[i]["len"]
          /\ lt'[i]["time"] = lt[i]["time"]
      BY <3>5, <3>6
    <3>9. lt'[i]["isStats"] = Free["isStats"] BY <3>5, <3>6, FreeEntry
    <3>10. f # 1 /\ f # 2 /\ f # 3 BY <2>4
    <3>11. QED BY <2>4, <3>7, <3>8, <3>9, <3>10
  <2>5. QED BY <1>0, <2>1, <2>2, <2>3, <2>4
<1>3. ASSUME NEW g \in DOMAIN Fields
      PROVE  lt'[i][Fields[g]] = IF g = f THEN Free[Fields[g]] ELSE lt[i][Fields[g]]
  <2>1. g = 1 \/ g = 2 \/ g = 3 \/ g = 4 BY FieldNames
  <2>2. CASE g = 1 BY <1>2, <2>2, FieldNames
  <2>3. CASE g = 2 BY <1>2, <2>3, FieldNames
  <2>4. CASE g = 3 BY <1>2, <2>4, FieldNames
  <2>5. CASE g = 4 BY <1>2, <2>5, FieldNames
  <2>6. QED BY <2>1, <2>2, <2>3, <2>4, <2>5
<1>4. QED BY <1>2, <1>3 DEF i, f

\* An entry all of whose fields are cleared is free.
LEMMA ClearedIsFree ==
  ASSUME NEW e \in EntryRecords, \A f \in DOMAIN Fields : e[Fields[f]] = Free[Fields[f]]
  PROVE  e = Free
<1>1. e["sum"] = None /\ e["len"] = None /\ e["time"] = None /\ e["isStats"] = FALSE
  BY FieldNames, FreeEntry
<1>2. e.sum = None /\ e.len = None /\ e.time = None /\ e.isStats = FALSE
  BY <1>1, FieldsOfEntries
<1>3. QED BY <1>2 DEF EntryRecords, Free

\* Types, packets under way and times stay as they are said to be.
LEMMA TypeStep ==
  ASSUME TypeOK, PassageInv, TimeInv, Next
  PROVE  TypeOK' /\ PassageInv' /\ TimeInv'
<1>0. Sane BY TypesAreSane
<1>1. order' \in {"kept", "broken", "mending"}
  BY DEF Next, KeepOrder, TypeOK
<1>t. /\ \A i \in Entries : lt[i].time \in Times \cup {None}
      /\ \A t \in Threads : sender[t].clock \in Times /\ sender[t].i \in Entries
      /\ now \in Int /\ emptied \in Int /\ Times \subseteq Int /\ None \in Int /\ None < 0 /\ now >= 0
      /\ \A x \in Times : x >= 0
  BY <1>0 DEF Sane, EntryRecords, SenderRecords, Times, None
<1> DEFINE Others == /\ gLatency' \in 0..MaxTime + 1 /\ now' \in Times /\ emptied' \in Times
           Tables == lt' \in [Entries -> EntryRecords]
           Senders == /\ sender' \in [Threads -> SenderRecords]
                      /\ \A t \in Threads : sender'[t].at # "idle" => sender'[t].mark \in Marks
           Readers == /\ reader' \in ReaderRecords /\ (reader'.at # "recv" => reader'.mark \in Marks)
                      /\ (reader'.at \in {"measure", "clear"} => reader'.i \in Entries)
<1>2. ASSUME Others, Tables, Senders, Readers PROVE TypeOK' /\ PassageInv'
  BY <1>1, <1>2 DEF TypeOK, PassageInv, EntryRecords, SenderRecords, ReaderRecords
<1>3. UNCHANGED <<gLatency, now, emptied>> => Others BY DEF TypeOK
<1>4. UNCHANGED lt => Tables BY <1>0 DEF Sane
<1>5. UNCHANGED sender => Senders BY <1>0 DEF Sane, PassageInv
<1>6. UNCHANGED reader => Readers BY <1>0 DEF Sane, PassageInv
<1>7. CASE Tick
  <2>1. /\ now' \in Times /\ now' = now + 1 /\ UNCHANGED <<lt, sender, reader, gLatency, emptied>>
    BY <1>7, LatencyAssumption DEF Tick, TypeOK, Times
  <2>2. Others BY <2>1 DEF TypeOK
  <2>3. TimeInv'
    <3>1. \A x \in Int : x <= now => x <= now + 1 BY <1>t
    <3>2. QED BY <1>t, <2>1, <3>1 DEF TimeInv
  <2>4. QED BY <1>2, <1>4, <1>5, <1>6, <2>1, <2>2, <2>3
<1>8. CASE Reader
  <2>1. ASSUME NEW mark \in Marks, NEW stats \in BOOLEAN, Receive(mark, stats)
        PROVE  TypeOK' /\ PassageInv' /\ TimeInv'
    <3>1. UNCHANGED <<lt, sender, gLatency, now, emptied>> BY <2>1 DEF Receive
    <3>2. Readers BY <1>0, <2>1, ReaderForms
    <3>3. QED BY <1>2, <1>3, <1>4, <1>5, <3>1, <3>2 DEF TimeInv
  <2>2. CASE ScanEnds
    <3>1. UNCHANGED <<lt, sender, gLatency, now, emptied>> BY <2>2 DEF ScanEnds
    <3>2. Readers BY <1>0, <2>2, ReaderForms
    <3>3. QED BY <1>2, <1>3, <1>4, <1>5, <3>1, <3>2 DEF TimeInv
  <2>3. CASE ScanOn
    <3>1. UNCHANGED <<lt, sender, gLatency, now, emptied>> /\ reader.at = "scan" BY <2>3 DEF ScanOn
    <3>2. Readers BY <1>0, <2>3, <3>1, ReaderForms DEF ReaderStep, PassageInv
    <3>3. QED BY <1>2, <1>3, <1>4, <1>5, <3>1, <3>2 DEF TimeInv
  <2>4. CASE ScanFound
    <3>1. UNCHANGED <<lt, sender, gLatency, now, emptied>> /\ reader.at = "scan" /\ reader.i <= Size BY <2>4 DEF ScanFound
    <3>2. reader.i \in Entries BY <1>0, <3>1, LatencyAssumption DEF Sane, ReaderRecords, Entries
    <3>3. Readers BY <1>0, <2>4, <3>1, <3>2, ReaderForms DEF ReaderStep, PassageInv
    <3>4. QED BY <1>2, <1>3, <1>4, <1>5, <3>1, <3>3 DEF TimeInv
  <2>5. CASE Measure
    <3>1. /\ UNCHANGED <<lt, sender, now>> /\ emptied' = now /\ reader.at = "measure"
          /\ gLatency' = now - lt[reader.i].time
      BY <2>5 DEF Measure
    <3>2. reader.i \in Entries BY <3>1 DEF PassageInv
    <3>3. Readers BY <1>0, <2>5, <3>1, NoneIsNoMark, ReaderForms DEF ReaderStep, PassageInv
    <3>4. gLatency' \in 0..MaxTime + 1
      <4>1. lt[reader.i].time \in Times \cup {None} /\ lt[reader.i].time <= now BY <1>t, <3>2 DEF TimeInv
      <4>2. now \in 0..MaxTime BY <1>0 DEF Sane, Times
      <4>3. QED BY <3>1, <4>1, <4>2, LatencyAssumption DEF Times, None
    <3>5. Others BY <1>0, <3>1, <3>4 DEF Sane
    <3>6. TimeInv' BY <1>t, <3>1 DEF TimeInv
    <3>7. QED BY <1>2, <1>4, <1>5, <3>1, <3>3, <3>5, <3>6
  <2>6. CASE Clear
    <3>1. UNCHANGED <<sender, gLatency, now, emptied>> /\ reader.at = "clear" BY <2>6 DEF Clear
    <3>2. reader.i \in Entries BY <3>1 DEF PassageInv
    <3>3. Readers
      <4>1. reader.field < 4 \/ reader.i < Size \/ (~(reader.field < 4) /\ ~(reader.i < Size)) OBVIOUS
      <4>2. reader.i < Size => reader.i + 1 \in Entries BY <3>2, LatencyAssumption DEF Entries
      <4>3. QED BY <1>0, <2>6, <3>1, <3>2, <4>1, <4>2, ReaderForms DEF ReaderStep, PassageInv
    <3>4. Tables BY <1>0, <2>6, <3>2, ClearForm
    <3>5. \A j \in Entries : lt'[j].time <= now
      <4>1. ASSUME NEW j \in Entries \ {reader.i} PROVE lt'[j].time <= now
        BY <1>0, <2>6, <3>2, ClearForm DEF TimeInv
      <4>2. lt'[reader.i].time <= now
        <5>1. lt'[reader.i]["time"] = None \/ lt'[reader.i]["time"] = lt[reader.i]["time"]
          BY <1>0, <2>6, <3>2, ClearForm, FieldNames, FreeEntry
        <5>2. lt'[reader.i] \in EntryRecords /\ lt[reader.i] \in EntryRecords BY <1>0, <3>2, <3>4 DEF Sane
        <5>3. lt'[reader.i].time = None \/ lt'[reader.i].time = lt[reader.i].time
          BY <5>1, <5>2, FieldsOfEntries
        <5>4. QED BY <1>t, <3>2, <5>3 DEF TimeInv
      <4>3. QED BY <4>1, <4>2
    <3>6. TimeInv' BY <3>1, <3>5 DEF TimeInv
    <3>7. QED BY <1>2, <1>3, <1>5, <3>1, <3>3, <3>4, <3>6
  <2>7. QED BY <1>8, <2>1, <2>2, <2>3, <2>4, <2>5, <2>6 DEF Reader
<1>9. ASSUME NEW t \in Threads, Sender(t) PROVE TypeOK' /\ PassageInv' /\ TimeInv'
  <2>0. UNCHANGED <<reader, gLatency, now, emptied>>
    BY <1>9 DEF Sender, Sent, LookTaken, LookFree, WriteEntry, ReadClock, Write
  <2>1. ASSUME Tables, Senders, \A i \in Entries : lt'[i].time <= now, \A u \in Threads : sender'[u].clock <= now
        PROVE  TypeOK' /\ PassageInv' /\ TimeInv'
    BY <1>2, <1>3, <1>6, <2>0, <2>1 DEF TimeInv
  <2> DEFINE Goal == TypeOK' /\ PassageInv' /\ TimeInv'
  <2>2. ASSUME NEW at \in {"look", "sum", "len", "clock", "time", "isStats"}, NEW i, NEW clock, SenderStep(t, at, i, clock),
               sender[t].at # "idle", clock <= now
        PROVE  Senders /\ \A u \in Threads : sender'[u].clock <= now
    BY <2>2 DEF SenderStep, PassageInv, TimeInv
  <2>3. ASSUME SenderDone(t) PROVE Senders /\ \A u \in Threads : sender'[u].clock <= now
    BY <1>t, <2>3 DEF SenderDone, PassageInv, TimeInv
  <2>4. sender[t].clock <= now BY DEF TimeInv
  <2>5. ASSUME NEW i \in Entries, NEW sum, NEW len, NEW time, EntryStep(i, sum, len, time), time <= now
        PROVE  Tables /\ \A j \in Entries : lt'[j].time <= now
    BY <2>5 DEF EntryStep, TimeInv
  <2>6. ASSUME NEW mark \in Marks, NEW isStats \in BOOLEAN, Sent(t, mark, isStats) PROVE Goal
    <3>1. UNCHANGED lt BY <2>6 DEF Sent
    <3>2. Senders BY <1>0, <2>6, SentForm DEF PassageInv
    <3>3. \A u \in Threads : sender'[u].clock <= now BY <1>0, <1>t, <2>6, SentForm DEF TimeInv
    <3>4. QED BY <1>4, <2>1, <3>1, <3>2, <3>3 DEF TimeInv
  <2>7. CASE LookTaken(t)
    <3>1. UNCHANGED lt /\ sender[t].at # "idle" BY <2>7 DEF LookTaken
    <3>2. QED BY <1>0, <1>4, <2>1, <2>2, <2>3, <2>4, <2>7, <3>1, SenderForms DEF TimeInv
  <2>8. CASE LookFree(t)
    <3>1. UNCHANGED lt /\ sender[t].at # "idle" BY <2>8 DEF LookFree
    <3>2. QED BY <1>0, <1>4, <2>1, <2>2, <2>4, <2>8, <3>1, SenderForms DEF TimeInv
  <2>9. CASE ReadClock(t)
    <3>1. UNCHANGED lt /\ sender[t].at # "idle" BY <2>9 DEF ReadClock
    <3>2. QED BY <1>0, <1>t, <1>4, <2>1, <2>2, <2>9, <3>1, SenderForms DEF TimeInv
  <2>10. sender[t].i \in Entries /\ lt[sender[t].i].time <= now BY <1>t DEF TimeInv
  <2>11. CASE Write(t, "sum", sender[t].mark, "len")
    <3>1. sender[t].at # "idle" BY <2>11 DEF Write
    <3>2. QED BY <1>0, <2>1, <2>2, <2>4, <2>5, <2>10, <2>11, <3>1, SenderForms, EntryForms
  <2>12. CASE Write(t, "len", sender[t].mark, "clock")
    <3>1. sender[t].at # "idle" BY <2>12 DEF Write
    <3>2. QED BY <1>0, <2>1, <2>2, <2>4, <2>5, <2>10, <2>12, <3>1, SenderForms, EntryForms
  <2>13. CASE Write(t, "time", sender[t].clock, "isStats")
    <3>1. sender[t].at # "idle" BY <2>13 DEF Write
    <3>2. QED BY <1>0, <2>1, <2>2, <2>4, <2>5, <2>10, <2>13, <3>1, SenderForms, EntryForms
  <2>14. CASE Write(t, "isStats", sender[t].isStats, "idle")
    BY <1>0, <2>1, <2>3, <2>4, <2>5, <2>10, <2>14, SenderForms, EntryForms
  <2>15. QED BY <1>9, <2>6, <2>7, <2>8, <2>9, <2>11, <2>12, <2>13, <2>14 DEF Sender, WriteEntry
<1>10. QED BY <1>7, <1>8, <1>9 DEF Next

\* Nobody is in another's way as long as order is not broken.
LEMMA Alone ==
  ASSUME ~Crowded
  PROVE  /\ reader.at # "recv" => \A t \in Threads : ~AtTable(t)
         /\ \A t, u \in Threads : AtTable(t) /\ AtTable(u) => t = u
  BY DEF Crowded

\* KeepOrder says of order what OrderInv does.
LEMMA OrderStep ==
  ASSUME TypeOK, OrderInv, Next
  PROVE  OrderInv'
<1>1. order' # "broken" => ~Crowded'
  BY DEF Next, KeepOrder
<1>2. order' = "mending" => reader'.at \in {"measure", "clear"}
  <2> SUFFICES ASSUME order' = "mending" PROVE reader'.at \in {"measure", "clear"} OBVIOUS
  <2>1. reader.at \in {"measure", "clear"} /\ (order = "mending" => reader'.at # "recv")
    BY DEF Next, KeepOrder, OrderInv
  <2>2. CASE Tick BY <2>1, <2>2 DEF Tick
  <2>3. CASE Reader
    <3>1. ~ScanEnds /\ ~ScanOn /\ ~ScanFound /\ \A mark \in Marks, stats \in BOOLEAN : ~Receive(mark, stats)
      BY <2>1 DEF ScanEnds, ScanOn, ScanFound, Receive
    <3>2. CASE Measure BY <3>2, TypesAreSane, ReaderForms DEF ReaderStep
    <3>3. CASE Clear
      <4>1. reader.at = "clear" /\ order = "mending" BY <3>3 DEF Clear, Next, KeepOrder
      <4>2. reader'.at # "recv" BY <2>1, <4>1
      <4>3. QED BY <3>3, <4>2, TypesAreSane, ReaderForms DEF ReaderStep
    <3>4. QED BY <2>3, <3>1, <3>2, <3>3 DEF Reader
  <2>4. ASSUME NEW t \in Threads, Sender(t) PROVE reader' = reader
    BY <2>4 DEF Sender, Sent, LookTaken, LookFree, WriteEntry, ReadClock, Write
  <2>5. QED BY <2>1, <2>2, <2>3, <2>4 DEF Next
<1>3. QED BY <1>1, <1>2 DEF OrderInv

\* Where order is kept after a step, it was before, or the table has just been
\* cleared in peace.
LEMMA OrderWas ==
  ASSUME TypeOK, OrderInv, Next, order' # "broken"
  PROVE  /\ ~Crowded'
         /\ order' = "kept" => order = "kept" \/ (order = "mending" /\ reader.at # "recv" /\ reader'.at = "recv")
         /\ order = "broken" => reader.at = "measure"
         /\ order # "broken" => ~Crowded
  BY DEF Next, KeepOrder, OrderInv, TypeOK

\* A thread that writes an entry is at the table.
LEMMA WritersAtTable ==
  ASSUME NEW t \in Threads, WriteEntry(t)
  PROVE  Writing(t) /\ AtTable(t)
  BY DEF WriteEntry, ReadClock, Write, Writing, AtTable

\* initializeLt() goes through the table with nobody in its way.
LEMMA ClearedStep ==
  ASSUME TypeOK, PassageInv, OrderInv, ClearedInv, Next
  PROVE  ClearedInv'
<1> SUFFICES ASSUME order' # "broken", reader'.at = "clear"
             PROVE  /\ \A i \in Entries : i < reader'.i => lt'[i] = Free
                    /\ \A f \in DOMAIN Fields : f < reader'.field => lt'[reader'.i][Fields[f]] = Free[Fields[f]]
  BY DEF ClearedInv
<1> DEFINE Goal == /\ \A i \in Entries : i < reader'.i => lt'[i] = Free
                   /\ \A f \in DOMAIN Fields : f < reader'.field => lt'[reader'.i][Fields[f]] = Free[Fields[f]]
<1>0. Sane BY TypesAreSane
<1>1. ASSUME reader.at = "clear" PROVE ClearedInv /\ order # "broken" /\ \A t \in Threads : ~AtTable(t)
  <2>1. order # "broken" /\ ~Crowded BY <1>1, OrderWas
  <2>2. QED BY <1>1, <2>1, Alone
<1>2. CASE UNCHANGED <<lt, reader>> BY <1>1, <1>2 DEF ClearedInv
<1>3. CASE Reader
  <2>1. CASE Clear
    <3>1. reader.at = "clear" /\ reader.i \in Entries BY <2>1 DEF Clear, PassageInv
    <3>2. /\ \A i \in Entries : i < reader.i => lt[i] = Free
          /\ \A f \in DOMAIN Fields : f < reader.field => lt[reader.i][Fields[f]] = Free[Fields[f]]
      BY <1>1, <3>1 DEF ClearedInv
    <3>3. /\ lt' \in [Entries -> EntryRecords]
          /\ \A j \in Entries \ {reader.i} : lt'[j] = lt[j]
          /\ \A f \in DOMAIN Fields :
               lt'[reader.i][Fields[f]] = IF f = reader.field THEN Free[Fields[f]] ELSE lt[reader.i][Fields[f]]
      BY <1>0, <2>1, <3>1, ClearForm
    <3>4. reader.field \in 1..4 /\ DOMAIN Fields = 1..4 /\ reader.i \in Int /\ Entries \subseteq Int
      BY <1>0, <3>1, FieldNames, LatencyAssumption DEF Sane, ReaderRecords, Entries
    <3>5. \A i \in Entries : i < reader.i => lt'[i] = Free BY <3>2, <3>3, <3>4
    <3>6. \A f \in DOMAIN Fields : f < reader.field + 1 => lt'[reader.i][Fields[f]] = Free[Fields[f]]
      <4> SUFFICES ASSUME NEW f \in DOMAIN Fields, f < reader.field + 1
                   PROVE  lt'[reader.i][Fields[f]] = Free[Fields[f]]
        OBVIOUS
      <4>1. f = reader.field \/ f < reader.field BY <3>4
      <4>2. QED BY <3>2, <3>3, <4>1
    <3>7. CASE reader.field < 4
      <4>1. reader'.i = reader.i /\ reader'.field = reader.field + 1 BY <1>0, <2>1, <3>7, ReaderForms DEF ReaderStep
      <4>2. QED BY <3>5, <3>6, <4>1
    <3>8. CASE ~(reader.field < 4)
      <4>1. reader'.i = reader.i + 1 /\ reader'.field = 1 BY <1>0, <2>1, <3>8, ReaderForms DEF ReaderStep
      <4>2. \A f \in DOMAIN Fields : f < reader.field + 1 BY <3>4, <3>8
      <4>3. lt'[reader.i] = Free BY <3>1, <3>3, <3>6, <4>2, ClearedIsFree
      <4>4. \A i \in Entries : i < reader.i + 1 => i < reader.i \/ i = reader.i BY <3>4
      <4>5. \A f \in DOMAIN Fields : ~(f < 1) BY <3>4
      <4>6. QED BY <3>5, <4>1, <4>3, <4>4, <4>5
    <3>9. QED BY <3>7, <3>8
  <2>2. CASE Measure
    <3>1. reader'.i = 1 /\ reader'.field = 1 BY <1>0, <2>2, ReaderForms DEF ReaderStep
    <3>2. \A i \in Entries : ~(i < 1) BY LatencyAssumption DEF Entries
    <3>3. \A f \in DOMAIN Fields : ~(f < 1) BY FieldNames
    <3>4. QED BY <3>1, <3>2, <3>3
  <2>3. ASSUME NEW mark \in Marks, NEW stats \in BOOLEAN, Receive(mark, stats) PROVE Goal
    BY <1>0, <2>3, ReaderForms
  <2>4. CASE ScanEnds BY <1>0, <2>4, ReaderForms
  <2>5. CASE ScanOn BY <1>0, <2>5, ReaderForms DEF ReaderStep
  <2>6. CASE ScanFound BY <1>0, <2>6, ReaderForms DEF ReaderStep
  <2>7. QED BY <1>3, <2>1, <2>2, <2>3, <2>4, <2>5, <2>6 DEF Reader
<1>4. ASSUME NEW t \in Threads, Sender(t) PROVE Goal
  <2>1. reader' = reader BY <1>4 DEF Sender, Sent, LookTaken, LookFree, WriteEntry, ReadClock, Write
  <2>2. ~WriteEntry(t) BY <1>1, <2>1, WritersAtTable
  <2>3. lt' = lt BY <1>4, <2>2 DEF Sender, Sent, LookTaken, LookFree
  <2>4. QED BY <1>2, <2>1, <2>3
<1>5. QED BY <1>2, <1>3, <1>4 DEF Next, Tick

\* No entry changes behind the back of the search.
LEMMA SearchStep ==
  ASSUME TypeOK, PassageInv, OrderInv, SearchInv, Next
  PROVE  SearchInv'
<1> SUFFICES ASSUME order' = "kept", reader'.at \in {"scan", "measure"}
             PROVE  /\ reader'.at = "scan" =>
                         \A i \in Entries : i < reader'.i => ~Matches(i, reader.mark, reader.stats)'
                    /\ reader'.at = "measure" => ~IsFree(reader.i)'
  BY DEF SearchInv
<1> DEFINE Goal == /\ reader'.at = "scan" =>
                         \A i \in Entries : i < reader'.i => ~Matches(i, reader.mark, reader.stats)'
                   /\ reader'.at = "measure" => ~IsFree(reader.i)'
<1>0. Sane /\ order = "kept" /\ ~Crowded BY TypesAreSane, OrderWas DEF TypeOK
<1>1. ASSUME UNCHANGED <<lt, reader>> PROVE Goal
  BY <1>0, <1>1 DEF SearchInv, Matches, IsFree
<1>2. ASSUME Reader PROVE Goal
  <2>1. ASSUME NEW mark \in Marks, NEW stats \in BOOLEAN, Receive(mark, stats) PROVE Goal
    <3>1. reader'.at = "scan" /\ reader'.i = 1 BY <1>0, <2>1, ReaderForms
    <3>2. \A i \in Entries : ~(i < 1) BY LatencyAssumption DEF Entries
    <3>3. QED BY <3>1, <3>2
  <2>2. CASE ScanEnds BY <1>0, <2>2, ReaderForms
  <2>3. CASE ScanOn
    <3>1. ReaderStep("scan", reader.i + 1, reader.field) BY <1>0, <2>3, ReaderForms
    <3>2. lt' = lt /\ reader.at = "scan" /\ ~Matches(reader.i, reader.mark, reader.stats) BY <2>3 DEF ScanOn
    <3>3. \A i \in Entries : i < reader.i => ~Matches(i, reader.mark, reader.stats)
      BY <1>0, <3>2 DEF SearchInv
    <3>4. \A i \in Entries : i < reader.i + 1 => i < reader.i \/ i = reader.i
      BY <1>0, LatencyAssumption DEF Entries, Sane, ReaderRecords
    <3>5. \A i \in Entries : i < reader'.i => ~Matches(i, reader.mark, reader.stats)
      BY <3>1, <3>2, <3>3, <3>4 DEF ReaderStep
    <3>6. QED BY <3>1, <3>2, <3>5 DEF ReaderStep, Matches
  <2>4. CASE ScanFound
    <3>1. ReaderStep("measure", reader.i, reader.field) BY <1>0, <2>4, ReaderForms
    <3>2. lt' = lt /\ ~IsFree(reader.i) BY <2>4 DEF ScanFound
    <3>3. QED BY <3>1, <3>2 DEF ReaderStep, IsFree
  <2>5. CASE Measure BY <1>0, <2>5, ReaderForms DEF ReaderStep
  <2>6. CASE Clear BY <1>0, <2>6, ReaderForms DEF ReaderStep
  <2>7. QED BY <1>2, <2>1, <2>2, <2>3, <2>4, <2>5, <2>6 DEF Reader
<1>3. ASSUME NEW t \in Threads, Sender(t) PROVE Goal
  <2>1. reader' = reader BY <1>3 DEF Sender, Sent, LookTaken, LookFree, WriteEntry, ReadClock, Write
  <2>2. ~WriteEntry(t) BY <1>0, <2>1, Alone, WritersAtTable
  <2>3. lt' = lt BY <1>3, <2>2 DEF Sender, Sent, LookTaken, LookFree
  <2>4. QED BY <1>1, <2>1, <2>3
<1>4. QED BY <1>1, <1>2, <1>3 DEF Next, Tick

\* The last field of the last entry: all of the table is free.
LEMMA AllCleared ==
  ASSUME TypeOK, PassageInv, OrderInv, ClearedInv, Next, Clear, order # "broken", reader'.at # "clear"
  PROVE  Row(0)'
<1>0. Sane /\ reader.at = "clear" /\ reader.i \in Entries /\ UNCHANGED <<sender, emptied>>
  BY TypesAreSane DEF Clear, PassageInv
<1>1. /\ \A i \in Entries : i < reader.i => lt[i] = Free
      /\ \A f \in DOMAIN Fields : f < reader.field => lt[reader.i][Fields[f]] = Free[Fields[f]]
  BY <1>0 DEF ClearedInv
<1>2. reader.field \in 1..4 /\ ~(reader.field < 4) /\ ~(reader.i < Size)
  BY <1>0, FieldNames, ReaderForms DEF ReaderStep, Sane, ReaderRecords
<1>3. reader.i = Size /\ reader.field = 4 /\ DOMAIN Fields = 1..4
  BY <1>0, <1>2, LatencyAssumption, FieldNames DEF Entries
<1>4. /\ lt' \in [Entries -> EntryRecords]
      /\ \A j \in Entries \ {reader.i} : lt'[j] = lt[j]
      /\ \A f \in DOMAIN Fields :
           lt'[reader.i][Fields[f]] = IF f = reader.field THEN Free[Fields[f]] ELSE lt[reader.i][Fields[f]]
  BY <1>0, ClearForm
<1>5. \A f \in DOMAIN Fields : lt'[reader.i][Fields[f]] = Free[Fields[f]]
  <2>1. \A f \in DOMAIN Fields : f = reader.field \/ f < reader.field BY <1>3
  <2>2. QED BY <1>1, <1>4, <2>1
<1>6. lt'[reader.i] = Free BY <1>0, <1>4, <1>5, ClearedIsFree
<1>7. \A i \in Entries : lt'[i] = Free
  <2>1. \A i \in Entries : i = reader.i \/ i < reader.i BY <1>3, LatencyAssumption DEF Entries
  <2>2. QED BY <1>1, <1>4, <1>6, <2>1
<1>8. \A t \in Threads : ~AtTable(t) BY <1>0, Alone, OrderWas DEF OrderInv
<1>9. \A t \in Threads : ~Writing(t)' /\ (sender'[t].at = "look" => sender'[t].i <= 0 + 1)
  <2> SUFFICES ASSUME NEW t \in Threads PROVE ~Writing(t)' /\ (sender'[t].at = "look" => sender'[t].i <= 0 + 1)
    OBVIOUS
  <2>1. ~Writing(t) /\ ~(sender[t].at = "look" /\ sender[t].i > 1) BY <1>8 DEF AtTable
  <2>2. sender[t].i \in Entries BY <1>0 DEF Sane, SenderRecords
  <2>3. sender[t].at = "look" => sender[t].i <= 0 + 1 BY <2>1, <2>2, LatencyAssumption DEF Entries
  <2>4. QED BY <1>0, <2>1, <2>3 DEF Writing
<1>10. (\A i \in 0 + 2..Size : i \in Entries) /\ 0 + 1 \in Entries /\ \A i \in 1..0 : FALSE
  BY LatencyAssumption DEF Entries
<1>11. QED BY <1>7, <1>9, <1>10 DEF Row

\* One thread takes a step at the row, which stays one.
LEMMA SenderRow ==
  ASSUME TypeOK, PassageInv, TimeInv, OrderInv, Next, order' = "kept", order = "kept", reader.at # "clear",
         NEW n \in 0..Size, Row(n), NEW t \in Threads, Sender(t)
  PROVE  \E m \in 0..Size : Row(m)'
<1>0. Sane /\ ~Crowded /\ ~Crowded' BY TypesAreSane, OrderWas
<1>1. UNCHANGED <<reader, emptied>>
  BY DEF Sender, Sent, LookTaken, LookFree, WriteEntry, ReadClock, Write
<1>2. Entries = 1..Size /\ Size \in Nat /\ n \in Nat /\ n <= Size /\ emptied \in Int /\ now \in Int /\ emptied <= now
  BY <1>0, LatencyAssumption DEF Entries, Sane, Times, TimeInv
<1>3. /\ \A i \in 1..n : Fresh(i)
      /\ \A i \in n + 2..Size : lt[i] = Free
      /\ n < Size => lt[n + 1] = Free \/ \E u \in Threads : Writing(u)
      /\ \A u \in Threads : Writing(u) => sender[u].i = n + 1 /\ Begun(u)
      /\ \A u \in Threads : sender[u].at = "look" => sender[u].i <= n + 1
  BY DEF Row
<1>4. /\ sender[t] \in SenderRecords /\ sender[t].i \in Entries /\ lt[sender[t].i] \in EntryRecords
      /\ sender[t].at # "idle" => sender[t].mark \in Marks
  BY <1>0 DEF Sane, SenderRecords, PassageInv
<1>5. \A i \in 1..n : ~IsFree(i)
  BY <1>3, NoneIsNoMark DEF IsFree, Fresh
<1>6. \A u \in Threads : AtTable(t)' /\ AtTable(u)' => u = t
  BY <1>0 DEF Crowded
<1>7. ASSUME UNCHANGED lt, \A u \in Threads \ {t} : sender'[u] = sender[u], ~Writing(t), ~Writing(t)',
             sender'[t].at = "look" => sender'[t].i <= n + 1
      PROVE  Row(n)'
  <2>1. \A i : Fresh(i) => Fresh(i)' BY <1>1, <1>7 DEF Fresh
  <2>2. \A u \in Threads : Writing(u)' => u # t /\ sender'[u] = sender[u] /\ Writing(u) /\ Begun(u)
    BY <1>3, <1>7 DEF Writing
  <2>3. \A u \in Threads : Writing(u)' => sender'[u].i = n + 1 /\ Begun(u)'
    BY <1>1, <1>3, <1>7, <2>2 DEF Begun, Fresh
  <2>4. \A u \in Threads : Writing(u) => Writing(u)' BY <1>7 DEF Writing
  <2>5. QED BY <1>3, <1>7, <2>1, <2>3, <2>4 DEF Row
<1>8. ASSUME WriteEntry(t)
      PROVE  /\ Writing(t) /\ AtTable(t) /\ sender[t].i = n + 1 /\ n < Size /\ Begun(t)
             /\ \A u \in Threads \ {t} : ~AtTable(u) /\ ~Writing(u)
  <2>1. Writing(t) /\ AtTable(t) BY <1>8, WritersAtTable
  <2>2. sender[t].i = n + 1 /\ n < Size /\ Begun(t) BY <1>2, <1>3, <1>4, <2>1
  <2>3. \A u \in Threads \ {t} : ~AtTable(u) BY <1>0, <2>1, Alone
  <2>4. QED BY <2>1, <2>2, <2>3 DEF AtTable
<1>9. ASSUME WriteEntry(t), \A i \in Entries \ {n + 1} : lt'[i] = lt[i], \A u \in Threads \ {t} : sender'[u] = sender[u],
             Writing(t)', sender'[t].i = n + 1, Begun(t)'
      PROVE  Row(n)'
  <2>1. \A i \in 1..n : Fresh(i)'
    <3>1. \A i \in 1..n : i \in Entries \ {n + 1} BY <1>2
    <3>2. QED BY <1>1, <1>3, <1>9, <3>1 DEF Fresh
  <2>2. \A i \in n + 2..Size : lt'[i] = Free
    <3>1. \A i \in n + 2..Size : i \in Entries \ {n + 1} BY <1>2
    <3>2. QED BY <1>3, <1>9, <3>1
  <2>3. \A u \in Threads \ {t} : ~Writing(u)' BY <1>8, <1>9 DEF Writing
  <2>4. sender'[t].at # "look" BY <1>9 DEF Writing
  <2>5. \A u \in Threads : sender'[u].at = "look" => sender'[u].i <= n + 1 BY <1>3, <1>9, <2>4
  <2>6. QED BY <1>9, <2>1, <2>2, <2>3, <2>5 DEF Row
<1>10. ASSUME NEW mark \in Marks, NEW isStats \in BOOLEAN, Sent(t, mark, isStats) PROVE Row(n)'
  <2>1. /\ sender'[t].at = "look" /\ sender'[t].i = 1 /\ \A u \in Threads \ {t} : sender'[u] = sender[u]
    BY <1>0, <1>10, SentForm
  <2>2. UNCHANGED lt /\ ~Writing(t) /\ ~Writing(t)' BY <1>10, <2>1 DEF Sent, Writing
  <2>3. 1 <= n + 1 BY <1>2
  <2>4. QED BY <1>7, <2>1, <2>2, <2>3
<1>11. CASE LookTaken(t)
  <2>1. UNCHANGED lt /\ sender[t].at = "look" /\ ~IsFree(sender[t].i) /\ ~Writing(t)
    BY <1>11 DEF LookTaken, Writing
  <2>2. CASE sender[t].i < Size
    <3>1. SenderStep(t, "look", sender[t].i + 1, sender[t].clock) BY <1>0, <1>11, <2>2, SenderForms
    <3>2. AtTable(t)' /\ ~Writing(t)' BY <1>2, <1>4, <3>1 DEF SenderStep, AtTable, Writing
    <3>3. \A u \in Threads : ~Writing(u)
      <4> SUFFICES ASSUME NEW u \in Threads, Writing(u) PROVE FALSE OBVIOUS
      <4>1. u # t BY <2>1
      <4>2. AtTable(u)' BY <3>1, <4>1 DEF SenderStep, AtTable, Writing
      <4>3. QED BY <1>6, <3>2, <4>1, <4>2
    <3>4. sender[t].i <= n
      <4>1. sender[t].i <= n + 1 BY <1>3, <2>1
      <4>2. n < Size => IsFree(n + 1) BY <1>3, <3>3, FreeEntry DEF IsFree
      <4>3. sender[t].i # n + 1 BY <1>2, <2>1, <2>2, <4>2
      <4>4. QED BY <1>2, <1>4, <4>1, <4>3
    <3>5. sender[t].i + 1 <= n + 1 BY <1>2, <1>4, <3>4
    <3>6. Row(n)' BY <1>7, <2>1, <3>1, <3>2, <3>5 DEF SenderStep
    <3>7. QED BY <3>6
  <2>3. CASE ~(sender[t].i < Size)
    <3>1. SenderDone(t) BY <1>0, <1>11, <2>3, SenderForms
    <3>2. Row(n)' BY <1>7, <2>1, <3>1 DEF SenderDone, Writing
    <3>3. QED BY <3>2
  <2>4. QED BY <2>2, <2>3
<1>12. CASE LookFree(t)
  <2>1. UNCHANGED lt /\ sender[t].at = "look" /\ IsFree(sender[t].i)
    BY <1>12 DEF LookFree
  <2>2. SenderStep(t, "sum", sender[t].i, sender[t].clock) BY <1>0, <1>12, SenderForms
  <2>3. sender[t].i = n + 1
    <3>1. sender[t].i <= n + 1 BY <1>3, <2>1
    <3>2. ~(sender[t].i \in 1..n) BY <1>5, <2>1
    <3>3. QED BY <1>2, <1>4, <3>1, <3>2
  <2>4. Writing(t)' /\ AtTable(t)' /\ Begun(t)' /\ sender'[t].i = n + 1
    BY <2>2, <2>3 DEF SenderStep, Writing, AtTable, Begun
  <2>5. \A u \in Threads \ {t} : ~Writing(u)'
    <3> SUFFICES ASSUME NEW u \in Threads \ {t}, Writing(u)' PROVE FALSE OBVIOUS
    <3>1. AtTable(u)' BY DEF AtTable
    <3>2. QED BY <1>6, <2>4, <3>1
  <2>6. \A i : Fresh(i) => Fresh(i)' BY <1>1, <2>1 DEF Fresh
  <2>7. \A u \in Threads : sender'[u].at = "look" => sender'[u].i <= n + 1
    BY <1>3, <2>2 DEF SenderStep
  <2>8. Row(n)' BY <1>3, <2>1, <2>4, <2>5, <2>6, <2>7 DEF Row
  <2>9. QED BY <2>8
<1>13. CASE ReadClock(t)
  <2>1. UNCHANGED lt /\ sender[t].at = "clock" /\ WriteEntry(t) BY <1>13 DEF ReadClock, WriteEntry
  <2>2. SenderStep(t, "time", sender[t].i, now) BY <1>0, <1>13, SenderForms
  <2>3. Begun(t)' /\ Writing(t)' BY <1>1, <1>2, <1>8, <2>1, <2>2 DEF Begun, SenderStep, Writing
  <2>4. Row(n)' BY <1>8, <1>9, <2>1, <2>2, <2>3 DEF SenderStep
  <2>5. QED BY <2>4
<1>14. CASE Write(t, "sum", sender[t].mark, "len")
  <2>1. sender[t].at = "sum" /\ WriteEntry(t) BY <1>14 DEF Write, WriteEntry
  <2>2. SenderStep(t, "len", sender[t].i, sender[t].clock) BY <1>0, <1>14, SenderForms
  <2>3. EntryStep(n + 1, sender[t].mark, lt[n + 1].len, lt[n + 1].time) BY <1>0, <1>8, <1>14, <2>1, EntryForms
  <2>4. Begun(t)' /\ Writing(t)' BY <1>8, <2>1, <2>2, <2>3 DEF Begun, SenderStep, EntryStep, Writing
  <2>5. Row(n)' BY <1>8, <1>9, <2>1, <2>2, <2>3, <2>4 DEF SenderStep, EntryStep
  <2>6. QED BY <2>5
<1>15. CASE Write(t, "len", sender[t].mark, "clock")
  <2>1. sender[t].at = "len" /\ WriteEntry(t) BY <1>15 DEF Write, WriteEntry
  <2>2. SenderStep(t, "clock", sender[t].i, sender[t].clock) BY <1>0, <1>15, SenderForms
  <2>3. EntryStep(n + 1, lt[n + 1].sum, sender[t].mark, lt[n + 1].time) BY <1>0, <1>8, <1>15, <2>1, EntryForms
  <2>4. Begun(t)' /\ Writing(t)' BY <1>8, <2>1, <2>2, <2>3 DEF Begun, SenderStep, EntryStep, Writing
  <2>5. Row(n)' BY <1>8, <1>9, <2>1, <2>2, <2>3, <2>4 DEF SenderStep, EntryStep
  <2>6. QED BY <2>5
<1>16. CASE Write(t, "time", sender[t].clock, "isStats")
  <2>1. sender[t].at = "time" /\ WriteEntry(t) /\ sender[t].mark \in Marks BY <1>4, <1>16 DEF Write, WriteEntry
  <2>2. SenderStep(t, "isStats", sender[t].i, sender[t].clock) BY <1>0, <1>16, SenderForms
  <2>3. EntryStep(n + 1, lt[n + 1].sum, lt[n + 1].len, sender[t].clock) BY <1>0, <1>8, <1>16, <2>1, EntryForms
  <2>4. lt[n + 1].sum = sender[t].mark /\ lt[n + 1].len = sender[t].mark /\ sender[t].clock >= emptied
    BY <1>8, <2>1 DEF Begun
  <2>5. Fresh(n + 1)' BY <1>1, <2>1, <2>3, <2>4 DEF Fresh, EntryStep
  <2>6. Begun(t)' /\ Writing(t)' BY <1>8, <2>1, <2>2, <2>5 DEF Begun, SenderStep, Writing
  <2>7. Row(n)' BY <1>8, <1>9, <2>1, <2>2, <2>3, <2>6 DEF SenderStep, EntryStep
  <2>8. QED BY <2>7
<1>17. CASE Write(t, "isStats", sender[t].isStats, "idle")
  <2>1. sender[t].at = "isStats" /\ WriteEntry(t) BY <1>17 DEF Write, WriteEntry
  <2>2. SenderDone(t) BY <1>0, <1>17, SenderForms
  <2>3. EntryStep(n + 1, lt[n + 1].sum, lt[n + 1].len, lt[n + 1].time) BY <1>0, <1>8, <1>17, <2>1, EntryForms
  <2>4. Fresh(n + 1)
    <3>1. Begun(t) /\ sender[t].i = n + 1 BY <1>8, <2>1
    <3>2. QED BY <2>1, <3>1 DEF Begun
  <2>5. Fresh(n + 1)' BY <1>1, <2>3, <2>4 DEF Fresh, EntryStep
  <2>6. \A i \in 1..n + 1 : Fresh(i)'
    <3>1. \A i \in 1..n + 1 : i = n + 1 \/ (i \in 1..n /\ i \in Entries \ {n + 1}) BY <1>2
    <3>2. \A i \in 1..n : i \in Entries \ {n + 1} => Fresh(i)' BY <1>1, <1>3, <2>3 DEF Fresh, EntryStep
    <3>3. QED BY <2>5, <3>1, <3>2
  <2>7. \A i \in n + 2..Size : lt'[i] = Free
    <3>1. \A i \in n + 2..Size : i \in Entries \ {n + 1} BY <1>2
    <3>2. QED BY <1>3, <2>3, <3>1 DEF EntryStep
  <2>8. \A u \in Threads : ~Writing(u)' BY <1>8, <2>1, <2>2 DEF SenderDone, Writing
  <2>9. \A u \in Threads : sender'[u].at = "look" => sender'[u].i <= (n + 1) + 1
    <3> SUFFICES ASSUME NEW u \in Threads, sender'[u].at = "look" PROVE sender'[u].i <= (n + 1) + 1 OBVIOUS
    <3>1. u # t /\ sender'[u] = sender[u] BY <2>2 DEF SenderDone
    <3>2. sender[u].i <= n + 1 /\ sender[u].i \in Entries BY <1>0, <1>3, <3>1 DEF Sane, SenderRecords
    <3>3. QED BY <1>2, <3>1, <3>2
  <2>10. (\A i \in (n + 1) + 2..Size : i \in n + 2..Size) /\ n + 1 \in 0..Size
         /\ (n + 1 < Size => (n + 1) + 1 \in n + 2..Size)
    BY <1>2, <1>8, <2>1
  <2>11. Row(n + 1)' BY <2>6, <2>7, <2>8, <2>9, <2>10 DEF Row
  <2>12. PICK m \in 0..Size : m = n + 1 BY <2>10
  <2>13. Row(m)' BY <2>6, <2>7, <2>8, <2>9, <2>10, <2>12 DEF Row
  <2>14. QED BY <2>13
<1>18. QED BY <1>10, <1>11, <1>12, <1>13, <1>14, <1>15, <1>16, <1>17 DEF Sender, WriteEntry

\* The row stays a row, or is made anew by the end of a clearing.
LEMMA RowStep ==
  ASSUME TypeOK, PassageInv, TimeInv, OrderInv, ClearedInv, RowInv, Next
  PROVE  RowInv'
<1> SUFFICES ASSUME order' = "kept", reader'.at # "clear" PROVE \E n \in 0..Size : Row(n)'
  BY DEF RowInv
<1>0. Sane /\ 0 \in 0..Size BY TypesAreSane, LatencyAssumption
<1>1. order = "kept" \/ (order = "mending" /\ reader.at # "recv" /\ reader'.at = "recv") BY OrderWas
<1>2. CASE Clear
  <2>1. Row(0)' BY <1>1, <1>2, AllCleared
  <2>2. QED BY <1>0, <2>1
<1>3. ASSUME ~Clear, order = "mending" PROVE FALSE
  <2>1. reader.at \in {"measure", "clear"} /\ reader'.at = "recv" BY <1>1, <1>3 DEF OrderInv
  <2>2. ~Measure BY <1>0, <2>1, ReaderForms DEF ReaderStep
  <2>3. ~ScanEnds /\ ~ScanOn /\ ~ScanFound /\ \A mark \in Marks, stats \in BOOLEAN : ~Receive(mark, stats)
    BY <2>1 DEF ScanEnds, ScanOn, ScanFound, Receive
  <2>4. ~Tick BY <2>1 DEF Tick
  <2>5. ASSUME NEW t \in Threads, Sender(t) PROVE reader' = reader
    BY <2>5 DEF Sender, Sent, LookTaken, LookFree, WriteEntry, ReadClock, Write
  <2>6. QED BY <1>3, <2>1, <2>2, <2>3, <2>4, <2>5 DEF Next, Reader
<1>4. ASSUME ~Clear PROVE order = "kept" /\ reader.at # "clear"
  <2>1. order = "kept" BY <1>1, <1>3, <1>4
  <2>2. ASSUME reader.at = "clear" PROVE FALSE
    <3>1. ~Measure /\ ~ScanEnds /\ ~ScanOn /\ ~ScanFound /\ \A mark \in Marks, stats \in BOOLEAN : ~Receive(mark, stats)
      BY <2>2 DEF Measure, ScanEnds, ScanOn, ScanFound, Receive
    <3>2. ~Tick BY <2>2 DEF Tick
    <3>3. ASSUME NEW t \in Threads, Sender(t) PROVE reader' = reader
      BY <3>3 DEF Sender, Sent, LookTaken, LookFree, WriteEntry, ReadClock, Write
    <3>4. QED BY <1>4, <2>2, <3>1, <3>2, <3>3 DEF Next, Reader
  <2>3. QED BY <2>1, <2>2
<1>5. CASE ~Clear
  <2>1. PICK n \in 0..Size : Row(n) BY <1>4, <1>5 DEF RowInv
  <2>2. ASSUME UNCHANGED <<lt, sender, emptied>> PROVE Row(n)'
    BY <2>1, <2>2 DEF Row, Fresh, Begun, Writing
  <2>3. Tick \/ ScanEnds \/ ScanOn \/ ScanFound => Row(n)'
    BY <2>2 DEF Tick, ScanEnds, ScanOn, ScanFound
  <2>4. ASSUME NEW mark \in Marks, NEW stats \in BOOLEAN, Receive(mark, stats) PROVE Row(n)'
    BY <2>2, <2>4 DEF Receive
  <2>5. ~Measure BY <1>0, ReaderForms DEF ReaderStep
  <2>6. ASSUME NEW t \in Threads, Sender(t) PROVE \E m \in 0..Size : Row(m)'
    BY <1>4, <1>5, <2>1, <2>6, SenderRow
  <2>7. QED BY <1>5, <2>3, <2>4, <2>5, <2>6 DEF Next, Reader
<1>6. QED BY <1>2, <1>5

-----------------------------------------------------------------------------
(* The theorems. *)

IInv == TypeOK /\ PassageInv /\ TimeInv /\ OrderInv /\ ClearedInv /\ RowInv /\ SearchInv

\* An empty table is a row of no entries.
LEMMA InitIInv == Init => IInv
<1> SUFFICES ASSUME Init PROVE IInv OBVIOUS
<1>1. /\ lt = [i \in Entries |-> Free] /\ sender = [t \in Threads |-> Idle] /\ reader = Waiting
      /\ gLatency = 0 /\ now = 0 /\ emptied = 0 /\ order = "kept"
  BY DEF Init
<1>2. Size \in Nat \ {0} /\ MaxTime \in Nat /\ 0 \in 0..MaxTime + 1 BY LatencyAssumption
<1>3. TypeOK
  <2>1. lt \in [Entries -> EntryRecords] BY <1>1, FreeEntry
  <2>2. sender \in [Threads -> SenderRecords] BY <1>1, IdleSender
  <2>3. reader \in ReaderRecords BY <1>1, WaitingReader
  <2>4. QED BY <1>1, <1>2, <2>1, <2>2, <2>3, NoneIsNoMark DEF TypeOK, EntryRecords, SenderRecords, ReaderRecords
<1>4. PassageInv BY <1>1, IdleSender, WaitingReader DEF PassageInv
<1>5. TimeInv
  <2>1. \A i \in Entries : lt[i].time = -1 BY <1>1, FreeEntry DEF None
  <2>2. \A t \in Threads : sender[t].clock = 0 BY <1>1, IdleSender
  <2>3. QED BY <1>1, <2>1, <2>2 DEF TimeInv
<1>6. \A t \in Threads : ~Writing(t) /\ ~AtTable(t) /\ sender[t].at = "idle"
  BY <1>1, IdleSender DEF Writing, AtTable
<1>7. OrderInv BY <1>1, <1>6 DEF OrderInv, Crowded
<1>8. ClearedInv /\ SearchInv BY <1>1, WaitingReader DEF ClearedInv, SearchInv
<1>9. Row(0)
  <2>1. (\A i \in 0 + 2..Size : i \in Entries) /\ 0 + 1 \in Entries /\ \A i \in 1..0 : FALSE
    BY <1>2 DEF Entries
  <2>2. QED BY <1>1, <1>6, <2>1 DEF Row
<1>10. RowInv BY <1>2, <1>9 DEF RowInv
<1>11. QED BY <1>3, <1>4, <1>5, <1>7, <1>8, <1>10 DEF IInv

\* Every action, and the steps that change nothing, preserve the invariant.
LEMMA NextIInv == IInv /\ [Next]_vars => IInv'
<1> SUFFICES ASSUME IInv, [Next]_vars PROVE IInv' OBVIOUS
<1>1. CASE Next
  BY <1>1, TypeStep, OrderStep, ClearedStep, RowStep, SearchStep DEF IInv
<1>2. CASE UNCHANGED vars
  <2>1. TypeOK' /\ PassageInv' /\ TimeInv' BY <1>2 DEF IInv, vars, TypeOK, PassageInv, TimeInv
  <2>2. OrderInv' BY <1>2 DEF IInv, vars, OrderInv, Crowded, AtTable, Writing
  <2>3. ClearedInv' BY <1>2 DEF IInv, vars, ClearedInv
  <2>4. RowInv' BY <1>2 DEF IInv, vars, RowInv, Row, Fresh, Begun, Writing
  <2>5. SearchInv' BY <1>2 DEF IInv, vars, SearchInv, Matches, IsFree
  <2>6. QED BY <2>1, <2>2, <2>3, <2>4, <2>5 DEF IInv
<1>3. QED BY <1>1, <1>2

\* The invariant holds in every state of every behaviour.
THEOREM InductiveInvariant == Spec => []IInv
<1>1. QED BY InitIInv, NextIInv, PTL DEF Spec

\* Type correctness: in particular no thread writes behind the end of lt[],
\* and the age of an entry without a time is still a latency.
THEOREM TypeCorrect == Spec => []TypeOK
<1>1. IInv => TypeOK BY DEF IInv
<1>2. QED BY <1>1, InductiveInvariant, PTL

\* While no thread has met another at the table, and again after the first
\* clearing nobody runs into, lt[] between two of its users is a row of whole
\* entries, none older than the last match, with free entries behind.
THEOREM TableWholeAtRest == Spec => []WholeAtRest
<1>1. IInv => WholeAtRest
  <2> SUFFICES ASSUME IInv, order = "kept", reader.at # "clear", \A t \in Threads : ~Writing(t)
               PROVE  \E n \in 0..Size :
                        /\ \A i \in 1..n : lt[i].sum # None /\ lt[i].len = lt[i].sum /\ lt[i].time >= emptied
                        /\ \A i \in n + 1..Size : lt[i] = Free
    BY DEF WholeAtRest
  <2>1. PICK n \in 0..Size : Row(n) BY DEF IInv, RowInv
  <2>2. \A i \in 1..n : lt[i].sum # None /\ lt[i].len = lt[i].sum /\ lt[i].time >= emptied
    BY <2>1, NoneIsNoMark DEF Row, Fresh
  <2>3. \A i \in n + 1..Size : i \in n + 2..Size \/ (i = n + 1 /\ n < Size)
    BY LatencyAssumption
  <2>4. \A i \in n + 1..Size : lt[i] = Free BY <2>1, <2>3 DEF Row
  <2>5. QED BY <2>2, <2>4
<1>2. QED BY <1>1, InductiveInvariant, PTL

\* While the main thread searches and order is kept nobody is at the table, so
\* that the row has no entry that is half written.
LEMMA RowOfSearch ==
  ASSUME IInv, order = "kept", reader.at # "recv", reader.at # "clear"
  PROVE  \E n \in 0..Size : (\A i \in 1..n : Fresh(i)) /\ (\A i \in n + 1..Size : lt[i] = Free)
<1>1. PICK n \in 0..Size : Row(n) BY DEF IInv, RowInv
<1>2. \A t \in Threads : ~AtTable(t) BY Alone DEF IInv, OrderInv
<1>3. \A t \in Threads : ~Writing(t) BY <1>2 DEF AtTable
<1>4. \A i \in n + 1..Size : i \in n + 2..Size \/ (i = n + 1 /\ n < Size)
  BY LatencyAssumption
<1>5. QED BY <1>1, <1>3, <1>4 DEF Row

\* processPacket() ends its search at the first free entry, and while order is
\* kept there is then no entry in the whole table that answers the packet.
THEOREM NothingIsOverlooked == Spec => NothingOverlooked
<1>1. ASSUME IInv, [Next]_vars, order = "kept", reader.at = "scan", reader'.at = "recv"
      PROVE  ~\E i \in Entries : Matches(i, reader.mark, reader.stats)
  <2>0. Sane /\ reader.mark \in Marks BY <1>1, TypesAreSane DEF IInv, PassageInv
  <2>1. ScanEnds
    <3>1. ~UNCHANGED vars BY <1>1 DEF vars
    <3>2. ~Tick BY <1>1 DEF Tick
    <3>3. \A t \in Threads : ~Sender(t)
      BY <1>1 DEF Sender, Sent, LookTaken, LookFree, WriteEntry, ReadClock, Write
    <3>4. ~ScanOn /\ ~ScanFound BY <1>1, <2>0, ReaderForms DEF ReaderStep
    <3>5. ~Measure /\ ~Clear /\ \A mark \in Marks, stats \in BOOLEAN : ~Receive(mark, stats)
      BY <1>1 DEF Measure, Clear, Receive
    <3>6. QED BY <1>1, <3>1, <3>2, <3>3, <3>4, <3>5 DEF Next, Reader
  <2>2. PICK n \in 0..Size : (\A i \in 1..n : Fresh(i)) /\ (\A i \in n + 1..Size : lt[i] = Free)
    BY <1>1, RowOfSearch
  <2>3. \A i \in Entries : i < reader.i => ~Matches(i, reader.mark, reader.stats)
    BY <1>1 DEF IInv, SearchInv
  <2>4. \A i \in n + 1..Size : ~Matches(i, reader.mark, reader.stats)
    BY <2>0, <2>2, FreeEntry, NoneIsNoMark DEF Matches
  <2>5. Entries = 1..Size /\ Size \in Nat /\ reader.i \in 1..Size + 1
    BY <2>0, LatencyAssumption DEF Entries, Sane, ReaderRecords
  <2>6. reader.i \in Entries => reader.i > n
    <3>1. reader.i \in Entries => IsFree(reader.i) BY <2>1 DEF ScanEnds
    <3>2. \A i \in 1..n : ~IsFree(i) BY <2>2, NoneIsNoMark DEF Fresh, IsFree
    <3>3. QED BY <2>5, <3>1, <3>2
  <2>7. \A i \in Entries : i < reader.i \/ i \in n + 1..Size
    BY <2>5, <2>6
  <2>8. QED BY <2>3, <2>4, <2>7
<1>2. IInv /\ [Next]_vars =>
        [order = "kept" /\ reader.at = "scan" /\ reader'.at = "recv" =>
           ~\E i \in Entries : Matches(i, reader.mark, reader.stats)]_vars
  BY <1>1
<1>3. QED BY <1>2, InductiveInvariant, PTL DEF Spec, NothingOverlooked

\* The latency measured while order is kept lies between nothing and the time
\* since the measurement before.
THEOREM LatencyIsPlausible == Spec => LatencyPlausible
<1>1. ASSUME IInv, [Next]_vars, order = "kept", reader.at = "measure", reader'.at = "clear"
      PROVE  gLatency' \in 0..now - emptied
  <2>0. Sane BY <1>1, TypesAreSane DEF IInv
  <2>1. Measure
    <3>1. ~UNCHANGED vars BY <1>1 DEF vars
    <3>2. ~Tick BY <1>1 DEF Tick
    <3>3. \A t \in Threads : ~Sender(t)
      BY <1>1 DEF Sender, Sent, LookTaken, LookFree, WriteEntry, ReadClock, Write
    <3>4. ~ScanEnds /\ ~ScanOn /\ ~ScanFound /\ ~Clear /\ \A mark \in Marks, stats \in BOOLEAN : ~Receive(mark, stats)
      BY <1>1 DEF ScanEnds, ScanOn, ScanFound, Clear, Receive
    <3>5. QED BY <1>1, <3>1, <3>2, <3>3, <3>4 DEF Next, Reader
  <2>2. PICK n \in 0..Size : (\A i \in 1..n : Fresh(i)) /\ (\A i \in n + 1..Size : lt[i] = Free)
    BY <1>1, RowOfSearch
  <2>3. reader.i \in Entries /\ ~IsFree(reader.i) BY <1>1 DEF IInv, PassageInv, SearchInv
  <2>4. \A i \in n + 1..Size : IsFree(i) BY <2>2, FreeEntry DEF IsFree
  <2>5. reader.i \in 1..n BY <2>3, <2>4, LatencyAssumption DEF Entries
  <2>6. lt[reader.i].time >= emptied /\ lt[reader.i].time <= now
    BY <1>1, <2>2, <2>3, <2>5 DEF Fresh, IInv, TimeInv
  <2>7. lt[reader.i].time \in Int /\ now \in Int /\ emptied \in Int
    BY <2>0, <2>3 DEF Sane, EntryRecords, Times, None
  <2>8. gLatency' = now - lt[reader.i].time BY <2>1 DEF Measure
  <2>9. QED BY <2>6, <2>7, <2>8
<1>2. IInv /\ [Next]_vars =>
        [order = "kept" /\ reader.at = "measure" /\ reader'.at = "clear" =>
           gLatency' \in 0..now - emptied]_vars
  BY <1>1
<1>3. QED BY <1>2, InductiveInvariant, PTL DEF Spec, LatencyPlausible
=============================================================================
