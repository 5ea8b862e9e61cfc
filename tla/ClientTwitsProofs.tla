-------------------------- MODULE ClientTwitsProofs -------------------------
(***************************************************************************)
(* Proofs about the twit list, for any number of names, of commands and of *)
(* sessions.                                                               *)
(*                                                                         *)
(* Its memory: the receiver reads what is not the list only if it reads at *)
(* all while the list is being replaced.  LockInv says who has the lock    *)
(* then: the user's thread, but for /twit clear.  ListInv says what the    *)
(* list is at each place of the user's thread, and which block is still to *)
(* be freed.                                                               *)
(*                                                                         *)
(* What it says: file and list both hold what the user asked for, while    *)
(* the list could be read and the file written.  FileInv and MemoryInv     *)
(* relate the two to the wishes at each place of the user's thread, and    *)
(* LoopInv says that a lookup has not passed the name it looks for, in the *)
(* list as it is now, although the list may have been replaced since.      *)
(*                                                                         *)
(* OnceInv says that file and list have each name only once, as addTwit()  *)
(* looks a name up before it is written; SizeInv bounds their length by    *)
(* the number of commands so far.                                          *)
(***************************************************************************)
EXTENDS ClientTwits, WellFoundedInduction, TLAPS

UserRecords ==
    [at : {"idle", "load", "lock", "null", "array", "count", "free",
           "check", "rewrite", "remove", "done"},
     cmd : {"none", "enter", "reenter", "add", "del", "clear"},
     name : Names \cup {NoName}, old : Blocks \cup {Null}]

ReceiverRecords ==
    [at : {"idle", "lock", "loop", "bad"}, from : Names \cup {NoName},
     i : Nat \ {0}, last : {"shown", "hidden"}]

RecordInv == user \in UserRecords /\ receiver \in ReceiverRecords

LockInv ==
    /\ lock = "user" <=> user.at \in {"null", "array", "count"} /\ user.cmd # "clear"
    /\ receiver.at = "loop" => lock = "receiver"
    /\ lock = "receiver" => receiver.at \in {"loop", "bad"}

ListInv ==
    /\ live \subseteq Blocks
    /\ gTwits \in live \cup {Null}
    /\ user.at = "array" => gTwits = Null
    /\ user.at \notin {"array", "count"} =>
           gTwitCount = IF gTwits = Null THEN 0 ELSE Len(heap[gTwits])
    /\ user.old \in live \cup {Null}
    /\ user.old # Null =>
           /\ user.at \in {"lock", "null", "array", "count", "free"} /\ user.cmd # "clear"
           /\ user.at \in {"count", "free"} => user.old # gTwits
    /\ user.at \in {"lock", "null"} /\ user.cmd # "clear" => user.old = gTwits
    /\ user.cmd = "clear" => user.at \in {"null", "array", "count", "remove", "done"}

IInv == RecordInv /\ LockInv /\ ListInv /\ BadReadOnlyInClear /\ OneListOwned

LEMMA NullIsNoBlock == Null \notin Blocks
  BY TwitsAssumption DEF Blocks

LEMMA FixedRecords ==
    /\ Quiet \in UserRecords /\ Quiet.at = "idle" /\ Quiet.cmd = "none" /\ Quiet.old = Null
    /\ Entering \in UserRecords /\ Entering.at = "load" /\ Entering.cmd = "enter" /\ Entering.old = Null
    /\ Waiting \in ReceiverRecords /\ Waiting.at = "idle"
<1>1. Waiting \in ReceiverRecords /\ Waiting.at = "idle"
  BY DEF Waiting, ReceiverRecords
<1>2. Quiet \in UserRecords /\ Quiet.at = "idle" /\ Quiet.cmd = "none" /\ Quiet.old = Null
  BY DEF Quiet, UserRecords
<1>3. Entering \in UserRecords /\ Entering.at = "load" /\ Entering.cmd = "enter" /\ Entering.old = Null
  BY DEF Entering, Quiet, UserRecords
<1>4. QED BY <1>1, <1>2, <1>3

LEMMA LoopRecord ==
    ASSUME receiver \in ReceiverRecords, receiver' = [receiver EXCEPT !.at = "loop", !.i = 1]
    PROVE  receiver' \in ReceiverRecords /\ receiver'.at = "loop"
<1>1. receiver' = [at |-> "loop", from |-> receiver.from, i |-> 1, last |-> receiver.last]
  BY DEF ReceiverRecords
<1>2. [at |-> "loop", from |-> receiver.from, i |-> 1, last |-> receiver.last] \in ReceiverRecords
  BY DEF ReceiverRecords
<1>3. QED BY <1>1, <1>2

LEMMA MessageRecord ==
    ASSUME receiver \in ReceiverRecords, NEW from \in Names \cup {NoName},
           receiver' = [receiver EXCEPT !.at = "lock", !.from = from]
    PROVE  receiver' \in ReceiverRecords /\ receiver'.at = "lock"
<1>1. receiver' = [at |-> "lock", from |-> from, i |-> receiver.i, last |-> receiver.last]
  BY DEF ReceiverRecords
<1>2. [at |-> "lock", from |-> from, i |-> receiver.i, last |-> receiver.last] \in ReceiverRecords
  BY DEF ReceiverRecords
<1>3. QED BY <1>1, <1>2

LEMMA InitIInv == Init => IInv
  BY NullIsNoBlock, FixedRecords
  DEF Init, IInv, RecordInv, LockInv, ListInv, BadReadOnlyInClear, OneListOwned

\* A step of the user's thread.
LEMMA UserKeeps == IInv /\ User => IInv'
<1> SUFFICES ASSUME IInv, User PROVE IInv'
  OBVIOUS
<1> USE NullIsNoBlock DEF IInv, RecordInv, UserRecords, ReceiverRecords, LockInv, ListInv, BadReadOnlyInClear, OneListOwned,
                          memory, bounds, history, List
<1>1. CASE LoadRead
  <2>1. CASE user' = [user EXCEPT !.at = "done"]
    <3>1. user' \in UserRecords /\ user'.at = "done" /\ user'.cmd = user.cmd /\ user'.old = user.old BY <2>1
    <3>2. QED BY <1>1, <3>1 DEF LoadRead, User
  <2>2. CASE user' = [user EXCEPT !.at = "lock", !.old = gTwits]
    <3>1. user' \in UserRecords /\ user'.at = "lock" /\ user'.cmd = user.cmd /\ user'.old = gTwits BY <2>2
    <3>2. QED BY <1>1, <3>1 DEF LoadRead, User
  <2>3. QED BY <1>1, <2>1, <2>2 DEF LoadRead
<1>2. CASE LoadLock
  BY <1>2 DEF LoadLock, User
<1>3. CASE SplitNull
  BY <1>3 DEF SplitNull, User
<1>4. CASE SplitArray
  BY <1>4 DEF SplitArray, User
<1>5. CASE SplitCount
  BY <1>5 DEF SplitCount, User
<1>6. CASE FreeOld
  BY <1>6 DEF FreeOld, User
<1>7. CASE AddNothing
  BY <1>7 DEF AddNothing, Quiet, User
<1>8. CASE AddAppend
  BY <1>8 DEF AddAppend, User
<1>9. CASE Rewrite
  BY <1>9 DEF Rewrite, User
<1>10. CASE ClearFile
  BY <1>10 DEF ClearFile, User
<1>11. CASE Done
  BY <1>11 DEF Done, Quiet, User
<1>12. CASE SplitFails
  BY <1>12 DEF SplitFails, User
<1>13. QED BY <1>1, <1>2, <1>3, <1>4, <1>5, <1>6, <1>7, <1>8, <1>9, <1>10, <1>11, <1>12 DEF User

\* The start of a command.
LEMMA CommandsKeep == IInv /\ Commands => IInv'
<1> SUFFICES ASSUME IInv, Commands PROVE IInv'
  OBVIOUS
<1> USE NullIsNoBlock DEF IInv, RecordInv, UserRecords, ReceiverRecords, LockInv, ListInv,
                          BadReadOnlyInClear, OneListOwned, memory, history, Quiet
<1>1. CASE Reenter
  BY <1>1 DEF Reenter, Entering, Commands
<1>2. CASE ClearTwits
  BY <1>2 DEF ClearTwits, Command, Commands
<1>3. ASSUME NEW n \in Names, AddTwit(n) PROVE IInv'
  BY <1>3 DEF AddTwit, Command, Commands
<1>4. ASSUME NEW n \in Names, RemoveTwit(n) PROVE IInv'
  BY <1>4 DEF RemoveTwit, Command, Commands
<1>5. QED BY <1>1, <1>2, <1>3, <1>4 DEF Commands

\* The receiver.
LEMMA ReceiverKeeps ==
    ASSUME IInv, Check \/ \E from \in Names \cup {NoName} : Message(from)
    PROVE  IInv'
<1> USE NullIsNoBlock DEF IInv, RecordInv, UserRecords, ReceiverRecords, LockInv, ListInv,
                          BadReadOnlyInClear, OneListOwned, memory, bounds, history
<1>1. CASE CheckLock
  <2>1. receiver' \in ReceiverRecords /\ receiver'.at = "loop"
    BY <1>1, LoopRecord DEF CheckLock
  <2>2. ListInv' /\ OneListOwned' /\ user' \in UserRecords'
    BY <1>1 DEF CheckLock
  <2>3. LockInv' /\ BadReadOnlyInClear'
    BY <1>1, <2>1 DEF CheckLock
  <2>4. QED BY <2>1, <2>2, <2>3
<1>2. CASE CheckNext
  BY <1>2 DEF CheckNext
<1>3. CASE CheckFound
  BY <1>3 DEF CheckFound, Waiting
<1>4. CASE CheckEnds
  BY <1>4, FixedRecords DEF CheckEnds
<1>5. CASE CheckBad
  <2>1. user.at \in {"array", "count"}
    BY <1>5 DEF CheckBad, Readable
  <2>2. user.cmd = "clear"
    BY <1>5, <2>1 DEF CheckBad
  <2>3. QED BY <1>5, <2>1, <2>2 DEF CheckBad
<1>6. ASSUME NEW from \in Names \cup {NoName}, Message(from) PROVE IInv'
  <2>1. receiver' \in ReceiverRecords /\ receiver'.at = "lock"
    BY <1>6, MessageRecord DEF Message
  <2>2. ListInv' /\ OneListOwned' /\ user' \in UserRecords'
    BY <1>6 DEF Message
  <2>3. LockInv' /\ BadReadOnlyInClear'
    BY <1>6, <2>1 DEF Message
  <2>4. QED BY <2>1, <2>2, <2>3
<1>7. QED BY <1>1, <1>2, <1>3, <1>4, <1>5, <1>6 DEF Check

LEMMA SessionEndsKeeps == IInv /\ SessionEnds => IInv'
  BY NullIsNoBlock, FixedRecords
  DEF SessionEnds, IInv, RecordInv, LockInv, ListInv, BadReadOnlyInClear, OneListOwned

LEMMA StutterKeeps == IInv /\ UNCHANGED vars => IInv'
  BY DEF vars, memory, bounds, history, IInv, RecordInv, LockInv, ListInv, BadReadOnlyInClear, OneListOwned

LEMMA InductiveInvariant == Spec => []IInv
<1>1. IInv /\ [Next]_vars => IInv'
  BY UserKeeps, CommandsKeep, ReceiverKeeps, SessionEndsKeeps, StutterKeeps DEF Next
<1>2. QED BY InitIInv, <1>1, PTL DEF Spec

(***************************************************************************)
(* However the user's thread and the receiver take turns, and wherever a   *)
(* session ends, checkTwit() reads memory the list does not own only while *)
(* a /twit clear replaces the list without gChattersLock.                  *)
(***************************************************************************)
THEOREM BadReadsOnlyInClear == Spec => []BadReadOnlyInClear
<1>1. IInv => BadReadOnlyInClear
  BY DEF IInv
<1>2. QED BY InductiveInvariant, <1>1, PTL

(***************************************************************************)
(* What split() allocates for the list is the list, is about to be freed   *)
(* by loadTwits(), or was let go of by a /twit clear; and gTwits never     *)
(* holds a block that was freed.                                           *)
(***************************************************************************)
THEOREM ListIsOwned == Spec => []OneListOwned
<1>1. IInv => OneListOwned
  BY DEF IInv
<1>2. QED BY InductiveInvariant, <1>1, PTL

-----------------------------------------------------------------------------
(* What the file, the list and the user's wishes have to do with each other. *)

\* The names in the list.
Twits == ToSet(List) \ {NoName}

\* The file holds names, and the blocks empty ones as well.
DataInv ==
    /\ file \in Seq(Names) \cup {Absent}
    /\ heap \in [Blocks -> Seq(Names \cup {NoName})]
    /\ wanted \subseteq Names /\ {lost, unread, twice} \subseteq BOOLEAN

\* Where the user's thread can be with a command.
PlaceInv ==
    /\ user.at = "idle" <=> user.cmd = "none"
    /\ user.at = "check" => user.cmd = "add"
    /\ user.at = "rewrite" => user.cmd = "del"
    /\ user.at = "remove" => user.cmd = "clear"
    /\ user.cmd \in {"add", "del"} => user.name \in Names
    /\ user.cmd = "enter" => receiver.at = "idle"

\* The file is what is wanted, but while removeTwit() writes it.
FileInv == ~lost /\ user.at # "rewrite" => ToSet(Lines) = wanted

\* So is the list, from which removeTwit() writes the file again, but for the
\* name a command is about to read; a list that has been read is the file.
MemoryInv ==
    /\ ~lost /\ ~unread =>
           /\ user.at \in {"idle", "check", "rewrite", "done"} => Twits = wanted
           /\ user.at \in {"load", "lock"} /\ user.cmd = "reenter" => Twits = wanted
           /\ user.at \in {"load", "lock"} /\ user.cmd \in {"add", "del"} =>
                  Twits \ {user.name} = wanted \ {user.name}
           /\ user.at = "load" /\ file = Absent => Twits = {}
    /\ ~unread /\ user.at \in {"count", "free"} /\ user.cmd # "clear" => Twits = ToSet(Lines)
    /\ user.at \in {"count", "remove", "done"} /\ user.cmd = "clear" => List \in {<<>>, <<NoName>>}

\* checkTwit() has not passed the name it looks for, in the list as it is now.
LoopInv ==
    receiver.at = "loop" /\ user.cmd # "clear" /\ receiver.from \in Names =>
        \A j \in DOMAIN List : j < receiver.i => List[j] # receiver.from

WishInv == DataInv /\ PlaceInv /\ FileInv /\ MemoryInv /\ LoopInv

\* The order of the naturals, as a set of pairs.
Below == {ss \in Nat \X Nat : ss[1] < ss[2]}

LEMMA NatWellFounded == IsWellFoundedOn(Below, Nat)
  BY NatLessThanWellFounded DEF OpToRel, Below

\* A set of naturals that has 0, and the next one with each of them up to m,
\* has them all up to m.
LEMMA InductionTo ==
  ASSUME NEW m \in Nat, NEW T, 0 \in T, \A n \in 0..m : n \in T /\ n < m => n + 1 \in T
  PROVE  0..m \subseteq T
<1> SUFFICES ASSUME (0..m) \ T # {} PROVE FALSE OBVIOUS
<1> DEFINE S == (0..m) \ T
<1>1. S \subseteq Nat /\ S # {} OBVIOUS
<1> HIDE DEF S
<1>2. PICK x \in S : \A y \in S : ~(<<y, x>> \in Below) BY <1>1, NatWellFounded, WFMin
<1>3. \A y \in S : ~(y < x) BY <1>1, <1>2 DEF Below
<1>4. x \in 0..m /\ x \notin T BY DEF S
<1>5. x # 0 /\ x - 1 \in 0..m /\ x - 1 < m /\ (x - 1) + 1 = x BY <1>4
<1>6. x - 1 \in T BY <1>3, <1>5 DEF S
<1>7. QED BY <1>4, <1>5, <1>6

LEMMA AppendedLine ==
  ASSUME NEW S, NEW list \in Seq(S), NEW x \in S
  PROVE  ToSet(Append(list, x)) = ToSet(list) \cup {x}
<1>1. /\ DOMAIN Append(list, x) = 1..Len(list) + 1 /\ DOMAIN list = 1..Len(list) /\ Len(list) \in Nat
      /\ Append(list, x)[Len(list) + 1] = x
      /\ \A i \in 1..Len(list) : Append(list, x)[i] = list[i]
  OBVIOUS
<1>2. 1..Len(list) + 1 = 1..Len(list) \cup {Len(list) + 1} BY <1>1
<1>3. QED BY <1>1, <1>2 DEF ToSet

LEMMA AppendedOnce ==
  ASSUME NEW S, NEW list \in Seq(S), NEW x \in S, IsInjective(list), x \notin ToSet(list)
  PROVE  IsInjective(Append(list, x))
<1>1. /\ DOMAIN Append(list, x) = 1..Len(list) + 1 /\ DOMAIN list = 1..Len(list) /\ Len(list) \in Nat
      /\ Append(list, x)[Len(list) + 1] = x
      /\ \A i \in 1..Len(list) : Append(list, x)[i] = list[i]
  OBVIOUS
<1>2. \A i, j \in 1..Len(list) : list[i] = list[j] => i = j BY <1>1 DEF IsInjective
<1>3. \A i \in 1..Len(list) : list[i] # x BY <1>1 DEF ToSet
<1>4. 1..Len(list) + 1 = 1..Len(list) \cup {Len(list) + 1} BY <1>1
<1>5. QED BY <1>1, <1>2, <1>3, <1>4 DEF IsInjective

\* Some entries of a list, in their order.
LEMMA EntriesOfList ==
  ASSUME NEW list \in Seq(Names \cup {NoName}), NEW places,
         \A i \in places \cap DOMAIN list : list[i] \in Names
  PROVE  /\ Entries(list, places) \in Seq(Names)
         /\ ToSet(Entries(list, places)) = {list[j] : j \in places \cap DOMAIN list}
         /\ IsInjective(list) => IsInjective(Entries(list, places))
         /\ Len(Entries(list, places)) <= Len(list)
         /\ Len(list) > 0 /\ Len(list) \notin places => Len(Entries(list, places)) <= Len(list) - 1
<1> DEFINE m == Len(list)
           Go(prev, i) == IF i \in places THEN Append(prev, list[i]) ELSE prev
           Body(f, n) == [i \in 0..n |-> IF i = 0 THEN <<>> ELSE Go(f[i - 1], i)]
           lines == CHOOSE f : f = Body(f, m)
<1>0. m \in Nat /\ DOMAIN list = 1..m /\ \A i \in 1..m : i \in places => list[i] \in Names OBVIOUS
<1> HIDE DEF m
<1>1. \E f : f = Body(f, m)
  <2> DEFINE T == {n \in 0..m : \E f : f = Body(f, n)}
  <2>1. 0 \in T
    <3> DEFINE g == [i \in 0..0 |-> <<>>]
    <3>1. g = Body(g, 0) OBVIOUS
    <3> HIDE DEF g, Body
    <3>2. 0 \in 0..m BY <1>0
    <3>3. QED BY <3>1, <3>2
  <2>2. ASSUME NEW n \in 0..m, n \in T, n < m PROVE n + 1 \in T
    <3>1. PICK f : f = Body(f, n) BY <2>2
    <3> DEFINE g == [i \in 0..n + 1 |-> IF i = n + 1 THEN Go(f[n], n + 1) ELSE f[i]]
    <3>2. \A i \in 0..n + 1 : g[i] = IF i = 0 THEN <<>> ELSE Go(g[i - 1], i)
      <4> SUFFICES ASSUME NEW i \in 0..n + 1 PROVE g[i] = IF i = 0 THEN <<>> ELSE Go(g[i - 1], i)
        OBVIOUS
      <4> HIDE DEF Go
      <4>1. CASE i = n + 1 BY <1>0, <4>1
      <4>2. CASE i # n + 1
        <5>1. i \in 0..n BY <4>2
        <5>2. f[i] = IF i = 0 THEN <<>> ELSE Go(f[i - 1], i) BY <3>1, <5>1
        <5>3. i # 0 => i - 1 \in 0..n + 1 /\ i - 1 # n + 1 BY <5>1
        <5>4. g[i] = f[i] BY <4>2
        <5>5. i # 0 => g[i - 1] = f[i - 1] BY <5>3
        <5>6. QED BY <5>2, <5>4, <5>5
      <4>3. QED BY <4>1, <4>2
    <3>3. g = Body(g, n + 1)
      <4> HIDE DEF Go
      <4>1. g = [i \in 0..n + 1 |-> g[i]] OBVIOUS
      <4> HIDE DEF g
      <4>2. QED BY <3>2, <4>1
    <3>4. n + 1 \in 0..m BY <1>0, <2>2
    <3> HIDE DEF g, Body
    <3>5. QED BY <3>3, <3>4
  <2> HIDE DEF T
  <2>3. 0..m \subseteq T BY <1>0, <2>1, <2>2, InductionTo
  <2>4. m \in T BY <1>0, <2>3
  <2>5. QED BY <2>4 DEF T
<1>2. lines = Body(lines, m) BY <1>1
<1>3. Entries(list, places) = lines[m] BY DEF Entries, m
<1> HIDE DEF lines
<1>4. \A i \in 0..m : lines[i] = IF i = 0 THEN <<>> ELSE Go(lines[i - 1], i)
  <2> HIDE DEF Go
  <2>1. QED BY <1>2
<1> DEFINE U == {i \in 0..m : /\ lines[i] \in Seq(Names) /\ Len(lines[i]) <= i
                              /\ ToSet(lines[i]) = {list[j] : j \in places \cap (1..i)}
                              /\ IsInjective(list) => IsInjective(lines[i])}
<1>5. 0 \in U
  <2>1. lines[0] = <<>> BY <1>0, <1>4
  <2>2. ToSet(<<>>) = {} BY DEF ToSet
  <2>3. {list[j] : j \in places \cap (1..0)} = {} OBVIOUS
  <2>4. 0 \in 0..m /\ lines[0] \in Seq(Names) /\ Len(lines[0]) <= 0 BY <1>0, <2>1
  <2>5. ToSet(lines[0]) = {list[j] : j \in places \cap (1..0)} BY <2>1, <2>2, <2>3
  <2>6. IsInjective(lines[0]) BY <2>1 DEF IsInjective
  <2>7. QED BY <2>4, <2>5, <2>6
<1>6. ASSUME NEW i \in 0..m, i \in U, i < m PROVE i + 1 \in U
  <2>1. /\ lines[i] \in Seq(Names) /\ ToSet(lines[i]) = {list[j] : j \in places \cap (1..i)}
        /\ Len(lines[i]) <= i /\ Len(lines[i]) \in Nat
        /\ IsInjective(list) => IsInjective(lines[i])
    BY <1>6
  <2>2. i + 1 \in 1..m /\ i + 1 \in 0..m /\ i + 1 # 0 /\ (i + 1) - 1 = i /\ i \in Nat BY <1>0, <1>6
  <2>3. lines[i + 1] = Go(lines[i], i + 1)
    <3> HIDE DEF Go
    <3>1. QED BY <1>4, <2>2
  <2>4. 1..i + 1 = 1..i \cup {i + 1} BY <1>0
  <2>5. CASE i + 1 \notin places
    <3>1. lines[i + 1] = lines[i] BY <2>3, <2>5
    <3>2. places \cap (1..i + 1) = places \cap (1..i) BY <2>4, <2>5
    <3>3. Len(lines[i + 1]) <= i + 1 BY <2>1, <2>2, <3>1
    <3>4. QED BY <2>1, <2>2, <3>1, <3>2, <3>3
  <2>6. CASE i + 1 \in places
    <3>1. list[i + 1] \in Names BY <1>0, <2>2, <2>6
    <3>2. lines[i + 1] = Append(lines[i], list[i + 1]) BY <2>3, <2>6
    <3>3. ToSet(Append(lines[i], list[i + 1])) = ToSet(lines[i]) \cup {list[i + 1]}
      BY <2>1, <3>1, AppendedLine
    <3>4. lines[i + 1] \in Seq(Names) /\ Len(lines[i + 1]) <= i + 1 BY <2>1, <2>2, <3>1, <3>2
    <3>5. ToSet(lines[i + 1]) = {list[j] : j \in places \cap (1..i + 1)}
      <4>1. places \cap (1..i + 1) = (places \cap (1..i)) \cup {i + 1} BY <2>4, <2>6
      <4>2. QED BY <2>1, <3>2, <3>3, <4>1
    <3>6. IsInjective(list) => IsInjective(lines[i + 1])
      <4> SUFFICES ASSUME IsInjective(list) PROVE IsInjective(lines[i + 1]) OBVIOUS
      <4>1. DOMAIN list = 1..m /\ 1..i \subseteq 1..m /\ i + 1 \notin 1..i BY <1>0 DEF m
      <4>2. \A j \in 1..i : list[j] # list[i + 1] BY <2>2, <4>1 DEF IsInjective
      <4>3. list[i + 1] \notin ToSet(lines[i]) BY <2>1, <4>2
      <4>4. QED BY <2>1, <3>1, <3>2, <4>3, AppendedOnce
    <3>7. QED BY <2>2, <3>4, <3>5, <3>6
  <2>7. QED BY <2>5, <2>6
<1> HIDE DEF U
<1>7. 0..m \subseteq U BY <1>0, <1>5, <1>6, InductionTo
<1>8. m \in U BY <1>0, <1>7
<1>9. m > 0 /\ m \notin places => Len(lines[m]) <= m - 1
  <2> SUFFICES ASSUME m > 0, m \notin places PROVE Len(lines[m]) <= m - 1 OBVIOUS
  <2>1. m - 1 \in 0..m /\ m \in 0..m /\ m # 0 BY <1>0
  <2>2. lines[m] = lines[m - 1]
    <3> HIDE DEF Go
    <3>1. lines[m] = Go(lines[m - 1], m) BY <1>4, <2>1
    <3>2. QED BY <3>1 DEF Go
  <2>3. Len(lines[m - 1]) <= m - 1 BY <1>7, <2>1 DEF U
  <2>4. QED BY <2>2, <2>3
<1>10. QED BY <1>0, <1>3, <1>8, <1>9 DEF U, m

\* What removeTwit() writes.
LEMMA WithoutLines ==
  ASSUME NEW list \in Seq(Names \cup {NoName}), NEW name
  PROVE  /\ Without(list, name) \in Seq(Names)
         /\ ToSet(Without(list, name)) = ToSet(list) \ {name, NoName}
         /\ IsInjective(list) => IsInjective(Without(list, name))
         /\ \A l \in Seq(Names) : list = Append(l, NoName) => Len(Without(list, name)) <= Len(l)
<1> DEFINE places == {i \in DOMAIN list : list[i] \notin {name, NoName}}
<1>1. \A i \in places \cap DOMAIN list : list[i] \in Names OBVIOUS
<1>2. Without(list, name) = Entries(list, places) BY DEF Without
<1>3. {list[j] : j \in places \cap DOMAIN list} = ToSet(list) \ {name, NoName} BY DEF ToSet
<1>4. ASSUME NEW l \in Seq(Names), list = Append(l, NoName)
      PROVE  Len(list) > 0 /\ Len(list) \notin places /\ Len(list) - 1 = Len(l)
  <2>1. Len(list) = Len(l) + 1 /\ Len(l) \in Nat /\ list[Len(l) + 1] = NoName BY <1>4
  <2>2. QED BY <2>1
<1> HIDE DEF places
<1>5. /\ Entries(list, places) \in Seq(Names)
      /\ ToSet(Entries(list, places)) = {list[j] : j \in places \cap DOMAIN list}
      /\ IsInjective(list) => IsInjective(Entries(list, places))
      /\ Len(list) > 0 /\ Len(list) \notin places => Len(Entries(list, places)) <= Len(list) - 1
  BY <1>1, EntriesOfList
<1>6. QED BY <1>2, <1>3, <1>4, <1>5

\* What loadTwits() reads: some of the lines, or all of them.
LEMMA LinesRead ==
  ASSUME NEW list \in Seq(Names), NEW read \in SUBSET DOMAIN list
  PROVE  /\ Entries(list, read) \in Seq(Names) /\ Len(Entries(list, read)) <= Len(list)
         /\ read = DOMAIN list => ToSet(Entries(list, read)) = ToSet(list)
         /\ IsInjective(list) => IsInjective(Entries(list, read))
         /\ read = {} => Entries(list, read) = <<>>
<1>1. list \in Seq(Names \cup {NoName}) /\ \A i \in read \cap DOMAIN list : list[i] \in Names OBVIOUS
<1>2. /\ Entries(list, read) \in Seq(Names) /\ Len(Entries(list, read)) <= Len(list)
      /\ ToSet(Entries(list, read)) = {list[j] : j \in read \cap DOMAIN list}
      /\ IsInjective(list) => IsInjective(Entries(list, read))
  BY <1>1, EntriesOfList
<1>3. read = DOMAIN list => {list[j] : j \in read \cap DOMAIN list} = ToSet(list) BY DEF ToSet
<1>4. read = {} => Entries(list, read) = <<>>
  <2>1. read = {} => ToSet(Entries(list, read)) = {} BY <1>2
  <2>2. ToSet(Entries(list, read)) = {} => Entries(list, read) = <<>> BY <1>2 DEF ToSet
  <2>3. QED BY <2>1, <2>2
<1>5. QED BY <1>2, <1>3, <1>4

LEMMA EmptyLines == ToSet(<<>>) = {}
  BY DEF ToSet

LEMMA Distinct == NoName \notin Names /\ Absent \notin Seq(Names) /\ Null \notin Blocks
  BY TwitsAssumption, NullIsNoBlock

\* Names are all there is in the file.
LEMMA LinesAreNames ==
  ASSUME DataInv
  PROVE  Lines \in Seq(Names) /\ ToSet(Lines) \subseteq Names /\ (file = Absent => ToSet(Lines) = {})
<1>1. Lines \in Seq(Names) /\ (file = Absent => Lines = <<>>)
  BY DEF DataInv, Lines
<1>2. ToSet(Lines) \subseteq Names BY <1>1 DEF ToSet
<1>3. QED BY <1>1, <1>2, EmptyLines

\* The list is a sequence of names, with empty ones.
LEMMA ListIsNames ==
  ASSUME DataInv, ListInv
  PROVE  List \in Seq(Names \cup {NoName})
  BY DEF DataInv, ListInv, List

\* The empty entry at its end is no name.
LEMMA EmptyEntry ==
  ASSUME NEW l \in Seq(Names)
  PROVE  Append(l, NoName) \in Seq(Names \cup {NoName}) /\ ToSet(Append(l, NoName)) \ {NoName} = ToSet(l)
<1>1. l \in Seq(Names \cup {NoName}) /\ NoName \in Names \cup {NoName} OBVIOUS
<1>2. ToSet(Append(l, NoName)) = ToSet(l) \cup {NoName} BY <1>1, AppendedLine
<1>3. ToSet(l) \subseteq Names BY DEF ToSet
<1>4. QED BY <1>1, <1>2, <1>3, Distinct

\* A list of /twit clear has no name.
LEMMA ClearedList == List \in {<<>>, <<NoName>>} => Twits = {}
<1>1. ToSet(<<NoName>>) = {NoName} BY DEF ToSet
<1>2. QED BY <1>1, EmptyLines DEF Twits

\* What does not touch file and list leaves what is in them.
LEMMA SameLists ==
  ASSUME UNCHANGED <<file, heap, gTwits>>
  PROVE  Lines' = Lines /\ List' = List /\ Twits' = Twits
  BY DEF Lines, List, Twits

\* Where a step of the user's thread takes it.
LEMMA UserGoes ==
  ASSUME user \in UserRecords, NEW at \in {"load", "lock", "null", "array", "count", "free", "remove", "done"}
  PROVE  /\ user' = [user EXCEPT !.at = at] =>
              user'.at = at /\ user'.cmd = user.cmd /\ user'.name = user.name
         /\ \A old : user' = [user EXCEPT !.at = at, !.old = old] =>
              user'.at = at /\ user'.cmd = user.cmd /\ user'.name = user.name
  BY DEF UserRecords

\* The steps of the user's thread that load the list.
LEMMA LoadKeepsWish ==
  IInv /\ WishInv /\ (LoadRead \/ LoadLock \/ SplitNull \/ SplitArray \/ SplitFails \/ SplitCount \/ FreeOld) => WishInv'
<1> SUFFICES ASSUME IInv, WishInv, LoadRead \/ LoadLock \/ SplitNull \/ SplitArray \/ SplitFails \/ SplitCount \/ FreeOld
             PROVE  WishInv'
  OBVIOUS
<1>0. /\ user \in UserRecords /\ receiver \in ReceiverRecords
      /\ DataInv /\ PlaceInv /\ FileInv /\ MemoryInv /\ LoopInv /\ LockInv /\ ListInv
  BY DEF IInv, WishInv, RecordInv
<1>1. CASE LoadRead
  <2>1. UNCHANGED <<file, heap, gTwits, wanted, lost, twice, receiver>> /\ user.at = "load"
    BY <1>1 DEF LoadRead, memory
  <2>2. /\ user'.cmd = user.cmd /\ user'.name = user.name
        /\ \/ user'.at = "lock" /\ unread' = unread
           \/ user'.at = "done" /\ unread' = (unread \/ file # Absent)
    BY <1>0, <1>1, UserGoes DEF LoadRead
  <2>3. Lines' = Lines /\ List' = List /\ Twits' = Twits BY <2>1, SameLists
  <2>4. user.cmd # "clear" /\ user.cmd # "none" BY <1>0, <2>1 DEF ListInv, PlaceInv
  <2>5. DataInv' /\ PlaceInv' BY <1>0, <2>1, <2>2, <2>4 DEF DataInv, PlaceInv
  <2>6. FileInv' BY <1>0, <2>1, <2>2, <2>3 DEF FileInv
  <2>7. MemoryInv'
    <3>1. CASE user'.at = "lock" /\ unread' = unread
      BY <1>0, <2>1, <2>2, <2>3, <2>4, <3>1 DEF MemoryInv
    <3>2. CASE user'.at = "done" /\ unread' = (unread \/ file # Absent)
      <4>1. ~lost /\ ~unread' => Twits = {} /\ ToSet(Lines) = {} /\ ToSet(Lines) = wanted
        BY <1>0, <2>1, <3>2, LinesAreNames DEF MemoryInv, FileInv
      <4>2. QED BY <2>1, <2>2, <2>3, <2>4, <3>2, <4>1 DEF MemoryInv
    <3>3. QED BY <2>2, <3>1, <3>2
  <2>8. LoopInv' BY <1>0, <2>1, <2>2, <2>3 DEF LoopInv
  <2>9. QED BY <2>5, <2>6, <2>7, <2>8 DEF WishInv
<1>2. CASE LoadLock
  <2>1. UNCHANGED <<file, heap, gTwits, wanted, lost, unread, twice, receiver>> /\ user.at = "lock"
    BY <1>2 DEF LoadLock, memory, history, failures
  <2>2. user'.at = "null" /\ user'.cmd = user.cmd /\ user'.name = user.name
    BY <1>0, <1>2, UserGoes DEF LoadLock
  <2>3. Lines' = Lines /\ List' = List /\ Twits' = Twits BY <2>1, SameLists
  <2>4. user.cmd # "clear" /\ user.cmd # "none" BY <1>0, <2>1 DEF ListInv, PlaceInv
  <2>5. DataInv' /\ PlaceInv' BY <1>0, <2>1, <2>2, <2>4 DEF DataInv, PlaceInv
  <2>6. FileInv' BY <1>0, <2>1, <2>2, <2>3 DEF FileInv
  <2>7. MemoryInv' BY <2>2, <2>4 DEF MemoryInv
  <2>8. LoopInv' BY <1>0, <2>1, <2>2, <2>3 DEF LoopInv
  <2>9. QED BY <2>5, <2>6, <2>7, <2>8 DEF WishInv
<1>3. CASE SplitNull
  <2>1. UNCHANGED <<file, heap, wanted, lost, unread, twice, receiver>> /\ user.at = "null"
    BY <1>3 DEF SplitNull, failures
  <2>2. user'.at = "array" /\ user'.cmd = user.cmd /\ user'.name = user.name
    BY <1>0, <1>3, UserGoes DEF SplitNull
  <2>3. Lines' = Lines BY <2>1 DEF Lines
  <2>4. user.cmd # "none" BY <1>0, <2>1 DEF PlaceInv
  <2>5. DataInv' /\ PlaceInv' BY <1>0, <2>1, <2>2, <2>4 DEF DataInv, PlaceInv
  <2>6. FileInv' BY <1>0, <2>1, <2>2, <2>3 DEF FileInv
  <2>7. MemoryInv' BY <2>2 DEF MemoryInv
  <2>8. LoopInv' BY <1>0, <2>1, <2>2 DEF LoopInv, LockInv
  <2>9. QED BY <2>5, <2>6, <2>7, <2>8 DEF WishInv
<1>4. CASE SplitArray
  <2>1. UNCHANGED <<file, wanted, lost, twice, receiver>> /\ user.at = "array"
    BY <1>4 DEF SplitArray
  <2>2. user'.at = "count" /\ user'.cmd = user.cmd /\ user'.name = user.name
    BY <1>0, <1>4, UserGoes DEF SplitArray
  <2>3. Lines' = Lines BY <2>1 DEF Lines
  <2>4. user.cmd # "none" BY <1>0, <2>1 DEF PlaceInv
  <2>5. PICK b \in Blocks, read \in SUBSET DOMAIN Lines :
           /\ user.cmd = "clear" => read = {}
           /\ heap' = [heap EXCEPT ![b] = Append(Entries(Lines, read), NoName)]
           /\ gTwits' = b
           /\ unread' = IF user.cmd = "clear" THEN unread ELSE read # DOMAIN Lines
    BY <1>4 DEF SplitArray
  <2> DEFINE new == Entries(Lines, read)
  <2>6. Lines \in Seq(Names) BY <1>0, LinesAreNames
  <2>7. /\ new \in Seq(Names) /\ (read = DOMAIN Lines => ToSet(new) = ToSet(Lines))
        /\ read = {} => new = <<>>
    BY <2>6, LinesRead
  <2>8. heap' = [heap EXCEPT ![b] = Append(new, NoName)] BY <2>5
  <2> HIDE DEF new
  <2>9. Append(new, NoName) \in Seq(Names \cup {NoName}) /\ ToSet(Append(new, NoName)) \ {NoName} = ToSet(new)
    BY <2>7, EmptyEntry
  <2>10. List' = Append(new, NoName)
    <3>1. heap'[b] = Append(new, NoName) BY <1>0, <2>8 DEF DataInv
    <3>2. QED BY <2>5, <3>1, Distinct DEF List
  <2>11. DataInv'
    <3>1. heap' \in [Blocks -> Seq(Names \cup {NoName})] BY <1>0, <2>8, <2>9 DEF DataInv
    <3>2. unread' \in BOOLEAN BY <1>0, <2>5 DEF DataInv
    <3>3. QED BY <1>0, <2>1, <3>1, <3>2 DEF DataInv
  <2>12. PlaceInv' BY <1>0, <2>1, <2>2, <2>4 DEF PlaceInv
  <2>13. FileInv' BY <1>0, <2>1, <2>2, <2>3 DEF FileInv
  <2>14. MemoryInv'
    <3>1. ~unread' /\ user.cmd # "clear" => Twits' = ToSet(Lines)'
      <4>1. Twits' = ToSet(Append(new, NoName)) \ {NoName} BY <2>10 DEF Twits, ToSet
      <4>2. ToSet(Lines)' = ToSet(Lines) BY <2>3 DEF ToSet
      <4>3. QED BY <2>5, <2>7, <2>9, <4>1, <4>2
    <3>2. user.cmd = "clear" => List' = <<NoName>>
      <4>1. Append(<<>>, NoName) = <<NoName>> OBVIOUS
      <4>2. QED BY <2>5, <2>7, <2>10, <4>1
    <3>3. QED BY <2>2, <2>4, <3>1, <3>2 DEF MemoryInv
  <2>15. LoopInv' BY <1>0, <2>1, <2>2 DEF LoopInv, LockInv
  <2>16. QED BY <2>11, <2>12, <2>13, <2>14, <2>15 DEF WishInv
<1>5. CASE SplitFails
  <2>1. UNCHANGED <<file, heap, gTwits, wanted, lost, twice, receiver>> /\ user.at = "array"
    BY <1>5 DEF SplitFails, memory
  <2>2. /\ user'.at = "count" /\ user'.cmd = user.cmd /\ user'.name = user.name
        /\ unread' = (unread \/ user.cmd # "clear")
    BY <1>0, <1>5, UserGoes DEF SplitFails
  <2>3. Lines' = Lines /\ List' = List /\ Twits' = Twits BY <2>1, SameLists
  <2>4. user.cmd # "none" BY <1>0, <2>1 DEF PlaceInv
  <2>5. List = <<>> BY <1>0, <2>1 DEF ListInv, List
  <2>6. DataInv' /\ PlaceInv' BY <1>0, <2>1, <2>2, <2>4 DEF DataInv, PlaceInv
  <2>7. FileInv' BY <1>0, <2>1, <2>2, <2>3 DEF FileInv
  <2>8. MemoryInv' BY <2>2, <2>3, <2>5 DEF MemoryInv
  <2>9. LoopInv' BY <1>0, <2>1, <2>2, <2>3 DEF LoopInv
  <2>10. QED BY <2>6, <2>7, <2>8, <2>9 DEF WishInv
<1>6. CASE SplitCount
  <2>1. UNCHANGED <<file, heap, gTwits, wanted, lost, unread, twice, receiver>> /\ user.at = "count"
    BY <1>6 DEF SplitCount, history, failures
  <2>2. user'.at = (IF user.cmd = "clear" THEN "remove" ELSE "free") /\ user'.cmd = user.cmd /\ user'.name = user.name
    BY <1>0, <1>6, UserGoes DEF SplitCount
  <2>3. Lines' = Lines /\ List' = List /\ Twits' = Twits BY <2>1, SameLists
  <2>4. user.cmd # "none" BY <1>0, <2>1 DEF PlaceInv
  <2>5. DataInv' /\ PlaceInv' BY <1>0, <2>1, <2>2, <2>4 DEF DataInv, PlaceInv
  <2>6. FileInv' BY <1>0, <2>1, <2>2, <2>3 DEF FileInv
  <2>7. MemoryInv' BY <1>0, <2>1, <2>2, <2>3, <2>4 DEF MemoryInv
  <2>8. LoopInv' BY <1>0, <2>1, <2>2, <2>3 DEF LoopInv
  <2>9. QED BY <2>5, <2>6, <2>7, <2>8 DEF WishInv
<1>7. CASE FreeOld
  <2>1. UNCHANGED <<file, gTwits, wanted, lost, unread, twice, receiver>> /\ user.at = "free"
    BY <1>7 DEF FreeOld, history, failures
  <2>2. user'.at = "done" /\ user'.cmd = user.cmd /\ user'.name = user.name
    BY <1>0, <1>7, UserGoes DEF FreeOld
  <2>3. Lines' = Lines BY <2>1 DEF Lines
  <2>4. user.cmd # "clear" /\ user.cmd # "none" BY <1>0, <2>1 DEF ListInv, PlaceInv
  <2>5. gTwits # Null => gTwits \in Blocks /\ user.old # gTwits BY <1>0, <2>1 DEF ListInv
  <2>6. heap' = [b \in Blocks |-> IF b = user.old THEN <<>> ELSE heap[b]] BY <1>7 DEF FreeOld
  <2>7. List' = List BY <2>1, <2>5, <2>6 DEF List
  <2>8. Twits' = Twits BY <2>7 DEF Twits
  <2>9. DataInv' BY <1>0, <2>1, <2>6 DEF DataInv
  <2>10. PlaceInv' BY <1>0, <2>1, <2>2, <2>4 DEF PlaceInv
  <2>11. FileInv' BY <1>0, <2>1, <2>2, <2>3 DEF FileInv
  <2>12. ~lost /\ ~unread => Twits = wanted BY <1>0, <2>1, <2>4 DEF MemoryInv, FileInv
  <2>13. MemoryInv' BY <2>1, <2>2, <2>4, <2>8, <2>12 DEF MemoryInv
  <2>14. LoopInv' BY <1>0, <2>1, <2>2, <2>7 DEF LoopInv
  <2>15. QED BY <2>9, <2>10, <2>11, <2>13, <2>14 DEF WishInv
<1>8. QED BY <1>1, <1>2, <1>3, <1>4, <1>5, <1>6, <1>7

\* The steps of the user's thread that change the file, or end a command.
LEMMA FileKeepsWish ==
  IInv /\ WishInv /\ (AddNothing \/ AddAppend \/ Rewrite \/ ClearFile \/ Done) => WishInv'
<1> SUFFICES ASSUME IInv, WishInv, AddNothing \/ AddAppend \/ Rewrite \/ ClearFile \/ Done PROVE WishInv'
  OBVIOUS
<1>0. /\ user \in UserRecords /\ DataInv /\ PlaceInv /\ FileInv /\ MemoryInv /\ LoopInv /\ ListInv
  BY DEF IInv, WishInv, RecordInv
<1>1. CASE AddNothing
  <2>1. UNCHANGED <<file, heap, gTwits, wanted, lost, unread, twice, receiver>> /\ user.at = "check" /\ user' = Quiet
    BY <1>1 DEF AddNothing, memory, history, failures
  <2>2. user'.at = "idle" /\ user'.cmd = "none" BY <2>1, FixedRecords
  <2>3. Lines' = Lines /\ List' = List /\ Twits' = Twits BY <2>1, SameLists
  <2>4. user.cmd = "add" BY <1>0, <2>1 DEF PlaceInv
  <2>5. DataInv' /\ PlaceInv' BY <1>0, <2>1, <2>2 DEF DataInv, PlaceInv
  <2>6. FileInv' BY <1>0, <2>1, <2>2, <2>3 DEF FileInv
  <2>7. MemoryInv' BY <1>0, <2>1, <2>2, <2>3 DEF MemoryInv
  <2>8. LoopInv' BY <1>0, <2>1, <2>3, <2>4 DEF LoopInv
  <2>9. QED BY <2>5, <2>6, <2>7, <2>8 DEF WishInv
<1>2. CASE AddAppend
  <2>1. /\ UNCHANGED <<heap, gTwits, lost, unread, receiver>> /\ user.at = "check"
        /\ file' = Append(Lines, user.name) /\ wanted' = wanted \cup {user.name}
        /\ twice' = (twice \/ unread)
    BY <1>2 DEF AddAppend, memory
  <2>2. user'.at = "load" /\ user'.cmd = user.cmd /\ user'.name = user.name
    BY <1>0, <1>2, UserGoes DEF AddAppend
  <2>3. user.cmd = "add" /\ user.name \in Names BY <1>0, <2>1 DEF PlaceInv
  <2>4. Lines \in Seq(Names) BY <1>0, LinesAreNames
  <2>5. file' \in Seq(Names) /\ file' # Absent /\ Lines' = file'
    BY <2>1, <2>3, <2>4, Distinct DEF Lines
  <2>6. ToSet(Lines)' = ToSet(Lines) \cup {user.name}
    <3>1. ToSet(Append(Lines, user.name)) = ToSet(Lines) \cup {user.name} BY <2>3, <2>4, AppendedLine
    <3>2. QED BY <2>1, <2>5, <3>1 DEF ToSet
  <2>7. List' = List /\ Twits' = Twits BY <2>1 DEF List, Twits
  <2>8. DataInv' /\ PlaceInv' BY <1>0, <2>1, <2>2, <2>3, <2>5 DEF DataInv, PlaceInv
  <2>9. FileInv' BY <1>0, <2>1, <2>6 DEF FileInv
  <2>10. MemoryInv' BY <1>0, <2>1, <2>2, <2>3, <2>5, <2>7 DEF MemoryInv
  <2>11. LoopInv' BY <1>0, <2>1, <2>2, <2>7 DEF LoopInv
  <2>12. QED BY <2>8, <2>9, <2>10, <2>11 DEF WishInv
<1>3. CASE Rewrite
  <2>1. /\ UNCHANGED <<heap, gTwits, unread, twice, receiver>> /\ user.at = "rewrite"
        /\ wanted' = wanted \ {user.name}
        /\ \/ file' = Without(List, user.name) /\ lost' = (lost \/ unread)
           \/ file' = file /\ lost' = TRUE
    BY <1>3 DEF Rewrite, memory
  <2>2. user'.at = "load" /\ user'.cmd = user.cmd /\ user'.name = user.name
    BY <1>0, <1>3, UserGoes DEF Rewrite
  <2>3. user.cmd = "del" /\ user.name \in Names BY <1>0, <2>1 DEF PlaceInv
  <2>4. /\ Without(List, user.name) \in Seq(Names)
        /\ ToSet(Without(List, user.name)) = ToSet(List) \ {user.name, NoName}
    BY <1>0, ListIsNames, WithoutLines
  <2>5. List' = List /\ Twits' = Twits BY <2>1 DEF List, Twits
  <2>6. ~lost' => file' = Without(List, user.name) /\ file' # Absent /\ Lines' = file' /\ ~lost /\ ~unread
    BY <2>1, <2>4, Distinct DEF Lines
  <2>7. ~lost' => Twits = wanted BY <1>0, <2>1, <2>6 DEF MemoryInv
  <2>8. ~lost' => ToSet(Lines)' = wanted'
    <3>1. ~lost' => ToSet(Lines)' = ToSet(List) \ {user.name, NoName} BY <2>4, <2>6 DEF ToSet
    <3>2. QED BY <2>1, <2>7, <3>1 DEF Twits
  <2>9. DataInv' BY <1>0, <2>1, <2>4 DEF DataInv
  <2>10. PlaceInv' BY <1>0, <2>1, <2>2, <2>3 DEF PlaceInv
  <2>11. FileInv' BY <2>8 DEF FileInv
  <2>12. MemoryInv' BY <2>1, <2>2, <2>3, <2>5, <2>6, <2>7 DEF MemoryInv
  <2>13. LoopInv' BY <1>0, <2>1, <2>2, <2>5 DEF LoopInv
  <2>14. QED BY <2>9, <2>10, <2>11, <2>12, <2>13 DEF WishInv
<1>4. CASE ClearFile
  <2>1. /\ UNCHANGED <<heap, gTwits, receiver>> /\ user.at = "remove" /\ wanted' = {}
        /\ \/ file' = Absent /\ lost' = FALSE /\ unread' = FALSE /\ twice' = FALSE
           \/ file' = file /\ lost' = TRUE /\ unread' = TRUE /\ twice' = twice
    BY <1>4 DEF ClearFile, memory
  <2>2. user'.at = "done" /\ user'.cmd = user.cmd /\ user'.name = user.name
    BY <1>0, <1>4, UserGoes DEF ClearFile
  <2>3. user.cmd = "clear" BY <1>0, <2>1 DEF PlaceInv
  <2>4. List' = List /\ Twits' = Twits BY <2>1 DEF List, Twits
  <2>5. List \in {<<>>, <<NoName>>} /\ Twits = {}
    <3>1. List \in {<<>>, <<NoName>>} BY <1>0, <2>1, <2>3 DEF MemoryInv
    <3>2. QED BY <3>1, ClearedList
  <2>6. ~lost' => ToSet(Lines)' = {} BY <2>1, EmptyLines DEF Lines
  <2>7. DataInv' /\ PlaceInv' BY <1>0, <2>1, <2>2, <2>3 DEF DataInv, PlaceInv
  <2>8. FileInv' BY <2>1, <2>6 DEF FileInv
  <2>9. MemoryInv' BY <2>1, <2>2, <2>3, <2>4, <2>5 DEF MemoryInv
  <2>10. LoopInv' BY <2>2, <2>3 DEF LoopInv
  <2>11. QED BY <2>7, <2>8, <2>9, <2>10 DEF WishInv
<1>5. CASE Done
  <2>1. UNCHANGED <<file, heap, gTwits, wanted, lost, unread, twice, receiver>> /\ user.at = "done" /\ user' = Quiet
    BY <1>5 DEF Done, memory, history, failures
  <2>2. user'.at = "idle" /\ user'.cmd = "none" BY <2>1, FixedRecords
  <2>3. Lines' = Lines /\ List' = List /\ Twits' = Twits BY <2>1, SameLists
  <2>4. DataInv' /\ PlaceInv' BY <1>0, <2>1, <2>2 DEF DataInv, PlaceInv
  <2>5. FileInv' BY <1>0, <2>1, <2>3 DEF FileInv
  <2>6. MemoryInv' BY <1>0, <2>1, <2>2, <2>3 DEF MemoryInv
  <2>7. LoopInv'
    <3>1. CASE user.cmd = "clear"
      <4>1. List' \in {<<>>, <<NoName>>} BY <1>0, <2>1, <2>3, <3>1 DEF MemoryInv
      <4>2. \A j \in DOMAIN List' : List'[j] = NoName BY <4>1
      <4>3. QED BY <4>2, Distinct DEF LoopInv
    <3>2. CASE user.cmd # "clear" BY <1>0, <2>1, <2>3, <3>2 DEF LoopInv
    <3>3. QED BY <3>1, <3>2
  <2>8. QED BY <2>4, <2>5, <2>6, <2>7 DEF WishInv
<1>6. QED BY <1>1, <1>2, <1>3, <1>4, <1>5

\* The start of a command.
LEMMA CommandsKeepWish == IInv /\ WishInv /\ Commands => WishInv'
<1> SUFFICES ASSUME IInv, WishInv, Commands PROVE WishInv'
  OBVIOUS
<1>0. /\ user \in UserRecords /\ DataInv /\ PlaceInv /\ FileInv /\ MemoryInv /\ LoopInv
  BY DEF IInv, WishInv, RecordInv
<1>1. CASE Reenter
  <2>1. UNCHANGED <<file, heap, gTwits, wanted, lost, unread, twice, receiver>> /\ user.at = "idle"
    BY <1>1 DEF Reenter, memory, history, failures
  <2>2. user'.at = "load" /\ user'.cmd = "reenter"
    <3>1. user' = [Entering EXCEPT !.cmd = "reenter"] BY <1>1 DEF Reenter
    <3>2. QED BY <3>1 DEF Entering, Quiet
  <2>3. Lines' = Lines /\ List' = List /\ Twits' = Twits BY <2>1, SameLists
  <2>4. user.cmd = "none" BY <1>0, <2>1 DEF PlaceInv
  <2>5. DataInv' /\ PlaceInv' BY <1>0, <2>1, <2>2 DEF DataInv, PlaceInv
  <2>6. FileInv' BY <1>0, <2>1, <2>3 DEF FileInv
  <2>7. ~lost /\ ~unread => Twits = wanted /\ (file = Absent => wanted = {})
    BY <1>0, <2>1, LinesAreNames DEF MemoryInv, FileInv
  <2>8. MemoryInv' BY <2>1, <2>2, <2>3, <2>7 DEF MemoryInv
  <2>9. LoopInv' BY <1>0, <2>1, <2>3, <2>4 DEF LoopInv
  <2>10. QED BY <2>5, <2>6, <2>8, <2>9 DEF WishInv
<1>2. ASSUME NEW cmd \in {"add", "del", "clear"}, NEW name \in Names \cup {NoName}, NEW at \in {"check", "rewrite", "null"},
             Command(cmd, name, at)
      PROVE  user.at = "idle" /\ user.cmd = "none" /\ user'.at = at /\ user'.cmd = cmd /\ user'.name = name
  <2>1. user.at = "idle" /\ user' = [Quiet EXCEPT !.at = at, !.cmd = cmd, !.name = name] BY <1>2 DEF Command
  <2>2. QED BY <1>0, <2>1 DEF Quiet, PlaceInv
<1>3. CASE ClearTwits
  <2>1. UNCHANGED <<file, heap, gTwits, wanted, lost, unread, twice, receiver>>
    BY <1>3 DEF ClearTwits, memory, history, failures
  <2>2. user.at = "idle" /\ user.cmd = "none" /\ user'.at = "null" /\ user'.cmd = "clear"
    BY <1>2, <1>3 DEF ClearTwits
  <2>3. Lines' = Lines BY <2>1 DEF Lines
  <2>4. DataInv' /\ PlaceInv' BY <1>0, <2>1, <2>2 DEF DataInv, PlaceInv
  <2>5. FileInv' BY <1>0, <2>1, <2>2, <2>3 DEF FileInv
  <2>6. MemoryInv' /\ LoopInv' BY <2>2 DEF MemoryInv, LoopInv
  <2>7. QED BY <2>4, <2>5, <2>6 DEF WishInv
<1>4. ASSUME NEW n \in Names, AddTwit(n) PROVE WishInv'
  <2>1. UNCHANGED <<file, heap, gTwits, wanted, lost, unread, twice, receiver>>
    BY <1>4 DEF AddTwit, memory, history, failures
  <2>2. user.at = "idle" /\ user.cmd = "none" /\ user'.at = "check" /\ user'.cmd = "add" /\ user'.name = n
    BY <1>2, <1>4 DEF AddTwit
  <2>3. Lines' = Lines /\ List' = List /\ Twits' = Twits BY <2>1, SameLists
  <2>4. DataInv' /\ PlaceInv' BY <1>0, <2>1, <2>2 DEF DataInv, PlaceInv
  <2>5. FileInv' BY <1>0, <2>1, <2>2, <2>3 DEF FileInv
  <2>6. MemoryInv' BY <1>0, <2>1, <2>2, <2>3 DEF MemoryInv
  <2>7. LoopInv' BY <1>0, <2>1, <2>2, <2>3 DEF LoopInv
  <2>8. QED BY <2>4, <2>5, <2>6, <2>7 DEF WishInv
<1>5. ASSUME NEW n \in Names, RemoveTwit(n) PROVE WishInv'
  <2>1. UNCHANGED <<heap, gTwits, wanted, lost, unread, twice, receiver>> /\ file' \in {Absent, file}
    BY <1>5 DEF RemoveTwit, memory, history, failures
  <2>2. user.at = "idle" /\ user.cmd = "none" /\ user'.at = "rewrite" /\ user'.cmd = "del" /\ user'.name = n
    BY <1>2, <1>5 DEF RemoveTwit
  <2>3. List' = List /\ Twits' = Twits BY <2>1 DEF List, Twits
  <2>4. DataInv' /\ PlaceInv' BY <1>0, <2>1, <2>2 DEF DataInv, PlaceInv
  <2>5. FileInv' BY <2>2 DEF FileInv
  <2>6. MemoryInv' BY <1>0, <2>1, <2>2, <2>3 DEF MemoryInv
  <2>7. LoopInv' BY <1>0, <2>1, <2>2, <2>3 DEF LoopInv
  <2>8. QED BY <2>4, <2>5, <2>6, <2>7 DEF WishInv
<1>6. QED BY <1>1, <1>3, <1>4, <1>5 DEF Commands

\* The receiver changes nothing but its own place and the lock.
LEMMA ReceiverKeepsWish ==
  ASSUME IInv, WishInv, Check \/ \E from \in Names \cup {NoName} : Message(from)
  PROVE  WishInv'
<1>0. /\ receiver \in ReceiverRecords /\ DataInv /\ PlaceInv /\ FileInv /\ MemoryInv /\ LoopInv /\ ListInv
  BY DEF IInv, WishInv, RecordInv
<1>1. UNCHANGED <<file, heap, gTwits, wanted, lost, unread, twice, user>>
  BY DEF Check, CheckLock, CheckNext, CheckFound, CheckEnds, CheckBad, Message, memory, history, failures
<1>2. Lines' = Lines /\ List' = List /\ Twits' = Twits BY <1>1, SameLists
<1>3. DataInv' /\ FileInv' /\ MemoryInv' BY <1>0, <1>1, <1>2 DEF DataInv, FileInv, MemoryInv
<1>4. PlaceInv'
  <2>1. user.cmd = "enter" => receiver'.at = "idle"
    BY <1>0 DEF PlaceInv, Check, CheckLock, CheckNext, CheckFound, CheckEnds, CheckBad, Message
  <2>2. QED BY <1>0, <1>1, <2>1 DEF PlaceInv
<1>5. LoopInv'
  <2>1. CASE CheckLock
    <3>1. receiver' = [receiver EXCEPT !.at = "loop", !.i = 1] BY <2>1 DEF CheckLock
    <3>2. receiver'.i = 1 BY <1>0, <3>1 DEF ReceiverRecords
    <3>3. \A j \in DOMAIN List : ~(j < 1) BY <1>0, ListIsNames
    <3>4. QED BY <1>2, <3>2, <3>3 DEF LoopInv
  <2>2. CASE CheckNext
    <3>1. /\ receiver.at = "loop" /\ Readable /\ heap[gTwits][receiver.i] # receiver.from
          /\ receiver' = [receiver EXCEPT !.i = receiver.i + 1]
      BY <2>2 DEF CheckNext
    <3>2. receiver'.at = "loop" /\ receiver'.i = receiver.i + 1 /\ receiver'.from = receiver.from
      BY <1>0, <3>1 DEF ReceiverRecords
    <3>3. List = heap[gTwits] BY <1>0, <3>1, Distinct DEF Readable, ListInv, List
    <3>4. \A j \in DOMAIN List : j < receiver.i + 1 => j < receiver.i \/ j = receiver.i
      BY <1>0, ListIsNames DEF ReceiverRecords
    <3>5. QED BY <1>0, <1>1, <1>2, <3>1, <3>2, <3>3, <3>4 DEF LoopInv
  <2>3. CASE ~CheckLock /\ ~CheckNext
    <3>1. receiver'.at # "loop"
      <4>1. CASE CheckFound
        <5>1. receiver' = [Waiting EXCEPT !.last = "hidden"] BY <4>1 DEF CheckFound
        <5>2. QED BY <5>1 DEF Waiting
      <4>2. CASE CheckEnds BY <4>2, FixedRecords DEF CheckEnds
      <4>3. CASE CheckBad BY <1>0, <4>3 DEF CheckBad, ReceiverRecords
      <4>4. ASSUME NEW from \in Names \cup {NoName}, Message(from) PROVE receiver'.at # "loop"
        BY <1>0, <4>4 DEF Message, ReceiverRecords
      <4>5. QED BY <2>3, <4>1, <4>2, <4>3, <4>4 DEF Check
    <3>2. QED BY <3>1 DEF LoopInv
  <2>4. QED BY <2>1, <2>2, <2>3
<1>6. QED BY <1>3, <1>4, <1>5 DEF WishInv

\* The end of a session, which is without a list then.
LEMMA SessionEndsKeepsWish == IInv /\ WishInv /\ SessionEnds => WishInv'
<1> SUFFICES ASSUME IInv, WishInv, SessionEnds PROVE WishInv'
  OBVIOUS
<1>0. DataInv /\ FileInv BY DEF WishInv
<1>1. /\ heap' = [b \in Blocks |-> <<>>] /\ gTwits' = Null /\ user' = Entering /\ receiver' = Waiting
      /\ lost' = (lost \/ user.at = "rewrite") /\ unread' = FALSE
      /\ UNCHANGED <<file, wanted, twice>>
  BY DEF SessionEnds
<1>2. user'.at = "load" /\ user'.cmd = "enter" /\ receiver'.at = "idle" BY <1>1, FixedRecords
<1>3. Lines' = Lines /\ List' = <<>> /\ Twits' = {} BY <1>1, EmptyLines DEF Lines, List, Twits
<1>4. DataInv'
  <2>1. heap' \in [Blocks -> Seq(Names \cup {NoName})]
    <3>1. <<>> \in Seq(Names \cup {NoName}) OBVIOUS
    <3>2. QED BY <1>1, <3>1
  <2>2. QED BY <1>0, <1>1, <2>1 DEF DataInv
<1>5. PlaceInv' BY <1>2 DEF PlaceInv
<1>6. FileInv' BY <1>0, <1>1, <1>3 DEF FileInv
<1>7. MemoryInv' BY <1>2, <1>3 DEF MemoryInv
<1>8. LoopInv' BY <1>2 DEF LoopInv
<1>9. QED BY <1>4, <1>5, <1>6, <1>7, <1>8 DEF WishInv

\* The first session begins with whatever the file holds.
LEMMA InitWish == Init => WishInv
<1> SUFFICES ASSUME Init PROVE WishInv OBVIOUS
<1>1. /\ file \in {Absent} \cup {<<n>> : n \in Names}
      /\ heap = [b \in Blocks |-> <<>>] /\ gTwits = Null /\ user = Entering /\ receiver = Waiting
      /\ wanted = ToSet(Lines) /\ lost = FALSE /\ unread = FALSE /\ twice = FALSE
  BY DEF Init
<1>2. user.at = "load" /\ user.cmd = "enter" /\ receiver.at = "idle" BY <1>1, FixedRecords
<1>3. List = <<>> /\ Twits = {} BY <1>1, EmptyLines DEF List, Twits
<1>4. file \in Seq(Names) \cup {Absent}
  <2>1. \A n \in Names : <<n>> \in Seq(Names) OBVIOUS
  <2>2. QED BY <1>1, <2>1
<1>5. Lines \in Seq(Names) /\ ToSet(Lines) \subseteq Names
  <2>1. Lines \in Seq(Names)
    <3>1. <<>> \in Seq(Names) OBVIOUS
    <3>2. QED BY <1>4, <3>1 DEF Lines
  <2>2. QED BY <2>1 DEF ToSet
<1>6. DataInv
  <2>1. heap \in [Blocks -> Seq(Names \cup {NoName})]
    <3>1. <<>> \in Seq(Names \cup {NoName}) OBVIOUS
    <3>2. QED BY <1>1, <3>1
  <2>2. wanted \subseteq Names /\ {lost, unread, twice} \subseteq BOOLEAN BY <1>1, <1>5
  <2>3. QED BY <1>4, <2>1, <2>2 DEF DataInv
<1>7. PlaceInv BY <1>2 DEF PlaceInv
<1>8. FileInv BY <1>1 DEF FileInv
<1>9. MemoryInv BY <1>2, <1>3 DEF MemoryInv
<1>10. LoopInv BY <1>2 DEF LoopInv
<1>11. QED BY <1>6, <1>7, <1>8, <1>9, <1>10 DEF WishInv

LEMMA StutterKeepsWish == WishInv /\ UNCHANGED vars => WishInv'
<1> SUFFICES ASSUME WishInv, UNCHANGED vars PROVE WishInv' OBVIOUS
<1>1. UNCHANGED <<file, heap, gTwits, wanted, lost, unread, twice, user, receiver>>
  BY DEF vars, memory, history, failures
<1>2. Lines' = Lines /\ List' = List /\ Twits' = Twits BY <1>1, SameLists
<1>3. QED BY <1>1, <1>2 DEF WishInv, DataInv, PlaceInv, FileInv, MemoryInv, LoopInv

LEMMA WishInvariant == Spec => [](IInv /\ WishInv)
<1>1. IInv /\ WishInv /\ [Next]_vars => WishInv'
  BY LoadKeepsWish, FileKeepsWish, CommandsKeepWish, ReceiverKeepsWish, SessionEndsKeepsWish, StutterKeepsWish
  DEF Next, User
<1>2. QED BY InitWish, InductiveInvariant, <1>1, PTL DEF Spec

(***************************************************************************)
(* What gTwitFile holds is what the user asked for with /twit, wherever    *)
(* sessions ended in between, but while removeTwit() is about to write it: *)
(* until the next /twit clear that ends once it could not be written, was  *)
(* written from a list that could not be read, or the session ended first. *)
(***************************************************************************)
THEOREM FileIsAsWanted == Spec => []FileAsWanted
<1>1. IInv /\ WishInv => FileAsWanted BY DEF WishInv, FileInv, FileAsWanted
<1>2. QED BY <1>1, WishInvariant, PTL

\* Sessions are counted.
LEMMA EndsCounted == Spec => [](ends \in Nat)
<1>1. Init => ends \in Nat BY DEF Init
<1>2. ends \in Nat /\ [Next]_vars => (ends \in Nat)'
  <2> SUFFICES ASSUME ends \in Nat, [Next]_vars PROVE ends' = ends \/ ends' = ends + 1 OBVIOUS
  <2>1. CASE User
    BY <2>1 DEF User, LoadRead, LoadLock, SplitNull, SplitArray, SplitFails, SplitCount, FreeOld,
                AddNothing, AddAppend, Rewrite, ClearFile, Done, bounds
  <2>2. CASE Commands BY <2>2 DEF Commands, Reenter, ClearTwits, AddTwit, RemoveTwit
  <2>3. CASE Check
    BY <2>3 DEF Check, CheckLock, CheckNext, CheckFound, CheckEnds, CheckBad, bounds
  <2>4. CASE SessionEnds BY <2>4 DEF SessionEnds
  <2>5. CASE \E from \in Names \cup {NoName} : Message(from) BY <2>5 DEF Message, bounds
  <2>6. CASE UNCHANGED vars BY <2>6 DEF vars, bounds
  <2>7. QED BY <2>1, <2>2, <2>3, <2>4, <2>5, <2>6 DEF Next
<1>3. QED BY <1>1, <1>2, PTL DEF Spec

\* The list is what the user asked for, as far as a lookup can tell.
LEMMA ListAsWanted ==
  ASSUME IInv, WishInv, receiver.at = "loop", ~lost, ~unread, NEW n \in Names \ Unsettled
  PROVE  /\ user.cmd # "clear" /\ user.at \notin {"array", "count"}
         /\ n \in Twits <=> n \in wanted
<1>0. /\ user \in UserRecords /\ DataInv /\ PlaceInv /\ FileInv /\ MemoryInv /\ LockInv /\ ListInv
  BY DEF IInv, WishInv, RecordInv
<1>1. user.cmd # "clear" BY DEF Unsettled
<1>2. user.cmd # "enter" BY <1>0 DEF PlaceInv
<1>3. user.at \notin {"null", "array", "count"} BY <1>0, <1>1 DEF LockInv
<1>4. user.cmd \in {"add", "del"} => n # user.name BY DEF Unsettled
<1>5. user.at # "remove" BY <1>0, <1>1 DEF PlaceInv
<1>6. user.at = "free" => Twits = wanted BY <1>0, <1>1 DEF MemoryInv, FileInv
<1>7. user.at \in {"idle", "check", "rewrite", "done"} => Twits = wanted BY <1>0 DEF MemoryInv
<1>8. user.at \in {"load", "lock"} => (n \in Twits <=> n \in wanted)
  <2>1. user.at \in {"load", "lock"} => user.cmd \in {"add", "del", "reenter"}
    BY <1>0, <1>1, <1>2 DEF UserRecords, PlaceInv
  <2>2. QED BY <1>0, <1>4, <2>1 DEF MemoryInv
<1>9. user.at \in {"idle", "check", "rewrite", "load", "lock", "free", "done"}
  BY <1>0, <1>3, <1>5 DEF UserRecords
<1>10. QED BY <1>1, <1>3, <1>6, <1>7, <1>8, <1>9

(***************************************************************************)
(* checkTwit() hides a message if and only if its sender is a twit the     *)
(* user asked for, a command at work on that name set aside, as long as    *)
(* the list could be read and the file written: the list it runs through   *)
(* may be replaced while it does.                                          *)
(***************************************************************************)
THEOREM TwitsAreHidden == Spec => TwitsHidden
<1>1. ASSUME IInv, WishInv, ends \in Nat, [Next]_vars, receiver.at = "loop", receiver'.at = "idle", ends' = ends,
             ~lost, ~unread, receiver.from \in Names \ Unsettled
      PROVE  receiver'.last = "hidden" <=> receiver.from \in wanted
  <2>0. receiver \in ReceiverRecords /\ DataInv /\ LoopInv /\ ListInv
    BY <1>1 DEF IInv, WishInv, RecordInv
  <2>1. CheckFound \/ CheckEnds
    <3>1. ~UNCHANGED vars BY <1>1 DEF vars
    <3>2. ~User
      BY <1>1 DEF User, LoadRead, LoadLock, SplitNull, SplitArray, SplitFails, SplitCount, FreeOld,
                  AddNothing, AddAppend, Rewrite, ClearFile, Done
    <3>3. ~Commands BY <1>1 DEF Commands, Reenter, ClearTwits, AddTwit, RemoveTwit
    <3>4. ~SessionEnds
      <4>1. ends + 1 # ends BY <1>1
      <4>2. QED BY <1>1, <4>1 DEF SessionEnds
    <3>5. ~CheckLock /\ ~CheckNext /\ ~CheckBad /\ \A from \in Names \cup {NoName} : ~Message(from)
      BY <1>1, <2>0 DEF CheckLock, CheckNext, CheckBad, Message, ReceiverRecords
    <3>6. QED BY <1>1, <3>1, <3>2, <3>3, <3>4, <3>5 DEF Next, Check
  <2>2. /\ user.cmd # "clear" /\ user.at \notin {"array", "count"}
        /\ receiver.from \in Twits <=> receiver.from \in wanted
    BY <1>1, ListAsWanted
  <2>3. List \in Seq(Names \cup {NoName}) BY <2>0, ListIsNames
  <2>4. receiver.from # NoName BY <1>1, Distinct
  <2>5. receiver.from \in Twits <=> \E j \in DOMAIN List : List[j] = receiver.from
    BY <2>3, <2>4 DEF Twits, ToSet
  <2>6. CASE CheckFound
    <3>1. /\ gTwits \in live /\ receiver.i <= Len(heap[gTwits]) /\ heap[gTwits][receiver.i] = receiver.from
          /\ receiver' = [Waiting EXCEPT !.last = "hidden"]
      BY <2>6 DEF CheckFound, Readable
    <3>2. receiver'.last = "hidden" BY <3>1 DEF Waiting
    <3>3. List = heap[gTwits] BY <2>0, <3>1, Distinct DEF ListInv, List
    <3>4. receiver.i \in DOMAIN List BY <2>0, <2>3, <3>1, <3>3 DEF ReceiverRecords
    <3>5. QED BY <2>2, <2>5, <3>1, <3>2, <3>3, <3>4
  <2>7. CASE CheckEnds
    <3>1. receiver.i > gTwitCount /\ receiver' = Waiting BY <2>7 DEF CheckEnds
    <3>2. receiver'.last = "shown" BY <3>1 DEF Waiting
    <3>3. gTwitCount = Len(List)
      <4>1. gTwitCount = IF gTwits = Null THEN 0 ELSE Len(heap[gTwits]) BY <2>0, <2>2 DEF ListInv
      <4>2. QED BY <4>1 DEF List
    <3>4. \A j \in DOMAIN List : j < receiver.i BY <2>0, <2>3, <3>1, <3>3 DEF ReceiverRecords
    <3>5. \A j \in DOMAIN List : List[j] # receiver.from BY <1>1, <2>0, <2>2, <3>4 DEF LoopInv
    <3>6. QED BY <2>2, <2>5, <3>2, <3>5
  <2>8. QED BY <2>1, <2>6, <2>7
<1>2. IInv /\ WishInv /\ ends \in Nat /\ [Next]_vars
      => [receiver.at = "loop" /\ receiver'.at = "idle" /\ ends' = ends /\ ~lost /\ ~unread
              /\ receiver.from \in Names \ Unsettled
            => (receiver'.last = "hidden" <=> receiver.from \in wanted)]_vars
  BY <1>1
<1>3. QED BY <1>2, WishInvariant, EndsCounted, PTL DEF Spec, TwitsHidden
-----------------------------------------------------------------------------
(* Nobody is in the file twice. *)

\* Unless a name was added while the list was not the file, both have each
\* name once, and what the file names is in the list when addTwit() looks.
OnceInv ==
    /\ ~twice => IsInjective(Lines) /\ IsInjective(List)
    /\ ~unread /\ user.at \in {"idle", "check", "done"} => ToSet(Lines) \subseteq Twits

LEMMA EmptyOnce == IsInjective(<<>>) /\ IsInjective(<<NoName>>)
<1>1. DOMAIN <<>> = {} /\ DOMAIN <<NoName>> = {1} OBVIOUS
<1>2. QED BY <1>1 DEF IsInjective

LEMMA AppendedEmpty ==
  ASSUME NEW l \in Seq(Names), IsInjective(l)
  PROVE  IsInjective(Append(l, NoName))
<1>1. l \in Seq(Names \cup {NoName}) OBVIOUS
<1>2. ToSet(l) \subseteq Names BY DEF ToSet
<1>3. NoName \notin ToSet(l) BY <1>2, Distinct
<1>4. QED BY <1>1, <1>3, AppendedOnce

LEMMA InitOnce == Init => OnceInv
<1> SUFFICES ASSUME Init PROVE OnceInv OBVIOUS
<1>1. file \in {Absent} \cup {<<n>> : n \in Names} /\ gTwits = Null /\ user = Entering
  BY DEF Init
<1>2. user.at = "load" BY <1>1, FixedRecords
<1>3. IsInjective(List) BY <1>1, EmptyOnce DEF List
<1>4. IsInjective(Lines)
  <2>1. \A n \in Names : DOMAIN <<n>> = {1} OBVIOUS
  <2>2. \A n \in Names : IsInjective(<<n>>) BY <2>1 DEF IsInjective
  <2>3. QED BY <1>1, <2>2, EmptyOnce DEF Lines
<1>5. QED BY <1>2, <1>3, <1>4 DEF OnceInv

\* What leaves file, list and failures does no harm, if the user's thread does
\* not get to where it looks.
LEMMA SameOnce ==
  ASSUME OnceInv, UNCHANGED <<file, heap, gTwits, unread, twice>>,
         user'.at \in {"idle", "check", "done"} => user.at \in {"idle", "check", "done"}
  PROVE  OnceInv'
<1>1. Lines' = Lines /\ List' = List /\ Twits' = Twits BY SameLists
<1>2. QED BY <1>1 DEF OnceInv

\* A step of the user's thread.
LEMMA UserKeepsOnce == IInv /\ WishInv /\ OnceInv /\ User => OnceInv'
<1> SUFFICES ASSUME IInv, WishInv, OnceInv, User PROVE OnceInv'
  OBVIOUS
<1>0. /\ user \in UserRecords /\ DataInv /\ PlaceInv /\ MemoryInv /\ ListInv
  BY DEF IInv, WishInv, RecordInv
<1>1. CASE LoadRead
  <2>1. UNCHANGED <<file, heap, gTwits, twice>> BY <1>1 DEF LoadRead, memory
  <2>2. \/ user'.at = "lock"
        \/ user'.at = "done" /\ unread' = (unread \/ file # Absent)
    BY <1>0, <1>1, UserGoes DEF LoadRead
  <2>3. Lines' = Lines /\ List' = List /\ Twits' = Twits BY <2>1, SameLists
  <2>4. ~unread' /\ user'.at \in {"idle", "check", "done"} => ToSet(Lines) = {}
    BY <1>0, <2>2, LinesAreNames
  <2>5. ToSet(Lines)' = ToSet(Lines) BY <2>3 DEF ToSet
  <2>6. QED BY <2>1, <2>3, <2>4, <2>5 DEF OnceInv
<1>2. CASE LoadLock
  <2>1. UNCHANGED <<file, heap, gTwits, unread, twice>> BY <1>2 DEF LoadLock, memory, history, failures
  <2>2. user'.at = "null" BY <1>0, <1>2, UserGoes DEF LoadLock
  <2>3. QED BY <2>1, <2>2, SameOnce
<1>3. CASE SplitNull
  <2>1. UNCHANGED <<file, unread, twice>> /\ gTwits' = Null BY <1>3 DEF SplitNull, failures
  <2>2. user'.at = "array" BY <1>0, <1>3, UserGoes DEF SplitNull
  <2>3. Lines' = Lines /\ List' = <<>> BY <2>1 DEF Lines, List
  <2>4. QED BY <2>1, <2>2, <2>3, EmptyOnce DEF OnceInv
<1>4. CASE SplitArray
  <2>1. UNCHANGED <<file, twice>> BY <1>4 DEF SplitArray
  <2>2. user'.at = "count" BY <1>0, <1>4, UserGoes DEF SplitArray
  <2>3. PICK b \in Blocks, read \in SUBSET DOMAIN Lines :
           heap' = [heap EXCEPT ![b] = Append(Entries(Lines, read), NoName)] /\ gTwits' = b
    BY <1>4 DEF SplitArray
  <2> DEFINE new == Entries(Lines, read)
  <2>4. Lines \in Seq(Names) BY <1>0, LinesAreNames
  <2>5. new \in Seq(Names) /\ (IsInjective(Lines) => IsInjective(new)) BY <2>4, LinesRead
  <2>6. List' = Append(new, NoName)
    <3>1. heap'[b] = Append(new, NoName) BY <1>0, <2>3 DEF DataInv
    <3>2. QED BY <2>3, <3>1, Distinct DEF List
  <2> HIDE DEF new
  <2>7. IsInjective(Lines) => IsInjective(Append(new, NoName)) BY <2>5, AppendedEmpty
  <2>8. Lines' = Lines BY <2>1 DEF Lines
  <2>9. QED BY <2>1, <2>2, <2>6, <2>7, <2>8 DEF OnceInv
<1>5. CASE SplitFails
  <2>1. UNCHANGED <<file, heap, gTwits, twice>> BY <1>5 DEF SplitFails, memory
  <2>2. user'.at = "count" BY <1>0, <1>5, UserGoes DEF SplitFails
  <2>3. Lines' = Lines /\ List' = List BY <2>1, SameLists
  <2>4. QED BY <2>1, <2>2, <2>3 DEF OnceInv
<1>6. CASE SplitCount
  <2>1. UNCHANGED <<file, heap, gTwits, unread, twice>> BY <1>6 DEF SplitCount, history, failures
  <2>2. user'.at \in {"remove", "free"} BY <1>0, <1>6, UserGoes DEF SplitCount
  <2>3. QED BY <2>1, <2>2, SameOnce
<1>7. CASE FreeOld
  <2>1. /\ UNCHANGED <<file, gTwits, unread, twice>> /\ user.at = "free"
        /\ heap' = [b \in Blocks |-> IF b = user.old THEN <<>> ELSE heap[b]]
    BY <1>7 DEF FreeOld, history, failures
  <2>2. user.cmd # "clear" /\ (gTwits # Null => gTwits \in Blocks /\ user.old # gTwits) BY <1>0, <2>1 DEF ListInv
  <2>3. List' = List BY <2>1, <2>2 DEF List
  <2>4. Lines' = Lines /\ Twits' = Twits BY <2>1, <2>3 DEF Lines, Twits
  <2>5. ~unread => ToSet(Lines) \subseteq Twits BY <1>0, <2>1, <2>2 DEF MemoryInv
  <2>6. QED BY <2>1, <2>3, <2>4, <2>5 DEF OnceInv
<1>8. CASE AddNothing
  <2>1. UNCHANGED <<file, heap, gTwits, unread, twice>> /\ user.at = "check"
    BY <1>8 DEF AddNothing, memory, history, failures
  <2>2. QED BY <2>1, SameOnce
<1>9. CASE AddAppend
  <2>1. /\ UNCHANGED <<heap, gTwits>> /\ user.at = "check" /\ file' = Append(Lines, user.name)
        /\ ~InList(user.name) /\ twice' = (twice \/ unread)
    BY <1>9 DEF AddAppend, memory
  <2>2. user'.at = "load" BY <1>0, <1>9, UserGoes DEF AddAppend
  <2>3. user.name \in Names /\ Lines \in Seq(Names) BY <1>0, <2>1, LinesAreNames DEF PlaceInv
  <2>4. List' = List BY <2>1 DEF List
  <2>5. ~twice' => IsInjective(Append(Lines, user.name))
    <3>1. ~unread => user.name \notin ToSet(Lines) BY <2>1 DEF OnceInv, InList, Twits
    <3>2. ~twice => IsInjective(Lines) BY DEF OnceInv
    <3>3. QED BY <2>1, <2>3, <3>1, <3>2, AppendedOnce
  <2>6. Lines' = Append(Lines, user.name)
    <3>1. Append(Lines, user.name) \in Seq(Names) BY <2>3
    <3>2. QED BY <2>1, <3>1, Distinct DEF Lines
  <2>7. ~twice' => IsInjective(List)' BY <2>1, <2>4 DEF OnceInv
  <2>8. ~twice' => IsInjective(Lines)' BY <2>5, <2>6
  <2>9. QED BY <2>2, <2>7, <2>8 DEF OnceInv
<1>10. CASE Rewrite
  <2>1. UNCHANGED <<heap, gTwits, twice>> /\ (file' = Without(List, user.name) \/ file' = file)
    BY <1>10 DEF Rewrite, memory
  <2>2. user'.at = "load" BY <1>0, <1>10, UserGoes DEF Rewrite
  <2>3. List \in Seq(Names \cup {NoName}) BY <1>0, ListIsNames
  <2>4. Without(List, user.name) \in Seq(Names) /\ (IsInjective(List) => IsInjective(Without(List, user.name)))
    BY <2>3, WithoutLines
  <2>5. List' = List BY <2>1 DEF List
  <2>6. Lines' = Lines \/ Lines' = Without(List, user.name) BY <2>1, <2>4, Distinct DEF Lines
  <2>7. QED BY <2>1, <2>2, <2>4, <2>5, <2>6 DEF OnceInv
<1>11. CASE ClearFile
  <2>1. /\ UNCHANGED <<heap, gTwits>> /\ user.at = "remove"
        /\ \/ file' = Absent
           \/ file' = file /\ unread' = TRUE /\ twice' = twice
    BY <1>11 DEF ClearFile, memory
  <2>2. user.cmd = "clear" BY <1>0, <2>1 DEF PlaceInv
  <2>3. List' = List /\ IsInjective(List)
    <3>1. List \in {<<>>, <<NoName>>} BY <1>0, <2>1, <2>2 DEF MemoryInv
    <3>2. QED BY <2>1, <3>1, EmptyOnce DEF List
  <2>4. CASE file' = Absent
    <3>1. Lines' = <<>> BY <2>4 DEF Lines
    <3>2. ToSet(Lines)' = {} BY <3>1, EmptyLines
    <3>3. QED BY <2>3, <3>1, <3>2, EmptyOnce DEF OnceInv
  <2>5. CASE file' = file /\ unread' = TRUE /\ twice' = twice
    <3>1. Lines' = Lines BY <2>5 DEF Lines
    <3>2. QED BY <2>3, <2>5, <3>1 DEF OnceInv
  <2>6. QED BY <2>1, <2>4, <2>5
<1>12. CASE Done
  <2>1. UNCHANGED <<file, heap, gTwits, unread, twice>> /\ user.at = "done"
    BY <1>12 DEF Done, memory, history, failures
  <2>2. QED BY <2>1, SameOnce
<1>13. QED BY <1>1, <1>2, <1>3, <1>4, <1>5, <1>6, <1>7, <1>8, <1>9, <1>10, <1>11, <1>12 DEF User

LEMMA NextKeepsOnce == IInv /\ WishInv /\ OnceInv /\ [Next]_vars => OnceInv'
<1> SUFFICES ASSUME IInv, WishInv, OnceInv, [Next]_vars PROVE OnceInv'
  OBVIOUS
<1>1. CASE User BY <1>1, UserKeepsOnce
<1>2. CASE Commands
  <2>1. user.at = "idle" /\ UNCHANGED <<heap, gTwits, unread, twice>>
    BY <1>2 DEF Commands, Reenter, ClearTwits, AddTwit, RemoveTwit, Command, memory, history, failures
  <2>2. CASE file' = file BY <2>1, <2>2, SameOnce
  <2>3. ASSUME NEW n \in Names, RemoveTwit(n), file' = Absent PROVE OnceInv'
    <3>1. Lines' = <<>> /\ List' = List BY <2>1, <2>3 DEF Lines, List
    <3>2. ToSet(Lines)' = {} BY <3>1, EmptyLines
    <3>3. QED BY <2>1, <3>1, <3>2, EmptyOnce DEF OnceInv
  <2>4. QED BY <1>2, <2>2, <2>3 DEF Commands, Reenter, ClearTwits, AddTwit, RemoveTwit
<1>3. CASE Check \/ \E from \in Names \cup {NoName} : Message(from)
  <2>1. UNCHANGED <<file, heap, gTwits, unread, twice, user>>
    BY <1>3 DEF Check, CheckLock, CheckNext, CheckFound, CheckEnds, CheckBad, Message, memory, history, failures
  <2>2. QED BY <2>1, SameOnce
<1>4. CASE SessionEnds
  <2>1. file' = file /\ twice' = twice /\ gTwits' = Null /\ user' = Entering BY <1>4 DEF SessionEnds
  <2>2. user'.at = "load" BY <2>1, FixedRecords
  <2>3. Lines' = Lines /\ List' = <<>> BY <2>1 DEF Lines, List
  <2>4. QED BY <2>1, <2>2, <2>3, EmptyOnce DEF OnceInv
<1>5. CASE UNCHANGED vars
  <2>1. UNCHANGED <<file, heap, gTwits, unread, twice, user>> BY <1>5 DEF vars, memory, history, failures
  <2>2. QED BY <2>1, SameOnce
<1>6. QED BY <1>1, <1>2, <1>3, <1>4, <1>5 DEF Next

(***************************************************************************)
(* gTwitFile names nobody twice, although addTwit() looks the name up in   *)
(* the list, which is loaded after the file was written and stays when     *)
(* there is no file, and although sessions end in between; unless a name   *)
(* was added after the file could not be read.                             *)
(***************************************************************************)
THEOREM NobodyIsTwice == Spec => []NobodyTwice
<1>1. OnceInv => NobodyTwice BY DEF OnceInv, NobodyTwice
<1>2. IInv /\ WishInv /\ OnceInv /\ [Next]_vars => OnceInv' BY NextKeepsOnce
<1>3. Spec => []OnceInv BY InitOnce, <1>2, WishInvariant, PTL DEF Spec
<1>4. QED BY <1>1, <1>3, PTL

-----------------------------------------------------------------------------
(* How long file and list are, and the types. *)

\* Every command may have added a line to the one at first, and an /twit add
\* at work has not yet.
Room == IF user.at = "check" THEN commands ELSE commands + 1

Upto(k)   == {l \in Seq(Names) : Len(l) <= k}
Filled(k) == {<<>>} \cup {Append(l, NoName) : l \in Upto(k)}

SizeInv ==
    /\ commands \in 0..MaxCommands /\ ends \in 0..MaxEnds
    /\ file \in Upto(Room) \cup {Absent}
    /\ heap \in [Blocks -> Filled(Room)]

CountInv ==
    /\ gTwitCount \in 0..MaxLines + 1
    /\ receiver.i \in 1..MaxLines + 2
    /\ dropped \subseteq Blocks /\ lock \in {"free", "user", "receiver"}

\* Longer lists have room for the shorter ones.
LEMMA MoreRoom ==
  ASSUME NEW k \in Nat, NEW m \in Nat, k <= m
  PROVE  Upto(k) \subseteq Upto(m) /\ Filled(k) \subseteq Filled(m)
<1>1. Upto(k) \subseteq Upto(m)
  <2>1. \A l \in Seq(Names) : Len(l) \in Nat OBVIOUS
  <2>2. QED BY <2>1 DEF Upto
<1>2. QED BY <1>1 DEF Filled

LEMMA EmptyRoom == ASSUME NEW k \in Nat PROVE <<>> \in Upto(k) /\ <<>> \in Filled(k)
  BY DEF Upto, Filled

LEMMA LinesRoom ==
  ASSUME SizeInv
  PROVE  Room \in Nat /\ Lines \in Upto(Room)
<1>1. Room \in Nat BY DEF SizeInv, Room
<1>2. QED BY <1>1, EmptyRoom DEF SizeInv, Lines

\* What does not touch the file and the blocks leaves them room.
LEMMA SameSize ==
  ASSUME SizeInv, UNCHANGED <<file, heap>>, commands' \in 0..MaxCommands, ends' \in 0..MaxEnds, Room <= Room'
  PROVE  SizeInv'
<1>1. Room \in Nat /\ Room' \in Nat
  <2>1. commands \in Nat /\ commands' \in Nat BY TwitsAssumption DEF SizeInv
  <2>2. Room \in {commands, commands + 1} BY DEF Room
  <2>3. Room' \in {commands', commands' + 1} BY DEF Room
  <2>4. QED BY <2>1, <2>2, <2>3
<1>2. Upto(Room) \subseteq Upto(Room') /\ Filled(Room) \subseteq Filled(Room') BY <1>1, MoreRoom
<1> DEFINE r == Room  s == Room'
<1>3. file' \in Upto(s) \cup {Absent} /\ heap' \in [Blocks -> Filled(s)]
  <2>1. file \in Upto(r) \cup {Absent} /\ heap \in [Blocks -> Filled(r)] BY DEF SizeInv
  <2>2. Upto(r) \subseteq Upto(s) /\ Filled(r) \subseteq Filled(s) BY <1>2
  <2> HIDE DEF r, s
  <2>3. QED BY <2>1, <2>2
<1>4. QED BY <1>3 DEF SizeInv

LEMMA InitSize == Init => SizeInv /\ CountInv
<1> SUFFICES ASSUME Init PROVE SizeInv /\ CountInv OBVIOUS
<1>1. /\ file \in {Absent} \cup {<<n>> : n \in Names} /\ heap = [b \in Blocks |-> <<>>]
      /\ user = Entering /\ receiver = Waiting /\ commands = 0 /\ ends = 0 /\ gTwitCount = 0
      /\ lock = "free" /\ dropped = {}
  BY DEF Init
<1>2. Room = 1
  <2>1. user.at = "load" BY <1>1, FixedRecords
  <2>2. QED BY <1>1, <2>1 DEF Room
<1>3. \A n \in Names : <<n>> \in Upto(1) BY DEF Upto
<1>4. heap \in [Blocks -> Filled(1)]
  <2>1. <<>> \in Filled(1) BY EmptyRoom
  <2>2. QED BY <1>1, <2>1
<1>5. receiver.i = 1 BY <1>1 DEF Waiting
<1>6. MaxLines \in Nat BY TwitsAssumption DEF MaxLines
<1>7. SizeInv BY <1>1, <1>2, <1>3, <1>4, TwitsAssumption DEF SizeInv
<1>8. CountInv BY <1>1, <1>5, <1>6 DEF CountInv
<1>9. QED BY <1>7, <1>8

\* The steps of the user's thread change file and blocks as follows.
LEMMA UserKeepsSize == IInv /\ WishInv /\ SizeInv /\ User => SizeInv'
<1> SUFFICES ASSUME IInv, WishInv, SizeInv, User PROVE SizeInv'
  OBVIOUS
<1>0. /\ user \in UserRecords /\ DataInv /\ PlaceInv /\ ListInv /\ commands \in Nat
      /\ UNCHANGED <<commands, ends>> /\ commands' \in 0..MaxCommands /\ ends' \in 0..MaxEnds
  <2>1. UNCHANGED <<commands, ends>>
    BY DEF User, LoadRead, LoadLock, SplitNull, SplitArray, SplitFails, SplitCount, FreeOld,
           AddNothing, AddAppend, Rewrite, ClearFile, Done, bounds
  <2>2. QED BY <2>1 DEF IInv, WishInv, RecordInv, SizeInv
<1>1. user'.at # "check"
  <2>1. Quiet.at = "idle" BY FixedRecords
  <2>2. QED BY <1>0, <2>1, UserGoes
            DEF User, LoadRead, LoadLock, SplitNull, SplitArray, SplitFails, SplitCount, FreeOld,
                AddNothing, AddAppend, Rewrite, ClearFile, Done
<1>2. /\ Room' = commands + 1 /\ Room <= Room' /\ Room \in Nat /\ Room' \in Nat
      /\ user.at # "check" => Room' = Room
      /\ user.at = "check" => Room' = Room + 1
  BY <1>0, <1>1 DEF Room
<1>3. CASE UNCHANGED <<file, heap>> BY <1>0, <1>2, <1>3, SameSize
<1>4. CASE SplitArray
  <2>1. file' = file /\ user.at = "array" BY <1>4 DEF SplitArray
  <2>2. PICK b \in Blocks, read \in SUBSET DOMAIN Lines :
           heap' = [heap EXCEPT ![b] = Append(Entries(Lines, read), NoName)]
    BY <1>4 DEF SplitArray
  <2> DEFINE new == Entries(Lines, read)
             k == Room
  <2>3. Lines \in Seq(Names) /\ Lines \in Upto(k) /\ k \in Nat BY <1>0, <1>2, LinesAreNames, LinesRoom
  <2>4. new \in Seq(Names) /\ Len(new) <= Len(Lines) BY <2>3, LinesRead
  <2>5. heap' = [heap EXCEPT ![b] = Append(new, NoName)] BY <2>2
  <2> HIDE DEF new
  <2>6. heap \in [Blocks -> Filled(k)] /\ file \in Upto(k) \cup {Absent} BY DEF SizeInv
  <2>7. Room' = k BY <1>2, <2>1
  <2> HIDE DEF k
  <2>8. new \in Upto(k)
    <3>1. Len(new) \in Nat /\ Len(Lines) \in Nat /\ Len(Lines) <= k BY <2>3, <2>4 DEF Upto
    <3>2. QED BY <2>3, <2>4, <3>1 DEF Upto
  <2>9. Append(new, NoName) \in Filled(k) BY <2>8 DEF Filled
  <2>10. heap' \in [Blocks -> Filled(k)] BY <2>5, <2>6, <2>9
  <2>11. QED BY <1>0, <2>1, <2>6, <2>7, <2>10 DEF SizeInv
<1>5. CASE FreeOld
  <2> DEFINE k == Room
  <2>1. /\ file' = file /\ user.at = "free"
        /\ heap' = [b \in Blocks |-> IF b = user.old THEN <<>> ELSE heap[b]]
    BY <1>5 DEF FreeOld
  <2>2. heap \in [Blocks -> Filled(k)] /\ file \in Upto(k) \cup {Absent} BY DEF SizeInv
  <2>3. Room' = k /\ k \in Nat BY <1>2, <2>1
  <2> HIDE DEF k
  <2>4. heap' \in [Blocks -> Filled(k)] BY <2>1, <2>2, <2>3, EmptyRoom
  <2>5. QED BY <1>0, <2>1, <2>2, <2>3, <2>4 DEF SizeInv
<1>6. CASE AddAppend
  <2> DEFINE k == Room
  <2>1. heap' = heap /\ user.at = "check" /\ file' = Append(Lines, user.name)
    BY <1>6 DEF AddAppend, memory
  <2>2. user.name \in Names BY <1>0, <2>1 DEF PlaceInv
  <2>3. Lines \in Upto(k) /\ heap \in [Blocks -> Filled(k)] BY LinesRoom DEF SizeInv
  <2>4. Room' = k + 1 /\ k \in Nat BY <1>2, <2>1
  <2> HIDE DEF k
  <2>5. Append(Lines, user.name) \in Upto(k + 1) BY <2>2, <2>3, <2>4 DEF Upto
  <2>6. Filled(k) \subseteq Filled(k + 1) BY <2>4, MoreRoom
  <2>7. heap' \in [Blocks -> Filled(k + 1)] BY <2>1, <2>3, <2>6
  <2>8. QED BY <1>0, <2>1, <2>4, <2>5, <2>7 DEF SizeInv
<1>7. CASE Rewrite
  <2> DEFINE k == Room
  <2>1. heap' = heap /\ user.at = "rewrite" /\ (file' = Without(List, user.name) \/ file' = file)
    BY <1>7 DEF Rewrite, memory
  <2>2. heap \in [Blocks -> Filled(k)] /\ file \in Upto(k) \cup {Absent} BY DEF SizeInv
  <2>3. Room' = k /\ k \in Nat BY <1>2, <2>1
  <2> HIDE DEF k
  <2>4. List \in Filled(k)
    <3>1. gTwits # Null => gTwits \in Blocks BY <1>0 DEF ListInv
    <3>2. QED BY <2>2, <2>3, <3>1, EmptyRoom DEF List
  <2>5. Without(List, user.name) \in Upto(k)
    <3>1. List \in Seq(Names \cup {NoName}) BY <1>0, ListIsNames
    <3>2. Without(List, user.name) \in Seq(Names) BY <3>1, WithoutLines
    <3>3. CASE List = <<>>
      <4>1. ToSet(List) = {} BY <3>3, EmptyLines
      <4>2. ToSet(Without(List, user.name)) = {} BY <3>1, <4>1, WithoutLines
      <4>3. Without(List, user.name) = <<>>
        <5> DEFINE w == Without(List, user.name)
        <5>1. w \in Seq(Names) /\ ToSet(w) = {} BY <3>2, <4>2
        <5> HIDE DEF w
        <5>2. DOMAIN w = {} BY <5>1 DEF ToSet
        <5>3. w = <<>> BY <5>1, <5>2
        <5>4. QED BY <5>3 DEF w
      <4>4. QED BY <2>3, <4>3, EmptyRoom
    <3>4. ASSUME NEW l \in Upto(k), List = Append(l, NoName) PROVE Without(List, user.name) \in Upto(k)
      <4>1. l \in Seq(Names) /\ Len(l) <= k /\ Len(l) \in Nat BY DEF Upto
      <4>2. Len(Without(List, user.name)) <= Len(l) BY <3>1, <3>4, <4>1, WithoutLines
      <4>3. Len(Without(List, user.name)) \in Nat BY <3>2
      <4>4. QED BY <2>3, <3>2, <4>1, <4>2, <4>3 DEF Upto
    <3>5. QED BY <2>4, <3>3, <3>4 DEF Filled
  <2>6. QED BY <1>0, <2>1, <2>2, <2>3, <2>5 DEF SizeInv
<1>8. CASE ClearFile
  <2> DEFINE k == Room
  <2>1. heap' = heap /\ user.at = "remove" /\ (file' = Absent \/ file' = file) BY <1>8 DEF ClearFile, memory
  <2>2. heap \in [Blocks -> Filled(k)] /\ file \in Upto(k) \cup {Absent} BY DEF SizeInv
  <2>3. Room' = k BY <1>2, <2>1
  <2> HIDE DEF k
  <2>4. QED BY <1>0, <2>1, <2>2, <2>3 DEF SizeInv
<1>9. QED
  BY <1>3, <1>4, <1>5, <1>6, <1>7, <1>8
  DEF User, LoadRead, LoadLock, SplitNull, SplitFails, SplitCount, AddNothing, Done, memory

LEMMA NextKeepsSize == IInv /\ WishInv /\ SizeInv /\ [Next]_vars => SizeInv'
<1> SUFFICES ASSUME IInv, WishInv, SizeInv, [Next]_vars PROVE SizeInv'
  OBVIOUS
<1>0. commands \in 0..MaxCommands /\ ends \in 0..MaxEnds /\ MaxCommands \in Nat /\ MaxEnds \in Nat
  BY TwitsAssumption DEF SizeInv
<1>1. CASE User BY <1>1, UserKeepsSize
<1>2. CASE Reenter
  <2>1. UNCHANGED <<file, heap, commands>> /\ user.at = "idle" /\ ends < MaxEnds /\ ends' = ends + 1
    BY <1>2 DEF Reenter, memory
  <2>2. user'.at = "load"
    <3>1. user' = [Entering EXCEPT !.cmd = "reenter"] BY <1>2 DEF Reenter
    <3>2. QED BY <3>1 DEF Entering, Quiet
  <2>3. Room <= Room' BY <1>0, <2>1, <2>2 DEF Room
  <2>4. ends' \in 0..MaxEnds /\ commands' \in 0..MaxCommands BY <1>0, <2>1
  <2>5. QED BY <2>1, <2>3, <2>4, SameSize
<1>3. ASSUME NEW cmd, NEW name, NEW at, Command(cmd, name, at), ends' = ends
      PROVE  Room <= Room' /\ commands' \in 0..MaxCommands /\ ends' \in 0..MaxEnds
  <2>1. commands < MaxCommands /\ commands' = commands + 1 /\ user.at = "idle" BY <1>3 DEF Command
  <2>2. Room = commands + 1 /\ Room' \in {commands + 1, commands + 2}
    <3>1. Room' \in {commands', commands' + 1} BY DEF Room
    <3>2. QED BY <1>0, <2>1, <3>1 DEF Room
  <2>3. commands' \in 0..MaxCommands BY <1>0, <2>1
  <2>4. QED BY <1>0, <1>3, <2>2, <2>3
<1>4. CASE ClearTwits
  <2>1. UNCHANGED <<file, heap, ends>> BY <1>4 DEF ClearTwits, memory
  <2>2. Room <= Room' /\ commands' \in 0..MaxCommands /\ ends' \in 0..MaxEnds BY <1>3, <1>4, <2>1 DEF ClearTwits
  <2>3. QED BY <2>1, <2>2, SameSize
<1>5. ASSUME NEW n \in Names, AddTwit(n) PROVE SizeInv'
  <2>1. UNCHANGED <<file, heap, ends>> BY <1>5 DEF AddTwit, memory
  <2>2. Room <= Room' /\ commands' \in 0..MaxCommands /\ ends' \in 0..MaxEnds BY <1>3, <1>5, <2>1 DEF AddTwit
  <2>3. QED BY <2>1, <2>2, SameSize
<1>6. ASSUME NEW n \in Names, RemoveTwit(n) PROVE SizeInv'
  <2>1. heap' = heap /\ ends' = ends /\ file' \in {Absent, file} BY <1>6 DEF RemoveTwit, memory
  <2>2. Room <= Room' /\ commands' \in 0..MaxCommands /\ ends' \in 0..MaxEnds BY <1>3, <1>6, <2>1 DEF RemoveTwit
  <2> DEFINE r == Room  s == Room'
  <2>3. r \in Nat /\ s \in Nat /\ r <= s
    <3>1. r \in {commands, commands + 1} BY DEF Room
    <3>2. s \in {commands', commands' + 1} BY DEF Room
    <3>3. commands \in Nat /\ commands' \in Nat BY <1>0, <2>2
    <3>4. QED BY <2>2, <3>1, <3>2, <3>3
  <2>4. file \in Upto(r) \cup {Absent} /\ heap \in [Blocks -> Filled(r)] BY DEF SizeInv
  <2> HIDE DEF r, s
  <2>5. Upto(r) \subseteq Upto(s) /\ Filled(r) \subseteq Filled(s) BY <2>3, MoreRoom
  <2>6. file' \in Upto(s) \cup {Absent} /\ heap' \in [Blocks -> Filled(s)] BY <2>1, <2>4, <2>5
  <2> USE DEF s
  <2>7. QED BY <2>2, <2>6 DEF SizeInv
<1>7. CASE Check \/ \E from \in Names \cup {NoName} : Message(from)
  <2>1. UNCHANGED <<file, heap, user, commands, ends>>
    BY <1>7 DEF Check, CheckLock, CheckNext, CheckFound, CheckEnds, CheckBad, Message, memory, bounds
  <2>2. QED BY <2>1 DEF SizeInv, Room
<1>8. CASE SessionEnds
  <2>1. /\ UNCHANGED <<file, commands>> /\ heap' = [b \in Blocks |-> <<>>] /\ user' = Entering
        /\ ends < MaxEnds /\ ends' = ends + 1
    BY <1>8 DEF SessionEnds
  <2>2. user'.at = "load" BY <2>1, FixedRecords
  <2> DEFINE r == Room  s == Room'
  <2>3. r \in Nat /\ s \in Nat /\ r <= s BY <1>0, <2>1, <2>2 DEF Room
  <2>4. file \in Upto(r) \cup {Absent} BY DEF SizeInv
  <2> HIDE DEF r, s
  <2>5. Upto(r) \subseteq Upto(s) /\ <<>> \in Filled(s) BY <2>3, MoreRoom, EmptyRoom
  <2>6. file' \in Upto(s) \cup {Absent} /\ heap' \in [Blocks -> Filled(s)] BY <2>1, <2>4, <2>5
  <2>7. ends' \in 0..MaxEnds /\ commands' \in 0..MaxCommands BY <1>0, <2>1
  <2> USE DEF s
  <2>8. QED BY <2>6, <2>7 DEF SizeInv
<1>9. CASE UNCHANGED vars BY <1>9 DEF vars, memory, bounds, SizeInv, Room
<1>10. QED BY <1>1, <1>2, <1>4, <1>5, <1>6, <1>7, <1>8, <1>9 DEF Next, Commands

\* The list is no longer than the lists it was made from.
LEMMA ListShort ==
  ASSUME SizeInv, ListInv
  PROVE  Len(List) \in 0..MaxLines + 1
<1> DEFINE k == Room
<1>0. k \in Nat /\ k <= MaxLines /\ MaxLines \in Nat BY TwitsAssumption DEF SizeInv, Room, MaxLines
<1>1. List \in Filled(k)
  <2>1. gTwits # Null => gTwits \in Blocks BY DEF ListInv
  <2>2. heap \in [Blocks -> Filled(k)] BY DEF SizeInv
  <2> HIDE DEF k
  <2>3. QED BY <1>0, <2>1, <2>2, EmptyRoom DEF List
<1> HIDE DEF k
<1>2. CASE List = <<>> BY <1>0, <1>2
<1>3. ASSUME NEW l \in Upto(k), List = Append(l, NoName) PROVE Len(List) \in 0..MaxLines + 1
  <2>1. l \in Seq(Names) /\ Len(l) \in Nat /\ Len(l) <= k BY DEF Upto
  <2>2. Len(List) = Len(l) + 1 BY <1>3, <2>1
  <2>3. QED BY <1>0, <2>1, <2>2
<1>4. QED BY <1>1, <1>2, <1>3 DEF Filled

LEMMA NextKeepsCount == IInv /\ SizeInv /\ CountInv /\ [Next]_vars => CountInv'
<1> SUFFICES ASSUME IInv, SizeInv, CountInv, [Next]_vars PROVE CountInv'
  OBVIOUS
<1> DEFINE C == MaxLines
<1>0. C \in Nat /\ receiver \in ReceiverRecords /\ ListInv
  BY TwitsAssumption DEF IInv, RecordInv, MaxLines
<1>1. /\ gTwitCount \in 0..C + 1 /\ receiver.i \in 1..C + 2
      /\ dropped \subseteq Blocks /\ lock \in {"free", "user", "receiver"}
  BY DEF CountInv
<1>2. Waiting.i = 1 /\ [Waiting EXCEPT !.last = "hidden"].i = 1 BY DEF Waiting
<1>3. C' = C BY DEF MaxLines
<1> HIDE DEF C
<1>4. CASE User
  <2>1. UNCHANGED receiver
    BY <1>4 DEF User, LoadRead, LoadLock, SplitNull, SplitArray, SplitFails, SplitCount, FreeOld,
                AddNothing, AddAppend, Rewrite, ClearFile, Done
  <2>2. lock' \in {"free", "user", "receiver"}
    BY <1>1, <1>4 DEF User, LoadRead, LoadLock, SplitNull, SplitArray, SplitFails, SplitCount, FreeOld,
                      AddNothing, AddAppend, Rewrite, ClearFile, Done
  <2>3. dropped' \subseteq Blocks
    <3>1. gTwits # Null => gTwits \in Blocks BY <1>0 DEF ListInv
    <3>2. QED BY <1>1, <1>4, <3>1
          DEF User, LoadRead, LoadLock, SplitNull, SplitArray, SplitFails, SplitCount, FreeOld,
              AddNothing, AddAppend, Rewrite, ClearFile, Done, history
  <2>4. gTwitCount' \in 0..C + 1
    <3>1. CASE SplitCount
      <4>1. Len(List) \in 0..MaxLines + 1 BY <1>0, ListShort
      <4>2. QED BY <3>1, <4>1 DEF SplitCount, C
    <3>2. CASE ~SplitCount
      BY <1>1, <1>4, <3>2 DEF User, LoadRead, LoadLock, SplitNull, SplitArray, SplitFails, FreeOld,
                              AddNothing, AddAppend, Rewrite, ClearFile, Done, memory
    <3>3. QED BY <3>1, <3>2
  <2>5. QED BY <1>1, <1>3, <2>1, <2>2, <2>3, <2>4 DEF CountInv, C
<1>5. CASE Commands
  BY <1>5 DEF Commands, Reenter, ClearTwits, AddTwit, RemoveTwit, memory, history, CountInv, MaxLines
<1>6. CASE Check \/ \E from \in Names \cup {NoName} : Message(from)
  <2>1. UNCHANGED <<gTwitCount, dropped>>
    BY <1>6 DEF Check, CheckLock, CheckNext, CheckFound, CheckEnds, CheckBad, Message, memory, history
  <2>2. lock' \in {"free", "user", "receiver"}
    BY <1>1, <1>6 DEF Check, CheckLock, CheckNext, CheckFound, CheckEnds, CheckBad, Message
  <2>3. receiver'.i \in 1..C + 2
    <3>1. CASE CheckLock
      <4>1. receiver'.i = 1 BY <1>0, <3>1 DEF CheckLock, ReceiverRecords
      <4>2. QED BY <1>0, <4>1
    <3>2. CASE CheckNext
      <4>1. receiver.i <= gTwitCount /\ receiver'.i = receiver.i + 1 BY <1>0, <3>2 DEF CheckNext, ReceiverRecords
      <4>2. QED BY <1>0, <1>1, <4>1
    <3>3. CASE CheckFound \/ CheckEnds
      <4>1. receiver'.i = 1 BY <1>2, <3>3 DEF CheckFound, CheckEnds
      <4>2. QED BY <1>0, <4>1
    <3>4. CASE CheckBad \/ \E from \in Names \cup {NoName} : Message(from)
      <4>1. receiver'.i = receiver.i BY <1>0, <3>4 DEF CheckBad, Message, ReceiverRecords
      <4>2. QED BY <1>1, <4>1
    <3>5. QED BY <1>6, <3>1, <3>2, <3>3, <3>4 DEF Check
  <2>4. QED BY <1>1, <1>3, <2>1, <2>2, <2>3 DEF CountInv, C
<1>7. CASE SessionEnds
  <2>1. gTwitCount' = 0 /\ lock' = "free" /\ receiver' = Waiting /\ dropped' = {}
    BY <1>7 DEF SessionEnds
  <2>2. gTwitCount' \in 0..C + 1 /\ receiver'.i \in 1..C + 2 BY <1>0, <1>2, <2>1
  <2>3. QED BY <1>1, <1>3, <2>1, <2>2 DEF CountInv, C
<1>8. CASE UNCHANGED vars BY <1>8 DEF vars, memory, history, CountInv, MaxLines
<1>9. QED BY <1>4, <1>5, <1>6, <1>7, <1>8 DEF Next

(***************************************************************************)
(* The variables keep their types: file and list grow by one line for each *)
(* command at most, and checkTwit() never looks further than one behind    *)
(* the end.                                                                *)
(***************************************************************************)
THEOREM TypeCorrect == Spec => []TypeOK
<1>1. IInv /\ WishInv /\ SizeInv /\ CountInv => TypeOK
  <2> SUFFICES ASSUME IInv, WishInv, SizeInv, CountInv PROVE TypeOK OBVIOUS
  <2>1. Upto(Room) \subseteq Lists
    <3>1. Room \in Nat /\ Room <= MaxLines /\ MaxLines \in Nat BY TwitsAssumption DEF SizeInv, Room, MaxLines
    <3>2. ASSUME NEW l \in Upto(Room) PROVE l \in Lists
      <4>1. l \in [1..Len(l) -> Names] /\ Len(l) \in Nat /\ Len(l) <= Room BY <3>1 DEF Upto
      <4>2. Len(l) \in 0..MaxLines BY <3>1, <4>1
      <4>3. QED BY <4>1, <4>2 DEF Lists
    <3>3. QED BY <3>2
  <2>2. file \in Lists \cup {Absent} BY <2>1 DEF SizeInv
  <2>3. heap \in [Blocks -> {<<>>} \cup {Append(l, NoName) : l \in Lists}]
    <3>1. Filled(Room) \subseteq {<<>>} \cup {Append(l, NoName) : l \in Lists} BY <2>1 DEF Filled
    <3> DEFINE a == Filled(Room)  b == {<<>>} \cup {Append(l, NoName) : l \in Lists}
    <3>2. heap \in [Blocks -> a] /\ a \subseteq b BY <3>1 DEF SizeInv
    <3> HIDE DEF a, b
    <3>3. heap \in [Blocks -> b] BY <3>2
    <3>4. QED BY <3>3 DEF b
  <2>4. user \in UserRecords /\ live \subseteq Blocks /\ gTwits \in Blocks \cup {Null}
    BY DEF IInv, RecordInv, ListInv
  <2>5. receiver \in [at : {"idle", "lock", "loop", "bad"}, from : Names \cup {NoName},
                     i : 1..MaxLines + 2, last : {"shown", "hidden"}]
    BY DEF IInv, RecordInv, ReceiverRecords, CountInv
  <2>6. wanted \subseteq Names /\ {lost, unread, twice} \subseteq BOOLEAN BY DEF WishInv, DataInv
  <2>7. QED BY <2>2, <2>3, <2>4, <2>5, <2>6 DEF TypeOK, SizeInv, CountInv, UserRecords
<1>2. IInv /\ WishInv /\ SizeInv /\ [Next]_vars => SizeInv' BY NextKeepsSize
<1>3. Spec => []SizeInv BY InitSize, <1>2, WishInvariant, PTL DEF Spec
<1>4. IInv /\ SizeInv /\ CountInv /\ [Next]_vars => CountInv' BY NextKeepsCount
<1>5. Spec => []CountInv BY InitSize, <1>3, <1>4, WishInvariant, PTL DEF Spec
<1>6. QED BY <1>1, <1>3, <1>5, WishInvariant, PTL
=============================================================================
