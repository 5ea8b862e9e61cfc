--------------------------- MODULE MCClientSession --------------------------
(* A small instance of ClientSession: two rooms besides the first, and     *)
(* three names.  One of the names is too long for the bridge's buffer and  *)
(* one of the rooms for the client's; the cut form of each is there too.   *)
EXTENDS ClientSession
CONSTANTS Long, Cut, LongRoom, CutRoom
MCKept == [n \in Nicks |-> IF n = Long THEN Cut ELSE n]
MCKeptRoom == [r \in Rooms |-> IF r = LongRoom THEN CutRoom ELSE r]
=============================================================================
