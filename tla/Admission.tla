----------------------------- MODULE Admission -----------------------------
(***************************************************************************)
(* What the bridge promises to the chat clients that connect to it: each   *)
(* of them is given a seat that nobody else holds, or is turned away, and  *)
(* it is turned away only with an excuse (no seat was free when its turn   *)
(* came, or the bridge ran out of memory).  BridgeSlots implements this    *)
(* with a table that several threads change one field at a time.           *)
(***************************************************************************)
CONSTANTS
    Conns,      \* the connections that may ever ask for a seat
    Seats,      \* the seats
    NoConn,     \* not a connection
    NoSeat      \* not a seat

VARIABLES
    asking,     \* the connection whose turn it is, or NoConn
    excuse,     \* may the connection that asks be turned away?
    seat,       \* the seat of every connection, or NoSeat
    refused     \* the connections that were turned away

vars == <<asking, excuse, seat, refused>>

Taken(s) == \E c \in Conns : seat[c] = s

Init ==
    /\ asking = NoConn
    /\ excuse = FALSE
    /\ seat = [c \in Conns |-> NoSeat]
    /\ refused = {}

Ask(c) ==
    /\ asking = NoConn
    /\ seat[c] = NoSeat
    /\ c \notin refused
    /\ asking' = c
    /\ excuse' = \A s \in Seats : Taken(s)
    /\ UNCHANGED <<seat, refused>>

Sit(c, s) ==
    /\ asking = c
    /\ ~Taken(s)
    /\ asking' = NoConn
    /\ seat' = [seat EXCEPT ![c] = s]
    /\ UNCHANGED <<excuse, refused>>

\* No memory for the session: the seat is taken back.
Eject(c) ==
    /\ asking = NoConn
    /\ seat[c] # NoSeat
    /\ asking' = c
    /\ excuse' = TRUE
    /\ seat' = [seat EXCEPT ![c] = NoSeat]
    /\ UNCHANGED refused

Refuse(c) ==
    /\ asking = c
    /\ excuse
    /\ asking' = NoConn
    /\ refused' = refused \cup {c}
    /\ UNCHANGED <<excuse, seat>>

Leave(c) ==
    /\ seat[c] # NoSeat
    /\ seat' = [seat EXCEPT ![c] = NoSeat]
    /\ UNCHANGED <<asking, excuse, refused>>

Next ==
    \E c \in Conns :
        \/ Ask(c)
        \/ \E s \in Seats : Sit(c, s)
        \/ Eject(c)
        \/ Refuse(c)
        \/ Leave(c)

Spec == Init /\ [][Next]_vars
=============================================================================
