----------------------------- MODULE BridgeHost -----------------------------
(***************************************************************************)
(* The bridge's connection to the MRC host: the retry loop of main, one    *)
(* call of mrcHostProcess per attempt, what processPacket does for HELLO   *)
(* and GOODBYE, and the client threads, which write to the host through    *)
(* the same globals without a lock (sendHostPacket, sendMsgPacket).        *)
(*                                                                         *)
(* A step of the main thread ends where it has written a global that a     *)
(* client thread reads: usingSSL, mrcHostSsl, mrcHostSock.  A client       *)
(* thread reads usingSSL, then the SSL object's pointer, and then writes.  *)
(***************************************************************************)
EXTENDS Integers

CONSTANTS
    UseSSL,         \* cfg.ssl
    RetryLimits,    \* the values of the -R option; 0 is "without limit"
    Senders,        \* client threads that have a packet for the host
    MaxAddrs        \* bound: addresses getaddrinfo returns

FirstTries == 10    \* attempts before the first connection (bridge.c:1261)

ASSUME HostAssumption ==
    UseSSL \in BOOLEAN /\ RetryLimits \subseteq Nat /\ MaxAddrs \in Nat \ {0}

VARIABLES
    maxRetries,         \* of main, from its arguments
    pc,                 \* where the main thread is
    addrsLeft,          \* addresses not tried yet in this call
    gConnectionIsDown, gReconnect, gHasConnected, gRetry,
    usingSSL,
    mrcHostSsl,         \* the SSL object the pointer points to
    mrcHostSock,        \* "stale": closed, its number not forgotten
    hello,              \* HELLO was received on this connection
    peerClosed,         \* the host has closed its end
    sender,             \* where a client thread is in sendHostPacket
    path, ptr,          \* ... what it read of usingSSL and of mrcHostSsl
    crashed,            \* the process has been killed
    attempts,           \* history: attempts since the last connection
    steady              \* history: senders that began while the connection
                        \* was up, and it has been up since

mainVars == <<pc, addrsLeft, hello, attempts>>
flagVars == <<gConnectionIsDown, gReconnect, gHasConnected, gRetry>>
sslVars  == <<usingSSL, mrcHostSsl>>
sendVars == <<sender, path, ptr, steady>>
vars == <<maxRetries, mainVars, flagVars, sslVars, mrcHostSock, peerClosed,
          sendVars, crashed>>

\* gRetry and the history of attempts are only compared with smaller numbers.
CountCap == FirstTries + maxRetries + 1

Count(n) == IF n < CountCap THEN n + 1 ELSE n

Init ==
    /\ maxRetries \in RetryLimits
    /\ pc = "retry" /\ addrsLeft = 0 /\ hello = FALSE /\ attempts = 0
    /\ gConnectionIsDown = TRUE /\ gReconnect = FALSE
    /\ gHasConnected = FALSE /\ gRetry = 0
    /\ usingSSL = FALSE /\ mrcHostSsl = "NULL"
    /\ mrcHostSock = "INVALID_SOCKET" /\ peerClosed = FALSE
    /\ sender = [t \in Senders |-> "idle"]
    /\ path = [t \in Senders |-> FALSE]
    /\ ptr = [t \in Senders |-> "NULL"]
    /\ steady = {}
    /\ crashed = FALSE

-----------------------------------------------------------------------------
(* main: the loop around mrcHostProcess.                                   *)

\* Mutant: one attempt too many before the first connection.
MayTryOnceMore == IF gHasConnected THEN maxRetries > 0 => gRetry < maxRetries
                                   ELSE gRetry <= FirstTries

\* Mutant: no limit is taken for a limit of none.
MayTryZero == gRetry < (IF gHasConnected THEN maxRetries ELSE FirstTries)

MayTry == IF gHasConnected THEN maxRetries > 0 => gRetry < maxRetries
                           ELSE gRetry < FirstTries

\* mrcHostProcess begins: usingSSL is reset ...
Try ==
    /\ pc = "retry" /\ MayTry
    /\ usingSSL' = FALSE
    /\ attempts' = Count(attempts)
    /\ pc' = "reset"
    /\ UNCHANGED <<addrsLeft, hello, flagVars, mrcHostSsl, mrcHostSock>>
    /\ UNCHANGED <<peerClosed, sendVars>>

GiveUp ==
    /\ pc = "retry" /\ ~MayTry
    /\ pc' = "exit"
    /\ UNCHANGED <<addrsLeft, hello, attempts, flagVars, sslVars, mrcHostSock>>
    /\ UNCHANGED <<peerClosed, sendVars>>

\* ... and so is the SSL object; one that is still there is leaked.
ResetSsl ==
    /\ pc = "reset"
    /\ mrcHostSsl' = "NULL"
    /\ pc' = "resolve"
    /\ UNCHANGED <<addrsLeft, hello, attempts, flagVars, usingSSL, mrcHostSock>>
    /\ UNCHANGED <<peerClosed, sendVars>>

Sleep ==
    /\ pc = "sleep"
    /\ gRetry' = Count(gRetry)
    /\ pc' = "retry"
    /\ UNCHANGED <<addrsLeft, hello, attempts, gConnectionIsDown, gReconnect>>
    /\ UNCHANGED <<gHasConnected, sslVars, mrcHostSock>>
    /\ UNCHANGED <<peerClosed, sendVars>>

-----------------------------------------------------------------------------
(* mrcHostProcess: getting connected.                                      *)

ConnUnchanged ==
    UNCHANGED <<hello, attempts, flagVars, peerClosed, sendVars>>

ResolveOk ==
    /\ pc = "resolve"
    /\ addrsLeft' \in 1 .. MaxAddrs
    /\ pc' = "socket"
    /\ UNCHANGED <<sslVars, mrcHostSock>> /\ ConnUnchanged

ResolveFails ==
    /\ pc = "resolve"
    /\ pc' = "sleep"
    /\ UNCHANGED <<addrsLeft, sslVars, mrcHostSock>> /\ ConnUnchanged

SocketOk ==
    /\ pc = "socket"
    /\ mrcHostSock' = "unconnected"
    /\ pc' = "connect"
    /\ UNCHANGED <<addrsLeft, sslVars>> /\ ConnUnchanged

SocketFails ==
    /\ pc = "socket"
    /\ mrcHostSock' = "INVALID_SOCKET"
    /\ pc' = "sleep"
    /\ UNCHANGED <<addrsLeft, sslVars>> /\ ConnUnchanged

ConnectOk ==
    /\ pc = "connect"
    /\ mrcHostSock' = "open"
    /\ peerClosed' = FALSE
    /\ hello' = FALSE
    /\ pc' = IF UseSSL THEN "tls" ELSE "greet"
    /\ UNCHANGED <<addrsLeft, attempts, flagVars, sslVars, sendVars>>

\* The next address, or "Unable to connect to server!".
ConnectFails ==
    /\ pc = "connect"
    /\ mrcHostSock' = "INVALID_SOCKET"
    /\ addrsLeft' = addrsLeft - 1
    /\ pc' = IF addrsLeft > 1 THEN "socket" ELSE "sleep"
    /\ UNCHANGED sslVars /\ ConnUnchanged

TlsOk ==
    /\ pc = "tls"
    /\ mrcHostSsl' = "live"
    /\ pc' = "setFlag"
    /\ UNCHANGED <<addrsLeft, usingSSL, mrcHostSock>> /\ ConnUnchanged

\* Mutant: the flag is not set.
SetUsingSSLForgotten ==
    /\ pc = "setFlag"
    /\ pc' = "greet"
    /\ UNCHANGED <<addrsLeft, usingSSL, mrcHostSsl, mrcHostSock>> /\ ConnUnchanged

SetUsingSSL ==
    /\ pc = "setFlag"
    /\ usingSSL' = TRUE
    /\ pc' = "greet"
    /\ UNCHANGED <<addrsLeft, mrcHostSsl, mrcHostSock>> /\ ConnUnchanged

TlsFails ==
    /\ pc = "tls"
    /\ mrcHostSock' = "INVALID_SOCKET"
    /\ pc' = "sleep"
    /\ UNCHANGED <<addrsLeft, sslVars>> /\ ConnUnchanged

\* The handshake line is sent: the connection is up.
GreetOk ==
    /\ pc = "greet"
    /\ gConnectionIsDown' = FALSE
    /\ gHasConnected' = TRUE
    /\ gRetry' = 0
    /\ attempts' = 0
    /\ pc' = "recv"
    /\ UNCHANGED <<addrsLeft, hello, gReconnect, sslVars, mrcHostSock>>
    /\ UNCHANGED <<peerClosed, sendVars>>

\* It is not: the socket is closed, the SSL object is kept.
GreetFails ==
    /\ pc = "greet"
    /\ mrcHostSock' = "stale"
    /\ pc' = "sleep"
    /\ UNCHANGED <<addrsLeft, sslVars>> /\ ConnUnchanged

-----------------------------------------------------------------------------
(* mrcHostProcess: receiving, and what processPacket makes of it.  What    *)
(* the host has sent is read even when it has closed its end since.        *)

\* The INFO packets are sent and, after a reconnect, the local clients told.
RecvHello ==
    /\ pc = "recv" /\ ~gConnectionIsDown
    /\ ~hello
    /\ hello' = TRUE
    /\ gReconnect' = FALSE
    /\ UNCHANGED <<pc, addrsLeft, attempts, gConnectionIsDown, gHasConnected>>
    /\ UNCHANGED <<gRetry, sslVars, mrcHostSock, peerClosed, sendVars>>

\* "Server is closing the connection."
RecvGoodbye ==
    /\ pc = "recv" /\ ~gConnectionIsDown
    /\ gConnectionIsDown' = TRUE
    /\ steady' = {}
    /\ UNCHANGED <<mainVars, gReconnect, gHasConnected, gRetry, sslVars>>
    /\ UNCHANGED <<mrcHostSock, peerClosed, sender, path, ptr>>

\* Mutant: the connection is not marked as down.
RecvEndsUp ==
    /\ pc = "recv" /\ ~gConnectionIsDown
    /\ gReconnect' = TRUE
    /\ peerClosed' = TRUE
    /\ pc' = "close"
    /\ UNCHANGED <<addrsLeft, hello, attempts, gConnectionIsDown, gHasConnected, gRetry>>
    /\ UNCHANGED <<sslVars, mrcHostSock, sendVars>>

\* recv returns 0 or an error.
RecvEnds ==
    /\ pc = "recv" /\ ~gConnectionIsDown
    /\ gReconnect' = TRUE
    /\ gConnectionIsDown' = TRUE
    /\ steady' = {}
    /\ peerClosed' = TRUE
    /\ pc' = "close"
    /\ UNCHANGED <<addrsLeft, hello, attempts, gHasConnected, gRetry, sslVars>>
    /\ UNCHANGED <<mrcHostSock, sender, path, ptr>>

\* GOODBYE has set gConnectionIsDown: the loop ends.
LeaveLoop ==
    /\ pc = "recv" /\ gConnectionIsDown
    /\ pc' = "close"
    /\ UNCHANGED <<addrsLeft, sslVars, mrcHostSock>> /\ ConnUnchanged

\* shutdown and closesocket; mrcHostSock keeps the number.
Close ==
    /\ pc = "close"
    /\ mrcHostSock' = "stale"
    /\ pc' = IF usingSSL THEN "freeSsl" ELSE "sleep"
    /\ UNCHANGED <<addrsLeft, sslVars>> /\ ConnUnchanged

\* SSL_free: whoever has read the pointer now points to freed memory.
FreeSsl ==
    /\ pc = "freeSsl"
    /\ mrcHostSsl' = "freed"
    /\ ptr' = [t \in Senders |-> IF ptr[t] = "live" THEN "freed" ELSE ptr[t]]
    /\ pc' = "nullSsl"
    /\ UNCHANGED <<addrsLeft, hello, attempts, flagVars, usingSSL, mrcHostSock>>
    /\ UNCHANGED <<peerClosed, sender, path, steady>>

NullSsl ==
    /\ pc = "nullSsl"
    /\ mrcHostSsl' = "NULL"
    /\ pc' = "clearFlag"
    /\ UNCHANGED <<addrsLeft, usingSSL, mrcHostSock>> /\ ConnUnchanged

ClearUsingSSL ==
    /\ pc = "clearFlag"
    /\ usingSSL' = FALSE
    /\ pc' = "sleep"
    /\ UNCHANGED <<addrsLeft, mrcHostSsl, mrcHostSock>> /\ ConnUnchanged

-----------------------------------------------------------------------------
(* The host, and the client threads.                                       *)

\* The host goes away before the bridge's recv has returned.
HostCloses ==
    /\ mrcHostSock = "open" /\ ~peerClosed
    /\ peerClosed' = TRUE
    /\ UNCHANGED <<mainVars, flagVars, sslVars, mrcHostSock, sendVars>>

ReadUsingSSL(t) ==
    /\ sender[t] = "idle"
    /\ gHasConnected        \* waitProcess admits nobody before
    /\ path' = [path EXCEPT ![t] = usingSSL]
    /\ sender' = [sender EXCEPT ![t] = IF usingSSL THEN "pointer" ELSE "write"]
    /\ steady' = IF gConnectionIsDown THEN steady \ {t} ELSE steady \cup {t}
    /\ UNCHANGED <<mainVars, flagVars, sslVars, mrcHostSock, peerClosed>>
    /\ UNCHANGED ptr

ReadPointer(t) ==
    /\ sender[t] = "pointer"
    /\ ptr' = [ptr EXCEPT ![t] = mrcHostSsl]
    /\ sender' = [sender EXCEPT ![t] = "write"]
    /\ UNCHANGED <<mainVars, flagVars, sslVars, mrcHostSock, peerClosed>>
    /\ UNCHANGED <<path, steady>>

SenderDone(t) ==
    /\ sender' = [sender EXCEPT ![t] = "idle"]
    /\ path' = [path EXCEPT ![t] = FALSE]
    /\ ptr' = [ptr EXCEPT ![t] = "NULL"]
    /\ steady' = steady \ {t}
    /\ UNCHANGED <<mainVars, flagVars, sslVars, mrcHostSock, peerClosed>>

\* The packet leaves ...
Write(t) ==
    /\ sender[t] = "write"
    /\ SenderDone(t)

\* ... or it does not, and the error is reported: the message looks at
\* usingSSL and at the SSL object once more.
WriteFails(t) ==
    /\ sender[t] = "write"
    /\ sender' = [sender EXCEPT ![t] = "report"]
    /\ UNCHANGED <<mainVars, flagVars, sslVars, mrcHostSock, peerClosed>>
    /\ UNCHANGED <<path, ptr, steady>>

Report(t) ==
    /\ sender[t] = "report"
    /\ SenderDone(t)

\* A write to a socket that is not connected yet or that the peer has closed
\* raises SIGPIPE, which nothing in the bridge handles.
BrokenPipe ==
    mrcHostSock = "unconnected" \/ (mrcHostSock = "open" /\ peerClosed)

\* SSL_write through a pointer to nothing, or a broken pipe: the process may
\* die of it.
WriteKills(t) ==
    /\ sender[t] = "write"
    /\ \/ path[t] /\ ptr[t] # "live"
       \/ BrokenPipe
    /\ crashed' = TRUE
    /\ SenderDone(t)

\* So may SSL_get_error, asked about an object that is gone by now.
ReportKills(t) ==
    /\ sender[t] = "report"
    /\ usingSSL /\ mrcHostSsl # "live"
    /\ crashed' = TRUE
    /\ SenderDone(t)

\* So may the main thread's own writes: the handshake, and the answers to
\* HELLO and PING.
AnswerKills ==
    /\ pc = "greet" \/ (pc = "recv" /\ ~gConnectionIsDown)
    /\ BrokenPipe
    /\ crashed' = TRUE
    /\ UNCHANGED <<mainVars, flagVars, sslVars, mrcHostSock, peerClosed>>
    /\ UNCHANGED sendVars

-----------------------------------------------------------------------------
GetConnected ==
    \/ Try \/ GiveUp \/ ResetSsl \/ Sleep
    \/ ResolveOk \/ ResolveFails \/ SocketOk \/ SocketFails
    \/ ConnectOk \/ ConnectFails \/ TlsOk \/ SetUsingSSL \/ TlsFails
    \/ GreetOk \/ GreetFails

Receive == RecvHello \/ RecvGoodbye \/ RecvEnds

Disconnect == LeaveLoop \/ Close \/ FreeSsl \/ NullSsl \/ ClearUsingSSL

Sending ==
    \E t \in Senders :
        ReadUsingSSL(t) \/ ReadPointer(t) \/ Write(t) \/ WriteFails(t) \/ Report(t)

Next ==
    /\ ~crashed
    /\ UNCHANGED maxRetries
    /\ \/ /\ GetConnected \/ Receive \/ Disconnect \/ HostCloses \/ Sending
          /\ UNCHANGED crashed
       \/ AnswerKills
       \/ \E t \in Senders : WriteKills(t) \/ ReportKills(t)

Spec == Init /\ [][Next]_vars

\* The main thread runs unless it waits for the host; an attempt that is
\* made again and again succeeds some time.
Fairness ==
    /\ WF_vars(~crashed /\ UNCHANGED <<crashed, maxRetries>> /\ (GetConnected \/ Disconnect))
    /\ SF_vars(~crashed /\ UNCHANGED <<crashed, maxRetries>> /\ ResolveOk)
    /\ SF_vars(~crashed /\ UNCHANGED <<crashed, maxRetries>> /\ SocketOk)
    /\ SF_vars(~crashed /\ UNCHANGED <<crashed, maxRetries>> /\ ConnectOk)
    /\ SF_vars(~crashed /\ UNCHANGED <<crashed, maxRetries>> /\ TlsOk)
    /\ SF_vars(~crashed /\ UNCHANGED <<crashed, maxRetries>> /\ GreetOk)

FairSpec == Spec /\ Fairness

-----------------------------------------------------------------------------
(* Properties.                                                             *)

TypeOK ==
    /\ pc \in {"retry", "reset", "resolve", "socket", "connect", "tls",
               "setFlag", "greet", "recv", "close", "freeSsl", "nullSsl",
               "clearFlag", "sleep", "exit"}
    /\ addrsLeft \in 0 .. MaxAddrs
    /\ hello \in BOOLEAN /\ attempts \in 0 .. CountCap
    /\ gConnectionIsDown \in BOOLEAN /\ gReconnect \in BOOLEAN
    /\ gHasConnected \in BOOLEAN /\ gRetry \in 0 .. CountCap
    /\ usingSSL \in BOOLEAN /\ mrcHostSsl \in {"NULL", "live", "freed"}
    /\ mrcHostSock \in {"INVALID_SOCKET", "unconnected", "open", "stale"}
    /\ peerClosed \in BOOLEAN
    /\ sender \in [Senders -> {"idle", "pointer", "write", "report"}]
    /\ path \in [Senders -> BOOLEAN]
    /\ ptr \in [Senders -> {"NULL", "live", "freed"}]
    /\ steady \subseteq Senders
    /\ crashed \in BOOLEAN
    /\ maxRetries \in RetryLimits

\* While the connection counts as up, everything a sender may read is in
\* order: the socket is open, usingSSL says what the configuration says and
\* the SSL object is alive.  (bridge.c:887-1002 and 1129-1152)
UpMeansUsable ==
    ~gConnectionIsDown =>
        /\ gHasConnected
        /\ mrcHostSock = "open"
        /\ usingSSL = UseSSL
        /\ UseSSL => mrcHostSsl = "live"

\* A packet whose sending begins while the connection is up, and stays up,
\* takes the configured way to an open socket and a live SSL object.
SteadySendsReach ==
    \A t \in steady :
        sender[t] = "write" => /\ path[t] = UseSSL
                               /\ mrcHostSock = "open"
                               /\ UseSSL => ptr[t] = "live"

\* Without a first connection the bridge makes ten attempts, and stops.
\* (bridge.c:1259-1261)
FirstTriesExact ==
    /\ ~gHasConnected => attempts <= FirstTries
    /\ pc = "exit" /\ ~gHasConnected => attempts = FirstTries

\* With the option -Rx the bridge gives up after exactly x - 1 attempts to
\* reconnect, however they fail: gRetry counts the sleep after the connection
\* that was lost as well.  (bridge.c:1261-1264)
RetriesExact ==
    maxRetries > 0 /\ gHasConnected =>
        /\ attempts < maxRetries
        /\ pc = "exit" => attempts = maxRetries - 1

\* Without a limit a lost connection is replaced in the end.
Reconnects ==
    maxRetries = 0 /\ gHasConnected /\ gConnectionIsDown ~> ~gConnectionIsDown \/ crashed
=============================================================================
