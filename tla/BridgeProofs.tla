---------------------------- MODULE BridgeProofs ----------------------------
(***************************************************************************)
(* Proofs about the bridge's two ends.                                     *)
(*                                                                         *)
(* The connection to the MRC host, for every number of client threads, of  *)
(* retries and of addresses, with and without TLS: what the code is meant  *)
(* to keep while the connection is up holds because of where the main      *)
(* thread is.  PhaseInv ties the globals to pc, SteadyInv the client       *)
(* threads to the globals, and CountInv the history of attempts to gRetry. *)
(*                                                                         *)
(* A client's stream, for every number of packets: WireInv says which part *)
(* of it is unread, LogoffInv where its LOGOFF is, and AlignedAt what the  *)
(* thread knows after so many packets, each in a read of its own.          *)
(***************************************************************************)
EXTENDS BridgeHost, BridgeInbound, FiniteSetTheorems, TLAPS

Usable ==
    /\ gHasConnected
    /\ mrcHostSock = "open"
    /\ usingSSL = UseSSL
    /\ UseSSL => mrcHostSsl = "live"

\* The globals, as the main thread has left them on its way.
PhaseInv ==
    /\ ~gConnectionIsDown => pc = "recv"
    /\ pc = "recv" => Usable
    /\ pc = "greet" => /\ mrcHostSock = "open"
                       /\ usingSSL = UseSSL
                       /\ UseSSL => mrcHostSsl = "live"
    /\ pc \in {"tls", "setFlag"} => UseSSL /\ mrcHostSock = "open"
    /\ pc = "setFlag" => mrcHostSsl = "live"
    /\ pc \in {"reset", "resolve", "socket", "connect"} => ~usingSSL
    /\ pc \in {"socket", "connect"} => addrsLeft >= 1

\* A steady sender exists only while the connection is up, and has read what
\* Usable says.
SteadyInv ==
    /\ steady # {} => ~gConnectionIsDown
    /\ \A t \in steady :
           /\ sender[t] = "pointer" => path[t] = UseSSL
           /\ sender[t] = "write" => path[t] = UseSSL /\ (UseSSL => ptr[t] = "live")

Attempting == {"reset", "resolve", "socket", "connect", "tls", "setFlag", "greet"}
Ending == {"recv", "close", "freeSsl", "nullSsl", "clearFlag"}

\* How far gRetry is from the number of attempts.
CountInv ==
    /\ pc \in Ending => gHasConnected
    /\ ~gHasConnected =>
           /\ gRetry <= FirstTries
           /\ pc = "retry" => attempts = gRetry
           /\ pc \in Attempting \cup {"sleep"} =>
                  gRetry < FirstTries /\ attempts = gRetry + 1
           /\ pc = "exit" => gRetry = FirstTries /\ attempts = FirstTries
    /\ gHasConnected /\ maxRetries > 0 =>
           /\ gRetry <= maxRetries
           /\ pc \in Ending => attempts = 0 /\ gRetry = 0
           /\ pc \in {"retry", "exit"} => attempts + 1 = gRetry
           /\ pc = "exit" => gRetry = maxRetries
           /\ pc \in Attempting => attempts = gRetry /\ gRetry < maxRetries
           /\ pc = "sleep" => attempts = gRetry /\ gRetry < maxRetries

IInv ==
    TypeOK /\ PhaseInv /\ SteadyInv /\ CountInv

\* What one step of any thread does, named as the specification names it.
Step ==
    /\ crashed' \in BOOLEAN
    /\ maxRetries' = maxRetries
    /\ \/ GetConnected \/ Receive \/ Disconnect \/ HostCloses \/ Sending
       \/ AnswerKills \/ \E t \in Senders : WriteKills(t) \/ ReportKills(t)

LEMMA NextIsStep == ASSUME TypeOK, Next PROVE Step
<1>0. maxRetries' = maxRetries BY DEF Next
<1>1. CASE /\ GetConnected \/ Receive \/ Disconnect \/ HostCloses \/ Sending
           /\ UNCHANGED crashed
  BY <1>0, <1>1 DEF Step, TypeOK
<1>2. CASE AnswerKills BY <1>0, <1>2 DEF Step, AnswerKills
<1>3. CASE \E t \in Senders : WriteKills(t) \/ ReportKills(t) BY <1>0, <1>3 DEF Step, WriteKills, ReportKills
<1>4. QED BY <1>1, <1>2, <1>3 DEF Next

LEMMA CountRange ==
  ASSUME NEW n \in 0 .. CountCap, maxRetries \in RetryLimits
  PROVE  Count(n) \in 0 .. CountCap /\ 0 \in 0 .. CountCap
  BY HostAssumption DEF Count, CountCap, FirstTries


LEMMA InitIInv == Init => IInv
<1> SUFFICES ASSUME Init PROVE IInv OBVIOUS
<1> USE HostAssumption DEF Init
<1>1. TypeOK
  <2>1. 0 \in 0 .. MaxAddrs /\ 0 \in 0 .. CountCap BY DEF CountCap, FirstTries
  <2>2. /\ sender \in [Senders -> {"idle", "pointer", "write"}]
        /\ path \in [Senders -> BOOLEAN]
        /\ ptr \in [Senders -> {"NULL", "live", "freed"}]
    OBVIOUS
  <2>3. steady \subseteq Senders OBVIOUS
  <2>4. QED BY <2>1, <2>2, <2>3 DEF TypeOK
<1>2. PhaseInv /\ SteadyInv
  BY DEF PhaseInv, SteadyInv
<1>3. CountInv BY DEF CountInv, FirstTries, Ending, Attempting
<1>4. QED BY <1>1, <1>2, <1>3 DEF IInv


\* Every step keeps the types.
LEMMA TypeStep ==
  ASSUME IInv, Step
  PROVE  TypeOK'
<1>0. crashed' \in BOOLEAN /\ maxRetries' = maxRetries /\ CountCap' = CountCap
  BY DEF Step, CountCap
<1> USE <1>0, HostAssumption, CountRange DEF IInv, TypeOK, PhaseInv, mainVars, flagVars, sslVars,
       sendVars, ConnUnchanged
<1>1. CASE GetConnected
  <2>1. CASE Try BY <2>1 DEF Try
  <2>2. CASE GiveUp BY <2>2 DEF GiveUp
  <2>3. CASE ResetSsl BY <2>3 DEF ResetSsl
  <2>4. CASE Sleep BY <2>4 DEF Sleep
  <2>5. CASE ResolveOk BY <2>5 DEF ResolveOk
  <2>6. CASE ResolveFails BY <2>6 DEF ResolveFails
  <2>7. CASE SocketOk BY <2>7 DEF SocketOk
  <2>8. CASE SocketFails BY <2>8 DEF SocketFails
  <2>9. CASE ConnectOk BY <2>9 DEF ConnectOk
  <2>10. CASE ConnectFails BY <2>10 DEF ConnectFails
  <2>11. CASE TlsOk BY <2>11 DEF TlsOk
  <2>12. CASE SetUsingSSL BY <2>12 DEF SetUsingSSL
  <2>13. CASE TlsFails BY <2>13 DEF TlsFails
  <2>14. CASE GreetOk
    <3>1. 0 \in 0 .. CountCap BY DEF CountCap, FirstTries
    <3>2. QED BY <2>14, <3>1 DEF GreetOk
  <2>15. CASE GreetFails BY <2>15 DEF GreetFails
  <2>16. QED
    BY <1>1, <2>1, <2>2, <2>3, <2>4, <2>5, <2>6, <2>7, <2>8, <2>9, <2>10, <2>11, <2>12, <2>13, <2>14, <2>15 DEF GetConnected
<1>2. CASE Receive
  <2>1. CASE RecvHello BY <2>1 DEF RecvHello
  <2>2. CASE RecvGoodbye BY <2>2 DEF RecvGoodbye
  <2>3. CASE RecvEnds BY <2>3 DEF RecvEnds
  <2>4. QED
    BY <1>2, <2>1, <2>2, <2>3 DEF Receive
<1>3. CASE Disconnect
  <2>1. CASE LeaveLoop BY <2>1 DEF LeaveLoop
  <2>2. CASE Close BY <2>2 DEF Close
  <2>3. CASE FreeSsl BY <2>3 DEF FreeSsl
  <2>4. CASE NullSsl BY <2>4 DEF NullSsl
  <2>5. CASE ClearUsingSSL BY <2>5 DEF ClearUsingSSL
  <2>6. QED
    BY <1>3, <2>1, <2>2, <2>3, <2>4, <2>5 DEF Disconnect
<1>4. CASE HostCloses BY <1>4 DEF HostCloses
<1>5. ASSUME NEW t \in Senders,
             \/ ReadUsingSSL(t) \/ ReadPointer(t) \/ Write(t) \/ WriteFails(t)
             \/ Report(t) \/ WriteKills(t) \/ ReportKills(t)
      PROVE  TypeOK'
  <2>1. CASE ReadUsingSSL(t) BY <2>1 DEF ReadUsingSSL
  <2>2. CASE ReadPointer(t) BY <2>2 DEF ReadPointer
  <2>3. CASE Write(t) BY <2>3 DEF Write, SenderDone
  <2>4. CASE WriteKills(t) BY <2>4 DEF WriteKills, SenderDone
  <2>5. CASE WriteFails(t) BY <2>5 DEF WriteFails
  <2>6. CASE Report(t) BY <2>6 DEF Report, SenderDone
  <2>7. CASE ReportKills(t) BY <2>7 DEF ReportKills, SenderDone
  <2>8. QED BY <1>5, <2>1, <2>2, <2>3, <2>4, <2>5, <2>6, <2>7
<1>6. CASE AnswerKills BY <1>6 DEF AnswerKills
<1>7. QED BY <1>1, <1>2, <1>3, <1>4, <1>5, <1>6 DEF Step, Sending


\* Every step leaves the globals as its place in the code says.
LEMMA PhaseStep ==
  ASSUME IInv, Step
  PROVE  PhaseInv'
<1> USE HostAssumption DEF IInv, TypeOK, PhaseInv, Usable,
       mainVars, flagVars, sslVars,
       sendVars, ConnUnchanged
<1>1. CASE GetConnected
  <2>1. CASE Try BY <2>1 DEF Try
  <2>2. CASE GiveUp BY <2>2 DEF GiveUp
  <2>3. CASE ResetSsl BY <2>3 DEF ResetSsl
  <2>4. CASE Sleep BY <2>4 DEF Sleep
  <2>5. CASE ResolveOk BY <2>5 DEF ResolveOk
  <2>6. CASE ResolveFails BY <2>6 DEF ResolveFails
  <2>7. CASE SocketOk BY <2>7 DEF SocketOk
  <2>8. CASE SocketFails BY <2>8 DEF SocketFails
  <2>9. CASE ConnectOk BY <2>9 DEF ConnectOk
  <2>10. CASE ConnectFails BY <2>10 DEF ConnectFails
  <2>11. CASE TlsOk BY <2>11 DEF TlsOk
  <2>12. CASE SetUsingSSL BY <2>12 DEF SetUsingSSL
  <2>13. CASE TlsFails BY <2>13 DEF TlsFails
  <2>14. CASE GreetOk BY <2>14 DEF GreetOk
  <2>15. CASE GreetFails BY <2>15 DEF GreetFails
  <2>16. QED
    BY <1>1, <2>1, <2>2, <2>3, <2>4, <2>5, <2>6, <2>7, <2>8, <2>9, <2>10, <2>11, <2>12, <2>13, <2>14, <2>15 DEF GetConnected
<1>2. CASE Receive
  <2>1. CASE RecvHello BY <2>1 DEF RecvHello
  <2>2. CASE RecvGoodbye BY <2>2 DEF RecvGoodbye
  <2>3. CASE RecvEnds BY <2>3 DEF RecvEnds
  <2>4. QED
    BY <1>2, <2>1, <2>2, <2>3 DEF Receive
<1>3. CASE Disconnect
  <2>1. CASE LeaveLoop BY <2>1 DEF LeaveLoop
  <2>2. CASE Close BY <2>2 DEF Close
  <2>3. CASE FreeSsl BY <2>3 DEF FreeSsl
  <2>4. CASE NullSsl BY <2>4 DEF NullSsl
  <2>5. CASE ClearUsingSSL BY <2>5 DEF ClearUsingSSL
  <2>6. QED
    BY <1>3, <2>1, <2>2, <2>3, <2>4, <2>5 DEF Disconnect
<1>4. CASE HostCloses BY <1>4 DEF HostCloses
<1>5. ASSUME NEW t \in Senders,
             \/ ReadUsingSSL(t) \/ ReadPointer(t) \/ Write(t) \/ WriteFails(t)
             \/ Report(t) \/ WriteKills(t) \/ ReportKills(t)
      PROVE  PhaseInv'
  <2>1. CASE ReadUsingSSL(t) BY <2>1 DEF ReadUsingSSL
  <2>2. CASE ReadPointer(t) BY <2>2 DEF ReadPointer
  <2>3. CASE Write(t) BY <2>3 DEF Write, SenderDone
  <2>4. CASE WriteKills(t) BY <2>4 DEF WriteKills, SenderDone
  <2>5. CASE WriteFails(t) BY <2>5 DEF WriteFails
  <2>6. CASE Report(t) BY <2>6 DEF Report, SenderDone
  <2>7. CASE ReportKills(t) BY <2>7 DEF ReportKills, SenderDone
  <2>8. QED BY <1>5, <2>1, <2>2, <2>3, <2>4, <2>5, <2>6, <2>7
<1>6. CASE AnswerKills BY <1>6 DEF AnswerKills
<1>7. QED BY <1>1, <1>2, <1>3, <1>4, <1>5, <1>6 DEF Step, Sending


\* Every step keeps what steady senders have read.
LEMMA SteadyStep ==
  ASSUME IInv, Step
  PROVE  SteadyInv'
<1> USE HostAssumption DEF IInv, TypeOK, PhaseInv, Usable, SteadyInv,
       mainVars, flagVars, sslVars,
       sendVars, ConnUnchanged
<1>1. CASE GetConnected
  <2>1. CASE Try BY <2>1 DEF Try
  <2>2. CASE GiveUp BY <2>2 DEF GiveUp
  <2>3. CASE ResetSsl BY <2>3 DEF ResetSsl
  <2>4. CASE Sleep BY <2>4 DEF Sleep
  <2>5. CASE ResolveOk BY <2>5 DEF ResolveOk
  <2>6. CASE ResolveFails BY <2>6 DEF ResolveFails
  <2>7. CASE SocketOk BY <2>7 DEF SocketOk
  <2>8. CASE SocketFails BY <2>8 DEF SocketFails
  <2>9. CASE ConnectOk BY <2>9 DEF ConnectOk
  <2>10. CASE ConnectFails BY <2>10 DEF ConnectFails
  <2>11. CASE TlsOk BY <2>11 DEF TlsOk
  <2>12. CASE SetUsingSSL BY <2>12 DEF SetUsingSSL
  <2>13. CASE TlsFails BY <2>13 DEF TlsFails
  <2>14. CASE GreetOk BY <2>14 DEF GreetOk
  <2>15. CASE GreetFails BY <2>15 DEF GreetFails
  <2>16. QED
    BY <1>1, <2>1, <2>2, <2>3, <2>4, <2>5, <2>6, <2>7, <2>8, <2>9, <2>10, <2>11, <2>12, <2>13, <2>14, <2>15 DEF GetConnected
<1>2. CASE Receive
  <2>1. CASE RecvHello BY <2>1 DEF RecvHello
  <2>2. CASE RecvGoodbye BY <2>2 DEF RecvGoodbye
  <2>3. CASE RecvEnds BY <2>3 DEF RecvEnds
  <2>4. QED
    BY <1>2, <2>1, <2>2, <2>3 DEF Receive
<1>3. CASE Disconnect
  <2>1. CASE LeaveLoop BY <2>1 DEF LeaveLoop
  <2>2. CASE Close BY <2>2 DEF Close
  <2>3. CASE FreeSsl BY <2>3 DEF FreeSsl
  <2>4. CASE NullSsl BY <2>4 DEF NullSsl
  <2>5. CASE ClearUsingSSL BY <2>5 DEF ClearUsingSSL
  <2>6. QED
    BY <1>3, <2>1, <2>2, <2>3, <2>4, <2>5 DEF Disconnect
<1>4. CASE HostCloses BY <1>4 DEF HostCloses
<1>5. ASSUME NEW t \in Senders,
             \/ ReadUsingSSL(t) \/ ReadPointer(t) \/ Write(t) \/ WriteFails(t)
             \/ Report(t) \/ WriteKills(t) \/ ReportKills(t)
      PROVE  SteadyInv'
  <2>1. CASE ReadUsingSSL(t) BY <2>1 DEF ReadUsingSSL
  <2>2. CASE ReadPointer(t) BY <2>2 DEF ReadPointer
  <2>3. CASE Write(t) BY <2>3 DEF Write, SenderDone
  <2>4. CASE WriteKills(t) BY <2>4 DEF WriteKills, SenderDone
  <2>5. CASE WriteFails(t) BY <2>5 DEF WriteFails
  <2>6. CASE Report(t) BY <2>6 DEF Report, SenderDone
  <2>7. CASE ReportKills(t) BY <2>7 DEF ReportKills, SenderDone
  <2>8. QED BY <1>5, <2>1, <2>2, <2>3, <2>4, <2>5, <2>6, <2>7
<1>6. CASE AnswerKills BY <1>6 DEF AnswerKills
<1>7. QED BY <1>1, <1>2, <1>3, <1>4, <1>5, <1>6 DEF Step, Sending


\* Every step keeps the distance of gRetry to the number of attempts.
LEMMA CountStep ==
  ASSUME IInv, Step
  PROVE  CountInv'
<1>0. maxRetries' = maxRetries BY DEF Step
<1> USE <1>0, HostAssumption DEF IInv, TypeOK, CountInv,
       Attempting, Ending, Count, CountCap, FirstTries, MayTry, mainVars, flagVars, sslVars,
       sendVars, ConnUnchanged
<1>1. CASE GetConnected
  <2>1. CASE Try BY <2>1 DEF Try
  <2>2. CASE GiveUp BY <2>2 DEF GiveUp
  <2>3. CASE ResetSsl BY <2>3 DEF ResetSsl
  <2>4. CASE Sleep BY <2>4 DEF Sleep
  <2>5. CASE ResolveOk BY <2>5 DEF ResolveOk
  <2>6. CASE ResolveFails BY <2>6 DEF ResolveFails
  <2>7. CASE SocketOk BY <2>7 DEF SocketOk
  <2>8. CASE SocketFails BY <2>8 DEF SocketFails
  <2>9. CASE ConnectOk BY <2>9 DEF ConnectOk
  <2>10. CASE ConnectFails BY <2>10 DEF ConnectFails
  <2>11. CASE TlsOk BY <2>11 DEF TlsOk
  <2>12. CASE SetUsingSSL BY <2>12 DEF SetUsingSSL
  <2>13. CASE TlsFails BY <2>13 DEF TlsFails
  <2>14. CASE GreetOk BY <2>14 DEF GreetOk
  <2>15. CASE GreetFails BY <2>15 DEF GreetFails
  <2>16. QED
    BY <1>1, <2>1, <2>2, <2>3, <2>4, <2>5, <2>6, <2>7, <2>8, <2>9, <2>10, <2>11, <2>12, <2>13, <2>14, <2>15 DEF GetConnected
<1>2. CASE Receive
  <2>1. CASE RecvHello BY <2>1 DEF RecvHello
  <2>2. CASE RecvGoodbye BY <2>2 DEF RecvGoodbye
  <2>3. CASE RecvEnds BY <2>3 DEF RecvEnds
  <2>4. QED
    BY <1>2, <2>1, <2>2, <2>3 DEF Receive
<1>3. CASE Disconnect
  <2>1. CASE LeaveLoop BY <2>1 DEF LeaveLoop
  <2>2. CASE Close BY <2>2 DEF Close
  <2>3. CASE FreeSsl BY <2>3 DEF FreeSsl
  <2>4. CASE NullSsl BY <2>4 DEF NullSsl
  <2>5. CASE ClearUsingSSL BY <2>5 DEF ClearUsingSSL
  <2>6. QED
    BY <1>3, <2>1, <2>2, <2>3, <2>4, <2>5 DEF Disconnect
<1>4. CASE HostCloses BY <1>4 DEF HostCloses
<1>5. ASSUME NEW t \in Senders,
             \/ ReadUsingSSL(t) \/ ReadPointer(t) \/ Write(t) \/ WriteFails(t)
             \/ Report(t) \/ WriteKills(t) \/ ReportKills(t)
      PROVE  CountInv'
  <2>1. CASE ReadUsingSSL(t) BY <2>1 DEF ReadUsingSSL
  <2>2. CASE ReadPointer(t) BY <2>2 DEF ReadPointer
  <2>3. CASE Write(t) BY <2>3 DEF Write, SenderDone
  <2>4. CASE WriteKills(t) BY <2>4 DEF WriteKills, SenderDone
  <2>5. CASE WriteFails(t) BY <2>5 DEF WriteFails
  <2>6. CASE Report(t) BY <2>6 DEF Report, SenderDone
  <2>7. CASE ReportKills(t) BY <2>7 DEF ReportKills, SenderDone
  <2>8. QED BY <1>5, <2>1, <2>2, <2>3, <2>4, <2>5, <2>6, <2>7
<1>6. CASE AnswerKills BY <1>6 DEF AnswerKills
<1>7. QED BY <1>1, <1>2, <1>3, <1>4, <1>5, <1>6 DEF Step, Sending


\* The globals, the steady senders and the counters are always as the main
\* thread's place in mrcHostProcess says (bridge.c:820-1152 and 1259-1300).
THEOREM InductiveInvariant == Spec => []IInv
<1>1. Init => IInv BY InitIInv
<1>2. IInv /\ [Next]_vars => IInv'
  <2>1. ASSUME IInv, Next PROVE IInv'
    BY <2>1, NextIsStep, TypeStep, PhaseStep, SteadyStep, CountStep
    DEF IInv
  <2>2. ASSUME IInv, UNCHANGED vars PROVE IInv'
    <3>1. TypeOK'
      BY <2>2 DEF IInv, TypeOK, vars, mainVars, flagVars, sslVars, sendVars, CountCap
    <3>2. PhaseInv' /\ SteadyInv'
      BY <2>2 DEF IInv, PhaseInv, Usable, SteadyInv, vars,
                  mainVars, flagVars, sslVars, sendVars
    <3>3. CountInv'
      BY <2>2 DEF IInv, CountInv, vars, mainVars, flagVars
    <3>4. QED BY <3>1, <3>2, <3>3 DEF IInv
  <2>3. QED BY <2>1, <2>2
<1>3. QED BY <1>1, <1>2, PTL DEF Spec

\* Types, and the counters within their caps.
THEOREM TypeCorrect == Spec => []TypeOK
<1>1. IInv => TypeOK BY DEF IInv
<1>2. QED BY <1>1, InductiveInvariant, PTL

\* While gConnectionIsDown is false the socket is open and, with TLS, the SSL
\* object that usingSSL announces is alive (bridge.c:887-1002 and 1129-1152).
THEOREM UpIsUsable == Spec => []UpMeansUsable
<1>1. IInv => UpMeansUsable BY DEF IInv, PhaseInv, Usable, UpMeansUsable
<1>2. QED BY <1>1, InductiveInvariant, PTL

\* A packet that a client thread begins to send while the connection is up,
\* and stays up, goes the configured way (bridge.c:270, 311 and 359).
THEOREM SteadySendsAreSafe == Spec => []SteadySendsReach
<1>1. IInv => SteadySendsReach
  BY DEF IInv, PhaseInv, Usable, SteadyInv, SteadySendsReach
<1>2. QED BY <1>1, InductiveInvariant, PTL

\* Ten attempts before the first connection (bridge.c:1261).
THEOREM FirstTriesAreExact == Spec => []FirstTriesExact
<1>1. IInv => FirstTriesExact
  BY DEF IInv, TypeOK, CountInv, FirstTriesExact, FirstTries, Attempting, Ending
<1>2. QED BY <1>1, InductiveInvariant, PTL

\* One attempt fewer than -R names, after a connection was lost.
THEOREM RetriesAreExact == Spec => []RetriesExact
<1>1. IInv => RetriesExact
  BY HostAssumption 
  DEF IInv, TypeOK, CountInv, RetriesExact, CountCap, FirstTries, Attempting, Ending
<1>2. QED BY <1>1, InductiveInvariant, PTL

-----------------------------------------------------------------------------
(* The client's stream: the inductive invariant. *)

\* Piece p of all the client has sent.
PieceOf(p) == [packet |-> (p - 1) \div 4 + 1, part |-> ((p - 1) % 4) + 1]

\* What is on the wire is the end of it.
WireInv ==
    /\ Len(wire) <= 4 * Len(kinds)
    /\ \A k \in 1..Len(wire) : wire[k] = PieceOf(4 * Len(kinds) - Len(wire) + k)

\* A LOGOFF is the last packet, and was seen or cut when its words are read.
LogoffInv ==
    /\ \A j \in 1..Len(kinds) : kinds[j] = "logoff" => j = Len(kinds) /\ closed
    /\ "logoff" \in Range(kinds) /\ Len(wire) <= 2 => cleanLogoff \/ cutLogoff

EndInv ==
    /\ ended => closed /\ wire = <<>>
    /\ told => ended /\ ~cleanLogoff

\* After n packets, each in a read of its own.
AlignedAt(n) ==
    /\ Len(wire) = 4 * (Len(kinds) - n)
    /\ Range(forwarded) = {p \in Pieces : p.packet <= n /\ kinds[p.packet] # "nick"}
    /\ \A k, l \in DOMAIN forwarded : k < l => Before(forwarded[k], forwarded[l])
    /\ thisUser = IF n = 0 THEN NoName ELSE Sender(n)
    /\ ~ended => chatter = thisUser
    /\ cleanLogoff <=> \E j \in 1..n : kinds[j] = "logoff"
    /\ ended => (told <=> kinds # <<>> /\ "logoff" \notin Range(kinds))

InboundInv ==
    /\ InboundTypeOK /\ WireInv /\ LogoffInv /\ EndInv
    /\ aligned => \E n \in 0..Len(kinds) : AlignedAt(n)

LEMMA FourParts == Parts = 1..4 /\ Len(Tildes) = 4 BY DEF Parts, Tildes

LEMMA InboundTypes ==
  ASSUME InboundTypeOK
  PROVE  /\ MaxPackets \in Nat /\ kinds \in Seq(Kinds) /\ Len(kinds) \in Nat /\ Len(kinds) <= MaxPackets
         /\ wire \in Seq(Pieces) /\ Len(wire) \in Nat
         /\ forwarded \in Seq(Pieces) /\ Len(forwarded) \in Nat
         /\ Len(forwarded) + Len(wire) <= 4 * Len(kinds)
<1>1. Len(forwarded) + Len(wire) <= 4 * Len(kinds) BY FourParts DEF InboundTypeOK
<1>2. QED BY <1>1, InboundAssumption DEF InboundTypeOK

LEMMA PieceAt ==
  ASSUME NEW i \in Nat, i >= 1, NEW r \in 1..4
  PROVE  PieceOf(4 * (i - 1) + r) = [packet |-> i, part |-> r]
<1> DEFINE p == 4 * (i - 1) + r
<1>1. (p - 1) \div 4 = i - 1 /\ (p - 1) % 4 = r - 1 OBVIOUS
<1>2. (p - 1) \div 4 + 1 = i /\ ((p - 1) % 4) + 1 = r BY <1>1
<1> HIDE DEF p
<1>3. PieceOf(p) = [packet |-> i, part |-> r] BY <1>2 DEF PieceOf
<1>4. QED BY <1>3 DEF p

LEMMA PacketForm ==
  ASSUME NEW i
  PROVE  /\ Len(Packet(i)) = 4 /\ DOMAIN Packet(i) = 1..4
         /\ \A r \in 1..4 : Packet(i)[r] = [packet |-> i, part |-> r]
         /\ i \in 1..MaxPackets => Packet(i) \in Seq(Pieces)
<1>1. DOMAIN Packet(i) = 1..4 /\ \A r \in 1..4 : Packet(i)[r] = [packet |-> i, part |-> r]
  BY FourParts DEF Packet
<1>2. Packet(i) \in Seq({[packet |-> i, part |-> r] : r \in 1..4}) BY FourParts DEF Packet
<1>3. Len(Packet(i)) = 4 BY <1>1, <1>2
<1>4. ASSUME i \in 1..MaxPackets PROVE Packet(i) \in Seq(Pieces)
  <2>1. \A r \in 1..4 : [packet |-> i, part |-> r] \in Pieces BY <1>4, FourParts DEF Pieces
  <2>2. QED BY <2>1, FourParts DEF Packet
<1>5. QED BY <1>1, <1>3, <1>4

LEMMA Concatenation ==
  ASSUME NEW S, NEW a \in Seq(S), NEW b \in Seq(S)
  PROVE  /\ a \o b \in Seq(S) /\ Len(a \o b) = Len(a) + Len(b)
         /\ \A k \in 1..Len(a) : (a \o b)[k] = a[k]
         /\ \A k \in 1..Len(b) : (a \o b)[Len(a) + k] = b[k]
<1>1. a \o b \in Seq(S) OBVIOUS
<1>2. Len(a \o b) = Len(a) + Len(b) OBVIOUS
<1>3. \A k \in 1..Len(a) : (a \o b)[k] = a[k] OBVIOUS
<1>4. \A k \in 1..Len(b) : (a \o b)[Len(a) + k] = b[k] OBVIOUS
<1>5. QED BY <1>1, <1>2, <1>3, <1>4

LEMMA Section ==
  ASSUME NEW S, NEW list \in Seq(S), NEW x \in 1..Len(list) + 1, NEW y \in 0..Len(list), x <= y + 1
  PROVE  /\ SubSeq(list, x, y) \in Seq(S) /\ Len(SubSeq(list, x, y)) = y + 1 - x
         /\ \A k \in 1..Len(SubSeq(list, x, y)) : SubSeq(list, x, y)[k] = list[x + k - 1]
<1>1. SubSeq(list, x, y) \in Seq(S) OBVIOUS
<1>2. Len(SubSeq(list, x, y)) = y + 1 - x OBVIOUS
<1>3. \A k \in 1..Len(SubSeq(list, x, y)) : SubSeq(list, x, y)[k] = list[x + k - 1] OBVIOUS
<1>4. QED BY <1>1, <1>2, <1>3

LEMMA SenderIsName == ASSUME NEW i PROVE Sender(i) \in {OldName, NewName} /\ Sender(i) # NoName
  BY DEF Sender, OldName, NewName, NoName

LEMMA InitInboundInv == InboundInit => InboundInv
<1> SUFFICES ASSUME InboundInit PROVE InboundInv OBVIOUS
<1>1. /\ kinds = <<>> /\ wire = <<>> /\ closed = FALSE /\ ended = FALSE
      /\ thisUser = NoName /\ chatter = NoName
      /\ cleanLogoff = FALSE /\ forwarded = <<>> /\ told = FALSE
      /\ died = FALSE /\ aligned = TRUE /\ cutLogoff = FALSE
  BY DEF InboundInit
<1>2. InboundTypeOK
  <2>1. kinds \in Seq(Kinds) /\ Len(kinds) = 0 /\ wire \in Seq(Pieces) /\ Len(wire) = 0 BY <1>1
  <2>2. forwarded \in Seq(Pieces) /\ Len(forwarded) = 0 BY <1>1
  <2>3. {closed, ended, cleanLogoff, told, died, aligned, cutLogoff} \subseteq BOOLEAN BY <1>1
  <2>4. thisUser \in Names /\ chatter \in Names BY <1>1 DEF Names
  <2>5. Len(kinds) <= MaxPackets /\ Len(forwarded) + Len(wire) <= 4 * Len(kinds)
    BY ONLY <2>1, <2>2, InboundAssumption
  <2>6. QED BY ONLY <2>1, <2>2, <2>3, <2>4, <2>5, FourParts DEF InboundTypeOK
<1>3. WireInv /\ LogoffInv /\ EndInv BY <1>1 DEF WireInv, LogoffInv, EndInv, Range
<1>4. AlignedAt(0)
  <2>1. Range(forwarded) = {} BY <1>1 DEF Range
  <2>2. {p \in Pieces : p.packet <= 0 /\ kinds[p.packet] # "nick"} = {} BY InboundAssumption DEF Pieces
  <2>3. QED BY <1>1, <2>1, <2>2 DEF AlignedAt
<1>5. 0 \in 0..Len(kinds) BY <1>1
<1>6. QED BY <1>2, <1>3, <1>4, <1>5 DEF InboundInv

\* What the client sends next leaves what was read as it was.
LEMMA ClientSendsKeeps == ASSUME InboundInv, NEW kind \in Kinds, ClientSends(kind) PROVE InboundInv'
<1> DEFINE l == Len(kinds)
<1>1. /\ ~closed /\ l < MaxPackets /\ kinds' = Append(kinds, kind) /\ wire' = wire \o Packet(l + 1)
      /\ closed' = (kind = "logoff")
      /\ UNCHANGED <<ended, thisUser, chatter, cleanLogoff, forwarded, told, died, aligned, cutLogoff>>
  BY DEF ClientSends, history
<1>2. InboundTypeOK /\ WireInv /\ LogoffInv /\ EndInv BY DEF InboundInv
<1>3. /\ MaxPackets \in Nat /\ kinds \in Seq(Kinds) /\ l \in Nat
      /\ wire \in Seq(Pieces) /\ Len(wire) \in Nat /\ Len(forwarded) + Len(wire) <= 4 * l
      /\ forwarded \in Seq(Pieces) /\ Len(forwarded) \in Nat
  BY <1>2, InboundTypes
<1>4. /\ kinds' \in Seq(Kinds) /\ Len(kinds') = l + 1 /\ kinds'[l + 1] = kind
      /\ \A j \in 1..l : kinds'[j] = kinds[j]
  BY <1>1, <1>3
<1> HIDE DEF l
<1>5. /\ wire' \in Seq(Pieces) /\ Len(wire') = Len(wire) + 4
      /\ \A k \in 1..Len(wire) : wire'[k] = wire[k]
      /\ \A r \in 1..4 : wire'[Len(wire) + r] = [packet |-> l + 1, part |-> r]
  <2> DEFINE new == Packet(l + 1)
  <2>1. l + 1 \in 1..MaxPackets BY <1>1, <1>3
  <2>2. new \in Seq(Pieces) /\ Len(new) = 4 /\ \A r \in 1..4 : new[r] = [packet |-> l + 1, part |-> r]
    BY <2>1, PacketForm
  <2>3. wire' = wire \o new BY <1>1
  <2> HIDE DEF new
  <2>4. wire \in Seq(Pieces) /\ new \in Seq(Pieces) BY <1>3, <2>2
  <2>5. /\ wire \o new \in Seq(Pieces) /\ Len(wire \o new) = Len(wire) + Len(new)
        /\ \A k \in 1..Len(wire) : (wire \o new)[k] = wire[k]
        /\ \A r \in 1..Len(new) : (wire \o new)[Len(wire) + r] = new[r]
    BY ONLY <2>4, Concatenation
  <2>6. QED BY ONLY <2>2, <2>3, <2>5
<1>6. InboundTypeOK'
  <2>1. Len(kinds') <= MaxPackets BY <1>1, <1>3, <1>4
  <2>2. Len(forwarded') + Len(wire') <= 4 * Len(kinds') BY <1>1, <1>3, <1>4, <1>5
  <2>3. {closed', ended', cleanLogoff', told', died', aligned', cutLogoff'} \subseteq BOOLEAN
    BY <1>1, <1>2 DEF InboundTypeOK
  <2>4. QED BY <1>1, <1>2, <1>4, <1>5, <2>1, <2>2, <2>3, FourParts DEF InboundTypeOK
<1>7. WireInv'
  <2>1. Len(wire) <= 4 * l /\ \A k \in 1..Len(wire) : wire[k] = PieceOf(4 * l - Len(wire) + k)
    BY <1>2 DEF WireInv, l
  <2>2. 4 * Len(kinds') - Len(wire') = 4 * l - Len(wire) BY <1>3, <1>4, <1>5
  <2>3. ASSUME NEW k \in 1..Len(wire') PROVE wire'[k] = PieceOf(4 * l - Len(wire) + k)
    <3>1. CASE k \in 1..Len(wire) BY <1>5, <2>1, <3>1
    <3>2. CASE k \notin 1..Len(wire)
      <4>1. PICK r \in 1..4 : k = Len(wire) + r
        <5> DEFINE w == Len(wire)
        <5>1. w \in Nat /\ k \in 1..w + 4 /\ k \notin 1..w BY ONLY <1>3, <1>5, <3>2, k \in 1..Len(wire')
        <5> HIDE DEF w
        <5>2. k - w \in 1..4 /\ k = w + (k - w) BY ONLY <5>1
        <5>3. QED BY ONLY <5>2 DEF w
      <4>2. 4 * l - Len(wire) + k = 4 * ((l + 1) - 1) + r BY <1>3, <4>1
      <4>3. PieceOf(4 * ((l + 1) - 1) + r) = [packet |-> l + 1, part |-> r]
        <5>1. l + 1 \in Nat /\ l + 1 >= 1 BY <1>3
        <5>2. QED BY ONLY <5>1, r \in 1..4, PieceAt
      <4>4. QED BY <1>5, <4>1, <4>2, <4>3
    <3>3. QED BY <3>1, <3>2
  <2>4. Len(wire') <= 4 * Len(kinds') BY <1>3, <1>4, <1>5, <2>1
  <2>5. QED BY <2>2, <2>3, <2>4 DEF WireInv
<1>8. LogoffInv'
  <2>1. ASSUME NEW j \in 1..Len(kinds'), kinds'[j] = "logoff" PROVE j = Len(kinds') /\ closed'
    <3>1. CASE j \in 1..l
      <4>1. kinds[j] = "logoff" BY <1>4, <2>1, <3>1
      <4>2. QED BY <1>1, <1>2, <3>1, <4>1 DEF LogoffInv, l
    <3>2. CASE j = l + 1 BY <1>1, <1>4, <2>1, <3>2
    <3>3. QED BY <1>3, <1>4, <3>1, <3>2
  <2>2. ~(Len(wire') <= 2) BY <1>3, <1>5
  <2>3. QED BY <2>1, <2>2 DEF LogoffInv
<1>9. EndInv' BY <1>1, <1>2 DEF EndInv
<1>10. ASSUME NEW n \in 0..l, AlignedAt(n) PROVE AlignedAt(n)'
  <2>1. Len(wire') = 4 * (Len(kinds') - n) BY <1>3, <1>4, <1>5, <1>10 DEF AlignedAt, l
  <2>2. \A j \in 1..n : kinds'[j] = kinds[j] BY <1>3, <1>4
  <2>3. {p \in Pieces : p.packet <= n /\ kinds'[p.packet] # "nick"} =
          {p \in Pieces : p.packet <= n /\ kinds[p.packet] # "nick"}
    <3>1. \A p \in Pieces : p.packet <= n => p.packet \in 1..n BY <1>3 DEF Pieces
    <3>2. QED BY <2>2, <3>1
  <2>4. n # 0 => Sender(n)' = Sender(n) BY <1>3, <2>2 DEF Sender
  <2>5. ~ended' BY <1>1, <1>2 DEF EndInv
  <2>6. (\E j \in 1..n : kinds'[j] = "logoff") <=> (\E j \in 1..n : kinds[j] = "logoff") BY <2>2
  <2>7. /\ Range(forwarded) = {p \in Pieces : p.packet <= n /\ kinds[p.packet] # "nick"}
        /\ \A k, h \in DOMAIN forwarded : k < h => Before(forwarded[k], forwarded[h])
        /\ thisUser = IF n = 0 THEN NoName ELSE Sender(n)
        /\ ~ended => chatter = thisUser
        /\ cleanLogoff <=> \E j \in 1..n : kinds[j] = "logoff"
    BY <1>10 DEF AlignedAt
  <2>8. thisUser' = IF n = 0 THEN NoName ELSE Sender(n)' BY <1>1, <2>4, <2>7
  <2>9. cleanLogoff' <=> \E j \in 1..n : kinds'[j] = "logoff" BY <1>1, <2>6, <2>7
  <2>10. Range(forwarded') = {p \in Pieces : p.packet <= n /\ kinds'[p.packet] # "nick"}
    BY <1>1, <2>3, <2>7
  <2>11. \A k, h \in DOMAIN forwarded' : k < h => Before(forwarded'[k], forwarded'[h]) BY <1>1, <2>7
  <2>12. ~ended' => chatter' = thisUser' BY <1>1, <2>7
  <2>13. QED BY ONLY <2>1, <2>5, <2>8, <2>9, <2>10, <2>11, <2>12 DEF AlignedAt
<1>11. aligned' => \E n \in 0..Len(kinds') : AlignedAt(n)'
  <2> SUFFICES ASSUME aligned' PROVE \E n \in 0..Len(kinds') : AlignedAt(n)' OBVIOUS
  <2>1. PICK n \in 0..l : AlignedAt(n) BY <1>1 DEF InboundInv, l
  <2>2. AlignedAt(n)' BY <1>10, <2>1
  <2>3. n \in 0..Len(kinds') BY <1>3, <1>4
  <2>4. QED BY <2>2, <2>3
<1>12. QED BY <1>6, <1>7, <1>8, <1>9, <1>11 DEF InboundInv

LEMMA ClientDropsKeeps == ASSUME InboundInv, ClientDrops PROVE InboundInv'
<1>1. /\ closed' = TRUE /\ kinds' = kinds /\ wire' = wire /\ ended' = ended /\ thisUser' = thisUser
      /\ chatter' = chatter /\ cleanLogoff' = cleanLogoff /\ forwarded' = forwarded /\ told' = told
      /\ died' = died /\ aligned' = aligned /\ cutLogoff' = cutLogoff
  BY DEF ClientDrops, history
<1>2. InboundTypeOK' BY <1>1 DEF InboundInv, InboundTypeOK
<1>3. WireInv' /\ LogoffInv' /\ EndInv' BY <1>1 DEF InboundInv, WireInv, LogoffInv, EndInv
<1>4. ASSUME NEW n, AlignedAt(n) PROVE AlignedAt(n)' BY <1>1, <1>4 DEF AlignedAt, Sender
<1>5. QED BY <1>1, <1>2, <1>3, <1>4 DEF InboundInv

LEMMA EndOfStreamKeeps == ASSUME InboundInv, EndOfStream PROVE InboundInv'
<1>1. /\ closed /\ wire = <<>> /\ ended' = TRUE /\ told' = (thisUser # NoName /\ ~cleanLogoff)
      /\ chatter' = NoName /\ kinds' = kinds /\ wire' = wire /\ closed' = closed /\ thisUser' = thisUser
      /\ cleanLogoff' = cleanLogoff /\ forwarded' = forwarded /\ aligned' = aligned
      /\ cutLogoff' = cutLogoff /\ died' = died
  BY DEF EndOfStream, history
<1>2. InboundTypeOK' BY <1>1 DEF InboundInv, InboundTypeOK, Names
<1>3. WireInv' /\ LogoffInv' /\ EndInv' BY <1>1 DEF InboundInv, WireInv, LogoffInv, EndInv
<1>4. ASSUME aligned PROVE \E n \in 0..Len(kinds') : AlignedAt(n)'
  <2>1. PICK n \in 0..Len(kinds) : AlignedAt(n) BY <1>4 DEF InboundInv
  <2>2. kinds \in Seq(Kinds) /\ Len(kinds) \in Nat BY InboundTypes DEF InboundInv
  <2>3. n = Len(kinds)
    <3>1. Len(wire) = 0 BY <1>1
    <3>2. Len(wire) = 4 * (Len(kinds) - n) BY <2>1 DEF AlignedAt
    <3> DEFINE l == Len(kinds)
    <3>3. l \in Nat /\ n \in 0..l /\ 0 = 4 * (l - n) BY <2>2, <3>1, <3>2
    <3> HIDE DEF l
    <3>4. n = l BY ONLY <3>3
    <3>5. QED BY <3>4 DEF l
  <2>4. cleanLogoff <=> "logoff" \in Range(kinds)
    <3>1. DOMAIN kinds = 1..Len(kinds) BY <2>2
    <3>2. cleanLogoff <=> \E j \in 1..n : kinds[j] = "logoff" BY <2>1 DEF AlignedAt
    <3>3. QED BY <2>3, <3>1, <3>2 DEF Range
  <2>5. thisUser # NoName <=> kinds # <<>>
    <3>1. thisUser = IF n = 0 THEN NoName ELSE Sender(n) BY <2>1 DEF AlignedAt
    <3>2. thisUser # NoName <=> n # 0 BY <3>1, SenderIsName
    <3>3. kinds # <<>> <=> Len(kinds) # 0 BY <2>2
    <3>4. QED BY <2>3, <3>2, <3>3
  <2>6. told' <=> kinds' # <<>> /\ "logoff" \notin Range(kinds') BY <1>1, <2>4, <2>5
  <2>7. AlignedAt(n)' BY <1>1, <2>1, <2>6 DEF AlignedAt, Sender
  <2>8. QED BY <1>1, <2>7
<1>5. QED BY <1>1, <1>2, <1>3, <1>4 DEF InboundInv

LEMMA ReadOutOfBoundsKeeps == ASSUME InboundInv, ReadOutOfBounds PROVE InboundInv'
<1>1. /\ closed' = closed /\ kinds' = kinds /\ wire' = wire /\ ended' = ended /\ thisUser' = thisUser
      /\ chatter' = chatter /\ cleanLogoff' = cleanLogoff /\ forwarded' = forwarded /\ told' = told
      /\ died' = TRUE /\ aligned' = aligned /\ cutLogoff' = cutLogoff
  BY DEF ReadOutOfBounds, history
<1>2. InboundTypeOK' BY <1>1 DEF InboundInv, InboundTypeOK
<1>3. WireInv' /\ LogoffInv' /\ EndInv' BY <1>1 DEF InboundInv, WireInv, LogoffInv, EndInv
<1>4. ASSUME NEW n, AlignedAt(n) PROVE AlignedAt(n)' BY <1>1, <1>4 DEF AlignedAt, Sender
<1>5. QED BY <1>1, <1>2, <1>3, <1>4 DEF InboundInv

\* The next n pieces, and those behind them.
ReadGives(n) ==
    LET data == SubSeq(wire, 1, n)
        rest == SubSeq(wire, n + 1, Len(wire))
        a    == 4 * Len(kinds) - Len(wire)
    IN  /\ data \in Seq(Pieces) /\ Len(data) = n /\ \A k \in 1..n : data[k] = PieceOf(a + k)
        /\ rest \in Seq(Pieces) /\ Len(rest) = Len(wire) - n
        /\ \A k \in 1..Len(wire) - n : rest[k] = PieceOf(a + n + k)

LEMMA ReadForm == ASSUME InboundTypeOK, WireInv, NEW n \in 1..Len(wire) PROVE ReadGives(n)
<1> DEFINE w == Len(wire)
           data == SubSeq(wire, 1, n)
           rest == SubSeq(wire, n + 1, Len(wire))
           a    == 4 * Len(kinds) - Len(wire)
<1>0. data = SubSeq(wire, 1, n) /\ rest = SubSeq(wire, n + 1, Len(wire)) OBVIOUS
<1>1. wire \in Seq(Pieces) /\ w \in Nat /\ Len(kinds) \in Nat /\ a \in Nat /\ n \in 1..w
      /\ \A k \in 1..w : wire[k] = PieceOf(a + k)
  BY InboundTypes DEF WireInv
<1> HIDE DEF data, rest, a
<1>2. data \in Seq(Pieces) /\ Len(data) = n /\ \A k \in 1..n : data[k] = wire[k]
  <2>1. 1 \in 1..Len(wire) + 1 /\ n \in 0..Len(wire) /\ 1 <= n + 1 /\ n + 1 - 1 = n
        /\ \A k \in 1..n : 1 + k - 1 = k
    BY ONLY <1>1
  <2>2. /\ SubSeq(wire, 1, n) \in Seq(Pieces) /\ Len(SubSeq(wire, 1, n)) = n + 1 - 1
        /\ \A k \in 1..Len(SubSeq(wire, 1, n)) : SubSeq(wire, 1, n)[k] = wire[1 + k - 1]
    BY ONLY <1>1, <2>1, Section
  <2>3. QED BY ONLY <1>0, <2>1, <2>2
<1>3. rest \in Seq(Pieces) /\ Len(rest) = w - n /\ \A k \in 1..w - n : rest[k] = wire[n + k]
  <2>1. n + 1 \in 1..Len(wire) + 1 /\ Len(wire) \in 0..Len(wire) /\ n + 1 <= Len(wire) + 1
        /\ Len(wire) + 1 - (n + 1) = w - n /\ \A k \in 1..w - n : n + 1 + k - 1 = n + k
    BY ONLY <1>1
  <2> DEFINE x == n + 1
             y == Len(wire)
  <2>2. x \in 1..Len(wire) + 1 /\ y \in 0..Len(wire) /\ x <= y + 1 BY ONLY <2>1
  <2> HIDE DEF x, y
  <2>3. /\ SubSeq(wire, x, y) \in Seq(Pieces) /\ Len(SubSeq(wire, x, y)) = y + 1 - x
        /\ \A k \in 1..Len(SubSeq(wire, x, y)) : SubSeq(wire, x, y)[k] = wire[x + k - 1]
    BY ONLY <1>1, <2>2, Section
  <2>4. rest = SubSeq(wire, x, y) /\ y + 1 - x = w - n /\ \A k \in 1..w - n : x + k - 1 = n + k
    BY <1>0, <2>1 DEF x, y
  <2>5. QED BY ONLY <2>3, <2>4
<1> HIDE DEF w
<1>4. \A k \in 1..w - n : n + k \in 1..w /\ a + (n + k) = a + n + k BY ONLY <1>1
<1>5. \A k \in 1..n : k \in 1..w BY ONLY <1>1
<1>6. \A k \in 1..n : data[k] = PieceOf(a + k) BY ONLY <1>1, <1>2, <1>5
<1>7. \A k \in 1..w - n : rest[k] = PieceOf(a + n + k) BY ONLY <1>1, <1>3, <1>4
<1>8. QED BY ONLY <1>2, <1>3, <1>6, <1>7 DEF ReadGives, w, data, rest, a

\* What every read does, whatever is in it.
LEMMA ReadKeeps ==
  ASSUME InboundInv, ~ended, NEW n \in 1..Len(wire), NEW data, data = SubSeq(wire, 1, n), Read(data)
  PROVE  /\ wire' \in Seq(Pieces) /\ Len(wire') = Len(wire) - n
         /\ {closed', ended', cleanLogoff', told', died', aligned', cutLogoff'} \subseteq BOOLEAN
         /\ WireInv' /\ LogoffInv' /\ EndInv'
<1> DEFINE a == 4 * Len(kinds) - Len(wire)
           l == Len(kinds)
           w == Len(wire)
<1>1. InboundTypeOK /\ WireInv /\ LogoffInv /\ EndInv BY DEF InboundInv
<1>2. /\ kinds \in Seq(Kinds) /\ l \in Nat /\ w \in Nat /\ w <= 4 * l /\ a \in Nat /\ a = 4 * l - w
  BY <1>1, InboundTypes DEF WireInv
<1>3. /\ kinds' = kinds /\ closed' = closed /\ ended' = ended /\ told' = told /\ died' = died
      /\ cleanLogoff' = (cleanLogoff \/ HasLogoff(data))
      /\ aligned' = (aligned /\ data = Packet(data[1].packet))
      /\ cutLogoff' = (cutLogoff \/ (kinds[Last(data).packet] = "logoff" /\ Last(data).part \in 2..3))
  BY DEF Read
<1>4. /\ data \in Seq(Pieces) /\ Len(data) = n /\ \A k \in 1..n : data[k] = PieceOf(a + k)
      /\ wire' \in Seq(Pieces) /\ Len(wire') = w - n
      /\ \A k \in 1..w - n : wire'[k] = PieceOf(a + n + k)
  <2>1. ReadGives(n) BY <1>1, ReadForm
  <2>2. wire' = SubSeq(wire, n + 1, Len(wire))
    <3>1. Len(data) = n BY <2>1 DEF ReadGives
    <3>2. QED BY <3>1 DEF Read
  <2>3. QED BY ONLY <2>1, <2>2, data = SubSeq(wire, 1, n) DEF ReadGives, w, a
<1>5. WireInv'
  <2>1. 4 * Len(kinds') - Len(wire') = a + n BY ONLY <1>2, <1>3, <1>4, n \in 1..Len(wire) DEF l, w
  <2>2. \A k \in 1..Len(wire') : wire'[k] = PieceOf(a + n + k) BY ONLY <1>4
  <2>3. Len(wire') <= 4 * Len(kinds') BY ONLY <1>2, <1>3, <1>4, n \in 1..Len(wire) DEF l, w
  <2>4. QED BY ONLY <2>1, <2>2, <2>3 DEF WireInv
<1>6. {closed', ended', cleanLogoff', told', died', aligned', cutLogoff'} \subseteq BOOLEAN
  <2>1. {closed, ended, cleanLogoff, told, died, aligned, cutLogoff} \subseteq BOOLEAN BY <1>1 DEF InboundTypeOK
  <2>2. QED BY ONLY <1>3, <2>1
<1>7. EndInv' BY <1>1, <1>3 DEF EndInv
<1>8. ASSUME "logoff" \in Range(kinds), Len(wire') <= 2 PROVE cleanLogoff' \/ cutLogoff'
  <2>1. l >= 1 /\ kinds[l] = "logoff"
    <3>1. PICK j \in DOMAIN kinds : kinds[j] = "logoff" BY <1>8 DEF Range
    <3>2. j \in 1..l BY <1>2, <3>1
    <3>3. j = l BY <1>1, <3>1, <3>2 DEF LogoffInv
    <3>4. QED BY ONLY <1>2, <3>1, <3>2, <3>3
  <2>2. CASE w <= 2 BY <1>1, <1>3, <1>8, <2>2 DEF LogoffInv
  <2>3. CASE w > 2
    <3>1. ASSUME NEW r \in 1..4, NEW k \in 1..n, a + k = 4 * (l - 1) + r
          PROVE  data[k] = [packet |-> l, part |-> r]
      <4>1. PieceOf(4 * (l - 1) + r) = [packet |-> l, part |-> r]
        BY ONLY <1>2, <2>1, r \in 1..4, PieceAt
      <4>2. QED BY <1>4, <3>1, <4>1
    <3>2. CASE w - n = 0
      <4> DEFINE i == n - 2
      <4>1. i \in 1..n /\ a + i = 4 * (l - 1) + 2 /\ i + 2 = n
        BY ONLY <1>2, <2>3, <3>2, n \in 1..Len(wire) DEF w
      <4>2. data[i] = [packet |-> l, part |-> 2] BY <3>1, <4>1
      <4> HIDE DEF i
      <4>3. i \in DOMAIN data BY <1>4, <4>1
      <4>4. HasRun(data, "logoff", 2, 4)
        <5>1. kinds[data[i].packet] = "logoff" /\ data[i].part = 2 BY ONLY <2>1, <4>2
        <5>2. i + (4 - 2) <= Len(data) BY <1>4, <4>1
        <5>3. QED BY ONLY <4>3, <5>1, <5>2 DEF HasRun
      <4>5. QED BY <1>3, <4>4 DEF HasLogoff
    <3>3. CASE w - n # 0
      <4> DEFINE r == 4 - (w - n)
      <4>1. r \in 2..3 /\ n \in 1..n /\ a + n = 4 * (l - 1) + r
        BY ONLY <1>2, <1>4, <1>8, <3>3, n \in 1..Len(wire) DEF w
      <4> HIDE DEF r
      <4>2. r \in 1..4 BY <4>1
      <4>3. data[n] = [packet |-> l, part |-> r] BY <3>1, <4>1, <4>2
      <4>4. Last(data) = data[n] BY <1>4 DEF Last
      <4>5. kinds[Last(data).packet] = "logoff" /\ Last(data).part \in 2..3
        BY ONLY <2>1, <4>1, <4>3, <4>4
      <4>6. QED BY <1>3, <4>5
    <3>4. QED BY <3>2, <3>3
  <2>4. QED BY <1>2, <2>2, <2>3
<1>9. LogoffInv' BY <1>1, <1>3, <1>8 DEF LogoffInv
<1>10. QED BY <1>4, <1>5, <1>6, <1>7, <1>9 DEF w

\* The words of a command are found in its own packet.
LEMMA PacketRun ==
  ASSUME NEW i, NEW kind, NEW first \in 1..4, NEW last \in first..4
  PROVE  HasRun(Packet(i), kind, first, last) <=> kinds[i] = kind
<1> DEFINE data == Packet(i)
<1>1. Len(data) = 4 /\ DOMAIN data = 1..4 /\ \A r \in 1..4 : data[r] = [packet |-> i, part |-> r]
  BY ONLY PacketForm
<1> HIDE DEF data
<1>2. \A r \in 1..4 : data[r].packet = i /\ data[r].part = r BY ONLY <1>1
<1>3. first + (last - first) <= 4 /\ first \in 1..4 OBVIOUS
<1>4. HasRun(data, kind, first, last) <=> kinds[i] = kind BY ONLY <1>1, <1>2, <1>3 DEF HasRun
<1>5. QED BY <1>4 DEF data

LEMMA PacketCommands ==
  ASSUME NEW i
  PROVE  /\ HasNickChanged(Packet(i)) <=> kinds[i] = "nick"
         /\ HasLogoff(Packet(i)) <=> kinds[i] = "logoff"
<1>1. HasRun(Packet(i), "nick", 2, 3) <=> kinds[i] = "nick" BY PacketRun
<1>2. HasRun(Packet(i), "logoff", 2, 4) <=> kinds[i] = "logoff" BY PacketRun
<1>3. QED BY <1>1, <1>2 DEF HasNickChanged, HasLogoff

\* A packet has the seven fields the bridge asks for.
LEMMA PacketFields == ASSUME NEW i PROVE HasField6(Packet(i))
<1> DEFINE T     == UNION {{k} \X (1..Tildes[Packet(i)[k].part]) : k \in DOMAIN Packet(i)}
           U     == UNION {{k} \X (1..Tildes[k]) : k \in 1..4}
           three == {2} \X (1..3)
           four  == three \cup {<<1, 1>>}
           five  == four \cup {<<1, 2>>}
           six   == five \cup {<<3, 1>>}
           all   == (1..4) \X (1..3)
<1>1. T = U
  <2>1. DOMAIN Packet(i) = 1..4 /\ \A r \in 1..4 : Packet(i)[r] = [packet |-> i, part |-> r]
    BY ONLY PacketForm
  <2>2. \A k \in 1..4 : Packet(i)[k].part = k BY ONLY <2>1
  <2>3. QED BY <2>1, <2>2
<1>2. Tildes[1] = 2 /\ Tildes[2] = 3 /\ Tildes[3] = 1 /\ Tildes[4] = 1 BY DEF Tildes
<1>3. six \subseteq U
  <2>1. three \subseteq U /\ <<1, 1>> \in U /\ <<1, 2>> \in U /\ <<3, 1>> \in U
    <3>1. ASSUME NEW k \in 1..4, NEW j \in 1..Tildes[k] PROVE <<k, j>> \in U OBVIOUS
    <3>2. 1 \in 1..Tildes[1] /\ 2 \in 1..Tildes[1] /\ 1 \in 1..Tildes[3] /\ Tildes[2] = 3 BY <1>2
    <3>3. <<1, 1>> \in U /\ <<1, 2>> \in U /\ <<3, 1>> \in U BY <3>1, <3>2
    <3>4. ASSUME NEW j \in 1..3 PROVE <<2, j>> \in U BY <3>1, <3>2
    <3>5. QED BY <3>3, <3>4
  <2>2. QED BY <2>1
<1>4. U \subseteq all
  <2> SUFFICES ASSUME NEW k \in 1..4, NEW j \in 1..Tildes[k] PROVE <<k, j>> \in all OBVIOUS
  <2>1. Tildes[k] \in 1..3 BY <1>2
  <2>2. j \in 1..3 BY <2>1
  <2>3. QED BY <2>2
<1>5. IsFiniteSet(1..3) /\ Cardinality(1..3) = 3
  <2>1. IsFiniteSet(1..3) /\ Cardinality(1..3) = IF 1 > 3 THEN 0 ELSE 3 - 1 + 1
    BY ONLY FS_Interval, 1 \in Int, 3 \in Int
  <2>2. QED BY <2>1
<1>6. IsFiniteSet(all)
  <2>1. IsFiniteSet(1..4) BY ONLY FS_Interval, 1 \in Int, 4 \in Int
  <2>2. QED BY ONLY <1>5, <2>1, FS_Product
<1>7. IsFiniteSet(three) /\ Cardinality(three) = 3
  <2>1. IsFiniteSet({2}) /\ Cardinality({2}) = 1 BY FS_Singleton
  <2>2. IsFiniteSet(three) /\ Cardinality(three) = Cardinality({2}) * Cardinality(1..3)
    BY ONLY <1>5, <2>1, FS_Product
  <2>3. QED BY <1>5, <2>1, <2>2
<1>8. <<1, 1>> \notin three /\ <<1, 2>> \notin four /\ <<3, 1>> \notin five OBVIOUS
<1> HIDE DEF three
<1>9. IsFiniteSet(four) /\ Cardinality(four) = 4
  <2>1. IsFiniteSet(four) /\ Cardinality(four) = Cardinality(three) + 1 BY ONLY <1>7, <1>8, FS_AddElement
  <2>2. QED BY <1>7, <2>1
<1> HIDE DEF four
<1>10. IsFiniteSet(five) /\ Cardinality(five) = 5
  <2>1. IsFiniteSet(five) /\ Cardinality(five) = Cardinality(four) + 1 BY ONLY <1>8, <1>9, FS_AddElement
  <2>2. QED BY <1>9, <2>1
<1> HIDE DEF five
<1>11. IsFiniteSet(six) /\ Cardinality(six) = 6
  <2>1. IsFiniteSet(six) /\ Cardinality(six) = Cardinality(five) + 1 BY ONLY <1>8, <1>10, FS_AddElement
  <2>2. QED BY <1>10, <2>1
<1> HIDE DEF six, all, U
<1>12. IsFiniteSet(U) BY ONLY <1>4, <1>6, FS_Subset
<1>13. Cardinality(six) <= Cardinality(U) /\ Cardinality(U) \in Nat
  BY ONLY <1>3, <1>12, FS_Subset, FS_CardinalityType
<1>14. FieldCount(Packet(i)) = 1 + Cardinality(T) BY DEF FieldCount
<1> HIDE DEF T
<1>15. FieldCount(Packet(i)) >= 7 BY ONLY <1>1, <1>11, <1>13, <1>14
<1>16. QED BY ONLY <1>15 DEF HasField6

LEMMA FieldTypes ==
  ASSUME NEW data
  PROVE  Field0(data) \in Names /\ Field6Arguments(data) \subseteq Names
<1>1. {OldName, NewName, NoName, Junk} = Names BY DEF Names
<1>2. Field0(data) \in Names BY <1>1, SenderIsName DEF Field0
<1>3. Field6Arguments(data) \subseteq Names BY <1>1 DEF Field6Arguments
<1>4. QED BY <1>2, <1>3

LEMMA PacketNames ==
  ASSUME NEW i \in Nat, i >= 1
  PROVE  /\ Field0(Packet(i)) = Sender(i)
         /\ kinds[i] = "nick" => Field6Arguments(Packet(i)) = {Sender(i)}
<1> DEFINE data == Packet(i)
<1>0. Len(data) = 4 /\ \A r \in 1..4 : data[r] = [packet |-> i, part |-> r] BY ONLY PacketForm
<1> HIDE DEF data
<1>1. Len(data) = 4 /\ data[1] = [packet |-> i, part |-> 1] BY ONLY <1>0
<1>2. data[1].packet = i /\ data[1].part = 1 BY <1>1
<1>3. Field0(data) = Sender(i) BY <1>2 DEF Field0
<1>4. kinds[i] = "nick" => Field6Arguments(data) = {NewName}
  <2>1. HasField6(data) BY PacketFields DEF data
  <2>2. QED BY ONLY <1>1, <1>2, <2>1 DEF Field6Arguments
<1>5. kinds[i] = "nick" => Sender(i) = NewName
  <2>1. i \in 1..i OBVIOUS
  <2>2. QED BY <2>1 DEF Sender
<1>6. QED BY <1>3, <1>4, <1>5 DEF data

\* A read that is a packet is the next one.
LEMMA NextPacket ==
  ASSUME InboundInv, NEW n \in 1..Len(wire), NEW data, data = SubSeq(wire, 1, n),
         data = Packet(data[1].packet), NEW m \in 0..Len(kinds), AlignedAt(m)
  PROVE  n = 4 /\ m + 1 \in 1..Len(kinds) /\ data = Packet(m + 1)
<1> DEFINE l == Len(kinds)
           w == Len(wire)
           a == 4 * l - w
<1>1. InboundTypeOK /\ WireInv BY DEF InboundInv
<1>2. kinds \in Seq(Kinds) /\ l \in Nat /\ w \in Nat BY <1>1, InboundTypes
<1>3. w = 4 * (l - m) BY DEF AlignedAt
<1>4. Len(data) = n /\ \A k \in 1..n : data[k] = PieceOf(a + k) BY <1>1, ReadForm DEF ReadGives
<1> DEFINE i == m + 1
<1>5. a + 1 = 4 * (i - 1) + 1 /\ 1 \in 1..n /\ i \in Nat /\ i >= 1
  BY ONLY <1>2, <1>3, m \in 0..l, n \in 1..w
<1> HIDE DEF l, w, a, i
<1>6. data[1] = PieceOf(4 * (i - 1) + 1) BY ONLY <1>4, <1>5
<1>7. PieceOf(4 * (i - 1) + 1) = [packet |-> i, part |-> 1]
  <2> DEFINE r == 1
  <2>1. r \in 1..4 OBVIOUS
  <2> HIDE DEF r
  <2>2. PieceOf(4 * (i - 1) + r) = [packet |-> i, part |-> r] BY ONLY <1>5, <2>1, PieceAt
  <2>3. QED BY <2>2 DEF r
<1>8. data[1].packet = i BY <1>6, <1>7
<1>9. data = Packet(i) BY <1>8
<1>10. Len(Packet(i)) = 4 BY PacketForm
<1>11. n = 4 BY ONLY <1>4, <1>9, <1>10
<1>12. i \in 1..l
  <2>1. n \in 1..w /\ m \in 0..l BY DEF w, l
  <2>2. QED BY ONLY <1>2, <1>3, <1>11, <2>1 DEF i
<1>13. QED BY <1>9, <1>11, <1>12 DEF i, l

\* What the two branches have in common when the read is the next packet.
LEMMA AlignedRead ==
  ASSUME InboundInv, ~ended, NEW m \in 0..Len(kinds), AlignedAt(m), m + 1 \in 1..Len(kinds),
         NEW data, data = Packet(m + 1), Read(data), Len(wire') = Len(wire) - 4
  PROVE  /\ kinds' = kinds /\ ~ended'
         /\ Len(wire') = 4 * (Len(kinds') - (m + 1))
         /\ Sender(m + 1)' = Sender(m + 1)
         /\ cleanLogoff' <=> \E j \in 1..m + 1 : kinds'[j] = "logoff"
<1> DEFINE l == Len(kinds)
           w == Len(wire)
           i == m + 1
<1>1. kinds' = kinds /\ ended' = ended /\ cleanLogoff' = (cleanLogoff \/ HasLogoff(data)) BY DEF Read
<1>2. l \in Nat /\ w \in Nat BY InboundTypes DEF InboundInv
<1>3. w = 4 * (l - m) /\ (cleanLogoff <=> \E j \in 1..m : kinds[j] = "logoff") BY DEF AlignedAt
<1>4. HasLogoff(Packet(i)) <=> kinds[i] = "logoff" BY PacketCommands
<1>5. Sender(m + 1)' = Sender(m + 1) BY <1>1 DEF Sender
<1>6. cleanLogoff' <=> \E j \in 1..m + 1 : kinds'[j] = "logoff"
  <2>1. cleanLogoff' <=> cleanLogoff \/ kinds[i] = "logoff" BY <1>1, <1>4
  <2>2. (\E j \in 1..m + 1 : kinds[j] = "logoff") <=> (\E j \in 1..m : kinds[j] = "logoff") \/ kinds[m + 1] = "logoff"
    <3>1. \A j : j \in 1..m + 1 <=> j \in 1..m \/ j = m + 1 BY <1>2
    <3>2. QED BY ONLY <3>1
  <2>3. QED BY ONLY <1>1, <1>3, <2>1, <2>2 DEF i
<1>7. Len(wire') = 4 * (Len(kinds') - (m + 1))
  <2>1. Len(wire') = w - 4 /\ Len(kinds') = l BY <1>1
  <2>2. m \in 0..l BY DEF l
  <2> HIDE DEF w, l
  <2>3. w - 4 = 4 * (l - (m + 1)) BY ONLY <1>2, <1>3, <2>2
  <2>4. QED BY ONLY <2>1, <2>3
<1>8. QED BY ONLY <1>1, <1>5, <1>6, <1>7, ~ended

LEMMA AlignedNick ==
  ASSUME InboundInv, ~ended, NEW m \in 0..Len(kinds), AlignedAt(m), m + 1 \in 1..Len(kinds),
         NEW data, data = Packet(m + 1), ReadNickChanged(data), Len(wire') = Len(wire) - 4
  PROVE  AlignedAt(m + 1)'
<1> DEFINE i == m + 1
<1>1. HasNickChanged(data) /\ Read(data) /\ thisUser' \in Field6Arguments(data)
      /\ chatter' = thisUser' /\ forwarded' = forwarded
  BY DEF ReadNickChanged
<1>2. /\ kinds' = kinds /\ ~ended' /\ Len(wire') = 4 * (Len(kinds') - i) /\ Sender(i)' = Sender(i)
      /\ cleanLogoff' <=> \E j \in 1..i : kinds'[j] = "logoff"
  BY <1>1, AlignedRead
<1>3. i \in Nat /\ i >= 1 /\ m \in Nat BY m + 1 \in 1..Len(kinds), m \in 0..Len(kinds)
<1>4. kinds[i] = "nick" BY <1>1, PacketCommands
<1>5. thisUser' = Sender(i) BY <1>1, <1>3, <1>4, PacketNames
<1>6. Range(forwarded') = {p \in Pieces : p.packet <= i /\ kinds'[p.packet] # "nick"}
  <2>1. Range(forwarded) = {p \in Pieces : p.packet <= m /\ kinds[p.packet] # "nick"} BY DEF AlignedAt
  <2>2. \A p \in Pieces : p.packet \in Nat BY InboundAssumption DEF Pieces
  <2>3. \A p \in Pieces : p.packet <= i /\ kinds[p.packet] # "nick" <=> p.packet <= m /\ kinds[p.packet] # "nick"
    <3> SUFFICES ASSUME NEW p \in Pieces, kinds[p.packet] # "nick" PROVE p.packet <= i <=> p.packet <= m
      OBVIOUS
    <3>1. p.packet # m + 1 BY <1>4
    <3>2. p.packet \in Nat BY <2>2
    <3>3. QED BY ONLY <1>3, <3>1, <3>2
  <2>4. QED BY ONLY <1>1, <1>2, <2>1, <2>3
<1>7. \A k, h \in DOMAIN forwarded' : k < h => Before(forwarded'[k], forwarded'[h]) BY <1>1 DEF AlignedAt
<1>8. thisUser' = (IF i = 0 THEN NoName ELSE Sender(i)') /\ chatter' = thisUser'
  BY ONLY <1>1, <1>2, <1>3, <1>5
<1> HIDE DEF i
<1>9. AlignedAt(i)' BY ONLY <1>2, <1>6, <1>7, <1>8 DEF AlignedAt
<1>10. QED BY <1>9 DEF i

LEMMA AlignedHost ==
  ASSUME InboundInv, ~ended, NEW m \in 0..Len(kinds), AlignedAt(m), m + 1 \in 1..Len(kinds),
         NEW data, data = Packet(m + 1), ReadForHost(data), Len(wire') = Len(wire) - 4
  PROVE  AlignedAt(m + 1)'
<1> DEFINE i == m + 1
           f == Len(forwarded)
<1>1. ~HasNickChanged(data) /\ Read(data) /\ thisUser' = Identified(data)
      /\ chatter' = (IF thisUser' # thisUser THEN thisUser' ELSE chatter) /\ forwarded' = forwarded \o data
  BY DEF ReadForHost
<1>2. /\ kinds' = kinds /\ ~ended' /\ Len(wire') = 4 * (Len(kinds') - i) /\ Sender(i)' = Sender(i)
      /\ cleanLogoff' <=> \E j \in 1..i : kinds'[j] = "logoff"
  BY <1>1, AlignedRead
<1>3. i \in Nat /\ i >= 1 /\ m \in Nat /\ i = m + 1 /\ i \in 1..MaxPackets
  <2>1. MaxPackets \in Nat /\ Len(kinds) \in Nat /\ Len(kinds) <= MaxPackets BY InboundTypes DEF InboundInv
  <2>2. QED BY ONLY <2>1, m + 1 \in 1..Len(kinds), m \in 0..Len(kinds)
<1>4. kinds[i] # "nick" BY <1>1, PacketCommands
<1>5. thisUser' = Sender(i)
  <2>1. thisUser = IF m = 0 THEN NoName ELSE Sender(m) BY DEF AlignedAt
  <2>2. CASE m = 0
    <3>1. HasField6(data) BY PacketFields
    <3>2. Field0(data) = Sender(i) BY <1>3, PacketNames
    <3>3. QED BY <1>1, <2>1, <2>2, <3>1, <3>2 DEF Identified
  <2>3. CASE m # 0
    <3>1. thisUser = Sender(m) /\ Sender(m) # NoName BY <2>1, <2>3, SenderIsName
    <3>2. Sender(i) = Sender(m)
      <4>1. \A j : j \in 1..i <=> j \in 1..m \/ j = i BY ONLY <1>3
      <4>2. (\E j \in 1..i : kinds[j] = "nick") <=> (\E j \in 1..m : kinds[j] = "nick") BY ONLY <1>4, <4>1
      <4>3. QED BY ONLY <4>2 DEF Sender
    <3>3. QED BY <1>1, <3>1, <3>2 DEF Identified
  <2>4. QED BY <2>2, <2>3
<1>6. chatter' = thisUser'
  <2>1. chatter = thisUser BY DEF AlignedAt
  <2>2. QED BY <1>1, <2>1
<1>7. /\ forwarded \in Seq(Pieces) /\ f \in Nat
      /\ data \in Seq(Pieces) /\ Len(data) = 4 /\ \A r \in 1..4 : data[r] = [packet |-> i, part |-> r]
  <2>1. forwarded \in Seq(Pieces) /\ f \in Nat BY InboundTypes DEF InboundInv
  <2>2. Packet(i) \in Seq(Pieces) /\ Len(Packet(i)) = 4
        /\ \A r \in 1..4 : Packet(i)[r] = [packet |-> i, part |-> r]
    BY <1>3, PacketForm
  <2>3. QED BY <2>1, <2>2
<1>8. /\ forwarded' \in Seq(Pieces) /\ Len(forwarded') = f + 4
      /\ \A k \in 1..f : forwarded'[k] = forwarded[k]
      /\ \A r \in 1..4 : forwarded'[f + r] = [packet |-> i, part |-> r]
  <2>0. forwarded \in Seq(Pieces) /\ data \in Seq(Pieces) BY ONLY <1>7
  <2>1. /\ forwarded \o data \in Seq(Pieces) /\ Len(forwarded \o data) = Len(forwarded) + Len(data)
        /\ \A k \in 1..Len(forwarded) : (forwarded \o data)[k] = forwarded[k]
        /\ \A r \in 1..Len(data) : (forwarded \o data)[Len(forwarded) + r] = data[r]
    BY ONLY <2>0, Concatenation
  <2>2. QED BY ONLY <1>1, <1>7, <2>1 DEF f
<1>9. Range(forwarded) = {p \in Pieces : p.packet <= m /\ kinds[p.packet] # "nick"} BY DEF AlignedAt
<1>10. \A k, h \in DOMAIN forwarded : k < h => Before(forwarded[k], forwarded[h]) BY DEF AlignedAt
<1>11. DOMAIN forwarded = 1..f /\ DOMAIN forwarded' = 1..f + 4 BY <1>7, <1>8
<1>12. \A p \in Pieces : p.packet \in Nat /\ p.part \in 1..4 /\ p = [packet |-> p.packet, part |-> p.part]
  BY InboundAssumption, FourParts DEF Pieces
<1> HIDE DEF f, i
<1>13. \A k \in 1..f + 4 : k \in 1..f \/ (k - f \in 1..4 /\ k = f + (k - f)) BY ONLY <1>7
<1>14. \A k \in 1..f : k \in 1..f + 4 BY ONLY <1>7
<1>15. \A r \in 1..4 : f + r \in 1..f + 4 BY ONLY <1>7
<1>16. Range(forwarded') = {p \in Pieces : p.packet <= i /\ kinds'[p.packet] # "nick"}
  <2>1. ASSUME NEW k \in 1..f + 4
        PROVE  forwarded'[k] \in {p \in Pieces : p.packet <= i /\ kinds[p.packet] # "nick"}
    <3>1. CASE k \in 1..f
      <4>1. forwarded'[k] \in Range(forwarded) BY ONLY <1>8, <1>11, <3>1 DEF Range
      <4>2. forwarded'[k] \in Pieces /\ forwarded'[k].packet <= m /\ kinds[forwarded'[k].packet] # "nick"
        BY ONLY <1>9, <4>1
      <4>3. forwarded'[k].packet \in Nat BY <1>12, <4>2
      <4>4. forwarded'[k].packet <= i BY ONLY <1>3, <4>2, <4>3
      <4>5. QED BY ONLY <4>2, <4>4
    <3>2. CASE k \notin 1..f
      <4>1. PICK r \in 1..4 : k = f + r BY ONLY <1>13, <3>2, k \in 1..f + 4
      <4>2. forwarded'[k] = [packet |-> i, part |-> r] BY <1>8, <4>1
      <4>3. [packet |-> i, part |-> r] \in Pieces BY <1>3, FourParts DEF Pieces
      <4>4. QED BY <1>3, <1>4, <4>2, <4>3
    <3>3. QED BY <3>1, <3>2
  <2>2. ASSUME NEW p \in Pieces, p.packet <= i, kinds[p.packet] # "nick"
        PROVE  \E k \in 1..f + 4 : forwarded'[k] = p
    <3>1. CASE p.packet <= m
      <4>1. p \in Range(forwarded) BY ONLY <1>9, <2>2, <3>1, p \in Pieces
      <4>2. PICK k \in 1..f : forwarded[k] = p BY ONLY <1>11, <4>1 DEF Range
      <4>3. QED BY <1>8, <1>14, <4>2
    <3>2. CASE ~(p.packet <= m)
      <4>1. p.packet = i BY ONLY <1>3, <1>12, <2>2, <3>2, p \in Pieces
      <4>2. forwarded'[f + p.part] = p BY <1>8, <1>12, <4>1
      <4>3. f + p.part \in 1..f + 4 BY <1>12, <1>15
      <4>4. QED BY <4>2, <4>3
    <3>3. QED BY <3>1, <3>2
  <2>3. Range(forwarded') = {forwarded'[k] : k \in 1..f + 4} BY ONLY <1>11 DEF Range
  <2>4. QED BY ONLY <1>2, <2>1, <2>2, <2>3
<1>17. \A k, h \in DOMAIN forwarded' : k < h => Before(forwarded'[k], forwarded'[h])
  <2> SUFFICES ASSUME NEW k \in 1..f + 4, NEW h \in 1..f + 4, k < h
               PROVE  Before(forwarded'[k], forwarded'[h])
    BY <1>11
  <2>1. CASE h \in 1..f
    <3>1. k \in 1..f BY ONLY <1>7, <2>1, k < h, k \in 1..f + 4
    <3>2. QED BY <1>8, <1>10, <1>11, <2>1, <3>1
  <2>2. CASE h \notin 1..f
    <3>1. PICK s \in 1..4 : h = f + s BY ONLY <1>13, <2>2, h \in 1..f + 4
    <3>2. forwarded'[h] = [packet |-> i, part |-> s] BY <1>8, <3>1
    <3>3. CASE k \in 1..f
      <4>1. forwarded'[k] \in Range(forwarded) BY ONLY <1>8, <1>11, <3>3 DEF Range
      <4>2. forwarded'[k] \in Pieces /\ forwarded'[k].packet <= m BY ONLY <1>9, <4>1
      <4>3. forwarded'[k].packet \in Nat BY <1>12, <4>2
      <4>4. forwarded'[k].packet < i BY ONLY <1>3, <4>2, <4>3
      <4>5. QED BY ONLY <3>2, <4>4 DEF Before
    <3>4. CASE k \notin 1..f
      <4>1. PICK r \in 1..4 : k = f + r BY ONLY <1>13, <3>4, k \in 1..f + 4
      <4>2. forwarded'[k] = [packet |-> i, part |-> r] BY <1>8, <4>1
      <4>3. r < s BY ONLY <1>7, <3>1, <4>1, k < h
      <4>4. QED BY ONLY <3>2, <4>2, <4>3 DEF Before
    <3>5. QED BY <3>3, <3>4
  <2>3. QED BY <2>1, <2>2
<1>18. thisUser' = (IF i = 0 THEN NoName ELSE Sender(i)') BY ONLY <1>2, <1>3, <1>5 DEF i
<1>19. /\ Len(wire') = 4 * (Len(kinds') - i) /\ (cleanLogoff' <=> \E j \in 1..i : kinds'[j] = "logoff") /\ ~ended'
  BY <1>2 DEF i
<1>20. AlignedAt(i)' BY ONLY <1>6, <1>16, <1>17, <1>18, <1>19 DEF AlignedAt
<1>21. QED BY <1>20 DEF i

\* A read of n pieces, forwarded or not, leaves the rest as it must be.
LEMMA ReadClientKeeps == ASSUME InboundInv, ReadClient PROVE InboundInv'
<1>1. ~ended BY DEF ReadClient
<1>2. PICK n \in 1..Len(wire) : ReadNickChanged(SubSeq(wire, 1, n)) \/ ReadForHost(SubSeq(wire, 1, n))
  BY DEF ReadClient
<1> DEFINE it == SubSeq(wire, 1, n)
<1>3. PICK data : data = it OBVIOUS
<1>4. data = SubSeq(wire, 1, n) /\ (ReadNickChanged(data) \/ ReadForHost(data)) BY <1>2, <1>3
<1> HIDE DEF it
<1>5. Read(data) BY <1>4 DEF ReadNickChanged, ReadForHost
<1>6. /\ wire' \in Seq(Pieces) /\ Len(wire') = Len(wire) - n
      /\ {closed', ended', cleanLogoff', told', died', aligned', cutLogoff'} \subseteq BOOLEAN
      /\ WireInv' /\ LogoffInv' /\ EndInv'
  BY <1>1, <1>4, <1>5, ReadKeeps
<1>7. InboundTypeOK /\ WireInv BY DEF InboundInv
<1>8. /\ kinds \in Seq(Kinds) /\ Len(kinds) \in Nat /\ Len(kinds) <= MaxPackets /\ MaxPackets \in Nat
      /\ Len(wire) \in Nat /\ forwarded \in Seq(Pieces) /\ Len(forwarded) \in Nat
      /\ Len(forwarded) + Len(wire) <= 4 * Len(kinds)
  BY <1>7, InboundTypes
<1>9. data \in Seq(Pieces) /\ Len(data) = n
  <2>1. ReadGives(n) BY <1>7, ReadForm
  <2>2. QED BY ONLY <1>4, <2>1 DEF ReadGives
<1>10. kinds' = kinds /\ aligned' = (aligned /\ data = Packet(data[1].packet)) BY <1>5 DEF Read
<1>11. InboundTypeOK'
  <2>1. thisUser' \in Names /\ chatter' \in Names
    <3>1. thisUser \in Names /\ chatter \in Names BY <1>7 DEF InboundTypeOK
    <3>2. Field0(data) \in Names /\ Field6Arguments(data) \subseteq Names BY FieldTypes
    <3>3. CASE ReadNickChanged(data) BY <3>2, <3>3 DEF ReadNickChanged
    <3>4. CASE ReadForHost(data) BY <3>1, <3>2, <3>4 DEF ReadForHost, Identified
    <3>5. QED BY <1>4, <3>3, <3>4
  <2>2. forwarded' \in Seq(Pieces) /\ Len(forwarded') \in Nat /\ Len(forwarded') <= Len(forwarded) + n
    <3>1. CASE ReadNickChanged(data)
      <4>1. forwarded' = forwarded BY <3>1 DEF ReadNickChanged
      <4>2. QED BY ONLY <1>8, <4>1, n \in 1..Len(wire)
    <3>2. CASE ReadForHost(data)
      <4>1. forwarded' = forwarded \o data BY <3>2 DEF ReadForHost
      <4>2. forwarded \in Seq(Pieces) /\ data \in Seq(Pieces) BY <1>8, <1>9
      <4>3. forwarded \o data \in Seq(Pieces) /\ Len(forwarded \o data) = Len(forwarded) + Len(data)
        BY ONLY <4>2, Concatenation
      <4>4. QED BY ONLY <1>8, <1>9, <4>1, <4>3, n \in 1..Len(wire)
    <3>3. QED BY <1>4, <3>1, <3>2
  <2>3. kinds' \in Seq(Kinds) /\ Len(kinds') <= MaxPackets BY <1>8, <1>10
  <2>4. Len(forwarded') + Len(wire') <= 4 * Len(kinds')
    BY ONLY <1>6, <1>8, <1>10, <2>2, n \in 1..Len(wire)
  <2>5. QED BY ONLY <1>6, <2>1, <2>2, <2>3, <2>4, FourParts DEF InboundTypeOK
<1>12. ASSUME aligned' PROVE \E m \in 0..Len(kinds') : AlignedAt(m)'
  <2>1. aligned /\ data = Packet(data[1].packet) BY <1>10, <1>12
  <2>2. PICK m \in 0..Len(kinds) : AlignedAt(m) BY <2>1 DEF InboundInv
  <2>3. n = 4 /\ m + 1 \in 1..Len(kinds) /\ data = Packet(m + 1) BY <1>4, <2>1, <2>2, NextPacket
  <2>4. Len(wire') = Len(wire) - 4 BY <1>6, <2>3
  <2>5. AlignedAt(m + 1)'
    <3>1. CASE ReadNickChanged(data) BY ONLY InboundInv, <1>1, <2>2, <2>3, <2>4, <3>1, AlignedNick
    <3>2. CASE ReadForHost(data) BY ONLY InboundInv, <1>1, <2>2, <2>3, <2>4, <3>2, AlignedHost
    <3>3. QED BY <1>4, <3>1, <3>2
  <2>6. m + 1 \in 0..Len(kinds') BY <1>10, <2>3
  <2>7. QED BY <2>5, <2>6
<1>13. QED BY <1>6, <1>11, <1>12 DEF InboundInv

\* Along every stream of reads: what is on the wire is the end of what the
\* client sent, a LOGOFF is its last packet, and as long as every read is a
\* packet, slot and thread know the name and the host has all but the notice.
THEOREM InboundSafety == InboundSpec => []InboundInv
<1>1. InboundInit => InboundInv BY InitInboundInv
<1>2. InboundInv /\ [InboundNext]_inboundVars => InboundInv'
  <2> SUFFICES ASSUME InboundInv, [InboundNext]_inboundVars PROVE InboundInv' OBVIOUS
  <2>1. ASSUME NEW kind \in Kinds, ClientSends(kind) PROVE InboundInv' BY <2>1, ClientSendsKeeps
  <2>2. CASE ClientDrops BY <2>2, ClientDropsKeeps
  <2>3. CASE ReadClient BY <2>3, ReadClientKeeps
  <2>4. CASE EndOfStream BY <2>4, EndOfStreamKeeps
  <2>5. CASE UNCHANGED inboundVars
    <3>1. /\ kinds' = kinds /\ wire' = wire /\ closed' = closed /\ ended' = ended /\ thisUser' = thisUser
          /\ chatter' = chatter /\ cleanLogoff' = cleanLogoff /\ forwarded' = forwarded /\ told' = told
          /\ died' = died /\ aligned' = aligned /\ cutLogoff' = cutLogoff
      BY <2>5 DEF inboundVars, history
    <3>2. InboundTypeOK' /\ WireInv' /\ LogoffInv' /\ EndInv'
      BY <3>1 DEF InboundInv, InboundTypeOK, WireInv, LogoffInv, EndInv
    <3>3. ASSUME NEW n, AlignedAt(n) PROVE AlignedAt(n)' BY <3>1, <3>3 DEF AlignedAt, Sender
    <3>4. QED BY <3>1, <3>2, <3>3 DEF InboundInv
  <2>6. CASE ReadOutOfBounds BY <2>6, ReadOutOfBoundsKeeps
  <2>7. QED BY <2>1, <2>2, <2>3, <2>4, <2>5, <2>6 DEF InboundNext
<1>3. QED BY <1>1, <1>2, PTL DEF InboundSpec

\* Whatever the reads, the thread's names are names and it forwards no more
\* than it has read (clientProcess).
THEOREM InboundTypeCorrect == InboundSpec => []InboundTypeOK
<1>1. InboundInv => InboundTypeOK BY DEF InboundInv
<1>2. QED BY <1>1, InboundSafety, PTL

\* As long as every read of a client's bytes is one packet, the host is sent
\* every packet but the name change, whole, once and in order, the slot has
\* the user's name, and the host is told of the end unless the user logged
\* off, however many packets there are (clientProcess).
THEOREM InboundExactWhenAligned == InboundSpec => []ExactWhenAligned
<1>1. InboundInv => ExactWhenAligned
  <2> SUFFICES ASSUME InboundInv, aligned
               PROVE  /\ Range(forwarded) = {p \in Pieces : p.packet <= ReadSoFar /\ kinds[p.packet] # "nick"}
                      /\ \A k, l \in DOMAIN forwarded : k < l => Before(forwarded[k], forwarded[l])
                      /\ ~ended /\ ReadSoFar > 0 => chatter = Sender(ReadSoFar)
                      /\ ended => (told <=> kinds # <<>> /\ "logoff" \notin Range(kinds))
    BY DEF ExactWhenAligned
  <2>1. PICK n \in 0..Len(kinds) : AlignedAt(n) BY DEF InboundInv
  <2>2. ReadSoFar = n
    <3> DEFINE l == Len(kinds)
               w == Len(wire)
    <3>1. l \in Nat /\ w \in Nat BY InboundTypes DEF InboundInv
    <3>2. n \in 0..l /\ w = 4 * (l - n) BY <2>1 DEF AlignedAt
    <3>3. ReadSoFar = l - (w \div 4) BY FourParts DEF ReadSoFar
    <3> HIDE DEF l, w
    <3>4. w \div 4 = l - n BY ONLY <3>1, <3>2
    <3>5. QED BY ONLY <3>1, <3>2, <3>3, <3>4
  <2>3. /\ Range(forwarded) = {p \in Pieces : p.packet <= n /\ kinds[p.packet] # "nick"}
        /\ \A k, l \in DOMAIN forwarded : k < l => Before(forwarded[k], forwarded[l])
        /\ ended => (told <=> kinds # <<>> /\ "logoff" \notin Range(kinds))
        /\ ~ended /\ n > 0 => chatter = Sender(n)
    BY <2>1 DEF AlignedAt
  <2>4. QED BY ONLY <2>2, <2>3
<1>2. QED BY <1>1, InboundSafety, PTL

\* Whatever the reads, a user whose LOGOFF was sent is announced as
\* disconnected only if a read ended within its words (clientProcess).
THEOREM InboundAnnouncedOnlyIfCut == InboundSpec => []AnnouncedOnlyIfCut
<1>1. InboundInv => AnnouncedOnlyIfCut
  <2> SUFFICES ASSUME InboundInv, told, "logoff" \in Range(kinds) PROVE cutLogoff BY DEF AnnouncedOnlyIfCut
  <2>1. ended /\ ~cleanLogoff /\ wire = <<>> BY DEF InboundInv, EndInv
  <2>2. Len(wire) <= 2 BY <2>1
  <2>3. QED BY <2>1, <2>2 DEF InboundInv, LogoffInv
<1>2. QED BY <1>1, InboundSafety, PTL

-----------------------------------------------------------------------------
(* What has been forwarded when a LOGOFF is seen. *)

\* What was forwarded has been read, and nothing is behind a LOGOFF.
ForwardInv ==
    /\ \A k \in DOMAIN forwarded : \E p \in 1..4 * Len(kinds) - Len(wire) : forwarded[k] = PieceOf(p)
    /\ cleanLogoff => closed /\ wire = <<>>
    /\ SparedOnlyIfForwarded

LEMMA PieceOrder ==
  ASSUME NEW p \in Nat, p >= 1, NEW q \in Nat, p < q
  PROVE  Before(PieceOf(p), PieceOf(q))
<1>1. (p - 1) \div 4 < (q - 1) \div 4 \/ ((p - 1) \div 4 = (q - 1) \div 4 /\ (p - 1) % 4 < (q - 1) % 4)
  OBVIOUS
<1>2. QED BY <1>1 DEF Before, PieceOf

LEMMA PieceNumber ==
  ASSUME NEW p \in Nat, p >= 1, NEW l \in Nat, p <= 4 * l
  PROVE  PieceOf(p).packet \in 1..l /\ p = 4 * (PieceOf(p).packet - 1) + PieceOf(p).part
<1>1. (p - 1) \div 4 \in 0..l - 1 /\ p - 1 = 4 * ((p - 1) \div 4) + ((p - 1) % 4) OBVIOUS
<1>2. QED BY <1>1 DEF PieceOf

\* A read with a LOGOFF in it ends the stream: it is forwarded and the LOGOFF
\* with it, or it is not and a name change is before the LOGOFF in it.
LEMMA ReadForwards ==
  ASSUME InboundInv, ForwardInv, NEW n \in 1..Len(wire), NEW data, data = SubSeq(wire, 1, n),
         ReadNickChanged(data) \/ ReadForHost(data)
  PROVE  ForwardInv'
<1> DEFINE l == Len(kinds)
           w == Len(wire)
           a == 4 * l - w
<1>1. InboundTypeOK /\ WireInv /\ LogoffInv BY DEF InboundInv
<1>2. /\ kinds \in Seq(Kinds) /\ DOMAIN kinds = 1..l /\ l \in Nat /\ w \in Nat /\ w <= 4 * l /\ a \in Nat
      /\ n \in 1..w /\ a = 4 * l - w /\ forwarded \in Seq(Pieces) /\ DOMAIN forwarded = 1..Len(forwarded)
  BY <1>1, InboundTypes DEF WireInv
<1>3. /\ data \in Seq(Pieces) /\ Len(data) = n /\ \A k \in 1..n : data[k] = PieceOf(a + k)
      /\ SubSeq(wire, n + 1, w) \in Seq(Pieces) /\ Len(SubSeq(wire, n + 1, w)) = w - n
  <2>1. ReadGives(n) BY <1>1, ReadForm
  <2>2. QED BY ONLY <2>1, data = SubSeq(wire, 1, n) DEF ReadGives, a, w, l
<1>4. /\ kinds' = kinds /\ closed' = closed /\ wire' = SubSeq(wire, n + 1, w)
      /\ cleanLogoff' = (cleanLogoff \/ HasLogoff(data))
  BY <1>3 DEF ReadNickChanged, ReadForHost, Read
<1> HIDE DEF a, w, l
<1>5. ~cleanLogoff
  <2>1. wire # <<>> BY <1>2 DEF w
  <2>2. QED BY <2>1 DEF ForwardInv
<1>6. Len(kinds') = l /\ Len(wire') = w - n /\ 4 * Len(kinds') - Len(wire') = a + n
  <2>1. Len(kinds') = l /\ Len(wire') = w - n BY <1>3, <1>4 DEF l
  <2>2. QED BY ONLY <1>2, <2>1
<1>7. ASSUME NEW k \in 1..n PROVE data[k].packet \in 1..l /\ a + k = 4 * (data[k].packet - 1) + data[k].part
  <2>1. a + k \in Nat /\ a + k >= 1 /\ a + k <= 4 * l BY ONLY <1>2
  <2>2. PieceOf(a + k).packet \in 1..l /\ a + k = 4 * (PieceOf(a + k).packet - 1) + PieceOf(a + k).part
    BY ONLY <1>2, <2>1, PieceNumber
  <2>3. QED BY <1>3, <2>2
<1>8. \A k \in DOMAIN forwarded' : \E p \in 1..4 * Len(kinds') - Len(wire') : forwarded'[k] = PieceOf(p)
  <2>1. \A k \in DOMAIN forwarded : \E p \in 1..a : forwarded[k] = PieceOf(p) BY DEF ForwardInv, a, w, l
  <2>2. CASE ReadNickChanged(data)
    <3>1. forwarded' = forwarded BY <2>2 DEF ReadNickChanged
    <3>2. 1..a \subseteq 1..a + n BY ONLY <1>2
    <3>3. QED BY ONLY <1>6, <2>1, <3>1, <3>2
  <2>3. CASE ReadForHost(data)
    <3> DEFINE f == Len(forwarded)
    <3>1. forwarded' = forwarded \o data BY <2>3 DEF ReadForHost
    <3>2. f \in Nat BY <1>2
    <3>3. /\ Len(forwarded') = f + n /\ DOMAIN forwarded' = 1..f + n
          /\ \A k \in 1..f : forwarded'[k] = forwarded[k]
          /\ \A k \in 1..n : forwarded'[f + k] = data[k]
      <4>1. /\ forwarded \o data \in Seq(Pieces) /\ Len(forwarded \o data) = Len(forwarded) + Len(data)
            /\ \A k \in 1..Len(forwarded) : (forwarded \o data)[k] = forwarded[k]
            /\ \A k \in 1..Len(data) : (forwarded \o data)[Len(forwarded) + k] = data[k]
        BY ONLY <1>2, <1>3, Concatenation
      <4>2. forwarded' \in Seq(Pieces) /\ Len(forwarded') = f + n BY <1>3, <3>1, <4>1
      <4>3. QED BY <1>3, <3>1, <4>1, <4>2
    <3>4. DOMAIN forwarded = 1..f BY <1>2
    <3> HIDE DEF f
    <3>5. ASSUME NEW k \in 1..f + n PROVE \E p \in 1..a + n : forwarded'[k] = PieceOf(p)
      <4>1. CASE k \in 1..f
        <5>1. PICK p \in 1..a : forwarded[k] = PieceOf(p) BY <2>1, <3>4, <4>1
        <5>2. p \in 1..a + n BY ONLY <1>2, <5>1
        <5>3. QED BY <3>3, <4>1, <5>1, <5>2
      <4>2. CASE k \notin 1..f
        <5>1. k - f \in 1..n /\ f + (k - f) = k /\ a + (k - f) \in 1..a + n BY ONLY <1>2, <3>2, <3>5, <4>2
        <5>2. forwarded'[k] = data[k - f] BY <3>3, <5>1
        <5>3. QED BY <1>3, <5>1, <5>2
      <4>3. QED BY <4>1, <4>2
    <3>6. QED BY ONLY <1>6, <3>3, <3>5
  <2>4. QED BY <2>2, <2>3
<1>9. ASSUME cleanLogoff' PROVE closed' /\ wire' = <<>> /\ SparedOnlyIfForwarded'
  <2>1. HasRun(data, "logoff", 2, 4) BY <1>4, <1>5, <1>9 DEF HasLogoff
  <2>2. PICK i \in 1..n : /\ kinds[data[i].packet] = "logoff" /\ data[i].part = 2 /\ i + 2 <= n
    <3>1. PICK i \in DOMAIN data : /\ kinds[data[i].packet] = "logoff" /\ data[i].part = 2
                                   /\ i + (4 - 2) <= Len(data)
      BY <2>1 DEF HasRun
    <3>2. QED BY <1>3, <3>1
  <2>3. /\ data[i].packet = l /\ kinds[l] = "logoff" /\ closed /\ l >= 1
    <3>1. data[i].packet \in 1..l BY <1>7
    <3>2. data[i].packet = l /\ closed BY <1>1, <2>2, <3>1 DEF LogoffInv, l
    <3>3. QED BY <1>2, <2>2, <3>1, <3>2
  <2>4. a + i = 4 * (l - 1) + 2 /\ i + 2 = n /\ n = w
    <3>1. a + i = 4 * (l - 1) + 2 BY <1>7, <2>2, <2>3
    <3>2. QED BY ONLY <1>2, <2>2, <3>1
  <2>5. wire' = <<>> BY <1>2, <1>3, <1>4, <2>4
  <2>6. CASE ReadForHost(data)
    <3>1. ASSUME NEW k \in 2..4 PROVE [packet |-> l, part |-> k] \in Range(forwarded')
      <4> DEFINE m == i + (k - 2)
                 f == Len(forwarded)
      <4>1. m \in 1..n /\ a + m = 4 * (l - 1) + k /\ k \in 1..4 BY ONLY <1>2, <2>2, <2>4, i \in 1..n, k \in 2..4
      <4>2. data[m] = [packet |-> l, part |-> k]
        <5>1. PieceOf(4 * (l - 1) + k) = [packet |-> l, part |-> k] BY ONLY <1>2, <2>3, <4>1, PieceAt
        <5>2. QED BY <1>3, <4>1, <5>1
      <4>3. forwarded' = forwarded \o data BY <2>6 DEF ReadForHost
      <4>4. f + m \in DOMAIN forwarded' /\ forwarded'[f + m] = data[m]
        <5>1. /\ forwarded \o data \in Seq(Pieces) /\ Len(forwarded \o data) = Len(forwarded) + Len(data)
              /\ \A h \in 1..Len(forwarded) : (forwarded \o data)[h] = forwarded[h]
              /\ \A h \in 1..Len(data) : (forwarded \o data)[Len(forwarded) + h] = data[h]
          <6>1. forwarded \in Seq(Pieces) /\ data \in Seq(Pieces) BY <1>2, <1>3
          <6>2. QED BY ONLY <6>1, Concatenation
        <5>2. Len(forwarded) \in Nat /\ m \in 1..Len(data) BY <1>2, <1>3, <4>1
        <5>3. Len(forwarded) + m \in 1..Len(forwarded) + Len(data) BY ONLY <1>3, <5>2
        <5>4. DOMAIN (forwarded \o data) = 1..Len(forwarded) + Len(data) BY ONLY <5>1
        <5>5. Len(forwarded) + m \in DOMAIN forwarded' BY ONLY <4>3, <5>3, <5>4
        <5>6. forwarded'[Len(forwarded) + m] = data[m] BY ONLY <4>3, <5>1, <5>2
        <5>7. QED BY <5>5, <5>6
      <4>5. QED BY <4>2, <4>4 DEF Range
    <3>2. l \in DOMAIN kinds' /\ kinds'[l] = "logoff" BY <1>2, <1>4, <2>3
    <3>3. QED BY <1>4, <2>3, <2>5, <3>1, <3>2 DEF SparedOnlyIfForwarded
  <2>7. CASE ReadNickChanged(data)
    <3>1. PICK h \in 1..n : kinds[data[h].packet] = "nick" /\ data[h].part = 2
      <4>1. HasRun(data, "nick", 2, 3) BY <2>7 DEF ReadNickChanged, HasNickChanged
      <4>2. QED BY <1>3, <4>1 DEF HasRun
    <3> DEFINE j == data[h].packet
    <3>2. j \in 1..l BY <1>7
    <3>3. PieceOf(a + h) = [packet |-> j, part |-> 2]
      <4>1. a + h = 4 * (j - 1) + 2 BY <1>7, <3>1
      <4> HIDE DEF j
      <4>2. j \in Nat /\ j >= 1 BY <1>2, <3>2
      <4>3. \A r \in 1..4 : PieceOf(4 * (j - 1) + r) = [packet |-> j, part |-> r] BY ONLY <4>2, PieceAt
      <4>4. QED BY <4>1, <4>3
    <3>4. ASSUME NEW p \in Range(forwarded') PROVE Before(p, [packet |-> j, part |-> 2])
      <4>1. forwarded' = forwarded BY <2>7 DEF ReadNickChanged
      <4>2. PICK k \in DOMAIN forwarded : p = forwarded[k] BY <3>4, <4>1 DEF Range
      <4>3. PICK q \in 1..a : p = PieceOf(q) BY <4>2 DEF ForwardInv, a, w, l
      <4>4. q \in Nat /\ q >= 1 /\ a + h \in Nat /\ q < a + h BY ONLY <1>2, <3>1, <4>3
      <4>5. Before(PieceOf(q), PieceOf(a + h)) BY ONLY <4>4, PieceOrder
      <4>6. QED BY <3>3, <4>3, <4>5
    <3>5. l \in DOMAIN kinds' /\ kinds'[l] = "logoff" /\ kinds'[j] = "nick" BY <1>2, <1>4, <2>3, <3>1
    <3>6. QED BY <1>4, <2>3, <2>5, <3>2, <3>4, <3>5 DEF SparedOnlyIfForwarded
  <2>8. QED BY <2>6, <2>7
<1>10. SparedOnlyIfForwarded'
  <2>1. CASE cleanLogoff' BY <1>9, <2>1
  <2>2. CASE ~cleanLogoff' BY <2>2 DEF SparedOnlyIfForwarded
  <2>3. QED BY <2>1, <2>2
<1>11. QED BY <1>8, <1>9, <1>10 DEF ForwardInv

\* Sending grows what there is to read, and ends with a LOGOFF.
LEMMA SendingForwards == ASSUME InboundInv, ForwardInv, NEW kind \in Kinds, ClientSends(kind) PROVE ForwardInv'
<1> DEFINE l == Len(kinds)
           w == Len(wire)
<1>1. /\ ~closed /\ kinds' = Append(kinds, kind) /\ wire' = wire \o Packet(l + 1)
      /\ cleanLogoff' = cleanLogoff /\ forwarded' = forwarded /\ l < MaxPackets
  BY DEF ClientSends
<1>2. kinds \in Seq(Kinds) /\ l \in Nat /\ w \in Nat /\ wire \in Seq(Pieces) /\ MaxPackets \in Nat
  BY InboundTypes DEF InboundInv
<1>3. ~cleanLogoff' BY <1>1 DEF ForwardInv
<1>4. Len(kinds') = l + 1 BY <1>1, <1>2
<1>5. Len(wire') = w + 4
  <2>1. Packet(l + 1) \in Seq(Pieces) /\ Len(Packet(l + 1)) = 4
    <3>1. l + 1 \in 1..MaxPackets BY <1>1, <1>2
    <3>2. QED BY ONLY <3>1, PacketForm
  <2>2. Len(wire \o Packet(l + 1)) = Len(wire) + Len(Packet(l + 1)) BY ONLY <1>2, <2>1, Concatenation
  <2>3. QED BY ONLY <1>1, <2>1, <2>2 DEF w
<1>6. 4 * Len(kinds') - Len(wire') = 4 * l - w BY ONLY <1>2, <1>4, <1>5
<1>7. QED BY <1>1, <1>3, <1>6 DEF ForwardInv, SparedOnlyIfForwarded

\* A user who is spared the notice of a disconnection has had the LOGOFF
\* forwarded, unless a name change in the same read kept it back, for any
\* number of packets however they are read (clientProcess).
THEOREM InboundSparedOnlyIfForwarded == InboundSpec => []SparedOnlyIfForwarded
<1>1. InboundInit => ForwardInv BY DEF InboundInit, ForwardInv, SparedOnlyIfForwarded
<1>2. InboundInv /\ ForwardInv /\ [InboundNext]_inboundVars => ForwardInv'
  <2> SUFFICES ASSUME InboundInv, ForwardInv, [InboundNext]_inboundVars PROVE ForwardInv' OBVIOUS
  <2>1. ASSUME NEW kind \in Kinds, ClientSends(kind) PROVE ForwardInv' BY <2>1, SendingForwards
  <2>2. CASE ReadClient
    <3>1. PICK n \in 1..Len(wire) : ReadNickChanged(SubSeq(wire, 1, n)) \/ ReadForHost(SubSeq(wire, 1, n))
      BY <2>2 DEF ReadClient
    <3>2. QED BY <3>1, ReadForwards
  <2>3. CASE ClientDrops
    <3>1. /\ kinds' = kinds /\ wire' = wire /\ forwarded' = forwarded /\ cleanLogoff' = cleanLogoff
          /\ closed' = TRUE
      BY <2>3 DEF ClientDrops
    <3>2. QED BY <3>1 DEF ForwardInv, SparedOnlyIfForwarded
  <2>4. CASE EndOfStream \/ ReadOutOfBounds \/ UNCHANGED inboundVars
    <3>1. /\ kinds' = kinds /\ wire' = wire /\ forwarded' = forwarded /\ cleanLogoff' = cleanLogoff
          /\ closed' = closed
      BY <2>4 DEF EndOfStream, ReadOutOfBounds, inboundVars
    <3>2. QED BY <3>1 DEF ForwardInv, SparedOnlyIfForwarded
  <2>5. QED BY <2>1, <2>2, <2>3, <2>4 DEF InboundNext
<1>3. ForwardInv => SparedOnlyIfForwarded BY DEF ForwardInv
<1>4. QED BY <1>1, <1>2, <1>3, InboundSafety, PTL DEF InboundSpec
=============================================================================
