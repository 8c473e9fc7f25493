------------------------ MODULE AbioCardServer_proofs ------------------------
(***************************************************************************)
(* Proofs about AbioCardServer for all clients, commands and replies, and  *)
(* buffers and connections of any length.                                  *)
(***************************************************************************)
EXTENDS AbioCardServer, FiniteSetTheorems, TLAPS

----------------------------------------------------------------------------
\* TypeOK

\* Where the server is tells whether it has a client, and whether it is in the
\* middle of a reply; process_client keeps nothing back for the next client
\* but the line and the response buffer, which main_client empties.
Serving ==
    /\ pc \in {"accept", "stopped"} <=> client = NoClient
    /\ pc \notin {"store", "send"} => reply = <<>>
    /\ pc = "receive" => snd_rsp = <<>>

\* TypeOK but for the error flag of the line, which no other type depends on.
Buffers ==
    /\ pc \in {"accept", "receive", "process", "store", "send", "stopped"}
    /\ client \in Clients \cup {NoClient}
    /\ backlog \in Seq(Clients)
    /\ conn \in [Clients -> Conn]
    /\ wire \in [Clients -> Seq(Char)]
    /\ socket \in [Clients -> Seq(ReplyChar)]
    /\ rcv_buf \in Seq(Char)
    /\ rcv_cmd \in Seq(Letters)
    /\ snd_rsp \in Seq(ReplyChar)
    /\ reply \in Seq(ReplyChar)
    /\ processed \in [Clients -> Seq(Char)]
    /\ executed \in [Clients -> Seq(Commands)]
    /\ answers \in [Clients -> Seq(ReplyChar)]
    /\ received \in [Clients -> Seq(ReplyChar)]
    /\ Len(rcv_buf) <= RcvBufLen
    /\ Len(rcv_cmd) <= RcvCmdLen
    /\ Len(snd_rsp) <= SndRspLen
    /\ \A c \in Clients : Len(socket[c]) <= SocketLen

Typed == Buffers /\ Serving

\* A reply is made of its characters.
LEMMA ReplyType ==
    ASSUME NEW n \in Nat, NEW cmd \in Commands
    PROVE  Reply(n, cmd) \in Seq(ReplyChar)
<1>1. ReplyLen[cmd] \in Nat
  BY CommandsAssumption
<1>2. Reply(n, cmd) \in [1..ReplyLen[cmd] -> ReplyChar]
  BY <1>1 DEF Reply, ReplyChar
<1> QED
  BY <1>1, <1>2

\* A part of a sequence, for n no longer than it, is one, and so is the rest.
LEMMA Parts ==
    ASSUME NEW S, NEW s \in Seq(S), NEW n \in 0..Len(s)
    PROVE  /\ SubSeq(s, 1, n) \in Seq(S) /\ Len(SubSeq(s, 1, n)) = n
           /\ SubSeq(s, n + 1, Len(s)) \in Seq(S) /\ Len(SubSeq(s, n + 1, Len(s))) = Len(s) - n
           /\ n = Len(s) => SubSeq(s, n + 1, Len(s)) = <<>>
  OBVIOUS

\* The empty sequence, and the rest of a sequence of one element.
LEMMA Nothing ==
    ASSUME NEW S
    PROVE  <<>> \in Seq(S) /\ Len(<<>>) = 0
  OBVIOUS

LEMMA NothingLeft ==
    ASSUME NEW S, NEW s \in Seq(S), Len(s) = 1
    PROVE  Tail(s) = <<>>
<1>1. Tail(s) = SubSeq(s, 2, Len(s))
  OBVIOUS
<1> QED
  BY <1>1

\* A sequence takes one more element, loses its first one, and joins another.
LEMMA Appended ==
    ASSUME NEW S, NEW s \in Seq(S), NEW e \in S
    PROVE  Append(s, e) \in Seq(S) /\ Len(Append(s, e)) = Len(s) + 1
  OBVIOUS

LEMMA FirstAndRest ==
    ASSUME NEW S, NEW s \in Seq(S), s # <<>>
    PROVE  Head(s) \in S /\ Tail(s) \in Seq(S) /\ Len(Tail(s)) = Len(s) - 1
  OBVIOUS

LEMMA Joined ==
    ASSUME NEW S, NEW s \in Seq(S), NEW t \in Seq(S)
    PROVE  s \o t \in Seq(S) /\ Len(s \o t) = Len(s) + Len(t)
  OBVIOUS

\* Nothing is there at the start.
LEMMA TypedInit == Init => Typed
  BY LengthsAssumption DEF Init, Typed, Buffers, Serving, Conn

\* No step of a client breaks a type.
LEMMA TypedClient ==
    ASSUME Typed, NEW c \in Clients, ClientStep(c)
    PROVE  Typed'
<1>1. /\ UNCHANGED <<pc, client, rcv_buf, rcv_cmd, snd_rsp, reply>>
      /\ UNCHANGED <<processed, executed, answers>>
  BY DEF ClientStep, Connect, SendChar, Read, Close, Server, line, history
<1>2. backlog' \in Seq(Clients)
  <2>1. backlog' = backlog \/ backlog' = Append(backlog, c)
    BY DEF ClientStep, Connect, SendChar, Read, Close, connections
  <2>2. backlog \in Seq(Clients)
    BY DEF Typed, Buffers
  <2> QED
    BY <2>1, <2>2, Appended
<1>3. conn' \in [Clients -> Conn]
  BY DEF ClientStep, Connect, SendChar, Read, Close, connections, Typed, Buffers, Conn
<1>4. wire' \in [Clients -> Seq(Char)]
  <2>1. wire \in [Clients -> Seq(Char)] /\ wire[c] \in Seq(Char)
    BY DEF Typed, Buffers
  <2>2. CASE wire' = wire
    BY <2>1, <2>2
  <2>3. ASSUME NEW ch \in Char, wire' = [wire EXCEPT ![c] = Append(@, ch)]
        PROVE  wire' \in [Clients -> Seq(Char)]
    BY <2>1, <2>3
  <2>4. ASSUME NEW k \in 0..Len(wire[c]), wire' = [wire EXCEPT ![c] = SubSeq(@, 1, k)]
        PROVE  wire' \in [Clients -> Seq(Char)]
    <3>1. SubSeq(wire[c], 1, k) \in Seq(Char)
      BY <2>1, Parts
    <3> QED
      BY <2>1, <2>4, <3>1
  <2> QED
    BY <2>2, <2>3, <2>4 DEF ClientStep, Connect, SendChar, Read, Close, connections
<1>5. socket' = socket \/ socket' = [socket EXCEPT ![c] = <<>>]
  BY DEF ClientStep, Connect, SendChar, Read, Close
<1>6. /\ socket' \in [Clients -> Seq(ReplyChar)]
      /\ \A d \in Clients : Len(socket'[d]) <= SocketLen
  <2>1. /\ socket \in [Clients -> Seq(ReplyChar)]
        /\ \A d \in Clients : Len(socket[d]) <= SocketLen
    BY DEF Typed, Buffers
  <2>2. CASE socket' = [socket EXCEPT ![c] = <<>>]
    BY <2>1, <2>2, LengthsAssumption
  <2> QED
    BY <1>5, <2>1, <2>2
<1>7. received' \in [Clients -> Seq(ReplyChar)]
  <2>1. received \in [Clients -> Seq(ReplyChar)] /\ socket[c] \in Seq(ReplyChar)
    BY DEF Typed, Buffers
  <2>2. received' = received \/ received' = [received EXCEPT ![c] = @ \o socket[c]]
    BY DEF ClientStep, Connect, SendChar, Read, Close, Server
  <2>3. received[c] \o socket[c] \in Seq(ReplyChar)
    BY <2>1, Joined
  <2> QED
    BY <2>1, <2>2, <2>3
<1> QED
  BY <1>1, <1>2, <1>3, <1>4, <1>6, <1>7 DEF Typed, Buffers, Serving

\* No step of the server breaks a type or a bound of a buffer.
LEMMA TypedServer ==
    ASSUME Typed, ServerStep \/ Timeout
    PROVE  Typed'
<1>0. pc \notin {"accept", "stopped"} => client \in Clients
  BY DEF Typed, Buffers, Serving
<1>1. CASE Accept
  <2>1. Head(backlog) \in Clients /\ Head(backlog) # NoClient /\ Tail(backlog) \in Seq(Clients)
    <3>1. backlog \in Seq(Clients) /\ backlog # <<>>
      BY <1>1 DEF Accept, Typed, Buffers
    <3> QED
      BY <3>1, FirstAndRest, NamesAssumption
  <2>2. /\ UNCHANGED <<wire, socket, processed, executed, answers, received>>
        /\ backlog' = Tail(backlog)
    BY <1>1 DEF Accept, history
  <2>3. CASE client' = Head(backlog) /\ MainClient /\ UNCHANGED <<conn, rcv_buf, reply>>
    <3>1. /\ rcv_cmd' \in Seq(Letters) /\ Len(rcv_cmd') <= RcvCmdLen
          /\ snd_rsp' \in Seq(ReplyChar) /\ Len(snd_rsp') <= SndRspLen
          /\ snd_rsp' = <<>> /\ pc' = "receive"
      BY <2>3, Nothing, LengthsAssumption DEF MainClient
    <3>2. pc = "accept" /\ reply = <<>>
      BY <1>1 DEF Accept, Typed, Serving
    <3> QED
      BY <2>1, <2>2, <2>3, <3>1, <3>2 DEF Typed, Buffers, Serving
  <2>4. CASE EndClient(Head(backlog), FALSE) /\ UNCHANGED <<snd_rsp, line>>
    <3>1. /\ rcv_buf' \in Seq(Char) /\ Len(rcv_buf') <= RcvBufLen
          /\ reply' \in Seq(ReplyChar) /\ reply' = <<>>
          /\ client' = NoClient /\ pc' = "accept"
      BY <2>4, Nothing, LengthsAssumption DEF EndClient
    <3>2. conn' \in [Clients -> Conn]
      BY <2>1, <2>4 DEF EndClient, Typed, Buffers, Conn
    <3> QED
      BY <2>1, <2>2, <2>4, <3>1, <3>2 DEF line, Typed, Buffers, Serving
  <2> QED
    BY <1>1, <2>3, <2>4 DEF Accept
<1>2. CASE Receive
  <2>1. PICK n \in 1..RcvBufLen : /\ n <= Len(wire[client])
                                  /\ rcv_buf' = SubSeq(wire[client], 1, n)
                                  /\ wire' = [wire EXCEPT ![client] = SubSeq(@, n + 1, Len(@))]
    BY <1>2 DEF Receive
  <2>2. client \in Clients /\ wire \in [Clients -> Seq(Char)] /\ wire[client] \in Seq(Char)
    BY <1>0, <1>2 DEF Receive, Typed, Buffers
  <2>3. n \in 0..Len(wire[client]) /\ n <= RcvBufLen
    BY <2>1, <2>2, LengthsAssumption
  <2>4. /\ rcv_buf' \in Seq(Char) /\ Len(rcv_buf') <= RcvBufLen
        /\ wire' \in [Clients -> Seq(Char)]
    BY <2>1, <2>2, <2>3, Parts
  <2>5. /\ UNCHANGED <<client, backlog, conn, socket, rcv_cmd, snd_rsp, reply>>
        /\ UNCHANGED <<processed, executed, answers, received>>
        /\ pc = "receive" /\ pc' = "process"
    BY <1>2 DEF Receive, line, history
  <2> QED
    BY <2>4, <2>5 DEF Typed, Buffers, Serving
<1>3. ASSUME NEW stop \in BOOLEAN, client \in Clients, EndClient(client, stop),
             UNCHANGED <<backlog, wire, socket, rcv_cmd, snd_rsp, answers, received>>,
             processed' \in [Clients -> Seq(Char)],
             executed' \in [Clients -> Seq(Commands)]
      PROVE  Typed'
  BY <1>3, LengthsAssumption DEF EndClient, Typed, Buffers, Serving, Conn
<1>4. CASE PeerClosed \/ Timeout \/ BrokenPipe
  BY <1>0, <1>3, <1>4 DEF PeerClosed, Timeout, BrokenPipe, line, history, Typed, Buffers
<1>5. ASSUME NextChar
      PROVE  /\ rcv_buf' \in Seq(Char) /\ Len(rcv_buf') <= RcvBufLen
             /\ processed' \in [Clients -> Seq(Char)]
             /\ pc = "process" /\ client \in Clients /\ Head(rcv_buf) \in Char
             /\ UNCHANGED <<backlog, wire, socket, received>>
  <2>1. pc = "process" /\ client \in Clients /\ rcv_buf \in Seq(Char) /\ rcv_buf # <<>>
    BY <1>0, <1>5 DEF NextChar, Typed, Buffers
  <2>2. Head(rcv_buf) \in Char /\ Tail(rcv_buf) \in Seq(Char) /\ Len(Tail(rcv_buf)) = Len(rcv_buf) - 1
    BY <2>1, FirstAndRest
  <2>3. Len(rcv_buf) <= RcvBufLen /\ processed \in [Clients -> Seq(Char)]
    BY DEF Typed, Buffers
  <2>4. Append(processed[client], Head(rcv_buf)) \in Seq(Char)
    BY <2>1, <2>2, <2>3, Appended
  <2>5. /\ rcv_buf' = Tail(rcv_buf)
        /\ processed' = [processed EXCEPT ![client] = Append(@, Head(rcv_buf))]
        /\ UNCHANGED <<backlog, wire, socket, received>>
    BY <1>5 DEF NextChar
  <2>6. Len(Tail(rcv_buf)) <= RcvBufLen
    BY <2>1, <2>2, <2>3, LengthsAssumption
  <2> QED
    BY <2>1, <2>2, <2>3, <2>4, <2>5, <2>6
<1>6. CASE Letter
  <2>1. Head(rcv_buf) \in Letters
    BY <1>6 DEF Letter
  <2>2. \/ rcv_cmd' = rcv_cmd
        \/ Len(rcv_cmd) < RcvCmdLen /\ rcv_cmd' = Append(rcv_cmd, Head(rcv_buf))
    BY <1>6 DEF Letter, StoreLetter, line
  <2>3. rcv_cmd' \in Seq(Letters) /\ Len(rcv_cmd') <= RcvCmdLen
    <3>1. rcv_cmd \in Seq(Letters) /\ Len(rcv_cmd) <= RcvCmdLen
      BY DEF Typed, Buffers
    <3>2. /\ Append(rcv_cmd, Head(rcv_buf)) \in Seq(Letters)
          /\ Len(Append(rcv_cmd, Head(rcv_buf))) = Len(rcv_cmd) + 1
      BY <2>1, <3>1, Appended
    <3> QED
      BY <2>2, <3>1, <3>2, LengthsAssumption
  <2>4. NextChar /\ UNCHANGED <<pc, client, conn, snd_rsp, reply, executed, answers>>
    BY <1>6 DEF Letter
  <2> QED
    BY <1>5, <2>3, <2>4 DEF Typed, Buffers, Serving
<1>7. CASE InvalidChar \/ SkipLine
  <2>1. NextChar /\ UNCHANGED <<pc, client, conn, snd_rsp, reply, executed, answers>>
    BY <1>7 DEF InvalidChar, SkipLine
  <2>2. rcv_cmd' \in Seq(Letters) /\ Len(rcv_cmd') <= RcvCmdLen
    <3>1. rcv_cmd \in Seq(Letters) /\ Len(rcv_cmd) <= RcvCmdLen
      BY DEF Typed, Buffers
    <3>2. rcv_cmd' = rcv_cmd \/ rcv_cmd' = <<>>
      BY <1>7 DEF InvalidChar, SkipLine, ResetLine
    <3>3. CASE rcv_cmd' = <<>>
      BY <3>3, Nothing, LengthsAssumption
    <3> QED
      BY <3>1, <3>2, <3>3
  <2> QED
    BY <1>5, <2>1, <2>2 DEF Typed, Buffers, Serving
<1>8. ASSUME NEW ok \in BOOLEAN, Execute(ok) PROVE Typed'
  <2>1. NextChar /\ rcv_cmd \in Commands /\ client \in Clients
    BY <1>5, <1>8 DEF Execute, IsCommand
  <2>2. Reply(Len(executed[client]) + 1, rcv_cmd) \in Seq(ReplyChar)
    BY <2>1, ReplyType DEF Typed, Buffers
  <2>3. reply' \in Seq(ReplyChar) /\ pc' = IF reply' = <<>> THEN "process" ELSE "store"
    BY <1>8, <2>2 DEF Execute
  <2>4. executed' \in [Clients -> Seq(Commands)]
    BY <1>8, <2>1 DEF Execute, Typed, Buffers
  <2>5. answers' \in [Clients -> Seq(ReplyChar)]
    BY <1>8, <2>1, <2>3 DEF Execute, Typed, Buffers
  <2>6. rcv_cmd' = <<>> /\ UNCHANGED <<client, conn, snd_rsp>>
    BY <1>8 DEF Execute, ResetLine
  <2> QED
    <3>1. rcv_cmd' \in Seq(Letters) /\ Len(rcv_cmd') <= RcvCmdLen
      BY <2>6, Nothing, LengthsAssumption
    <3> QED
      BY <1>5, <2>1, <2>3, <2>4, <2>5, <2>6, <3>1 DEF Typed, Buffers, Serving
<1>9. CASE ExecuteQuit
  <2>1. client \in Clients /\ Eol \in Char
    BY <1>0, <1>9 DEF ExecuteQuit, Char
  <2>2. processed' \in [Clients -> Seq(Char)]
    BY <1>9, <2>1 DEF ExecuteQuit, Typed, Buffers
  <2>3. executed' \in [Clients -> Seq(Commands)]
    BY <1>9, <2>1, CommandsAssumption DEF ExecuteQuit, Typed, Buffers
  <2> QED
    BY <1>3, <1>9, <2>1, <2>2, <2>3 DEF ExecuteQuit, line
<1>10. CASE StoreReply
  <2> DEFINE room == SndRspLen - Len(snd_rsp)
             n == IF room < Len(reply) THEN room ELSE Len(reply)
  <2>1. /\ snd_rsp' = snd_rsp \o SubSeq(reply, 1, n)
        /\ reply' = SubSeq(reply, n + 1, Len(reply))
        /\ pc' = IF n = Len(reply) THEN "process" ELSE "send"
    BY <1>10 DEF StoreReply
  <2>0. n \in Nat /\ n <= SndRspLen - Len(snd_rsp) /\ n <= Len(reply)
    <3>1. reply \in Seq(ReplyChar) /\ snd_rsp \in Seq(ReplyChar) /\ Len(snd_rsp) <= SndRspLen
      BY DEF Typed, Buffers
    <3> QED
      BY <3>1, LengthsAssumption
  <2> HIDE DEF n
  <2>2. n \in 0..Len(reply) /\ reply \in Seq(ReplyChar) /\ snd_rsp \in Seq(ReplyChar)
    BY <2>0 DEF Typed, Buffers
  <2>3. /\ SubSeq(reply, 1, n) \in Seq(ReplyChar) /\ Len(SubSeq(reply, 1, n)) = n
        /\ reply' \in Seq(ReplyChar)
        /\ n = Len(reply) => reply' = <<>>
    BY <2>1, <2>2, Parts
  <2>4. snd_rsp' \in Seq(ReplyChar) /\ Len(snd_rsp') <= SndRspLen
    BY <2>0, <2>1, <2>2, <2>3, Joined, LengthsAssumption
  <2>5. /\ UNCHANGED <<client, backlog, conn, wire, socket, rcv_buf, rcv_cmd>>
        /\ UNCHANGED <<processed, executed, answers, received>>
        /\ pc = "store"
    BY <1>10 DEF StoreReply, connections, line, history
  <2> QED
    BY <2>1, <2>3, <2>4, <2>5 DEF Typed, Buffers, Serving
<1>11. CASE ChunkDone
  <2>1. /\ UNCHANGED <<client, backlog, conn, wire, socket, rcv_buf, rcv_cmd, snd_rsp, reply>>
        /\ UNCHANGED <<processed, executed, answers, received>>
        /\ pc = "process" /\ pc' = IF snd_rsp = <<>> THEN "receive" ELSE "send"
    BY <1>11 DEF ChunkDone, connections, line, history
  <2> QED
    BY <2>1 DEF Typed, Buffers, Serving
<1>12. CASE Send
  <2>0. /\ client \in Clients /\ socket \in [Clients -> Seq(ReplyChar)]
        /\ socket[client] \in Seq(ReplyChar) /\ Len(socket[client]) <= SocketLen
        /\ snd_rsp \in Seq(ReplyChar) /\ Len(snd_rsp) <= SndRspLen
        /\ \A c \in Clients : Len(socket[c]) <= SocketLen
    BY <1>0, <1>12 DEF Send, Typed, Buffers
  <2> DEFINE room == SocketLen - Len(socket[client])
             n == IF room < Len(snd_rsp) THEN room ELSE Len(snd_rsp)
  <2>1. /\ socket' = [socket EXCEPT ![client] = @ \o SubSeq(snd_rsp, 1, n)]
        /\ snd_rsp' = SubSeq(snd_rsp, n + 1, Len(snd_rsp))
        /\ pc' = IF n = Len(snd_rsp) THEN Flushed ELSE "send"
    BY <1>12 DEF Send
  <2>2. n \in 0..Len(snd_rsp) /\ n <= SocketLen - Len(socket[client])
    BY <2>0, LengthsAssumption
  <2> HIDE DEF n
  <2>3. /\ SubSeq(snd_rsp, 1, n) \in Seq(ReplyChar) /\ Len(SubSeq(snd_rsp, 1, n)) = n
        /\ snd_rsp' \in Seq(ReplyChar) /\ Len(snd_rsp') = Len(snd_rsp) - n
        /\ n = Len(snd_rsp) => snd_rsp' = <<>>
    BY <2>0, <2>1, <2>2, Parts
  <2>4. /\ socket' \in [Clients -> Seq(ReplyChar)]
        /\ \A c \in Clients : Len(socket'[c]) <= SocketLen
    <3>1. /\ socket[client] \o SubSeq(snd_rsp, 1, n) \in Seq(ReplyChar)
          /\ Len(socket[client] \o SubSeq(snd_rsp, 1, n)) <= SocketLen
      BY <2>0, <2>2, <2>3, Joined, LengthsAssumption
    <3> QED
      BY <2>0, <2>1, <3>1
  <2>5. /\ UNCHANGED <<client, backlog, conn, wire, rcv_buf, rcv_cmd, reply>>
        /\ UNCHANGED <<processed, executed, answers, received>>
        /\ pc = "send"
    BY <1>12 DEF Send, connections, line, history
  <2>6. Len(snd_rsp') <= SndRspLen
    BY <2>0, <2>1, <2>3, LengthsAssumption
  <2> QED
    BY <2>1, <2>3, <2>4, <2>5, <2>6 DEF Typed, Buffers, Serving, Flushed
<1>13. CASE SendToClosed
  <2>1. /\ UNCHANGED <<client, backlog, wire, socket, rcv_buf, rcv_cmd, reply>>
        /\ UNCHANGED <<processed, executed, answers, received>>
        /\ pc = "send" /\ pc' = Flushed /\ snd_rsp' = <<>>
        /\ conn' = [conn EXCEPT ![client] = "reset"]
    BY <1>13 DEF SendToClosed, line, history
  <2> QED
    BY <2>1, LengthsAssumption DEF Typed, Buffers, Serving, Flushed, Conn
<1>14. CASE SendFails
  <2>1. /\ UNCHANGED <<backlog, wire, socket, rcv_cmd, snd_rsp>>
        /\ UNCHANGED <<processed, executed, answers, received>>
        /\ pc = "send"
    BY <1>14 DEF SendFails, line, history
  <2>2. CASE reply = <<>>
    BY <1>0, <1>3, <1>14, <2>1, <2>2 DEF SendFails, Typed, Buffers
  <2>3. CASE reply # <<>>
    <3>1. /\ reply' = Tail(reply) /\ UNCHANGED <<client, conn, rcv_buf>>
          /\ pc' = IF Len(reply) = 1 THEN "process" ELSE "store"
      BY <1>14, <2>3 DEF SendFails
    <3>2. reply' \in Seq(ReplyChar) /\ (Len(reply) = 1 => reply' = <<>>)
      <4>1. reply \in Seq(ReplyChar)
        BY DEF Typed, Buffers
      <4> QED
        BY <2>3, <3>1, <4>1, FirstAndRest, NothingLeft
    <3> QED
      BY <2>1, <3>1, <3>2 DEF Typed, Buffers, Serving
  <2> QED
    BY <2>2, <2>3
<1> QED
  BY <1>1, <1>2, <1>4, <1>6, <1>7, <1>8, <1>9, <1>10, <1>11, <1>12, <1>13, <1>14
     DEF ServerStep

\* All types and the bounds of all buffers, in every step.
LEMMA TypedStep == Typed /\ [Next]_vars => Typed'
<1>1. Typed /\ UNCHANGED vars => Typed'
  BY DEF vars, connections, line, history, Typed, Buffers, Serving
<1> QED
  BY <1>1, TypedClient, TypedServer DEF Next

\* The error flag of the line is a Boolean.
Flag == rcv_cmd_error \in BOOLEAN

LEMMA FlagStep == Flag /\ [Next]_vars => Flag'
<1> SUFFICES ASSUME Flag, [Next]_vars PROVE Flag'
  OBVIOUS
<1>1. \/ rcv_cmd_error' = rcv_cmd_error
      \/ rcv_cmd_error' = TRUE
      \/ rcv_cmd_error' = FALSE
  BY Zenon DEF Next, vars, ClientStep, Connect, SendChar, Read, Close, Server, ServerStep, line,
         Accept, MainClient, EndClient, Receive, PeerClosed, Timeout, Letter, StoreLetter,
         InvalidChar, SkipLine, ResetLine, Execute, ExecuteQuit, StoreReply, ChunkDone,
         Send, SendToClosed, SendFails, BrokenPipe
<1> QED
  BY <1>1 DEF Flag

\* No buffer of the server overflows, whatever the lengths of lines, chunks
\* and replies (store_rsp_ch and main_client, abiocardserver.c:396-436,
\* 1088-1162): TypeOK has their bounds.
THEOREM BuffersAreBounded == Spec => []TypeOK
<1>1. Init => Flag
  BY DEF Init, Flag
<1>2. Typed /\ Flag => TypeOK
  BY Zenon DEF Typed, Buffers, Flag, TypeOK
<1> QED
  BY <1>1, <1>2, TypedInit, TypedStep, FlagStep, PTL DEF Spec

----------------------------------------------------------------------------
\* The replies

\* A connection is made once, waits in the backlog once, and is not in it any
\* more when it is served.
Waits(c) == \E i \in 1..Len(backlog) : backlog[i] = c

QueueInv ==
    /\ \A i, j \in 1..Len(backlog) : backlog[i] = backlog[j] => i = j
    /\ \A i \in 1..Len(backlog) : conn[backlog[i]] # "none"
    /\ client # NoClient => conn[client] # "none" /\ ~Waits(client)

\* Nothing was answered to a client that is not served yet.
FreshInv ==
    \A c \in Clients : conn[c] = "none" \/ Waits(c) =>
        answers[c] = <<>> /\ received[c] = <<>> /\ socket[c] = <<>>

\* What is answered to the client that is served is on its way: sent, in the
\* response buffer, or still to be stored there.
WholeInv ==
    client # NoClient /\ conn[client] = "open" =>
        (SentTo(client) \o snd_rsp) \o reply = answers[client]

\* What was sent to any client is the beginning of what was answered to it.
BeginInv ==
    \A c \in Clients : \E rest \in Seq(ReplyChar) : SentTo(c) \o rest = answers[c]

RepliesInv == Typed /\ QueueInv /\ FreshInv /\ WholeInv /\ BeginInv

\* Sequences with the same elements are the same.
LEMMA Same ==
    ASSUME NEW S, NEW s \in Seq(S), NEW t \in Seq(S), Len(s) = Len(t),
           \A i \in 1..Len(s) : s[i] = t[i]
    PROVE  s = t
  OBVIOUS

\* The parts of a sequence make it up.
LEMMA PartsJoin ==
    ASSUME NEW S, NEW s \in Seq(S), NEW n \in 0..Len(s)
    PROVE  SubSeq(s, 1, n) \o SubSeq(s, n + 1, Len(s)) = s
<1> DEFINE a == SubSeq(s, 1, n)
           b == SubSeq(s, n + 1, Len(s))
<1>1. a \in Seq(S) /\ b \in Seq(S) /\ Len(a) = n /\ Len(b) = Len(s) - n
  OBVIOUS
<1>2. \A i \in 1..n : a[i] = s[i]
  OBVIOUS
<1>3. \A i \in 1..(Len(s) - n) : b[i] = s[n + i]
  OBVIOUS
<1> HIDE DEF a, b
<1>4. a \o b \in Seq(S) /\ Len(a \o b) = Len(s)
  BY <1>1
<1>5. ASSUME NEW i \in 1..Len(s) PROVE (a \o b)[i] = s[i]
  <2>1. CASE i <= n
    <3>1. (a \o b)[i] = a[i]
      BY <1>1, <2>1
    <3> QED
      BY <1>2, <2>1, <3>1
  <2>2. CASE i > n
    <3>1. (a \o b)[i] = b[i - n]
      BY <1>1, <2>2
    <3>2. i - n \in 1..(Len(s) - n) /\ n + (i - n) = i
      BY <2>2
    <3>3. b[i - n] = s[n + (i - n)]
      BY <1>3, <3>2
    <3>4. s[n + (i - n)] = s[i]
      BY <3>2
    <3> QED
      BY <3>1, <3>3, <3>4, Zenon
  <2>3. i <= n \/ i > n
    OBVIOUS
  <2> QED
    BY <2>1, <2>2, <2>3
<1> QED
  BY <1>4, <1>5, Same DEF a, b

LEMMA Regroup ==
    \A a, b, c \in Seq(ReplyChar) : (a \o b) \o c = a \o (b \o c)
  OBVIOUS

LEMMA JoinNothing ==
    ASSUME NEW S, NEW a \in Seq(S)
    PROVE  a \o <<>> = a /\ <<>> \o a = a
  OBVIOUS

LEMMA BeginIsPrefix ==
    ASSUME NEW S, NEW s \in Seq(S), NEW t \in Seq(S)
    PROVE  IsPrefix(s, s \o t)
  BY DEF IsPrefix

\* The types that the proofs about replies use.
LEMMA ReplyTypes ==
    ASSUME Typed
    PROVE  /\ snd_rsp \in Seq(ReplyChar) /\ reply \in Seq(ReplyChar)
           /\ \A c \in Clients : /\ answers[c] \in Seq(ReplyChar)
                                 /\ received[c] \in Seq(ReplyChar)
                                 /\ socket[c] \in Seq(ReplyChar)
                                 /\ SentTo(c) \in Seq(ReplyChar)
           /\ pc \notin {"accept", "stopped"} => client \in Clients
           /\ client = NoClient \/ client \in Clients
           /\ NoClient \notin Clients
           /\ backlog \in Seq(Clients)
           /\ conn \in [Clients -> Conn]
<1>1. /\ snd_rsp \in Seq(ReplyChar) /\ reply \in Seq(ReplyChar)
      /\ \A c \in Clients : /\ answers[c] \in Seq(ReplyChar)
                            /\ received[c] \in Seq(ReplyChar)
                            /\ socket[c] \in Seq(ReplyChar)
      /\ backlog \in Seq(Clients)
      /\ conn \in [Clients -> Conn]
      /\ client = NoClient \/ client \in Clients
  BY DEF Typed, Buffers
<1>2. \A c \in Clients : SentTo(c) \in Seq(ReplyChar)
  BY <1>1, Joined DEF SentTo
<1>3. pc \notin {"accept", "stopped"} => client \in Clients
  BY <1>1 DEF Typed, Serving
<1> QED
  BY <1>1, <1>2, <1>3, NamesAssumption

\* Nobody is served, nobody waits, and nothing is answered at the start.
LEMMA RepliesInit == Init => RepliesInv
<1> SUFFICES ASSUME Init PROVE RepliesInv
  OBVIOUS
<1>1. /\ \A c \in Clients : answers[c] = <<>> /\ received[c] = <<>> /\ socket[c] = <<>>
      /\ client = NoClient /\ backlog = <<>>
  BY DEF Init
<1>2. QueueInv /\ WholeInv /\ FreshInv
  BY <1>1 DEF QueueInv, WholeInv, FreshInv
<1>3. BeginInv
  <2> SUFFICES ASSUME NEW c \in Clients
               PROVE  \E rest \in Seq(ReplyChar) : SentTo(c) \o rest = answers[c]
    BY DEF BeginInv
  <2>1. <<>> \in Seq(ReplyChar) /\ <<>> \o <<>> = <<>>
    BY JoinNothing, Nothing
  <2> QED
    BY <1>1, <2>1 DEF SentTo
<1> QED
  BY <1>2, <1>3, TypedInit DEF RepliesInv

\* A step that neither connects nor accepts leaves the queue as it is.
LEMMA QueueKept ==
    ASSUME RepliesInv, backlog' = backlog, client' = client \/ client' = NoClient,
           \A c \in Clients : conn'[c] = "none" => conn[c] = "none"
    PROVE  QueueInv'
<1>1. \A i \in 1..Len(backlog) : backlog[i] \in Clients
  BY ReplyTypes DEF RepliesInv
<1>2. client = NoClient \/ client \in Clients
  BY ReplyTypes DEF RepliesInv
<1> QED
  BY <1>1, <1>2 DEF RepliesInv, QueueInv, Waits

\* A step that changes nothing of what is answered or sent.
LEMMA AnswersKept ==
    ASSUME RepliesInv, backlog' = backlog, UNCHANGED <<answers, socket, received>>,
           \A c \in Clients : conn'[c] = "none" => conn[c] = "none"
    PROVE  FreshInv' /\ BeginInv'
<1>1. FreshInv'
  BY DEF RepliesInv, FreshInv, Waits
<1>2. BeginInv'
  BY DEF RepliesInv, BeginInv, SentTo
<1> QED
  BY <1>1, <1>2

\* A step that also leaves what is on its way, or after which the client gets
\* no more.
LEMMA NothingNew ==
    ASSUME RepliesInv, Typed', backlog' = backlog, UNCHANGED <<answers, socket, received>>,
           \A c \in Clients : conn'[c] = "none" => conn[c] = "none",
           \/ client' = NoClient
           \/ client' = client /\ conn' = conn /\ snd_rsp' = snd_rsp /\ reply' = reply
           \/ client' = client /\ client # NoClient /\ conn'[client] # "open"
    PROVE  RepliesInv'
<1>1. WholeInv'
  BY DEF RepliesInv, WholeInv, SentTo
<1> QED
  BY <1>1, QueueKept, AnswersKept DEF RepliesInv

\* A client connects, sends, reads or closes.
LEMMA RepliesClient ==
    ASSUME RepliesInv, Typed', NEW c \in Clients, ClientStep(c)
    PROVE  RepliesInv'
<1> USE DEF ClientStep
<1>1. /\ UNCHANGED <<pc, client, snd_rsp, reply, answers>>
  BY DEF Connect, SendChar, Read, Close, Server, history
<1>2. CASE Connect(c)
  <2>1. /\ conn[c] = "none" /\ conn' = [conn EXCEPT ![c] = "open"]
        /\ backlog' = Append(backlog, c)
        /\ UNCHANGED <<socket, received>>
    BY <1>2 DEF Connect
  <2>2. /\ backlog \in Seq(Clients) /\ conn \in [Clients -> Conn]
        /\ client = NoClient \/ client \in Clients
    BY ReplyTypes DEF RepliesInv
  <2>3. /\ Len(backlog') = Len(backlog) + 1
        /\ \A i \in 1..Len(backlog) : backlog'[i] = backlog[i] /\ backlog[i] \in Clients
        /\ backlog'[Len(backlog) + 1] = c
        /\ Len(backlog) \in Nat
    BY <2>1, <2>2
  <2>4. c # client /\ \A i \in 1..Len(backlog) : backlog[i] # c
    BY <2>1, <2>2, NamesAssumption DEF RepliesInv, QueueInv
  <2>5. \A i, j \in 1..Len(backlog') : backlog'[i] = backlog'[j] => i = j
    <3>1. \A i, j \in 1..Len(backlog) : backlog[i] = backlog[j] => i = j
      BY DEF RepliesInv, QueueInv
    <3> QED
      BY <2>3, <2>4, <3>1
  <2>6. \A i \in 1..Len(backlog') : conn'[backlog'[i]] # "none"
    <3>1. \A i \in 1..Len(backlog) : conn[backlog[i]] # "none"
      BY DEF RepliesInv, QueueInv
    <3> QED
      BY <2>1, <2>2, <2>3, <3>1
  <2>7. \A d \in Clients : Waits(d)' => Waits(d) \/ d = c
    BY <2>3 DEF Waits
  <2>8. client' # NoClient => conn'[client'] # "none" /\ ~\E i \in 1..Len(backlog') : backlog'[i] = client'
    <3>1. client # NoClient => conn[client] # "none" /\ ~Waits(client)
      BY DEF RepliesInv, QueueInv
    <3> QED
      BY <1>1, <2>1, <2>2, <2>3, <2>4, <3>1 DEF Waits
  <2>9. QueueInv'
    BY <2>5, <2>6, <2>8 DEF QueueInv, Waits
  <2>10. FreshInv'
    <3> SUFFICES ASSUME NEW d \in Clients, conn'[d] = "none" \/ Waits(d)'
                 PROVE  answers'[d] = <<>> /\ received'[d] = <<>> /\ socket'[d] = <<>>
      BY DEF FreshInv, Waits
    <3>1. conn[d] = "none" \/ Waits(d)
      BY <2>1, <2>2, <2>7
    <3> QED
      BY <1>1, <2>1, <3>1 DEF RepliesInv, FreshInv
  <2>11. BeginInv'
    BY <1>1, <2>1 DEF RepliesInv, BeginInv, SentTo
  <2>12. WholeInv'
    BY <1>1, <2>1, <2>2, <2>4 DEF RepliesInv, WholeInv, SentTo
  <2> QED
    BY <2>9, <2>10, <2>11, <2>12 DEF RepliesInv
<1>3. ASSUME NEW ch \in Char, SendChar(c, ch) PROVE RepliesInv'
  <2>1. UNCHANGED <<backlog, conn, socket, received>>
    BY <1>3 DEF SendChar
  <2> QED
    BY <1>1, <2>1, NothingNew
<1>4. CASE Read(c)
  <2>1. /\ UNCHANGED <<backlog, conn>>
        /\ received' = [received EXCEPT ![c] = @ \o socket[c]]
        /\ socket' = [socket EXCEPT ![c] = <<>>]
        /\ socket[c] # <<>>
    BY <1>4 DEF Read, connections
  <2>2. socket \in [Clients -> Seq(ReplyChar)] /\ received \in [Clients -> Seq(ReplyChar)]
    BY DEF RepliesInv, Typed, Buffers
  <2>3. \A d \in Clients : SentTo(d)' = SentTo(d)
    <3>1. (received[c] \o socket[c]) \o <<>> = received[c] \o socket[c]
      BY <2>2, Joined, JoinNothing
    <3> QED
      BY <2>1, <2>2, <3>1 DEF SentTo
  <2>4. QueueInv'
    BY <1>1, <2>1, QueueKept
  <2>5. FreshInv'
    BY <1>1, <2>1, <2>2 DEF RepliesInv, FreshInv, Waits
  <2>6. BeginInv'
    BY <1>1, <2>3 DEF RepliesInv, BeginInv
  <2>7. WholeInv'
    <3>1. client = NoClient \/ client \in Clients
      BY ReplyTypes DEF RepliesInv
    <3> QED
      BY <1>1, <2>1, <2>3, <3>1 DEF RepliesInv, WholeInv
  <2> QED
    BY <2>4, <2>5, <2>6, <2>7 DEF RepliesInv
<1>5. CASE Close(c)
  <2>1. /\ UNCHANGED <<backlog, received>>
        /\ socket' = [socket EXCEPT ![c] = <<>>]
        /\ conn[c] = "open"
        /\ conn' = [conn EXCEPT ![c] = "closed"] \/ conn' = [conn EXCEPT ![c] = "reset"]
    BY <1>5 DEF Close
  <2>2. /\ socket \in [Clients -> Seq(ReplyChar)] /\ received \in [Clients -> Seq(ReplyChar)]
        /\ conn \in [Clients -> Conn]
    BY DEF RepliesInv, Typed, Buffers
  <2>3. \A d \in Clients : /\ conn'[d] = "none" => conn[d] = "none"
                           /\ d # c => conn'[d] = conn[d]
        /\ conn'[c] # "open"
    BY <2>1, <2>2
  <2>4. QueueInv'
    BY <1>1, <2>1, <2>3, QueueKept
  <2>5. FreshInv'
    BY <1>1, <2>1, <2>2, <2>3 DEF RepliesInv, FreshInv, Waits
  <2>6. BeginInv'
    <3> SUFFICES ASSUME NEW d \in Clients
                 PROVE  \E rest \in Seq(ReplyChar) : SentTo(d)' \o rest = answers'[d]
      BY DEF BeginInv
    <3>1. PICK rest \in Seq(ReplyChar) : SentTo(d) \o rest = answers[d]
      BY DEF RepliesInv, BeginInv
    <3>2. CASE d # c
      BY <1>1, <2>1, <2>2, <3>1, <3>2 DEF SentTo
    <3>3. CASE d = c
      <4>1. received[c] \in Seq(ReplyChar) /\ socket[c] \in Seq(ReplyChar)
        BY <2>2
      <4>2. socket[c] \o rest \in Seq(ReplyChar)
        BY <4>1, Joined
      <4>3. received[c] \o (socket[c] \o rest) = answers[c]
        <5>1. (received[c] \o socket[c]) \o rest = answers[c]
          BY <3>1, <3>3 DEF SentTo
        <5>2. (received[c] \o socket[c]) \o rest = received[c] \o (socket[c] \o rest)
          BY <3>1, <4>1, Regroup
        <5> QED
          BY <5>1, <5>2, Zenon
      <4>4. SentTo(c)' = received[c]
        BY <2>1, <2>2, <4>1, JoinNothing DEF SentTo
      <4> QED
        BY <1>1, <3>3, <4>2, <4>3, <4>4
    <3> QED
      BY <3>2, <3>3
  <2>7. WholeInv'
    <3> SUFFICES ASSUME client # NoClient, conn'[client] = "open"
                 PROVE  (SentTo(client)' \o snd_rsp) \o reply = answers[client]
      BY <1>1 DEF WholeInv, SentTo
    <3>1. client \in Clients /\ client # c /\ conn[client] = "open"
      BY <2>3, ReplyTypes DEF RepliesInv
    <3>2. SentTo(client)' = SentTo(client)
      BY <1>1, <2>1, <2>2, <3>1 DEF SentTo
    <3> QED
      BY <3>1, <3>2 DEF RepliesInv, WholeInv
  <2> QED
    BY <2>4, <2>5, <2>6, <2>7 DEF RepliesInv
<1> QED
  BY <1>2, <1>3, <1>4, <1>5

\* The next client is accepted: nothing was answered to it.
LEMMA RepliesAccept ==
    ASSUME RepliesInv, Typed', Accept
    PROVE  RepliesInv'
<1> DEFINE c == Head(backlog)
<1>1. /\ pc = "accept" /\ backlog # <<>> /\ backlog' = Tail(backlog)
      /\ UNCHANGED <<answers, socket, received>>
  BY DEF Accept, history
<1>2. /\ backlog \in Seq(Clients) /\ conn \in [Clients -> Conn] /\ reply = <<>>
      /\ NoClient \notin Clients
  BY <1>1, ReplyTypes DEF RepliesInv, Typed, Serving
<1>3. /\ Len(backlog) \in Nat \ {0} /\ Len(backlog') = Len(backlog) - 1
      /\ \A i \in 1..Len(backlog') : backlog'[i] = backlog[i + 1] /\ i + 1 \in 1..Len(backlog)
      /\ c = backlog[1] /\ c \in Clients
      /\ \A i \in 1..Len(backlog) : backlog[i] \in Clients
  BY <1>1, <1>2
<1> HIDE DEF c
<1>4. \/ client' = c /\ MainClient /\ UNCHANGED <<conn, reply>>
      \/ client' = NoClient /\ conn' = [conn EXCEPT ![c] = "ended"]
  BY DEF Accept, EndClient, c
<1>5. /\ \A i, j \in 1..Len(backlog) : backlog[i] = backlog[j] => i = j
      /\ \A i \in 1..Len(backlog) : conn[backlog[i]] # "none"
  BY DEF RepliesInv, QueueInv
<1>6. \A d \in Clients : Waits(d)' => Waits(d) /\ d # c
  BY <1>3, <1>5 DEF Waits
<1>7. Waits(c) /\ conn[c] # "none"
  BY <1>3, <1>5 DEF Waits
<1>8. \A d \in Clients : conn'[d] = "none" => conn[d] = "none"
  BY <1>2, <1>4
<1>9. \A i, j \in 1..Len(backlog') : backlog'[i] = backlog'[j] => i = j
  <2> SUFFICES ASSUME NEW i \in 1..Len(backlog'), NEW j \in 1..Len(backlog'),
                      backlog'[i] = backlog'[j]
               PROVE  i = j
    OBVIOUS
  <2>1. i + 1 = j + 1
    BY <1>3, <1>5
  <2> QED
    BY <2>1
<1>10. \A i \in 1..Len(backlog') : conn'[backlog'[i]] # "none"
  BY <1>3, <1>5, <1>8
<1>11. client' = NoClient \/ (client' = c /\ conn' = conn)
  BY <1>4
<1>12. QueueInv'
  <2>1. ~\E i \in 1..Len(backlog') : backlog'[i] = c
    BY <1>3, <1>6 DEF Waits
  <2>2. client' # NoClient => conn'[client'] # "none" /\ ~\E i \in 1..Len(backlog') : backlog'[i] = client'
    BY <1>7, <1>11, <2>1
  <2> QED
    BY <1>9, <1>10, <2>2 DEF QueueInv, Waits
<1>13. FreshInv'
  <2> SUFFICES ASSUME NEW d \in Clients, conn'[d] = "none" \/ Waits(d)'
               PROVE  answers'[d] = <<>> /\ received'[d] = <<>> /\ socket'[d] = <<>>
    BY DEF FreshInv
  <2>1. conn[d] = "none" \/ Waits(d)
    BY <1>6, <1>8
  <2> QED
    BY <1>1, <2>1 DEF RepliesInv, FreshInv
<1>14. BeginInv'
  BY <1>1 DEF RepliesInv, BeginInv, SentTo
<1>15. WholeInv'
  <2>1. CASE client' = NoClient
    BY <2>1 DEF WholeInv
  <2>2. CASE client' = c /\ MainClient /\ UNCHANGED <<conn, reply>>
    <3>1. answers[c] = <<>> /\ received[c] = <<>> /\ socket[c] = <<>>
      BY <1>3, <1>7 DEF RepliesInv, FreshInv
    <3>2. snd_rsp' = <<>> /\ reply' = <<>>
      BY <1>2, <2>2 DEF MainClient
    <3>3. (<<>> \o <<>>) \o <<>> = <<>>
      BY Nothing, JoinNothing
    <3> QED
      BY <1>1, <2>2, <3>1, <3>2, <3>3, <3>3 DEF WholeInv, SentTo
  <2> QED
    BY <1>4, <2>1, <2>2
<1> QED
  BY <1>12, <1>13, <1>14, <1>15 DEF RepliesInv

\* A command is executed: its reply follows what was answered before.
LEMMA RepliesExecute ==
    ASSUME RepliesInv, Typed', NEW ok \in BOOLEAN, Execute(ok)
    PROVE  RepliesInv'
<1>1. /\ UNCHANGED <<client, conn, snd_rsp, backlog, socket, received>>
      /\ answers' = [answers EXCEPT ![client] = @ \o reply']
      /\ pc = "process"
  BY DEF Execute, NextChar
<1>2. /\ client \in Clients /\ reply = <<>> /\ answers \in [Clients -> Seq(ReplyChar)]
      /\ reply' \in Seq(ReplyChar) /\ snd_rsp \in Seq(ReplyChar)
      /\ client # NoClient
      /\ \A d \in Clients : SentTo(d) \in Seq(ReplyChar) /\ answers[d] \in Seq(ReplyChar)
  BY <1>1, ReplyTypes, NamesAssumption DEF RepliesInv, Typed, Serving, Buffers
<1>3. QueueInv'
  BY <1>1, QueueKept
<1>4. /\ answers'[client] = answers[client] \o reply'
      /\ \A d \in Clients : /\ d # client => answers'[d] = answers[d]
                            /\ SentTo(d)' = SentTo(d)
  BY <1>1, <1>2 DEF SentTo
<1>5. FreshInv'
  <2>1. conn[client] # "none" /\ ~Waits(client)
    BY <1>2 DEF RepliesInv, QueueInv
  <2> QED
    BY <1>1, <1>4, <2>1 DEF RepliesInv, FreshInv, Waits
<1>6. BeginInv'
  <2> SUFFICES ASSUME NEW d \in Clients
               PROVE  \E rest \in Seq(ReplyChar) : SentTo(d)' \o rest = answers'[d]
    BY DEF BeginInv
  <2>1. PICK rest \in Seq(ReplyChar) : SentTo(d) \o rest = answers[d]
    BY DEF RepliesInv, BeginInv
  <2>2. CASE d # client
    BY <1>4, <2>1, <2>2
  <2>3. CASE d = client
    <3>1. rest \o reply' \in Seq(ReplyChar)
      BY <1>2, Joined
    <3>2. SentTo(d) \o (rest \o reply') = (SentTo(d) \o rest) \o reply'
      <4>1. SentTo(d) \in Seq(ReplyChar) /\ reply' \in Seq(ReplyChar)
        BY <1>2
      <4> QED
        BY <2>1, <4>1, Regroup
    <3>3. SentTo(d)' \o (rest \o reply') = answers'[d]
      BY <1>4, <2>1, <2>3, <3>2
    <3> QED
      BY <3>1, <3>3
  <2> QED
    BY <2>2, <2>3
<1>7. WholeInv'
  <2> SUFFICES ASSUME conn[client] = "open"
               PROVE  (SentTo(client)' \o snd_rsp) \o reply' = answers'[client]
    BY <1>1 DEF WholeInv, SentTo
  <2>1. (SentTo(client) \o snd_rsp) \o <<>> = answers[client]
    BY <1>2 DEF RepliesInv, WholeInv
  <2>2. SentTo(client) \o snd_rsp \in Seq(ReplyChar)
    BY <1>2, Joined
  <2>3. SentTo(client) \o snd_rsp = answers[client]
    BY <2>1, <2>2, JoinNothing
  <2> QED
    <3>1. SentTo(client)' \o snd_rsp = answers[client]
      BY <1>1, <1>2, <1>4, <2>3 DEF SentTo
    <3> QED
      BY <1>1, <1>2, <1>4, <3>1
<1> QED
  BY <1>3, <1>5, <1>6, <1>7 DEF RepliesInv

\* A part of the reply moves to the response buffer.
LEMMA RepliesStore ==
    ASSUME RepliesInv, Typed', StoreReply
    PROVE  RepliesInv'
<1> DEFINE room == SndRspLen - Len(snd_rsp)
           n == IF room < Len(reply) THEN room ELSE Len(reply)
<1>1. /\ snd_rsp' = snd_rsp \o SubSeq(reply, 1, n)
      /\ reply' = SubSeq(reply, n + 1, Len(reply))
      /\ UNCHANGED <<client, backlog, conn, socket, received, answers>>
      /\ pc = "store"
  BY DEF StoreReply, connections, history
<1>2. /\ reply \in Seq(ReplyChar) /\ snd_rsp \in Seq(ReplyChar) /\ Len(snd_rsp) <= SndRspLen
      /\ client \in Clients /\ SentTo(client) \in Seq(ReplyChar)
  BY <1>1, ReplyTypes DEF RepliesInv, Typed, Buffers
<1>3. n \in 0..Len(reply)
  BY <1>2, LengthsAssumption
<1> HIDE DEF n
<1> DEFINE a == SubSeq(reply, 1, n)
           b == SubSeq(reply, n + 1, Len(reply))
<1>4. a \in Seq(ReplyChar) /\ b \in Seq(ReplyChar) /\ a \o b = reply
  BY <1>2, <1>3, Parts, PartsJoin
<1>5. snd_rsp' = snd_rsp \o a /\ reply' = b
  BY <1>1
<1> HIDE DEF a, b
<1>6. (SentTo(client) \o (snd_rsp \o a)) \o b = (SentTo(client) \o snd_rsp) \o reply
  <2>1. SentTo(client) \o (snd_rsp \o a) = (SentTo(client) \o snd_rsp) \o a
    BY <1>2, <1>4, Regroup
  <2>2. SentTo(client) \o snd_rsp \in Seq(ReplyChar)
    BY <1>2, Joined
  <2>3. ((SentTo(client) \o snd_rsp) \o a) \o b = (SentTo(client) \o snd_rsp) \o (a \o b)
    BY <1>4, <2>2, Regroup
  <2> QED
    BY <1>4, <2>1, <2>3, Zenon
<1>7. WholeInv'
  BY <1>1, <1>5, <1>6 DEF RepliesInv, WholeInv, SentTo
<1> QED
  BY <1>1, <1>7, QueueKept, AnswersKept DEF RepliesInv

\* A part of the response buffer is sent.
LEMMA RepliesSend ==
    ASSUME RepliesInv, Typed', Send
    PROVE  RepliesInv'
<1> DEFINE room == SocketLen - Len(socket[client])
           n == IF room < Len(snd_rsp) THEN room ELSE Len(snd_rsp)
<1>1. /\ socket' = [socket EXCEPT ![client] = @ \o SubSeq(snd_rsp, 1, n)]
      /\ snd_rsp' = SubSeq(snd_rsp, n + 1, Len(snd_rsp))
      /\ UNCHANGED <<client, backlog, conn, reply, received, answers>>
      /\ pc = "send" /\ conn[client] = "open"
  BY DEF Send, connections, history
<1>2. /\ reply \in Seq(ReplyChar) /\ snd_rsp \in Seq(ReplyChar)
      /\ client \in Clients /\ client # NoClient
      /\ socket \in [Clients -> Seq(ReplyChar)] /\ Len(socket[client]) <= SocketLen
      /\ socket[client] \in Seq(ReplyChar) /\ received[client] \in Seq(ReplyChar)
      /\ SentTo(client) \in Seq(ReplyChar)
  BY <1>1, ReplyTypes, NamesAssumption DEF RepliesInv, Typed, Buffers
<1>3. n \in 0..Len(snd_rsp)
  BY <1>2, LengthsAssumption
<1> HIDE DEF n
<1> DEFINE a == SubSeq(snd_rsp, 1, n)
           b == SubSeq(snd_rsp, n + 1, Len(snd_rsp))
<1>4. a \in Seq(ReplyChar) /\ b \in Seq(ReplyChar) /\ a \o b = snd_rsp
  BY <1>2, <1>3, Parts, PartsJoin
<1>5. socket' = [socket EXCEPT ![client] = @ \o a] /\ snd_rsp' = b
  BY <1>1
<1> HIDE DEF a, b
<1>6. /\ SentTo(client)' = SentTo(client) \o a
      /\ \A d \in Clients : d # client => SentTo(d)' = SentTo(d)
  <2>1. received[client] \o (socket[client] \o a) = (received[client] \o socket[client]) \o a
    <3>1. received[client] \in Seq(ReplyChar) /\ socket[client] \in Seq(ReplyChar)
      BY <1>2
    <3> QED
      BY <1>4, <3>1, Regroup
  <2>2. socket'[client] = socket[client] \o a /\ received' = received
    BY <1>1, <1>2, <1>5
  <2>3. \A d \in Clients : d # client => socket'[d] = socket[d]
    BY <1>2, <1>5
  <2> QED
    BY <1>1, <2>1, <2>2, <2>3 DEF SentTo
<1>7. (SentTo(client)' \o b) \o reply = answers[client]
  <2>1. (SentTo(client) \o snd_rsp) \o reply = answers[client]
    BY <1>1, <1>2 DEF RepliesInv, WholeInv
  <2>2. (SentTo(client) \o a) \o b = SentTo(client) \o (a \o b)
    BY <1>2, <1>4, Regroup
  <2> QED
    BY <1>4, <1>6, <2>1, <2>2
<1>8. WholeInv'
  BY <1>1, <1>5, <1>7 DEF WholeInv, SentTo
<1>9. QueueInv'
  BY <1>1, QueueKept
<1>10. FreshInv'
  <2>1. conn[client] # "none" /\ ~Waits(client)
    BY <1>2 DEF RepliesInv, QueueInv
  <2>2. \A d \in Clients : d # client => socket'[d] = socket[d]
    BY <1>2, <1>5
  <2> QED
    BY <1>1, <2>1, <2>2 DEF RepliesInv, FreshInv, Waits
<1>11. BeginInv'
  <2> SUFFICES ASSUME NEW d \in Clients
               PROVE  \E rest \in Seq(ReplyChar) : SentTo(d)' \o rest = answers'[d]
    BY DEF BeginInv
  <2>1. CASE d # client
    BY <1>1, <1>6, <2>1 DEF RepliesInv, BeginInv
  <2>2. CASE d = client
    <3>1. SentTo(client)' \in Seq(ReplyChar)
      BY <1>2, <1>4, <1>6, Joined
    <3>2. SentTo(client)' \o (b \o reply) = answers[client]
      BY <1>2, <1>4, <1>7, <3>1, Regroup
    <3>3. b \o reply \in Seq(ReplyChar)
      BY <1>2, <1>4, Joined
    <3> QED
      BY <1>1, <2>2, <3>2, <3>3
  <2> QED
    BY <2>1, <2>2
<1> QED
  BY <1>8, <1>9, <1>10, <1>11 DEF RepliesInv

\* The other steps of the server answer and send nothing, and go on with the
\* same client or end it.
LEMMA RepliesOther ==
    ASSUME RepliesInv, Typed',
           \/ Receive \/ PeerClosed \/ Letter \/ InvalidChar \/ SkipLine \/ ExecuteQuit
           \/ ChunkDone \/ SendToClosed \/ SendFails \/ BrokenPipe \/ Timeout
    PROVE  RepliesInv'
<1>1. UNCHANGED <<backlog, answers, socket, received>>
  BY DEF Receive, PeerClosed, Letter, InvalidChar, SkipLine, NextChar, ExecuteQuit, ChunkDone,
         SendToClosed, SendFails, BrokenPipe, Timeout, connections, history
<1>2. conn \in [Clients -> Conn]
  BY ReplyTypes DEF RepliesInv
<1>3. ASSUME NEW stop \in BOOLEAN, EndClient(client, stop) PROVE RepliesInv'
  <2>1. client' = NoClient /\ conn' = [conn EXCEPT ![client] = "ended"]
    BY <1>3 DEF EndClient
  <2>2. \A c \in Clients : conn'[c] = "none" => conn[c] = "none"
    BY <1>2, <2>1
  <2> QED
    BY <1>1, <2>1, <2>2, NothingNew
<1>4. CASE UNCHANGED <<client, conn, snd_rsp, reply>>
  BY <1>1, <1>4, NothingNew
<1>5. CASE PeerClosed \/ ExecuteQuit \/ BrokenPipe \/ Timeout
  <2>1. EndClient(client, TRUE) \/ EndClient(client, FALSE)
    BY <1>5 DEF PeerClosed, ExecuteQuit, BrokenPipe, Timeout
  <2> QED
    BY <1>3, <2>1
<1>6. CASE Receive \/ Letter \/ InvalidChar \/ SkipLine \/ ChunkDone
  <2>1. UNCHANGED <<client, conn, snd_rsp, reply>>
    BY <1>6 DEF Receive, Letter, InvalidChar, SkipLine, ChunkDone, connections
  <2> QED
    BY <1>4, <2>1
<1>7. CASE SendToClosed
  <2>1. /\ client' = client /\ client \in Clients /\ client # NoClient
        /\ conn' = [conn EXCEPT ![client] = "reset"]
    BY <1>7, ReplyTypes DEF SendToClosed, RepliesInv
  <2>2. /\ \A c \in Clients : conn'[c] = "none" => conn[c] = "none"
        /\ conn'[client] # "open"
    BY <1>2, <2>1
  <2> QED
    BY <1>1, <2>1, <2>2, NothingNew
<1>8. CASE SendFails
  <2>1. conn[client] = "reset" /\ pc = "send"
    BY <1>8 DEF SendFails
  <2>2. CASE EndClient(client, FALSE)
    BY <1>3, <2>2
  <2>3. CASE UNCHANGED <<client, conn>>
    <3>1. client # NoClient
      BY <2>1, ReplyTypes DEF RepliesInv
    <3> QED
      BY <1>1, <2>1, <2>3, <3>1, NothingNew
  <2> QED
    BY <1>8, <2>2, <2>3 DEF SendFails
<1> QED
  BY <1>5, <1>6, <1>7, <1>8

LEMMA RepliesStep == RepliesInv /\ [Next]_vars => RepliesInv'
<1> SUFFICES ASSUME RepliesInv, [Next]_vars PROVE RepliesInv'
  OBVIOUS
<1>1. Typed'
  BY TypedStep DEF RepliesInv
<1>2. CASE UNCHANGED vars
  <2>1. UNCHANGED <<client, backlog, conn, socket, snd_rsp, reply, answers, received>>
    BY <1>2 DEF vars, connections, history
  <2> QED
    BY <1>1, <2>1, NothingNew
<1>3. ASSUME NEW c \in Clients, ClientStep(c) PROVE RepliesInv'
  BY <1>1, <1>3, RepliesClient
<1>4. CASE ServerStep \/ Timeout
  BY <1>1, <1>4, RepliesAccept, RepliesExecute, RepliesStore, RepliesSend, RepliesOther
     DEF ServerStep
<1> QED
  BY <1>2, <1>3, <1>4 DEF Next

LEMMA RepliesAlways == Spec => []RepliesInv
  BY RepliesInit, RepliesStep, PTL DEF Spec

\* A client reads the replies to its own commands, whole and in their order:
\* none is lost, doubled, mixed with another or sent to the next client, for
\* replies and buffers of any length (store_rsp_ch, flush_rsp and
\* socket_send_cb, abiocardserver.c:192-216 and 396-436).
THEOREM RepliesAreInOrder == Spec => []RepliesInOrder
<1>1. RepliesInv => RepliesInOrder
  <2> SUFFICES ASSUME RepliesInv, NEW c \in Clients PROVE IsPrefix(SentTo(c), answers[c])
    BY DEF RepliesInOrder
  <2>1. PICK rest \in Seq(ReplyChar) : SentTo(c) \o rest = answers[c]
    BY DEF RepliesInv, BeginInv
  <2>2. SentTo(c) \in Seq(ReplyChar)
    BY ReplyTypes DEF RepliesInv
  <2>3. IsPrefix(SentTo(c), SentTo(c) \o rest)
    BY <2>1, <2>2, BeginIsPrefix
  <2> QED
    BY <2>1, <2>3
<1> QED
  BY <1>1, RepliesAlways, PTL

\* The server waits for the next command of a client only when it has sent
\* the replies to all before (the flush at the end of a chunk,
\* abiocardserver.c:1159).
THEOREM NoReplyIsHeldBack == Spec => []NoReplyIsKept
<1>1. RepliesInv => NoReplyIsKept
  <2> SUFFICES ASSUME RepliesInv, pc = "receive", conn[client] = "open"
               PROVE  SentTo(client) = answers[client]
    BY DEF NoReplyIsKept
  <2>1. snd_rsp = <<>> /\ reply = <<>> /\ client \in Clients /\ client # NoClient
    BY ReplyTypes DEF RepliesInv, Typed, Serving
  <2>2. (SentTo(client) \o <<>>) \o <<>> = answers[client]
    BY <2>1 DEF RepliesInv, WholeInv
  <2>3. SentTo(client) \in Seq(ReplyChar)
    BY <2>1, ReplyTypes DEF RepliesInv
  <2> QED
    BY <2>2, <2>3, JoinNothing
<1> QED
  BY <1>1, RepliesAlways, PTL

----------------------------------------------------------------------------
\* The lines

\* l is what has been collected of the line of chars that has not ended.
Collects(chars, l) ==
    LET before == Len(chars) - Len(l) IN
        /\ before = 0 \/ (before > 0 /\ chars[before] = Eol)
        /\ \A k \in 1..Len(l) : chars[before + k] = l[k]

\* The line of chars that has not ended holds an invalid character or more
\* letters than fit.
Spoilt(chars) ==
    \/ \E i \in 1..Len(chars) : chars[i] = Bad /\ \A k \in i..Len(chars) : chars[k] # Eol
    \/ Len(chars) > RcvCmdLen /\ \A k \in (Len(chars) - RcvCmdLen)..Len(chars) : chars[k] # Eol

\* The line and its error flag tell all there is to know of the characters
\* since the last end of a line.
LineInv ==
    client # NoClient =>
        IF rcv_cmd_error THEN Spoilt(processed[client]) ELSE Collects(processed[client], rcv_cmd)

\* Nothing was processed of a client that is not served yet.
UnservedInv ==
    \A c \in Clients : conn[c] = "none" \/ Waits(c) => processed[c] = <<>> /\ executed[c] = <<>>

LinesInv == RepliesInv /\ LineInv /\ UnservedInv /\ LinesAreExecuted

\* A line goes on with a letter.
LEMMA CollectsLetter ==
    ASSUME NEW chars \in Seq(Char), NEW l \in Seq(Letters), NEW ch \in Letters, Collects(chars, l)
    PROVE  Collects(Append(chars, ch), Append(l, ch))
<1> DEFINE more == Append(chars, ch)
           m == Append(l, ch)
           before == Len(chars) - Len(l)
<1>1. /\ Len(more) = Len(chars) + 1 /\ \A i \in 1..Len(chars) : more[i] = chars[i]
      /\ more[Len(chars) + 1] = ch
  OBVIOUS
<1>2. Len(m) = Len(l) + 1 /\ (\A i \in 1..Len(l) : m[i] = l[i]) /\ m[Len(l) + 1] = ch
  OBVIOUS
<1>3. Len(chars) \in Nat /\ Len(l) \in Nat
  OBVIOUS
<1> HIDE DEF more, m
<1>4. /\ before = 0 \/ (before > 0 /\ chars[before] = Eol)
      /\ \A k \in 1..Len(l) : chars[before + k] = l[k]
  BY DEF Collects
<1>5. before = 0 \/ (before > 0 /\ more[before] = Eol)
  BY <1>1, <1>3, <1>4
<1>6. \A k \in 1..Len(m) : more[before + k] = m[k]
  <2> SUFFICES ASSUME NEW k \in 1..Len(m) PROVE more[before + k] = m[k]
    OBVIOUS
  <2>1. CASE k = Len(m)
    BY <1>1, <1>2, <1>3, <2>1
  <2>2. CASE k \in 1..Len(l)
    <3>1. before + k \in 1..Len(chars)
      BY <1>3, <1>4, <2>2
    <3> QED
      BY <1>1, <1>2, <1>4, <2>2, <3>1
  <2> QED
    BY <1>2, <1>3, <2>1, <2>2
<1>7. Len(more) - Len(m) = before
  BY <1>1, <1>2, <1>3
<1> QED
  BY <1>5, <1>6, <1>7 DEF Collects, more, m

\* Only one line can have been collected.
LEMMA CollectsOne ==
    ASSUME NEW chars \in Seq(Char), NEW l \in Seq(Letters), NEW m \in Seq(Letters),
           Collects(chars, l), Collects(chars, m)
    PROVE  l = m
<1>1. Len(chars) \in Nat /\ Len(l) \in Nat /\ Len(m) \in Nat
  OBVIOUS
<1>2. ASSUME NEW a \in Seq(Letters), NEW b \in Seq(Letters), Collects(chars, a), Collects(chars, b)
      PROVE  ~(Len(a) < Len(b))
  <2> DEFINE before == Len(chars) - Len(a)
             k == before - (Len(chars) - Len(b))
  <2>1. SUFFICES ASSUME Len(a) < Len(b) PROVE FALSE
    OBVIOUS
  <2>2. Len(a) \in Nat /\ Len(b) \in Nat /\ Len(chars) \in Nat
    OBVIOUS
  <2>3. k \in 1..Len(b) /\ (Len(chars) - Len(b)) + k = before /\ before > 0
    BY <1>2, <2>1, <2>2 DEF Collects
  <2>4. chars[before] = Eol /\ chars[before] = b[k]
    BY <1>2, <2>2, <2>3 DEF Collects
  <2>5. b[k] \in Letters
    BY <2>3
  <2> QED
    BY <2>4, <2>5, NamesAssumption
<1>3. Len(l) = Len(m)
  BY <1>1, <1>2
<1>4. \A k \in 1..Len(l) : l[k] = m[k]
  BY <1>1, <1>3 DEF Collects
<1> QED
  BY <1>3, <1>4, Same

\* Nothing is collected of a line in error.
LEMMA SpoiltCollects ==
    ASSUME NEW chars \in Seq(Char), NEW l \in Seq(Letters), Len(l) <= RcvCmdLen,
           Spoilt(chars), Collects(chars, l)
    PROVE  FALSE
<1> DEFINE before == Len(chars) - Len(l)
<1>1. Len(chars) \in Nat /\ Len(l) \in Nat /\ RcvCmdLen \in Nat
  BY LengthsAssumption
<1>2. /\ before = 0 \/ (before > 0 /\ chars[before] = Eol)
      /\ \A k \in 1..Len(l) : chars[before + k] = l[k]
  BY DEF Collects
<1>3. CASE Len(chars) > RcvCmdLen /\ \A k \in (Len(chars) - RcvCmdLen)..Len(chars) : chars[k] # Eol
  <2>1. before > 0 /\ before \in (Len(chars) - RcvCmdLen)..Len(chars)
    BY <1>1, <1>3
  <2> QED
    BY <1>2, <1>3, <2>1
<1>4. ASSUME NEW i \in 1..Len(chars), chars[i] = Bad, \A k \in i..Len(chars) : chars[k] # Eol
      PROVE  FALSE
  <2>1. CASE before >= i
    <3>1. before \in i..Len(chars) /\ before > 0
      BY <1>1, <2>1
    <3> QED
      BY <1>2, <1>4, <3>1
  <2>2. CASE before < i
    <3>1. i - before \in 1..Len(l) /\ before + (i - before) = i
      BY <1>1, <1>2, <2>2
    <3>2. chars[i] = l[i - before] /\ l[i - before] \in Letters
      BY <1>2, <3>1
    <3> QED
      BY <1>4, <3>2, NamesAssumption
  <2> QED
    BY <1>1, <2>1, <2>2
<1> QED
  BY <1>3, <1>4 DEF Spoilt

\* A line stays in error until it ends; an invalid character, or a letter too
\* many, puts it in error.
LEMMA SpoiltGrows ==
    ASSUME NEW chars \in Seq(Char), NEW ch \in Char, ch # Eol,
           \/ Spoilt(chars)
           \/ ch = Bad
           \/ \E l \in Seq(Letters) : Len(l) = RcvCmdLen /\ Collects(chars, l)
    PROVE  Spoilt(Append(chars, ch))
<1> DEFINE more == Append(chars, ch)
<1>1. /\ Len(more) = Len(chars) + 1 /\ \A i \in 1..Len(chars) : more[i] = chars[i]
      /\ more[Len(chars) + 1] = ch
  OBVIOUS
<1>2. Len(chars) \in Nat /\ RcvCmdLen \in Nat
  BY LengthsAssumption
<1> HIDE DEF more
<1>3. CASE ch = Bad
  <2>1. Len(chars) + 1 \in 1..Len(more) /\ \A k \in (Len(chars) + 1)..Len(more) : k = Len(chars) + 1
    BY <1>1, <1>2
  <2>2. more[Len(chars) + 1] = Bad /\ \A k \in (Len(chars) + 1)..Len(more) : more[k] # Eol
    BY <1>1, <1>3, <2>1
  <2> QED
    BY <2>1, <2>2 DEF Spoilt, more
<1>4. CASE Len(chars) > RcvCmdLen /\ \A k \in (Len(chars) - RcvCmdLen)..Len(chars) : chars[k] # Eol
  <2>1. \A k \in (Len(more) - RcvCmdLen)..Len(more) :
          k = Len(more) \/ (k \in (Len(chars) - RcvCmdLen)..Len(chars) /\ k \in 1..Len(chars))
    BY <1>1, <1>2, <1>4
  <2>2. \A k \in (Len(more) - RcvCmdLen)..Len(more) : more[k] # Eol
    BY <1>1, <1>4, <2>1
  <2> QED
    BY <1>1, <1>2, <1>4, <2>2 DEF Spoilt, more
<1>5. ASSUME NEW i \in 1..Len(chars), chars[i] = Bad, \A k \in i..Len(chars) : chars[k] # Eol
      PROVE  Spoilt(Append(chars, ch))
  <2>1. i \in 1..Len(more) /\ \A k \in i..Len(more) :
          k = Len(more) \/ (k \in i..Len(chars) /\ k \in 1..Len(chars))
    BY <1>1, <1>2
  <2>2. more[i] = Bad /\ \A k \in i..Len(more) : more[k] # Eol
    BY <1>1, <1>5, <2>1
  <2> QED
    BY <2>1, <2>2 DEF Spoilt, more
<1>6. ASSUME NEW l \in Seq(Letters), Len(l) = RcvCmdLen, Collects(chars, l)
      PROVE  Spoilt(Append(chars, ch))
  <2> DEFINE before == Len(chars) - RcvCmdLen
  <2>1. before >= 0 /\ \A k \in 1..RcvCmdLen : chars[before + k] \in Letters
    BY <1>6 DEF Collects
  <2>2. \A k \in (Len(more) - RcvCmdLen)..Len(more) :
          k = Len(more) \/ (k \in 1..Len(chars) /\ k - before \in 1..RcvCmdLen /\ k = before + (k - before))
    BY <1>1, <1>2, <2>1
  <2>3. \A k \in (Len(more) - RcvCmdLen)..Len(more) : more[k] # Eol
    BY <1>1, <2>1, <2>2, NamesAssumption
  <2>4. Len(more) > RcvCmdLen
    BY <1>1, <1>2, <2>1
  <2> QED
    BY <2>3, <2>4 DEF Spoilt, more
<1> QED
  BY <1>3, <1>4, <1>5, <1>6 DEF Spoilt

\* Nothing is collected at first, and of the next line when a line has ended.
LEMMA CollectsNone ==
    /\ Collects(<<>>, <<>>)
    /\ \A chars \in Seq(Char) : Collects(Append(chars, Eol), <<>>)
<1>1. Len(<<>>) = 0
  OBVIOUS
<1>2. Collects(<<>>, <<>>)
  BY <1>1 DEF Collects
<1>3. ASSUME NEW chars \in Seq(Char) PROVE Collects(Append(chars, Eol), <<>>)
  <2>1. /\ Len(Append(chars, Eol)) = Len(chars) + 1 /\ Len(chars) \in Nat
        /\ Append(chars, Eol)[Len(chars) + 1] = Eol
    OBVIOUS
  <2> QED
    BY <1>1, <2>1 DEF Collects
<1> QED
  BY <1>2, <1>3

\* The lines that end within chars do not depend on what follows; one ends with
\* the next character if that is an end of line, and is what was collected.
LEMMA LineEnds ==
    ASSUME NEW chars \in Seq(Char), NEW ch \in Char, NEW l \in Seq(Letters)
    PROVE  /\ \A i \in 1..Len(chars) : IsLine(Append(chars, ch), i, l) <=> IsLine(chars, i, l)
           /\ IsLine(Append(chars, ch), Len(chars) + 1, l) <=> ch = Eol /\ Collects(chars, l)
<1> DEFINE more == Append(chars, ch)
<1>1. /\ Len(more) = Len(chars) + 1 /\ \A i \in 1..Len(chars) : more[i] = chars[i]
      /\ more[Len(chars) + 1] = ch
  OBVIOUS
<1>2. Len(chars) \in Nat /\ Len(l) \in Nat
  OBVIOUS
<1> HIDE DEF more
<1>3. ASSUME NEW before \in Int, before + Len(l) <= Len(chars)
      PROVE  ((before = 0 \/ (before > 0 /\ more[before] = Eol))
                 /\ \A k \in 1..Len(l) : more[before + k] = l[k])
             <=> ((before = 0 \/ (before > 0 /\ chars[before] = Eol))
                 /\ \A k \in 1..Len(l) : chars[before + k] = l[k])
  <2>1. CASE before < 0
    <3>1. before # 0 /\ ~(before > 0)
      BY <1>3, <2>1
    <3> QED
      BY <3>1
  <2>2. CASE before >= 0
    <3>1. before > 0 => more[before] = chars[before]
      BY <1>1, <1>2, <1>3, <2>2
    <3>2. \A k \in 1..Len(l) : more[before + k] = chars[before + k]
      BY <1>1, <1>2, <1>3, <2>2
    <3> QED
      BY <3>1, <3>2
  <2> QED
    BY <2>1, <2>2
<1>4. \A i \in 1..Len(chars) : IsLine(more, i, l) <=> IsLine(chars, i, l)
  <2> SUFFICES ASSUME NEW i \in 1..Len(chars) PROVE IsLine(more, i, l) <=> IsLine(chars, i, l)
    OBVIOUS
  <2>1. i - 1 - Len(l) \in Int /\ (i - 1 - Len(l)) + Len(l) <= Len(chars)
    BY <1>2
  <2> QED
    BY <1>1, <1>3, <2>1 DEF IsLine
<1>5. IsLine(more, Len(chars) + 1, l) <=> ch = Eol /\ Collects(chars, l)
  <2> DEFINE before == Len(chars) - Len(l)
  <2>1. before \in Int /\ before + Len(l) <= Len(chars) /\ (Len(chars) + 1) - 1 - Len(l) = before
    BY <1>2
  <2>2. IsLine(more, Len(chars) + 1, l) <=>
          /\ ch = Eol
          /\ before = 0 \/ (before > 0 /\ more[before] = Eol)
          /\ \A k \in 1..Len(l) : more[before + k] = l[k]
    BY <1>1, <2>1 DEF IsLine
  <2>3. Collects(chars, l) <=>
          /\ before = 0 \/ (before > 0 /\ chars[before] = Eol)
          /\ \A k \in 1..Len(l) : chars[before + k] = l[k]
    BY DEF Collects
  <2> HIDE DEF before
  <2> QED
    BY <1>3, <2>1, <2>2, <2>3
<1> QED
  BY <1>4, <1>5 DEF more

\* So a character adds at most one place where a command ends.
LEMMA EndsGrow ==
    ASSUME NEW chars \in Seq(Char), NEW ch \in Char
    PROVE  CommandEnds(Append(chars, ch)) =
             CommandEnds(chars) \cup
               {i \in {Len(chars) + 1} :
                  ch = Eol /\ \E cmd \in Commands : Len(cmd) <= RcvCmdLen /\ Collects(chars, cmd)}
<1>1. Commands \subseteq Seq(Letters)
  BY CommandsAssumption
<1>2. /\ Len(Append(chars, ch)) = Len(chars) + 1
      /\ Len(chars) \in Nat
  OBVIOUS
<1>3. ASSUME NEW i \in 1..Len(chars)
      PROVE  i \in CommandEnds(Append(chars, ch)) <=> i \in CommandEnds(chars)
  BY <1>1, <1>2, LineEnds DEF CommandEnds
<1>4. Len(chars) + 1 \in CommandEnds(Append(chars, ch)) <=>
        ch = Eol /\ \E cmd \in Commands : Len(cmd) <= RcvCmdLen /\ Collects(chars, cmd)
  BY <1>1, <1>2, LineEnds DEF CommandEnds
<1>5. /\ CommandEnds(Append(chars, ch)) \subseteq 1..(Len(chars) + 1)
      /\ CommandEnds(chars) \subseteq 1..Len(chars)
  BY <1>2 DEF CommandEnds
<1>6. \A i \in 1..(Len(chars) + 1) : i \in 1..Len(chars) \/ i = Len(chars) + 1
  BY <1>2
<1> QED
  BY <1>2, <1>3, <1>4, <1>5, <1>6

\* The places are finitely many, and so are those up to one of them.
LEMMA EndsCount ==
    ASSUME NEW chars \in Seq(Char)
    PROVE  /\ IsFiniteSet(CommandEnds(chars))
           /\ \A i \in CommandEnds(chars) :
                Cardinality({e \in CommandEnds(chars) : e <= i}) \in 1..Cardinality(CommandEnds(chars))
<1>1. IsFiniteSet(1..Len(chars))
  BY FS_Interval
<1>2. CommandEnds(chars) \subseteq 1..Len(chars)
  BY DEF CommandEnds
<1>3. IsFiniteSet(CommandEnds(chars)) /\ Cardinality(CommandEnds(chars)) \in Nat
  BY <1>1, <1>2, FS_Subset, FS_CardinalityType
<1>4. ASSUME NEW i \in CommandEnds(chars)
      PROVE  Cardinality({e \in CommandEnds(chars) : e <= i}) \in 1..Cardinality(CommandEnds(chars))
  <2> DEFINE upTo == {e \in CommandEnds(chars) : e <= i}
  <2>1. IsFiniteSet(upTo) /\ Cardinality(upTo) <= Cardinality(CommandEnds(chars)) /\ Cardinality(upTo) \in Nat
    BY <1>3, FS_Subset, FS_CardinalityType
  <2>2. upTo # {}
    BY <1>2
  <2>3. Cardinality(upTo) # 0
    BY <2>1, <2>2, FS_EmptySet
  <2> QED
    BY <1>3, <2>1, <2>3
<1> QED
  BY <1>3, <1>4

\* A character that ends no command leaves the commands as they are.
LEMMA CommandsKept ==
    ASSUME NEW chars \in Seq(Char), NEW ch \in Char, NEW cmds \in Seq(Commands),
           AreCommandsOf(cmds, chars),
           ch # Eol \/ ~\E cmd \in Commands : Len(cmd) <= RcvCmdLen /\ Collects(chars, cmd)
    PROVE  AreCommandsOf(cmds, Append(chars, ch))
<1> DEFINE ends == CommandEnds(chars)
<1>1. CommandEnds(Append(chars, ch)) = ends
  BY EndsGrow
<1>2. ends \subseteq 1..Len(chars)
  BY DEF CommandEnds
<1>3. /\ Len(cmds) = Cardinality(ends)
      /\ \A i \in ends : IsLine(chars, i, cmds[Cardinality({e \in ends : e <= i})])
  BY DEF AreCommandsOf
<1>4. \A i \in ends : cmds[Cardinality({e \in ends : e <= i})] \in Seq(Letters)
  <2>1. \A n \in 1..Len(cmds) : cmds[n] \in Seq(Letters)
    BY CommandsAssumption
  <2> QED
    BY <1>3, <2>1, EndsCount
<1> HIDE DEF ends
<1>5. \A i \in ends : IsLine(Append(chars, ch), i, cmds[Cardinality({e \in ends : e <= i})])
  BY <1>2, <1>3, <1>4, LineEnds
<1> QED
  BY <1>1, <1>3, <1>5 DEF AreCommandsOf

\* An end of line that ends a command adds it.
LEMMA CommandsGrow ==
    ASSUME NEW chars \in Seq(Char), NEW cmds \in Seq(Commands), NEW cmd \in Commands,
           AreCommandsOf(cmds, chars), Len(cmd) <= RcvCmdLen, Collects(chars, cmd)
    PROVE  AreCommandsOf(Append(cmds, cmd), Append(chars, Eol))
<1> DEFINE ends == CommandEnds(chars)
           new == Len(chars) + 1
           more == Append(cmds, cmd)
           Rank(S, i) == Cardinality({e \in S : e <= i})
<1>1. CommandEnds(Append(chars, Eol)) = ends \cup {new}
  BY EndsGrow DEF Char
<1>2. ends \subseteq 1..Len(chars) /\ Len(chars) \in Nat
  BY DEF CommandEnds
<1>3. /\ Len(cmds) = Cardinality(ends)
      /\ \A i \in ends : IsLine(chars, i, cmds[Rank(ends, i)])
  BY DEF AreCommandsOf
<1>4. IsFiniteSet(ends) /\ \A i \in ends : Rank(ends, i) \in 1..Len(cmds)
  BY <1>3, EndsCount
<1>5. Len(more) = Len(cmds) + 1 /\ (\A n \in 1..Len(cmds) : more[n] = cmds[n]) /\ more[Len(cmds) + 1] = cmd
  OBVIOUS
<1>6. (\A n \in 1..Len(cmds) : cmds[n] \in Seq(Letters)) /\ cmd \in Seq(Letters) /\ Eol \in Char
  BY CommandsAssumption DEF Char
<1> HIDE DEF ends, more
<1>7. Cardinality(ends \cup {new}) = Len(cmds) + 1
  <2>1. new \notin ends
    BY <1>2
  <2> QED
    BY <1>3, <1>4, <2>1, FS_AddElement
<1>8. ASSUME NEW i \in ends
      PROVE  IsLine(Append(chars, Eol), i, more[Rank(ends \cup {new}, i)])
  <2>1. {e \in ends \cup {new} : e <= i} = {e \in ends : e <= i}
    BY <1>2
  <2>2. more[Rank(ends \cup {new}, i)] = cmds[Rank(ends, i)] /\ cmds[Rank(ends, i)] \in Seq(Letters)
    BY <1>4, <1>5, <1>6, <2>1
  <2> QED
    BY <1>2, <1>3, <1>6, <2>2, LineEnds
<1>9. IsLine(Append(chars, Eol), new, more[Rank(ends \cup {new}, new)])
  <2>1. {e \in ends \cup {new} : e <= new} = ends \cup {new}
    <3>1. \A e \in ends \cup {new} : e <= new
      BY <1>2
    <3> QED
      BY <3>1
  <2>2. more[Rank(ends \cup {new}, new)] = cmd
    BY <1>5, <1>7, <2>1
  <2> QED
    BY <1>6, <2>2, LineEnds
<1> QED
  BY <1>1, <1>5, <1>7, <1>8, <1>9 DEF AreCommandsOf, more

LEMMA LinesInit == Init => LinesInv
<1> SUFFICES ASSUME Init PROVE LinesInv
  OBVIOUS
<1>1. /\ \A c \in Clients : processed[c] = <<>> /\ executed[c] = <<>>
      /\ client = NoClient
  BY DEF Init
<1>2. CommandEnds(<<>>) = {} /\ Cardinality({}) = 0 /\ Len(<<>>) = 0
  BY FS_EmptySet DEF CommandEnds
<1>3. AreCommandsOf(<<>>, <<>>)
  BY <1>2 DEF AreCommandsOf
<1> QED
  BY <1>1, <1>3, RepliesInit DEF LinesInv, LineInv, UnservedInv, LinesAreExecuted

\* A step that processes no character, and goes on with the line of the client
\* or with none.
LEMMA LinesKept ==
    ASSUME LinesInv, RepliesInv', UNCHANGED <<processed, executed>>,
           \A c \in Clients : conn'[c] = "none" \/ Waits(c)' => conn[c] = "none" \/ Waits(c),
           client' = NoClient \/ (client' = client /\ UNCHANGED line)
    PROVE  LinesInv'
<1>1. LineInv'
  BY DEF LinesInv, LineInv, line
<1>2. UnservedInv' /\ LinesAreExecuted'
  BY DEF LinesInv, UnservedInv, LinesAreExecuted
<1> QED
  BY <1>1, <1>2 DEF LinesInv

\* A step that processes the character ch of the client that is served, and
\* executes cmds in all.
LEMMA LinesChar ==
    ASSUME LinesInv, client \in Clients, client # NoClient, NEW ch \in Char, NEW cmds,
           backlog' = backlog,
           \A c \in Clients : conn'[c] = "none" => conn[c] = "none",
           processed' = [processed EXCEPT ![client] = Append(@, ch)],
           executed' = [executed EXCEPT ![client] = cmds],
           AreCommandsOf(cmds, Append(processed[client], ch))
    PROVE  UnservedInv' /\ LinesAreExecuted'
<1>1. /\ processed \in [Clients -> Seq(Char)] /\ executed \in [Clients -> Seq(Commands)]
      /\ conn[client] # "none" /\ ~Waits(client)
  BY DEF LinesInv, RepliesInv, QueueInv, Typed, Buffers
<1>2. /\ processed'[client] = Append(processed[client], ch) /\ executed'[client] = cmds
      /\ \A c \in Clients : c # client => processed'[c] = processed[c] /\ executed'[c] = executed[c]
  BY <1>1
<1>3. UnservedInv'
  BY <1>1, <1>2 DEF LinesInv, UnservedInv, Waits
<1>4. LinesAreExecuted'
  BY <1>2 DEF LinesInv, LinesAreExecuted
<1> QED
  BY <1>3, <1>4

\* What a step that processes the next character finds.
LEMMA AtChar ==
    ASSUME LinesInv, pc = "process", rcv_buf # <<>>
    PROVE  /\ client \in Clients /\ client # NoClient
           /\ processed \in [Clients -> Seq(Char)] /\ processed[client] \in Seq(Char)
           /\ executed \in [Clients -> Seq(Commands)] /\ executed[client] \in Seq(Commands)
           /\ Head(rcv_buf) \in Char
           /\ rcv_cmd \in Seq(Letters) /\ Len(rcv_cmd) <= RcvCmdLen
           /\ IF rcv_cmd_error THEN Spoilt(processed[client]) ELSE Collects(processed[client], rcv_cmd)
           /\ AreCommandsOf(executed[client], processed[client])
<1>1. Buffers /\ client # NoClient
  BY DEF LinesInv, RepliesInv, Typed, Serving
<1>2. /\ client \in Clients \cup {NoClient} /\ rcv_buf \in Seq(Char)
      /\ processed \in [Clients -> Seq(Char)]
      /\ executed \in [Clients -> Seq(Commands)]
      /\ rcv_cmd \in Seq(Letters) /\ Len(rcv_cmd) <= RcvCmdLen
  BY <1>1 DEF Buffers
<1>3. client \in Clients /\ processed[client] \in Seq(Char) /\ executed[client] \in Seq(Commands)
  BY <1>1, <1>2
<1>4. Head(rcv_buf) \in Char
  BY <1>2
<1> QED
  BY <1>1, <1>2, <1>3, <1>4 DEF LinesInv, LineInv, LinesAreExecuted

\* A letter is stored, is one too many, or belongs to a line in error.
LEMMA LinesLetter ==
    ASSUME LinesInv, RepliesInv', Letter
    PROVE  LinesInv'
<1> DEFINE ch == Head(rcv_buf)
           chars == processed[client]
<1>1. /\ pc = "process" /\ rcv_buf # <<>> /\ ch \in Letters
      /\ UNCHANGED <<backlog, conn, client, executed>>
      /\ processed' = [processed EXCEPT ![client] = Append(@, ch)]
      /\ IF rcv_cmd_error THEN UNCHANGED line ELSE StoreLetter(rcv_cmd)
  BY DEF Letter, NextChar
<1>2. ch \in Char /\ ch # Eol
  BY <1>1, NamesAssumption DEF Char
<1>3. /\ executed' = [executed EXCEPT ![client] = executed[client]]
      /\ processed'[client] = Append(chars, ch)
  BY <1>1, AtChar
<1>4. AreCommandsOf(executed[client], Append(chars, ch))
  BY <1>1, <1>2, AtChar, CommandsKept
<1>5. UnservedInv' /\ LinesAreExecuted'
  BY <1>1, <1>2, <1>3, <1>4, AtChar, LinesChar
<1>6. IF rcv_cmd_error' THEN Spoilt(Append(chars, ch)) ELSE Collects(Append(chars, ch), rcv_cmd')
  <2>1. CASE rcv_cmd_error
    <3>1. rcv_cmd_error' = rcv_cmd_error
      BY <1>1, <2>1 DEF line
    <3>2. Spoilt(Append(chars, ch))
      BY <1>1, <1>2, <2>1, AtChar, SpoiltGrows
    <3> QED
      BY <2>1, <3>1, <3>2
  <2>2. CASE ~rcv_cmd_error /\ Len(rcv_cmd) < RcvCmdLen
    <3>1. rcv_cmd' = Append(rcv_cmd, ch) /\ rcv_cmd_error' = rcv_cmd_error
      BY <1>1, <2>2 DEF StoreLetter
    <3>2. Collects(Append(chars, ch), rcv_cmd')
      BY <1>1, <2>2, <3>1, AtChar, CollectsLetter
    <3> QED
      BY <2>2, <3>1, <3>2
  <2>3. CASE ~rcv_cmd_error /\ ~(Len(rcv_cmd) < RcvCmdLen)
    <3>1. rcv_cmd_error' = TRUE
      BY <1>1, <2>3 DEF StoreLetter
    <3>2. Len(rcv_cmd) = RcvCmdLen
      BY <1>1, <2>3, AtChar, LengthsAssumption
    <3>3. Spoilt(Append(chars, ch))
      BY <1>1, <1>2, <2>3, <3>2, AtChar, SpoiltGrows
    <3> QED
      BY <3>1, <3>3
  <2> QED
    BY <2>1, <2>2, <2>3
<1>7. LineInv'
  BY <1>1, <1>3, <1>6 DEF LineInv
<1> QED
  BY <1>5, <1>7 DEF LinesInv

\* An invalid character puts the line in error.
LEMMA LinesInvalid ==
    ASSUME LinesInv, RepliesInv', InvalidChar
    PROVE  LinesInv'
<1> DEFINE ch == Head(rcv_buf)
           chars == processed[client]
<1>1. /\ pc = "process" /\ rcv_buf # <<>> /\ ch = Bad
      /\ UNCHANGED <<backlog, conn, client, executed>>
      /\ processed' = [processed EXCEPT ![client] = Append(@, ch)]
      /\ rcv_cmd_error' = TRUE
  BY DEF InvalidChar, NextChar
<1>2. ch \in Char /\ ch # Eol
  BY <1>1, NamesAssumption DEF Char
<1>3. /\ executed' = [executed EXCEPT ![client] = executed[client]]
      /\ processed'[client] = Append(chars, ch)
  BY <1>1, AtChar
<1>4. AreCommandsOf(executed[client], Append(chars, ch))
  BY <1>1, <1>2, AtChar, CommandsKept
<1>5. UnservedInv' /\ LinesAreExecuted'
  BY <1>1, <1>2, <1>3, <1>4, AtChar, LinesChar
<1>6. Spoilt(Append(chars, ch))
  BY <1>1, <1>2, AtChar, SpoiltGrows
<1>7. LineInv'
  BY <1>1, <1>3, <1>6 DEF LineInv
<1> QED
  BY <1>5, <1>7 DEF LinesInv

\* A line that is skipped is no command.
LEMMA LinesSkip ==
    ASSUME LinesInv, RepliesInv', SkipLine
    PROVE  LinesInv'
<1> DEFINE chars == processed[client]
<1>1. /\ pc = "process" /\ rcv_buf # <<>> /\ Head(rcv_buf) = Eol
      /\ UNCHANGED <<backlog, conn, client, executed>>
      /\ processed' = [processed EXCEPT ![client] = Append(@, Eol)]
      /\ rcv_cmd_error \/ rcv_cmd \notin Commands
      /\ rcv_cmd' = <<>> /\ rcv_cmd_error' = FALSE
  BY DEF SkipLine, NextChar, IsCommand, ResetLine
<1>2. Eol \in Char
  BY DEF Char
<1>3. /\ executed' = [executed EXCEPT ![client] = executed[client]]
      /\ processed'[client] = Append(chars, Eol)
  BY <1>1, AtChar
<1>4. ASSUME NEW cmd \in Commands, Len(cmd) <= RcvCmdLen, Collects(chars, cmd) PROVE FALSE
  <2>1. cmd \in Seq(Letters)
    BY CommandsAssumption
  <2>2. CASE rcv_cmd_error
    BY <1>1, <1>4, <2>1, <2>2, AtChar, SpoiltCollects
  <2>3. CASE ~rcv_cmd_error
    <3>1. cmd = rcv_cmd
      BY <1>1, <1>4, <2>1, <2>3, AtChar, CollectsOne
    <3> QED
      BY <1>1, <2>3, <3>1
  <2> QED
    BY <2>2, <2>3
<1>5. AreCommandsOf(executed[client], Append(chars, Eol))
  BY <1>1, <1>2, <1>4, AtChar, CommandsKept
<1>6. UnservedInv' /\ LinesAreExecuted'
  BY <1>1, <1>2, <1>3, <1>5, AtChar, LinesChar
<1>7. LineInv'
  <2>1. Collects(Append(chars, Eol), <<>>)
    BY <1>1, AtChar, CollectsNone
  <2> QED
    BY <1>1, <1>3, <2>1 DEF LineInv
<1> QED
  BY <1>6, <1>7 DEF LinesInv

\* A line that is executed is a command.
LEMMA LinesExecute ==
    ASSUME LinesInv, RepliesInv', (\E ok \in BOOLEAN : Execute(ok)) \/ ExecuteQuit
    PROVE  LinesInv'
<1> DEFINE chars == processed[client]
           cmds == Append(executed[client], rcv_cmd)
<1>1. /\ pc = "process" /\ rcv_buf # <<>>
      /\ backlog' = backlog
      /\ processed' = [processed EXCEPT ![client] = Append(@, Eol)]
      /\ executed' = [executed EXCEPT ![client] = Append(@, rcv_cmd)]
      /\ ~rcv_cmd_error /\ rcv_cmd \in Commands
  BY CommandsAssumption DEF Execute, ExecuteQuit, NextChar, IsCommand
<1>2. \/ UNCHANGED <<conn, client>> /\ rcv_cmd' = <<>> /\ rcv_cmd_error' = FALSE
      \/ client' = NoClient /\ conn' = [conn EXCEPT ![client] = "ended"]
  BY DEF Execute, ExecuteQuit, ResetLine, EndClient
<1>3. conn \in [Clients -> Conn]
  BY DEF LinesInv, RepliesInv, Typed, Buffers
<1>4. \A c \in Clients : conn'[c] = "none" => conn[c] = "none"
  BY <1>2, <1>3
<1>5. /\ Eol \in Char /\ processed'[client] = Append(chars, Eol)
      /\ executed' = [executed EXCEPT ![client] = cmds]
  BY <1>1, AtChar DEF Char
<1>6. AreCommandsOf(cmds, Append(chars, Eol))
  BY <1>1, AtChar, CommandsGrow
<1>7. UnservedInv' /\ LinesAreExecuted'
  BY <1>1, <1>4, <1>5, <1>6, AtChar, LinesChar
<1>8. LineInv'
  <2>1. Collects(Append(chars, Eol), <<>>)
    BY <1>1, AtChar, CollectsNone
  <2> QED
    BY <1>2, <1>5, <2>1 DEF LineInv
<1> QED
  BY <1>7, <1>8 DEF LinesInv

\* A client that is accepted starts with an empty line.
LEMMA LinesAccept ==
    ASSUME LinesInv, RepliesInv', Accept
    PROVE  LinesInv'
<1> DEFINE c == Head(backlog)
<1>1. /\ backlog # <<>> /\ backlog' = Tail(backlog) /\ UNCHANGED <<processed, executed>>
  BY DEF Accept, history
<1>2. backlog \in Seq(Clients) /\ conn \in [Clients -> Conn] /\ NoClient \notin Clients
  BY NamesAssumption DEF LinesInv, RepliesInv, Typed, Buffers
<1>3. /\ Len(backlog) \in Nat \ {0} /\ Len(backlog') = Len(backlog) - 1
      /\ \A i \in 1..Len(backlog') : backlog'[i] = backlog[i + 1] /\ i + 1 \in 1..Len(backlog)
      /\ c = backlog[1] /\ c \in Clients
  BY <1>1, <1>2
<1> HIDE DEF c
<1>4. \/ client' = c /\ MainClient /\ UNCHANGED conn
      \/ client' = NoClient /\ conn' = [conn EXCEPT ![c] = "ended"]
  BY DEF Accept, EndClient, c
<1>5. Waits(c) /\ \A d \in Clients : Waits(d)' => Waits(d)
  BY <1>3 DEF Waits
<1>6. \A d \in Clients : conn'[d] = "none" \/ Waits(d)' => conn[d] = "none" \/ Waits(d)
  BY <1>2, <1>4, <1>5
<1>7. CASE client' = NoClient
  BY <1>1, <1>6, <1>7, LinesKept
<1>8. CASE client' = c /\ MainClient
  <2>1. processed'[c] = <<>> /\ rcv_cmd' = <<>> /\ rcv_cmd_error' = FALSE
    BY <1>1, <1>3, <1>5, <1>8 DEF LinesInv, UnservedInv, MainClient
  <2>2. LineInv'
    BY <1>8, <2>1, CollectsNone DEF LineInv
  <2>3. UnservedInv' /\ LinesAreExecuted'
    BY <1>1, <1>6 DEF LinesInv, UnservedInv, LinesAreExecuted
  <2> QED
    BY <2>2, <2>3 DEF LinesInv
<1> QED
  BY <1>4, <1>7, <1>8

\* The clients process nothing; one that connects has not been served.
LEMMA LinesClient ==
    ASSUME LinesInv, RepliesInv', NEW c \in Clients, ClientStep(c)
    PROVE  LinesInv'
<1>1. UNCHANGED <<client, line, processed, executed>>
  BY DEF ClientStep, Connect, SendChar, Read, Close, Server, history
<1>2. backlog \in Seq(Clients) /\ conn \in [Clients -> Conn]
  BY DEF LinesInv, RepliesInv, Typed, Buffers
<1>3. \A d \in Clients : conn'[d] = "none" \/ Waits(d)' => conn[d] = "none" \/ Waits(d)
  <2>1. CASE Connect(c)
    <3>1. conn[c] = "none" /\ conn' = [conn EXCEPT ![c] = "open"] /\ backlog' = Append(backlog, c)
      BY <2>1 DEF Connect
    <3>2. \A i \in 1..Len(backlog') : backlog'[i] = c \/ (i \in 1..Len(backlog) /\ backlog'[i] = backlog[i])
      BY <1>2, <3>1
    <3> QED
      BY <1>2, <3>1, <3>2 DEF Waits
  <2>2. CASE \/ \E ch \in Char : SendChar(c, ch)
             \/ Read(c)
    <3>1. UNCHANGED <<backlog, conn>>
      BY <2>2 DEF SendChar, Read, connections
    <3> QED
      BY <3>1 DEF Waits
  <2>3. CASE Close(c)
    <3>1. backlog' = backlog /\ (conn' = [conn EXCEPT ![c] = "closed"] \/ conn' = [conn EXCEPT ![c] = "reset"])
      BY <2>3 DEF Close
    <3> QED
      BY <1>2, <3>1 DEF Waits
  <2> QED
    BY <2>1, <2>2, <2>3 DEF ClientStep
<1> QED
  BY <1>1, <1>3, LinesKept

\* The other steps of the server process nothing.
LEMMA LinesOther ==
    ASSUME LinesInv, RepliesInv',
           \/ Receive \/ PeerClosed \/ StoreReply \/ ChunkDone
           \/ Send \/ SendToClosed \/ SendFails \/ BrokenPipe \/ Timeout
    PROVE  LinesInv'
<1>1. UNCHANGED <<backlog, line, processed, executed>>
  BY DEF Receive, PeerClosed, StoreReply, ChunkDone, Send, SendToClosed, SendFails, BrokenPipe,
         Timeout, connections, history
<1>2. \/ UNCHANGED <<client, conn>>
      \/ client' = client /\ conn' = [conn EXCEPT ![client] = "reset"]
      \/ client' = NoClient /\ conn' = [conn EXCEPT ![client] = "ended"]
  BY DEF Receive, PeerClosed, StoreReply, ChunkDone, Send, SendToClosed, SendFails, BrokenPipe,
         Timeout, EndClient, connections
<1>3. conn \in [Clients -> Conn]
  BY DEF LinesInv, RepliesInv, Typed, Buffers
<1>4. \A d \in Clients : conn'[d] = "none" \/ Waits(d)' => conn[d] = "none" \/ Waits(d)
  BY <1>1, <1>2, <1>3 DEF Waits
<1> QED
  BY <1>1, <1>2, <1>4, LinesKept

LEMMA LinesStep == LinesInv /\ [Next]_vars => LinesInv'
<1> SUFFICES ASSUME LinesInv, [Next]_vars PROVE LinesInv'
  OBVIOUS
<1>1. RepliesInv'
  BY RepliesStep DEF LinesInv
<1>2. CASE UNCHANGED vars
  <2>1. UNCHANGED <<client, line, backlog, conn, processed, executed>>
    BY <1>2 DEF vars, connections, history
  <2>2. \A d \in Clients : conn'[d] = "none" \/ Waits(d)' => conn[d] = "none" \/ Waits(d)
    BY <2>1 DEF Waits
  <2> QED
    BY <1>1, <2>1, <2>2, LinesKept
<1>3. ASSUME NEW c \in Clients, ClientStep(c) PROVE LinesInv'
  BY <1>1, <1>3, LinesClient
<1>4. CASE ServerStep \/ Timeout
  BY <1>1, <1>4, LinesLetter, LinesInvalid, LinesSkip, LinesExecute, LinesAccept, LinesOther
     DEF ServerStep
<1> QED
  BY <1>2, <1>3, <1>4 DEF Next

\* Whatever the clients send and however recv cuts it: the commands executed
\* for a client are the lines it sent that are commands, each once and in their
\* order (main_client, abiocardserver.c:1088-1162).
THEOREM LinesAreExecutedOnce == Spec => []LinesAreExecuted
<1>1. LinesInv => LinesAreExecuted
  BY DEF LinesInv
<1> QED
  BY <1>1, LinesInit, LinesStep, PTL DEF Spec

=============================================================================
