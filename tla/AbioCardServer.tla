--------------------------- MODULE AbioCardServer ---------------------------
(***************************************************************************)
(* The driver server on its socket (c-driver/abiocardserver.c), as          *)
(* install_root.sh starts it: one client at a time sends lines, the lines   *)
(* that are commands are executed and some of them are answered.            *)
(*                                                                         *)
(* recv cuts the characters of a client into chunks wherever it likes, a    *)
(* line is collected in rcv_cmd and a reply in snd_rsp, which may be too    *)
(* short for either. What a command does to the card is in AbioCard; here   *)
(* it only succeeds or fails. A character is a letter, the end of a line    *)
(* (10 or 13) or one that no command may hold.                             *)
(***************************************************************************)
EXTENDS Integers, Sequences, FiniteSets, SequencesExt

CONSTANTS
    Clients,        \* each connects at most once
    NoClient,
    Letters,        \* the printable characters
    Eol,            \* an end of line
    Bad,            \* an invalid character
    Commands,       \* the lines that are commands with valid parameters
    Quit,           \* the command QU
    ReplyLen,       \* the length of the reply to each command, 0 for none
    RcvBufLen,      \* of rcv_buf
    RcvCmdLen,      \* of rcv_cmd
    SndRspLen,      \* of snd_rsp
    SocketLen,      \* what the connection holds of unread replies
    MaxSent         \* bound: the characters each client sends

ASSUME NamesAssumption ==
    /\ NoClient \notin Clients
    /\ Eol \notin Letters
    /\ Bad \notin Letters
    /\ Eol # Bad

ASSUME LengthsAssumption ==
    /\ RcvBufLen \in Nat \ {0}
    /\ RcvCmdLen \in Nat \ {0}
    /\ SndRspLen \in Nat \ {0}
    /\ SocketLen \in Nat \ {0}
    /\ MaxSent \in [Clients -> Nat]

ASSUME CommandsAssumption ==
    /\ Commands \subseteq Seq(Letters) \ {<<>>}
    /\ Quit \in Commands
    /\ ReplyLen \in [Commands -> Nat]

VARIABLES
    pc,             \* where the server is
    client,         \* client_socket
    backlog,        \* clients that are connected and not yet accepted
    conn,           \* the connection of each client
    wire,           \* sent by each client and not yet received
    socket,         \* sent to each client and not yet read
    rcv_buf,        \* the rest of the chunk
    rcv_cmd,
    rcv_cmd_error,
    snd_rsp,
    reply,          \* the rest of the reply that is being stored
    processed,      \* history: the characters of each client, as processed
    executed,       \* history: the commands of each client
    answers,        \* history: the replies to them, in their order
    received        \* history: what each client has read

connections == <<backlog, conn, wire>>
line == <<rcv_cmd, rcv_cmd_error>>
history == <<processed, executed, answers>>
vars == <<pc, client, connections, socket, rcv_buf, line, snd_rsp, reply, history, received>>

Char == Letters \cup {Eol, Bad}

\* The connection of a client that has not connected, of one that is
\* connected, of one that has closed its end, of one that answers with a
\* reset, and of one that the server has ended.
Conn == {"none", "open", "closed", "reset", "ended"}

\* A character of the reply to the n-th command of a client.
ReplyChar == [command : Nat, place : Nat]

Reply(n, cmd) == [i \in 1..ReplyLen[cmd] |-> [command |-> n, place |-> i]]

TypeOK ==
    /\ pc \in {"accept", "receive", "process", "store", "send", "stopped"}
    /\ client \in Clients \cup {NoClient}
    /\ backlog \in Seq(Clients)
    /\ conn \in [Clients -> Conn]
    /\ wire \in [Clients -> Seq(Char)]
    /\ socket \in [Clients -> Seq(ReplyChar)]
    /\ rcv_buf \in Seq(Char)
    /\ rcv_cmd \in Seq(Letters)
    /\ rcv_cmd_error \in BOOLEAN
    /\ snd_rsp \in Seq(ReplyChar)
    /\ reply \in Seq(ReplyChar)
    /\ processed \in [Clients -> Seq(Char)]
    /\ executed \in [Clients -> Seq(Commands)]
    /\ answers \in [Clients -> Seq(ReplyChar)]
    /\ received \in [Clients -> Seq(ReplyChar)]
    /\ Len(rcv_buf) <= RcvBufLen
    /\ Len(rcv_cmd) <= RcvCmdLen
    /\ Len(snd_rsp) <= SndRspLen
    /\ \A c \in Clients : Len(socket[c]) <= SocketLen

Init ==
    /\ pc = "accept"
    /\ client = NoClient
    /\ backlog = <<>>
    /\ conn = [c \in Clients |-> "none"]
    /\ wire = [c \in Clients |-> <<>>]
    /\ socket = [c \in Clients |-> <<>>]
    /\ rcv_buf = <<>>
    /\ rcv_cmd = <<>>
    /\ rcv_cmd_error = FALSE
    /\ snd_rsp = <<>>
    /\ reply = <<>>
    /\ processed = [c \in Clients |-> <<>>]
    /\ executed = [c \in Clients |-> <<>>]
    /\ answers = [c \in Clients |-> <<>>]
    /\ received = [c \in Clients |-> <<>>]

-----------------------------------------------------------------------------
(* The clients. *)

Server == <<pc, client, rcv_buf, line, snd_rsp, reply, history>>

Connect(c) ==
    /\ pc # "stopped"
    /\ conn[c] = "none"
    /\ conn' = [conn EXCEPT ![c] = "open"]
    /\ backlog' = Append(backlog, c)
    /\ UNCHANGED <<wire, socket, received, Server>>

\* What c has sent so far; what the server holds of it is in rcv_buf.
Sent(c) == Len(processed[c]) + Len(wire[c]) + (IF client = c THEN Len(rcv_buf) ELSE 0)

SendChar(c, ch) ==
    /\ conn[c] = "open"
    /\ Sent(c) < MaxSent[c]
    /\ wire' = [wire EXCEPT ![c] = Append(@, ch)]
    /\ UNCHANGED <<backlog, conn, socket, received, Server>>

\* Replies outlive the connection: they can still be read after it.
Read(c) ==
    /\ conn[c] \in {"open", "ended"}
    /\ socket[c] # <<>>
    /\ received' = [received EXCEPT ![c] = @ \o socket[c]]
    /\ socket' = [socket EXCEPT ![c] = <<>>]
    /\ UNCHANGED <<connections, Server>>

\* A client that closes while it has replies to read resets the connection,
\* and what it sent last may be lost.
Close(c) ==
    /\ conn[c] = "open"
    /\ IF socket[c] = <<>>
       THEN /\ conn' = [conn EXCEPT ![c] = "closed"]
            /\ UNCHANGED wire
       ELSE /\ conn' = [conn EXCEPT ![c] = "reset"]
            /\ \E k \in 0..Len(wire[c]) : wire' = [wire EXCEPT ![c] = SubSeq(@, 1, k)]
    /\ socket' = [socket EXCEPT ![c] = <<>>]
    /\ UNCHANGED <<backlog, received, Server>>

ClientStep(c) ==
    \/ Connect(c)
    \/ \E ch \in Char : SendChar(c, ch)
    \/ Read(c)
    \/ Close(c)

-----------------------------------------------------------------------------
(* main and process_client: a client is accepted and ended. *)

\* Mutants: a line, or replies, of the client before are kept.
MainClientKeepsLine ==
    /\ snd_rsp' = <<>>
    /\ UNCHANGED line
    /\ pc' = "receive"
MainClientKeepsReplies ==
    /\ UNCHANGED snd_rsp
    /\ rcv_cmd' = <<>>
    /\ rcv_cmd_error' = FALSE
    /\ pc' = "receive"

\* main_client starts with empty buffers.
MainClient ==
    /\ snd_rsp' = <<>>
    /\ rcv_cmd' = <<>>
    /\ rcv_cmd_error' = FALSE
    /\ pc' = "receive"

\* process_client returns, main destroys the socket and accepts the next
\* client, unless QU was executed.
EndClient(c, stop) ==
    /\ conn' = [conn EXCEPT ![c] = "ended"]
    /\ client' = NoClient
    /\ rcv_buf' = <<>>
    /\ reply' = <<>>
    /\ pc' = IF stop THEN "stopped" ELSE "accept"

\* The driver is initialised for the client, or it cannot be and the client
\* is ended at once.
Accept ==
    /\ pc = "accept"
    /\ backlog # <<>>
    /\ backlog' = Tail(backlog)
    /\ \/ /\ client' = Head(backlog)
          /\ MainClient
          /\ UNCHANGED <<conn, rcv_buf, reply>>
       \/ /\ EndClient(Head(backlog), FALSE)
          /\ UNCHANGED <<snd_rsp, line>>
    /\ UNCHANGED <<wire, socket, history, received>>

-----------------------------------------------------------------------------
(* main_client: the loop over the chunks. *)

\* recv returns some of what has arrived, rcv_buf at most.
Receive ==
    /\ pc = "receive"
    /\ \E n \in 1..RcvBufLen :
          /\ n <= Len(wire[client])
          /\ rcv_buf' = SubSeq(wire[client], 1, n)
          /\ wire' = [wire EXCEPT ![client] = SubSeq(@, n + 1, Len(@))]
    /\ pc' = "process"
    /\ UNCHANGED <<client, backlog, conn, socket, line, snd_rsp, reply, history, received>>

\* recv returns 0 for a client that is gone.
PeerClosed ==
    /\ pc = "receive"
    /\ wire[client] = <<>>
    /\ conn[client] # "open"
    /\ EndClient(client, FALSE)
    /\ UNCHANGED <<backlog, wire, socket, line, snd_rsp, history, received>>

\* Mutant: a receive that timed out is tried again.
TimeoutRetries ==
    /\ pc = "receive"
    /\ wire[client] = <<>>
    /\ conn[client] = "open"
    /\ UNCHANGED vars

\* SO_RCVTIMEO: recv fails for a client that is silent too long.
Timeout ==
    /\ pc = "receive"
    /\ wire[client] = <<>>
    /\ conn[client] = "open"
    /\ EndClient(client, FALSE)
    /\ UNCHANGED <<backlog, wire, socket, line, snd_rsp, history, received>>

\* The next character of the chunk.
NextChar ==
    /\ pc = "process"
    /\ rcv_buf # <<>>
    /\ rcv_buf' = Tail(rcv_buf)
    /\ processed' = [processed EXCEPT ![client] = Append(@, Head(rcv_buf))]
    /\ UNCHANGED <<backlog, wire, socket, received>>

\* Mutant: the overflow is noticed one letter too late.
StoreLetterTooMany(cmd) ==
    IF Len(cmd) <= RcvCmdLen
    THEN /\ rcv_cmd' = Append(cmd, Head(rcv_buf))
         /\ UNCHANGED rcv_cmd_error
    ELSE /\ rcv_cmd_error' = TRUE
         /\ UNCHANGED rcv_cmd

\* The command buffer takes a letter, or overflows.
StoreLetter(cmd) ==
    IF Len(cmd) < RcvCmdLen
    THEN /\ rcv_cmd' = Append(cmd, Head(rcv_buf))
         /\ UNCHANGED rcv_cmd_error
    ELSE /\ rcv_cmd_error' = TRUE
         /\ UNCHANGED rcv_cmd

Letter ==
    /\ NextChar
    /\ Head(rcv_buf) \in Letters
    /\ IF rcv_cmd_error THEN UNCHANGED line ELSE StoreLetter(rcv_cmd)
    /\ UNCHANGED <<pc, client, conn, snd_rsp, reply, executed, answers>>

InvalidChar ==
    /\ NextChar
    /\ Head(rcv_buf) = Bad
    /\ rcv_cmd_error' = TRUE
    /\ UNCHANGED <<pc, client, conn, rcv_cmd, snd_rsp, reply, executed, answers>>

\* The line is in the list of commands, and its parameters can be fetched up to
\* the end of the line.
IsCommand(cmd) == cmd \in Commands

ResetLine ==
    /\ rcv_cmd' = <<>>
    /\ rcv_cmd_error' = FALSE

\* A line that is not executed: solitary, in error, or no command.
SkipLine ==
    /\ NextChar
    /\ Head(rcv_buf) = Eol
    /\ rcv_cmd_error \/ ~IsCommand(rcv_cmd)
    /\ ResetLine
    /\ UNCHANGED <<pc, client, conn, snd_rsp, reply, executed, answers>>

\* process_rcv_cmd: the command succeeds and its reply is stored, if it has
\* one, or it fails at the card and has no reply.
Execute(ok) ==
    /\ NextChar
    /\ Head(rcv_buf) = Eol
    /\ ~rcv_cmd_error
    /\ IsCommand(rcv_cmd)
    /\ rcv_cmd # Quit
    /\ executed' = [executed EXCEPT ![client] = Append(@, rcv_cmd)]
    /\ reply' = IF ok THEN Reply(Len(executed[client]) + 1, rcv_cmd) ELSE <<>>
    /\ answers' = [answers EXCEPT ![client] = @ \o reply']
    /\ pc' = IF reply' = <<>> THEN "process" ELSE "store"
    /\ ResetLine
    /\ UNCHANGED <<client, conn, snd_rsp>>

\* QU: main_client returns at once, with the rest of the chunk and whatever
\* is in the response buffer.
ExecuteQuit ==
    /\ pc = "process"
    /\ rcv_buf # <<>>
    /\ Head(rcv_buf) = Eol
    /\ ~rcv_cmd_error
    /\ rcv_cmd = Quit
    /\ processed' = [processed EXCEPT ![client] = Append(@, Eol)]
    /\ executed' = [executed EXCEPT ![client] = Append(@, Quit)]
    /\ EndClient(client, TRUE)
    /\ UNCHANGED <<backlog, wire, socket, line, snd_rsp, answers, received>>

\* store_rsp_ch, for as many characters as there is room for: a full buffer
\* is flushed in the middle of a reply.
StoreReply ==
    /\ pc = "store"
    /\ LET room == SndRspLen - Len(snd_rsp)
           n == IF room < Len(reply) THEN room ELSE Len(reply) IN
          /\ snd_rsp' = snd_rsp \o SubSeq(reply, 1, n)
          /\ reply' = SubSeq(reply, n + 1, Len(reply))
          /\ pc' = IF n = Len(reply) THEN "process" ELSE "send"
    /\ UNCHANGED <<client, connections, socket, rcv_buf, line, history, received>>

\* Mutant: replies are only flushed when the buffer is full.
ChunkDoneUnflushed ==
    /\ pc = "process"
    /\ rcv_buf = <<>>
    /\ pc' = "receive"
    /\ UNCHANGED <<client, connections, socket, rcv_buf, line, snd_rsp, reply, history, received>>

\* The chunk is processed: what was answered is flushed.
ChunkDone ==
    /\ pc = "process"
    /\ rcv_buf = <<>>
    /\ pc' = IF snd_rsp = <<>> THEN "receive" ELSE "send"
    /\ UNCHANGED <<client, connections, socket, rcv_buf, line, snd_rsp, reply, history, received>>

-----------------------------------------------------------------------------
(* flush_rsp and socket_send_cb: the response buffer is sent. *)

\* flush_rsp returns to store_rsp_ch or to the loop over the chunks.
Flushed == IF reply = <<>> THEN "receive" ELSE "store"

\* send takes what the connection has room for, and blocks while it is full.
Send ==
    /\ pc = "send"
    /\ conn[client] = "open"
    /\ LET room == SocketLen - Len(socket[client])
           n == IF room < Len(snd_rsp) THEN room ELSE Len(snd_rsp) IN
          /\ n > 0
          /\ socket' = [socket EXCEPT ![client] = @ \o SubSeq(snd_rsp, 1, n)]
          /\ snd_rsp' = SubSeq(snd_rsp, n + 1, Len(snd_rsp))
          /\ pc' = IF n = Len(snd_rsp) THEN Flushed ELSE "send"
    /\ UNCHANGED <<client, connections, rcv_buf, line, reply, history, received>>

\* A client that has closed does not get the characters; it answers them with
\* a reset.
SendToClosed ==
    /\ pc = "send"
    /\ conn[client] = "closed"
    /\ conn' = [conn EXCEPT ![client] = "reset"]
    /\ snd_rsp' = <<>>
    /\ pc' = Flushed
    /\ UNCHANGED <<client, backlog, wire, socket, rcv_buf, line, reply, history, received>>

\* send fails on a connection that was reset. Inside a reply the failure is
\* not looked at (abiocardserver.c:557-566): its character is lost and the
\* next one tries to flush again; after a chunk it ends the client.
SendFails ==
    /\ pc = "send"
    /\ conn[client] = "reset"
    /\ IF reply # <<>>
       THEN /\ reply' = Tail(reply)
            /\ pc' = IF Len(reply) = 1 THEN "process" ELSE "store"
            /\ UNCHANGED <<client, conn, rcv_buf>>
       ELSE EndClient(client, FALSE)
    /\ UNCHANGED <<backlog, wire, socket, line, snd_rsp, history, received>>

\* Or the SIGPIPE of such a send ends the process: nothing handles it.
BrokenPipe ==
    /\ pc = "send"
    /\ conn[client] = "reset"
    /\ EndClient(client, TRUE)
    /\ UNCHANGED <<backlog, wire, socket, line, snd_rsp, history, received>>

ServerStep ==
    \/ Accept \/ Receive \/ PeerClosed
    \/ Letter \/ InvalidChar \/ SkipLine
    \/ \E ok \in BOOLEAN : Execute(ok)
    \/ ExecuteQuit \/ StoreReply \/ ChunkDone
    \/ Send \/ SendToClosed \/ SendFails \/ BrokenPipe

Next ==
    \/ \E c \in Clients : ClientStep(c)
    \/ ServerStep
    \/ Timeout

Spec == Init /\ [][Next]_vars

\* The server runs, a receive times out, and a client reads its replies; no
\* client has to connect, to send or to close.
FairSpec ==
    /\ Spec
    /\ WF_vars(ServerStep)
    /\ WF_vars(Timeout)
    /\ \A c \in Clients : WF_vars(Read(c))

-----------------------------------------------------------------------------
(* What the server promises. *)

\* l is the line of chars that ends at place i: what lies between the end of
\* the line before, or the first character, and the end of a line there.
IsLine(chars, i, l) ==
    LET before == i - 1 - Len(l) IN
        /\ chars[i] = Eol
        /\ before = 0 \/ (before > 0 /\ chars[before] = Eol)
        /\ \A k \in 1..Len(l) : chars[before + k] = l[k]

\* The places of chars where a line ends that is a command.
CommandEnds(chars) ==
    {i \in 1..Len(chars) : \E cmd \in Commands : Len(cmd) <= RcvCmdLen /\ IsLine(chars, i, cmd)}

\* The commands among the lines of chars, in their order.
AreCommandsOf(cmds, chars) ==
    LET ends == CommandEnds(chars) IN
        /\ Len(cmds) = Cardinality(ends)
        /\ \A i \in ends : IsLine(chars, i, cmds[Cardinality({e \in ends : e <= i})])

\* However recv cuts the characters of a client into chunks, whatever came
\* before and whoever was the client before: the commands that were executed
\* for a client are the lines it sent that are commands, each once and in their
\* order, and none is put together from parts of lines or of two clients
\* (main_client, abiocardserver.c:1088-1162).
LinesAreExecuted ==
    \A c \in Clients : AreCommandsOf(executed[c], processed[c])

\* What was sent to c so far.
SentTo(c) == received[c] \o socket[c]

\* A client reads the replies of its own commands, whole and in their order,
\* also those that are longer than the response buffer or than the room in the
\* connection; only the end of the connection cuts them off
\* (store_rsp_ch and flush_rsp, abiocardserver.c:396-436).
RepliesInOrder == \A c \in Clients : IsPrefix(SentTo(c), answers[c])

\* The server never waits for the next command while it keeps a reply to an
\* earlier one (the flush at the end of a chunk, abiocardserver.c:1159).
NoReplyIsKept ==
    pc = "receive" /\ conn[client] = "open" => SentTo(client) = answers[client]

\* A client that waits is served, or the server stops: a silent client cannot
\* keep the server (SO_RCVTIMEO, abiocardserver.c:1604).
WaitingIsServed ==
    \A c \in Clients : c \in ToSet(backlog) ~> (c \notin ToSet(backlog) \/ pc = "stopped")

=============================================================================
