------------------------------ MODULE AxicatLink ------------------------------
(***************************************************************************)
(* The connection between the AxiCat library and the device: the states of *)
(* AXICAT_AL_Step, the handshake of Step_Main, the replies on their way to *)
(* the host and the parser of Step_Rx.  The modules of the interfaces      *)
(* extend this one.                                                        *)
(*                                                                         *)
(* The library is single-threaded: the application calls it, or it runs    *)
(* one AXICAT_AL_Step, which reads replies, runs Step_Main, sends commands *)
(* and flushes them.  The device and the cable run on their own.           *)
(*                                                                         *)
(* Abstractions.  Replies are units, one per response packet; the data     *)
(* bytes of a packet follow its unit and are counted by the parser, since  *)
(* a read may stop between any two bytes.  Commands are seen by the device *)
(* when they are put in the transmit buffer: a device that answers before  *)
(* the flush cannot be told from one that answers after it, since replies  *)
(* are read only in the next step.  The version string, which is asked for *)
(* with the buffer lengths and changes nothing, is left out.               *)
(***************************************************************************)
EXTENDS Naturals, Sequences

CONSTANT Reenable       \* a function may be enabled while it has transfers

VARIABLES conn,       \* AXICAT_AL_CONN_STATE_*
          main,       \* ctx->state_main
          waitIdle,   \* ctx->wait_idle
          infoRead,   \* ctx->buf_info_read
          pc,         \* where AXICAT_AL_Step is; "user": between two calls;
                      \* "gone": the library has been destroyed
          plugged,    \* the device is there and the serial port works
          imm,        \* commands the device answers in the order they come
          rsp,        \* replies not read yet, oldest first
          rx          \* ctx->rx: the response packet being read

linkVars == <<conn, main, waitIdle, infoRead, pc, plugged, imm, rsp, rx>>

RxRsp == [k |-> "rsp"]          \* STATE_RX_RSP: a response code comes next

LinkTypeOK ==
  /\ conn \in {"connecting", "connected", "disconnected"}
  /\ main \in {"start", "w1", "w2", "w3"}
  /\ pc \in {"user", "rx", "main", "tx", "err", "gone"}
  /\ {waitIdle, infoRead, plugged} \subseteq BOOLEAN

LinkInit ==
  /\ conn = "connecting"
  /\ main = "start"
  /\ waitIdle = FALSE
  /\ infoRead = FALSE
  /\ pc = "user"
  /\ plugged = TRUE
  /\ imm = <<>>
  /\ rsp = <<>>
  /\ rx = RxRsp

-----------------------------------------------------------------------------
(* AXICAT_AL_Step *)

Is_Detached == conn = "disconnected"

\* A step of a detached context returns at once; rx.enabled is set when W1 ends.
Step ==
  /\ pc = "user"
  /\ ~Is_Detached
  /\ pc' = IF main \in {"w2", "w3"} THEN "rx" ELSE "main"
  /\ UNCHANGED <<conn, main, waitIdle, infoRead, plugged, imm, rsp, rx>>

\* The read function returns no byte: nothing has arrived (yet).
Step_Rx_Ends ==
  /\ pc = "rx"
  /\ pc' = "main"
  /\ UNCHANGED <<conn, main, waitIdle, infoRead, plugged, imm, rsp, rx>>

\* A read or a write of the serial port fails.
SerialFails ==
  /\ pc \in {"rx", "main", "tx"}
  /\ ~plugged
  /\ pc' = "err"
  /\ UNCHANGED <<conn, main, waitIdle, infoRead, plugged, imm, rsp, rx>>

\* Step_Rx reads the response code and the header of the next packet.
AtReply(k) == pc = "rx" /\ rx = RxRsp /\ rsp # <<>> /\ Head(rsp).k = k

\* What a packet does to the parser: it ends, goes on with data bytes, or
\* the library gives the device up ("goto Err").
Packet(ok, next) ==
  /\ rsp' = Tail(rsp)
  /\ IF ok THEN rx' = next /\ UNCHANGED pc
           ELSE rx' = RxRsp /\ pc' = "err"
  /\ UNCHANGED <<conn, main, waitIdle, infoRead, plugged, imm>>

\* The same for a data byte.
AtByte(k) == pc = "rx" /\ rx.k = k

DataByte(ok, next) ==
  /\ IF ok THEN rx' = next /\ UNCHANGED pc
           ELSE rx' = RxRsp /\ pc' = "err"
  /\ UNCHANGED <<conn, main, waitIdle, infoRead, plugged, imm, rsp>>

\* The application may call the library: linkVars do not change then.
Called == pc = "user" /\ UNCHANGED linkVars

\* Setting up an interface sends one command; it needs a connection.
Configured == Called /\ conn = "connected"

\* What a function is sent before it is enabled the device skips.
Enables(pending) == Configured /\ (Reenable \/ pending = <<>>)

-----------------------------------------------------------------------------
(* Step_Main *)

\* START: NOPs, all functions disabled, and a MASTER START that is skipped.
Main_Start ==
  /\ pc = "main"
  /\ main = "start"
  /\ main' = "w1"
  /\ waitIdle' = FALSE
  /\ imm' = Append(imm, [k |-> "skipped_start"])
  /\ pc' = "tx"
  /\ UNCHANGED <<conn, infoRead, plugged, rsp, rx>>

\* Mutant: the idle period is not waited for after a purge.
Main_W1_PurgeOnly ==
  /\ pc = "main"
  /\ main = "w1"
  /\ rsp # <<>>
  /\ \E n \in 1..Len(rsp) : rsp' = SubSeq(rsp, n + 1, Len(rsp))
  /\ pc' = "tx"
  /\ UNCHANGED <<conn, main, waitIdle, infoRead, plugged, imm, rx>>

\* W1: purge what has arrived, all of it or its first part.
Main_W1_Purge ==
  /\ pc = "main"
  /\ main = "w1"
  /\ rsp # <<>>
  /\ \E n \in 1..Len(rsp) : rsp' = SubSeq(rsp, n + 1, Len(rsp))
  /\ waitIdle' = TRUE
  /\ pc' = "tx"
  /\ UNCHANGED <<conn, main, infoRead, plugged, imm, rx>>

\* Nothing has arrived and the timer has not expired.
Main_W1_Waits ==
  /\ pc = "main"
  /\ main = "w1"
  /\ pc' = "tx"
  /\ UNCHANGED <<conn, main, waitIdle, infoRead, plugged, imm, rsp, rx>>

\* The idle period ends: a device that is there has answered everything it
\* was sent by then, and the answers have been read.
Main_W1_Idle ==
  /\ pc = "main"
  /\ main = "w1"
  /\ waitIdle
  /\ plugged => imm = <<>> /\ rsp = <<>>
  /\ main' = "w2"
  /\ imm' = Append(imm, [k |-> "info"])
  /\ pc' = "tx"
  /\ UNCHANGED <<conn, waitIdle, infoRead, plugged, rsp, rx>>

\* The receive period ends without a byte: only when no device is there.
Main_W1_Fails ==
  /\ pc = "main"
  /\ main = "w1"
  /\ ~waitIdle /\ ~plugged
  /\ pc' = "err"
  /\ UNCHANGED <<conn, main, waitIdle, infoRead, plugged, imm, rsp, rx>>

Main_W2_Waits ==
  /\ pc = "main"
  /\ main = "w2" /\ ~infoRead
  /\ pc' = "tx"
  /\ UNCHANGED <<conn, main, waitIdle, infoRead, plugged, imm, rsp, rx>>

Main_Connected ==
  /\ pc = "main"
  /\ main = "w2" /\ infoRead
  /\ conn' = "connected"
  /\ main' = "w3"
  /\ pc' = "tx"
  /\ UNCHANGED <<waitIdle, infoRead, plugged, imm, rsp, rx>>

Main_W3 ==
  /\ pc = "main"
  /\ main = "w3"
  /\ pc' = "tx"
  /\ UNCHANGED <<conn, main, waitIdle, infoRead, plugged, imm, rsp, rx>>

Step_Main ==
  \/ Main_Start \/ Main_W1_Purge \/ Main_W1_Waits \/ Main_W1_Idle \/ Main_W1_Fails
  \/ Main_W2_Waits \/ Main_Connected \/ Main_W3

\* With Rx enabled a stray reply to the handshake finds no transfer.
Rx_Skipped_Start == AtReply("skipped_start") /\ Packet(FALSE, RxRsp)

\* Tx_Flush, when every interface has sent what it can: back to the caller.
Tx_Flush ==
  /\ pc = "tx"
  /\ pc' = "user"
  /\ UNCHANGED <<conn, main, waitIdle, infoRead, plugged, imm, rsp, rx>>

-----------------------------------------------------------------------------
(* The device and the cable *)

Replies(unit) == plugged /\ rsp' = Append(rsp, unit)

DeviceAnswers ==
  /\ imm # <<>>
  /\ imm' = Tail(imm)
  /\ Replies(Head(imm))
  /\ UNCHANGED <<conn, main, waitIdle, infoRead, pc, plugged, rx>>

Unplug ==
  /\ plugged
  /\ plugged' = FALSE
  /\ UNCHANGED <<conn, main, waitIdle, infoRead, pc, imm, rsp, rx>>

-----------------------------------------------------------------------------
(* For the properties: the replies of one kind among s, and a sum. *)

OfKind(k, s) ==
  LET f[i \in 0..Len(s)] ==
        IF i = 0 THEN <<>> ELSE IF s[i].k = k THEN Append(f[i - 1], s[i]) ELSE f[i - 1]
  IN  f[Len(s)]

Total(ns) == LET f[i \in 0..Len(ns)] == IF i = 0 THEN 0 ELSE f[i - 1] + ns[i] IN f[Len(ns)]

=============================================================================
