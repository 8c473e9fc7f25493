--------------------------- MODULE AxicatTwiMaster ---------------------------
(***************************************************************************)
(* The master part of the TWI (I2C) interface of the AxiCat library.  A    *)
(* transfer is a START and the commands that write or read its bytes; a    *)
(* STOP goes between two transfers when the application forces it, and     *)
(* after a transfer that no other one follows.  After an error the device  *)
(* skips commands up to the next START.                                    *)
(*                                                                         *)
(* What a transfer only reports (its status, the NACK flag, the count of   *)
(* bytes written) is left out, and so is the slave address, which START    *)
(* repeats in its reply as it does the direction.                          *)
(***************************************************************************)
EXTENDS AxicatLink, AxicatPool

CONSTANTS TwiLen,       \* bytes in the device's TWI master buffer
          TwiPacket     \* data bytes in one command packet (32)

VARIABLE twi    \* TWI_CTX, and the device's side: its buffer, what it does on the bus

LOCAL INSTANCE FiniteSetsExt
LOCAL INSTANCE TLC

\* stop: hw_m_tx_stop; on: hw_enabled; bus: "off", "idle", or between a START
\* and a STOP "data", after an error "skip".
TwiClear ==
  [pool |-> EmptyPool, prog |-> << >>, free |-> 0, stop |-> FALSE,
   on |-> FALSE, buf |-> <<>>, bus |-> "off"]

TwiInit == twi = TwiClear

TWI_Xfr_Master_Complete(t, x) == [t EXCEPT !.pool = Complete(@, x), !.prog = Without(@, x)]

TWI_Complete_All_Xfrs(t) == [t EXCEPT !.pool = CompleteAll(@), !.prog = << >>]

TWI_Xfr_Create(x) ==
  /\ Called
  /\ CanCreate(twi.pool, x)
  /\ twi' = [twi EXCEPT !.pool = Create(@, x)]

\* A request q is a direction, a length (0 probes the address), and whether a
\* STOP is forced.  cmd and rsp: bytes of commands sent and answered; xfrd: bytes read.
TwiSchedule(t, x, q) ==
  [t EXCEPT !.pool = Schedule(@, x),
            !.prog = [y \in DOMAIN @ \cup {x} |->
                        IF y = x THEN q @@ [cmd |-> 0, rsp |-> 0, xfrd |-> 0,
                                            tx |-> 0, rx |-> 0, short |-> FALSE]
                        ELSE @[y]]]

TwiCancel(t, x) == IF Cancels(t.pool, x) THEN TWI_Xfr_Master_Complete(t, x) ELSE t

TwiDestroy(t, x) ==
  [t EXCEPT !.pool = Destroy(@, x),
            !.prog = IF Cancels(t.pool, x) THEN Without(@, x) ELSE @]

TWI_Xfr_Master_Schedule(x, q) ==
  /\ Called
  /\ CanSchedule(twi.pool, x)
  /\ q.dir = "read" => q.sc > 0
  /\ twi' = TwiSchedule(twi, x, q)

TWI_Xfr_Cancel(x) ==
  /\ Called
  /\ x \in twi.pool.held
  /\ twi' = TwiCancel(twi, x)

TWI_Xfr_Destroy(x) ==
  /\ Called
  /\ x \in twi.pool.held
  /\ twi' = TwiDestroy(twi, x)

TWI_Enable ==
  /\ Enables(twi.pool.sched)
  /\ ~twi.on
  /\ twi' = [twi EXCEPT !.on = TRUE, !.bus = "idle"]

\* The device lets go of the bus and skips what is in its buffer.
TWI_Disable ==
  /\ Configured
  /\ twi.on
  /\ twi' = [twi EXCEPT !.on = FALSE,
                        !.bus = "off",
                        !.buf = [i \in DOMAIN @ |-> [@[i] EXCEPT !.skipped = TRUE]]]

-----------------------------------------------------------------------------
(* TWI_Tx_Master, one command packet at a time *)

TwiCost(c) == CASE c.cmd = "start" -> 2 [] c.cmd = "stop" -> 1 [] OTHER -> 3 + c.cnt

TwiCommand(x, cmd, dir, cnt) ==
  [k |-> "twi", x |-> x, cmd |-> cmd, dir |-> dir, cnt |-> cnt, done |-> 0, skipped |-> ~twi.on]

\* Mutant: only the data bytes are counted.
PutDataOnly(t, c) == [t EXCEPT !.free = @ - c.cnt, !.buf = Append(@, c)]

Put(t, c) == [t EXCEPT !.free = @ - TwiCost(c), !.buf = Append(@, c)]

\* The current transfer, unless an error has been reported for it: then the
\* replies still to come will end it, and nothing more is sent.
TwiSending ==
  /\ ~twi.stop
  /\ twi.pool.cur # NoXfr
  /\ ~twi.prog[twi.pool.cur].short

CanSendStop  == twi.stop /\ twi.free >= 1
CanSendStart == TwiSending /\ twi.prog[twi.pool.cur].tx = 0 /\ twi.free >= 2
CanSendData  == TwiSending /\ twi.prog[twi.pool.cur].tx = 1 /\ twi.free >= 4

TwiCanSend == CanSendStop \/ CanSendStart \/ CanSendData

\* Next_Xfr: all commands of the current transfer are out.
Next_Xfr(t) ==
  LET next == NextOf(t.pool.sched, t.pool.cur)
  IN  [t EXCEPT !.stop = t.on /\ (t.prog[t.pool.cur].force \/ next = NoXfr),
                !.pool = Transmit(@, TRUE)]

TWI_Tx_Stop ==
  /\ pc = "tx"
  /\ CanSendStop
  /\ twi' = [Put(twi, TwiCommand(NoXfr, "stop", "write", 0)) EXCEPT !.stop = FALSE]
  /\ UNCHANGED linkVars

TWI_Tx_Start ==
  /\ pc = "tx"
  /\ CanSendStart
  /\ LET cur == twi.pool.cur
         p   == twi.prog[cur]
         t   == Put(twi, TwiCommand(cur, "start", p.dir, 0))
     IN  twi' = IF p.sc = 0 THEN Next_Xfr(t)
                ELSE [t EXCEPT !.pool = Transmit(@, FALSE), !.prog[cur].tx = 1]
  /\ UNCHANGED linkVars

TWI_Tx_Data ==
  /\ pc = "tx"
  /\ CanSendData
  /\ LET cur == twi.pool.cur
         p   == twi.prog[cur]
         cnt == Min({p.sc - p.cmd, TwiPacket, twi.free - 3})
         t   == [Put(twi, TwiCommand(cur, "data", p.dir, cnt)) EXCEPT !.prog[cur].cmd = @ + cnt]
     IN  twi' = IF p.cmd + cnt = p.sc THEN Next_Xfr(t) ELSE t
  /\ UNCHANGED linkVars

TwiTx == TWI_Tx_Stop \/ TWI_Tx_Start \/ TWI_Tx_Data

-----------------------------------------------------------------------------
(* The replies *)

TwiHead == Head(twi.pool.sched)

\* Mutant: a transfer with an error ends before all its replies have come.
CompleteAtError(p) == p.rx = p.tx /\ (p.short \/ p.rsp = p.sc)

\* Mutant: only replies to all bytes complete a transfer.
CompleteInFull(p) == p.rx = p.tx /\ p.rsp = p.sc

TWI_Xfr_Master_Chk_Complete(p) ==
  /\ p.rx = p.tx
  /\ p.rsp = IF p.short THEN p.cmd ELSE p.sc

\* The oldest transfer with p as its new state, completed if that ends it.
Progress(t, p) ==
  IF TWI_Xfr_Master_Chk_Complete(p) THEN TWI_Xfr_Master_Complete(t, TwiHead)
  ELSE [t EXCEPT !.prog[TwiHead] = p]

Credited(r) == [twi EXCEPT !.free = @ + TwiCost(r)]

TWI_Rx_Stop ==
  /\ AtReply("twi") /\ Head(rsp).cmd = "stop"
  /\ Packet(TRUE, RxRsp)
  /\ twi' = Credited(Head(rsp))

TWI_Rx_Start ==
  /\ AtReply("twi") /\ Head(rsp).cmd = "start"
  /\ LET r  == Head(rsp)
         p  == twi.prog[TwiHead]
         ok == twi.pool.sched # <<>> /\ p.rx = 0 /\ p.dir = r.dir
         q  == [p EXCEPT !.short = @ \/ r.skipped]
     IN  /\ Packet(ok, RxRsp)
         /\ twi' = IF ~ok THEN twi
                   ELSE IF TWI_Xfr_Master_Chk_Complete(q) THEN Progress(Credited(r), q)
                   ELSE [Credited(r) EXCEPT !.prog[TwiHead] = [q EXCEPT !.rx = 1]]

\* The header of a reply to written or read bytes; short: not all were done.
ReplyShort(r) == r.skipped \/ r.done < r.cnt

ReplyFits(r) ==
  /\ twi.pool.sched # <<>>
  /\ twi.prog[TwiHead].rx = 1
  /\ twi.prog[TwiHead].short => ReplyShort(r)
  /\ twi.free + TwiCost(r) <= TwiLen

Replied(r) == [twi.prog[TwiHead] EXCEPT !.rsp = @ + r.cnt, !.short = ReplyShort(r)]

TWI_Rx_Master_Tx_Rsp ==
  /\ AtReply("twi") /\ Head(rsp).cmd = "data" /\ Head(rsp).dir = "write"
  /\ LET r == Head(rsp)
     IN  /\ Packet(ReplyFits(r), RxRsp)
         /\ twi' = IF ReplyFits(r) THEN Progress(Credited(r), Replied(r)) ELSE twi

TWI_Rx_Master_Rx_Rsp ==
  /\ AtReply("twi") /\ Head(rsp).cmd = "data" /\ Head(rsp).dir = "read"
  /\ LET r == Head(rsp)
     IN  IF ~ReplyFits(r) THEN Packet(FALSE, RxRsp) /\ UNCHANGED twi
         ELSE IF r.skipped
         THEN Packet(TRUE, RxRsp) /\ twi' = Progress(Credited(r), Replied(r))
         ELSE /\ Packet(TRUE, [k |-> "twi", left |-> r.done])
              /\ twi' = [Credited(r) EXCEPT !.prog[TwiHead] = Replied(r)]

TWI_Rx_Master_Rx_Byte ==
  /\ AtByte("twi")
  /\ LET p    == [twi.prog[TwiHead] EXCEPT !.xfrd = @ + 1]
         last == rx.left = 1
         ok   == twi.pool.sched # <<>> /\ p.rx = 1 /\ (last \/ p.xfrd < p.sc)
     IN  /\ DataByte(ok, IF last THEN RxRsp ELSE [rx EXCEPT !.left = @ - 1])
         /\ twi' = IF ~ok THEN twi
                   ELSE IF last THEN Progress(twi, p)
                   ELSE [twi EXCEPT !.prog[TwiHead] = p]

TwiRx ==
  \/ TWI_Rx_Stop \/ TWI_Rx_Start
  \/ TWI_Rx_Master_Tx_Rsp \/ TWI_Rx_Master_Rx_Rsp \/ TWI_Rx_Master_Rx_Byte

-----------------------------------------------------------------------------
(* The device *)

\* What it does with the oldest command: the bytes done, skipped or not, and
\* the bus after it.
DeviceDoes(c, done, skipped, bus) ==
  /\ Replies([c EXCEPT !.done = done, !.skipped = skipped])
  /\ twi' = [twi EXCEPT !.buf = Tail(@), !.bus = bus]

TwiDevice ==
  /\ twi.buf # <<>>
  /\ LET c == Head(twi.buf)
     IN  \/ c.skipped /\ DeviceDoes(c, 0, TRUE, twi.bus)
         \/ /\ ~c.skipped /\ c.cmd = "stop"
            /\ DeviceDoes(c, 0, FALSE, "idle")
         \/ /\ ~c.skipped /\ c.cmd = "start"
            /\ \E bus \in {"data", "skip"} : DeviceDoes(c, 0, FALSE, bus)   \* ACK, NACK
         \/ /\ ~c.skipped /\ c.cmd = "data"
            /\ \/ twi.bus # "data" /\ DeviceDoes(c, 0, TRUE, twi.bus)
               \/ /\ twi.bus = "data"
                  /\ \E done \in 1..c.cnt :
                       DeviceDoes(c, done, FALSE, IF done < c.cnt THEN "skip" ELSE "data")
  /\ UNCHANGED <<conn, main, waitIdle, infoRead, pc, plugged, imm, rx>>

TwiUser(requests) ==
  \/ \E x \in Xfrs :
       \/ TWI_Xfr_Create(x) \/ TWI_Xfr_Cancel(x) \/ TWI_Xfr_Destroy(x)
       \/ \E q \in requests : TWI_Xfr_Master_Schedule(x, q)
  \/ TWI_Enable
  \/ TWI_Disable

-----------------------------------------------------------------------------

\* The bytes of the device's buffer that the commands f take.
TwiTaken(f) == Total([n \in 1..Len(f) |-> TwiCost(f[n])])

(* A START that was skipped before a byte of its transfer was sent: the    *)
(* library then neither sends the bytes nor ends the transfer.             *)
StartSkippedAlone(x) ==
  LET p == twi.prog[x] IN p.short /\ p.tx = 1 /\ p.cmd = 0

=============================================================================
