---------------------------- MODULE AxicatTwiSlave ----------------------------
(***************************************************************************)
(* The slave part of the TWI (I2C) interface of the AxiCat library: bytes  *)
(* to send when a master of the bus reads, and room for the bytes it       *)
(* writes.  When the master takes less than a command offers, the device   *)
(* skips commands until one marked as the last of the payload has passed;  *)
(* when that one was never sent the library clears the device instead.     *)
(* Sending and receiving are two copies of the same code, kept apart here. *)
(***************************************************************************)
EXTENDS AxicatLink, AxicatPool

CONSTANTS SlaveLen,     \* bytes in the device's slave Tx buffer, and in the Rx one
          SlavePacket,  \* data bytes in one command packet (32)
          SlaveSizes,   \* lengths of transfers the application asks for
          SlaveLasts    \* whether a transfer is the last of its payload

VARIABLES stx,          \* slave Tx: TWI_CTX and the device's side
          srx,          \* slave Rx: TWI_CTX and the device's side
          slaveOn       \* the device answers its slave address

slaveVars == <<stx, srx, slaveOn>>

LOCAL INSTANCE FiniteSetsExt

\* skip: the device skips commands, "own" up to the last one of a transfer
\* that is the last of its payload, "payload" further than the transfer.
SideClear == [pool |-> EmptyPool, prog |-> << >>, free |-> 0, buf |-> <<>>, skip |-> "no"]

SlaveInit == stx = SideClear /\ srx = SideClear /\ slaveOn = FALSE

SideDone(s, x) == [s EXCEPT !.pool = Complete(@, x), !.prog = Without(@, x)]

SideCompleteAll(s) == [s EXCEPT !.pool = CompleteAll(@), !.prog = << >>]

\* cmd and rsp: bytes of commands sent and answered.
NewProgress(sc, last) ==
  [sc |-> sc, last |-> last, cmd |-> 0, rsp |-> 0, xfrd |-> 0, short |-> FALSE, skipped |-> FALSE]

SideSchedule(s, x, sc, last) ==
  [s EXCEPT !.pool = Schedule(@, x),
            !.prog = [y \in DOMAIN @ \cup {x} |-> IF y = x THEN NewProgress(sc, last) ELSE @[y]]]

\* The application's calls on one side, which make s into t.
SideCalls(s, t) ==
  \E x \in Xfrs :
    \/ CanCreate(s.pool, x) /\ t = [s EXCEPT !.pool = Create(@, x)]
    \/ /\ x \in s.pool.held
       /\ t = IF Cancels(s.pool, x) THEN SideDone(s, x) ELSE s
    \/ /\ x \in s.pool.held
       /\ t = [s EXCEPT !.pool = Destroy(@, x),
                        !.prog = IF Cancels(s.pool, x) THEN Without(@, x) ELSE @]
    \/ /\ CanSchedule(s.pool, x)
       /\ \E sc \in SlaveSizes, last \in SlaveLasts : t = SideSchedule(s, x, sc, last)

Skipped(buf) == [i \in DOMAIN buf |-> [buf[i] EXCEPT !.skipped = TRUE]]

TWI_Slave_Enable ==
  /\ Enables(stx.pool.sched \o srx.pool.sched)
  /\ slaveOn' = TRUE
  /\ UNCHANGED <<stx, srx>>

TWI_Slave_Disable ==
  /\ Configured
  /\ slaveOn' = FALSE
  /\ stx' = [stx EXCEPT !.buf = Skipped(@), !.skip = "no"]
  /\ srx' = [srx EXCEPT !.buf = Skipped(@), !.skip = "no"]

-----------------------------------------------------------------------------
(* Commands *)

SlaveCost(cnt) == 2 + cnt

SideCanSend(s) ==
  s.pool.cur # NoXfr /\ ~s.prog[s.pool.cur].short /\ s.free >= 3

\* One command packet; "marked": the last one of a payload.
SideSend(s, k) ==
  LET cur == s.pool.cur
      p   == s.prog[cur]
      cnt == Min({p.sc - p.cmd, SlavePacket, s.free - 2})
      all == p.cmd + cnt = p.sc
  IN  [s EXCEPT
         !.free = @ - SlaveCost(cnt),
         !.pool = Transmit(@, all),
         !.prog[cur].cmd = @ + cnt,
         !.buf  = Append(@, [k |-> k, x |-> cur, cnt |-> cnt, done |-> 0, first |-> p.cmd = 0,
                             fin |-> p.last, marked |-> all /\ p.last, skipped |-> ~slaveOn])]

TWI_Tx_Slave_Tx ==
  /\ pc = "tx"
  /\ SideCanSend(stx)
  /\ stx' = SideSend(stx, "stx")
  /\ UNCHANGED <<linkVars, srx, slaveOn>>

TWI_Tx_Slave_Rx ==
  /\ pc = "tx"
  /\ SideCanSend(srx)
  /\ srx' = SideSend(srx, "srx")
  /\ UNCHANGED <<linkVars, stx, slaveOn>>

-----------------------------------------------------------------------------
(* Replies *)

Oldest(s) == Head(s.pool.sched)

ReplyOk(s, r) ==
  LET p == s.prog[Oldest(s)]
  IN  /\ s.pool.sched # <<>>
      /\ s.free + SlaveCost(r.cnt) <= SlaveLen
      /\ p.short => r.skipped \/ r.done < r.cnt

\* TWI_CLEAR empties the device's buffer and ends its skipping.
\* Mutant: no TWI_CLEAR.
NotCleared(s, p) == s

Cleared(s, p) == IF p.last /\ p.cmd < p.sc THEN [s EXCEPT !.buf = <<>>, !.skip = "no"] ELSE s

TWI_Xfr_Slave_Tx_Chk_Complete(s, p) ==
  IF p.short /\ p.rsp = p.cmd THEN SideDone(Cleared(s, p), Oldest(s))
  ELSE IF ~p.short /\ p.rsp = p.sc THEN SideDone(s, Oldest(s))
  ELSE [s EXCEPT !.prog[Oldest(s)] = p]

TWI_Rx_Slave_Tx_Rsp ==
  /\ AtReply("stx")
  /\ LET r  == Head(rsp)
         p  == stx.prog[Oldest(stx)]
         q  == [p EXCEPT !.rsp = @ + r.cnt, !.xfrd = @ + r.done]
         short == r.skipped \/ r.done < r.cnt
     IN  /\ Packet(ReplyOk(stx, r), RxRsp)
         /\ stx' = IF ~ReplyOk(stx, r) THEN stx
                   ELSE TWI_Xfr_Slave_Tx_Chk_Complete(
                          [stx EXCEPT !.free = @ + SlaveCost(r.cnt)],
                          [q EXCEPT !.short = short, !.skipped = @ \/ (short /\ q.xfrd = 0)])
  /\ UNCHANGED <<srx, slaveOn>>

TWI_Xfr_Slave_Rx_Chk_Complete(s, p) ==
  IF p.short /\ p.rsp = p.cmd THEN SideDone(Cleared(s, p), Oldest(s))
  ELSE IF ~p.short /\ p.rsp = p.sc THEN SideDone(s, Oldest(s))
  ELSE [s EXCEPT !.prog[Oldest(s)] = p]

\* The header; the bytes received follow it, and only they are counted in xfrd.
TWI_Rx_Slave_Rx_Rsp ==
  /\ AtReply("srx")
  /\ LET r  == Head(rsp)
         p  == srx.prog[Oldest(srx)]
         short == r.skipped \/ r.done < r.cnt
         q  == [p EXCEPT !.rsp = @ + r.cnt, !.short = short, !.skipped = @ \/ (short /\ p.xfrd = 0)]
         s  == [srx EXCEPT !.free = @ + SlaveCost(r.cnt)]
     IN  IF ~ReplyOk(srx, r) THEN Packet(FALSE, RxRsp) /\ UNCHANGED srx
         ELSE IF r.skipped
         THEN Packet(TRUE, RxRsp) /\ srx' = TWI_Xfr_Slave_Rx_Chk_Complete(s, q)
         ELSE /\ Packet(TRUE, [k |-> "srx", left |-> r.done])
              /\ srx' = [s EXCEPT !.prog[Oldest(srx)] = q]
  /\ UNCHANGED <<stx, slaveOn>>

TWI_Rx_Slave_Rx_Byte ==
  /\ AtByte("srx")
  /\ LET p    == [srx.prog[Oldest(srx)] EXCEPT !.xfrd = @ + 1]
         last == rx.left = 1
         ok   == srx.pool.sched # <<>> /\ (last \/ p.xfrd < p.sc)
     IN  /\ DataByte(ok, IF last THEN RxRsp ELSE [rx EXCEPT !.left = @ - 1])
         /\ srx' = IF ~ok THEN srx
                   ELSE IF last THEN TWI_Xfr_Slave_Rx_Chk_Complete(srx, p)
                   ELSE [srx EXCEPT !.prog[Oldest(srx)] = p]
  /\ UNCHANGED <<stx, slaveOn>>

-----------------------------------------------------------------------------
(* The device, and a master of the bus that reads and writes *)

\* The oldest command is carried out in whole or in part, or skipped; s becomes t.
SideDevice(s, t) ==
  /\ s.buf # <<>>
  /\ LET c == Head(s.buf)
         Answer(done, skipped, skip) ==
           /\ Replies([c EXCEPT !.done = done, !.skipped = skipped])
           /\ t = [s EXCEPT !.buf = Tail(@), !.skip = skip]
         After(done) == IF done = c.cnt \/ c.marked THEN "no"
                        ELSE IF c.fin THEN "own" ELSE "payload"
     IN  IF c.skipped \/ s.skip # "no"
         THEN Answer(0, TRUE, IF c.marked THEN "no" ELSE s.skip)
         ELSE \E done \in 1..c.cnt : Answer(done, FALSE, After(done))
  /\ UNCHANGED <<conn, main, waitIdle, infoRead, pc, plugged, imm, rx, slaveOn>>

StxDevice == SideDevice(stx, stx') /\ UNCHANGED srx
SrxDevice == SideDevice(srx, srx') /\ UNCHANGED stx

StxUser == Called /\ SideCalls(stx, stx') /\ UNCHANGED <<srx, slaveOn>>
SrxUser == Called /\ SideCalls(srx, srx') /\ UNCHANGED <<stx, slaveOn>>

\* The bytes of the device's buffer that the commands f take.
SideTaken(f) == Total([n \in 1..Len(f) |-> SlaveCost(f[n].cnt)])

SlaveRx == TWI_Rx_Slave_Tx_Rsp \/ TWI_Rx_Slave_Rx_Rsp \/ TWI_Rx_Slave_Rx_Byte

=============================================================================
