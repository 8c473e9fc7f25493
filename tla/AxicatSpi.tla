------------------------------ MODULE AxicatSpi ------------------------------
(***************************************************************************)
(* The SPI interface of the AxiCat library.  A transfer is cut into        *)
(* command packets that must fit in the device's buffer, whose free bytes  *)
(* the library counts itself; the device answers every packet, with as     *)
(* many data bytes, or as skipped when SPI is disabled.                    *)
(***************************************************************************)
EXTENDS AxicatLink, AxicatPool

CONSTANTS SpiLen,       \* bytes in the device's SPI buffer
          MaxPacket,    \* data bytes in one command packet (32)
          SpiSizes,     \* lengths of transfers the application asks for
          SpiSelects    \* slave selects it uses

ASSUME SpiAssumption ==
  SpiLen \in Nat /\ MaxPacket \in Nat \ {0} /\ SpiSizes \subseteq Nat \ {0}

VARIABLE spi    \* SPI_CTX, and the device's side: its buffer, SPI enabled or not

LOCAL INSTANCE FiniteSetsExt

SpiClear ==
  [pool |-> EmptyPool, prog |-> << >>, free |-> 0, buf |-> <<>>, on |-> FALSE]

SpiInit == spi = SpiClear

SpiDone(s, x) == [s EXCEPT !.pool = Complete(@, x), !.prog = Without(@, x)]

SPI_Complete_All_Xfrs(s) == [s EXCEPT !.pool = CompleteAll(@), !.prog = << >>]

SPI_Xfr_Create(x) ==
  /\ Called
  /\ CanCreate(spi.pool, x)
  /\ spi' = [spi EXCEPT !.pool = Create(@, x)]

\* fi and si: the buffer offsets of sending and of receiving.
SPI_Xfr_Schedule(x, sc, ss) ==
  /\ Called
  /\ CanSchedule(spi.pool, x)
  /\ spi' = [spi EXCEPT
               !.pool = Schedule(@, x),
               !.prog = [y \in DOMAIN @ \cup {x} |->
                           IF y = x THEN [sc |-> sc, ss |-> ss, fi |-> 0, si |-> 0, skipped |-> FALSE]
                           ELSE @[y]]]

SPI_Xfr_Cancel(x) ==
  /\ Called
  /\ x \in spi.pool.held
  /\ spi' = IF Cancels(spi.pool, x) THEN SpiDone(spi, x) ELSE spi

SPI_Xfr_Destroy(x) ==
  /\ Called
  /\ x \in spi.pool.held
  /\ spi' = [spi EXCEPT !.pool = Destroy(@, x),
                        !.prog = IF Cancels(spi.pool, x) THEN Without(@, x) ELSE @]

\* The device skips what is in its buffer when SPI is disabled.
SPI_Enable ==
  /\ Enables(spi.pool.sched)
  /\ ~spi.on
  /\ spi' = [spi EXCEPT !.on = TRUE]

SPI_Disable ==
  /\ Configured
  /\ spi.on
  /\ spi' = [spi EXCEPT !.on = FALSE,
                        !.buf = [i \in DOMAIN @ |-> [@[i] EXCEPT !.skipped = TRUE]]]

-----------------------------------------------------------------------------

Cost(cnt) == 2 + cnt            \* bytes of a command packet in the buffer

\* Mutant: the length of the transfer is not looked at.
PacketSizeByRoom(p, free) == Min({MaxPacket, free - 2})

PacketSize(p, free) == Min({p.sc - p.fi, MaxPacket, free - 2})

SpiCanSend ==
  LET cur == spi.pool.cur
  IN  cur # NoXfr /\ ~spi.prog[cur].skipped /\ spi.free >= 3

\* One turn of the loop of SPI_Tx: one command packet.
SPI_Tx ==
  /\ pc = "tx"
  /\ SpiCanSend
  /\ LET cur  == spi.pool.cur
         p    == spi.prog[cur]
         cnt  == PacketSize(p, spi.free)
         last == cnt = p.sc - p.fi
     IN  spi' = [spi EXCEPT
                   !.free = @ - Cost(cnt),
                   !.pool = Transmit(@, last),
                   !.prog[cur].fi = @ + cnt,
                   !.buf  = Append(@, [k |-> "spi", x |-> cur, cnt |-> cnt, ss |-> p.ss,
                                       last |-> last, skipped |-> ~spi.on])]
  /\ UNCHANGED linkVars

-----------------------------------------------------------------------------

\* SPI_Rx_Chk_Rsp, the credit, and SPI_Rx_Skip of a skipped packet.
SPI_Rx_Rsp ==
  /\ AtReply("spi")
  /\ LET r    == Head(rsp)
         x    == Head(spi.pool.sched)
         p    == spi.prog[x]
         free == spi.free + Cost(r.cnt)
         si   == p.si + r.cnt
         known == spi.pool.sched # <<>> /\ p.ss = r.ss /\ free <= SpiLen
     IN  IF ~known THEN Packet(FALSE, RxRsp) /\ UNCHANGED spi
         ELSE IF ~r.skipped
         THEN /\ Packet(TRUE, [k |-> "spi", left |-> r.cnt, last |-> r.last])
              /\ spi' = [spi EXCEPT !.free = free]
         ELSE /\ Packet(si <= p.fi, RxRsp)
              /\ LET s == [spi EXCEPT !.free = free, !.prog[x].si = si, !.prog[x].skipped = TRUE]
                 IN  spi' = IF si = p.fi THEN SpiDone(s, x) ELSE s

SPI_Rx_Byte ==
  /\ AtByte("spi")
  /\ LET x    == Head(spi.pool.sched)
         p    == spi.prog[x]
         last == rx.left = 1 /\ rx.last
         ok   == /\ spi.pool.sched # <<>>
                 /\ ~p.skipped
                 /\ last \/ p.si + 1 < p.sc
     IN  /\ DataByte(ok, IF rx.left = 1 THEN RxRsp ELSE [rx EXCEPT !.left = @ - 1])
         /\ spi' = IF ~ok THEN spi
                   ELSE IF last THEN SpiDone(spi, x)
                   ELSE [spi EXCEPT !.prog[x].si = @ + 1]

-----------------------------------------------------------------------------

\* The device answers the oldest command in its buffer.
SpiDevice ==
  /\ spi.buf # <<>>
  /\ Replies(Head(spi.buf))
  /\ spi' = [spi EXCEPT !.buf = Tail(@)]
  /\ UNCHANGED <<conn, main, waitIdle, infoRead, pc, plugged, imm, rx>>

SpiUser ==
  \/ \E x \in Xfrs :
       \/ SPI_Xfr_Create(x) \/ SPI_Xfr_Cancel(x) \/ SPI_Xfr_Destroy(x)
       \/ \E sc \in SpiSizes, ss \in SpiSelects : SPI_Xfr_Schedule(x, sc, ss)
  \/ SPI_Enable
  \/ SPI_Disable

SpiRx == SPI_Rx_Rsp \/ SPI_Rx_Byte

\* The bytes of the device's buffer that the commands f take.
SpiTaken(f) == Total([n \in 1..Len(f) |-> Cost(f[n].cnt)])

=============================================================================
