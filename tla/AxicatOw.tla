------------------------------- MODULE AxicatOw -------------------------------
(***************************************************************************)
(* The 1-Wire interface of the AxiCat library.  A transfer is one reset,   *)
(* enumerate or probe command, or touch-bits commands that share out the   *)
(* bits to transfer.  The bits are counted in bytes here, as the device's  *)
(* buffer counts them.                                                     *)
(***************************************************************************)
EXTENDS AxicatLink, AxicatPool

CONSTANTS OwLen,        \* bytes in the device's 1-Wire buffer
          MaxTouch,     \* data bytes in one touch-bits command (16)
          OwIds,        \* the kinds of transfer the application asks for
          OwSizes,      \* lengths of its touch-bits transfers
          OwFirmware    \* the firmware knows the probe command (v1.3.0)

VARIABLE ow     \* OW_CTX, and the device's side: its buffer, 1-Wire enabled or not

LOCAL INSTANCE FiniteSetsExt

OwClear ==
  [pool |-> EmptyPool, prog |-> << >>, free |-> 0, buf |-> <<>>, on |-> FALSE]

OwInit == ow = OwClear

OwDone(o, x) == [o EXCEPT !.pool = Complete(@, x), !.prog = Without(@, x)]

OW_Xfr_Create(x) ==
  /\ Called
  /\ CanCreate(ow.pool, x)
  /\ ow' = [ow EXCEPT !.pool = Create(@, x)]

\* fi and si: the offsets of sending and of receiving; packets: active_packets.
OW_Xfr_Schedule(x, id, sc) ==
  /\ Called
  /\ CanSchedule(ow.pool, x)
  /\ id = "probe" => infoRead /\ OwFirmware
  /\ ow' = [ow EXCEPT
              !.pool = Schedule(@, x),
              !.prog = [y \in DOMAIN @ \cup {x} |->
                          IF y = x THEN [id |-> id, sc |-> sc, fi |-> 0, si |-> 0,
                                         packets |-> 0, skipped |-> FALSE]
                          ELSE @[y]]]

OW_Xfr_Cancel(x) ==
  /\ Called
  /\ x \in ow.pool.held
  /\ ow' = IF Cancels(ow.pool, x) THEN OwDone(ow, x) ELSE ow

OW_Xfr_Destroy(x) ==
  /\ Called
  /\ x \in ow.pool.held
  /\ ow' = [ow EXCEPT !.pool = Destroy(@, x),
                      !.prog = IF Cancels(ow.pool, x) THEN Without(@, x) ELSE @]

OW_Enable ==
  /\ Enables(ow.pool.sched)
  /\ ~ow.on
  /\ ow' = [ow EXCEPT !.on = TRUE]

\* Commands in the device's buffer are skipped; the touch-bits command being
\* executed may have transferred some of its bits (a short packet).
OW_Disable ==
  /\ Configured
  /\ ow.on
  /\ \E short \in BOOLEAN :
       /\ short => ow.buf # <<>> /\ Head(ow.buf).id = "touch"
       /\ ow' = [ow EXCEPT !.on = FALSE,
                           !.buf = [i \in DOMAIN @ |->
                                      IF short /\ i = 1 THEN [@[i] EXCEPT !.short = TRUE]
                                      ELSE [@[i] EXCEPT !.skipped = TRUE]]]

-----------------------------------------------------------------------------

\* Bytes of a command in the device's buffer; n data bytes of touch-bits.
OwCost(id, n) == CASE id = "reset" -> 1
                   [] id = "touch" -> 3 + n
                   [] id = "enum"  -> 11
                   [] id = "probe" -> 9

OwCanSend ==
  LET cur == ow.pool.cur
  IN  /\ cur # NoXfr
      /\ ~ow.prog[cur].skipped
      /\ ow.free >= OwCost(ow.prog[cur].id, 1)

\* One turn of the loop of OW_Tx: one command.
OW_Tx ==
  /\ pc = "tx"
  /\ OwCanSend
  /\ LET cur == ow.pool.cur
         p   == ow.prog[cur]
         n   == IF p.id = "touch" THEN Min({p.sc - p.fi, MaxTouch, ow.free - 3}) ELSE 0
     IN  ow' = [ow EXCEPT
                  !.free = @ - OwCost(p.id, n),
                  !.pool = Transmit(@, p.fi + n = p.sc),
                  !.prog[cur].fi = @ + n,
                  !.prog[cur].packets = IF p.id = "touch" THEN @ + 1 ELSE @,
                  !.buf = Append(@, [k |-> "ow", x |-> cur, id |-> p.id, cnt |-> n,
                                     skipped |-> ~ow.on, short |-> FALSE])]
  /\ UNCHANGED linkVars

-----------------------------------------------------------------------------

OwHead == Head(ow.pool.sched)

\* The reply must be to the kind of command the oldest transfer waits for.
OwKnown(id) == ow.pool.sched # <<>> /\ ow.prog[OwHead].id = id

\* OW_Rx_Reset and OW_Rx_Probe, and OW_Rx_Enum unless a ROM code follows.
OW_Rx_Rsp ==
  /\ AtReply("ow")
  /\ LET r == Head(rsp)
         o == [ow EXCEPT !.free = @ + OwCost(r.id, r.cnt)]
     IN  /\ r.id # "touch"
         /\ \/ /\ r.id = "enum" /\ ~r.skipped      \* found: the ROM code follows
               /\ Packet(TRUE, [k |-> "ow_enum"])
               /\ ow' = o
            \/ /\ Packet(OwKnown(r.id), RxRsp)
               /\ ow' = IF OwKnown(r.id) THEN OwDone(o, OwHead) ELSE o

\* The ROM code has been read.
OW_Rx_Enum ==
  /\ AtByte("ow_enum")
  /\ DataByte(OwKnown("enum"), RxRsp)
  /\ ow' = IF OwKnown("enum") THEN OwDone(ow, OwHead) ELSE ow

\* OW_Rx_Chk_Touch_Bits, the credit, and OW_Rx_Skip_Touch_Bits.
OW_Rx_Touch_Bits ==
  /\ AtReply("ow")
  /\ LET r    == Head(rsp)
         free == ow.free + OwCost("touch", r.cnt)
         ok   == OwKnown("touch") /\ free <= OwLen
         o    == [ow EXCEPT !.free = free]
     IN  /\ r.id = "touch"
         /\ IF ~ok THEN Packet(FALSE, RxRsp) /\ UNCHANGED ow
            ELSE IF ~r.skipped
            THEN /\ \E left \in (IF r.short THEN 1..r.cnt ELSE {r.cnt}) :
                      Packet(TRUE, [k |-> "ow_touch", left |-> left, short |-> r.short])
                 /\ ow' = o
            ELSE /\ Packet(TRUE, RxRsp)
                 /\ ow' = IF ow.prog[OwHead].packets = 1 THEN OwDone(o, OwHead)
                          ELSE [o EXCEPT !.prog[OwHead].packets = @ - 1,
                                         !.prog[OwHead].skipped = TRUE]

\* OW_Rx_Byte_Touch_Bits, and OW_Rx_EOP_Touch_Bits after the last byte.
OW_Rx_Byte ==
  /\ AtByte("ow_touch")
  /\ LET p    == ow.prog[OwHead]
         si   == Min({p.si + 1, p.sc})
         last == IF rx.short THEN p.packets = 1 ELSE si = p.sc
         o    == [ow EXCEPT !.prog[OwHead].si = si]
     IN  IF ow.pool.sched = <<>> THEN DataByte(FALSE, RxRsp) /\ UNCHANGED ow
         ELSE IF rx.left > 1
         THEN DataByte(TRUE, [rx EXCEPT !.left = @ - 1]) /\ ow' = o
         ELSE /\ DataByte(last \/ si < p.sc, RxRsp)
              /\ ow' = IF last THEN OwDone(o, OwHead)
                       ELSE [o EXCEPT !.prog[OwHead].packets = @ - 1]

-----------------------------------------------------------------------------

OwDevice ==
  /\ ow.buf # <<>>
  /\ Replies(Head(ow.buf))
  /\ ow' = [ow EXCEPT !.buf = Tail(@)]
  /\ UNCHANGED <<conn, main, waitIdle, infoRead, pc, plugged, imm, rx>>

OwUser ==
  \/ \E x \in Xfrs :
       \/ OW_Xfr_Create(x) \/ OW_Xfr_Cancel(x) \/ OW_Xfr_Destroy(x)
       \/ \E id \in OwIds, sc \in OwSizes :
            /\ id # "touch" => sc = 0
            /\ id = "touch" => sc > 0
            /\ OW_Xfr_Schedule(x, id, sc)
  \/ OW_Enable
  \/ OW_Disable

OwRx == OW_Rx_Rsp \/ OW_Rx_Enum \/ OW_Rx_Touch_Bits \/ OW_Rx_Byte

\* The bytes of the device's buffer that the commands f take.
OwTaken(f) == Total([n \in 1..Len(f) |-> OwCost(f[n].id, f[n].cnt)])

=============================================================================
