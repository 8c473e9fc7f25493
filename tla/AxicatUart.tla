------------------------------ MODULE AxicatUart ------------------------------
(***************************************************************************)
(* A UART of the AxiCat library (there are two, with the same code).  The  *)
(* application writes to and reads from two rings; the step function sends *)
(* from the one what the device has room for, and stores in the other what *)
(* comes, over the oldest byte when it is full.                            *)
(*                                                                         *)
(* Of the device the library only shows that it announces the free bytes   *)
(* of its buffer after ENABLE and again later.  It is assumed to do so     *)
(* when all it announced before has been used; one that spoke earlier      *)
(* would announce bytes the library is about to use.                       *)
(***************************************************************************)
EXTENDS AxicatLink

CONSTANTS UartRing,     \* bytes in a ring of the library (4096)
          UartLen,      \* bytes in the device's transmit buffer
          UartPacket,   \* bytes the device takes in one packet (32)
          UartBytes,    \* byte values
          UartWrites,   \* bound: the longest write
          UartBacklog,  \* bound: replies waiting when the device sends bytes
          UartRestart   \* the application may enable the UART again

ASSUME UartAssumption ==
  /\ UartRing \in Nat \ {0} /\ UartLen \in Nat \ {0} /\ UartWrites \in Nat
  /\ UartPacket \in 1..256

VARIABLE uart   \* UART_CTX, and the device's side

LOCAL INSTANCE FiniteSetsExt

\* A ring: its slots, where the next byte is stored and fetched, the count.
EmptyRing(slots) == [buf |-> slots, si |-> 0, fi |-> 0, sc |-> 0]

RingBytes(r) == [i \in 1..r.sc |-> r.buf[(r.fi + i - 1) % UartRing]]

\* The n oldest bytes leave the ring.
Fetched(r, n) == [r EXCEPT !.fi = (@ + n) % UartRing, !.sc = @ - n]

\* tx, rx: the rings; wide: words of two bytes; free: hw_tx_free; and of the
\* device: enabled or not, the bytes in its buffer, what it said it has room for.
UartClear ==
  LET ring == EmptyRing([i \in 0..(UartRing - 1) |-> CHOOSE b \in UartBytes : TRUE])
  IN  [tx |-> ring, rx |-> ring, wide |-> FALSE, free |-> 0,
       on |-> FALSE, used |-> FALSE, line |-> <<>>, room |-> 0]

UartInit == uart = UartClear

UART_Reset_Bufs(u) == [u EXCEPT !.tx = EmptyRing(@.buf), !.rx = EmptyRing(@.buf)]

\* ENABLE makes the device announce its free bytes.
UART_Enable ==
  /\ pc = "user" /\ conn = "connected"
  /\ ~uart.on
  /\ UartRestart \/ ~uart.used
  /\ imm' = Append(imm, [k |-> "txfree", n |-> UartLen])
  /\ uart' = [UART_Reset_Bufs(uart) EXCEPT !.on = TRUE, !.used = TRUE,
                                           !.line = <<>>, !.room = UartLen]
  /\ UNCHANGED <<conn, main, waitIdle, infoRead, pc, plugged, rsp, rx>>

UART_Disable ==
  /\ Configured
  /\ uart.on
  /\ uart' = [uart EXCEPT !.free = 0, !.on = FALSE, !.line = <<>>]

UART_Set_Data_Bits(wide) ==
  /\ Configured
  /\ uart' = [UART_Reset_Bufs(uart) EXCEPT !.wide = wide]

\* Mutant: a full ring is written over.
StoredAll(r, bytes) ==
  [r EXCEPT !.buf = [i \in DOMAIN @ |->
                       LET k == (i + UartRing - r.si) % UartRing
                       IN  IF k < Len(bytes) THEN bytes[k + 1] ELSE @[i]],
            !.si = (@ + Len(bytes)) % UartRing,
            !.sc = Min({@ + Len(bytes), UartRing})]

\* The ring after bytes have been stored in it until it is full.
Stored(r, bytes) ==
  LET n == Min({Len(bytes), UartRing - r.sc})
  IN  [r EXCEPT !.buf = [i \in DOMAIN @ |->
                           LET k == (i + UartRing - r.si) % UartRing
                           IN  IF k < n THEN bytes[k + 1] ELSE @[i]],
                !.si = (@ + n) % UartRing,
                !.sc = @ + n]

UART_Write(bytes) ==
  /\ Configured
  /\ LET even == Len(bytes) - (Len(bytes) % 2)
         s    == IF uart.wide THEN SubSeq(bytes, 1, even) ELSE bytes
     IN  uart' = [uart EXCEPT !.tx = Stored(@, s)]

UART_Read(len) ==
  /\ Configured
  /\ uart' = [uart EXCEPT !.rx = Fetched(@, Min({len, @.sc}))]

-----------------------------------------------------------------------------

UartCanSend == uart.free > 0 /\ uart.tx.sc > 0

\* Everything that fits in the device's buffer goes in one packet, whose header
\* states the number of bytes, less one, in one byte.
UartCount == Min({uart.free, uart.tx.sc})
UartHeader(cnt) == (cnt + 255) % 256

\* The bytes of a packet that the device stores.  The protocol does not say what it
\* does with a packet longer than allowed: it may store any number of its bytes.
\* (What comes after the stated number it reads as commands; what those do is not
\* modelled.)
UartTaken(cnt) ==
  LET stated == UartHeader(cnt) + 1
  IN  IF stated <= UartPacket THEN {stated} ELSE 0..cnt

\* Mutant: what is sent is not counted.
UART_TxUncounted ==
  /\ pc = "tx"
  /\ UartCanSend
  /\ \E n \in UartTaken(UartCount) :
       uart' = [uart EXCEPT
                  !.tx   = Fetched(@, UartCount),
                  !.line = IF uart.on THEN @ \o SubSeq(RingBytes(uart.tx), 1, n) ELSE @,
                  !.room = IF n > @ THEN 0 ELSE @ - n]
  /\ UNCHANGED linkVars

\* The device forgets a packet when disabled.
UART_Tx ==
  /\ pc = "tx"
  /\ UartCanSend
  /\ \E n \in UartTaken(UartCount) :
       uart' = [uart EXCEPT
                  !.tx   = Fetched(@, UartCount),
                  !.free = @ - UartCount,
                  !.line = IF uart.on THEN @ \o SubSeq(RingBytes(uart.tx), 1, n) ELSE @,
                  !.room = IF n > @ THEN 0 ELSE @ - n]
  /\ UNCHANGED linkVars

UART_Rx_Tx_Free ==
  /\ AtReply("txfree")
  /\ LET n == Head(rsp).n
     IN  /\ Packet(n <= UartLen, RxRsp)
         /\ uart' = IF n <= UartLen THEN [uart EXCEPT !.free = n] ELSE uart

UART_Rx_Rsp ==
  /\ AtReply("uart")
  /\ Packet(TRUE, [k |-> "uart", bytes |-> Head(rsp).bytes])
  /\ UNCHANGED uart

UART_Rx_Byte ==
  /\ AtByte("uart")
  /\ LET r    == uart.rx
         full == r.sc = UartRing
     IN  uart' = [uart EXCEPT
                    !.rx = [buf |-> [r.buf EXCEPT ![r.si] = Head(rx.bytes)],
                            si  |-> (r.si + 1) % UartRing,
                            fi  |-> IF full THEN (r.fi + 1) % UartRing ELSE r.fi,
                            sc  |-> IF full THEN r.sc ELSE r.sc + 1]]
  /\ DataByte(TRUE, IF Len(rx.bytes) = 1 THEN RxRsp ELSE [rx EXCEPT !.bytes = Tail(@)])

-----------------------------------------------------------------------------
(* The device: a byte leaves on the line; it announces its room; bytes come. *)

UartLineSends ==
  /\ uart.line # <<>>
  /\ uart' = [uart EXCEPT !.line = Tail(@)]
  /\ UNCHANGED linkVars

UartAnnounces ==
  /\ uart.on /\ uart.room = 0 /\ Len(uart.line) < UartLen
  /\ imm = <<>>
  /\ Replies([k |-> "txfree", n |-> UartLen - Len(uart.line)])
  /\ uart' = [uart EXCEPT !.room = UartLen - Len(uart.line)]
  /\ UNCHANGED <<conn, main, waitIdle, infoRead, pc, plugged, imm, rx>>

UartLineReceives ==
  /\ uart.on
  /\ imm = <<>>
  /\ Len(rsp) < UartBacklog
  /\ \E n \in 1..UartWrites : \E bytes \in [1..n -> UartBytes] :
       Replies([k |-> "uart", bytes |-> bytes])
  /\ UNCHANGED <<uart, conn, main, waitIdle, infoRead, pc, plugged, imm, rx>>

UartDevice == UartLineSends \/ UartAnnounces

UartSetup ==
  \/ UART_Enable \/ UART_Disable
  \/ \E wide \in BOOLEAN : UART_Set_Data_Bits(wide)

UartWriter == \E n \in 1..UartWrites : \E bytes \in [1..n -> UartBytes] : UART_Write(bytes)
UartReader == UartLineReceives \/ \E n \in 1..UartWrites : UART_Read(n)

UartRx == UART_Rx_Tx_Free \/ UART_Rx_Rsp \/ UART_Rx_Byte

-----------------------------------------------------------------------------

(* The device has room for every byte it is sent: what is in its buffer and *)
(* what the library believes to be free are never more than the buffer.     *)
UartRoom ==
  /\ Len(uart.line) + uart.free <= UartLen
  /\ uart.free <= uart.room

(* "Bytes minus one (0..31, corresponding with 1..32)" (axicat.h:281): no    *)
(* packet is longer than the device may be sent.                            *)
UartPacketsFit == [][UART_Tx => UartCount <= UartPacket]_uart

(* Both directions keep the order of the bytes, and lose none on the way.    *)
(* (With a ring or a buffer of the device that fits in a packet; otherwise   *)
(* UartPacketsFit fails, and the device may store part of a packet.)         *)
Sent     == INSTANCE AxicatFifo
              WITH queue <- uart.line \o RingBytes(uart.tx),
                   Room <- UartLen + UartRing, Overruns <- FALSE
Received == INSTANCE AxicatFifo
              WITH queue <- RingBytes(uart.rx), Room <- UartRing, Overruns <- TRUE

UartKeepsOrder == Sent!Spec /\ Received!Spec

=============================================================================
