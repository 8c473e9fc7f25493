-------------------------------- MODULE Axicat --------------------------------
(***************************************************************************)
(* The AxiCat library as a whole: AXICAT_AL_Step over the interfaces, the  *)
(* loss of the device, and an application that uses some of them.          *)
(***************************************************************************)
EXTENDS AxicatGpio, AxicatSpi, AxicatOw, AxicatCard, AxicatTwiSlave, AxicatUart

CONSTANTS Uses,         \* the sets of interfaces an application may use
          TwiRequests   \* what it asks of the TWI, by the name of its use

\* The card's process is the only user of its TWI.
ASSUME UsesAssumption == \A u \in Uses : "card" \in u => u \cap DOMAIN TwiRequests = {}

VARIABLE uses           \* the interfaces this one uses

interfaces == <<gpio, spi, ow, twi, stx, srx, slaveOn, uart, card>>

vars == <<linkVars, interfaces, uses>>

Init ==
  /\ LinkInit
  /\ GpioInit /\ SpiInit /\ OwInit /\ TwiInit /\ SlaveInit /\ UartInit
  /\ CardInit
  /\ uses \in Uses

\* Every "goto Err" ends here.  1-Wire transfers are not completed.
Mark_Detached ==
  /\ pc = "err"
  /\ conn' = "disconnected"
  /\ pc' = "user"
  /\ gpio' = GPIO_Complete_All_Xfrs(gpio)
  /\ spi'  = SPI_Complete_All_Xfrs(spi)
  /\ twi'  = TWI_Complete_All_Xfrs(twi)
  /\ stx'  = SideCompleteAll(stx)
  /\ srx'  = SideCompleteAll(srx)
  /\ UNCHANGED <<main, waitIdle, infoRead, plugged, imm, rsp, rx, ow, slaveOn, uart, card, uses>>

\* The information block gives the lengths of the device's buffers.
Rx_Info ==
  /\ AtReply("info")
  /\ rsp' = Tail(rsp)
  /\ infoRead' = TRUE
  /\ spi' = [spi EXCEPT !.free = SpiLen]
  /\ ow'  = [ow  EXCEPT !.free = OwLen]
  /\ twi' = [twi EXCEPT !.free = TwiLen]
  /\ stx' = [stx EXCEPT !.free = SlaveLen]
  /\ srx' = [srx EXCEPT !.free = SlaveLen]
  /\ UNCHANGED <<conn, main, waitIdle, pc, plugged, imm, rx, gpio, slaveOn, uart, card, uses>>

\* AXICAT_AL_Destroy ends every transfer, 1-Wire ones too, and frees all.
AL_Destroy ==
  /\ pc = "user"
  /\ "card" \in uses => CardStops
  /\ pc' = "gone"
  /\ infoRead' = FALSE /\ imm' = <<>> /\ rsp' = <<>> /\ rx' = RxRsp
  /\ gpio' = GpioClear /\ spi' = SpiClear /\ ow' = OwClear /\ twi' = TwiClear
  /\ stx' = SideClear /\ srx' = SideClear /\ slaveOn' = FALSE /\ uart' = UartClear
  /\ card' = [CardClear EXCEPT !.mode = "gone"]
  /\ UNCHANGED <<conn, main, waitIdle, plugged, uses>>

\* Each interface sends what it can before the flush.
CanSend ==
  \/ GpioCanSend \/ SpiCanSend \/ OwCanSend \/ TwiCanSend
  \/ SideCanSend(stx) \/ SideCanSend(srx) \/ UartCanSend

Using(interface, call) == interface \in uses /\ call

OnlyGpio  == UNCHANGED <<uses, card, spi, ow, twi, slaveVars, uart>>
OnlySpi   == UNCHANGED <<uses, card, gpio, ow, twi, slaveVars, uart>>
OnlyOw    == UNCHANGED <<uses, card, gpio, spi, twi, slaveVars, uart>>
OnlyTwi   == UNCHANGED <<uses, card, gpio, spi, ow, slaveVars, uart>>
OnlySlave == UNCHANGED <<uses, card, gpio, spi, ow, twi, uart>>
OnlyUart  == UNCHANGED <<uses, card, gpio, spi, ow, twi, slaveVars>>
OnlyCard  == UNCHANGED <<uses, gpio, spi, ow, slaveVars, uart>>

\* The application's calls, and what comes in on a UART.
User ==
  \/ Using("gpio", GpioUser) /\ OnlyGpio
  \/ Using("spi", SpiUser) /\ OnlySpi
  \/ Using("ow", OwUser) /\ OnlyOw
  \/ \E i \in uses \cap DOMAIN TwiRequests : TwiUser(TwiRequests[i]) /\ OnlyTwi
  \/ Using("stx", StxUser) /\ OnlySlave
  \/ Using("srx", SrxUser) /\ OnlySlave
  \/ Using("slave", TWI_Slave_Enable \/ TWI_Slave_Disable) /\ OnlySlave
  \/ Using("uart", UartSetup) /\ OnlyUart
  \/ Using("uart_tx", UartWriter) /\ OnlyUart
  \/ Using("uart_rx", UartReader) /\ OnlyUart
  \/ Using("card", CardUser) /\ OnlyCard

Tx ==
  \/ GPIO_Tx /\ OnlyGpio
  \/ TwiTx /\ OnlyTwi
  \/ TWI_Tx_Slave_Tx /\ OnlySlave
  \/ TWI_Tx_Slave_Rx /\ OnlySlave
  \/ SPI_Tx /\ OnlySpi
  \/ OW_Tx /\ OnlyOw
  \/ UART_Tx /\ OnlyUart

Step_Rx ==
  \/ Rx_Info
  \/ GPIO_Rx /\ OnlyGpio
  \/ TwiRx /\ OnlyTwi
  \/ SlaveRx /\ OnlySlave
  \/ SpiRx /\ OnlySpi
  \/ OwRx /\ OnlyOw
  \/ UartRx /\ OnlyUart

OnlyLink == UNCHANGED <<interfaces, uses>>

\* AXICAT_AL_Step, but for the replies it reads.
Stepping ==
  \/ Step /\ OnlyCard /\ UNCHANGED twi
     /\ IF "card" \in uses THEN CardSteps ELSE UNCHANGED card
  \/ (Step_Rx_Ends \/ Step_Main \/ (~CanSend /\ Tx_Flush)) /\ OnlyLink
  \/ Tx
  \/ Mark_Detached

Device ==
  \/ DeviceAnswers /\ OnlyLink
  \/ SpiDevice /\ OnlySpi
  \/ OwDevice /\ OnlyOw
  \/ TwiDevice /\ OnlyTwi
  \/ (StxDevice \/ SrxDevice) /\ OnlySlave
  \/ UartDevice /\ OnlyUart

Next ==
  \/ User
  \/ AL_Destroy
  \/ Stepping
  \/ Step_Rx
  \/ (Rx_Skipped_Start \/ SerialFails) /\ OnlyLink
  \/ Device
  \/ Unplug /\ OnlyLink

Spec == Init /\ [][Next]_vars

\* What AXICAT_AL_Step does when it finds something to do: a reply to read,
\* a port that fails, the end of a period of the handshake.
Progresses ==
  \/ Step_Rx
  \/ (SerialFails \/ Main_W1_Purge \/ Main_W1_Idle) /\ OnlyLink

\* The application keeps calling AXICAT_AL_Step, which gets to read what has
\* arrived and to see that the port fails; the timer of the handshake expires.
\* One strong fairness is enough, since each of the four excludes the others
\* or occurs only so often before they get their turn.  The device answers,
\* and a master of the bus reads and writes its slave.  The card's process
\* runs, and in the end a call that still polls sees that its time is up.
Fairness ==
  /\ WF_vars(Stepping)
  /\ SF_vars(Progresses)
  /\ WF_vars(DeviceAnswers /\ OnlyLink)
  /\ WF_vars(SpiDevice /\ OnlySpi)
  /\ WF_vars(OwDevice /\ OnlyOw)
  /\ WF_vars(TwiDevice /\ OnlyTwi)
  /\ WF_vars(StxDevice /\ OnlySlave)
  /\ WF_vars(SrxDevice /\ OnlySlave)
  /\ WF_vars(Using("card", CardSync) /\ OnlyCard)
  /\ SF_vars(Using("card", CardTimeout) /\ OnlyCard)

FairSpec == Spec /\ Fairness

-----------------------------------------------------------------------------
(* Properties *)

LOCAL INSTANCE Functions

\* The pools, and what the device holds of each interface's commands.
Pools == [gpio |-> gpio.pool, spi |-> spi.pool, ow |-> ow.pool,
          twi |-> twi.pool, stx |-> stx.pool, srx |-> srx.pool]
Held  == [gpio |-> OfKind("gpio", imm), spi |-> spi.buf, ow |-> ow.buf,
          twi |-> twi.buf, stx |-> stx.buf, srx |-> srx.buf]

\* The lists, the progress records and the free bytes have the values the
\* code gives them; a transfer has progress exactly while it is scheduled.
TypeOK ==
  /\ LinkTypeOK
  /\ DOMAIN gpio.pin = Scheduled(gpio.pool)
  /\ \A s \in {spi, ow, twi, stx, srx} : DOMAIN s.prog = Scheduled(s.pool)
  /\ \A p \in Range(spi.prog) \cup Range(ow.prog) : p.si <= p.fi /\ p.fi <= p.sc
  /\ \A p \in Range(twi.prog) \cup Range(stx.prog) \cup Range(srx.prog) :
       /\ p.xfrd <= p.rsp
       /\ p.rsp <= p.cmd
       /\ p.cmd <= p.sc
  /\ uses \in Uses

\* A device that follows the protocol is never given up: every check that
\* Step_Rx makes of a reply, and the handshake, let it pass, whatever the
\* application cancels, destroys or disables while replies are on their way.
\* (The "goto Err" of axicat_al.c and the checks of AXICAT_AL_*_Rx_*.)  What a device
\* would answer to a UART packet that is too long is not modelled (UartPacketsFit).
ObedientDeviceIsKept == conn = "disconnected" => ~plugged

\* The commands the device has and the replies on their way belong, in this
\* order, to the transfers at the front of the list: no reply is taken for
\* that of another transfer, and no object the device still works for has
\* been cancelled, or handed out again.
InFlight(i) == OfKind(i, rsp) \o Held[i]

Meets(pool, flight) ==
  LET meant == {n \in 1..Len(flight) : flight[n].x # NoXfr}    \* not a STOP
  IN  /\ \A n \in meant : flight[n].x \in pool.active
      /\ \A m, n \in meant : m < n =>
           Position(pool.sched, flight[m].x) <= Position(pool.sched, flight[n].x)
      /\ rx = RxRsp => \A n \in meant :
           (\A m \in meant : n <= m) => flight[n].x = Head(pool.sched)

RepliesMeetTransfers == ~Is_Detached => \A i \in DOMAIN Pools : Meets(Pools[i], InFlight(i))

\* No byte of the device's buffers is lost or counted twice: what an
\* interface counts as free, the commands in the buffer and the replies not
\* read yet make up the buffer, so that no command ever finds it full.
SpiCredits  == spi.free + SpiTaken(InFlight("spi")) = SpiLen
OwCredits   == ow.free + OwTaken(InFlight("ow")) = OwLen
TwiCredits  == twi.free + TwiTaken(InFlight("twi")) = TwiLen
SideCredits == /\ stx.free + SideTaken(InFlight("stx")) = SlaveLen
               /\ srx.free + SideTaken(InFlight("srx")) = SlaveLen

CreditsAddUp == infoRead => SpiCredits /\ OwCredits /\ TwiCredits /\ SideCredits

\* After a payload that the master of the bus broke off, the device never
\* skips a command of the next payload: TWI_CLEAR or the command marked as
\* the last one has ended the skipping before that command is sent.
NextPayloadIsNotSkipped ==
  \A s \in {stx, srx} : (s.skip = "own" /\ s.buf # <<>>) => ~Head(s.buf).first

\* The lists of every interface agree with the objects in them, and what the
\* application can still cancel is what the device has seen nothing of.  (The
\* card makes several steps in one: SlotsOwnTheirTransfers is for its own.)
OwnTwiPool == IF "card" \in uses THEN EmptyPool ELSE twi.pool

PoolsInv ==
  /\ PoolInv(gpio.pool) /\ PoolInv(spi.pool) /\ PoolInv(ow.pool)
  /\ PoolInv(OwnTwiPool) /\ PoolInv(stx.pool) /\ PoolInv(srx.pool)

\* Whatever the interface, the promise of AxicatTransfers is kept: an object
\* destroyed while the device works for it is handed out again only after its
\* transfer has ended, an object that is scheduled comes back, and none
\* changes hands otherwise.
GpioTransfers == INSTANCE AxicatTransfers WITH status <- Status(gpio.pool)
SpiTransfers  == INSTANCE AxicatTransfers WITH status <- Status(spi.pool)
OwTransfers   == INSTANCE AxicatTransfers WITH status <- Status(ow.pool)
TwiTransfers  == INSTANCE AxicatTransfers WITH status <- Status(OwnTwiPool)
StxTransfers  == INSTANCE AxicatTransfers WITH status <- Status(stx.pool)
SrxTransfers  == INSTANCE AxicatTransfers WITH status <- Status(srx.pool)

PromiseKept ==
  /\ GpioTransfers!Spec /\ SpiTransfers!Spec /\ OwTransfers!Spec
  /\ TwiTransfers!Spec /\ StxTransfers!Spec /\ SrxTransfers!Spec

\* A transfer scheduled before the device is lost ends, also one that was
\* destroyed, though nothing of it may have been sent: by its replies, by
\* being cancelled, or by the loss of the device.  Two kinds do not: 1-Wire
\* transfers when the device is lost, and a TWI transfer whose START alone
\* was skipped.  (An application that uses one interface and keeps calling
\* AXICAT_AL_Step, as the card does only during a call.)
Waiting(x) ==
  \/ \E p \in {gpio.pool, spi.pool, stx.pool, srx.pool} : x \in Scheduled(p)
  \/ x \in Scheduled(ow.pool) /\ ~Is_Detached
  \/ x \in Scheduled(twi.pool) /\ \A y \in DOMAIN twi.prog : ~StartSkippedAlone(y)

TransfersEnd == \A x \in Xfrs : ("card" \notin uses /\ Waiting(x) /\ ~Is_Detached) ~> ~Waiting(x)

\* "we wait for remaining response packets and the current TWI transfer will
\* be ultimately completed" (axicat_al_twi.c:817-821).
TwiTransfersEnd ==
  \A x \in Xfrs : (x \in Scheduled(twi.pool) /\ ~Is_Detached) ~> x \notin Scheduled(twi.pool)

\* The handshake comes to an end, with a device or without one.
HandshakeEnds == <>(conn # "connecting" \/ pc = "gone")

\* The card and the library agree on its transfers: a slot has one of its
\* own, and the library has handed out none that is not in a slot.
SlotsOwnTheirTransfers ==
  "card" \in uses /\ pc # "gone" =>
    /\ twi.pool.held = Range(card.slots) \ {NoXfr}
    /\ \A i, j \in Slots : card.slots[i] = card.slots[j] => i = j \/ card.slots[i] = NoXfr

\* A call that returns without marking the card as detached leaves nothing
\* behind: every transfer has ended, and every slot can be scheduled again.
CallsLeaveNothing ==
  "card" \in uses /\ card.sync = "none" /\ ~card.detached =>
    card.slots = NoTransfers /\ twi.pool.sched = <<>>

\* Every call of I2C_Xfr_Sync returns, also when the device is removed: "the
\* timeout will be the only catch for the removal event" (abiocard.c:153-157).
CallsReturn == card.sync # "none" ~> card.sync = "none"

\* A byte that is read goes to a buffer of the call in progress.  "The data
\* buffer will not be accessed after the transfer has been detached from the
\* owner. So you can cancel or destroy an active transfer and free up the data
\* buffer" (axicat_al.h:178-180); "Immediately complete the given transfer as
\* cancelled" (i2cbus.h, of the function that I2C_Xfr_Sync cancels with).
InCall(x) == card.sync # "none" /\ \E i \in 1..Len(Call) : card.slots[i] = x

BytesGoToTheCall ==
  [][("card" \in uses /\ TWI_Rx_Master_Rx_Byte) => InCall(TwiHead)]_vars

=============================================================================
