---------------------------- MODULE Axicat_proofs ----------------------------
(***************************************************************************)
(* Every interface of the library treats its transfer objects as the       *)
(* module AxicatPool says, and so keeps the promise of AxicatTransfers:    *)
(* for any number of objects, any buffer lengths and requests, and any     *)
(* behaviour of the device.                                                *)
(***************************************************************************)
EXTENDS Axicat, AxicatPool_proofs

HasPool(s) == "pool" \in DOMAIN s

\* From the state s of an interface to its state t.
Lives(s, t) == HasPool(t) /\ (t.pool = s.pool \/ Moves(s.pool, t.pool))

LEMMA CancelLives ==
  ASSUME NEW p, NEW x \in p.held \cap Xfrs
  PROVE  /\ Cancels(p, x) => Moves(p, Complete(p, x))
         /\ Moves(p, Destroy(p, x))
  BY DEF Moves, Cancel

-----------------------------------------------------------------------------
(* The interfaces one by one. *)

LEMMA GpioLives ==
  ASSUME HasPool(gpio), GpioUser \/ GPIO_Tx \/ GPIO_Rx
  PROVE  Lives(gpio, gpio')
<1>1. ASSUME NEW x \in Xfrs, GPIO_Xfr_Create(x) PROVE Lives(gpio, gpio')
  BY <1>1 DEF GPIO_Xfr_Create, HasPool, Lives, Moves
<1>2. ASSUME NEW x \in Xfrs, GPIO_Xfr_Cancel(x) PROVE Lives(gpio, gpio')
  BY <1>2, CancelLives DEF GPIO_Xfr_Cancel, GPIO_Xfr_Complete, HasPool, Lives
<1>3. ASSUME NEW x \in Xfrs, GPIO_Xfr_Destroy(x) PROVE Lives(gpio, gpio')
  BY <1>3, CancelLives DEF GPIO_Xfr_Destroy, HasPool, Lives
<1>4. ASSUME NEW x \in Xfrs, NEW pin \in GpioPins, GPIO_Xfr_Schedule(x, pin)
      PROVE  Lives(gpio, gpio')
  BY <1>4 DEF GPIO_Xfr_Schedule, HasPool, Lives, Moves
<1>5. CASE GPIO_Tx
  BY <1>5 DEF GPIO_Tx, GpioCanSend, HasPool, Lives, Moves
<1>6. CASE GPIO_Rx
  BY <1>6 DEF GPIO_Rx, GPIO_Xfr_Complete, HasPool, Lives, Moves
<1>. QED
  BY <1>1, <1>2, <1>3, <1>4, <1>5, <1>6 DEF GpioUser

LEMMA SpiLives ==
  ASSUME HasPool(spi), SpiUser \/ SPI_Tx \/ SpiRx \/ SpiDevice
  PROVE  Lives(spi, spi')
<1>1. ASSUME NEW x \in Xfrs, SPI_Xfr_Create(x) PROVE Lives(spi, spi')
  BY <1>1 DEF SPI_Xfr_Create, HasPool, Lives, Moves
<1>2. ASSUME NEW x \in Xfrs, SPI_Xfr_Cancel(x) PROVE Lives(spi, spi')
  BY <1>2, CancelLives DEF SPI_Xfr_Cancel, SpiDone, HasPool, Lives
<1>3. ASSUME NEW x \in Xfrs, SPI_Xfr_Destroy(x) PROVE Lives(spi, spi')
  BY <1>3, CancelLives DEF SPI_Xfr_Destroy, HasPool, Lives
<1>4. ASSUME NEW x \in Xfrs, NEW sc \in SpiSizes, NEW ss \in SpiSelects, SPI_Xfr_Schedule(x, sc, ss)
      PROVE  Lives(spi, spi')
  BY <1>4 DEF SPI_Xfr_Schedule, HasPool, Lives, Moves
<1>5. CASE SPI_Enable \/ SPI_Disable \/ SpiDevice
  BY <1>5 DEF SPI_Enable, SPI_Disable, SpiDevice, HasPool, Lives
<1>6. CASE SPI_Tx
  BY <1>6 DEF SPI_Tx, SpiCanSend, HasPool, Lives, Moves
<1>7. CASE SPI_Rx_Rsp
  BY <1>7 DEF SPI_Rx_Rsp, SpiDone, HasPool, Lives, Moves
<1>8. CASE SPI_Rx_Byte
  BY <1>8 DEF SPI_Rx_Byte, SpiDone, HasPool, Lives, Moves
<1>. QED
  BY <1>1, <1>2, <1>3, <1>4, <1>5, <1>6, <1>7, <1>8 DEF SpiUser, SpiRx

LEMMA OwLives ==
  ASSUME HasPool(ow), OwUser \/ OW_Tx \/ OwRx \/ OwDevice
  PROVE  Lives(ow, ow')
<1>1. ASSUME NEW x \in Xfrs, OW_Xfr_Create(x) PROVE Lives(ow, ow')
  BY <1>1 DEF OW_Xfr_Create, HasPool, Lives, Moves
<1>2. ASSUME NEW x \in Xfrs, OW_Xfr_Cancel(x) PROVE Lives(ow, ow')
  BY <1>2, CancelLives DEF OW_Xfr_Cancel, OwDone, HasPool, Lives
<1>3. ASSUME NEW x \in Xfrs, OW_Xfr_Destroy(x) PROVE Lives(ow, ow')
  BY <1>3, CancelLives DEF OW_Xfr_Destroy, HasPool, Lives
<1>4. ASSUME NEW x \in Xfrs, NEW id \in OwIds, NEW sc \in OwSizes, OW_Xfr_Schedule(x, id, sc)
      PROVE  Lives(ow, ow')
  BY <1>4 DEF OW_Xfr_Schedule, HasPool, Lives, Moves
<1>5. CASE OW_Enable \/ OW_Disable \/ OwDevice
  BY <1>5 DEF OW_Enable, OW_Disable, OwDevice, HasPool, Lives
<1>6. CASE OW_Tx
  BY <1>6 DEF OW_Tx, OwCanSend, HasPool, Lives, Moves
<1>7. CASE OW_Rx_Rsp
  BY <1>7 DEF OW_Rx_Rsp, OwDone, OwKnown, OwHead, HasPool, Lives, Moves
<1>8. CASE OW_Rx_Enum
  BY <1>8 DEF OW_Rx_Enum, OwDone, OwKnown, OwHead, HasPool, Lives, Moves
<1>9. CASE OW_Rx_Touch_Bits
  BY <1>9 DEF OW_Rx_Touch_Bits, OwDone, OwKnown, OwHead, HasPool, Lives, Moves
<1>10. CASE OW_Rx_Byte
  BY <1>10 DEF OW_Rx_Byte, OwDone, OwHead, HasPool, Lives, Moves
<1>. QED
  BY <1>1, <1>2, <1>3, <1>4, <1>5, <1>6, <1>7, <1>8, <1>9, <1>10 DEF OwUser, OwRx

\* A reply to a TWI transfer ends the oldest one, or none.
LEMMA TwiProgress ==
  ASSUME NEW t, NEW p, HasPool(t), t.pool = twi.pool, twi.pool.sched # <<>>
  PROVE  Lives(twi, Progress(t, p))
  BY DEF Progress, TWI_Xfr_Master_Complete, TwiHead, HasPool, Lives, Moves

LEMMA TwiLives ==
  ASSUME HasPool(twi),
         (\E requests : TwiUser(requests)) \/ TwiTx \/ TwiRx \/ TwiDevice
  PROVE  Lives(twi, twi')
<1>1. ASSUME NEW x \in Xfrs, TWI_Xfr_Create(x) PROVE Lives(twi, twi')
  BY <1>1 DEF TWI_Xfr_Create, HasPool, Lives, Moves
<1>2. ASSUME NEW x \in Xfrs, TWI_Xfr_Cancel(x) PROVE Lives(twi, twi')
  BY <1>2, CancelLives DEF TWI_Xfr_Cancel, TwiCancel, TWI_Xfr_Master_Complete, HasPool, Lives
<1>3. ASSUME NEW x \in Xfrs, TWI_Xfr_Destroy(x) PROVE Lives(twi, twi')
  BY <1>3, CancelLives DEF TWI_Xfr_Destroy, TwiDestroy, HasPool, Lives
<1>4. ASSUME NEW x \in Xfrs, NEW q, TWI_Xfr_Master_Schedule(x, q) PROVE Lives(twi, twi')
  BY <1>4 DEF TWI_Xfr_Master_Schedule, TwiSchedule, HasPool, Lives, Moves
<1>5. CASE TWI_Enable \/ TWI_Disable
  BY <1>5 DEF TWI_Enable, TWI_Disable, HasPool, Lives
<1>6. CASE TWI_Tx_Stop
  BY <1>6 DEF TWI_Tx_Stop, Put, HasPool, Lives
<1>7. CASE TWI_Tx_Start
  BY <1>7 DEF TWI_Tx_Start, CanSendStart, TwiSending, Put, Next_Xfr, HasPool, Lives, Moves
<1>8. CASE TWI_Tx_Data
  BY <1>8 DEF TWI_Tx_Data, CanSendData, TwiSending, Put, Next_Xfr, HasPool, Lives, Moves
<1>9. CASE TwiDevice
  BY <1>9 DEF TwiDevice, DeviceDoes, HasPool, Lives
<1>10. ASSUME NEW r PROVE HasPool(Credited(r)) /\ Credited(r).pool = twi.pool
  BY DEF Credited, HasPool
<1>11. CASE TWI_Rx_Stop
  BY <1>11, <1>10 DEF TWI_Rx_Stop, Lives
<1>12. CASE TWI_Rx_Start
  BY <1>12, <1>10, TwiProgress DEF TWI_Rx_Start, Lives, HasPool
<1>13. CASE TWI_Rx_Master_Tx_Rsp
  BY <1>13, <1>10, TwiProgress DEF TWI_Rx_Master_Tx_Rsp, ReplyFits, Lives
<1>14. CASE TWI_Rx_Master_Rx_Rsp
  BY <1>14, <1>10, TwiProgress DEF TWI_Rx_Master_Rx_Rsp, ReplyFits, Lives, HasPool
<1>15. CASE TWI_Rx_Master_Rx_Byte
  BY <1>15, TwiProgress DEF TWI_Rx_Master_Rx_Byte, Lives, HasPool
<1>. QED
  BY <1>1, <1>2, <1>3, <1>4, <1>5, <1>6, <1>7, <1>8, <1>9, <1>11, <1>12, <1>13, <1>14, <1>15
  DEF TwiUser, TwiTx, TwiRx

\* The two sides of the slave, whichever of them takes the step.
LEMMA SlaveLives ==
  ASSUME HasPool(stx), HasPool(srx),
         \/ StxUser \/ SrxUser \/ TWI_Slave_Enable \/ TWI_Slave_Disable
         \/ TWI_Tx_Slave_Tx \/ TWI_Tx_Slave_Rx \/ SlaveRx \/ StxDevice \/ SrxDevice
  PROVE  Lives(stx, stx') /\ Lives(srx, srx')
<1>1. ASSUME NEW s, HasPool(s) PROVE Lives(s, s)
  BY <1>1 DEF Lives
<1>2. CASE StxUser
  <2>1. Lives(srx, srx')
    BY <1>2, <1>1 DEF StxUser, SideCalls
  <2>2. PICK x \in Xfrs :
          \/ CanCreate(stx.pool, x) /\ stx' = [stx EXCEPT !.pool = Create(@, x)]
          \/ /\ x \in stx.pool.held
             /\ stx' = IF Cancels(stx.pool, x) THEN SideDone(stx, x) ELSE stx
          \/ /\ x \in stx.pool.held
             /\ \E f : stx' = [stx EXCEPT !.pool = Destroy(@, x), !.prog = f]
          \/ /\ CanSchedule(stx.pool, x)
             /\ \E sc, last : stx' = SideSchedule(stx, x, sc, last)
    BY <1>2 DEF StxUser, SideCalls
  <2>3. CASE CanCreate(stx.pool, x) /\ stx' = [stx EXCEPT !.pool = Create(@, x)]
    BY <2>1, <2>3 DEF HasPool, Lives, Moves
  <2>4. CASE /\ x \in stx.pool.held
             /\ stx' = IF Cancels(stx.pool, x) THEN SideDone(stx, x) ELSE stx
    BY <2>1, <2>4, <1>1, CancelLives DEF SideDone, HasPool, Lives
  <2>5. CASE /\ x \in stx.pool.held
             /\ \E f : stx' = [stx EXCEPT !.pool = Destroy(@, x), !.prog = f]
    <3>1. PICK f : stx' = [stx EXCEPT !.pool = Destroy(@, x), !.prog = f]
      BY <2>5
    <3>. QED
      BY <2>1, <2>5, <3>1, CancelLives DEF HasPool, Lives
  <2>6. CASE /\ CanSchedule(stx.pool, x)
             /\ \E sc, last : stx' = SideSchedule(stx, x, sc, last)
    BY <2>1, <2>6 DEF SideSchedule, HasPool, Lives, Moves
  <2>. QED
    BY <2>2, <2>3, <2>4, <2>5, <2>6
<1>3. CASE SrxUser
  <2>1. Lives(stx, stx')
    BY <1>3, <1>1 DEF SrxUser, SideCalls
  <2>2. PICK x \in Xfrs :
          \/ CanCreate(srx.pool, x) /\ srx' = [srx EXCEPT !.pool = Create(@, x)]
          \/ /\ x \in srx.pool.held
             /\ srx' = IF Cancels(srx.pool, x) THEN SideDone(srx, x) ELSE srx
          \/ /\ x \in srx.pool.held
             /\ \E f : srx' = [srx EXCEPT !.pool = Destroy(@, x), !.prog = f]
          \/ /\ CanSchedule(srx.pool, x)
             /\ \E sc, last : srx' = SideSchedule(srx, x, sc, last)
    BY <1>3 DEF SrxUser, SideCalls
  <2>3. CASE CanCreate(srx.pool, x) /\ srx' = [srx EXCEPT !.pool = Create(@, x)]
    BY <2>1, <2>3 DEF HasPool, Lives, Moves
  <2>4. CASE /\ x \in srx.pool.held
             /\ srx' = IF Cancels(srx.pool, x) THEN SideDone(srx, x) ELSE srx
    BY <2>1, <2>4, <1>1, CancelLives DEF SideDone, HasPool, Lives
  <2>5. CASE /\ x \in srx.pool.held
             /\ \E f : srx' = [srx EXCEPT !.pool = Destroy(@, x), !.prog = f]
    <3>1. PICK f : srx' = [srx EXCEPT !.pool = Destroy(@, x), !.prog = f]
      BY <2>5
    <3>. QED
      BY <2>1, <2>5, <3>1, CancelLives DEF HasPool, Lives
  <2>6. CASE /\ CanSchedule(srx.pool, x)
             /\ \E sc, last : srx' = SideSchedule(srx, x, sc, last)
    BY <2>1, <2>6 DEF SideSchedule, HasPool, Lives, Moves
  <2>. QED
    BY <2>2, <2>3, <2>4, <2>5, <2>6
<1>4. CASE TWI_Slave_Enable \/ TWI_Slave_Disable
  BY <1>4 DEF TWI_Slave_Enable, TWI_Slave_Disable, HasPool, Lives
<1>5. ASSUME NEW s, NEW k, HasPool(s), SideCanSend(s) PROVE Lives(s, SideSend(s, k))
  BY <1>5 DEF SideCanSend, SideSend, HasPool, Lives, Moves
<1>6. CASE TWI_Tx_Slave_Tx
  BY <1>1, <1>5, <1>6 DEF TWI_Tx_Slave_Tx
<1>7. CASE TWI_Tx_Slave_Rx
  BY <1>1, <1>5, <1>7 DEF TWI_Tx_Slave_Rx
<1>8. CASE StxDevice
  BY <1>8 DEF StxDevice, SideDevice, HasPool, Lives
<1>9. CASE SrxDevice
  BY <1>9 DEF SrxDevice, SideDevice, HasPool, Lives
<1>10. ASSUME NEW s, NEW t, NEW p, HasPool(s), s.pool.sched # <<>>, HasPool(t), t.pool = s.pool
       PROVE  /\ Lives(s, TWI_Xfr_Slave_Tx_Chk_Complete(t, p))
              /\ Lives(s, TWI_Xfr_Slave_Rx_Chk_Complete(t, p))
  BY <1>10 DEF TWI_Xfr_Slave_Tx_Chk_Complete, TWI_Xfr_Slave_Rx_Chk_Complete,
               SideDone, Cleared, Oldest, HasPool, Lives, Moves
<1>11. CASE TWI_Rx_Slave_Tx_Rsp
  <2>1. Lives(srx, srx')
    BY <1>1, <1>11 DEF TWI_Rx_Slave_Tx_Rsp
  <2>2. CASE ~ReplyOk(stx, Head(rsp))
    BY <2>1, <2>2, <1>1, <1>11 DEF TWI_Rx_Slave_Tx_Rsp
  <2>3. CASE ReplyOk(stx, Head(rsp))
    <3>1. PICK n, p :
            stx' = TWI_Xfr_Slave_Tx_Chk_Complete([stx EXCEPT !.free = n], p)
      BY <2>3, <1>11 DEF TWI_Rx_Slave_Tx_Rsp
    <3>2. HasPool([stx EXCEPT !.free = n]) /\ [stx EXCEPT !.free = n].pool = stx.pool
      BY DEF HasPool
    <3>. QED
      BY <2>1, <2>3, <3>1, <3>2, <1>10 DEF ReplyOk
  <2>. QED
    BY <2>2, <2>3
<1>12. CASE TWI_Rx_Slave_Rx_Rsp
  <2>1. Lives(stx, stx')
    BY <1>1, <1>12 DEF TWI_Rx_Slave_Rx_Rsp
  <2>2. CASE ~ReplyOk(srx, Head(rsp))
    BY <2>1, <2>2, <1>1, <1>12 DEF TWI_Rx_Slave_Rx_Rsp
  <2>3. CASE ReplyOk(srx, Head(rsp))
    <3>1. PICK n, p :
            \/ srx' = TWI_Xfr_Slave_Rx_Chk_Complete([srx EXCEPT !.free = n], p)
            \/ srx' = [[srx EXCEPT !.free = n] EXCEPT !.prog[Oldest(srx)] = p]
      BY <2>3, <1>12 DEF TWI_Rx_Slave_Rx_Rsp
    <3>2. HasPool([srx EXCEPT !.free = n]) /\ [srx EXCEPT !.free = n].pool = srx.pool
      BY DEF HasPool
    <3>3. Lives(srx, [[srx EXCEPT !.free = n] EXCEPT !.prog[Oldest(srx)] = p])
      BY DEF HasPool, Lives
    <3>. QED
      BY <2>1, <2>3, <3>1, <3>2, <3>3, <1>10 DEF ReplyOk
  <2>. QED
    BY <2>2, <2>3
<1>13. CASE TWI_Rx_Slave_Rx_Byte
  <2>1. Lives(stx, stx')
    BY <1>1, <1>13 DEF TWI_Rx_Slave_Rx_Byte
  <2>2. PICK p :
          \/ srx' = srx
          \/ /\ srx.pool.sched # <<>>
             /\ \/ srx' = TWI_Xfr_Slave_Rx_Chk_Complete(srx, p)
                \/ srx' = [srx EXCEPT !.prog[Oldest(srx)] = p]
    BY <1>13 DEF TWI_Rx_Slave_Rx_Byte
  <2>3. Lives(srx, [srx EXCEPT !.prog[Oldest(srx)] = p])
    BY DEF HasPool, Lives
  <2>. QED
    BY <2>1, <2>2, <2>3, <1>1, <1>10
<1>. QED
  BY <1>2, <1>3, <1>4, <1>6, <1>7, <1>8, <1>9, <1>11, <1>12, <1>13 DEF SlaveRx

-----------------------------------------------------------------------------
(* The library as a whole *)

\* Every interface has its lists; those of the TWI count when it is the
\* application's own, not the card's.
HasPools ==
  /\ HasPool(gpio) /\ HasPool(spi) /\ HasPool(ow) /\ HasPool(stx) /\ HasPool(srx)
  /\ "card" \in uses \/ HasPool(twi)

AllLive ==
  /\ uses' = uses
  /\ Lives(gpio, gpio') /\ Lives(spi, spi') /\ Lives(ow, ow')
  /\ Lives(stx, stx') /\ Lives(srx, srx')
  /\ "card" \in uses \/ Lives(twi, twi')

\* What a step does not change lives on.
LEMMA Rest ==
  ASSUME HasPools
  PROVE  /\ OnlyGpio /\ Lives(gpio, gpio') => AllLive
         /\ OnlySpi /\ Lives(spi, spi') => AllLive
         /\ OnlyOw /\ Lives(ow, ow') => AllLive
         /\ OnlyTwi /\ ("card" \in uses \/ Lives(twi, twi')) => AllLive
         /\ OnlySlave /\ Lives(stx, stx') /\ Lives(srx, srx') => AllLive
         /\ OnlyUart => AllLive
         /\ OnlyCard /\ ("card" \in uses \/ twi' = twi) => AllLive
         /\ OnlyLink => AllLive
<1>1. OnlyGpio /\ Lives(gpio, gpio') => AllLive
  BY DEF OnlyGpio, slaveVars, HasPools, AllLive, Lives
<1>2. OnlySpi /\ Lives(spi, spi') => AllLive
  BY DEF OnlySpi, slaveVars, HasPools, AllLive, Lives
<1>3. OnlyOw /\ Lives(ow, ow') => AllLive
  BY DEF OnlyOw, slaveVars, HasPools, AllLive, Lives
<1>4. OnlyTwi /\ ("card" \in uses \/ Lives(twi, twi')) => AllLive
  BY DEF OnlyTwi, slaveVars, HasPools, AllLive, Lives
<1>5. OnlySlave /\ Lives(stx, stx') /\ Lives(srx, srx') => AllLive
  BY DEF OnlySlave, HasPools, AllLive, Lives
<1>6. OnlyUart => AllLive
  BY DEF OnlyUart, slaveVars, HasPools, AllLive, Lives
<1>7. OnlyCard /\ ("card" \in uses \/ twi' = twi) => AllLive
  BY DEF OnlyCard, slaveVars, HasPools, AllLive, Lives
<1>8. OnlyLink => AllLive
  BY DEF OnlyLink, interfaces, HasPools, AllLive, Lives
<1>. QED
  BY <1>1, <1>2, <1>3, <1>4, <1>5, <1>6, <1>7, <1>8

\* Every step of the library, the application and the device.
LEMMA StepLives ==
  ASSUME HasPools, [Next]_vars
  PROVE  AllLive
<1>1. OnlyGpio /\ (GpioUser \/ GPIO_Tx \/ GPIO_Rx) => AllLive
  BY Rest, GpioLives DEF HasPools
<1>2. OnlySpi /\ (SpiUser \/ SPI_Tx \/ SpiRx \/ SpiDevice) => AllLive
  BY Rest, SpiLives DEF HasPools
<1>3. OnlyOw /\ (OwUser \/ OW_Tx \/ OwRx \/ OwDevice) => AllLive
  BY Rest, OwLives DEF HasPools
<1>4. OnlyTwi /\ ((\E requests : TwiUser(requests)) \/ TwiTx \/ TwiRx \/ TwiDevice) => AllLive
  BY Rest, TwiLives DEF HasPools
<1>5. OnlySlave /\ (\/ StxUser \/ SrxUser \/ TWI_Slave_Enable \/ TWI_Slave_Disable
                   \/ TWI_Tx_Slave_Tx \/ TWI_Tx_Slave_Rx \/ SlaveRx \/ StxDevice \/ SrxDevice)
      => AllLive
  BY Rest, SlaveLives DEF HasPools
<1>6. CASE User
  BY <1>1, <1>2, <1>3, <1>4, <1>5, <1>6, Rest DEF User, Using
<1>7. CASE AL_Destroy
  <2>1. /\ gpio' = GpioClear /\ spi' = SpiClear /\ ow' = OwClear /\ twi' = TwiClear
        /\ stx' = SideClear /\ srx' = SideClear /\ uses' = uses
    BY <1>7 DEF AL_Destroy
  <2>2. \A p : Moves(p, EmptyPool)
    BY DEF Moves
  <2>. QED
    BY <2>1, <2>2 DEF GpioClear, SpiClear, OwClear, TwiClear, SideClear, HasPool, Lives, AllLive
<1>8. CASE Mark_Detached
  <2>1. \A p : Moves(p, CompleteAll(p))
    BY DEF Moves
  <2>2. Lives(gpio, gpio') /\ Lives(spi, spi')
    BY <1>8, <2>1 DEF Mark_Detached, GPIO_Complete_All_Xfrs, SPI_Complete_All_Xfrs,
                      HasPools, HasPool, Lives
  <2>3. Lives(stx, stx') /\ Lives(srx, srx')
    BY <1>8, <2>1 DEF Mark_Detached, SideCompleteAll, HasPools, HasPool, Lives
  <2>4. "card" \in uses \/ Lives(twi, twi')
    BY <1>8, <2>1 DEF Mark_Detached, TWI_Complete_All_Xfrs, HasPools, HasPool, Lives
  <2>5. uses' = uses /\ Lives(ow, ow')
    BY <1>8 DEF Mark_Detached, HasPools, Lives
  <2>. QED
    BY <2>2, <2>3, <2>4, <2>5 DEF AllLive
<1>9. CASE Stepping
  <2>1. CASE /\ Step /\ OnlyCard /\ UNCHANGED twi
             /\ IF "card" \in uses THEN CardSteps ELSE UNCHANGED card
    BY <2>1, Rest
  <2>2. CASE OnlyLink
    BY <2>2, Rest
  <2>3. CASE Tx
    BY <2>3, <1>1, <1>2, <1>3, <1>4, <1>5, Rest DEF Tx
  <2>. QED
    BY <1>8, <1>9, <2>1, <2>2, <2>3 DEF Stepping
<1>10. CASE Step_Rx
  <2>1. CASE Rx_Info
    BY <2>1 DEF Rx_Info, HasPools, HasPool, Lives, AllLive
  <2>. QED
    BY <1>10, <2>1, <1>1, <1>2, <1>3, <1>4, <1>5, Rest DEF Step_Rx
<1>11. CASE Device
  BY <1>11, <1>2, <1>3, <1>4, <1>5, Rest DEF Device
<1>12. CASE UNCHANGED vars
  BY <1>12, Rest DEF vars, OnlyLink
<1>. QED
  BY <1>6, <1>7, <1>9, <1>10, <1>11, <1>12, Rest DEF Next

-----------------------------------------------------------------------------

\* The inductive invariant.
IInv == HasPools /\ PoolsInv

AllMove ==
  \A m \in {<<gpio.pool, gpio'.pool>>, <<spi.pool, spi'.pool>>, <<ow.pool, ow'.pool>>,
           <<OwnTwiPool, OwnTwiPool'>>, <<stx.pool, stx'.pool>>, <<srx.pool, srx'.pool>>} :
    m[2] = m[1] \/ Moves(m[1], m[2])

\* No interface is left out of a step's account.
LEMMA StepMoves ==
  ASSUME HasPools, [Next]_vars
  PROVE  HasPools' /\ AllMove
<1>1. AllLive
  BY StepLives
<1>2. HasPools'
  BY <1>1 DEF AllLive, Lives, HasPools
<1>3. OwnTwiPool' = OwnTwiPool \/ Moves(OwnTwiPool, OwnTwiPool')
  BY <1>1 DEF AllLive, Lives, OwnTwiPool
<1>. QED
  BY <1>1, <1>2, <1>3 DEF AllLive, Lives, AllMove

\* At the start all lists are empty.
LEMMA StartsEmpty ==
  ASSUME Init
  PROVE  /\ HasPools
         /\ gpio.pool = EmptyPool /\ spi.pool = EmptyPool /\ ow.pool = EmptyPool
         /\ OwnTwiPool = EmptyPool /\ stx.pool = EmptyPool /\ srx.pool = EmptyPool
  BY DEF Init, GpioInit, SpiInit, OwInit, TwiInit, SlaveInit,
         GpioClear, SpiClear, OwClear, TwiClear, SideClear, HasPools, HasPool, OwnTwiPool

\* It holds at the start, and every step keeps it.
LEMMA IInvHolds == Spec => []IInv
<1>1. Init => IInv
  BY StartsEmpty, EmptyInv DEF IInv, PoolsInv
<1>2. IInv /\ [Next]_vars => IInv'
  BY StepMoves, MovesInv DEF IInv, PoolsInv, AllMove
<1>. QED
  BY <1>1, <1>2, PTL DEF Spec

(* In every reachable state the lists of every interface agree with the    *)
(* objects in them, and with what the application holds, for any number of *)
(* objects, any buffers and requests, and any behaviour of the device.     *)
THEOREM PoolsAgree == Spec => []PoolsInv
<1>1. IInv => PoolsInv
  BY DEF IInv
<1>. QED
  BY <1>1, IInvHolds, PTL

\* An object freed or handed over by a step is so in the abstract one too.
LEMMA StepsPromised ==
  ASSUME IInv, [Next]_vars
  PROVE  \A m \in {<<gpio.pool, gpio'.pool>>, <<spi.pool, spi'.pool>>, <<ow.pool, ow'.pool>>,
                  <<OwnTwiPool, OwnTwiPool'>>, <<stx.pool, stx'.pool>>, <<srx.pool, srx'.pool>>} :
           Promised(Status(m[1]), Status(m[2]))
<1>1. AllMove
  BY StepMoves DEF IInv
<1>2. \A p, q : PoolInv(p) /\ (q = p \/ Moves(p, q)) => Promised(Status(p), Status(q))
  BY MovesPromised DEF Promised
<1>. QED
  BY <1>1, <1>2 DEF IInv, PoolsInv, AllMove

(* Every interface keeps the promise of AxicatTransfers: an object is the  *)
(* application's own until it destroys it, and one that was destroyed      *)
(* early is handed out again only after its transfer has ended.            *)
THEOREM PromiseHolds == Spec => PromiseKept
<1>1. Status(EmptyPool) = [x \in Xfrs |-> "free"]
  BY DEF Status, EmptyPool, InList
<1>2. Spec => GpioTransfers!Spec
  <2>1. Init => GpioTransfers!Init
    BY <1>1, StartsEmpty DEF GpioTransfers!Init
  <2>2. IInv /\ [Next]_vars => [GpioTransfers!Next]_(Status(gpio.pool))
    BY StepsPromised DEF Promised, Allowed, GpioTransfers!Next, GpioTransfers!Move,
                         GpioTransfers!Moves, GpioTransfers!EndAll, GpioTransfers!Discard
  <2>. QED
    BY <2>1, <2>2, IInvHolds, PTL DEF Spec, GpioTransfers!Spec
<1>3. Spec => SpiTransfers!Spec
  <2>1. Init => SpiTransfers!Init
    BY <1>1, StartsEmpty DEF SpiTransfers!Init
  <2>2. IInv /\ [Next]_vars => [SpiTransfers!Next]_(Status(spi.pool))
    BY StepsPromised DEF Promised, Allowed, SpiTransfers!Next, SpiTransfers!Move,
                         SpiTransfers!Moves, SpiTransfers!EndAll, SpiTransfers!Discard
  <2>. QED
    BY <2>1, <2>2, IInvHolds, PTL DEF Spec, SpiTransfers!Spec
<1>4. Spec => OwTransfers!Spec
  <2>1. Init => OwTransfers!Init
    BY <1>1, StartsEmpty DEF OwTransfers!Init
  <2>2. IInv /\ [Next]_vars => [OwTransfers!Next]_(Status(ow.pool))
    BY StepsPromised DEF Promised, Allowed, OwTransfers!Next, OwTransfers!Move,
                         OwTransfers!Moves, OwTransfers!EndAll, OwTransfers!Discard
  <2>. QED
    BY <2>1, <2>2, IInvHolds, PTL DEF Spec, OwTransfers!Spec
<1>5. Spec => TwiTransfers!Spec
  <2>1. Init => TwiTransfers!Init
    BY <1>1, StartsEmpty DEF TwiTransfers!Init
  <2>2. IInv /\ [Next]_vars => [TwiTransfers!Next]_(Status(OwnTwiPool))
    BY StepsPromised DEF Promised, Allowed, TwiTransfers!Next, TwiTransfers!Move,
                         TwiTransfers!Moves, TwiTransfers!EndAll, TwiTransfers!Discard
  <2>. QED
    BY <2>1, <2>2, IInvHolds, PTL DEF Spec, TwiTransfers!Spec
<1>6. Spec => StxTransfers!Spec
  <2>1. Init => StxTransfers!Init
    BY <1>1, StartsEmpty DEF StxTransfers!Init
  <2>2. IInv /\ [Next]_vars => [StxTransfers!Next]_(Status(stx.pool))
    BY StepsPromised DEF Promised, Allowed, StxTransfers!Next, StxTransfers!Move,
                         StxTransfers!Moves, StxTransfers!EndAll, StxTransfers!Discard
  <2>. QED
    BY <2>1, <2>2, IInvHolds, PTL DEF Spec, StxTransfers!Spec
<1>7. Spec => SrxTransfers!Spec
  <2>1. Init => SrxTransfers!Init
    BY <1>1, StartsEmpty DEF SrxTransfers!Init
  <2>2. IInv /\ [Next]_vars => [SrxTransfers!Next]_(Status(srx.pool))
    BY StepsPromised DEF Promised, Allowed, SrxTransfers!Next, SrxTransfers!Move,
                         SrxTransfers!Moves, SrxTransfers!EndAll, SrxTransfers!Discard
  <2>. QED
    BY <2>1, <2>2, IInvHolds, PTL DEF Spec, SrxTransfers!Spec
<1>. QED
  BY <1>2, <1>3, <1>4, <1>5, <1>6, <1>7 DEF PromiseKept

=============================================================================
