--------------------------- MODULE AxicatCard_proofs ---------------------------
(***************************************************************************)
(* The I/O card's calls of the bus leave nothing behind in the library:    *)
(* for any number of transfer objects, at least two, any requests, buffer  *)
(* lengths and behaviour of the device.                                    *)
(***************************************************************************)
EXTENDS Axicat, AxicatPool_proofs

LOCAL INSTANCE Functions

\* The calls of I2C_Xfr_Sync that the commands consist of.
CallKinds == {Write, Read, WriteRead, Try(WriteRead)}

LEMMA CallFacts ==
  /\ \A c \in CallKinds : Len(c.xfrs) \in 1..2
  /\ \A c \in Commands : c \in Seq(CallKinds) /\ c # <<>>
  /\ \A i \in 1..5 : Probes[i] \in Seq(CallKinds) /\ Probes[i] # <<>>
  /\ Len(Probes) = 5
<1>1. \A c \in CallKinds : Len(c.xfrs) \in 1..2
  BY DEF CallKinds, Write, Read, WriteRead, Try
<1>2. Write \in CallKinds /\ Read \in CallKinds /\ WriteRead \in CallKinds /\ Try(WriteRead) \in CallKinds
  BY DEF CallKinds
<1>3. \A a, b, c \in CallKinds : /\ <<a>> \in Seq(CallKinds) /\ <<a>> # <<>>
                                 /\ <<a, b>> \in Seq(CallKinds) /\ <<a, b>> # <<>>
                                 /\ <<a, b, c>> \in Seq(CallKinds) /\ <<a, b, c>> # <<>>
  OBVIOUS
<1>4. \A c \in Commands : c \in Seq(CallKinds) /\ c # <<>>
  BY <1>2, <1>3 DEF Commands
<1>5. \A i \in 1..5 : Probes[i] \in Seq(CallKinds) /\ Probes[i] # <<>>
  <2>1. \A i \in 1..5 : i \in {1, 2, 3, 4, 5}
    OBVIOUS
  <2>2. /\ Probes[1] = <<Write>> /\ Probes[2] = <<Read>> /\ Probes[3] = <<Write>>
        /\ Probes[4] = <<Write, Try(WriteRead), Write>> /\ Probes[5] = <<Write>>
    BY DEF Probes
  <2>. QED
    BY <1>2, <1>3, <2>1, <2>2
<1>. QED
  BY <1>1, <1>4, <1>5 DEF Probes

CardTypes(c) ==
  /\ DOMAIN c = {"mode", "sync", "calls", "at", "ok", "chunk", "probe", "present", "detached", "slots"}
  /\ c.mode \in {"open", "init", "serve", "stop", "gone"}
  /\ c.sync \in {"none", "poll", "status"}
  /\ c.calls \in Seq(CallKinds)
  /\ c.at \in 1..2
  /\ c.chunk \in Int /\ c.probe \in 0..5
  /\ c.slots \in [Slots -> Xfrs \cup {NoXfr}]

\* Where a call is.
CardAt ==
  /\ card.sync # "none" => card.calls # <<>> /\ card.at \in 1..Len(Call)
  /\ card.sync = "status" => card.slots[card.at] # NoXfr
  /\ card.sync = "none" => card.at = 1
  /\ card.mode = "init" => card.probe \in 1..5
  /\ card.mode = "open" => card.sync = "none" /\ card.calls = <<>> /\ ~card.detached

\* The library has the transfers of the slots and no others; p: its pool.
SlotsOwn(p, s) ==
  /\ PoolInv(p) /\ p.detached = {}
  /\ \A x \in Xfrs : x \in p.held <=> \E i \in Slots : s[i] = x
  /\ \A i, j \in Slots : s[i] = s[j] => i = j \/ s[i] = NoXfr

\* Until a call gives up, it has yet to read the result of every slot in use.
CallClears ==
  ~card.detached =>
    \A i \in Slots : card.slots[i] # NoXfr =>
      card.sync # "none" /\ card.at <= i /\ i <= Len(Call)

CardInv ==
  /\ {"pool", "prog", "on", "bus"} \subseteq DOMAIN twi
  /\ CardTypes(card)
  /\ CardAt
  /\ SlotsOwn(twi.pool, card.slots)
  /\ CallClears

LEMMA CardInvImplies ==
  ASSUME CardInv
  PROVE  SlotsOwnTheirTransfers /\ CallsLeaveNothing
<1>1. card.slots \in [Slots -> Xfrs \cup {NoXfr}] /\ NoXfr \notin Xfrs
  BY NoXfrAssumption DEF CardInv, CardTypes
<1>2. twi.pool.held \subseteq Xfrs
  BY DEF CardInv, SlotsOwn, PoolInv, PoolRecords
<1>3. twi.pool.held = Range(card.slots) \ {NoXfr}
  BY <1>1, <1>2 DEF CardInv, SlotsOwn, Range
<1>4. SlotsOwnTheirTransfers
  BY <1>3 DEF CardInv, SlotsOwn, SlotsOwnTheirTransfers
<1>5. ASSUME card.sync = "none", ~card.detached
      PROVE  card.slots = NoTransfers /\ twi.pool.sched = <<>>
  <2>1. \A i \in Slots : card.slots[i] = NoXfr
    BY <1>5 DEF CardInv, CallClears
  <2>2. card.slots = NoTransfers
    BY <1>1, <2>1 DEF NoTransfers
  <2>3. twi.pool.held = {}
    BY <1>1, <1>2, <2>1 DEF CardInv, SlotsOwn
  <2>4. \A x \in Xfrs : twi.pool.loc[x] # "scheduled"
    BY <2>3 DEF CardInv, SlotsOwn, PoolInv, HeldInv
  <2>5. twi.pool.sched \in Seq(Xfrs) /\ InList(twi.pool) = Scheduled(twi.pool)
    BY DEF CardInv, SlotsOwn, PoolInv, ListInv, PoolRecords
  <2>6. \A i \in 1..Len(twi.pool.sched) : twi.pool.sched[i] \in Scheduled(twi.pool)
    BY <2>5 DEF InList
  <2>7. \A i \in 1..Len(twi.pool.sched) : FALSE
    BY <2>4, <2>6 DEF Scheduled
  <2>. QED
    BY <2>2, <2>5, <2>7
<1>. QED
  BY <1>4, <1>5 DEF CallsLeaveNothing

-----------------------------------------------------------------------------
(* The operations of a bus *)

BusOk(b) ==
  /\ DOMAIN b = {"twi", "slots"}
  /\ {"pool", "prog", "on", "bus"} \subseteq DOMAIN b.twi
  /\ b.slots \in [Slots -> Xfrs \cup {NoXfr}]
  /\ SlotsOwn(b.twi.pool, b.slots)

\* While a slot is free the library has an object to hand out.
LEMMA FreeFacts ==
  ASSUME NEW b, BusOk(b), NEW i \in Slots, b.slots[i] = NoXfr
  PROVE  FreeXfr(b.twi.pool) \in Xfrs /\ CanCreate(b.twi.pool, FreeXfr(b.twi.pool))
<1>. DEFINE p == b.twi.pool
<1>1. /\ p.loc \in [Xfrs -> Locations] /\ p.detached = {}
      /\ \A x \in Xfrs : x \in p.held <=> p.loc[x] = "assigned" \/ p.loc[x] = "scheduled"
      /\ \A x \in Xfrs : x \in p.held <=> \E j \in Slots : b.slots[j] = x
  BY DEF BusOk, SlotsOwn, PoolInv, HeldInv, PoolRecords
<1>2. PICK x \in Xfrs : x \notin p.held
  <2>1. PICK x, y \in Xfrs : x # y
    BY XfrsAssumption
  <2>2. \A j, k \in Slots : j # i /\ k # i => j = k
    BY DEF Slots
  <2>3. ~(x \in p.held /\ y \in p.held)
    <3>1. SUFFICES ASSUME x \in p.held, y \in p.held PROVE FALSE
      OBVIOUS
    <3>2. PICK j \in Slots : b.slots[j] = x
      BY <1>1, <3>1
    <3>3. PICK k \in Slots : b.slots[k] = y
      BY <1>1, <3>1
    <3>. QED
      BY <2>1, <2>2, <3>2, <3>3, NoXfrAssumption
  <2>. QED
    BY <2>1, <2>3
<1>3. p.loc[x] \in {"none", "cached"}
  BY <1>1, <1>2 DEF Locations
<1>4. \E y \in Xfrs : CanCreate(p, y)
  <2>1. CASE \E y \in Xfrs : p.loc[y] = "cached"
    BY <2>1 DEF CanCreate
  <2>2. CASE ~\E y \in Xfrs : p.loc[y] = "cached"
    BY <1>3, <2>2 DEF CanCreate
  <2>. QED
    BY <2>1, <2>2
<1>. QED
  BY <1>4 DEF FreeXfr

\* A transfer is scheduled in a free slot.
LEMMA BusSchedules ==
  ASSUME NEW b, BusOk(b), NEW i \in Slots, b.slots[i] = NoXfr, NEW q
  PROVE  /\ BusOk(I2CBUS_Xfr_Schedule_CB(b, i, q))
         /\ I2CBUS_Xfr_Schedule_CB(b, i, q).slots[i] # NoXfr
         /\ \A j \in Slots \ {i} : I2CBUS_Xfr_Schedule_CB(b, i, q).slots[j] = b.slots[j]
<1>. DEFINE p == b.twi.pool
            x == FreeXfr(p)
            t == [b.twi EXCEPT !.pool = Create(@, x)]
            c == I2CBUS_Xfr_Schedule_CB(b, i, q)
<1>1. x \in Xfrs /\ CanCreate(p, x) /\ x # NoXfr
  BY FreeFacts, NoXfrAssumption
<1>2. PoolInv(p) /\ p.detached = {} /\ b.slots \in [Slots -> Xfrs \cup {NoXfr}]
  BY DEF BusOk, SlotsOwn
<1>3. p \in PoolRecords
  BY <1>2 DEF PoolInv
<1>4. t.pool = Create(p, x) /\ {"pool", "prog", "on", "bus"} \subseteq DOMAIN t
  BY DEF BusOk
<1>5. PoolInv(Create(p, x))
  BY <1>1, <1>2, CreateInv
<1>6. CanSchedule(Create(p, x), x)
  BY <1>1, <1>3 DEF CanSchedule, Create, PoolRecords
<1>7. PoolInv(Schedule(Create(p, x), x))
  BY <1>1, <1>5, <1>6, ScheduleInv
<1>8. /\ c.twi.pool = Schedule(Create(p, x), x) /\ {"pool", "prog", "on", "bus"} \subseteq DOMAIN c.twi
      /\ c.slots = [b.slots EXCEPT ![i] = x]
  BY <1>4 DEF I2CBUS_Xfr_Schedule_CB, TwiSchedule
<1>9. /\ Schedule(Create(p, x), x).held = p.held \cup {x}
      /\ Schedule(Create(p, x), x).detached = p.detached
  BY <1>3 DEF Schedule, Create, PoolRecords
<1>10. x \notin p.held
  BY <1>1, <1>2 DEF PoolInv, HeldInv, CanCreate
<1>11. \A j \in Slots : b.slots[j] # x
  BY <1>1, <1>10 DEF BusOk, SlotsOwn
<1>12. c.slots \in [Slots -> Xfrs \cup {NoXfr}] /\ c.slots[i] = x /\ \A j \in Slots \ {i} : c.slots[j] = b.slots[j]
  BY <1>1, <1>2, <1>8
<1>13. \A y \in Xfrs : y \in p.held <=> \E j \in Slots : b.slots[j] = y
  BY DEF BusOk, SlotsOwn
<1>14. \A y \in Xfrs : y \in p.held \cup {x} <=> \E j \in Slots : c.slots[j] = y
  BY <1>12, <1>13, NoXfrAssumption
<1>15. \A j, k \in Slots : c.slots[j] = c.slots[k] => j = k \/ c.slots[j] = NoXfr
  <2>1. \A j, k \in Slots : b.slots[j] = b.slots[k] => j = k \/ b.slots[j] = NoXfr
    BY DEF BusOk, SlotsOwn
  <2>. QED
    BY <1>11, <1>12, <2>1
<1>16. SlotsOwn(c.twi.pool, c.slots)
  <2>. HIDE DEF c, p, x
  <2>. QED
    BY <1>2, <1>7, <1>8, <1>9, <1>14, <1>15 DEF SlotsOwn
<1>17. DOMAIN c = {"twi", "slots"}
  BY DEF I2CBUS_Xfr_Schedule_CB
<1>. QED
  <2>. HIDE DEF x
  <2>. QED
    BY <1>1, <1>8, <1>12, <1>16, <1>17 DEF BusOk

\* A transfer is cancelled; its slot keeps it.
LEMMA BusCancels ==
  ASSUME NEW b, BusOk(b), NEW i \in Slots
  PROVE  /\ BusOk(I2CBUS_Xfr_Cancel_CB(b, i))
         /\ I2CBUS_Xfr_Cancel_CB(b, i).slots = b.slots
<1>. DEFINE p == b.twi.pool
            x == b.slots[i]
            c == I2CBUS_Xfr_Cancel_CB(b, i)
<1>1. CASE b.slots[i] = NoXfr
  BY <1>1 DEF I2CBUS_Xfr_Cancel_CB
<1>2. CASE b.slots[i] # NoXfr
  <2>1. x \in Xfrs /\ x \in p.held /\ PoolInv(p) /\ p.detached = {}
    BY <1>2 DEF BusOk, SlotsOwn
  <2>2. PoolInv(Cancel(p, x))
    BY <2>1, CancelInv
  <2>3. Cancel(p, x).held = p.held /\ Cancel(p, x).detached = {}
    BY <2>1 DEF Cancel, Complete, PoolInv, PoolRecords
  <2>4. c = [b EXCEPT !.twi = TwiCancel(@, b.slots[i])]
    BY <1>2 DEF I2CBUS_Xfr_Cancel_CB
  <2>5. c.slots = b.slots /\ c.twi = TwiCancel(b.twi, x) /\ DOMAIN c = {"twi", "slots"}
    BY <2>4 DEF BusOk
  <2>6. /\ TwiCancel(b.twi, x).pool = Cancel(p, x)
        /\ {"pool", "prog", "on", "bus"} \subseteq DOMAIN TwiCancel(b.twi, x)
    BY DEF TwiCancel, TWI_Xfr_Master_Complete, Cancel, BusOk
  <2>7. SlotsOwn(Cancel(p, x), b.slots)
    BY <2>2, <2>3 DEF BusOk, SlotsOwn
  <2>. QED
    BY <2>5, <2>6, <2>7 DEF BusOk
<1>. QED
  BY <1>1, <1>2

\* The result of a transfer that is over is read, and its slot is free again.
LEMMA BusReads ==
  ASSUME NEW b, BusOk(b), NEW i \in Slots, b.slots[i] # NoXfr
  PROVE  /\ BusOk(I2CBUS_Xfr_Get_Status_CB(b, i))
         /\ StillScheduled(b, i) => I2CBUS_Xfr_Get_Status_CB(b, i) = b
         /\ ~StillScheduled(b, i) =>
              I2CBUS_Xfr_Get_Status_CB(b, i).slots = [b.slots EXCEPT ![i] = NoXfr]
<1>. DEFINE p == b.twi.pool
            x == b.slots[i]
            c == I2CBUS_Xfr_Get_Status_CB(b, i)
<1>1. CASE StillScheduled(b, i)
  BY <1>1 DEF I2CBUS_Xfr_Get_Status_CB
<1>2. CASE ~StillScheduled(b, i)
  <2>1. x \in Xfrs /\ x \in p.held /\ PoolInv(p) /\ p.detached = {} /\ p \in PoolRecords
    BY DEF BusOk, SlotsOwn, PoolInv
  <2>2. p.loc[x] = "assigned"
    BY <1>2, <2>1 DEF PoolInv, HeldInv, StillScheduled
  <2>3. Cancel(p, x) = p
    BY <2>2 DEF Cancel, Cancels
  <2>4. Destroy(p, x) = [p EXCEPT !.loc = [@ EXCEPT ![x] = "cached"], !.held = @ \ {x}]
    BY <2>2, <2>3 DEF Destroy
  <2>5. Destroy(p, x).held = p.held \ {x} /\ Destroy(p, x).detached = {}
    BY <2>1, <2>4 DEF PoolRecords
  <2>6. PoolInv(Destroy(p, x))
    BY <2>1, DestroyInv
  <2>7. c = [twi |-> TwiDestroy(b.twi, x), slots |-> [b.slots EXCEPT ![i] = NoXfr]]
    BY <1>2 DEF I2CBUS_Xfr_Get_Status_CB
  <2>8. c.slots = [b.slots EXCEPT ![i] = NoXfr] /\ c.twi = TwiDestroy(b.twi, x) /\ DOMAIN c = {"twi", "slots"}
    BY <2>7
  <2>9. /\ TwiDestroy(b.twi, x).pool = Destroy(p, x)
        /\ {"pool", "prog", "on", "bus"} \subseteq DOMAIN TwiDestroy(b.twi, x)
    BY DEF TwiDestroy, BusOk
  <2>10. c.slots \in [Slots -> Xfrs \cup {NoXfr}]
    BY <2>8 DEF BusOk
  <2>11. \A j, k \in Slots : c.slots[j] = c.slots[k] => j = k \/ c.slots[j] = NoXfr
    BY <2>8 DEF BusOk, SlotsOwn
  <2>12. \A y \in Xfrs : y \in p.held \ {x} <=> \E j \in Slots : c.slots[j] = y
    BY <2>8, NoXfrAssumption DEF BusOk, SlotsOwn
  <2>13. SlotsOwn(Destroy(p, x), c.slots)
    <3>. HIDE DEF c, p, x
    <3>. QED
      BY <2>5, <2>6, <2>11, <2>12 DEF SlotsOwn
  <2>. QED
    BY <1>2, <2>8, <2>9, <2>10, <2>13 DEF BusOk
<1>. QED
  BY <1>1, <1>2

-----------------------------------------------------------------------------
(* What the library does of itself to the pool: commands are transmitted,  *)
(* or the oldest transfer ends.                                            *)

Runs(s, t) ==
  /\ DOMAIN t = DOMAIN s
  /\ \/ t.pool = s.pool
     \/ s.pool.sched # <<>> /\ t.pool = Complete(s.pool, Head(s.pool.sched))
     \/ s.pool.cur # NoXfr /\ \E all \in BOOLEAN : t.pool = Transmit(s.pool, all)

LEMMA RunsOwn ==
  ASSUME NEW s, NEW t, Runs(s, t), NEW slots, SlotsOwn(s.pool, slots)
  PROVE  SlotsOwn(t.pool, slots)
<1>. DEFINE p == s.pool
<1>1. PoolInv(p) /\ p \in PoolRecords /\ p.detached = {}
  BY DEF SlotsOwn, PoolInv
<1>2. CASE t.pool = p
  BY <1>2
<1>3. CASE p.sched # <<>> /\ t.pool = Complete(p, Head(p.sched))
  <2>1. Head(p.sched) \in InList(p)
    BY <1>1, <1>3 DEF PoolRecords, InList
  <2>2. PoolInv(t.pool)
    BY <1>1, <1>3, <2>1, CompleteInv
  <2>3. t.pool.held = p.held /\ t.pool.detached = {}
    BY <1>1, <1>3 DEF Complete, PoolRecords
  <2>. QED
    BY <2>2, <2>3 DEF SlotsOwn
<1>4. CASE p.cur # NoXfr /\ \E all \in BOOLEAN : t.pool = Transmit(p, all)
  <2>1. PICK all \in BOOLEAN : t.pool = Transmit(p, all)
    BY <1>4
  <2>2. PoolInv(t.pool)
    BY <1>1, <1>4, <2>1, TransmitInv
  <2>3. t.pool.held = p.held /\ t.pool.detached = {}
    BY <1>1, <2>1 DEF Transmit, PoolRecords
  <2>. QED
    BY <2>2, <2>3 DEF SlotsOwn
<1>. QED
  BY <1>2, <1>3, <1>4 DEF Runs

\* The library's own steps.
LEMMA ProgressRuns ==
  ASSUME NEW t, NEW p, "pool" \in DOMAIN twi, DOMAIN t = DOMAIN twi, t.pool = twi.pool,
         twi.pool.sched # <<>>
  PROVE  Runs(twi, Progress(t, p))
  BY DEF Progress, TWI_Xfr_Master_Complete, TwiHead, Runs

LEMMA TwiRuns ==
  ASSUME "pool" \in DOMAIN twi, TwiTx \/ TwiRx \/ TwiDevice
  PROVE  Runs(twi, twi')
<1>1. CASE TWI_Tx_Stop
  BY <1>1 DEF TWI_Tx_Stop, Put, Runs
<1>2. CASE TWI_Tx_Start
  BY <1>2 DEF TWI_Tx_Start, CanSendStart, TwiSending, Put, Next_Xfr, Runs
<1>3. CASE TWI_Tx_Data
  BY <1>3 DEF TWI_Tx_Data, CanSendData, TwiSending, Put, Next_Xfr, Runs
<1>4. CASE TwiDevice
  BY <1>4 DEF TwiDevice, DeviceDoes, Runs
<1>5. ASSUME NEW r PROVE DOMAIN Credited(r) = DOMAIN twi /\ Credited(r).pool = twi.pool
  BY DEF Credited
<1>6. CASE TWI_Rx_Stop
  BY <1>5, <1>6 DEF TWI_Rx_Stop, Runs
<1>7. CASE TWI_Rx_Start
  BY <1>5, <1>7, ProgressRuns DEF TWI_Rx_Start, Runs
<1>8. CASE TWI_Rx_Master_Tx_Rsp
  BY <1>5, <1>8, ProgressRuns DEF TWI_Rx_Master_Tx_Rsp, ReplyFits, Runs
<1>9. CASE TWI_Rx_Master_Rx_Rsp
  BY <1>5, <1>9, ProgressRuns DEF TWI_Rx_Master_Rx_Rsp, ReplyFits, Runs
<1>10. CASE TWI_Rx_Master_Rx_Byte
  BY <1>10, ProgressRuns DEF TWI_Rx_Master_Rx_Byte, Runs
<1>. QED
  BY <1>1, <1>2, <1>3, <1>4, <1>6, <1>7, <1>8, <1>9, <1>10 DEF TwiTx, TwiRx

LEMMA RunsKeeps ==
  ASSUME CardInv, Runs(twi, twi'), card' = card
  PROVE  CardInv'
<1>1. SlotsOwn(twi'.pool, card.slots)
  BY RunsOwn DEF CardInv
<1>2. {"pool", "prog", "on", "bus"} \subseteq DOMAIN twi'
  BY DEF CardInv, Runs
<1>3. Call' = Call
  BY DEF Call
<1>. QED
  BY <1>1, <1>2, <1>3 DEF CardInv, CardAt, CallClears

\* At the start, and when the library is destroyed.
LEMMA CardEmpty ==
  ASSUME NEW mode \in {"open", "gone"}, NEW c,
         c = [CardClear EXCEPT !.mode = mode] \/ (mode = "open" /\ c = CardClear)
  PROVE  /\ {"pool", "prog", "on", "bus"} \subseteq DOMAIN TwiClear
         /\ CardTypes(c)
         /\ c.sync = "none" /\ c.mode = mode /\ c.calls = <<>> /\ ~c.detached /\ c.at = 1
         /\ SlotsOwn(TwiClear.pool, c.slots)
         /\ \A i \in Slots : c.slots[i] = NoXfr
<1>1. <<>> \in Seq(CallKinds)
  OBVIOUS
<1>2. CardTypes(c)
  <2>1. c = [mode |-> mode, sync |-> "none", calls |-> <<>>, at |-> 1, ok |-> TRUE, chunk |-> 0,
             probe |-> 0, present |-> FALSE, detached |-> FALSE, slots |-> NoTransfers]
    BY DEF CardClear
  <2>2. NoTransfers \in [Slots -> Xfrs \cup {NoXfr}]
    BY DEF NoTransfers
  <2>3. mode \in {"open", "init", "serve", "stop", "gone"}
    OBVIOUS
  <2>. HIDE DEF CardClear
  <2>. QED
    <3>1. /\ c.mode = mode /\ c.sync = "none" /\ c.calls = <<>> /\ c.at = 1 /\ c.chunk = 0 /\ c.probe = 0
          /\ c.slots = NoTransfers /\ c.ok = TRUE /\ c.present = FALSE /\ c.detached = FALSE
      BY <2>1
    <3>2. DOMAIN c = {"mode", "sync", "calls", "at", "ok", "chunk", "probe", "present", "detached", "slots"}
      BY <2>1
    <3>4. c.mode \in {"open", "init", "serve", "stop", "gone"} /\ c.sync \in {"none", "poll", "status"}
      BY <2>3, <3>1
    <3>5. c.at \in 1..2 /\ c.chunk \in Int /\ c.probe \in 0..5
      BY <3>1
    <3>. QED
      BY <1>1, <2>2, <3>1, <3>2, <3>4, <3>5 DEF CardTypes
<1>3. \A i \in Slots : c.slots[i] = NoXfr
  BY DEF CardClear, NoTransfers
<1>4. SlotsOwn(TwiClear.pool, c.slots)
  BY <1>3, EmptyInv, NoXfrAssumption DEF SlotsOwn, TwiClear, EmptyPool
<1>. QED
  BY <1>2, <1>3, <1>4 DEF CardClear, TwiClear

-----------------------------------------------------------------------------
(* The card's process *)

\* A call returns: the next call of the command, or the next probe.
LEMMA ReturnsFacts ==
  ASSUME NEW c, CardTypes(c), c.calls # <<>>, c.mode # "open", c.mode = "init" => c.probe \in 1..5,
         NEW ok
  PROVE  /\ CardTypes(Returns(c, ok))
         /\ Returns(c, ok).sync = "none" /\ Returns(c, ok).at = 1 /\ Returns(c, ok).mode # "open"
         /\ Returns(c, ok).detached = c.detached /\ Returns(c, ok).slots = c.slots
         /\ Returns(c, ok).mode = "init" => Returns(c, ok).probe \in 1..5
<1>. DEFINE goesOn == ok \/ ~Head(c.calls).must
            rest == Tail(c.calls)
            d == [c EXCEPT !.sync = "none", !.at = 1, !.ok = TRUE]
<1>1. CardTypes(d) /\ rest \in Seq(CallKinds)
  BY DEF CardTypes
<1>2. /\ d.sync = "none" /\ d.at = 1 /\ d.mode = c.mode /\ d.detached = c.detached
      /\ d.slots = c.slots /\ d.probe = c.probe
  BY DEF CardTypes
<1>3. ASSUME NEW e, CardTypes(e), NEW s \in Seq(CallKinds)
      PROVE  CardTypes([e EXCEPT !.calls = s])
  <2>1. [e EXCEPT !.calls = s].calls = s /\ DOMAIN [e EXCEPT !.calls = s] = DOMAIN e
    BY <1>3 DEF CardTypes
  <2>2. \A i \in DOMAIN e \ {"calls"} : [e EXCEPT !.calls = s][i] = e[i]
    OBVIOUS
  <2>. QED
    BY <1>3, <2>1, <2>2 DEF CardTypes
<1>4. CASE goesOn /\ rest # <<>>
  <2>1. Returns(c, ok) = [d EXCEPT !.calls = rest]
    BY <1>4 DEF Returns
  <2>. HIDE DEF d, rest
  <2>2. CardTypes([d EXCEPT !.calls = rest])
    BY <1>1, <1>3
  <2>. QED
    BY <1>1, <1>2, <2>1, <2>2 DEF CardTypes
<1>5. CASE ~(goesOn /\ rest # <<>>)
  <2>1. Returns(c, ok) = Ended(d, goesOn)
    BY <1>5 DEF Returns
  <2>. HIDE DEF d, rest, goesOn
  <2>. DEFINE present == d.present \/ goesOn
  <2>3. <<>> \in Seq(CallKinds)
    OBVIOUS
  <2>4. CASE c.mode = "serve"
    <3>1. Returns(c, ok) = [d EXCEPT !.calls = <<>>, !.chunk = @ - 1]
      BY <1>2, <2>1, <2>4 DEF Ended
    <3>. QED
      BY <1>1, <1>2, <2>3, <2>4, <3>1 DEF CardTypes
  <2>5. CASE c.mode = "init" /\ c.probe < Len(Probes)
    <3>1. Returns(c, ok) = [d EXCEPT !.calls = Probes[d.probe + 1], !.probe = @ + 1, !.present = present]
      BY <1>2, <2>1, <2>5 DEF Ended
    <3>2. d.probe + 1 \in 1..5 /\ Probes[d.probe + 1] \in Seq(CallKinds)
      BY <1>1, <1>2, <2>5, CallFacts DEF CardTypes
    <3>. HIDE DEF present
    <3>. QED
      BY <1>1, <1>2, <2>3, <2>5, <3>1, <3>2 DEF CardTypes
  <2>6. CASE c.mode # "serve" /\ ~(c.mode = "init" /\ c.probe < Len(Probes))
    <3>1. Returns(c, ok) = [d EXCEPT !.calls = <<>>, !.probe = 0, !.present = FALSE,
                                     !.mode = IF present THEN "serve" ELSE "stop"]
      BY <1>2, <2>1, <2>6 DEF Ended
    <3>. HIDE DEF present
    <3>. QED
      BY <1>1, <1>2, <2>3, <2>6, <3>1 DEF CardTypes
  <2>. QED
    BY <2>4, <2>5, <2>6
<1>. QED
  BY <1>4, <1>5

\* A state in which the process is in no call and its slots are free, or the
\* card is marked as detached.
LEMMA NoCallIsFine ==
  ASSUME {"pool", "prog", "on", "bus"} \subseteq DOMAIN twi, CardTypes(card),
         card.sync = "none", card.at = 1, card.mode = "init" => card.probe \in 1..5, card.mode # "open",
         SlotsOwn(twi.pool, card.slots),
         card.detached \/ \A i \in Slots : card.slots[i] = NoXfr
  PROVE  CardInv
  BY DEF CardInv, CardAt, CallClears

LEMMA GivesUpKeeps ==
  ASSUME CardInv, card.mode # "open", card.calls # <<>>, NEW b, BusOk(b), GivesUp(b)
  PROVE  CardInv'
<1>. DEFINE b1 == I2CBUS_Xfr_Cancel_CB(b, 1)
            bn == IF Len(Call) = 1 THEN b1 ELSE I2CBUS_Xfr_Cancel_CB(b1, 2)
            c == [card EXCEPT !.slots = bn.slots, !.detached = TRUE]
<1>1. 1 \in Slots /\ 2 \in Slots
  BY DEF Slots
<1>2. BusOk(b1)
  BY <1>1, BusCancels
<1>3. BusOk(bn)
  BY <1>1, <1>2, BusCancels
<1>4. twi' = bn.twi /\ card' = Returns(c, FALSE)
  BY DEF GivesUp
<1>. HIDE DEF bn
<1>5. CardTypes(c) /\ c.calls # <<>> /\ c.mode # "open" /\ c.detached /\ c.slots = bn.slots
      /\ (c.mode = "init" => c.probe \in 1..5)
  BY <1>3 DEF CardInv, CardAt, CardTypes, BusOk
<1>. HIDE DEF c
<1>6. /\ CardTypes(Returns(c, FALSE))
      /\ Returns(c, FALSE).sync = "none" /\ Returns(c, FALSE).at = 1 /\ Returns(c, FALSE).mode # "open"
      /\ Returns(c, FALSE).detached = c.detached /\ Returns(c, FALSE).slots = c.slots
      /\ Returns(c, FALSE).mode = "init" => Returns(c, FALSE).probe \in 1..5
  BY <1>5, ReturnsFacts, Zenon
<1>7. SlotsOwn(bn.twi.pool, bn.slots) /\ {"pool", "prog", "on", "bus"} \subseteq DOMAIN bn.twi
  BY <1>3 DEF BusOk
<1>. QED
  BY <1>4, <1>5, <1>6, <1>7 DEF CardInv, CardAt, CallClears

\* What the bus looks like in a state.
LEMMA BusIsOk ==
  ASSUME CardInv
  PROVE  BusOk(Bus) /\ Bus.twi = twi /\ Bus.slots = card.slots
  BY DEF CardInv, CardTypes, BusOk, Bus

LEMMA Counting ==
  ASSUME NEW n \in 1..2, NEW a \in 1..n
  PROVE  1 \in 1..n /\ a \in 1..2 /\ (a < n => a + 1 \in 1..n /\ a + 1 \in 1..2)
OBVIOUS

LEMMA CallLength ==
  ASSUME CardInv, card.calls # <<>>
  PROVE  Len(Call) \in 1..2
<1>1. card.calls \in Seq(CallKinds)
  BY DEF CardInv, CardTypes
<1>2. Head(card.calls) \in CallKinds
  BY <1>1
<1>. QED
  BY <1>2, CallFacts DEF Call

\* A call begins to poll: the slots of its transfers are those in use.
LEMMA PollsKeeps ==
  ASSUME CardInv, card.mode # "open", card.sync = "none", card.calls # <<>>, NEW b, BusOk(b), Polls(b),
         card.detached \/ \A i \in Slots : b.slots[i] # NoXfr => i <= Len(Call)
  PROVE  CardInv'
<1>1. Len(Call) \in 1..2
  BY CallLength
<1>2. twi' = b.twi /\ card' = [card EXCEPT !.slots = b.slots, !.sync = "poll"]
  BY DEF Polls
<1>3. /\ CardTypes(card') /\ card'.slots = b.slots /\ card'.sync = "poll" /\ card'.calls = card.calls
      /\ card'.at = 1 /\ card'.mode = card.mode /\ card'.probe = card.probe
      /\ card'.detached = card.detached
  BY <1>2 DEF CardInv, CardAt, CardTypes, BusOk
<1>4. Call' = Call
  BY <1>3 DEF Call
<1>5. CardAt'
  <2>1. card.mode = "init" => card.probe \in 1..5
    BY DEF CardInv, CardAt
  <2>2. 1 \in 1..Len(Call)
    BY <1>1, Counting
  <2>. QED
    BY <1>3, <1>4, <2>1, <2>2 DEF CardAt
<1>6. CallClears'
  BY <1>3, <1>4 DEF CallClears, Slots
<1>. QED
  BY <1>2, <1>3, <1>5, <1>6 DEF CardInv, BusOk

LEMMA CardCallsKeeps ==
  ASSUME CardInv, CardCalls
  PROVE  CardInv'
<1>. DEFINE b1 == I2CBUS_Xfr_Schedule_CB(Bus, 1, Call[1])
            b2 == I2CBUS_Xfr_Schedule_CB(b1, 2, Call[2])
<1>1. BusOk(Bus) /\ Bus.slots = card.slots /\ 1 \in Slots /\ 2 \in Slots /\ Slots = {1, 2}
  BY BusIsOk DEF Slots
<1>2. card.sync = "none" /\ card.calls # <<>> /\ card.mode # "open" /\ Len(Call) \in 1..2
  BY CallLength DEF CardCalls, CardInv, CardAt
<1>3. card.detached \/ \A i \in Slots : card.slots[i] = NoXfr
  BY <1>2 DEF CardInv, CallClears
<1>4. CASE ~CanScheduleSlot(Bus, 1)
  BY <1>1, <1>2, <1>4, GivesUpKeeps DEF CardCalls
<1>5. CASE CanScheduleSlot(Bus, 1)
  <2>1. Bus.slots[1] = NoXfr
    BY <1>5 DEF CanScheduleSlot
  <2>2. BusOk(b1) /\ b1.slots[2] = Bus.slots[2]
    BY <1>1, <2>1, BusSchedules
  <2>3. CASE Len(Call) = 1
    <3>1. Polls(b1)
      BY <1>5, <2>3 DEF CardCalls
    <3>2. card.detached \/ \A i \in Slots : b1.slots[i] # NoXfr => i <= Len(Call)
      BY <1>1, <1>3, <2>2, <2>3
    <3>. QED
      BY <1>2, <2>2, <3>1, <3>2, PollsKeeps
  <2>4. CASE Len(Call) = 2 /\ CanScheduleSlot(b1, 2)
    <3>1. Polls(b2)
      BY <1>5, <2>4 DEF CardCalls
    <3>2. BusOk(b2)
      BY <1>1, <2>2, <2>4, BusSchedules DEF CanScheduleSlot
    <3>3. \A i \in Slots : i <= Len(Call)
      BY <1>1, <2>4
    <3>. QED
      BY <1>2, <3>1, <3>2, <3>3, PollsKeeps
  <2>5. CASE Len(Call) = 2 /\ ~CanScheduleSlot(b1, 2)
    <3>1. GivesUp(b1)
      BY <1>5, <2>5 DEF CardCalls
    <3>. QED
      BY <1>2, <2>2, <3>1, GivesUpKeeps
  <2>. QED
    BY <1>2, <2>3, <2>4, <2>5
<1>. QED
  BY <1>4, <1>5

\* The result of the transfer at which the call is has been read: c is the
\* card then, and every slot up to it is free, unless the call gave up.
LEMMA PolledKeeps ==
  ASSUME CardInv, card.calls # <<>>, card.sync # "none", NEW c, CardTypes(c),
         c.calls = card.calls, c.at = card.at, c.mode = card.mode, c.probe = card.probe,
         c.detached = card.detached, SlotsOwn(twi'.pool, c.slots),
         {"pool", "prog", "on", "bus"} \subseteq DOMAIN twi',
         c.detached \/ \A i \in Slots : c.slots[i] # NoXfr => c.at < i /\ i <= Len(Call),
         card' = Polled(c)
  PROVE  CardInv'
<1>1. Len(Call) \in 1..2 /\ card.at \in 1..Len(Call) /\ card.mode # "open"
  BY CallLength DEF CardInv, CardAt
<1>2. CASE c.at < Len(Call)
  <2>1. card' = [c EXCEPT !.at = @ + 1, !.sync = "poll"]
    BY <1>2 DEF Polled
  <2>0. c.at + 1 \in 1..Len(Call) /\ c.at + 1 \in 1..2
    BY <1>1, <1>2, Counting
  <2>2. /\ card'.slots = c.slots /\ card'.sync = "poll" /\ card'.calls = card.calls
        /\ card'.at = c.at + 1 /\ card'.mode = card.mode /\ card'.probe = card.probe
        /\ card'.detached = c.detached
    BY <2>1 DEF CardTypes
  <2>3. DOMAIN card' = DOMAIN c /\ card'.chunk = c.chunk
    BY <2>1 DEF CardTypes
  <2>4. CardTypes(card')
    BY <2>0, <2>2, <2>3 DEF CardTypes
  <2>5. Call' = Call
    BY <2>2 DEF Call
  <2>6. CardAt'
    BY <1>1, <2>0, <2>2, <2>5 DEF CardInv, CardAt
  <2>7. CallClears'
    BY <1>1, <2>0, <2>2, <2>5 DEF CallClears, Slots
  <2>. QED
    BY <2>2, <2>4, <2>6, <2>7 DEF CardInv
<1>3. CASE ~(c.at < Len(Call))
  <2>1. card' = Returns(c, c.ok)
    BY <1>3 DEF Polled
  <2>2. c.mode = "init" => c.probe \in 1..5
    BY DEF CardInv, CardAt
  <2>3. /\ CardTypes(Returns(c, c.ok))
        /\ Returns(c, c.ok).sync = "none" /\ Returns(c, c.ok).at = 1 /\ Returns(c, c.ok).mode # "open"
        /\ Returns(c, c.ok).detached = c.detached /\ Returns(c, c.ok).slots = c.slots
        /\ Returns(c, c.ok).mode = "init" => Returns(c, c.ok).probe \in 1..5
    BY <1>1, <2>2, ReturnsFacts
  <2>4. c.detached \/ \A i \in Slots : c.slots[i] = NoXfr
    BY <1>1, <1>3 DEF Slots
  <2>. QED
    BY <2>1, <2>3, <2>4 DEF CardInv, CardAt, CallClears
<1>. QED
  BY <1>2, <1>3

LEMMA CardSkipsKeeps ==
  ASSUME CardInv, CardSkips
  PROVE  CardInv'
<1>1. card.sync = "poll" /\ card.slots[card.at] = NoXfr /\ card' = Polled(card) /\ twi' = twi
  BY DEF CardSkips
<1>2. card.calls # <<>> /\ card.at \in 1..Len(Call) /\ Len(Call) \in 1..2
  BY <1>1, CallLength DEF CardInv, CardAt
<1>3. card.detached \/ \A i \in Slots : card.slots[i] # NoXfr => card.at < i /\ i <= Len(Call)
  BY <1>1, <1>2 DEF CardInv, CallClears, Slots
<1>. QED
  BY <1>1, <1>2, <1>3, PolledKeeps DEF CardInv

LEMMA CardAsksKeeps ==
  ASSUME CardInv, CardAsks
  PROVE  CardInv'
<1>. DEFINE b == I2CBUS_Xfr_Get_Status_CB(Bus, card.at)
<1>1. card.sync = "status" /\ card.slots[card.at] # NoXfr /\ twi' = b.twi
  BY DEF CardAsks, CardInv, CardAt
<1>2. card.calls # <<>> /\ card.at \in 1..Len(Call) /\ Len(Call) \in 1..2 /\ card.at \in Slots
  <2>1. card.calls # <<>> /\ card.at \in 1..Len(Call)
    BY <1>1 DEF CardInv, CardAt
  <2>2. Len(Call) \in 1..2
    BY <2>1, CallLength
  <2>3. card.at \in 1..2
    BY <2>1, <2>2, Counting
  <2>. QED
    BY <2>1, <2>2, <2>3 DEF Slots
<1>3. BusOk(Bus) /\ Bus.slots = card.slots /\ Bus.twi = twi
  BY BusIsOk
<1>4. BusOk(b)
  BY <1>1, <1>2, <1>3, BusReads
<1>5. CASE StillScheduled(Bus, card.at)
  <2>1. twi' = twi /\ card' = [card EXCEPT !.sync = "poll", !.at = 1]
    BY <1>1, <1>2, <1>3, <1>5, BusReads DEF CardAsks
  <2>2. /\ CardTypes(card') /\ card'.slots = card.slots /\ card'.sync = "poll" /\ card'.calls = card.calls
        /\ card'.at = 1 /\ card'.mode = card.mode /\ card'.probe = card.probe
        /\ card'.detached = card.detached
    BY <2>1 DEF CardInv, CardTypes
  <2>3. Call' = Call
    BY <2>2 DEF Call
  <2>4. CardAt'
    BY <1>1, <1>2, <2>2, <2>3 DEF CardInv, CardAt
  <2>5. CallClears'
    BY <2>2, <2>3 DEF CardInv, CallClears, Slots
  <2>. QED
    BY <2>1, <2>2, <2>4, <2>5 DEF CardInv
<1>6. CASE ~StillScheduled(Bus, card.at)
  <2>1. PICK ok \in BOOLEAN : card' = Polled([card EXCEPT !.slots = b.slots, !.ok = @ /\ ok])
    BY <1>6 DEF CardAsks
  <2>2. b.slots = [card.slots EXCEPT ![card.at] = NoXfr]
    BY <1>1, <1>2, <1>3, <1>6, BusReads
  <2>. DEFINE c == [card EXCEPT !.slots = b.slots, !.ok = @ /\ ok]
  <2>3. b.slots \in [Slots -> Xfrs \cup {NoXfr}] /\ SlotsOwn(b.twi.pool, b.slots)
        /\ {"pool", "prog", "on", "bus"} \subseteq DOMAIN b.twi
    BY <1>4 DEF BusOk
  <2>4. b.slots[card.at] = NoXfr /\ \A i \in Slots \ {card.at} : b.slots[i] = card.slots[i]
    BY <1>2, <2>2 DEF CardInv, CardTypes
  <2>. HIDE DEF b
  <2>5. /\ CardTypes(c) /\ c.calls = card.calls /\ c.at = card.at /\ c.mode = card.mode
        /\ c.probe = card.probe /\ c.detached = card.detached /\ c.slots = b.slots
    BY <2>3 DEF CardInv, CardTypes
  <2>6. card.detached \/ \A i \in Slots : b.slots[i] # NoXfr => card.at < i /\ i <= Len(Call)
    BY <1>2, <2>4 DEF CardInv, CallClears, Slots
  <2>. HIDE DEF c
  <2>. QED
    BY <1>1, <1>2, <2>1, <2>3, <2>5, <2>6, PolledKeeps DEF c
<1>. QED
  BY <1>5, <1>6

LEMMA CardTimeoutKeeps ==
  ASSUME CardInv, CardTimeout
  PROVE  CardInv'
<1>1. BusOk(Bus) /\ card.sync = "status" /\ GivesUp(Bus)
  BY BusIsOk DEF CardTimeout
<1>2. card.calls # <<>> /\ card.mode # "open"
  BY <1>1 DEF CardInv, CardAt
<1>. QED
  BY <1>1, <1>2, GivesUpKeeps

\* The steps that leave the slots and the pool as they are.
LEMMA CardOpensKeeps ==
  ASSUME CardInv, CardOpens
  PROVE  CardInv'
<1>1. /\ card.mode = "open" /\ twi' = [twi EXCEPT !.on = TRUE, !.bus = "idle"]
      /\ card' = [card EXCEPT !.mode = "init", !.probe = 1, !.calls = Probes[1]]
  BY DEF CardOpens
<1>2. twi'.pool = twi.pool /\ DOMAIN twi' = DOMAIN twi
  BY <1>1
<1>3. Probes[1] \in Seq(CallKinds)
  BY CallFacts
<1>4. /\ CardTypes(card') /\ card'.slots = card.slots /\ card'.sync = card.sync /\ card'.at = card.at
      /\ card'.mode = "init" /\ card'.probe = 1 /\ card'.detached = card.detached
  BY <1>1, <1>3 DEF CardInv, CardTypes
<1>5. card.sync = "none" /\ card.at = 1
  BY <1>1 DEF CardInv, CardAt
<1>6. CardAt'
  BY <1>4, <1>5 DEF CardAt
<1>7. CallClears'
  BY <1>4, <1>5 DEF CardInv, CallClears
<1>. QED
  BY <1>2, <1>4, <1>6, <1>7 DEF CardInv

LEMMA CardIdlesKeeps ==
  ASSUME CardInv, CardReceives \/ CardCommand
  PROVE  CardInv'
<1>1. twi' = twi /\ card.mode = "serve"
  BY DEF CardReceives, CardCommand
<1>2. /\ CardTypes(card') /\ card'.slots = card.slots /\ card'.sync = card.sync /\ card'.at = card.at
      /\ card'.mode = card.mode /\ card'.detached = card.detached
      /\ card.calls = <<>> \/ card'.calls = card.calls
  <2>1. CASE CardReceives
    <3>1. PICK n \in 1..ChunkLimit : card' = [card EXCEPT !.chunk = n]
      BY <2>1 DEF CardReceives
    <3>. QED
      BY <3>1 DEF CardInv, CardTypes
  <2>2. CASE CardCommand
    <3>1. PICK c \in Commands : card' = [card EXCEPT !.calls = c]
      BY <2>2 DEF CardCommand
    <3>2. c \in Seq(CallKinds) /\ card.calls = <<>>
      BY <2>2, CallFacts DEF CardCommand
    <3>. QED
      BY <3>1, <3>2 DEF CardInv, CardTypes
  <2>. QED
    BY <2>1, <2>2
<1>3. CASE card.sync = "none"
  BY <1>1, <1>2, <1>3 DEF CardInv, CardAt, CallClears
<1>4. CASE card.sync # "none"
  <2>1. card'.calls = card.calls
    BY <1>2, <1>4 DEF CardInv, CardAt
  <2>2. Call' = Call
    BY <2>1 DEF Call
  <2>. QED
    BY <1>1, <1>2, <1>4, <2>1, <2>2 DEF CardInv, CardAt, CallClears
<1>. QED
  BY <1>3, <1>4

LEMMA CardStepsKeeps ==
  ASSUME CardInv, CardSteps, twi' = twi
  PROVE  CardInv'
<1>1. CASE card' = card
  BY <1>1 DEF CardInv, CardAt, CallClears, Call
<1>2. CASE /\ card.sync = "poll" /\ card.slots[card.at] # NoXfr
           /\ card' = [card EXCEPT !.sync = "status"]
  <2>1. /\ CardTypes(card') /\ card'.slots = card.slots /\ card'.sync = "status" /\ card'.at = card.at
        /\ card'.mode = card.mode /\ card'.detached = card.detached /\ card'.calls = card.calls
        /\ card'.probe = card.probe
    BY <1>2 DEF CardInv, CardTypes
  <2>2. Call' = Call
    BY <2>1 DEF Call
  <2>3. CardAt'
    BY <1>2, <2>1, <2>2 DEF CardInv, CardAt
  <2>4. CallClears'
    BY <1>2, <2>1, <2>2 DEF CardInv, CallClears
  <2>. QED
    BY <2>1, <2>3, <2>4 DEF CardInv
<1>. QED
  BY <1>1, <1>2 DEF CardSteps

\* The device is lost: every transfer ends, and the slots keep theirs.
LEMMA EndsAllOwn ==
  ASSUME NEW p, NEW slots, SlotsOwn(p, slots)
  PROVE  SlotsOwn(CompleteAll(p), slots)
<1>1. PoolInv(CompleteAll(p)) /\ p \in PoolRecords
  BY CompleteAllInv DEF SlotsOwn, PoolInv
<1>2. CompleteAll(p).held = p.held /\ CompleteAll(p).detached = {}
  BY <1>1 DEF CompleteAll, PoolRecords
<1>. QED
  BY <1>1, <1>2 DEF SlotsOwn

-----------------------------------------------------------------------------
(* The library with the card as its application *)

\* The card's process owns the TWI: its application asks for nothing else.
CardInvIfUsed == "card" \in uses => CardInv

TypedUses == uses \in Uses

LEMMA SameTwiAndCard ==
  ASSUME CardInv, twi'.pool = twi.pool, DOMAIN twi' = DOMAIN twi, card' = card
  PROVE  CardInv'
<1>1. Runs(twi, twi')
  BY DEF Runs
<1>. QED
  BY <1>1, RunsKeeps

LEMMA CardStepKeeps ==
  ASSUME TypedUses, "card" \in uses, CardInv, [Next]_vars
  PROVE  CardInv'
<1>1. CASE twi' = twi /\ card' = card
  BY <1>1, SameTwiAndCard
<1>2. OnlyGpio \/ OnlySpi \/ OnlyOw \/ OnlySlave \/ OnlyUart \/ OnlyLink => twi' = twi /\ card' = card
  BY DEF OnlyGpio, OnlySpi, OnlyOw, OnlySlave, OnlyUart, OnlyLink, interfaces
<1>3. ASSUME TwiTx \/ TwiRx \/ TwiDevice, OnlyTwi PROVE CardInv'
  <2>1. Runs(twi, twi')
    BY <1>3, TwiRuns DEF CardInv
  <2>. QED
    BY <1>3, <2>1, RunsKeeps DEF OnlyTwi
<1>4. CASE User
  <2>1. uses \cap DOMAIN TwiRequests = {}
    BY UsesAssumption DEF TypedUses
  <2>2. CASE CardUser
    BY <2>2, CardOpensKeeps, CardCallsKeeps, CardSkipsKeeps, CardAsksKeeps, CardTimeoutKeeps,
       CardIdlesKeeps, CardStepsKeeps DEF CardUser, CardSync, CardStepsInVain
  <2>. QED
    BY <1>1, <1>2, <1>4, <2>1, <2>2 DEF User, Using
<1>5. CASE AL_Destroy
  <2>1. twi' = TwiClear /\ card' = [CardClear EXCEPT !.mode = "gone"]
    BY <1>5 DEF AL_Destroy
  <2>2. /\ {"pool", "prog", "on", "bus"} \subseteq DOMAIN twi'
        /\ CardTypes(card')
        /\ card'.sync = "none" /\ card'.mode = "gone" /\ card'.calls = <<>> /\ ~card'.detached /\ card'.at = 1
        /\ SlotsOwn(twi'.pool, card'.slots)
        /\ \A i \in Slots : card'.slots[i] = NoXfr
    BY <2>1, CardEmpty
  <2>. QED
    BY <2>2 DEF CardInv, CardAt, CallClears
<1>6. CASE Mark_Detached
  <2>1. card' = card /\ twi' = [twi EXCEPT !.pool = CompleteAll(@), !.prog = << >>]
    BY <1>6 DEF Mark_Detached, TWI_Complete_All_Xfrs
  <2>2. twi'.pool = CompleteAll(twi.pool) /\ DOMAIN twi' = DOMAIN twi
    BY <2>1 DEF CardInv
  <2>3. SlotsOwn(twi'.pool, card.slots)
    BY <2>2, EndsAllOwn DEF CardInv
  <2>4. Call' = Call
    BY <2>1 DEF Call
  <2>. QED
    BY <2>1, <2>2, <2>3, <2>4 DEF CardInv, CardAt, CallClears
<1>7. CASE Stepping
  <2>1. CASE Step /\ OnlyCard /\ UNCHANGED twi
             /\ IF "card" \in uses THEN CardSteps ELSE UNCHANGED card
    BY <2>1, CardStepsKeeps
  <2>2. CASE Tx
    BY <1>1, <1>2, <1>3, <2>2 DEF Tx
  <2>. QED
    BY <1>1, <1>2, <1>6, <1>7, <2>1, <2>2 DEF Stepping
<1>8. CASE Step_Rx
  <2>1. CASE Rx_Info
    <3>1. twi' = [twi EXCEPT !.free = TwiLen] /\ card' = card
      BY <2>1 DEF Rx_Info
    <3>. QED
      BY <3>1, SameTwiAndCard
  <2>. QED
    BY <1>1, <1>2, <1>3, <1>8, <2>1 DEF Step_Rx
<1>9. CASE Device
  BY <1>1, <1>2, <1>3, <1>9 DEF Device
<1>10. CASE UNCHANGED vars
  BY <1>1, <1>10 DEF vars, interfaces
<1>. QED
  BY <1>1, <1>2, <1>4, <1>5, <1>7, <1>8, <1>9, <1>10 DEF Next

CardIInv == TypedUses /\ CardInvIfUsed

LEMMA CardIInvHolds == Spec => []CardIInv
<1>1. Init => CardIInv
  <2>. SUFFICES ASSUME Init PROVE CardIInv
    OBVIOUS
  <2>2. twi = TwiClear /\ card = CardClear /\ uses \in Uses
    BY DEF Init, TwiInit, CardInit
  <2>3. /\ {"pool", "prog", "on", "bus"} \subseteq DOMAIN twi
        /\ CardTypes(card)
        /\ card.sync = "none" /\ card.mode = "open" /\ card.calls = <<>> /\ ~card.detached /\ card.at = 1
        /\ SlotsOwn(twi.pool, card.slots)
        /\ \A i \in Slots : card.slots[i] = NoXfr
    BY <2>2, CardEmpty
  <2>. QED
    BY <2>2, <2>3 DEF CardIInv, TypedUses, CardInvIfUsed, CardInv, CardAt, CallClears
<1>2. CardIInv /\ [Next]_vars => CardIInv'
  <2>. SUFFICES ASSUME CardIInv, [Next]_vars PROVE CardIInv'
    OBVIOUS
  <2>1. \/ OnlyGpio \/ OnlySpi \/ OnlyOw \/ OnlyTwi \/ OnlySlave \/ OnlyUart \/ OnlyCard \/ OnlyLink
        \/ AL_Destroy \/ Mark_Detached \/ Rx_Info \/ UNCHANGED vars
    BY DEF Next, User, Stepping, Step_Rx, Device, Tx, Using
  <2>2. uses' = uses
    BY <2>1 DEF vars, AL_Destroy, Mark_Detached, Rx_Info,
           OnlyGpio, OnlySpi, OnlyOw, OnlyTwi, OnlySlave, OnlyUart, OnlyCard, OnlyLink
  <2>3. "card" \in uses => CardInv'
    BY CardStepKeeps DEF CardIInv, CardInvIfUsed
  <2>. QED
    BY <2>2, <2>3 DEF CardIInv, TypedUses, CardInvIfUsed
<1>. QED
  BY <1>1, <1>2, PTL DEF Spec

(* In every reachable state a slot of the card has a transfer of its own,  *)
(* and the library has handed out none that is not in a slot, also after   *)
(* calls that gave up and when the device is lost: for any requests, any   *)
(* buffers and any behaviour of the device (i2cbus.h, the list of          *)
(* transfers of abiocard.c).                                               *)
THEOREM SlotsAreTheCards == Spec => []SlotsOwnTheirTransfers
<1>1. CardIInv => SlotsOwnTheirTransfers
  BY CardInvImplies DEF CardIInv, CardInvIfUsed, SlotsOwnTheirTransfers
<1>. QED
  BY <1>1, CardIInvHolds, PTL

(* A call of I2C_Xfr_Sync that returns without marking the card as         *)
(* detached leaves no transfer in the library and every slot free.         *)
THEOREM CallsCleanUp == Spec => []CallsLeaveNothing
<1>1. CardIInv => CallsLeaveNothing
  BY CardInvImplies DEF CardIInv, CardInvIfUsed, CallsLeaveNothing
<1>. QED
  BY <1>1, CardIInvHolds, PTL

=============================================================================
