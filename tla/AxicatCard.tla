----------------------------- MODULE AxicatCard -----------------------------
(***************************************************************************)
(* The server of the I/O card with an AxiCat as its bus: it opens the bus, *)
(* probes the chips, and runs the commands of a client.  Each of these is  *)
(* a sequence of calls of I2C_Xfr_Sync, which schedules one transfer, or a *)
(* write and a read, and polls them; after two seconds it cancels them and *)
(* marks the card as detached.                                             *)
(*                                                                         *)
(* Which chip is meant and what is written is left out, and so is what a   *)
(* transfer reports: one that ended may have moved fewer bytes, or may not *)
(* have been acknowledged, and its call then fails.                        *)
(***************************************************************************)
EXTENDS AxicatI2cBus

CONSTANTS CardWrite, CardRead,  \* the TWI requests for a write and for a read
          ChunkLimit            \* bound: commands in what the client sends at once

VARIABLE card

\* mode: what the process does; sync: where I2C_Xfr_Sync is; calls: the calls
\* of this command still to make, the running one first; at: the transfer it
\* polls; ok: every result so far; probe: the chip; present: one answered.
CardClear ==
  [mode |-> "open", sync |-> "none", calls |-> <<>>, at |-> 1, ok |-> TRUE, chunk |-> 0,
   probe |-> 0, present |-> FALSE, detached |-> FALSE, slots |-> NoTransfers]

CardInit == card = CardClear

Bus == [twi |-> twi, slots |-> card.slots]

\* The calls of I2C_Xfr_Sync a command can consist of, and one whose failure
\* does not end the command.
Write     == [xfrs |-> <<CardWrite>>, must |-> TRUE]
Read      == [xfrs |-> <<CardRead>>, must |-> TRUE]
WriteRead == [xfrs |-> <<CardWrite, CardRead>>, must |-> TRUE]
Try(call) == [call EXCEPT !.must = FALSE]

Commands == {<<Write>>, <<Read>>, <<WriteRead>>, <<WriteRead, Write>>}

\* The probes of abiocard_init: clock, expander, converter, PWM, PWM2.
Probes == << <<Write>>, <<Read>>, <<Write>>, <<Write, Try(WriteRead), Write>>, <<Write>> >>

-----------------------------------------------------------------------------

\* AXICAT_I2CBus_Create waits for the connection and enables the TWI.
CardOpens ==
  /\ card.mode = "open"
  /\ Configured
  /\ twi' = [twi EXCEPT !.on = TRUE, !.bus = "idle"]
  /\ card' = [card EXCEPT !.mode = "init", !.probe = 1, !.calls = Probes[1]]

\* The command, or the probe, is over.
Ended(c, ok) ==
  LET present == c.present \/ ok
  IN  CASE c.mode = "serve" -> [c EXCEPT !.calls = <<>>, !.chunk = @ - 1]
        [] c.mode = "init" /\ c.probe < Len(Probes) ->
             [c EXCEPT !.calls = Probes[c.probe + 1], !.probe = @ + 1, !.present = present]
        [] OTHER ->
             [c EXCEPT !.calls = <<>>, !.probe = 0, !.present = FALSE,
                       !.mode = IF present THEN "serve" ELSE "stop"]

\* The call returns ok or not: the next call of the command.
Returns(c, ok) ==
  LET goesOn == ok \/ ~Head(c.calls).must
      rest   == Tail(c.calls)
      d      == [c EXCEPT !.sync = "none", !.at = 1, !.ok = TRUE]
  IN  IF goesOn /\ rest # <<>> THEN [d EXCEPT !.calls = rest] ELSE Ended(d, goesOn)

Call == Head(card.calls).xfrs

\* I2C_Xfr_Sync gives up: it cancels its transfers and marks the card.
GivesUp(b) ==
  LET b1 == I2CBUS_Xfr_Cancel_CB(b, 1)
      bn == IF Len(Call) = 1 THEN b1 ELSE I2CBUS_Xfr_Cancel_CB(b1, 2)
  IN  /\ twi' = bn.twi
      /\ card' = Returns([card EXCEPT !.slots = bn.slots, !.detached = TRUE], FALSE)

Polls(b) == twi' = b.twi /\ card' = [card EXCEPT !.slots = b.slots, !.sync = "poll"]

\* A call begins: its transfers are scheduled, up to one that cannot be.
CardCalls ==
  /\ Called
  /\ card.sync = "none" /\ card.calls # <<>>
  /\ LET b1 == I2CBUS_Xfr_Schedule_CB(Bus, 1, Call[1])
         b2 == I2CBUS_Xfr_Schedule_CB(b1, 2, Call[2])
     IN  \/ ~CanScheduleSlot(Bus, 1) /\ GivesUp(Bus)
         \/ CanScheduleSlot(Bus, 1) /\ Len(Call) = 1 /\ Polls(b1)
         \/ CanScheduleSlot(Bus, 1) /\ Len(Call) = 2
            /\ IF CanScheduleSlot(b1, 2) THEN Polls(b2) ELSE GivesUp(b1)

\* Mutant: the first transfer that is over ends the call.
PolledOnce(c) == Returns(c, c.ok)

\* The result of this transfer is known: the next one, or the call returns.
Polled(c) ==
  IF c.at < Len(Call) THEN [c EXCEPT !.at = @ + 1, !.sync = "poll"] ELSE Returns(c, c.ok)

\* A transfer whose result was read in an earlier turn of the loop.
CardSkips ==
  /\ Called
  /\ card.sync = "poll" /\ card.slots[card.at] = NoXfr
  /\ card' = Polled(card)
  /\ UNCHANGED twi

\* Get_Status makes a step of the library, which a lost device makes a no-op,
CardSteps ==
  \/ card.mode = "open" /\ UNCHANGED card
  \/ /\ card.sync = "poll" /\ card.slots[card.at] # NoXfr
     /\ card' = [card EXCEPT !.sync = "status"]

CardStepsInVain == Called /\ Is_Detached /\ card.mode # "open" /\ CardSteps /\ UNCHANGED twi

\* and then looks at the transfer.  One that is pending ends the turn of the
\* loop; the next turn begins with the first transfer again.
CardAsks ==
  /\ Called
  /\ card.sync = "status"
  /\ LET b == I2CBUS_Xfr_Get_Status_CB(Bus, card.at)
     IN  /\ twi' = b.twi
         /\ IF StillScheduled(Bus, card.at)
            THEN card' = [card EXCEPT !.sync = "poll", !.at = 1]
            ELSE \E ok \in BOOLEAN :
                   card' = Polled([card EXCEPT !.slots = b.slots, !.ok = @ /\ ok])

\* Mutant: no time limit once the device is lost.
CardTimeoutWhileAttached ==
  /\ Called
  /\ card.sync = "status" /\ StillScheduled(Bus, card.at) /\ ~Is_Detached
  /\ GivesUp(Bus)

\* Two seconds have passed and a transfer is still pending.
CardTimeout ==
  /\ Called
  /\ card.sync = "status" /\ StillScheduled(Bus, card.at)
  /\ GivesUp(Bus)

\* The client sends some commands at once; detached is looked at before.
CardReceives ==
  /\ Called
  /\ card.mode = "serve" /\ card.chunk = 0 /\ ~card.detached
  /\ \E n \in 1..ChunkLimit : card' = [card EXCEPT !.chunk = n]
  /\ UNCHANGED twi

CardCommand ==
  /\ Called
  /\ card.mode = "serve" /\ card.chunk > 0 /\ card.calls = <<>>
  /\ \E c \in Commands : card' = [card EXCEPT !.calls = c]
  /\ UNCHANGED twi

\* The bus could not be opened, no chip answered, or the client is done with.
CardStops ==
  \/ card.mode = "open" /\ Is_Detached
  \/ card.mode = "stop"
  \/ card.mode = "serve" /\ card.chunk = 0

CardSync == CardCalls \/ CardSkips \/ CardStepsInVain \/ CardAsks

CardUser ==
  \/ CardOpens \/ CardSync \/ CardTimeout \/ CardReceives \/ CardCommand

=============================================================================
