---------------------------- MODULE AxicatI2cBus ----------------------------
(***************************************************************************)
(* The bus interface of the I/O card over the TWI of an AxiCat.  A bus     *)
(* transfer is a slot that holds a pointer to a TWI transfer from the time *)
(* it is scheduled until its result has been asked for.  The operators are *)
(* the callbacks of the interface, on the TWI and the slots together; the  *)
(* module AxicatCard calls them.                                           *)
(***************************************************************************)
EXTENDS AxicatTwiMaster

Slots == 1..2           \* xfr_list[XFR_CNT] of the card

\* The library allocates an object for every slot.
ASSUME XfrsAssumption == \E x, y \in Xfrs : x # y

NoTransfers == [i \in Slots |-> NoXfr]

FreeXfr(p) == CHOOSE x \in Xfrs : CanCreate(p, x)

(* A bus b is a record of the TWI context and the slots. *)
CanScheduleSlot(b, i) == b.slots[i] = NoXfr

I2CBUS_Xfr_Schedule_CB(b, i, q) ==
  LET x == FreeXfr(b.twi.pool)
      t == [b.twi EXCEPT !.pool = Create(@, x)]
  IN  [twi |-> TwiSchedule(t, x, q), slots |-> [b.slots EXCEPT ![i] = x]]

\* The slot keeps its transfer, even one that this completed as cancelled.
I2CBUS_Xfr_Cancel_CB(b, i) ==
  IF b.slots[i] = NoXfr THEN b ELSE [b EXCEPT !.twi = TwiCancel(@, b.slots[i])]

\* The result of a transfer that is over frees the slot (the step of the
\* library that precedes this is an action of its own).
StillScheduled(b, i) == b.twi.pool.loc[b.slots[i]] = "scheduled"

\* Mutant: the transfer of the library is not destroyed.
GetStatusAndKeep(b, i) ==
  IF StillScheduled(b, i) THEN b ELSE [b EXCEPT !.slots[i] = NoXfr]

I2CBUS_Xfr_Get_Status_CB(b, i) ==
  IF StillScheduled(b, i) THEN b
  ELSE [twi |-> TwiDestroy(b.twi, b.slots[i]), slots |-> [b.slots EXCEPT ![i] = NoXfr]]

=============================================================================
