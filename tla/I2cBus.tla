------------------------------- MODULE I2cBus -------------------------------
(***************************************************************************)
(* What the chip routines of abiocard.c see of the bus: a transfer is       *)
(* delivered as a whole, or it is reported as failed after any number of   *)
(* its bytes have reached the chip.  bsc_write gives up when the chip does *)
(* not acknowledge and after 1000 polls without progress, the i2c-dev       *)
(* callbacks when the kernel transferred fewer bytes than asked; none of   *)
(* them undoes what was sent, and a write that timed out may still drain   *)
(* the FIFO, so a transfer reported as failed may even be complete.        *)
(***************************************************************************)
EXTENDS Naturals

CONSTANT FaultLimit     \* bound: failed transfers and deaths of the process

ASSUME FaultLimitAssumption == FaultLimit \in Nat

VARIABLE faults         \* how many there were so far

BusInit == faults = 0

Delivered == UNCHANGED faults

Failed ==
    /\ faults < FaultLimit
    /\ faults' = faults + 1

BusSpec == BusInit /\ [][Failed]_faults
=============================================================================
