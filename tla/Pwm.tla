-------------------------------- MODULE Pwm ---------------------------------
(***************************************************************************)
(* The 16-channel LED driver of the I/O card (PCA9635), which feeds the    *)
(* lamps and bars of the display: pwm_init, pwm_write_range and            *)
(* pwm_set_mode of abiocard.c, one I2C transfer per step, as PW commands   *)
(* reach them through parse_cmd_pw of abiocardserver.c.                    *)
(*                                                                         *)
(* A group dim value of 255 is made to mean "no group dimming" by a second *)
(* set of registers: LEDOUT is set to mode 2 for 255 and to mode 3 for     *)
(* every other value.  The driver remembers the mode it wrote last in its  *)
(* context and writes LEDOUT only when the mode changes.                   *)
(***************************************************************************)
EXTENDS Integers, Sequences, I2cBus

CONSTANTS
    Dim,        \* the index of GRPPWM in the range of a command (16)
    Groups,     \* how many LEDOUT registers there are (4)
    Levels,     \* the values of the commands, among 0..255
    NoRange     \* no command is being executed

PwmRange == [start : 0..Dim, bytes : Seq(Levels)]

ASSUME PwmAssumption ==
    /\ Dim \in Nat
    /\ Groups \in Nat
    /\ Levels \subseteq 0..255
    /\ NoRange \notin PwmRange

VARIABLES
    pwmReg,     \* registers PWM0..PWM15 and GRPPWM
    pwmLedout,  \* registers LEDOUT0..LEDOUT3, each with the mode of four LEDs
    pwmAwake,   \* is MODE1.SLEEP clear?
    pwmMode,    \* ctx->pwm_led_mode
    pwmAt,      \* the transfer that comes next
    pwmReq,     \* the range that is being written
    pwmLost     \* what the chip did not get (history)

pwmVars == <<pwmReg, pwmLedout, pwmAwake, pwmMode, pwmAt, pwmReq, pwmLost>>

Mode == {"mode2", "mode3"}

\* pwmLost may contain
\*   "mode"  LEDOUT may differ from the mode in the context;
\*   "dim"   the mode in the context may not be the one for GRPPWM.
Loss == {"mode", "dim"}

ModeOf(dim) == IF dim = 255 THEN "mode2" ELSE "mode3"

\* The tests of pwm_write_range.
InRange(start, bytes) ==
    /\ start \in 0..Dim
    /\ Len(bytes) >= 1
    /\ start + Len(bytes) <= Dim + 1

DimByte(bytes) == bytes[Len(bytes)]

WithDim(r) == r.start + Len(r.bytes) = Dim + 1

\* The registers after the first k bytes of the range, the first of which is
\* the register index.
Overwritten(r, k) ==
    [i \in 0..Dim |-> IF i >= r.start /\ i - r.start + 1 < k
                        THEN r.bytes[i - r.start + 1] ELSE pwmReg[i]]

----------------------------------------------------------------------------

\* The reset of the chip.
PwmInit ==
    /\ pwmReg = [[i \in 0..Dim |-> 0] EXCEPT ![Dim] = 255]
    /\ pwmLedout = [g \in 1..Groups |-> "off"]
    /\ pwmAwake = FALSE
    /\ pwmMode = "mode3"
    /\ pwmAt = "down"
    /\ pwmReq = NoRange
    /\ pwmLost = Loss

\* pwm_init begins with the control and mode registers.  The context is new:
\* its mode is 0, which means mode 3.
PwmWriteInitData ==
    /\ pwmAt = "down"
    /\ \/ Delivered /\ pwmAt' = "point" /\ pwmAwake' = TRUE
       \/ Failed /\ pwmAt' = "idle" /\ pwmAwake' \in {pwmAwake, TRUE}
    /\ UNCHANGED <<pwmReg, pwmLedout, pwmMode, pwmReq, pwmLost>>

\* The outcome of pwm_read_range is not looked at: when the register index
\* cannot be written or the dim value cannot be read, dim stays
\* uninitialised and the mode is either of the two.
ModeOfGarbage ==
    /\ Failed
    /\ pwmAt' = "mode"
    /\ pwmMode' \in Mode
    /\ UNCHANGED pwmLost

PointToDim ==
    /\ pwmAt = "point"
    /\ \/ Delivered /\ pwmAt' = "dim" /\ UNCHANGED <<pwmMode, pwmLost>>
       \/ ModeOfGarbage
    /\ UNCHANGED <<pwmReg, pwmLedout, pwmAwake, pwmReq>>

ReadDim ==
    /\ pwmAt = "dim"
    /\ \/ /\ Delivered
          /\ pwmAt' = "mode"
          /\ pwmMode' = ModeOf(pwmReg[Dim])
          /\ pwmLost' = pwmLost \ {"dim"}
       \/ ModeOfGarbage
    /\ UNCHANGED <<pwmReg, pwmLedout, pwmAwake, pwmReq>>

\* The transfer of pwm_set_mode, from pwm_init or from pwm_write_range: the
\* register index and the LEDOUT registers in order.  When it fails,
\* pwm_write_range gives up the range as well.
WriteMode ==
    /\ pwmAt = "mode"
    /\ \/ /\ Delivered
          /\ pwmLedout' = [g \in 1..Groups |-> pwmMode]
          /\ pwmLost' = pwmLost \ {"mode"}
          /\ pwmAt' = IF pwmReq = NoRange THEN "idle" ELSE "range"
          /\ UNCHANGED pwmReq
       \/ /\ Failed
          /\ \E k \in 0..(Groups + 1) : pwmLedout' =
                [g \in 1..Groups |-> IF g < k THEN pwmMode ELSE pwmLedout[g]]
          /\ pwmAt' = "idle"
          /\ pwmReq' = NoRange
          /\ UNCHANGED pwmLost
    /\ UNCHANGED <<pwmReg, pwmAwake, pwmMode>>

\* Mutant of the test for a new mode: the first byte of the range is taken
\* for the dim value.
PwmWriteFirstByte(start, bytes) ==
    /\ pwmAt = "idle"
    /\ InRange(start, bytes)
    /\ pwmReq' = [start |-> start, bytes |-> bytes]
    /\ LET r == [start |-> start, bytes |-> bytes]
           mode == ModeOf(bytes[1])
       IN  IF WithDim(r) /\ mode # pwmMode
           THEN /\ pwmMode' = mode
                /\ pwmLost' = Loss
                /\ pwmAt' = "mode"
           ELSE /\ pwmLost' = IF WithDim(r) THEN pwmLost \cup {"dim"} ELSE pwmLost
                /\ pwmAt' = "range"
                /\ UNCHANGED pwmMode
    /\ UNCHANGED <<pwmReg, pwmLedout, pwmAwake, faults>>

\* PW: the dim value, when the range reaches it, decides on the mode, and the
\* new mode is stored in the context before it is sent (line 491).
PwmWrite(start, bytes) ==
    /\ pwmAt = "idle"
    /\ InRange(start, bytes)
    /\ pwmReq' = [start |-> start, bytes |-> bytes]
    /\ LET r == [start |-> start, bytes |-> bytes]
           mode == ModeOf(DimByte(bytes))
       IN  IF WithDim(r) /\ mode # pwmMode
           THEN /\ pwmMode' = mode
                /\ pwmLost' = Loss
                /\ pwmAt' = "mode"
           ELSE /\ pwmLost' = IF WithDim(r) THEN pwmLost \cup {"dim"} ELSE pwmLost
                /\ pwmAt' = "range"
                /\ UNCHANGED pwmMode
    /\ UNCHANGED <<pwmReg, pwmLedout, pwmAwake, faults>>

WriteRange ==
    /\ pwmAt = "range"
    /\ pwmAt' = "idle"
    /\ pwmReq' = NoRange
    /\ \/ /\ Delivered
          /\ pwmReg' = Overwritten(pwmReq, Len(pwmReq.bytes) + 1)
          /\ pwmLost' = IF WithDim(pwmReq) THEN pwmLost \ {"dim"} ELSE pwmLost
       \/ /\ Failed
          /\ \E k \in 0..(Len(pwmReq.bytes) + 1) : pwmReg' = Overwritten(pwmReq, k)
          /\ UNCHANGED pwmLost
    /\ UNCHANGED <<pwmLedout, pwmAwake, pwmMode>>

\* The process ends.  Its context is lost, the chip keeps its registers.
PwmDies ==
    /\ pwmAt' = "down"
    /\ pwmReq' = NoRange
    /\ pwmMode' = "mode3"
    /\ pwmLost' = Loss
    /\ UNCHANGED <<pwmReg, pwmLedout, pwmAwake>>

PwmCommand ==
    \E start \in 0..(Dim + 1) : \E n \in 0..(Dim + 1) :
        \E bytes \in [1..n -> Levels] : PwmWrite(start, bytes)

PwmTransfer == PointToDim \/ ReadDim \/ WriteMode \/ WriteRange

PwmNext ==
    \/ PwmWriteInitData
    \/ PwmCommand
    \/ PwmTransfer
    \/ PwmDies

PwmSpec == PwmInit /\ [][PwmNext]_pwmVars

----------------------------------------------------------------------------

\* The types of the variables of this chip.
PwmTypeOK ==
    /\ pwmReg \in [0..Dim -> 0..255]
    /\ pwmLedout \in [1..Groups -> {"off"} \cup Mode]
    /\ pwmAwake \in BOOLEAN
    /\ pwmMode \in Mode
    /\ pwmAt \in {"down", "point", "dim", "mode", "idle", "range"}
    /\ pwmReq # NoRange => /\ pwmReq \in PwmRange
                           /\ InRange(pwmReq.start, pwmReq.bytes)
    /\ pwmAt = "range" => pwmReq # NoRange
    /\ pwmLost \subseteq Loss

\* LEDOUT has the mode that the dim value of the chip asks for (dimmed in
\* hardware unless it is 255), through all commands, failures, deaths and
\* restarts, once the last transfers that set the two were delivered: the
\* cached mode never keeps a needed LEDOUT write from being sent.
DimTakesEffect ==
    pwmLost = {} => \A g \in 1..Groups : pwmLedout[g] = ModeOf(pwmReg[Dim])

\* Line 75 of abiocard.c calls the mode of the context the "Currently set PWM
\* LED mode for all LED drivers".
ContextIsCurrent ==
    pwmAt = "idle" => \A g \in 1..Groups : pwmLedout[g] = pwmMode
=============================================================================
