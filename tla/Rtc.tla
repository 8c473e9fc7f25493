-------------------------------- MODULE Rtc ---------------------------------
(***************************************************************************)
(* The real-time clock of the I/O card (PCF2129A): rtc_poll and            *)
(* rtc_set_time of abiocard.c, one I2C transfer per step, as the commands  *)
(* CR and CW of abiocardserver.c call them.                                *)
(*                                                                         *)
(* The chip keeps its registers in packed BCD.  Bit 7 of the seconds        *)
(* register is OSF, "the oscillator has stopped"; it survives until the     *)
(* seconds are written.  The time is not made to pass: the properties      *)
(* compare what was set with what is read within the same second.          *)
(***************************************************************************)
EXTENDS Integers, I2cBus

CONSTANTS
    Times,      \* the date-times that CW commands carry
    NoTime      \* nothing is known of the time / there is no reply

Field == {"second", "minute", "hour", "day", "month", "year"}

Time == [Field -> 0..99]

\* RTC_POLL_INFO: a poll converts whatever the registers hold.
Reply == [power_up : BOOLEAN, time : [Field -> Nat]]

ASSUME RtcAssumption ==
    /\ Times \subseteq Time
    /\ NoTime \notin Time /\ NoTime \notin Reply

VARIABLES
    rtcRegs,    \* registers 03h..06h, 08h and 09h
    rtcInited,  \* do the control registers hold rtc_init_data?
    rtcAt,      \* the transfer that comes next
    rtcReq,     \* the time rtc_set_time was called with
    rtcReply,   \* what the last CR answered (history)
    rtcAsked    \* the time the chip was last told, while it is known (history)

rtcVars == <<rtcRegs, rtcInited, rtcAt, rtcReq, rtcReply, rtcAsked>>

----------------------------------------------------------------------------
\* Packed BCD.

\* Mutant: binary instead of BCD.
bin_unpacked(bin) == bin

\* Mutant: the tens are not divided off.
bin_undivided(bin) == (bin % 10) + 16 * bin

bin_to_pbcd(bin) == (bin % 10) + 16 * (bin \div 10)

pbcd_to_bin(pbcd) == ((pbcd \div 16) * 10) + (pbcd % 16)

\* The bits of each register that rtc_poll looks at: 2 to the power of their
\* number.
Mask == [f \in Field |->
            CASE f \in {"second", "minute"} -> 128
              [] f \in {"hour", "day"}      -> 64
              [] f = "month"                -> 32
              [] f = "year"                 -> 256]

Encode(t) == [f \in Field |-> bin_to_pbcd(t[f])]

Decode(regs) == [f \in Field |-> pbcd_to_bin(regs[f] % Mask[f])]

OSF(regs) == regs["second"] >= 128

\* The bytes follow each other in this order behind the register index; the
\* day of the week, always 0 and never read, stands between "day" and "month".
BytesBefore == [f \in Field |->
                    CASE f = "second" -> 1 [] f = "minute" -> 2
                      [] f = "hour"   -> 3 [] f = "day"    -> 4
                      [] f = "month"  -> 6 [] f = "year"   -> 7]

\* The registers after the first k of the 8 bytes of the transfer.
Partly(regs, t, k) ==
    [f \in Field |-> IF BytesBefore[f] < k THEN Encode(t)[f] ELSE regs[f]]

----------------------------------------------------------------------------
\* The calendar test of rtc_set_time, branch by branch.

\* Mutant: the parity of the short months carried over to August..December.
MaxDayByParity(t) ==
    IF t["month"] = 2 THEN IF t["year"] % 4 = 0 THEN 29 ELSE 28
    ELSE IF t["month"] % 2 = 1 THEN 31 ELSE 30

MaxDay(t) ==
    IF t["month"] = 2 THEN IF t["year"] % 4 = 0 THEN 29 ELSE 28
    ELSE IF t["month"] \in 1..7 THEN IF t["month"] % 2 = 1 THEN 31 ELSE 30
    ELSE IF t["month"] % 2 = 1 THEN 30 ELSE 31

Accepts(t) ==
    /\ t["month"] <= 12
    /\ t["day"] \in 1..MaxDay(t)
    /\ t["year"] <= 99
    /\ t["hour"] <= 23
    /\ t["minute"] <= 59
    /\ t["second"] <= 59

----------------------------------------------------------------------------

\* The chip after a reset: the date is nothing, and the oscillator has just
\* started.
ResetRegs == [f \in Field |-> IF f = "second" THEN 128 ELSE 0]

\* A card that was never used.
RtcInit ==
    /\ rtcRegs = ResetRegs
    /\ rtcInited = FALSE
    /\ rtcAt = "down"
    /\ rtcReq = NoTime
    /\ rtcReply = NoTime
    /\ rtcAsked = NoTime

\* rtc_probe writes the register index only.
RtcProbe ==
    /\ rtcAt = "down"
    /\ rtcAt' = "idle"
    /\ Delivered \/ Failed
    /\ UNCHANGED <<rtcRegs, rtcInited, rtcReq, rtcReply, rtcAsked>>

\* CR: the register index, then ten registers in one transfer.
BeginPoll ==
    /\ rtcAt = "idle"
    /\ \/ Delivered /\ rtcAt' = "read"
       \/ Failed /\ rtcAt' = "idle"
    /\ rtcReply' = NoTime
    /\ UNCHANGED <<rtcRegs, rtcInited, rtcReq, rtcAsked>>

PowerUp == [power_up |-> TRUE, time |-> [f \in Field |-> 0]]

Running == [power_up |-> FALSE, time |-> Decode(rtcRegs)]

ReadRegisters ==
    /\ rtcAt = "read"
    /\ \/ Delivered /\ OSF(rtcRegs) /\ rtcAt' = "init" /\ UNCHANGED rtcReply
       \/ Delivered /\ ~OSF(rtcRegs) /\ rtcAt' = "idle" /\ rtcReply' = Running
       \/ Failed /\ rtcAt' = "idle" /\ UNCHANGED rtcReply
    /\ UNCHANGED <<rtcRegs, rtcInited, rtcReq, rtcAsked>>

\* After a power-up the control registers are written, and only then the
\* reply is formatted.
\* Mutant: a reply although the initialisation failed.
WriteInitDataUnchecked ==
    /\ rtcAt = "init"
    /\ rtcAt' = "idle"
    /\ rtcReply' = PowerUp
    /\ \/ Delivered /\ rtcInited' = TRUE
       \/ Failed /\ rtcInited' \in {rtcInited, TRUE}
    /\ UNCHANGED <<rtcRegs, rtcReq, rtcAsked>>

WriteInitData ==
    /\ rtcAt = "init"
    /\ rtcAt' = "idle"
    /\ \/ Delivered /\ rtcInited' = TRUE /\ rtcReply' = PowerUp
       \/ Failed /\ rtcInited' \in {rtcInited, TRUE} /\ UNCHANGED rtcReply
    /\ UNCHANGED <<rtcRegs, rtcReq, rtcAsked>>

\* Mutant: the calendar is not consulted.
BeginSetUnchecked(t) ==
    /\ rtcAt = "idle"
    /\ rtcAt' = "set"
    /\ rtcReq' = t
    /\ rtcReply' = NoTime
    /\ rtcAsked' = NoTime
    /\ UNCHANGED <<rtcRegs, rtcInited, faults>>

\* CW: a time that is not accepted changes nothing.
BeginSet(t) ==
    /\ rtcAt = "idle"
    /\ Accepts(t)
    /\ rtcAt' = "set"
    /\ rtcReq' = t
    /\ rtcReply' = NoTime
    /\ rtcAsked' = NoTime
    /\ UNCHANGED <<rtcRegs, rtcInited, faults>>

\* All registers are written in one transfer of 8 bytes.
WriteTime ==
    /\ rtcAt = "set"
    /\ rtcAt' = "idle"
    /\ rtcReq' = NoTime
    /\ \/ Delivered /\ rtcRegs' = Encode(rtcReq) /\ rtcAsked' = rtcReq
       \/ /\ Failed
          /\ \E k \in 0..8 : rtcRegs' = Partly(rtcRegs, rtcReq, k)
          /\ UNCHANGED rtcAsked
    /\ UNCHANGED <<rtcInited, rtcReply>>

\* The process ends; the chip runs on, from its battery if need be.
RtcDies ==
    /\ rtcAt' = "down"
    /\ rtcReq' = NoTime
    /\ rtcReply' = NoTime
    /\ UNCHANGED <<rtcRegs, rtcInited, rtcAsked>>

\* While the computer is off, the battery runs out as well: the oscillator
\* stops and the chip restarts with reset registers.
PowerFails ==
    /\ rtcAt = "down"
    /\ Failed
    /\ rtcRegs' = ResetRegs
    /\ rtcInited' = FALSE
    /\ rtcReply' = NoTime
    /\ rtcAsked' = NoTime
    /\ UNCHANGED <<rtcAt, rtcReq>>

RtcCommand ==
    \/ BeginPoll
    \/ \E t \in Times : BeginSet(t)

RtcTransfer == ReadRegisters \/ WriteInitData \/ WriteTime

RtcNext ==
    \/ RtcProbe
    \/ RtcCommand
    \/ RtcTransfer
    \/ PowerFails
    \/ RtcDies

RtcSpec == RtcInit /\ [][RtcNext]_rtcVars

----------------------------------------------------------------------------

\* The types of the variables of this chip.
RtcTypeOK ==
    /\ rtcRegs \in [Field -> 0..255]
    /\ rtcInited \in BOOLEAN
    /\ rtcAt \in {"down", "idle", "read", "init", "set"}
    /\ rtcReq \in Time \cup {NoTime}
    /\ rtcAt = "set" => rtcReq # NoTime
    /\ rtcReply \in Reply \cup {NoTime}
    /\ rtcAsked \in Time \cup {NoTime}

\* A poll answers with the time that was set last, and without a power-up,
\* as soon as that write was delivered: through the conversion to BCD, the
\* masks of the registers and the flag in the seconds, whatever failed
\* before and whether the driver was restarted since.
PollAnswersWhatWasSet ==
    rtcReply # NoTime /\ rtcAsked # NoTime =>
        rtcReply = [power_up |-> FALSE, time |-> rtcAsked]

\* A poll that reports a power-up has initialised the chip: the oscillator
\* does not run with the control registers of the reset after the caller
\* was told so.
PowerUpIsHandled ==
    rtcReply # NoTime => (rtcReply.power_up => rtcInited)

\* The calendar of 2000..2099.
DaysOfMonth(t) ==
    IF t["month"] \in {4, 6, 9, 11} THEN 30
    ELSE IF t["month"] # 2 THEN 31
    ELSE IF t["year"] % 4 = 0 /\ (t["year"] % 100 # 0 \/ t["year"] = 0)
         THEN 29 ELSE 28

IsDate(t) == t["month"] \in 1..12 /\ t["day"] \in 1..DaysOfMonth(t)

\* A month that exists has its days counted as in the calendar.
KnownTimeIsADate ==
    rtcAsked # NoTime /\ rtcAsked["month"] # 0 => IsDate(rtcAsked)

\* abiocard.c:115 says "When the OSF flag is set, it remains set until the
\* caller sets a valid date and time": a chip that no transfer failed on and
\* that does not report a power-up shows a date.
OsfUntilDateIsSet ==
    faults = 0 /\ ~OSF(rtcRegs) => IsDate(Decode(rtcRegs))
=============================================================================
