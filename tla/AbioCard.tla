------------------------------ MODULE AbioCard ------------------------------
(***************************************************************************)
(* The driver of the I/O card: abiocard_init of abiocard.c, which probes   *)
(* and initialises the five chips in order, and the commands that the one  *)
(* thread of abiocardserver executes one after the other.  The chips keep  *)
(* their registers when the process ends; a new process initialises them   *)
(* again.                                                                  *)
(*                                                                         *)
(* The I/O expander and the ADC are only probed here: their commands are   *)
(* single transfers (AbioCardClient models those of the expander).         *)
(***************************************************************************)
EXTENDS Rtc, Pwm, Pwm2

CONSTANT CommandLimit   \* bound: commands and disconnections

ASSUME CommandLimitAssumption == CommandLimit \in Nat

VARIABLES
    stage,      \* the chip abiocard_init turns to next, or "serving"
    present,    \* the chips that answered, as HI reports them
    commands    \* how many commands there were so far

own == <<stage, present, commands>>

vars == <<rtcVars, pwmVars, pwm2Vars, faults, own>>

Chips == {"rtc", "ioexp", "adc", "pwm", "pwm2"}

Init ==
    /\ BusInit
    /\ RtcInit
    /\ PwmInit
    /\ Pwm2Init
    /\ stage = "rtc"
    /\ present = {}
    /\ commands = 0

----------------------------------------------------------------------------
\* abiocard_init

\* Mutant: the outcome of the chip's initialisation is not looked at.
InitialisedAnyway(chip, next) ==
    /\ present' = present \cup {chip}
    /\ stage' = next
    /\ UNCHANGED commands

\* The chip is counted when its last transfer was delivered.
Initialised(chip, next) ==
    /\ present' = IF faults' = faults THEN present \cup {chip} ELSE present
    /\ stage' = next
    /\ UNCHANGED commands

InitRtc ==
    /\ stage = "rtc"
    /\ RtcProbe
    /\ Initialised("rtc", "ioexp")
    /\ UNCHANGED <<pwmVars, pwm2Vars>>

\* ioexp_read and adc_init: one transfer each.
Probe(chip, next) ==
    /\ stage = chip
    /\ Delivered \/ Failed
    /\ Initialised(chip, next)
    /\ UNCHANGED <<rtcVars, pwmVars, pwm2Vars>>

InitPwm ==
    /\ stage = "pwm"
    /\ PwmWriteInitData \/ PwmTransfer
    /\ IF pwmAt' = "idle" THEN Initialised("pwm", "pwm2") ELSE UNCHANGED own
    /\ UNCHANGED <<rtcVars, pwm2Vars>>

\* A card on which no chip answers at all is refused.
InitPwm2 ==
    /\ stage = "pwm2"
    /\ Pwm2WriteInitData
    /\ Initialised("pwm2", IF present' = {} THEN "refused" ELSE "serving")
    /\ UNCHANGED <<rtcVars, pwmVars>>

----------------------------------------------------------------------------
\* The commands

Idle ==
    /\ rtcAt = "idle" /\ pwmAt = "idle" /\ pwm2At = "idle"

\* process_rcv_cmd begins a command when the one before has returned.
Command ==
    /\ stage = "serving"
    /\ Idle
    /\ commands < CommandLimit
    /\ commands' = commands + 1
    /\ UNCHANGED <<stage, present>>
    /\ \/ RtcCommand /\ UNCHANGED <<pwmVars, pwm2Vars>>
       \/ PwmCommand /\ UNCHANGED <<rtcVars, pwm2Vars>>
       \/ Pwm2Command /\ UNCHANGED <<rtcVars, pwmVars>>

\* The next transfer of the command that is being executed.
Transfer ==
    /\ stage = "serving"
    /\ UNCHANGED own
    /\ \/ RtcTransfer /\ UNCHANGED <<pwmVars, pwm2Vars>>
       \/ PwmTransfer /\ UNCHANGED <<rtcVars, pwm2Vars>>
       \/ Pwm2Transfer /\ UNCHANGED <<rtcVars, pwmVars>>

\* abiocard_deinit frees the context, and so does the end of the process; the
\* next one starts with a cleared context.
Released ==
    /\ RtcDies
    /\ PwmDies
    /\ Pwm2Dies
    /\ stage' = "rtc"
    /\ present' = {}

\* The client goes away, between two commands, or the card was refused.
Disconnect ==
    /\ stage \in {"serving", "refused"}
    /\ Idle
    /\ commands < CommandLimit
    /\ commands' = commands + 1
    /\ Delivered
    /\ Released

\* The process is killed anywhere.
Die ==
    /\ Failed
    /\ Released
    /\ UNCHANGED commands

\* The battery of the clock runs out while no driver is at work.
BatteryFails ==
    /\ stage = "rtc"
    /\ PowerFails
    /\ UNCHANGED <<pwmVars, pwm2Vars, own>>

Next ==
    \/ InitRtc
    \/ Probe("ioexp", "adc")
    \/ Probe("adc", "pwm")
    \/ InitPwm
    \/ InitPwm2
    \/ Command
    \/ Transfer
    \/ Disconnect
    \/ Die
    \/ BatteryFails

Spec == Init /\ [][Next]_vars

----------------------------------------------------------------------------

\* The types of the variables of the card and of its chips.
TypeOK ==
    /\ faults \in 0..FaultLimit
    /\ RtcTypeOK
    /\ PwmTypeOK
    /\ Pwm2TypeOK
    /\ stage \in (Chips \cup {"serving", "refused"})
    /\ present \subseteq Chips
    /\ commands \in 0..CommandLimit

\* A chip that HI reports as present is initialised, and no command, complete
\* or not, undoes that: the oscillator of the first LED driver is on, and the
\* second one increments its register index, also after the read-modify-write
\* of its mode register by QQ.
PresentIsInitialised ==
    /\ "pwm" \in present => pwmAwake
    /\ "pwm2" \in present => mode1.ai
=============================================================================
