-------------------------------- MODULE Pwm2 --------------------------------
(***************************************************************************)
(* The second LED driver of the I/O card (PCA9685), with a prescaler and   *)
(* 12-bit on and off positions: pwm2_init, pwm2_write_range and            *)
(* pwm2_write_prescaler of abiocard.c, as the commands QW and QQ reach     *)
(* them through abiocardserver.c.                                          *)
(*                                                                         *)
(* The chip takes a new prescale value only while its oscillator sleeps,   *)
(* so a QQ command stops all channels, and has to get them running again.  *)
(***************************************************************************)
EXTENDS Integers, Sequences, I2cBus

CONSTANTS
    Channels,       \* how many channels there are (16)
    Settings,       \* the channel settings of the QW commands
    Prescales,      \* the values of the QQ commands, among 0..255
    Unknown         \* nothing is known of a register, or nothing is pending

\* ABIOCARD_PWM2_CH
Setting == [on_pos : 0..4095, always_on : {0, 1},
            off_pos : 0..4095, always_off : {0, 1}]

ASSUME Pwm2Assumption ==
    /\ Channels \in Nat
    /\ Settings \subseteq Setting
    /\ Prescales \subseteq 0..255
    /\ Unknown \notin Setting /\ Unknown \notin 0..255

VARIABLES
    mode1,          \* register MODE1 of the chip
    prescale,       \* register PRE_SCALE
    ledRegs,        \* the four registers of each channel
    pwm2At,         \* the transfer that comes next
    pwm2Req,        \* the settings or the prescale value being written
    readMode1,      \* the variable u of pwm2_write_prescaler
    askedPrescale,  \* the last delivered QQ value, Unknown since a later QQ
                    \*   began (history)
    askedSetting    \* the last delivered setting of each channel (history)

pwm2Vars == <<mode1, prescale, ledRegs, pwm2At, pwm2Req, readMode1,
              askedPrescale, askedSetting>>

Mode1 == [restart : BOOLEAN, sleep : BOOLEAN, ai : BOOLEAN]

\* pwm2_init_data
InitMode1 == [restart |-> FALSE, sleep |-> FALSE, ai |-> TRUE]

Channel == 0..(Channels - 1)

----------------------------------------------------------------------------
\* The four registers of a channel.

\* Mutant: the low byte again.
HighByteTwice(pos, always) == (pos % 16) + (16 * always)

Low(pos) == pos % 256

High(pos, always) == (pos \div 256) + (16 * always)

ChannelBytes(s) ==
    << Low(s.on_pos),  High(s.on_pos, s.always_on),
       Low(s.off_pos), High(s.off_pos, s.always_off) >>

\* pwm2_read_range, for one channel.
Position(low, high) == (low + (256 * high)) % 4096

Always(low, high) == ((low + (256 * high)) \div 4096) % 2

SettingOf(b) ==
    [on_pos  |-> Position(b[1], b[2]), always_on  |-> Always(b[1], b[2]),
     off_pos |-> Position(b[3], b[4]), always_off |-> Always(b[3], b[4])]

\* The tests of pwm2_write_range.
InChannels(start, list) ==
    /\ start \in Channel
    /\ Len(list) >= 1
    /\ start + Len(list) <= Channels

\* The channels of a range.
Of(r) == {c \in Channel : r.start <= c /\ c < r.start + Len(r.list)}

\* Byte i of channel c stands at this place of the transfer, behind the
\* register index.
Place(r, c, i) == 4 * (c - r.start) + i

\* The registers after the first k bytes of the transfer.  When MODE1.AI is
\* set each byte goes to the next register, otherwise all go to the first.
Sent(r, k) ==
    [c \in Channel |-> [i \in 1..4 |->
        IF mode1.ai /\ c \in Of(r) /\ Place(r, c, i) < k
            THEN ChannelBytes(r.list[c - r.start + 1])[i]
        ELSE IF ~mode1.ai /\ c = r.start /\ i = 1 /\ k > 1
            THEN ChannelBytes(r.list[((k - 2) \div 4) + 1])[((k - 2) % 4) + 1]
        ELSE ledRegs[c][i]]]

----------------------------------------------------------------------------
\* The chip, as the comments of pwm2_write_prescaler describe it: sleep stops
\* the channels and RESTART shows that some were running; they run again
\* when RESTART is written while the oscillator is on.  What a RESTART written
\* to a sleeping chip does is left open.

RestartAfter(m) ==
    IF m.sleep /\ ~mode1.sleep THEN BOOLEAN
    ELSE IF ~m.restart THEN {mode1.restart}
    ELSE IF m.sleep \/ mode1.sleep THEN {mode1.restart, FALSE}
    ELSE {FALSE}

AfterWrite(m) == {[m EXCEPT !.restart = r] : r \in RestartAfter(m)}

WriteMode1(m) ==
    \/ Delivered /\ mode1' \in AfterWrite(m)
    \/ Failed /\ mode1' \in {mode1} \cup AfterWrite(m)

\* The next transfer after one that may have failed.
Then(next) == pwm2At' = IF faults' = faults THEN next ELSE "idle"

----------------------------------------------------------------------------

\* The reset of the chip.
Pwm2Init ==
    /\ mode1 = [restart |-> FALSE, sleep |-> TRUE, ai |-> FALSE]
    /\ prescale = 30
    /\ ledRegs = [c \in Channel |-> <<0, 0, 0, 16>>]
    /\ pwm2At = "down"
    /\ pwm2Req = Unknown
    /\ readMode1 = InitMode1
    /\ askedPrescale = Unknown
    /\ askedSetting = [c \in Channel |-> Unknown]

Pwm2WriteInitData ==
    /\ pwm2At = "down"
    /\ pwm2At' = "idle"
    /\ WriteMode1(InitMode1)
    /\ UNCHANGED <<prescale, ledRegs, pwm2Req, readMode1, askedPrescale, askedSetting>>

\* QW
BeginSettings(start, list) ==
    /\ pwm2At = "idle"
    /\ InChannels(start, list)
    /\ pwm2Req' = [start |-> start, list |-> list]
    /\ pwm2At' = "settings"
    /\ askedSetting' = [c \in Channel |->
            IF c \in Of([start |-> start, list |-> list]) THEN Unknown
            ELSE askedSetting[c]]
    /\ UNCHANGED <<mode1, prescale, ledRegs, readMode1, askedPrescale, faults>>

\* A write may also clear RESTART: the channels run again when one of them is
\* set.  Without auto-increment the command is answered like any other, but
\* the chip does not get the settings.
WriteSettings ==
    /\ pwm2At = "settings"
    /\ pwm2At' = "idle"
    /\ pwm2Req' = Unknown
    /\ \/ /\ Delivered
          /\ ledRegs' = Sent(pwm2Req, 4 * Len(pwm2Req.list) + 1)
          /\ askedSetting' = [c \in Channel |->
                IF mode1.ai /\ c \in Of(pwm2Req)
                THEN pwm2Req.list[c - pwm2Req.start + 1] ELSE askedSetting[c]]
       \/ /\ Failed
          /\ \E k \in 0..(4 * Len(pwm2Req.list) + 1) : ledRegs' = Sent(pwm2Req, k)
          /\ UNCHANGED askedSetting
    /\ mode1' \in {mode1, [mode1 EXCEPT !.restart = FALSE]}
    /\ UNCHANGED <<prescale, readMode1, askedPrescale>>

\* QQ: MODE1 is read, ...
BeginPrescaler(val) ==
    /\ pwm2At = "idle"
    /\ pwm2Req' = val
    /\ pwm2At' = "read"
    /\ askedPrescale' = Unknown
    /\ UNCHANGED <<mode1, prescale, ledRegs, readMode1, askedSetting, faults>>

\* A register index and a register: both leave the chip as it is.
ReadMode1(from, to) ==
    /\ pwm2At = from
    /\ \/ Delivered /\ readMode1' = mode1
       \/ Failed /\ UNCHANGED readMode1
    /\ Then(to)
    /\ pwm2Req' = IF pwm2At' = "idle" THEN Unknown ELSE pwm2Req
    /\ UNCHANGED <<mode1, prescale, ledRegs, askedPrescale, askedSetting>>

\* ... the chip is put to sleep, ...
\* Mutant: MODE1 is written back as it was read.
SleepAsRead ==
    /\ pwm2At = "sleep"
    /\ WriteMode1(readMode1)
    /\ Then("prescale")
    /\ pwm2Req' = IF pwm2At' = "idle" THEN Unknown ELSE pwm2Req
    /\ UNCHANGED <<prescale, ledRegs, readMode1, askedPrescale, askedSetting>>

Sleep ==
    /\ pwm2At = "sleep"
    /\ WriteMode1([readMode1 EXCEPT !.sleep = TRUE])
    /\ Then("prescale")
    /\ pwm2Req' = IF pwm2At' = "idle" THEN Unknown ELSE pwm2Req
    /\ UNCHANGED <<prescale, ledRegs, readMode1, askedPrescale, askedSetting>>

\* ... PRE_SCALE is written, which a chip that is awake ignores, ...
WritePrescale ==
    /\ pwm2At = "prescale"
    /\ LET written == IF mode1.sleep THEN pwm2Req ELSE prescale
       IN  \/ Delivered /\ prescale' = written
           \/ Failed /\ prescale' \in {prescale, written}
    /\ Then("reread")
    /\ pwm2Req' = IF pwm2At' = "idle" THEN Unknown ELSE pwm2Req
    /\ UNCHANGED <<mode1, ledRegs, readMode1, askedPrescale, askedSetting>>

\* ... and when channels were running, the oscillator is switched on first
\* (and the driver waits 500 us), ...
Wake ==
    /\ pwm2At = "wake"
    /\ readMode1.restart
    /\ WriteMode1([readMode1 EXCEPT !.restart = FALSE, !.sleep = FALSE])
    /\ Then("restart")
    /\ pwm2Req' = IF pwm2At' = "idle" THEN Unknown ELSE pwm2Req
    /\ UNCHANGED <<prescale, ledRegs, readMode1, askedPrescale, askedSetting>>

\* ... and RESTART is written.
Restart ==
    /\ pwm2At = "restart" \/ (pwm2At = "wake" /\ ~readMode1.restart)
    /\ WriteMode1([readMode1 EXCEPT !.restart = TRUE, !.sleep = FALSE])
    /\ pwm2At' = "idle"
    /\ pwm2Req' = Unknown
    /\ askedPrescale' = IF faults' = faults THEN pwm2Req ELSE Unknown
    /\ UNCHANGED <<prescale, ledRegs, readMode1, askedSetting>>

\* The process ends, the chip stays as it is.
Pwm2Dies ==
    /\ pwm2At' = "down"
    /\ pwm2Req' = Unknown
    /\ UNCHANGED <<mode1, prescale, ledRegs, readMode1, askedPrescale, askedSetting>>

Pwm2Command ==
    \/ \E start \in 0..Channels : \E n \in 0..Channels :
            \E list \in [1..n -> Settings] : BeginSettings(start, list)
    \/ \E val \in Prescales : BeginPrescaler(val)

Pwm2Transfer ==
    \/ WriteSettings
    \/ ReadMode1("read", "sleep")
    \/ Sleep
    \/ WritePrescale
    \/ ReadMode1("reread", "wake")
    \/ Wake
    \/ Restart

Pwm2Next ==
    \/ Pwm2WriteInitData
    \/ Pwm2Command
    \/ Pwm2Transfer
    \/ Pwm2Dies

Pwm2Spec == BusSpec /\ Pwm2Init /\ [][Pwm2Next]_pwm2Vars

----------------------------------------------------------------------------

\* The types of the variables of this chip.
Pwm2TypeOK ==
    /\ mode1 \in Mode1
    /\ prescale \in 0..255
    /\ ledRegs \in [Channel -> [1..4 -> 0..255]]
    /\ pwm2At \in {"down", "idle", "settings", "read", "sleep", "prescale",
                   "reread", "wake", "restart"}
    /\ readMode1 \in Mode1
    /\ askedPrescale \in 0..255 \cup {Unknown}
    /\ askedSetting \in [Channel -> Setting \cup {Unknown}]

\* A QQ command whose transfers were all delivered has set the prescale value
\* although the chip ignores it while awake, and it leaves the oscillator on
\* and the channels running, from whatever state an earlier failed QQ or a
\* dead process left the chip in.
PrescalerTakesEffect ==
    askedPrescale # Unknown =>
        /\ prescale = askedPrescale
        /\ ~mode1.sleep
        /\ ~mode1.restart

\* A channel reads back as it was set by the last delivered QW command that
\* included it, whatever was written to its neighbours, completely or not.
SettingsReadBack ==
    \A c \in Channel :
        askedSetting[c] # Unknown => SettingOf(ledRegs[c]) = askedSetting[c]
=============================================================================
