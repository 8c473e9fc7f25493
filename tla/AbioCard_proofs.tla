-------------------------- MODULE AbioCard_proofs ---------------------------
(***************************************************************************)
(* Proofs about the I/O card.  First its chips, each by itself: the clock, *)
(* the LED driver and the second LED driver, with a bus that may fail at   *)
(* any transfer.  Then the driver as a whole, which behaves at each of its *)
(* chips as the module of that chip says: what was proved of a chip alone  *)
(* holds of the card, with all chips sharing one bus, one thread and one   *)
(* process.                                                                *)
(***************************************************************************)
EXTENDS AbioCard, TLAPS, SequenceTheorems

-----------------------------------------------------------------------------
(* The clock: a delivered CW is what CR answers, for every date-time and   *)
(* every failure, and the test of rtc_set_time agrees with the calendar of *)
(* 2000..2099 for every month but 0.                                       *)

\* Packed BCD loses nothing between 0 and 99.
LEMMA BcdRoundTrip ==
    ASSUME NEW n \in 0..99
    PROVE  /\ bin_to_pbcd(n) \in 0..153
           /\ pbcd_to_bin(bin_to_pbcd(n)) = n
<1>1. n \div 10 \in 0..9 /\ n % 10 \in 0..9 /\ n = (10 * (n \div 10)) + (n % 10)
  OBVIOUS
<1>2. PICK d \in 0..9, u \in 0..9 : n \div 10 = d /\ n % 10 = u
  BY <1>1
<1>3. (u + 16 * d) \div 16 = d /\ (u + 16 * d) % 16 = u
  OBVIOUS
<1> QED
  BY <1>1, <1>2, <1>3 DEF bin_to_pbcd, pbcd_to_bin

\* The values that rtc_set_time accepts fit under the masks of rtc_poll.
LEMMA BcdBounds ==
    ASSUME NEW n \in 0..99
    PROVE  /\ n <= 59 => bin_to_pbcd(n) < 128
           /\ n <= 31 => bin_to_pbcd(n) < 64
           /\ n <= 12 => bin_to_pbcd(n) < 32
<1>1. PICK d \in 0..9, u \in 0..9 : n \div 10 = d /\ n % 10 = u /\ n = 10 * d + u
  OBVIOUS
<1> QED
  BY <1>1 DEF bin_to_pbcd

\* The calendar test accepts no day that the calendar does not have, except in
\* month 0, ...
THEOREM AcceptedIsADate ==
    ASSUME NEW t \in Time, Accepts(t), t["month"] # 0
    PROVE  IsDate(t)
<1>1. t["month"] \in 1..12 /\ t["year"] \in 0..99 /\ t["day"] \in 1..MaxDay(t)
  BY DEF Time, Field, Accepts
<1>2. t["year"] % 100 # 0 \/ t["year"] = 0
  BY <1>1
<1>3. MaxDay(t) = DaysOfMonth(t)
  BY <1>1, <1>2 DEF MaxDay, DaysOfMonth
<1> QED
  BY <1>1, <1>3 DEF IsDate

\* ... and it accepts every date of the century.
THEOREM DateIsAccepted ==
    ASSUME NEW t \in Time, IsDate(t),
           t["hour"] <= 23, t["minute"] <= 59, t["second"] <= 59
    PROVE  Accepts(t)
<1>1. t["month"] \in 1..12 /\ t["year"] \in 0..99 /\ t["day"] \in 1..DaysOfMonth(t)
  BY DEF Time, Field, IsDate
<1>2. t["year"] % 100 # 0 \/ t["year"] = 0
  BY <1>1
<1>3. MaxDay(t) = DaysOfMonth(t)
  BY <1>1, <1>2 DEF MaxDay, DaysOfMonth
<1> QED
  BY <1>1, <1>3 DEF Accepts

\* The bounds of the six fields of an accepted time.
LEMMA AcceptedBounds ==
    ASSUME NEW t \in Time, Accepts(t)
    PROVE  /\ \A f \in Field : t[f] \in 0..99
           /\ t["second"] <= 59 /\ t["minute"] <= 59 /\ t["hour"] <= 31
           /\ t["day"] <= 31 /\ t["month"] <= 12
BY DEF Time, Field, Accepts, MaxDay

\* An accepted time is read back as it was written, and its seconds clear
\* OSF.
LEMMA TimeRoundTrip ==
    ASSUME NEW t \in Time, Accepts(t)
    PROVE  /\ Encode(t) \in [Field -> 0..255]
           /\ ~OSF(Encode(t))
           /\ Decode(Encode(t)) = t
<1>1. \A f \in Field : t[f] \in 0..99
  BY AcceptedBounds
<1>2. \A f \in Field : Encode(t)[f] = bin_to_pbcd(t[f])
  BY DEF Encode
<1>3. \A f \in Field : Encode(t)[f] \in 0..153 /\ pbcd_to_bin(Encode(t)[f]) = t[f]
  BY <1>1, <1>2, BcdRoundTrip
<1>4. \A f \in Field : Encode(t)[f] < Mask[f]
  <2>1. Encode(t)["second"] < 128 /\ Encode(t)["minute"] < 128
    BY <1>1, <1>2, AcceptedBounds, BcdBounds DEF Field
  <2>2. Encode(t)["hour"] < 64 /\ Encode(t)["day"] < 64
    BY <1>1, <1>2, AcceptedBounds, BcdBounds DEF Field
  <2>3. Encode(t)["month"] < 32
    BY <1>1, <1>2, AcceptedBounds, BcdBounds DEF Field
  <2>4. Encode(t)["year"] < 256
    BY <1>3 DEF Field
  <2> QED
    BY <2>1, <2>2, <2>3, <2>4 DEF Mask, Field
<1>5. \A f \in Field : Encode(t)[f] % Mask[f] = Encode(t)[f]
  <2> SUFFICES ASSUME NEW f \in Field
               PROVE  Encode(t)[f] % Mask[f] = Encode(t)[f]
    OBVIOUS
  <2>1. Mask[f] \in {128, 64, 32, 256}
    BY DEF Mask, Field
  <2>2. Encode(t)[f] \in 0..153 /\ Encode(t)[f] < Mask[f]
    BY <1>3, <1>4
  <2> QED
    BY <2>1, <2>2
<1>6. Decode(Encode(t)) = [f \in Field |-> t[f]]
  BY <1>3, <1>5 DEF Decode
<1>7. t = [f \in Field |-> t[f]]
  BY DEF Time
<1>8. ~OSF(Encode(t))
  BY <1>3, <1>4 DEF OSF, Mask, Field
<1>9. Encode(t) \in [Field -> 0..255]
  BY <1>3 DEF Encode
<1> QED
  BY <1>6, <1>7, <1>8, <1>9

----------------------------------------------------------------------------
\* The inductive invariant: while the chip is known to have been told a time,
\* its registers hold that time; a command that is about to change them
\* leaves no reply and no known time behind.

Known ==
    rtcAsked # NoTime => Accepts(rtcAsked) /\ rtcRegs = Encode(rtcAsked)

Pending ==
    /\ rtcAt = "set" => /\ Accepts(rtcReq)
                        /\ rtcReply = NoTime
                        /\ rtcAsked = NoTime
    /\ rtcAt = "read" => rtcReply = NoTime
    /\ rtcAt = "init" => rtcReply = NoTime /\ OSF(rtcRegs)

RtcInv ==
    /\ RtcTypeOK
    /\ Known
    /\ Pending
    /\ PollAnswersWhatWasSet
    /\ PowerUpIsHandled

\* Registers that were written in part are still bytes.
LEMMA PartlyType ==
    ASSUME NEW regs \in [Field -> 0..255], NEW t \in Time, Accepts(t), NEW k \in 0..8
    PROVE  Partly(regs, t, k) \in [Field -> 0..255]
BY TimeRoundTrip DEF Partly

\* Whatever the registers hold, a poll makes natural numbers of it.
LEMMA DecodeType ==
    ASSUME NEW regs \in [Field -> 0..255]
    PROVE  Decode(regs) \in [Field -> Nat]
<1> SUFFICES ASSUME NEW f \in Field
             PROVE  pbcd_to_bin(regs[f] % Mask[f]) \in Nat
  BY DEF Decode
<1>1. Mask[f] \in {128, 64, 32, 256}
  BY DEF Mask, Field
<1>2. PICK b \in 0..255 : b = regs[f] % Mask[f]
  BY <1>1
<1>3. b \div 16 \in Nat /\ b % 16 \in Nat
  OBVIOUS
<1> QED
  BY <1>2, <1>3 DEF pbcd_to_bin

\* The registers after a reset are bytes.
LEMMA ResetType == ResetRegs \in [Field -> 0..255]
BY DEF ResetRegs

\* The reset of the chip satisfies the invariant.
LEMMA RtcInvInit == RtcInit => RtcInv
BY ResetType DEF RtcInit, RtcInv, RtcTypeOK, Known, Pending, PollAnswersWhatWasSet,
                 PowerUpIsHandled

\* Every step of the chip keeps the invariant.
LEMMA RtcInvStep == RtcInv /\ [RtcNext]_rtcVars => RtcInv'
<1> SUFFICES ASSUME RtcInv, [RtcNext]_rtcVars PROVE RtcInv'
  OBVIOUS
<1> USE DEF RtcInv
<1>1. ASSUME RtcProbe PROVE RtcInv'
  BY <1>1 DEF RtcProbe, RtcTypeOK, Known, Pending, PollAnswersWhatWasSet, PowerUpIsHandled
<1>2. ASSUME BeginPoll PROVE RtcInv'
  BY <1>2 DEF BeginPoll, RtcTypeOK, Known, Pending, PollAnswersWhatWasSet, PowerUpIsHandled
<1>3. ASSUME NEW t \in Times, BeginSet(t) PROVE RtcInv'
  <2>1. t \in Time /\ t # NoTime
    BY RtcAssumption
  <2> QED
    BY <1>3, <2>1 DEF BeginSet, RtcTypeOK, Known, Pending, PollAnswersWhatWasSet,
                      PowerUpIsHandled
<1>4. ASSUME ReadRegisters PROVE RtcInv'
  <2>1. CASE ~OSF(rtcRegs) /\ rtcReply' = Running
    <3>1. Running \in Reply
      BY DecodeType DEF Running, Reply, RtcTypeOK
    <3>2. rtcAsked # NoTime => Decode(rtcRegs) = rtcAsked
      BY TimeRoundTrip DEF Known, RtcTypeOK
    <3>3. PollAnswersWhatWasSet'
      BY <1>4, <2>1, <3>2 DEF ReadRegisters, PollAnswersWhatWasSet, Running
    <3>4. PowerUpIsHandled'
      BY <2>1 DEF PowerUpIsHandled, Running
    <3> QED
      BY <1>4, <2>1, <3>1, <3>3, <3>4 DEF ReadRegisters, RtcTypeOK, Known, Pending
  <2>2. CASE UNCHANGED rtcReply
    BY <1>4, <2>2 DEF ReadRegisters, RtcTypeOK, Known, Pending, PollAnswersWhatWasSet,
                      PowerUpIsHandled
  <2> QED
    BY <1>4, <2>1, <2>2 DEF ReadRegisters
<1>5. ASSUME WriteInitData PROVE RtcInv'
  <2>1. PowerUp \in Reply /\ PowerUp.power_up = TRUE
    BY DEF PowerUp, Reply
  <2>2. rtcAsked = NoTime
    BY <1>5, TimeRoundTrip DEF WriteInitData, Known, Pending, RtcTypeOK
  <2>3. RtcTypeOK'
    BY <1>5, <2>1 DEF WriteInitData, RtcTypeOK
  <2>4. Known' /\ Pending'
    BY <1>5 DEF WriteInitData, Known, Pending
  <2>5. PollAnswersWhatWasSet'
    BY <1>5, <2>2 DEF WriteInitData, PollAnswersWhatWasSet
  <2>6. PowerUpIsHandled'
    BY <1>5 DEF WriteInitData, PowerUpIsHandled, Pending
  <2> QED
    BY <2>3, <2>4, <2>5, <2>6
<1>6. ASSUME WriteTime PROVE RtcInv'
  <2>1. /\ rtcReq \in Time
        /\ Accepts(rtcReq)
        /\ rtcReply = NoTime
        /\ rtcAsked = NoTime
        /\ rtcRegs \in [Field -> 0..255]
    BY <1>6 DEF WriteTime, RtcTypeOK, Pending
  <2>2. \A k \in 0..8 : Partly(rtcRegs, rtcReq, k) \in [Field -> 0..255]
    BY <2>1, PartlyType
  <2>3. Encode(rtcReq) \in [Field -> 0..255]
    BY <2>1, TimeRoundTrip
  <2>4. RtcTypeOK'
    BY <1>6, <2>1, <2>2, <2>3 DEF WriteTime, RtcTypeOK
  <2>5. Known'
    BY <1>6, <2>1 DEF WriteTime, Known
  <2> QED
    BY <1>6, <2>1, <2>4, <2>5 DEF WriteTime, Pending, PollAnswersWhatWasSet, PowerUpIsHandled
<1>7. ASSUME RtcDies PROVE RtcInv'
  BY <1>7 DEF RtcDies, RtcTypeOK, Known, Pending, PollAnswersWhatWasSet, PowerUpIsHandled
<1>8. ASSUME PowerFails PROVE RtcInv'
  BY <1>8, ResetType DEF PowerFails, RtcTypeOK, Known, Pending, PollAnswersWhatWasSet,
                         PowerUpIsHandled
<1>9. ASSUME UNCHANGED rtcVars PROVE RtcInv'
  BY <1>9 DEF rtcVars, RtcTypeOK, Known, Pending, PollAnswersWhatWasSet, PowerUpIsHandled
<1> QED
  BY <1>1, <1>2, <1>3, <1>4, <1>5, <1>6, <1>7, <1>8, <1>9
     DEF RtcNext, RtcCommand, RtcTransfer

\* The invariant holds in every behaviour of the clock.
THEOREM RtcInvariant == RtcSpec => []RtcInv
BY RtcInvInit, RtcInvStep, PTL DEF RtcSpec

\* A poll answers what was set, for all date-times and failures.
THEOREM PollAnswers == RtcSpec => []PollAnswersWhatWasSet
<1>1. RtcInv => PollAnswersWhatWasSet
  BY DEF RtcInv
<1> QED
  BY <1>1, RtcInvariant, PTL

\* What the chip is known to have been told is a date, unless its month is 0.
THEOREM KnownTimeIsDate == RtcSpec => []KnownTimeIsADate
<1>1. RtcInv => KnownTimeIsADate
  BY AcceptedIsADate DEF RtcInv, RtcTypeOK, Known, KnownTimeIsADate
<1> QED
  BY <1>1, RtcInvariant, PTL

\* A power-up is reported only after the chip was initialised, whenever power,
\* transfers or the process fail (rtc_poll, abiocard.c:187-245).
THEOREM PowerUpHandled == RtcSpec => []PowerUpIsHandled
<1>1. RtcInv => PowerUpIsHandled
  BY DEF RtcInv
<1> QED
  BY <1>1, RtcInvariant, PTL

-----------------------------------------------------------------------------
(* The LED driver: the dim value of the chip and the mode of its outputs   *)
(* agree, for every number of channels and every failure.                  *)

\* What the two kinds of loss stand for, and what each transfer that is still
\* to come relies on.

ModeInv ==
    "mode" \notin pwmLost => \A g \in 1..Groups : pwmLedout[g] = pwmMode

DimInv ==
    "dim" \notin pwmLost => pwmMode = ModeOf(pwmReg[Dim])

StepInv ==
    /\ pwmAt = "mode" => "mode" \in pwmLost
    /\ pwmAt \in {"mode", "range"} /\ pwmReq # NoRange /\ WithDim(pwmReq) =>
            /\ "dim" \in pwmLost
            /\ pwmMode = ModeOf(DimByte(pwmReq.bytes))
    /\ pwmAt \in {"down", "point", "dim"} => pwmReq = NoRange /\ pwmLost = Loss

PwmInv ==
    /\ PwmTypeOK
    /\ ModeInv
    /\ DimInv
    /\ StepInv

\* A range that passes the tests keeps the registers bytes, and touches the
\* dim value only as its last byte.
LEMMA OverwrittenType ==
    ASSUME PwmTypeOK, pwmReq # NoRange, NEW k \in 0..(Len(pwmReq.bytes) + 1)
    PROVE  /\ Overwritten(pwmReq, k) \in [0..Dim -> 0..255]
           /\ ~WithDim(pwmReq) => Overwritten(pwmReq, k)[Dim] = pwmReg[Dim]
           /\ WithDim(pwmReq) => Overwritten(pwmReq, Len(pwmReq.bytes) + 1)[Dim]
                                    = DimByte(pwmReq.bytes)
<1> DEFINE r == pwmReq
<1>1. /\ r \in PwmRange
      /\ InRange(r.start, r.bytes)
      /\ pwmReg \in [0..Dim -> 0..255]
  BY DEF PwmTypeOK
<1>2. /\ r.start \in 0..Dim
      /\ r.bytes \in Seq(Levels)
      /\ Len(r.bytes) \in Nat
      /\ Len(r.bytes) >= 1
      /\ r.start + Len(r.bytes) <= Dim + 1
  BY <1>1 DEF PwmRange, InRange
<1>3. Dim \in Nat /\ Levels \subseteq 0..255
  BY PwmAssumption
<1>4. \A j \in 1..Len(r.bytes) : r.bytes[j] \in 0..255
  <2>1. \A j \in 1..Len(r.bytes) : r.bytes[j] \in Levels
    BY <1>2, ElementOfSeq
  <2> QED
    BY <2>1, <1>3
<1>5. \A i \in 0..Dim : i >= r.start /\ i - r.start + 1 < k =>
            i - r.start + 1 \in 1..Len(r.bytes)
  <2> SUFFICES ASSUME NEW i \in 0..Dim, i >= r.start, i - r.start + 1 < k
               PROVE  i - r.start + 1 \in 1..Len(r.bytes)
    OBVIOUS
  <2>1. k \in Int /\ k <= Len(r.bytes) + 1
    BY <1>2
  <2> QED
    BY <1>2, <1>3, <2>1
<1>6. Overwritten(r, k) \in [0..Dim -> 0..255]
  BY <1>1, <1>4, <1>5 DEF Overwritten
<1>7. ~WithDim(r) => Overwritten(r, k)[Dim] = pwmReg[Dim]
  <2>1. ~WithDim(r) => ~(Dim - r.start + 1 < k)
    BY <1>2, <1>3 DEF WithDim
  <2>2. Dim \in 0..Dim
    BY <1>3
  <2> QED
    BY <2>1, <2>2 DEF Overwritten
<1>8. WithDim(r) => Overwritten(r, Len(r.bytes) + 1)[Dim] = DimByte(r.bytes)
  <2>1. WithDim(r) => /\ Dim - r.start + 1 = Len(r.bytes)
                      /\ Dim - r.start + 1 < Len(r.bytes) + 1
                      /\ Dim >= r.start
    BY <1>2, <1>3 DEF WithDim
  <2>2. Dim \in 0..Dim
    BY <1>3
  <2> QED
    BY <2>1, <2>2 DEF Overwritten, DimByte
<1> QED
  BY <1>6, <1>7, <1>8

\* The reset of the chip satisfies the invariant.
LEMMA PwmInvInit == PwmInit => PwmInv
<1> SUFFICES ASSUME PwmInit PROVE PwmInv
  OBVIOUS
<1>1. pwmReg \in [0..Dim -> 0..255]
  BY PwmAssumption DEF PwmInit
<1>2. pwmLedout \in [1..Groups -> {"off"} \cup Mode]
  BY DEF PwmInit
<1>3. pwmLost = {"mode", "dim"} /\ pwmReq = NoRange /\ pwmAt = "down" /\ pwmMode = "mode3"
  BY DEF PwmInit, Loss
<1> QED
  BY <1>1, <1>2, <1>3 DEF PwmInit, PwmInv, PwmTypeOK, Mode, Loss, ModeInv, DimInv, StepInv

\* Every step of the chip keeps the invariant.
LEMMA PwmInvStep == PwmInv /\ [PwmNext]_pwmVars => PwmInv'
<1> SUFFICES ASSUME PwmInv, [PwmNext]_pwmVars PROVE PwmInv'
  OBVIOUS
<1> USE DEF PwmInv
<1>1. ASSUME PwmWriteInitData PROVE PwmInv'
  BY <1>1 DEF PwmWriteInitData, PwmTypeOK, ModeInv, DimInv, StepInv, Loss
<1>2. ASSUME PointToDim PROVE PwmInv'
  BY <1>2 DEF PointToDim, ModeOfGarbage, PwmTypeOK, ModeInv, DimInv, StepInv, Loss, Mode
<1>3. ASSUME ReadDim PROVE PwmInv'
  <2>1. pwmLost = {"mode", "dim"} /\ pwmReq = NoRange
    BY <1>3 DEF ReadDim, StepInv, Loss
  <2>2. pwmMode' \in Mode /\ pwmAt' = "mode" /\ "mode" \in pwmLost' /\ pwmLost' \subseteq Loss
    BY <1>3, <2>1 DEF ReadDim, ModeOfGarbage, Mode, ModeOf, Loss
  <2>3. DimInv'
    BY <1>3, <2>1 DEF ReadDim, ModeOfGarbage, DimInv
  <2> QED
    BY <1>3, <2>1, <2>2, <2>3 DEF ReadDim, PwmTypeOK, ModeInv, StepInv
<1>4. ASSUME WriteMode PROVE PwmInv'
  <2>1. CASE /\ pwmLedout' = [g \in 1..Groups |-> pwmMode]
             /\ pwmLost' = pwmLost \ {"mode"}
             /\ pwmAt' = IF pwmReq = NoRange THEN "idle" ELSE "range"
             /\ UNCHANGED pwmReq
    <3>1. PwmTypeOK'
      BY <1>4, <2>1 DEF WriteMode, PwmTypeOK, Mode
    <3>2. ModeInv'
      BY <1>4, <2>1 DEF WriteMode, ModeInv
    <3>3. DimInv' /\ StepInv'
      BY <1>4, <2>1 DEF WriteMode, DimInv, StepInv, WithDim
    <3> QED
      BY <3>1, <3>2, <3>3
  <2>2. CASE /\ Failed
             /\ \E k \in 0..(Groups + 1) : pwmLedout' =
                    [g \in 1..Groups |-> IF g < k THEN pwmMode ELSE pwmLedout[g]]
             /\ pwmAt' = "idle"
             /\ pwmReq' = NoRange
             /\ UNCHANGED pwmLost
    <3>1. PwmTypeOK'
      BY <1>4, <2>2 DEF WriteMode, PwmTypeOK, Mode
    <3> QED
      BY <1>4, <2>2, <3>1 DEF WriteMode, ModeInv, DimInv, StepInv
  <2> QED
    BY <1>4, <2>1, <2>2 DEF WriteMode
<1>5. ASSUME PwmCommand PROVE PwmInv'
  <2>1. PICK start \in 0..(Dim + 1) : \E n \in 0..(Dim + 1) :
            \E bytes \in [1..n -> Levels] : PwmWrite(start, bytes)
    BY <1>5 DEF PwmCommand
  <2>2. PICK n \in 0..(Dim + 1) :
            \E bytes \in [1..n -> Levels] : PwmWrite(start, bytes)
    BY <2>1
  <2>3. PICK bytes \in [1..n -> Levels] : PwmWrite(start, bytes)
    BY <2>2
  <2> DEFINE r == [start |-> start, bytes |-> bytes]
  <2>4. bytes \in Seq(Levels)
    BY <2>2, <2>3, PwmAssumption
  <2>5. r \in PwmRange /\ r # NoRange /\ pwmReq' = r /\ InRange(r.start, r.bytes)
    BY <2>1, <2>3, <2>4, PwmAssumption DEF PwmRange, PwmWrite, InRange
  <2>6. /\ pwmAt = "idle"
        /\ UNCHANGED <<pwmReg, pwmLedout, pwmAwake>>
    BY <2>3 DEF PwmWrite
  <2>7. CASE WithDim(r) /\ ModeOf(DimByte(bytes)) # pwmMode
    <3>1. pwmMode' = ModeOf(DimByte(bytes)) /\ pwmLost' = Loss /\ pwmAt' = "mode"
      BY <2>3, <2>7 DEF PwmWrite
    <3> QED
      BY <2>5, <2>6, <2>7, <3>1
         DEF PwmTypeOK, ModeInv, DimInv, StepInv, Loss, Mode, ModeOf
  <2>8. CASE ~(WithDim(r) /\ ModeOf(DimByte(bytes)) # pwmMode)
    <3>1. /\ pwmLost' = IF WithDim(r) THEN pwmLost \cup {"dim"} ELSE pwmLost
          /\ pwmAt' = "range"
          /\ UNCHANGED pwmMode
      BY <2>3, <2>8 DEF PwmWrite
    <3>2. PwmTypeOK'
      BY <2>5, <2>6, <3>1 DEF PwmTypeOK, Loss
    <3>3. StepInv'
      BY <2>5, <2>8, <3>1 DEF StepInv
    <3> QED
      BY <2>6, <3>1, <3>2, <3>3 DEF ModeInv, DimInv
  <2> QED
    BY <2>7, <2>8
<1>6. ASSUME WriteRange PROVE PwmInv'
  <2>1. pwmReq # NoRange /\ Len(pwmReq.bytes) \in Nat
    BY <1>6 DEF WriteRange, PwmTypeOK, PwmRange
  <2>2. \A k \in 0..(Len(pwmReq.bytes) + 1) :
            /\ Overwritten(pwmReq, k) \in [0..Dim -> 0..255]
            /\ ~WithDim(pwmReq) => Overwritten(pwmReq, k)[Dim] = pwmReg[Dim]
    BY <2>1, OverwrittenType
  <2>3. WithDim(pwmReq) =>
            Overwritten(pwmReq, Len(pwmReq.bytes) + 1)[Dim] = DimByte(pwmReq.bytes)
    BY <2>1, OverwrittenType
  <2>4. \E k \in 0..(Len(pwmReq.bytes) + 1) : pwmReg' = Overwritten(pwmReq, k)
    BY <1>6, <2>1 DEF WriteRange
  <2>5. pwmLost' \subseteq pwmLost /\ ("mode" \in pwmLost => "mode" \in pwmLost')
    BY <1>6 DEF WriteRange
  <2>6. PwmTypeOK'
    BY <1>6, <2>2, <2>4, <2>5 DEF WriteRange, PwmTypeOK
  <2>7. ModeInv'
    BY <1>6, <2>5 DEF WriteRange, ModeInv
  <2>8. DimInv'
    <3>1. CASE ~WithDim(pwmReq)
      BY <1>6, <2>2, <2>4, <3>1 DEF WriteRange, DimInv
    <3>2. CASE WithDim(pwmReq)
      BY <1>6, <2>1, <2>3, <3>2 DEF WriteRange, DimInv, StepInv
    <3> QED
      BY <3>1, <3>2
  <2>9. StepInv'
    BY <1>6 DEF WriteRange, StepInv
  <2> QED
    BY <2>6, <2>7, <2>8, <2>9
<1>7. ASSUME PwmDies PROVE PwmInv'
  BY <1>7 DEF PwmDies, PwmTypeOK, ModeInv, DimInv, StepInv, Loss, Mode
<1>8. ASSUME UNCHANGED pwmVars PROVE PwmInv'
  BY <1>8 DEF pwmVars, PwmTypeOK, ModeInv, DimInv, StepInv
<1> QED
  BY <1>1, <1>2, <1>3, <1>4, <1>5, <1>6, <1>7, <1>8 DEF PwmNext, PwmTransfer

\* The invariant holds in every behaviour of the chip.
THEOREM PwmInvariant == PwmSpec => []PwmInv
BY PwmInvInit, PwmInvStep, PTL DEF PwmSpec

\* The mode of the outputs is the one the dim value asks for, when nothing
\* was lost.
THEOREM DimEffective == PwmSpec => []DimTakesEffect
<1>1. PwmInv => DimTakesEffect
  BY DEF PwmInv, ModeInv, DimInv, DimTakesEffect
<1> QED
  BY <1>1, PwmInvariant, PTL

-----------------------------------------------------------------------------
(* The second LED driver: a delivered QQ leaves its prescale value and     *)
(* running channels behind, from every state of the chip, and settings are *)
(* read back as they were written.                                         *)

\* The number of faults is a number: a transfer that failed is told from one
\* that was delivered.
LEMMA FaultsAreCounted == BusSpec => [](faults \in Nat)
<1>1. BusInit => faults \in Nat
  BY DEF BusInit
<1>2. faults \in Nat /\ [Failed]_faults => (faults \in Nat)'
  BY DEF Failed
<1> QED
  BY <1>1, <1>2, PTL DEF BusSpec

\* A position and its flag, taken apart and put together again.
Back(pos, always) ==
    /\ Position(Low(pos), High(pos, always)) = pos
    /\ Always(Low(pos), High(pos, always)) = always

\* The two bytes of a position give it and its flag back.
LEMMA PositionRoundTrip ==
    \A pos, always : pos \in 0..4095 /\ always \in {0, 1} => Back(pos, always)
<1> TAKE pos, always
<1> HAVE pos \in 0..4095 /\ always \in {0, 1}
<1> DEFINE low  == pos % 256
           high == High(pos, always)
<1>1. /\ pos \div 256 \in 0..15
      /\ low \in 0..255
      /\ pos = (256 * (pos \div 256)) + low
  OBVIOUS
<1>2. CASE always = 1
  <2>1. low + (256 * high) = pos + 4096
    BY <1>1, <1>2 DEF High
  <2>2. (pos + 4096) % 4096 = pos /\ (pos + 4096) \div 4096 = 1 /\ 1 % 2 = 1
    OBVIOUS
  <2> QED
    BY <1>2, <2>1, <2>2 DEF Back, Position, Always, Low
<1>3. CASE always = 0
  <2>1. low + (256 * high) = pos
    BY <1>1, <1>3 DEF High
  <2>2. pos % 4096 = pos /\ pos \div 4096 = 0 /\ 0 % 2 = 0
    OBVIOUS
  <2> QED
    BY <1>3, <2>1, <2>2 DEF Back, Position, Always, Low
<1> QED
  BY <1>2, <1>3

\* Both halves of a setting.
LEMMA HalvesRoundTrip ==
    ASSUME NEW s \in Setting
    PROVE  Back(s.on_pos, s.always_on) /\ Back(s.off_pos, s.always_off)
<1>1. s.on_pos \in 0..4095 /\ s.off_pos \in 0..4095
  BY DEF Setting
<1>2. s.always_on \in {0, 1} /\ s.always_off \in {0, 1}
  BY DEF Setting
<1> QED
  BY <1>1, <1>2, PositionRoundTrip

\* A channel whose registers were written from a setting reads back as that
\* setting.
LEMMA SettingRoundTrip ==
    ASSUME NEW s \in Setting, NEW b, \A i \in 1..4 : b[i] = ChannelBytes(s)[i]
    PROVE  SettingOf(b) = s
<1>1. /\ b[1] = Low(s.on_pos)  /\ b[2] = High(s.on_pos, s.always_on)
      /\ b[3] = Low(s.off_pos) /\ b[4] = High(s.off_pos, s.always_off)
  BY DEF ChannelBytes
<1>2. SettingOf(b) = [on_pos  |-> s.on_pos, always_on  |-> s.always_on,
                      off_pos |-> s.off_pos, always_off |-> s.always_off]
  BY <1>1, HalvesRoundTrip DEF SettingOf, Back
<1> QED
  BY <1>2 DEF Setting

----------------------------------------------------------------------------
\* The inductive invariant.

Setup == {"read", "sleep", "prescale", "reread", "wake", "restart"}

\* How far a QQ command has come, for each transfer that is still to come.
SetupInv ==
    /\ pwm2At \in Setup => askedPrescale = Unknown
    /\ pwm2At \in {"prescale", "reread", "wake"} => mode1.sleep
    /\ pwm2At \in {"reread", "wake", "restart"} => prescale = pwm2Req
    /\ pwm2At = "wake" => readMode1.restart = mode1.restart
    /\ pwm2At = "restart" => ~mode1.sleep

\* The read-modify-write of MODE1 keeps auto-increment.
AiInv ==
    pwm2At \in Setup \ {"read"} => readMode1.ai = mode1.ai

PrescaleInv ==
    /\ mode1 \in Mode1
    /\ readMode1 \in Mode1
    /\ SetupInv
    /\ AiInv
    /\ PrescalerTakesEffect

\* A write of MODE1 that was asked for puts its flags in place.
LEMMA AfterWriteType ==
    ASSUME mode1 \in Mode1, NEW m \in Mode1, NEW n \in AfterWrite(m)
    PROVE  /\ n \in Mode1
           /\ n.sleep = m.sleep /\ n.ai = m.ai
           /\ ~m.sleep /\ (m.restart \/ ~mode1.restart) =>
                  (~mode1.sleep \/ ~mode1.restart => ~n.restart)
BY DEF AfterWrite, RestartAfter, Mode1

\* The reset of the chip satisfies the invariant.
LEMMA PrescaleInvInit == Pwm2Init => PrescaleInv
BY DEF Pwm2Init, PrescaleInv, SetupInv, AiInv, PrescalerTakesEffect, Mode1, InitMode1, Setup

\* Every step of the chip keeps the invariant.
LEMMA PrescaleInvStep ==
    faults \in Nat /\ PrescaleInv /\ [Pwm2Next]_pwm2Vars => PrescaleInv'
<1> SUFFICES ASSUME faults \in Nat, PrescaleInv, [Pwm2Next]_pwm2Vars PROVE PrescaleInv'
  OBVIOUS
<1> USE DEF PrescaleInv
<1>1. ASSUME Pwm2WriteInitData PROVE PrescaleInv'
  <2>1. InitMode1 \in Mode1 /\ ~InitMode1.sleep /\ ~InitMode1.restart
    BY DEF InitMode1, Mode1
  <2>2. \A n \in AfterWrite(InitMode1) :
            n \in Mode1 /\ ~n.sleep /\ (~mode1.restart => ~n.restart)
    BY <2>1, AfterWriteType
  <2> QED
    BY <1>1, <2>2 DEF Pwm2WriteInitData, WriteMode1, SetupInv, AiInv, PrescalerTakesEffect, Setup
<1>2. ASSUME NEW start, NEW list, BeginSettings(start, list) PROVE PrescaleInv'
  BY <1>2 DEF BeginSettings, SetupInv, AiInv, PrescalerTakesEffect, Setup
<1>3. ASSUME NEW val, BeginPrescaler(val) PROVE PrescaleInv'
  BY <1>3 DEF BeginPrescaler, SetupInv, AiInv, PrescalerTakesEffect, Setup
<1>4. ASSUME WriteSettings PROVE PrescaleInv'
  <2>1. /\ mode1' \in Mode1
        /\ mode1'.sleep = mode1.sleep
        /\ ~mode1.restart => ~mode1'.restart
    BY <1>4 DEF WriteSettings, Mode1
  <2> QED
    BY <1>4, <2>1 DEF WriteSettings, SetupInv, AiInv, PrescalerTakesEffect, Setup
<1>5. ASSUME ReadMode1("read", "sleep") PROVE PrescaleInv'
  BY <1>5 DEF ReadMode1, Then, Delivered, Failed, SetupInv, AiInv, PrescalerTakesEffect, Setup
<1>6. ASSUME Sleep PROVE PrescaleInv'
  <2> DEFINE m == [readMode1 EXCEPT !.sleep = TRUE]
  <2>1. m \in Mode1 /\ m.sleep /\ m.ai = mode1.ai
    BY <1>6 DEF Sleep, AiInv, Mode1, Setup
  <2>2. \A n \in AfterWrite(m) : n \in Mode1 /\ n.sleep /\ n.ai = mode1.ai
    BY <2>1, AfterWriteType
  <2>3. /\ pwm2At' = "prescale" => Delivered
        /\ pwm2At' \in {"prescale", "idle"}
        /\ \/ Delivered /\ mode1' \in AfterWrite(m)
           \/ Failed /\ mode1' \in {mode1} \cup AfterWrite(m)
    BY <1>6 DEF Sleep, WriteMode1, Then, Delivered
  <2>4. mode1' \in Mode1 /\ mode1'.ai = mode1.ai
    BY <2>2, <2>3
  <2>5. pwm2At' = "prescale" => mode1'.sleep
    BY <2>2, <2>3 DEF Delivered, Failed
  <2>6. askedPrescale' = Unknown
    BY <1>6 DEF Sleep, SetupInv, Setup
  <2>7. SetupInv'
    BY <2>3, <2>5, <2>6 DEF SetupInv, Setup
  <2>8. AiInv'
    BY <1>6, <2>4 DEF Sleep, AiInv, Setup
  <2> QED
    BY <1>6, <2>4, <2>6, <2>7, <2>8 DEF Sleep, PrescalerTakesEffect
<1>7. ASSUME WritePrescale PROVE PrescaleInv'
  BY <1>7 DEF WritePrescale, Then, Delivered, Failed, SetupInv, AiInv, PrescalerTakesEffect, Setup
<1>8. ASSUME ReadMode1("reread", "wake") PROVE PrescaleInv'
  BY <1>8 DEF ReadMode1, Then, Delivered, Failed, SetupInv, AiInv, PrescalerTakesEffect, Setup
<1>9. ASSUME Wake PROVE PrescaleInv'
  <2> DEFINE m == [readMode1 EXCEPT !.restart = FALSE, !.sleep = FALSE]
  <2>1. m \in Mode1 /\ ~m.sleep /\ m.ai = mode1.ai
    BY <1>9 DEF Wake, AiInv, Mode1, Setup
  <2>2. \A n \in AfterWrite(m) : n \in Mode1 /\ ~n.sleep /\ n.ai = mode1.ai
    BY <2>1, AfterWriteType
  <2>3. \/ Delivered /\ mode1' \in AfterWrite(m) /\ pwm2At' \in {"restart", "idle"}
        \/ Failed /\ mode1' \in {mode1} \cup AfterWrite(m) /\ pwm2At' \in {"restart", "idle"}
    BY <1>9 DEF Wake, WriteMode1, Then
  <2>4. mode1' \in Mode1 /\ mode1'.ai = mode1.ai
    BY <2>2, <2>3
  <2>5. pwm2At' = "restart" => ~mode1'.sleep /\ pwm2Req' = pwm2Req
    BY <1>9, <2>2, <2>3 DEF Wake, Then, Delivered, Failed
  <2>6. askedPrescale' = Unknown /\ prescale' = pwm2Req
    BY <1>9 DEF Wake, SetupInv, Setup
  <2>7. SetupInv'
    BY <2>3, <2>5, <2>6 DEF SetupInv, Setup
  <2>8. AiInv'
    BY <1>9, <2>4 DEF Wake, AiInv, Setup
  <2> QED
    BY <1>9, <2>4, <2>6, <2>7, <2>8 DEF Wake, PrescalerTakesEffect
<1>10. ASSUME Restart PROVE PrescaleInv'
  <2> DEFINE m == [readMode1 EXCEPT !.restart = TRUE, !.sleep = FALSE]
  <2>1. m \in Mode1 /\ ~m.sleep /\ m.restart
    BY <1>10 DEF Mode1
  <2>2. ~mode1.sleep \/ ~mode1.restart
    BY <1>10 DEF Restart, SetupInv
  <2>3. \A n \in AfterWrite(m) : n \in Mode1 /\ ~n.sleep /\ ~n.restart
    BY <2>1, <2>2, AfterWriteType
  <2>4. prescale = pwm2Req /\ prescale' = prescale
    BY <1>10 DEF Restart, SetupInv
  <2>5. mode1' \in Mode1
    BY <1>10, <2>3 DEF Restart, WriteMode1
  <2>6. askedPrescale' # Unknown => mode1' \in AfterWrite(m) /\ askedPrescale' = pwm2Req
    BY <1>10 DEF Restart, WriteMode1, Delivered, Failed
  <2> QED
    BY <1>10, <2>3, <2>4, <2>5, <2>6 DEF Restart, SetupInv, AiInv, PrescalerTakesEffect, Setup
<1>11. ASSUME Pwm2Dies PROVE PrescaleInv'
  BY <1>11 DEF Pwm2Dies, SetupInv, AiInv, PrescalerTakesEffect, Setup
<1>12. ASSUME UNCHANGED pwm2Vars PROVE PrescaleInv'
  BY <1>12 DEF pwm2Vars, SetupInv, AiInv, PrescalerTakesEffect, Setup
<1> QED
  BY <1>1, <1>2, <1>3, <1>4, <1>5, <1>6, <1>7, <1>8, <1>9, <1>10, <1>11, <1>12
     DEF Pwm2Next, Pwm2Command, Pwm2Transfer

\* A QQ command that was delivered is in effect, for all values and failures.
THEOREM PrescalerEffective == Pwm2Spec => []PrescalerTakesEffect
<1>1. PrescaleInv => PrescalerTakesEffect
  BY DEF PrescaleInv
<1> QED
  BY <1>1, FaultsAreCounted, PrescaleInvInit, PrescaleInvStep, PTL DEF Pwm2Spec

----------------------------------------------------------------------------
\* The settings.

\* A known setting stands in the registers, and a write that is under way
\* leaves nothing known of the channels it is for.
ReqInv ==
    pwm2At = "settings" =>
        /\ pwm2Req.start \in Channel
        /\ pwm2Req.list \in Seq(Settings)
        /\ Len(pwm2Req.list) >= 1
        /\ \A c \in Of(pwm2Req) : askedSetting[c] = Unknown

Holds(c) ==
    askedSetting[c] # Unknown =>
        /\ askedSetting[c] \in Setting
        /\ \A i \in 1..4 : ledRegs[c][i] = ChannelBytes(askedSetting[c])[i]

SettingsInv ==
    /\ ReqInv
    /\ \A c \in Channel : Holds(c)

\* Every number of bytes that arrived leaves the other channels alone.
LEMMA OthersAreKept ==
    ASSUME SettingsInv, pwm2At = "settings", NEW k, NEW c \in Channel, c \notin Of(pwm2Req),
           NEW i \in 1..4
    PROVE  Sent(pwm2Req, k)[c][i] = ledRegs[c][i]
<1>1. pwm2Req.start \in Of(pwm2Req)
  <2>1. Channel \subseteq Int
    BY Pwm2Assumption DEF Channel
  <2>2. pwm2Req.start \in Channel /\ Len(pwm2Req.list) \in Int /\ Len(pwm2Req.list) >= 1
    BY LenProperties DEF SettingsInv, ReqInv
  <2>3. pwm2Req.start \in Int
    BY <2>1, <2>2
  <2>4. \A x, n \in Int : n >= 1 => x <= x /\ x < x + n
    OBVIOUS
  <2>5. /\ pwm2Req.start <= pwm2Req.start
        /\ pwm2Req.start < pwm2Req.start + Len(pwm2Req.list)
    BY <2>2, <2>3, <2>4, Zenon
  <2> QED
    BY <2>2, <2>5 DEF Of
<1>2. c # pwm2Req.start
  BY <1>1
<1> QED
  BY <1>2 DEF Sent

\* All bytes set the channels of the range, when the chip counts along.
LEMMA AllAreSent ==
    ASSUME SettingsInv, pwm2At = "settings", mode1.ai, NEW c \in Of(pwm2Req), NEW i \in 1..4
    PROVE  /\ pwm2Req.list[c - pwm2Req.start + 1] \in Setting
           /\ Sent(pwm2Req, 4 * Len(pwm2Req.list) + 1)[c][i] =
                  ChannelBytes(pwm2Req.list[c - pwm2Req.start + 1])[i]
<1> DEFINE start == pwm2Req.start
           len   == Len(pwm2Req.list)
<1>1. /\ start \in Int /\ c \in Int /\ len \in Nat
      /\ c \in Channel /\ start <= c /\ c < start + len
  <2>1. Channel \subseteq Int
    BY Pwm2Assumption DEF Channel
  <2>2. start \in Channel /\ len \in Nat
    BY LenProperties DEF SettingsInv, ReqInv
  <2> QED
    BY <2>1, <2>2 DEF Of
<1>2. pwm2Req.list[c - start + 1] \in Setting
  <2>1. c - start + 1 \in 1..len
    BY <1>1
  <2>2. pwm2Req.list \in Seq(Settings)
    BY DEF SettingsInv, ReqInv
  <2>3. pwm2Req.list[c - start + 1] \in Settings
    BY <2>1, <2>2, ElementOfSeq
  <2> QED
    BY <2>3, Pwm2Assumption
<1>3. Place(pwm2Req, c, i) < 4 * len + 1
  BY <1>1 DEF Place
<1>4. Sent(pwm2Req, 4 * len + 1)[c][i] = ChannelBytes(pwm2Req.list[c - start + 1])[i]
  BY <1>1, <1>3 DEF Sent
<1> QED
  BY <1>2, <1>4

\* After the reset no setting is known.
LEMMA SettingsInvInit == Pwm2Init => SettingsInv
BY DEF Pwm2Init, SettingsInv, ReqInv, Holds

\* A write of the settings of a range keeps the invariant, completely or not.
LEMMA WriteSettingsStep ==
    ASSUME SettingsInv, WriteSettings, NEW c \in Channel
    PROVE  Holds(c)'
<1> USE DEF SettingsInv
<1>1. pwm2At = "settings" /\ Holds(c)
  BY DEF WriteSettings
<1>2. PICK k : ledRegs' = Sent(pwm2Req, k)
  BY DEF WriteSettings
<1>3. CASE c \notin Of(pwm2Req)
  <2>1. askedSetting'[c] = askedSetting[c]
    BY <1>3 DEF WriteSettings
  <2>2. \A i \in 1..4 : ledRegs'[c][i] = ledRegs[c][i]
    BY <1>1, <1>2, <1>3, OthersAreKept
  <2> QED
    BY <1>1, <2>1, <2>2 DEF Holds
<1>4. CASE c \in Of(pwm2Req) /\ askedSetting'[c] # Unknown
  <2>1. askedSetting[c] = Unknown
    BY <1>1, <1>4 DEF ReqInv
  <2>2. /\ mode1.ai
        /\ ledRegs' = Sent(pwm2Req, 4 * Len(pwm2Req.list) + 1)
        /\ askedSetting'[c] = pwm2Req.list[c - pwm2Req.start + 1]
    BY <1>4, <2>1 DEF WriteSettings
  <2> QED
    BY <1>1, <1>4, <2>2, AllAreSent DEF Holds
<1> QED
  BY <1>3, <1>4 DEF Holds

\* A command that begins has a range of channels, and forgets them.
LEMMA BeginSettingsStep ==
    ASSUME SettingsInv, NEW start, NEW n \in 0..Channels,
           NEW list \in [1..n -> Settings], BeginSettings(start, list)
    PROVE  SettingsInv'
<1>1. start \in Channel /\ Len(list) >= 1
  BY DEF BeginSettings, InChannels
<1>2. list \in Seq(Settings)
  <2>1. n \in Nat
    BY Pwm2Assumption
  <2> QED
    BY <2>1, SeqDef
<1>3. /\ pwm2Req'.start = start /\ pwm2Req'.list = list
      /\ pwm2Req' = [start |-> start, list |-> list]
  BY DEF BeginSettings
<1>4. \A c \in Of(pwm2Req') : c \in Channel /\ askedSetting'[c] = Unknown
  BY <1>3 DEF BeginSettings, Of
<1>5. ReqInv'
  BY <1>1, <1>2, <1>3, <1>4 DEF ReqInv, Of
<1>6. \A c \in Channel : Holds(c)'
  BY DEF BeginSettings, SettingsInv, Holds
<1> QED
  BY <1>5, <1>6 DEF BeginSettings, SettingsInv

\* Every step of the chip keeps the invariant.
LEMMA SettingsInvStep == SettingsInv /\ [Pwm2Next]_pwm2Vars => SettingsInv'
<1> SUFFICES ASSUME SettingsInv, [Pwm2Next]_pwm2Vars PROVE SettingsInv'
  OBVIOUS
<1> USE DEF SettingsInv
<1> DEFINE Kept == UNCHANGED <<ledRegs, askedSetting>> /\ pwm2At' # "settings"
<1>1. ASSUME Kept PROVE SettingsInv'
  BY <1>1 DEF ReqInv, Holds
<1>2. CASE Pwm2WriteInitData
  BY <1>1, <1>2 DEF Pwm2WriteInitData
<1>3. ASSUME NEW start, NEW n \in 0..Channels,
             NEW list \in [1..n -> Settings], BeginSettings(start, list)
      PROVE  SettingsInv'
  BY <1>3, BeginSettingsStep
<1>4. ASSUME NEW val, BeginPrescaler(val) PROVE SettingsInv'
  BY <1>1, <1>4 DEF BeginPrescaler
<1>5. CASE WriteSettings
  <2>1. \A c \in Channel : Holds(c)'
    BY <1>5, WriteSettingsStep
  <2>2. pwm2At' = "idle"
    BY <1>5 DEF WriteSettings
  <2> QED
    BY <2>1, <2>2 DEF ReqInv
<1>6. CASE ReadMode1("read", "sleep") \/ ReadMode1("reread", "wake")
  BY <1>1, <1>6 DEF ReadMode1, Then
<1>7. CASE Sleep
  BY <1>1, <1>7 DEF Sleep, Then
<1>8. CASE WritePrescale
  BY <1>1, <1>8 DEF WritePrescale, Then
<1>9. CASE Wake
  BY <1>1, <1>9 DEF Wake, Then
<1>10. CASE Restart
  BY <1>1, <1>10 DEF Restart
<1>11. CASE Pwm2Dies
  BY <1>1, <1>11 DEF Pwm2Dies
<1>12. CASE UNCHANGED pwm2Vars
  BY <1>12 DEF pwm2Vars, ReqInv, Holds
<1> QED
  BY <1>2, <1>3, <1>4, <1>5, <1>6, <1>7, <1>8, <1>9, <1>10, <1>11, <1>12
     DEF Pwm2Next, Pwm2Command, Pwm2Transfer

\* Settings are read back as they were written, for all ranges of channels,
\* all failures and all earlier states of the chip.
THEOREM SettingsKept == Pwm2Spec => []SettingsReadBack
<1>1. SettingsInv => SettingsReadBack
  BY SettingRoundTrip DEF SettingsInv, Holds, SettingsReadBack
<1> QED
  BY <1>1, SettingsInvInit, SettingsInvStep, PTL DEF Pwm2Spec

----------------------------------------------------------------------------
\* The types.

Pwm2Typed ==
    /\ Pwm2TypeOK
    /\ pwm2At \in Setup => pwm2Req \in 0..255

\* The registers of a channel are bytes.
AreBytes(pos, always) == Low(pos) \in 0..255 /\ High(pos, always) \in 0..255

\* Both halves of a position fit into a register.
LEMMA HalvesAreBytes ==
    \A pos, always : pos \in 0..4095 /\ always \in {0, 1} => AreBytes(pos, always)
<1>1. \A pos \in 0..4095 : pos \div 256 \in 0..15
  OBVIOUS
<1>2. \A pos \in 0..4095 : pos % 256 \in 0..255
  OBVIOUS
<1> QED
  BY <1>1, <1>2 DEF AreBytes, Low, High

\* All four of them.
LEMMA ChannelBytesType ==
    ASSUME NEW s \in Setting, NEW i \in 1..4
    PROVE  ChannelBytes(s)[i] \in 0..255
<1>1. s.on_pos \in 0..4095 /\ s.off_pos \in 0..4095
  BY DEF Setting
<1>2. s.always_on \in {0, 1} /\ s.always_off \in {0, 1}
  BY DEF Setting
<1>3. AreBytes(s.on_pos, s.always_on) /\ AreBytes(s.off_pos, s.always_off)
  BY <1>1, <1>2, HalvesAreBytes
<1> QED
  BY <1>3 DEF AreBytes, ChannelBytes

\* The registers that the chip has.
LEMMA LedRegsType ==
    Pwm2TypeOK => \A c \in Channel : \A i \in 1..4 : ledRegs[c][i] \in 0..255
BY DEF Pwm2TypeOK

\* The registers after any part of a transfer are bytes as well.
LEMMA SentType ==
    ASSUME Pwm2TypeOK, SettingsInv, pwm2At = "settings",
           NEW k \in 0..(4 * Len(pwm2Req.list) + 1)
    PROVE  Sent(pwm2Req, k) \in [Channel -> [1..4 -> 0..255]]
<1> DEFINE start == pwm2Req.start
           len   == Len(pwm2Req.list)
<1>1. start \in Int /\ len \in Nat /\ Channel \subseteq Int /\ k \in Int /\ k <= 4 * len + 1
  <2>1. Channel \subseteq Int
    BY Pwm2Assumption DEF Channel
  <2>2. start \in Channel /\ len \in Nat
    BY LenProperties DEF SettingsInv, ReqInv
  <2>3. start \in Int
    BY <2>1, <2>2
  <2>4. \A n \in Nat : k \in 0..(4 * n + 1) => k \in Int /\ k <= 4 * n + 1
    OBVIOUS
  <2> QED
    BY <2>1, <2>2, <2>3, <2>4, Zenon
<1>2. \A j \in 1..len : pwm2Req.list[j] \in Setting
  <2>1. pwm2Req.list \in Seq(Settings)
    BY DEF SettingsInv, ReqInv
  <2> QED
    BY <2>1, ElementOfSeq, Pwm2Assumption
<1> SUFFICES ASSUME NEW c \in Channel, NEW i \in 1..4
             PROVE  Sent(pwm2Req, k)[c][i] \in 0..255
  BY DEF Sent
<1>3. CASE mode1.ai /\ c \in Of(pwm2Req) /\ Place(pwm2Req, c, i) < k
  <2>1. c - start + 1 \in 1..len
    BY <1>1, <1>3 DEF Of
  <2>2. Sent(pwm2Req, k)[c][i] = ChannelBytes(pwm2Req.list[c - start + 1])[i]
    BY <1>3 DEF Sent
  <2> QED
    BY <1>2, <2>1, <2>2, ChannelBytesType
<1>4. CASE ~mode1.ai /\ c = start /\ i = 1 /\ k > 1
  <2> DEFINE j == ((k - 2) \div 4) + 1
             b == ((k - 2) % 4) + 1
  <2>1. j \in 1..len /\ b \in 1..4
    BY <1>1, <1>4
  <2>2. Sent(pwm2Req, k)[c][i] = ChannelBytes(pwm2Req.list[j])[b]
    BY <1>4 DEF Sent
  <2> QED
    BY <1>2, <2>1, <2>2, ChannelBytesType
<1>5. ledRegs[c][i] \in 0..255
  BY LedRegsType, Zenon
<1>6. CASE /\ ~(mode1.ai /\ c \in Of(pwm2Req) /\ Place(pwm2Req, c, i) < k)
           /\ ~(~mode1.ai /\ c = start /\ i = 1 /\ k > 1)
  <2>1. Sent(pwm2Req, k)[c][i] = ledRegs[c][i]
    BY <1>6 DEF Sent
  <2> QED
    BY <1>5, <2>1
<1> QED
  BY <1>3, <1>4, <1>6, Zenon

\* The reset of the chip is of the type.
LEMMA Pwm2TypedInit == Pwm2Init => Pwm2Typed
<1> SUFFICES ASSUME Pwm2Init PROVE Pwm2Typed
  OBVIOUS
<1>1. \A i \in 1..4 : <<0, 0, 0, 16>>[i] \in 0..255
  OBVIOUS
<1>2. <<0, 0, 0, 16>> \in [1..4 -> 0..255]
  OBVIOUS
<1>3. ledRegs \in [Channel -> [1..4 -> 0..255]]
  BY <1>2 DEF Pwm2Init
<1> QED
  BY <1>3 DEF Pwm2Init, Pwm2Typed, Pwm2TypeOK, Mode1, InitMode1, Setup

\* Every step keeps the types.
LEMMA Pwm2TypedStep ==
    PrescaleInv /\ PrescaleInv' /\ SettingsInv /\ Pwm2Typed /\ [Pwm2Next]_pwm2Vars => Pwm2Typed'
<1> SUFFICES ASSUME PrescaleInv, PrescaleInv', SettingsInv, Pwm2Typed, [Pwm2Next]_pwm2Vars
             PROVE  Pwm2Typed'
  OBVIOUS
<1>1. (mode1 \in Mode1)' /\ (readMode1 \in Mode1)'
  BY DEF PrescaleInv
<1> USE DEF Pwm2Typed
<1>2. CASE Pwm2WriteInitData
  BY <1>1, <1>2 DEF Pwm2WriteInitData, Pwm2TypeOK, Setup
<1>3. ASSUME NEW start, NEW list, BeginSettings(start, list) PROVE Pwm2Typed'
  BY <1>1, <1>3 DEF BeginSettings, Pwm2TypeOK, Setup
<1>4. ASSUME NEW val \in Prescales, BeginPrescaler(val) PROVE Pwm2Typed'
  BY <1>1, <1>4, Pwm2Assumption DEF BeginPrescaler, Pwm2TypeOK, Setup
<1>5. CASE WriteSettings
  <2>1. ledRegs' \in [Channel -> [1..4 -> 0..255]]
    <3>1. \A k \in 0..(4 * Len(pwm2Req.list) + 1) :
              Sent(pwm2Req, k) \in [Channel -> [1..4 -> 0..255]]
      BY <1>5, SentType DEF WriteSettings
    <3>2. Len(pwm2Req.list) \in Nat
      BY <1>5, LenProperties DEF WriteSettings, SettingsInv, ReqInv
    <3>3. \A n \in Nat : 4 * n + 1 \in 0..(4 * n + 1)
      OBVIOUS
    <3>4. 4 * Len(pwm2Req.list) + 1 \in 0..(4 * Len(pwm2Req.list) + 1)
      BY <3>2, <3>3, Zenon
    <3>5. \E k \in 0..(4 * Len(pwm2Req.list) + 1) : ledRegs' = Sent(pwm2Req, k)
      BY <1>5, <3>4, Zenon DEF WriteSettings
    <3> QED
      BY <3>1, <3>5, Zenon
  <2>2. askedSetting' \in [Channel -> Setting \cup {Unknown}]
    <3>1. \A c \in Of(pwm2Req) : mode1.ai => pwm2Req.list[c - pwm2Req.start + 1] \in Setting
      BY <1>5, AllAreSent DEF WriteSettings
    <3> QED
      BY <1>5, <3>1 DEF WriteSettings, Pwm2TypeOK
  <2> QED
    BY <1>1, <1>5, <2>1, <2>2 DEF WriteSettings, Pwm2TypeOK, Setup
<1>6. CASE ReadMode1("read", "sleep") \/ ReadMode1("reread", "wake")
  BY <1>1, <1>6 DEF ReadMode1, Then, Pwm2TypeOK, Setup
<1>7. CASE Sleep
  BY <1>1, <1>7 DEF Sleep, Then, Pwm2TypeOK, Setup
<1>8. CASE WritePrescale
  BY <1>1, <1>8 DEF WritePrescale, Then, Pwm2TypeOK, Setup
<1>9. CASE Wake
  BY <1>1, <1>9 DEF Wake, Then, Pwm2TypeOK, Setup
<1>10. CASE Restart
  BY <1>1, <1>10 DEF Restart, Pwm2TypeOK, Setup
<1>11. CASE Pwm2Dies
  BY <1>1, <1>11 DEF Pwm2Dies, Pwm2TypeOK, Setup
<1>12. CASE UNCHANGED pwm2Vars
  BY <1>1, <1>12 DEF pwm2Vars, Pwm2TypeOK, Setup
<1> QED
  BY <1>2, <1>3, <1>4, <1>5, <1>6, <1>7, <1>8, <1>9, <1>10, <1>11, <1>12
     DEF Pwm2Next, Pwm2Command, Pwm2Transfer

\* The variables of the chip are of their types.
THEOREM Pwm2TypeCorrect == Pwm2Spec => []Pwm2TypeOK
<1>1. Pwm2Spec => []PrescaleInv
  BY FaultsAreCounted, PrescaleInvInit, PrescaleInvStep, PTL DEF Pwm2Spec
<1>2. Pwm2Spec => []SettingsInv
  BY SettingsInvInit, SettingsInvStep, PTL DEF Pwm2Spec
<1>3. Pwm2Typed => Pwm2TypeOK
  BY DEF Pwm2Typed
<1> QED
  BY <1>1, <1>2, <1>3, Pwm2TypedInit, Pwm2TypedStep, PTL DEF Pwm2Spec

-----------------------------------------------------------------------------
(* The card *)

\* The card starts with each chip in its reset.
LEMMA InitIsOfChips == Init => BusInit /\ RtcInit /\ PwmInit /\ Pwm2Init
BY DEF Init

\* Every step of the card is, for each chip, a step of that chip or none.
LEMMA StepIsOfChips ==
    [Next]_vars => /\ [Failed]_faults
                   /\ [RtcNext]_rtcVars
                   /\ [PwmNext]_pwmVars
                   /\ [Pwm2Next]_pwm2Vars
<1> SUFFICES ASSUME [Next]_vars
             PROVE  /\ [Failed]_faults /\ [RtcNext]_rtcVars
                    /\ [PwmNext]_pwmVars /\ [Pwm2Next]_pwm2Vars
  OBVIOUS
<1>1. CASE InitRtc
  BY <1>1 DEF InitRtc, RtcProbe, RtcNext, Delivered
<1>2. CASE Probe("ioexp", "adc") \/ Probe("adc", "pwm")
  BY <1>2 DEF Probe, Delivered
<1>3. CASE InitPwm
  BY <1>3 DEF InitPwm, PwmNext, PwmWriteInitData, PwmTransfer, PointToDim, ReadDim,
              ModeOfGarbage, WriteMode, WriteRange, Delivered
<1>4. CASE InitPwm2
  BY <1>4 DEF InitPwm2, Pwm2Next, Pwm2WriteInitData, WriteMode1, Delivered
<1>5. CASE Command
  <2>1. CASE RtcCommand /\ UNCHANGED <<pwmVars, pwm2Vars>>
    BY <2>1 DEF RtcNext, RtcCommand, BeginPoll, BeginSet, Delivered
  <2>2. CASE PwmCommand /\ UNCHANGED <<rtcVars, pwm2Vars>>
    BY <2>2 DEF PwmNext, PwmCommand, PwmWrite
  <2>3. CASE Pwm2Command /\ UNCHANGED <<rtcVars, pwmVars>>
    BY <2>3 DEF Pwm2Next, Pwm2Command, BeginSettings, BeginPrescaler
  <2> QED
    BY <1>5, <2>1, <2>2, <2>3 DEF Command
<1>6. CASE Transfer
  <2>1. CASE RtcTransfer /\ UNCHANGED <<pwmVars, pwm2Vars>>
    BY <2>1 DEF RtcNext, RtcTransfer, ReadRegisters, WriteInitData, WriteTime, Delivered
  <2>2. CASE PwmTransfer /\ UNCHANGED <<rtcVars, pwm2Vars>>
    BY <2>2 DEF PwmNext, PwmTransfer, PointToDim, ReadDim, ModeOfGarbage, WriteMode,
                WriteRange, Delivered
  <2>3. CASE Pwm2Transfer /\ UNCHANGED <<rtcVars, pwmVars>>
    BY <2>3 DEF Pwm2Next, Pwm2Transfer, WriteSettings, ReadMode1, Sleep, WritePrescale,
                Wake, Restart, WriteMode1, Delivered
  <2> QED
    BY <1>6, <2>1, <2>2, <2>3 DEF Transfer
<1>7. CASE Disconnect \/ Die
  BY <1>7 DEF Disconnect, Die, Released, RtcNext, PwmNext, Pwm2Next, Delivered
<1>8. CASE BatteryFails
  BY <1>8 DEF BatteryFails, PowerFails, RtcNext
<1>9. CASE UNCHANGED vars
  BY <1>9 DEF vars
<1> QED
  BY <1>1, <1>2, <1>3, <1>4, <1>5, <1>6, <1>7, <1>8, <1>9 DEF Next

\* The card implements the specification of each of its chips and of the bus.
THEOREM CardImplementsChips == Spec => BusSpec /\ RtcSpec /\ PwmSpec /\ Pwm2Spec
BY InitIsOfChips, StepIsOfChips, PTL DEF Spec, BusSpec, RtcSpec, PwmSpec, Pwm2Spec

\* The clock of the card answers with what it was told, which was a date, and
\* initialises the chip before it reports a power-up.
THEOREM CardClock ==
    Spec => [](PollAnswersWhatWasSet /\ KnownTimeIsADate /\ PowerUpIsHandled)
<1>1. RtcInv => PowerUpIsHandled
  BY DEF RtcInv
<1> QED
  BY <1>1, CardImplementsChips, PollAnswers, KnownTimeIsDate, RtcInvariant, PTL

\* Dim values, prescale values and settings of the card take effect.
THEOREM CardLamps == Spec => [](DimTakesEffect /\ PrescalerTakesEffect /\ SettingsReadBack)
BY CardImplementsChips, DimEffective, PrescalerEffective, SettingsKept, PTL

\* What belongs to no chip is of its type.
OwnTypeOK ==
    /\ faults \in 0..FaultLimit
    /\ stage \in (Chips \cup {"serving", "refused"})
    /\ present \subseteq Chips
    /\ commands \in 0..CommandLimit

\* Every step keeps those types.
LEMMA OwnTypeStep == OwnTypeOK /\ [Next]_vars => OwnTypeOK'
<1> SUFFICES ASSUME OwnTypeOK, [Next]_vars PROVE OwnTypeOK'
  OBVIOUS
<1> USE DEF OwnTypeOK, Chips
<1>1. faults' \in 0..FaultLimit
  BY StepIsOfChips, FaultLimitAssumption DEF Failed
<1>2. CASE InitRtc \/ Probe("ioexp", "adc") \/ Probe("adc", "pwm") \/ InitPwm \/ InitPwm2
  BY <1>1, <1>2 DEF InitRtc, Probe, InitPwm, InitPwm2, Initialised, own
<1>3. CASE Command
  BY <1>1, <1>3, CommandLimitAssumption DEF Command
<1>4. CASE Transfer
  BY <1>1, <1>4 DEF Transfer, own
<1>5. CASE Disconnect
  BY <1>1, <1>5, CommandLimitAssumption DEF Disconnect, Released
<1>6. CASE Die
  BY <1>1, <1>6 DEF Die, Released
<1>7. CASE BatteryFails \/ UNCHANGED vars
  BY <1>1, <1>7 DEF BatteryFails, vars, own
<1> QED
  BY <1>2, <1>3, <1>4, <1>5, <1>6, <1>7 DEF Next

\* The variables of the card are of their types.
THEOREM CardTypeCorrect == Spec => []TypeOK
<1>1. Init => OwnTypeOK
  BY FaultLimitAssumption, CommandLimitAssumption DEF Init, BusInit, OwnTypeOK, Chips
<1>2. RtcInv => RtcTypeOK
  BY DEF RtcInv
<1>3. PwmInv => PwmTypeOK
  BY DEF PwmInv
<1>4. OwnTypeOK /\ RtcTypeOK /\ PwmTypeOK /\ Pwm2TypeOK => TypeOK
  BY DEF OwnTypeOK, TypeOK
<1> QED
  BY <1>1, <1>2, <1>3, <1>4, OwnTypeStep, CardImplementsChips, RtcInvariant, PwmInvariant,
     Pwm2TypeCorrect, PTL DEF Spec

----------------------------------------------------------------------------
\* What HI reports.

\* abiocard_init has not begun with the first LED driver, or it is under way
\* and the oscillator was switched on.
StageInv ==
    /\ stage \in {"rtc", "ioexp", "adc"} => pwmAt = "down"
    /\ stage \in {"rtc", "ioexp", "adc", "pwm"} => pwmReq = NoRange
    /\ stage = "pwm" => pwmAt \in {"down", "point", "dim", "mode"}
    /\ stage = "pwm" /\ pwmAt # "down" => pwmAwake

\* The oscillator of the first LED driver stays on.
LEMMA AwakeForGood == [PwmNext]_pwmVars => (pwmAwake => pwmAwake')
BY DEF PwmNext, PwmWriteInitData, PwmCommand, PwmTransfer, PwmWrite, PointToDim, ReadDim,
       WriteMode, WriteRange, PwmDies, pwmVars

\* The second LED driver keeps incrementing its register index.
LEMMA IncrementsForGood == PrescaleInv /\ [Pwm2Next]_pwm2Vars => (mode1.ai => mode1'.ai)
<1> SUFFICES ASSUME PrescaleInv, [Pwm2Next]_pwm2Vars, mode1.ai PROVE mode1'.ai
  OBVIOUS
<1>1. ASSUME NEW m \in Mode1, m.ai, WriteMode1(m) PROVE mode1'.ai
  BY <1>1, AfterWriteType DEF WriteMode1, PrescaleInv
<1>2. CASE Pwm2WriteInitData
  BY <1>1, <1>2 DEF Pwm2WriteInitData, InitMode1, Mode1
<1>3. CASE WriteSettings
  BY <1>3 DEF WriteSettings, PrescaleInv, Mode1
<1>4. ASSUME Sleep \/ Wake \/ Restart PROVE mode1'.ai
  <2>1. readMode1 \in Mode1 /\ readMode1.ai
    BY <1>4 DEF Sleep, Wake, Restart, PrescaleInv, AiInv, Setup
  <2>2. /\ [readMode1 EXCEPT !.sleep = TRUE] \in Mode1
        /\ [readMode1 EXCEPT !.sleep = TRUE].ai
        /\ [readMode1 EXCEPT !.restart = FALSE, !.sleep = FALSE] \in Mode1
        /\ [readMode1 EXCEPT !.restart = FALSE, !.sleep = FALSE].ai
        /\ [readMode1 EXCEPT !.restart = TRUE, !.sleep = FALSE] \in Mode1
        /\ [readMode1 EXCEPT !.restart = TRUE, !.sleep = FALSE].ai
    BY <2>1 DEF Mode1
  <2> QED
    BY <1>1, <1>4, <2>2 DEF Sleep, Wake, Restart
<1>5. CASE UNCHANGED mode1
  BY <1>5
<1> QED
  BY <1>2, <1>3, <1>4, <1>5
     DEF Pwm2Next, Pwm2Command, Pwm2Transfer, BeginSettings, BeginPrescaler, ReadMode1,
         WritePrescale, Pwm2Dies, pwm2Vars

\* At the start no chip is reported.
LEMMA PresentInit == Init => StageInv /\ PresentIsInitialised
BY DEF Init, PwmInit, StageInv, PresentIsInitialised

\* Every step of the card keeps what HI reports true.
LEMMA PresentStep ==
    faults \in Nat /\ PrescaleInv /\ StageInv /\ PresentIsInitialised /\ [Next]_vars
        => StageInv' /\ PresentIsInitialised'
<1> SUFFICES ASSUME faults \in Nat, PrescaleInv, StageInv, PresentIsInitialised, [Next]_vars
             PROVE  StageInv' /\ PresentIsInitialised'
  OBVIOUS
<1>1. (pwmAwake => pwmAwake') /\ (mode1.ai => mode1'.ai)
  BY StepIsOfChips, AwakeForGood, IncrementsForGood
<1>2. ASSUME present' \subseteq present PROVE PresentIsInitialised'
  BY <1>1, <1>2 DEF PresentIsInitialised
<1>3. CASE InitRtc \/ Probe("ioexp", "adc") \/ Probe("adc", "pwm")
  <2>1. /\ stage \in {"rtc", "ioexp", "adc"}
        /\ stage' \in {"ioexp", "adc", "pwm"}
        /\ UNCHANGED pwmVars
        /\ present' \subseteq present \cup {"rtc", "ioexp", "adc"}
    BY <1>3 DEF InitRtc, Probe, Initialised
  <2>2. StageInv'
    BY <2>1 DEF StageInv, pwmVars
  <2> QED
    BY <1>1, <2>1, <2>2 DEF PresentIsInitialised
<1>4. CASE InitPwm
  <2> DEFINE Begun == /\ pwmAt' \in {"point", "dim", "mode", "idle"}
                      /\ pwmAt' = "idle" => ~Delivered \/ pwmAwake'
                      /\ pwmAt' # "idle" => pwmAwake' /\ pwmReq' = NoRange
  <2>1. stage = "pwm" /\ (PwmWriteInitData \/ PwmTransfer)
    BY <1>4 DEF InitPwm
  <2>2. ASSUME PwmWriteInitData PROVE Begun
    <3>1. \/ pwmAt' = "point" /\ pwmAwake' = TRUE
          \/ pwmAt' = "idle" /\ Failed
      BY <2>2 DEF PwmWriteInitData
    <3>2. Failed => ~Delivered
      BY DEF Failed, Delivered
    <3>3. pwmReq' = NoRange
      BY <2>1, <2>2 DEF PwmWriteInitData, StageInv
    <3> QED
      BY <3>1, <3>2, <3>3
  <2>3. ASSUME PwmTransfer PROVE Begun
    <3>1. /\ pwmAt \in {"point", "dim", "mode"} /\ pwmAwake' = pwmAwake
          /\ pwmReq = NoRange
      BY <2>1, <2>3 DEF PwmTransfer, PointToDim, ReadDim, WriteMode, WriteRange, StageInv
    <3>2. pwmAwake'
      BY <2>1, <3>1 DEF StageInv
    <3>3. pwmAt' \in {"dim", "mode", "idle"} /\ pwmReq' = NoRange
      BY <2>3, <3>1 DEF PwmTransfer, PointToDim, ReadDim, ModeOfGarbage, WriteMode, WriteRange
    <3> QED
      BY <3>2, <3>3
  <2>4. Begun
    BY <2>1, <2>2, <2>3
  <2>5. pwmAt' = "idle" /\ faults' = faults => pwmAwake'
    BY <2>4 DEF Delivered
  <2>6. StageInv'
    BY <1>4, <2>4 DEF InitPwm, Initialised, StageInv, own
  <2>7. present' \subseteq present \cup {"pwm"}
        /\ ("pwm" \in present' /\ "pwm" \notin present => pwmAwake')
    BY <1>4, <2>5 DEF InitPwm, Initialised, own
  <2> QED
    BY <1>1, <2>6, <2>7 DEF PresentIsInitialised
<1>5. CASE InitPwm2
  <2>1. faults' = faults => mode1'.ai
    <3>1. InitMode1 \in Mode1 /\ InitMode1.ai
      BY DEF InitMode1, Mode1
    <3>2. \A n \in AfterWrite(InitMode1) : n.ai
      BY <3>1, AfterWriteType DEF PrescaleInv
    <3>3. faults' = faults => mode1' \in AfterWrite(InitMode1)
      BY <1>5 DEF InitPwm2, Pwm2WriteInitData, WriteMode1, Failed
    <3> QED
      BY <3>2, <3>3
  <2>2. StageInv'
    BY <1>5 DEF InitPwm2, Initialised, StageInv
  <2>3. present' \subseteq present \cup {"pwm2"}
        /\ ("pwm2" \in present' /\ "pwm2" \notin present => mode1'.ai)
    BY <1>5, <2>1 DEF InitPwm2, Initialised
  <2> QED
    BY <1>1, <2>2, <2>3 DEF PresentIsInitialised
<1>6. CASE Command \/ Transfer
  <2>1. stage = "serving" /\ stage' = stage /\ present' = present
    BY <1>6 DEF Command, Transfer, own
  <2> QED
    BY <1>2, <2>1 DEF StageInv
<1>7. CASE Disconnect \/ Die
  <2>1. stage' = "rtc" /\ present' = {} /\ pwmAt' = "down" /\ pwmReq' = NoRange
    BY <1>7 DEF Disconnect, Die, Released, PwmDies
  <2> QED
    BY <1>2, <2>1 DEF StageInv
<1>8. CASE BatteryFails \/ UNCHANGED vars
  <2>1. UNCHANGED <<stage, present, pwmAt, pwmReq, pwmAwake>>
    BY <1>8 DEF BatteryFails, vars, own, pwmVars
  <2> QED
    BY <1>2, <2>1 DEF StageInv
<1> QED
  BY <1>3, <1>4, <1>5, <1>6, <1>7, <1>8 DEF Next

\* A chip that HI reports is initialised and stays so, whatever the commands
\* and the failures.
THEOREM PresentInitialised == Spec => []PresentIsInitialised
<1>1. Pwm2Spec => []PrescaleInv
  BY FaultsAreCounted, PrescaleInvInit, PrescaleInvStep, PTL DEF Pwm2Spec
<1> QED
  BY <1>1, CardImplementsChips, FaultsAreCounted, PresentInit, PresentStep, PTL DEF Spec

=============================================================================
