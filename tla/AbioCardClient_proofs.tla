------------------------ MODULE AbioCardClient_proofs ------------------------
(***************************************************************************)
(* Proofs about AbioCardClient for every set of threads and pins, every    *)
(* capacity of the pipe, and every combination of failures.                *)
(***************************************************************************)
EXTENDS AbioCardClient, TLAPS

\* TypeOK is inductive together with two facts: a pending request is one the
\* thread really makes, and no thread formats a register that is still nil
\* (abio_card_client.rb:97-100).
Typed == TypeOK /\ RequestIsOwn /\ FormatFollowsSet

\* The nil register is 0 on every pin once it is used.
LEMMA ZerosAreBytes == Zeros \in Byte
  BY DEF Zeros, Byte, Bit

\* The pairs a thread writes name a pin and a bit.
LEMMA WritesArePairs ==
    ASSUME NEW t \in Threads, NEW w \in WritesOf[t]
    PROVE  /\ w \in Pins \X Bit
           /\ w[1] \in Pins
           /\ w[2] \in Bit
           /\ w = <<w[1], w[2]>>
           /\ w[1] \in Own(t)
<1>1. w \in Pins \X Bit
  BY ConstantsAssumption
<1> QED
  BY <1>1 DEF Own

\* What the two lines of SetRegister do to the register: it is a byte
\* afterwards, has the pin as asked, and the other pins as they were.
LEMMA RegisterAfterSet ==
    ASSUME Typed, NEW t \in Threads, SetRegister(t)
    PROVE  /\ req[t] \in WritesOf[t]
           /\ outRegister' \in Byte
           /\ outRegister' # NoByte
           /\ outRegister'[req[t][1]] = req[t][2]
           /\ \A p \in Pins : outRegister # NoByte /\ p # req[t][1]
                                => outRegister'[p] = outRegister[p]
<1> DEFINE base == IF outRegister = NoByte THEN Zeros ELSE outRegister
<1>1. base \in Byte
  BY ZerosAreBytes DEF Typed, TypeOK
<1>2. req[t] \in WritesOf[t]
  BY DEF Typed, RequestIsOwn, SetRegister
<1>3. req[t][1] \in Pins /\ req[t][2] \in Bit
  BY <1>2, WritesArePairs
<1>4. outRegister' = [base EXCEPT ![req[t][1]] = req[t][2]]
  BY DEF SetRegister
<1> HIDE DEF base
<1>5. outRegister' \in Byte
  BY <1>1, <1>3, <1>4 DEF Byte
<1>6. outRegister'[req[t][1]] = req[t][2]
  BY <1>1, <1>3, <1>4 DEF Byte
<1>7. \A p \in Pins : p # req[t][1] => outRegister'[p] = base[p]
  BY <1>1, <1>3, <1>4 DEF Byte
<1>8. outRegister # NoByte => base = outRegister
  BY DEF base
<1> QED
  BY <1>2, <1>5, <1>6, <1>7, <1>8, ConstantsAssumption

\* The threads start idle, with no request and the register nil.
LEMMA TypedInit == Init => Typed
<1> SUFFICES ASSUME Init PROVE Typed
  OBVIOUS
<1>1. cmd \in [Threads -> Byte]
  BY ZerosAreBytes DEF Init
<1>2. pc \in [Threads -> {"idle"}] /\ req \in [Threads -> {NoRequest}]
  BY DEF Init
<1>3. pipe \in Seq(Command)
  BY DEF Init
<1>4. TypeOK
  BY <1>1, <1>2, <1>3 DEF Init, TypeOK
<1>5. RequestIsOwn /\ FormatFollowsSet
  BY <1>2 DEF RequestIsOwn, FormatFollowsSet
<1> QED
  BY <1>4, <1>5 DEF Typed

\* No step of a thread or of the driver breaks a type, one case per action.
LEMMA TypedStep ==
    ASSUME Typed, [Next]_vars
    PROVE  Typed'
<1> USE DEF Typed, TypeOK, RequestIsOwn, FormatFollowsSet, Goto
<1>1. ASSUME NEW t \in Threads, UNCHANGED aborted,
             NEW w \in WritesOf[t], BeginWrite(t, w[1], w[2])
      PROVE  Typed'
  <2>1. w \in Pins \X Bit /\ w = <<w[1], w[2]>>
    BY WritesArePairs
  <2>2. req' = [req EXCEPT ![t] = w]
    BY <1>1, <2>1 DEF BeginWrite
  <2>3. req' \in [Threads -> (Pins \X Bit) \cup {NoRequest}]
    BY <2>1, <2>2
  <2>4. RequestIsOwn'
    BY <1>1, <2>2 DEF BeginWrite
  <2> QED
    BY <1>1, <2>3, <2>4 DEF BeginWrite
<1>2. ASSUME NEW t \in Threads, UNCHANGED aborted, BeginRead(t)
      PROVE  Typed'
  BY <1>2 DEF BeginRead
<1>3. ASSUME NEW t \in Threads, UNCHANGED aborted, SetRegister(t)
      PROVE  Typed'
  <2>1. outRegister' \in Byte /\ outRegister' # NoByte
    BY <1>3, RegisterAfterSet
  <2> QED
    BY <1>3, <2>1 DEF SetRegister
<1>4. ASSUME NEW t \in Threads, UNCHANGED aborted, FormatCommand(t)
      PROVE  Typed'
  BY <1>4 DEF FormatCommand
<1>5. ASSUME NEW t \in Threads, UNCHANGED aborted, Lock(t)
      PROVE  Typed'
  BY <1>5 DEF Lock
<1>6. ASSUME NEW t \in Threads, UNCHANGED aborted, PutWrite(t)
      PROVE  Typed'
  <2>1. EW(t, cmd[t]) \in Command
    BY DEF EW, Command
  <2>2. pipe' \in Seq(Command)
    BY <1>6, <2>1 DEF PutWrite
  <2>3. lost' \in BOOLEAN
    BY <1>6, Zenon DEF PutWrite
  <2>4. cmd' \in [Threads -> Byte]
    BY <1>6, ZerosAreBytes DEF PutWrite
  <2> QED
    BY <1>6, <2>2, <2>3, <2>4 DEF PutWrite
<1>7. ASSUME NEW t \in Threads, UNCHANGED aborted, PutRead(t)
      PROVE  Typed'
  <2>1. ER(t) \in Command
    BY ZerosAreBytes DEF ER, Command
  <2>2. pipe' \in Seq(Command)
    BY <1>7, <2>1 DEF PutRead
  <2> QED
    BY <1>7, <2>2 DEF PutRead
<1>8. ASSUME NEW t \in Threads, GetsEof(t)
      PROVE  Typed'
  BY <1>8 DEF GetsEof
<1>9. CASE ServerExec
  <2>1. Head(pipe) \in Command /\ Tail(pipe) \in Seq(Command)
    BY <1>9 DEF ServerExec
  <2>2. Head(pipe).by \in Threads /\ Head(pipe).byte \in Byte
    BY <2>1 DEF Command
  <2> QED
    BY <1>9, <2>1, <2>2 DEF ServerExec
<1>10. CASE ServerDies
  <2>1. pipe' \in Seq(Command) /\ lost' \in BOOLEAN
    BY <1>10 DEF ServerDies
  <2> QED
    BY <1>10, <2>1 DEF ServerDies
<1>11. CASE UNCHANGED vars
  BY <1>11 DEF vars
<1> QED
  BY <1>1, <1>2, <1>3, <1>4, <1>5, <1>6, <1>7, <1>8, <1>9, <1>10, <1>11
     DEF Next, ThreadStep

\* Every variable keeps its type, whatever the threads and the driver do.
THEOREM TypeCorrect == Spec => []TypeOK
<1>1. Init => Typed
  BY TypedInit
<1>2. Typed /\ [Next]_vars => Typed'
  BY TypedStep
<1>3. Typed => TypeOK
  BY DEF Typed
<1> QED
  BY <1>1, <1>2, <1>3, PTL DEF Spec

----------------------------------------------------------------------------
\* OwnPinsSurvive

\* Own pins are pins.
LEMMA OwnPinsArePins == ASSUME NEW t \in Threads PROVE Own(t) \subseteq Pins
  BY WritesArePairs DEF Own

\* A byte that is up to date for u stays so when another thread sets the
\* register: the pin it sets is none of u's.
LEMMA OthersKeepAgreement ==
    ASSUME Typed, NEW t \in Threads, NEW u \in Threads, t # u, SetRegister(t)
    PROVE  \A b : Agrees(u, b) =>
               /\ outRegister' # NoByte
               /\ \A p \in Own(u) : b[p] = outRegister'[p]
<1>1. req[t][1] \in Own(t)
  BY RegisterAfterSet, WritesArePairs
<1>2. req[t][1] \notin Own(u)
  BY <1>1, PinsAreOwned
<1>3. \A p \in Own(u) : p \in Pins /\ p # req[t][1]
  BY <1>2, OwnPinsArePins
<1> QED
  BY <1>3, RegisterAfterSet DEF Agrees

\* Nothing is sent yet, so there is no byte that could be out of date.
LEMMA OwnPinsInit == Init => Typed /\ OwnPinsInv
<1> SUFFICES ASSUME Init PROVE Typed /\ OwnPinsInv
  OBVIOUS
<1>1. Typed
  BY TypedInit
<1>2. WaitingAgrees
  BY DEF Init, WaitingAgrees
<1>3. PipeAgrees
  BY DEF Init, PipeAgrees
<1>4. ExpanderAgrees
  BY ConstantsAssumption DEF Init, ExpanderAgrees
<1>5. DeadPipeIsEmpty
  BY DEF Init, DeadPipeIsEmpty
<1> QED
  BY <1>1, <1>2, <1>3, <1>4, <1>5 DEF Typed, OwnPinsInv

\* A step that changes neither the register, the pipe nor the expander, and
\* moves no thread into or out of a write, keeps the last two parts.
LEMMA QuietStep ==
    ASSUME PipeAgrees, ExpanderAgrees,
           UNCHANGED <<outRegister, pipe, hw, lastSender, lost>>,
           \A t \in Threads : MidWrite(t)' = MidWrite(t)
    PROVE  PipeAgrees' /\ ExpanderAgrees'
  BY DEF PipeAgrees, ExpanderAgrees, Agrees

\* The byte of a thread stays up to date on its own pins on its way from the
\* register through the pipe to the expander, one case per action.
LEMMA OwnPinsStep ==
    ASSUME Typed, OwnPinsInv, [Next]_vars
    PROVE  OwnPinsInv'
<1> USE DEF Goto
<1>0. Typed' /\ RequestIsOwn' /\ FormatFollowsSet'
  BY TypedStep DEF Typed
<1>1. ASSUME NEW t \in Threads, NEW w \in WritesOf[t], BeginWrite(t, w[1], w[2])
      PROVE  OwnPinsInv'
  <2>1. WaitingAgrees' /\ DeadPipeIsEmpty'
    BY <1>1 DEF BeginWrite, OwnPinsInv, WaitingAgrees, DeadPipeIsEmpty, Agrees, Typed, TypeOK
  <2>2. \A u \in Threads : MidWrite(u)' = MidWrite(u)
    BY <1>1 DEF BeginWrite, MidWrite, Typed, TypeOK
  <2> QED
    BY <1>0, <1>1, <2>1, <2>2, QuietStep DEF BeginWrite, OwnPinsInv
<1>2. ASSUME NEW t \in Threads, BeginRead(t)
      PROVE  OwnPinsInv'
  <2>1. WaitingAgrees' /\ DeadPipeIsEmpty'
    BY <1>2 DEF BeginRead, OwnPinsInv, WaitingAgrees, DeadPipeIsEmpty, Agrees, Typed, TypeOK
  <2>2. \A u \in Threads : MidWrite(u)' = MidWrite(u)
    BY <1>2 DEF BeginRead, MidWrite, Typed, TypeOK
  <2> QED
    BY <1>0, <1>2, <2>1, <2>2, QuietStep DEF BeginRead, OwnPinsInv
<1>3. ASSUME NEW t \in Threads, SetRegister(t)
      PROVE  OwnPinsInv'
  <2>1. MidWrite(t)' /\ pc'[t] = "format"
    BY <1>3 DEF SetRegister, MidWrite, Typed, TypeOK
  <2>2. \A u \in Threads : u # t => pc'[u] = pc[u] /\ MidWrite(u)' = MidWrite(u)
    BY <1>3 DEF SetRegister, MidWrite, Typed, TypeOK
  <2>3. \A u \in Threads : u # t => \A b : Agrees(u, b) =>
            /\ outRegister' # NoByte
            /\ \A p \in Own(u) : b[p] = outRegister'[p]
    BY <1>3, OthersKeepAgreement
  <2>4. UNCHANGED <<cmd, pipe, hw, lastSender, lost, serverUp>>
    BY <1>3 DEF SetRegister
  <2>5. ASSUME NEW u \in Threads, pc'[u] \in {"lock", "put"}
        PROVE  Agrees(u, cmd[u])'
    <3>1. u # t /\ Agrees(u, cmd[u])
      BY <2>1, <2>2, <2>5 DEF OwnPinsInv, WaitingAgrees
    <3> QED
      BY <2>3, <2>4, <3>1 DEF Agrees
  <2>6. ASSUME NEW u \in Threads, NEW i \in 1 .. Len(pipe), ~MidWrite(u)',
               SentBy(u, pipe[i]),
               \A j \in i + 1 .. Len(pipe) : ~SentBy(u, pipe[j])
        PROVE  Agrees(u, pipe[i].byte)'
    <3>1. u # t /\ Agrees(u, pipe[i].byte)
      BY <2>1, <2>2, <2>6 DEF OwnPinsInv, PipeAgrees
    <3> QED
      BY <2>3, <2>4, <3>1 DEF Agrees
  <2>7. ASSUME NEW u \in Threads, ~lost, ~MidWrite(u)', lastSender = u,
               \A i \in 1 .. Len(pipe) : ~SentBy(u, pipe[i])
        PROVE  Agrees(u, hw)'
    <3>1. u # t /\ Agrees(u, hw)
      BY <2>1, <2>2, <2>7 DEF OwnPinsInv, ExpanderAgrees
    <3> QED
      BY <2>3, <2>4, <3>1 DEF Agrees
  <2>8. WaitingAgrees'
    BY <2>5 DEF WaitingAgrees
  <2>9. PipeAgrees'
    BY <2>4, <2>6 DEF PipeAgrees, SentBy
  <2>10. ExpanderAgrees'
    BY <2>4, <2>7 DEF ExpanderAgrees, SentBy
  <2>11. DeadPipeIsEmpty'
    BY <2>4 DEF OwnPinsInv, DeadPipeIsEmpty
  <2> QED
    BY <1>0, <2>8, <2>9, <2>10, <2>11 DEF OwnPinsInv
<1>4. ASSUME NEW t \in Threads, FormatCommand(t)
      PROVE  OwnPinsInv'
  <2>1. Agrees(t, cmd[t])'
    BY <1>4 DEF FormatCommand, Agrees, OwnPinsInv, FormatFollowsSet, Typed, TypeOK
  <2>2. WaitingAgrees' /\ DeadPipeIsEmpty'
    BY <1>4, <2>1
       DEF FormatCommand, OwnPinsInv, WaitingAgrees, DeadPipeIsEmpty, Agrees, Typed, TypeOK
  <2>3. \A u \in Threads : MidWrite(u)' = MidWrite(u)
    BY <1>4 DEF FormatCommand, MidWrite, Typed, TypeOK
  <2> QED
    BY <1>0, <1>4, <2>2, <2>3, QuietStep DEF FormatCommand, OwnPinsInv
<1>5. ASSUME NEW t \in Threads, Lock(t)
      PROVE  OwnPinsInv'
  <2>1. WaitingAgrees' /\ DeadPipeIsEmpty'
    BY <1>5 DEF Lock, OwnPinsInv, WaitingAgrees, DeadPipeIsEmpty, Agrees, Typed, TypeOK
  <2>2. \A u \in Threads : MidWrite(u)' = MidWrite(u)
    BY <1>5 DEF Lock, MidWrite, Typed, TypeOK
  <2> QED
    BY <1>0, <1>5, <2>1, <2>2, QuietStep DEF Lock, OwnPinsInv
<1>6. ASSUME NEW t \in Threads, PutWrite(t), serverUp
      PROVE  OwnPinsInv'
  <2>1. /\ pipe' = Append(pipe, EW(t, cmd[t])) /\ Len(pipe') = Len(pipe) + 1
        /\ \A i \in 1 .. Len(pipe) : pipe'[i] = pipe[i]
        /\ pipe'[Len(pipe) + 1] = EW(t, cmd[t])
        /\ Len(pipe) \in Nat
    <3>1. EW(t, cmd[t]) \in Command
      BY DEF EW, Command, Typed, TypeOK
    <3>2. pipe \in Seq(Command) /\ pipe' = Append(pipe, EW(t, cmd[t]))
      BY <1>6 DEF PutWrite, Typed, TypeOK
    <3> QED
      BY <3>1, <3>2
  <2>2. SentBy(t, EW(t, cmd[t])) /\ \A u \in Threads : u # t => ~SentBy(u, EW(t, cmd[t]))
    BY DEF SentBy, EW
  <2>3. Agrees(t, cmd[t]) /\ EW(t, cmd[t]).byte = cmd[t]
    BY <1>6 DEF PutWrite, OwnPinsInv, WaitingAgrees, EW
  <2>4. \A u \in Threads : u # t => pc'[u] = pc[u] /\ cmd'[u] = cmd[u]
    BY <1>6 DEF PutWrite, Typed, TypeOK
  <2>5. pc'[t] = "idle"
    BY <1>6 DEF PutWrite, Typed, TypeOK
  <2>6. UNCHANGED <<outRegister, hw, lastSender, lost, serverUp>>
    BY <1>6 DEF PutWrite
  <2>7. WaitingAgrees'
    BY <2>4, <2>5, <2>6 DEF OwnPinsInv, WaitingAgrees, Agrees
  <2>8. ASSUME NEW u \in Threads, NEW i \in 1 .. Len(pipe'), ~MidWrite(u)',
               SentBy(u, pipe'[i]),
               \A j \in i + 1 .. Len(pipe') : ~SentBy(u, pipe'[j])
        PROVE  Agrees(u, pipe'[i].byte)
    <3>1. CASE i = Len(pipe) + 1
      BY <2>1, <2>2, <2>3, <2>8, <3>1
    <3>2. CASE i # Len(pipe) + 1
      <4>1. i \in 1 .. Len(pipe) /\ Len(pipe) + 1 \in i + 1 .. Len(pipe')
        BY <2>1, <3>2
      <4>2. u # t
        BY <2>1, <2>2, <2>8, <4>1
      <4>3. ~MidWrite(u)
        BY <2>4, <2>8, <4>2 DEF MidWrite
      <4>4. \A j \in i + 1 .. Len(pipe) : ~SentBy(u, pipe[j])
        BY <2>1, <2>8
      <4>5. SentBy(u, pipe[i]) /\ pipe'[i] = pipe[i]
        BY <2>1, <2>8, <4>1
      <4> QED
        BY <4>1, <4>3, <4>4, <4>5 DEF OwnPinsInv, PipeAgrees
    <3> QED
      BY <3>1, <3>2
  <2>9. PipeAgrees'
    BY <2>6, <2>8 DEF PipeAgrees, Agrees, SentBy
  <2>10. ASSUME NEW u \in Threads, ~lost, ~MidWrite(u)', lastSender = u,
                \A i \in 1 .. Len(pipe') : ~SentBy(u, pipe'[i])
         PROVE  Agrees(u, hw)
    <3>1. u # t
      BY <2>1, <2>2, <2>10
    <3>2. \A i \in 1 .. Len(pipe) : ~SentBy(u, pipe[i])
      BY <2>1, <2>10
    <3> QED
      BY <2>4, <2>10, <3>1, <3>2 DEF OwnPinsInv, ExpanderAgrees, MidWrite
  <2>11. ExpanderAgrees'
    BY <2>6, <2>10 DEF ExpanderAgrees, Agrees, SentBy
  <2> QED
    BY <1>0, <1>6, <2>6, <2>7, <2>9, <2>11 DEF OwnPinsInv, DeadPipeIsEmpty
<1>7. ASSUME NEW t \in Threads, PutWrite(t), ~serverUp
      PROVE  OwnPinsInv'
  <2>1. pipe' = << >> /\ lost' /\ UNCHANGED <<outRegister, serverUp>>
    BY <1>7 DEF PutWrite, OwnPinsInv, DeadPipeIsEmpty
  <2>2. WaitingAgrees'
    BY <1>7 DEF PutWrite, OwnPinsInv, WaitingAgrees, Agrees, Typed, TypeOK
  <2> QED
    BY <1>0, <2>1, <2>2 DEF OwnPinsInv, PipeAgrees, ExpanderAgrees, DeadPipeIsEmpty
<1>8. ASSUME NEW t \in Threads, PutRead(t), serverUp
      PROVE  OwnPinsInv'
  <2>1. /\ pipe' = Append(pipe, ER(t)) /\ Len(pipe') = Len(pipe) + 1
        /\ \A i \in 1 .. Len(pipe) : pipe'[i] = pipe[i]
        /\ pipe'[Len(pipe) + 1] = ER(t)
        /\ Len(pipe) \in Nat
    BY <1>8 DEF PutRead, Typed, TypeOK
  <2>2. \A u \in Threads : ~SentBy(u, ER(t))
    BY DEF SentBy, ER
  <2>3. \A u \in Threads : MidWrite(u)' = MidWrite(u)
    BY <1>8 DEF PutRead, MidWrite, Typed, TypeOK
  <2>4. UNCHANGED <<outRegister, cmd, hw, lastSender, lost, serverUp>>
    BY <1>8 DEF PutRead
  <2>5. WaitingAgrees'
    BY <1>8 DEF PutRead, OwnPinsInv, WaitingAgrees, Agrees, Typed, TypeOK
  <2>6. ASSUME NEW u \in Threads, NEW i \in 1 .. Len(pipe'), ~MidWrite(u)',
               SentBy(u, pipe'[i]),
               \A j \in i + 1 .. Len(pipe') : ~SentBy(u, pipe'[j])
        PROVE  Agrees(u, pipe'[i].byte)
    <3>1. i \in 1 .. Len(pipe)
      BY <2>1, <2>2, <2>6
    <3>2. \A j \in i + 1 .. Len(pipe) : ~SentBy(u, pipe[j])
      BY <2>1, <2>6
    <3> QED
      BY <2>1, <2>3, <2>6, <3>1, <3>2 DEF OwnPinsInv, PipeAgrees
  <2>7. PipeAgrees'
    BY <2>4, <2>6 DEF PipeAgrees, Agrees, SentBy
  <2>8. ExpanderAgrees'
    BY <2>1, <2>3, <2>4 DEF OwnPinsInv, ExpanderAgrees, Agrees, SentBy
  <2> QED
    BY <1>0, <1>8, <2>4, <2>5, <2>7, <2>8 DEF OwnPinsInv, DeadPipeIsEmpty
<1>9. ASSUME NEW t \in Threads, PutRead(t), ~serverUp
      PROVE  OwnPinsInv'
  <2>1. WaitingAgrees' /\ DeadPipeIsEmpty'
    BY <1>9 DEF PutRead, OwnPinsInv, WaitingAgrees, DeadPipeIsEmpty, Agrees, Typed, TypeOK
  <2>2. \A u \in Threads : MidWrite(u)' = MidWrite(u)
    BY <1>9 DEF PutRead, MidWrite, Typed, TypeOK
  <2>3. UNCHANGED <<outRegister, pipe, hw, lastSender, lost>>
    BY <1>9 DEF PutRead
  <2> QED
    BY <1>0, <2>1, <2>2, <2>3, QuietStep DEF OwnPinsInv
<1>10. ASSUME NEW t \in Threads, GetsEof(t)
      PROVE  OwnPinsInv'
  <2>1. WaitingAgrees' /\ DeadPipeIsEmpty'
    BY <1>10 DEF GetsEof, OwnPinsInv, WaitingAgrees, DeadPipeIsEmpty, Agrees, Typed, TypeOK
  <2>2. \A u \in Threads : MidWrite(u)' = MidWrite(u)
    BY <1>10 DEF GetsEof, MidWrite, Typed, TypeOK
  <2> QED
    BY <1>0, <1>10, <2>1, <2>2, QuietStep DEF GetsEof, OwnPinsInv
<1>11. CASE ServerExec
  <2>1. /\ pipe \in Seq(Command) /\ pipe # << >> /\ pipe' = Tail(pipe)
        /\ Len(pipe) \in Nat \ {0} /\ Len(pipe') = Len(pipe) - 1
        /\ Head(pipe) = pipe[1]
        /\ \A i \in 1 .. Len(pipe') : pipe'[i] = pipe[i + 1]
    BY <1>11 DEF ServerExec, Typed, TypeOK
  <2>2. UNCHANGED <<outRegister, pc, cmd, serverUp>>
    BY <1>11 DEF ServerExec
  <2>3. WaitingAgrees' /\ DeadPipeIsEmpty'
    BY <1>11, <2>2 DEF ServerExec, OwnPinsInv, WaitingAgrees, Agrees, DeadPipeIsEmpty
  <2>4. ASSUME NEW u \in Threads, NEW i \in 1 .. Len(pipe'), ~MidWrite(u),
               SentBy(u, pipe'[i]),
               \A j \in i + 1 .. Len(pipe') : ~SentBy(u, pipe'[j])
        PROVE  Agrees(u, pipe'[i].byte)
    <3>1. i + 1 \in 1 .. Len(pipe) /\ pipe'[i] = pipe[i + 1]
      BY <2>1
    <3>2. ASSUME NEW j \in (i + 1) + 1 .. Len(pipe) PROVE ~SentBy(u, pipe[j])
      <4>1. j - 1 \in i + 1 .. Len(pipe') /\ j - 1 \in 1 .. Len(pipe') /\ (j - 1) + 1 = j
        BY <2>1, <3>1
      <4> QED
        BY <2>1, <2>4, <4>1
    <3> QED
      BY <2>4, <3>1, <3>2 DEF OwnPinsInv, PipeAgrees
  <2>5. PipeAgrees'
    BY <2>2, <2>4 DEF PipeAgrees, Agrees, SentBy, MidWrite
  <2>6. ASSUME NEW u \in Threads, \A i \in 1 .. Len(pipe') : ~SentBy(u, pipe'[i])
        PROVE  \A j \in 2 .. Len(pipe) : ~SentBy(u, pipe[j])
    <3>1. SUFFICES ASSUME NEW j \in 2 .. Len(pipe) PROVE ~SentBy(u, pipe[j])
      OBVIOUS
    <3>2. j - 1 \in 1 .. Len(pipe') /\ (j - 1) + 1 = j
      BY <2>1
    <3> QED
      BY <2>1, <2>6, <3>2
  <2>7. ASSUME NEW u \in Threads, ~lost', ~MidWrite(u), lastSender' = u,
               \A i \in 1 .. Len(pipe') : ~SentBy(u, pipe'[i])
        PROVE  Agrees(u, hw')
    <3>1. \A j \in 2 .. Len(pipe) : ~SentBy(u, pipe[j])
      BY <2>6, <2>7
    <3>2. CASE /\ Head(pipe).op = "EW"
               /\ hw' = Head(pipe).byte
               /\ lastSender' = Head(pipe).by
      <4>1. SentBy(u, pipe[1]) /\ 1 \in 1 .. Len(pipe) /\ 1 + 1 = 2
        BY <2>1, <2>7, <3>2 DEF SentBy
      <4> QED
        BY <2>1, <2>7, <3>1, <3>2, <4>1 DEF OwnPinsInv, PipeAgrees
    <3>3. CASE Head(pipe).op = "ER" /\ UNCHANGED <<hw, lastSender, lost>>
      <4>1. ~SentBy(u, pipe[1])
        BY <2>1, <3>3 DEF SentBy
      <4>2. \A j \in 1 .. Len(pipe) : ~SentBy(u, pipe[j])
        BY <2>1, <3>1, <4>1
      <4> QED
        BY <2>7, <3>3, <4>2 DEF OwnPinsInv, ExpanderAgrees
    <3> QED
      BY <1>11, <2>7, <3>2, <3>3 DEF ServerExec
  <2>8. ExpanderAgrees'
    BY <2>2, <2>7 DEF ExpanderAgrees, Agrees, SentBy, MidWrite
  <2> QED
    BY <1>0, <2>3, <2>5, <2>8 DEF OwnPinsInv
<1>12. CASE ServerDies
  <2>1. /\ pipe' = << >> /\ UNCHANGED <<outRegister, pc, cmd, hw, lastSender>>
        /\ lost' = (lost \/ \E i \in 1 .. Len(pipe) : pipe[i].op = "EW")
    BY <1>12 DEF ServerDies
  <2>2. WaitingAgrees' /\ PipeAgrees' /\ DeadPipeIsEmpty'
    BY <2>1 DEF OwnPinsInv, WaitingAgrees, PipeAgrees, Agrees, DeadPipeIsEmpty
  <2>3. ~lost' => ~lost /\ \A u \in Threads, i \in 1 .. Len(pipe) : ~SentBy(u, pipe[i])
    BY <2>1 DEF SentBy
  <2>4. ExpanderAgrees'
    BY <2>1, <2>3 DEF OwnPinsInv, ExpanderAgrees, Agrees, MidWrite
  <2> QED
    BY <1>0, <2>2, <2>4 DEF OwnPinsInv
<1>13. CASE UNCHANGED vars
  BY <1>13 DEF vars, OwnPinsInv, RequestIsOwn, FormatFollowsSet, DeadPipeIsEmpty,
               WaitingAgrees, PipeAgrees, ExpanderAgrees, Agrees, SentBy, MidWrite
<1> QED
  BY <1>1, <1>2, <1>3, <1>4, <1>5, <1>6, <1>7, <1>8, <1>9, <1>10, <1>11, <1>12, <1>13
     DEF Next, ThreadStep

\* Whoever sent last, its own pins are as it asked, once all is quiet and
\* nothing was lost (abio_card_client.rb:92-102): for any number of threads,
\* as long as no two of them write the same pin.
THEOREM OwnPins == Spec => []OwnPinsSurvive
<1>1. Init => Typed /\ OwnPinsInv
  BY OwnPinsInit
<1>2. Typed /\ OwnPinsInv /\ [Next]_vars => Typed' /\ OwnPinsInv'
  BY OwnPinsStep, TypedStep
<1>3. Typed /\ OwnPinsInv => OwnPinsSurvive
  BY DEF OwnPinsInv, ExpanderAgrees, OwnPinsSurvive, Quiescent, Agrees, MidWrite
<1> QED
  BY <1>1, <1>2, <1>3, PTL DEF Spec


\* The invariant itself, for whoever relies on more than the quiet states.
THEOREM OwnPinsInvariant == Spec => []OwnPinsInv
<1>1. Init => Typed /\ OwnPinsInv
  BY OwnPinsInit
<1>2. Typed /\ OwnPinsInv /\ [Next]_vars => Typed' /\ OwnPinsInv'
  BY OwnPinsStep, TypedStep
<1> QED
  BY <1>1, <1>2, PTL DEF Spec

----------------------------------------------------------------------------
\* ReaderIsAlone

\* Whoever is between lock and unlock owns the mutex.
MutexInv == \A t \in Threads : pc[t] \in {"put", "read_put", "gets"} <=> mutex = t

AloneInv == MutexInv /\ ReaderIsAlone

\* No step of another thread or of the driver can put anything behind the
\* request of a reader: one case per action.
LEMMA AloneStep ==
    ASSUME Typed, AloneInv, [Next]_vars
    PROVE  AloneInv'
<1> USE DEF Goto, Typed, TypeOK, AloneInv, MutexInv, ReaderIsAlone
<1>1. ASSUME NEW t \in Threads, NEW w \in WritesOf[t], BeginWrite(t, w[1], w[2])
      PROVE  AloneInv'
  BY <1>1, ConstantsAssumption DEF BeginWrite, ER
<1>2. ASSUME NEW t \in Threads, BeginRead(t) PROVE AloneInv'
  BY <1>2, ConstantsAssumption DEF BeginRead, ER
<1>3. ASSUME NEW t \in Threads, SetRegister(t) PROVE AloneInv'
  BY <1>3, ConstantsAssumption DEF SetRegister, ER
<1>4. ASSUME NEW t \in Threads, FormatCommand(t) PROVE AloneInv'
  BY <1>4, ConstantsAssumption DEF FormatCommand, ER
<1>5. ASSUME NEW t \in Threads, Lock(t) PROVE AloneInv'
  BY <1>5, ConstantsAssumption DEF Lock, ER
<1>6. ASSUME NEW t \in Threads, PutWrite(t) PROVE AloneInv'
  <2>1. \A u \in Threads : pc'[u] # "gets"
    BY <1>6 DEF PutWrite
  <2>2. MutexInv'
    BY <1>6, ConstantsAssumption DEF PutWrite
  <2> QED
    BY <2>1, <2>2
<1>7. ASSUME NEW t \in Threads, PutRead(t) PROVE AloneInv'
  <2>1. \A u \in Threads : u # t => pc'[u] # "gets"
    BY <1>7 DEF PutRead
  <2>2. MutexInv'
    BY <1>7, ConstantsAssumption DEF PutRead
  <2>3. ER(t) \in Command
    BY ZerosAreBytes DEF ER, Command
  <2>4. pc'[t] = "gets" => mutex' = t /\ pipe' = Append(pipe, ER(t))
    BY <1>7 DEF PutRead
  <2>5. Append(pipe, ER(t))[Len(Append(pipe, ER(t)))] = ER(t)
    BY <2>3
  <2> QED
    BY <2>1, <2>2, <2>4, <2>5 DEF ER
<1>8. ASSUME NEW t \in Threads, GetsEof(t) PROVE AloneInv'
  BY <1>8, ConstantsAssumption DEF GetsEof, ER
<1>9. CASE ServerExec
  <2>1. pipe' = Tail(pipe) /\ pipe # << >> /\ UNCHANGED <<pc, mutex>>
    BY <1>9 DEF ServerExec
  <2>2. pipe' # << >> => pipe'[Len(pipe')] = pipe[Len(pipe)]
    BY <2>1
  <2> QED
    BY <2>1, <2>2 DEF ER
<1>10. CASE ServerDies
  BY <1>10 DEF ServerDies, ER
<1>11. CASE UNCHANGED vars
  BY <1>11 DEF vars, ER
<1> QED
  BY <1>1, <1>2, <1>3, <1>4, <1>5, <1>6, <1>7, <1>8, <1>9, <1>10, <1>11
     DEF Next, ThreadStep

\* A reply could never be taken for the answer to another request: a reader
\* that waits in gets has the mutex, and its request is the last one in the
\* pipe (direct_io.rb:17-20).
THEOREM ReadersAreAlone == Spec => []ReaderIsAlone
<1>1. Init => Typed /\ AloneInv
  BY TypedInit, ConstantsAssumption DEF Init, AloneInv, MutexInv, ReaderIsAlone
<1>2. Typed /\ AloneInv /\ [Next]_vars => Typed' /\ AloneInv'
  BY AloneStep, TypedStep
<1>3. AloneInv => ReaderIsAlone
  BY DEF AloneInv
<1> QED
  BY <1>1, <1>2, <1>3, PTL DEF Spec

----------------------------------------------------------------------------
\* One writer: HardwareFollowsRegister and the refinement of IoPort

\* A byte that follows another one by one call of io_write.
StepsTo(a, b) == \E pin \in Pins, value \in Bit : b = [a EXCEPT ![pin] = value]

\* Before(q, base, i, b): b is what the expander shows before the i-th command
\* of q is executed, if it shows base now and no transfer fails.
Before(q, base, i, b) ==
    \/ /\ \A k \in 1 .. i - 1 : q[k].op # "EW"
       /\ b = base
    \/ \E j \in 1 .. i - 1 :
          /\ q[j].op = "EW"
          /\ \A k \in j + 1 .. i - 1 : q[k].op # "EW"
          /\ b = q[j].byte

\* The byte the first write changes a pin of is not the one the expander shows.
Base    == IF lastSender = NoThread THEN Zeros ELSE hw
Current == IF outRegister = NoByte THEN Zeros ELSE outRegister

After(b) == Before(pipe, Base, Len(pipe) + 1, b)

\* The commands in the pipe are one call apart, and so is the one on its way.
ChainInv(w) ==
    ~lost =>
        /\ \A i \in 1 .. Len(pipe) : pipe[i].op = "EW" =>
              \A b : Before(pipe, Base, i, b) => StepsTo(b, pipe[i].byte)
        /\ \A b : After(b) =>
              /\ ~MidWrite(w) => b = Current
              /\ MidWrite(w) => StepsTo(b, outRegister)
        /\ pc[w] \in {"lock", "put"} => cmd[w] = outRegister
        /\ (/\ lastSender = NoThread /\ outRegister # NoByte /\ ~MidWrite(w)
            => \E i \in 1 .. Len(pipe) : pipe[i].op = "EW")

WritesAlone(w) == \A t \in Threads \ {w} : WritesOf[t] = {}

\* The others never write; without failures of the bus only a dead driver
\* loses commands.
AloneAtWriting(w) ==
    /\ \A t \in Threads \ {w} : pc[t] # "set" /\ ~MidWrite(t)
    /\ ~BusMayFail => (lost => ~serverUp)

WriterInv(w) == ChainInv(w) /\ AloneAtWriting(w)

\* A command is appended: what comes before the older ones is the same.
LEMMA BeforeAppend ==
    ASSUME NEW q \in Seq(Command), NEW c \in Command, NEW base
    PROVE  /\ \A i \in 1 .. Len(q) + 1 : \A b :
                Before(Append(q, c), base, i, b) <=> Before(q, base, i, b)
           /\ \A b : Before(Append(q, c), base, Len(q) + 2, b) <=>
                IF c.op = "EW" THEN b = c.byte ELSE Before(q, base, Len(q) + 1, b)
<1> DEFINE a == Append(q, c)
<1>1. /\ Len(a) = Len(q) + 1 /\ a[Len(q) + 1] = c
      /\ \A k \in 1 .. Len(q) : a[k] = q[k]
      /\ Len(q) \in Nat
  OBVIOUS
<1> HIDE DEF a
<1>2. ASSUME NEW i \in 1 .. Len(q) + 1, NEW b
      PROVE  Before(a, base, i, b) <=> Before(q, base, i, b)
  <2>1. \A k \in 1 .. i - 1 : a[k] = q[k]
    BY <1>1
  <2>2. \A j \in 1 .. i - 1 : \A k : k \in j + 1 .. i - 1 => k \in 1 .. i - 1
    BY <1>1
  <2> QED
    BY <2>1, <2>2 DEF Before
<1>3. ASSUME NEW b
      PROVE  Before(a, base, Len(q) + 2, b) <=>
               IF c.op = "EW" THEN b = c.byte ELSE Before(q, base, Len(q) + 1, b)
  <2> DEFINE n == Len(q)
  <2>1. /\ 1 .. (n + 2) - 1 = (1 .. n) \cup {n + 1}
        /\ 1 .. (n + 1) - 1 = 1 .. n
        /\ \A j \in 1 .. n : /\ j + 1 .. (n + 2) - 1 = (j + 1 .. n) \cup {n + 1}
                             /\ j + 1 .. (n + 1) - 1 = j + 1 .. n
                             /\ \A k \in j + 1 .. n : k \in 1 .. n
        /\ (n + 1) + 1 .. (n + 2) - 1 = {}
        /\ n + 1 \in 1 .. (n + 2) - 1
    BY <1>1
  <2>2. a[n + 1] = c /\ \A k \in 1 .. n : a[k] = q[k]
    BY <1>1
  <2> HIDE DEF n
  <2>3. CASE c.op = "EW"
    <3>1. Before(a, base, n + 2, b) => b = c.byte
      BY <2>1, <2>2, <2>3 DEF Before
    <3>2. b = c.byte => Before(a, base, n + 2, b)
      BY <2>1, <2>2, <2>3 DEF Before
    <3> QED
      BY <2>3, <3>1, <3>2 DEF n
  <2>4. CASE c.op # "EW"
    <3>1. Before(a, base, n + 2, b) <=> Before(q, base, n + 1, b)
      BY <2>1, <2>2, <2>4 DEF Before
    <3> QED
      BY <2>4, <3>1 DEF n
  <2> QED
    BY <2>3, <2>4
<1> QED
  BY <1>2, <1>3 DEF a

\* The oldest command is executed: the expander shows its byte from then on.
LEMMA BeforeTail ==
    ASSUME NEW q \in Seq(Command), q # << >>, NEW base,
           NEW i \in 1 .. Len(q), NEW b
    PROVE  Before(Tail(q), IF q[1].op = "EW" THEN q[1].byte ELSE base, i, b)
             <=> Before(q, base, i + 1, b)
<1> DEFINE r == Tail(q)
           d == IF q[1].op = "EW" THEN q[1].byte ELSE base
<1>1. Len(q) \in Nat /\ Len(r) = Len(q) - 1 /\ \A k \in 1 .. Len(q) - 1 : r[k] = q[k + 1]
  OBVIOUS
<1> HIDE DEF r
<1>2. \A k \in 1 .. i - 1 : r[k] = q[k + 1] /\ k + 1 \in 2 .. i
  BY <1>1
<1>3. \A k \in 2 .. i : k - 1 \in 1 .. i - 1 /\ r[k - 1] = q[k] /\ (k - 1) + 1 = k
  BY <1>1
<1>4. 1 .. (i + 1) - 1 = {1} \cup 2 .. i /\ 1 \notin 2 .. i
  BY <1>1
<1>5. (\A k \in 1 .. i - 1 : r[k].op # "EW") <=> (\A k \in 2 .. i : q[k].op # "EW")
  BY <1>2, <1>3
<1>6. \A j \in 1 .. i - 1 : (\A k \in j + 1 .. i - 1 : r[k].op # "EW")
                              <=> (\A k \in (j + 1) + 1 .. (i + 1) - 1 : q[k].op # "EW")
  <2> SUFFICES ASSUME NEW j \in 1 .. i - 1
               PROVE  (\A k \in j + 1 .. i - 1 : r[k].op # "EW")
                        <=> (\A k \in (j + 1) + 1 .. (i + 1) - 1 : q[k].op # "EW")
    OBVIOUS
  <2>1. \A k \in j + 1 .. i - 1 : k + 1 \in (j + 1) + 1 .. (i + 1) - 1 /\ r[k] = q[k + 1]
    BY <1>1
  <2>2. \A k \in (j + 1) + 1 .. (i + 1) - 1 : k - 1 \in j + 1 .. i - 1 /\ r[k - 1] = q[k]
    BY <1>1
  <2> QED
    BY <2>1, <2>2
<1>7. (\E j \in 1 .. i - 1 : /\ r[j].op = "EW"
                             /\ \A k \in j + 1 .. i - 1 : r[k].op # "EW"
                             /\ b = r[j].byte)
      <=> (\E j \in 2 .. i : /\ q[j].op = "EW"
                             /\ \A k \in j + 1 .. (i + 1) - 1 : q[k].op # "EW"
                             /\ b = q[j].byte)
  <2>1. ASSUME NEW j \in 1 .. i - 1, r[j].op = "EW",
               \A k \in j + 1 .. i - 1 : r[k].op # "EW", b = r[j].byte
        PROVE  /\ j + 1 \in 2 .. i
               /\ q[j + 1].op = "EW"
               /\ \A k \in (j + 1) + 1 .. (i + 1) - 1 : q[k].op # "EW"
               /\ b = q[j + 1].byte
    BY <2>1, <1>1, <1>2, <1>6
  <2>2. ASSUME NEW j \in 2 .. i, q[j].op = "EW",
               \A k \in j + 1 .. (i + 1) - 1 : q[k].op # "EW", b = q[j].byte
        PROVE  /\ j - 1 \in 1 .. i - 1
               /\ r[j - 1].op = "EW"
               /\ \A k \in (j - 1) + 1 .. i - 1 : r[k].op # "EW"
               /\ b = r[j - 1].byte
    <3>1. j - 1 \in 1 .. i - 1 /\ r[j - 1] = q[j] /\ (j - 1) + 1 = j
      BY <1>3
    <3> QED
      BY <2>2, <3>1, <1>6
  <2> QED
    BY <2>1, <2>2
<1>8. 1 + 1 .. (i + 1) - 1 = 2 .. i
  BY <1>1
<1> QED
  BY <1>4, <1>5, <1>7, <1>8 DEF Before, r

\* Nothing is on its way and the register is nil.
LEMMA WriterInit ==
    ASSUME Init, NEW w \in Threads
    PROVE  WriterInv(w)
<1>1. /\ pipe = << >> /\ Base = Zeros /\ Current = Zeros /\ outRegister = NoByte
      /\ pc[w] = "idle" /\ lost = FALSE /\ \A t \in Threads : pc[t] = "idle"
  BY DEF Init, Base, Current
<1>2. \A b : After(b) => b = Zeros
  BY <1>1 DEF After, Before
<1> QED
  BY <1>1, <1>2 DEF WriterInv, ChainInv, AloneAtWriting, MidWrite

\* A step that touches neither register, pipe nor expander, and neither
\* moves the writer into nor out of a write.
LEMMA WriterStays ==
    ASSUME NEW w \in Threads, WriterInv(w), AloneAtWriting(w)',
           UNCHANGED <<outRegister, pipe, hw, lastSender, lost, cmd>>,
           MidWrite(w)' = MidWrite(w),
           pc'[w] \in {"lock", "put"} => pc[w] \in {"lock", "put"}
    PROVE  WriterInv(w)'
<1>1. Base' = Base /\ Current' = Current /\ \A b : After(b)' <=> After(b)
  BY DEF Base, Current, After
<1> QED
  BY <1>1 DEF WriterInv, ChainInv

\* Every step keeps the commands one call apart, one case per action.
LEMMA WriterStep ==
    ASSUME Typed, NEW w \in Threads, WritesAlone(w), WriterInv(w), [Next]_vars
    PROVE  WriterInv(w)'
<1> USE DEF Goto
<1>0. /\ pc \in [Threads -> {"idle", "set", "format", "lock", "put",
                             "read_lock", "read_put", "gets"}]
      /\ cmd \in [Threads -> Byte]
      /\ pipe \in Seq(Command)
      /\ serverUp \in BOOLEAN
  BY DEF Typed, TypeOK
<1>1. ASSUME NEW t \in Threads, NEW v \in WritesOf[t], BeginWrite(t, v[1], v[2])
      PROVE  WriterInv(w)'
  <2>1. t = w
    BY DEF WritesAlone
  <2>2. AloneAtWriting(w)'
    BY <1>0, <1>1, <2>1 DEF BeginWrite, WriterInv, AloneAtWriting, MidWrite
  <2> QED
    BY <1>0, <1>1, <2>1, <2>2, WriterStays DEF BeginWrite, MidWrite
<1>2. ASSUME NEW t \in Threads, BeginRead(t)
      PROVE  WriterInv(w)'
  <2>1. AloneAtWriting(w)'
    BY <1>0, <1>2 DEF BeginRead, WriterInv, AloneAtWriting, MidWrite
  <2> QED
    BY <1>0, <1>2, <2>1, WriterStays DEF BeginRead, MidWrite
<1>3. ASSUME NEW t \in Threads, SetRegister(t)
      PROVE  WriterInv(w)'
  <2>1. t = w
    BY <1>3 DEF WriterInv, AloneAtWriting, SetRegister
  <2>2. AloneAtWriting(w)'
    BY <1>0, <1>3, <2>1 DEF SetRegister, WriterInv, AloneAtWriting, MidWrite
  <2>3. /\ ~MidWrite(w) /\ MidWrite(w)' /\ pc'[w] = "format"
        /\ UNCHANGED <<pipe, hw, lastSender, lost>>
        /\ outRegister' = [Current EXCEPT ![req[w][1]] = req[w][2]]
    BY <1>0, <1>3, <2>1 DEF SetRegister, MidWrite, Current
  <2>4. StepsTo(Current, outRegister')
    <3>1. req[w] \in WritesOf[w]
      BY <1>3, <2>1, RegisterAfterSet
    <3>2. req[w][1] \in Pins /\ req[w][2] \in Bit
      BY <3>1, WritesArePairs
    <3> QED
      BY <2>3, <3>2 DEF StepsTo
  <2>5. Base' = Base /\ \A b : After(b)' <=> After(b)
    BY <2>3 DEF Base, After
  <2> QED
    BY <2>2, <2>3, <2>4, <2>5 DEF WriterInv, ChainInv
<1>4. ASSUME NEW t \in Threads, FormatCommand(t)
      PROVE  WriterInv(w)'
  <2>1. t = w
    BY <1>4 DEF WriterInv, AloneAtWriting, FormatCommand, MidWrite
  <2>2. AloneAtWriting(w)'
    BY <1>0, <1>4, <2>1 DEF FormatCommand, WriterInv, AloneAtWriting, MidWrite
  <2>3. /\ MidWrite(w) /\ MidWrite(w)' /\ cmd'[w] = outRegister
        /\ UNCHANGED <<outRegister, pipe, hw, lastSender, lost>>
    BY <1>0, <1>4, <2>1 DEF FormatCommand, MidWrite
  <2>4. Base' = Base /\ Current' = Current /\ \A b : After(b)' <=> After(b)
    BY <2>3 DEF Base, Current, After
  <2> QED
    BY <2>2, <2>3, <2>4 DEF WriterInv, ChainInv
<1>5. ASSUME NEW t \in Threads, Lock(t)
      PROVE  WriterInv(w)'
  <2>1. AloneAtWriting(w)'
    BY <1>0, <1>5 DEF Lock, WriterInv, AloneAtWriting, MidWrite
  <2> QED
    BY <1>0, <1>5, <2>1, WriterStays DEF Lock, MidWrite
<1>6. ASSUME NEW t \in Threads, PutWrite(t)
      PROVE  WriterInv(w)'
  <2>1. t = w
    BY <1>6 DEF WriterInv, AloneAtWriting, PutWrite, MidWrite
  <2>2. AloneAtWriting(w)'
    BY <1>0, <1>6, <2>1 DEF PutWrite, WriterInv, AloneAtWriting, MidWrite
  <2>3. CASE lost'
    BY <2>2, <2>3 DEF WriterInv, ChainInv
  <2>4. CASE ~lost'
    <3> DEFINE c == EW(w, cmd[w])
    <3>1. /\ ~lost /\ pipe' = Append(pipe, c)
          /\ UNCHANGED <<outRegister, hw, lastSender>>
          /\ pc[w] = "put" /\ MidWrite(w) /\ ~MidWrite(w)' /\ pc'[w] = "idle"
      BY <1>0, <1>6, <2>1, <2>4 DEF PutWrite, MidWrite
    <3>2. cmd[w] = outRegister /\ \A b : After(b) => StepsTo(b, outRegister)
      BY <3>1 DEF WriterInv, ChainInv
    <3>3. c \in Command /\ c.op = "EW" /\ c.byte = outRegister
      BY <1>0, <3>2 DEF EW, Command
    <3>4. Current' = outRegister
      BY <3>1, <3>2, <1>0, ConstantsAssumption DEF Current
    <3>5. Base' = Base
      BY <3>1 DEF Base
    <3>6. /\ Len(pipe') = Len(pipe) + 1 /\ pipe'[Len(pipe) + 1] = c /\ Len(pipe) \in Nat
          /\ \A i \in 1 .. Len(pipe) : pipe'[i] = pipe[i]
      BY <1>0, <3>1, <3>3
    <3> HIDE DEF c
    <3>7. ASSUME NEW i \in 1 .. Len(pipe'), pipe'[i].op = "EW", NEW b, Before(pipe', Base', i, b)
          PROVE  StepsTo(b, pipe'[i].byte)
      <4>1. i \in 1 .. Len(pipe) + 1 /\ Before(pipe, Base, i, b)
        BY <1>0, <3>1, <3>3, <3>5, <3>6, <3>7, BeforeAppend
      <4>2. CASE i = Len(pipe) + 1
        BY <3>2, <3>3, <3>6, <4>1, <4>2 DEF After
      <4>3. CASE i \in 1 .. Len(pipe)
        BY <3>1, <3>6, <3>7, <4>1, <4>3 DEF WriterInv, ChainInv
      <4> QED
        BY <3>6, <4>1, <4>2, <4>3
    <3>8. \A b : After(b)' => b = Current'
      <4>1. Len(pipe') + 1 = Len(pipe) + 2
        BY <3>6
      <4> QED
        BY <1>0, <3>1, <3>3, <3>4, <3>5, <4>1, BeforeAppend DEF After
    <3>9. Len(pipe) + 1 \in 1 .. Len(pipe')
      BY <3>6
    <3> QED
      BY <2>2, <3>1, <3>3, <3>6, <3>7, <3>8, <3>9 DEF WriterInv, ChainInv
  <2> QED
    BY <2>3, <2>4
<1>7. ASSUME NEW t \in Threads, PutRead(t)
      PROVE  WriterInv(w)'
  <2>1. AloneAtWriting(w)'
    BY <1>0, <1>7 DEF PutRead, WriterInv, AloneAtWriting, MidWrite
  <2>2. /\ UNCHANGED <<outRegister, hw, lastSender, lost, cmd>>
        /\ MidWrite(w)' = MidWrite(w)
        /\ pc'[w] \in {"lock", "put"} => pc[w] \in {"lock", "put"}
    BY <1>0, <1>7 DEF PutRead, MidWrite
  <2>3. CASE pipe' = pipe
    BY <2>1, <2>2, <2>3, WriterStays
  <2>4. CASE pipe' = Append(pipe, ER(t))
    <3>1. ER(t) \in Command /\ ER(t).op = "ER"
      BY ZerosAreBytes DEF ER, Command
    <3>2. /\ Len(pipe') = Len(pipe) + 1 /\ pipe'[Len(pipe) + 1] = ER(t) /\ Len(pipe) \in Nat
          /\ \A i \in 1 .. Len(pipe) : pipe'[i] = pipe[i]
      BY <1>0, <2>4, <3>1
    <3>3. Base' = Base /\ Current' = Current
      BY <2>2 DEF Base, Current
    <3>4. \A b : After(b)' <=> After(b)
      <4>1. Len(pipe') + 1 = Len(pipe) + 2
        BY <3>2
      <4> QED
        BY <1>0, <2>4, <3>1, <3>3, <4>1, BeforeAppend DEF After
    <3>5. ASSUME NEW i \in 1 .. Len(pipe'), pipe'[i].op = "EW", NEW b, Before(pipe', Base', i, b)
          PROVE  i \in 1 .. Len(pipe) /\ Before(pipe, Base, i, b) /\ pipe'[i] = pipe[i]
      <4>1. i \in 1 .. Len(pipe)
        BY <3>1, <3>2, <3>5
      <4> QED
        BY <1>0, <2>4, <3>1, <3>2, <3>3, <3>5, <4>1, BeforeAppend
    <3>6. (\E i \in 1 .. Len(pipe) : pipe[i].op = "EW") => \E i \in 1 .. Len(pipe') : pipe'[i].op = "EW"
      BY <3>2
    <3> QED
      BY <2>1, <2>2, <3>3, <3>4, <3>5, <3>6 DEF WriterInv, ChainInv
  <2> QED
    BY <1>7, <2>3, <2>4 DEF PutRead
<1>8. ASSUME NEW t \in Threads, GetsEof(t)
      PROVE  WriterInv(w)'
  <2>1. AloneAtWriting(w)'
    BY <1>0, <1>8 DEF GetsEof, WriterInv, AloneAtWriting, MidWrite
  <2> QED
    BY <1>0, <1>8, <2>1, WriterStays DEF GetsEof, MidWrite
<1>9. CASE ServerExec
  <2>1. /\ serverUp /\ pipe # << >> /\ pipe' = Tail(pipe)
        /\ UNCHANGED <<outRegister, pc, cmd, serverUp>> /\ Head(pipe) = pipe[1]
        /\ Len(pipe) \in Nat \ {0} /\ Len(pipe') = Len(pipe) - 1
        /\ \A i \in 1 .. Len(pipe') : pipe'[i] = pipe[i + 1]
    BY <1>0, <1>9 DEF ServerExec
  <2>2. AloneAtWriting(w)'
    BY <1>9, <2>1 DEF ServerExec, WriterInv, AloneAtWriting, MidWrite
  <2>3. CASE lost'
    BY <2>2, <2>3 DEF WriterInv, ChainInv
  <2>4. CASE ~lost'
    <3>1. pipe[1] \in Command
      BY <1>0, <2>1
    <3>2. /\ ~lost
          /\ lastSender' = NoThread => pipe[1].op # "EW" /\ lastSender' = lastSender
      BY <1>9, <2>1, <2>4, <3>1, ConstantsAssumption DEF ServerExec, Command
    <3>3. Base' = IF pipe[1].op = "EW" THEN pipe[1].byte ELSE Base
      BY <1>9, <2>1, <2>4, <3>1, ConstantsAssumption DEF ServerExec, Command, Base
    <3>4. \A i \in 1 .. Len(pipe) : \A b :
            Before(pipe', Base', i, b) <=> Before(pipe, Base, i + 1, b)
      BY <1>0, <2>1, <3>3, BeforeTail
    <3>5. Current' = Current /\ MidWrite(w)' = MidWrite(w)
      BY <2>1 DEF Current, MidWrite
    <3>6. \A b : After(b)' <=> After(b)
      <4>1. Len(pipe') + 1 = Len(pipe) /\ Len(pipe) \in 1 .. Len(pipe)
        BY <2>1
      <4> QED
        BY <3>4, <4>1 DEF After
    <3>7. \A i \in 1 .. Len(pipe') : i \in 1 .. Len(pipe) /\ i + 1 \in 1 .. Len(pipe)
      BY <2>1
    <3>8. \A i \in 1 .. Len(pipe') : pipe'[i].op = "EW" =>
              \A b : Before(pipe', Base', i, b) => StepsTo(b, pipe'[i].byte)
      BY <2>1, <3>2, <3>4, <3>7 DEF WriterInv, ChainInv
    <3>9. lastSender' = NoThread /\ outRegister' # NoByte /\ ~MidWrite(w)'
            => \E i \in 1 .. Len(pipe') : pipe'[i].op = "EW"
      <4> SUFFICES ASSUME lastSender' = NoThread, outRegister' # NoByte, ~MidWrite(w)'
                   PROVE  \E i \in 1 .. Len(pipe') : pipe'[i].op = "EW"
        OBVIOUS
      <4>1. pipe[1].op # "EW" /\ lastSender = NoThread /\ ~lost
        BY <3>2
      <4>2. PICK j \in 1 .. Len(pipe) : pipe[j].op = "EW"
        BY <2>1, <3>5, <4>1 DEF WriterInv, ChainInv
      <4>3. j - 1 \in 1 .. Len(pipe') /\ (j - 1) + 1 = j
        BY <2>1, <4>1, <4>2
      <4> QED
        BY <2>1, <4>2, <4>3
    <3> QED
      BY <2>1, <2>2, <3>2, <3>5, <3>6, <3>8, <3>9 DEF WriterInv, ChainInv
  <2> QED
    BY <2>3, <2>4
<1>10. CASE ServerDies
  <2>1. AloneAtWriting(w)'
    BY <1>10 DEF ServerDies, WriterInv, AloneAtWriting, MidWrite
  <2>2. CASE lost'
    BY <2>1, <2>2 DEF WriterInv, ChainInv
  <2>3. CASE ~lost'
    <3>1. /\ ~lost /\ pipe' = << >> /\ UNCHANGED <<outRegister, pc, cmd, hw, lastSender>>
          /\ \A i \in 1 .. Len(pipe) : pipe[i].op # "EW"
      BY <1>10, <2>3 DEF ServerDies
    <3>2. Base' = Base /\ Current' = Current /\ MidWrite(w)' = MidWrite(w)
      BY <3>1 DEF Base, Current, MidWrite
    <3>3. \A b : After(b)' => After(b)
      <4>1. Len(pipe') + 1 = 1 /\ (Len(pipe) + 1) - 1 = Len(pipe) /\ 1 .. 1 - 1 = {}
        BY <1>0, <3>1
      <4> QED
        BY <3>1, <3>2, <4>1 DEF After, Before
    <3> QED
      BY <2>1, <3>1, <3>2, <3>3 DEF WriterInv, ChainInv
  <2> QED
    BY <2>2, <2>3
<1>11. CASE UNCHANGED vars
  <2>1. AloneAtWriting(w)' /\ MidWrite(w)' = MidWrite(w)
    BY <1>11 DEF vars, WriterInv, AloneAtWriting, MidWrite
  <2> QED
    BY <1>11, <2>1, WriterStays DEF vars
<1> QED
  BY <1>1, <1>2, <1>3, <1>4, <1>5, <1>6, <1>7, <1>8, <1>9, <1>10, <1>11
     DEF Next, ThreadStep

\* The invariant in every behaviour with one writer.
LEMMA WriterInvariant ==
    ASSUME NEW w \in Threads, WritesAlone(w)
    PROVE  Spec => [](Typed /\ WriterInv(w))
<1>1. Init => Typed /\ WriterInv(w)
  BY TypedInit, WriterInit
<1>2. Typed /\ WriterInv(w) /\ [Next]_vars => Typed' /\ WriterInv(w)'
  BY TypedStep, WriterStep
<1> QED
  BY <1>1, <1>2, PTL DEF Spec

\* When all is quiet and nothing was lost the expander shows the register
\* (abio_card_client.rb:92-102), if one thread writes: for any pins, pipe,
\* readers and failures.
THEOREM RegisterIsFollowed ==
    ASSUME NEW w \in Threads, WritesAlone(w)
    PROVE  Spec => []HardwareFollowsRegister
<1>1. Typed /\ WriterInv(w) => HardwareFollowsRegister
  <2> SUFFICES ASSUME Typed, WriterInv(w), Quiescent, ~lost, outRegister # NoByte
               PROVE  hw = outRegister
    BY DEF HardwareFollowsRegister
  <2>1. pipe = << >> /\ ~MidWrite(w)
    BY DEF Quiescent, MidWrite
  <2>2. After(Base)
    BY <2>1 DEF After, Before
  <2>3. Base = outRegister
    BY <2>1, <2>2 DEF WriterInv, ChainInv, Current
  <2>4. lastSender # NoThread
    BY <2>1 DEF WriterInv, ChainInv
  <2> QED
    BY <2>3, <2>4 DEF Base
<1> QED
  BY <1>1, WriterInvariant, PTL

\* Without failures of the bus the client implements IoPort, if one thread
\* writes: the outputs change by one pin per call, in the order of the calls.
THEOREM PortIsImplemented ==
    ASSUME NEW w \in Threads, WritesAlone(w), ~BusMayFail
    PROVE  Spec => ImplementsIoPort
<1>1. Init => Port!Init
  BY DEF Init, Port!Init
<1>2. Typed /\ WriterInv(w) /\ [Next]_vars => [Port!Next]_<<hw, lastSender # NoThread>>
  <2> SUFFICES ASSUME Typed, WriterInv(w), [Next]_vars, UNCHANGED <<hw, lastSender>> => FALSE
               PROVE  Port!Next
    OBVIOUS
  <2>1. ServerExec
    BY DEF Next, ThreadStep, BeginWrite, BeginRead, SetRegister, FormatCommand, Lock,
           PutWrite, PutRead, GetsEof, ServerDies, vars
  <2>2. /\ pipe # << >> /\ pipe[1].op = "EW" /\ hw' = pipe[1].byte /\ ~lost
        /\ lastSender' = pipe[1].by /\ pipe[1] \in Command
    BY <2>1 DEF ServerExec, WriterInv, AloneAtWriting, Typed, TypeOK
  <2>3. lastSender' # NoThread
    BY <2>2, ConstantsAssumption DEF Command
  <2>4. 1 \in 1 .. Len(pipe) /\ Before(pipe, Base, 1, Base)
    BY <2>2 DEF Before, Typed, TypeOK
  <2>5. StepsTo(Base, hw')
    BY <2>2, <2>4 DEF WriterInv, ChainInv
  <2>6. PICK pin \in Pins, value \in {0, 1} : hw' = [Base EXCEPT ![pin] = value]
    BY <2>5 DEF StepsTo, Bit
  <2> QED
    BY <2>3, <2>6 DEF Base, Port!Next, Port!Attach, Port!WritePin
<1> QED
  BY <1>1, <1>2, WriterInvariant, PTL DEF Spec, ImplementsIoPort, Port!Spec

=============================================================================
