--------------------------- MODULE AbioCardClient ---------------------------
(***************************************************************************)
(* The I/O-card client of the service, lib/nixonpi/client/abio_card_client  *)
(* and direct_io: the threads of the process share one output register and *)
(* one pipe pair to the driver process `abiocardserver -stdio'.            *)
(*                                                                         *)
(* Only the pipe is guarded by a mutex (direct_io.rb:17).  The register is *)
(* tested, changed and formatted before the mutex is taken                 *)
(* (abio_card_client.rb:96, 99, 100), so each of these is a step of its    *)
(* own here.  The driver process is a fourth actor that executes the       *)
(* commands of the pipe in order.                                          *)
(***************************************************************************)
EXTENDS Integers, Sequences

CONSTANTS
    Threads,        \* the threads that call the client
    Pins,           \* the pins of the I/O expander
    WritesOf,       \* the <<pin, value>> pairs each thread passes to io_write
    Readers,        \* the threads that also call io_read
    PipeCap,        \* commands the stdin pipe of the driver can hold
    BusMayFail,     \* may an I2C transfer of the driver fail?
    ServerMayDie,   \* may the driver process die?
    NoThread,       \* nobody: the mutex is free, the expander was never written
    NoByte          \* nil: the register before the first io_write

\* A byte as a function of the pins: bit_to_hex (conversion_helper.rb) and the
\* parser of the driver are inverse on bytes.
Bit  == {0, 1}
Byte == [Pins -> Bit]

ASSUME ConstantsAssumption ==
    /\ WritesOf \in [Threads -> SUBSET (Pins \X Bit)]
    /\ Readers \subseteq Threads
    /\ PipeCap \in Nat \ {0}
    /\ BusMayFail \in BOOLEAN /\ ServerMayDie \in BOOLEAN
    /\ NoThread \notin Threads
    /\ NoByte \notin Byte

VARIABLES
    outRegister,    \* @out_register
    pc,             \* where each thread stands in io_write, io_read or cmd
    req,            \* the arguments of its io_write
    cmd,            \* the byte it formatted into "EWxx"
    mutex,          \* the owner of DirectIO's @mutex
    pipe,           \* commands written to the driver, not yet executed
    serverUp,       \* is the driver process alive?
    hw,             \* the outputs of the expander
    lastSender,     \* whose byte hw is (history)
    lost,           \* was an EW command dropped? (history)
    aborted         \* an exception left a thread: the process ends

vars == <<outRegister, pc, req, cmd, mutex, pipe, serverUp, hw, lastSender,
          lost, aborted>>

Zeros == [p \in Pins |-> 0]

\* Own(t) is the set of pins t writes: 0..2 for the thread of the tubes, 3 for
\* the one that switches the power supply.
Own(t) == {w[1] : w \in WritesOf[t]}

\* No two threads write the same pin: the pins of the tubes and of the power
\* supply are disjoint in the settings.
ASSUME PinsAreOwned ==
    \A t, u \in Threads : t # u => Own(t) \cap Own(u) = {}

EW(t, b) == [op |-> "EW", by |-> t, byte |-> b]
ER(t)    == [op |-> "ER", by |-> t, byte |-> Zeros]

Command == [op : {"EW", "ER"}, by : Threads, byte : Byte]

----------------------------------------------------------------------------

NoRequest == << >>

\* hw is whatever the expander held: it keeps its outputs when only the
\* service restarts.
Init ==
    /\ outRegister = NoByte
    /\ pc = [t \in Threads |-> "idle"]
    /\ req = [t \in Threads |-> NoRequest]
    /\ cmd = [t \in Threads |-> Zeros]
    /\ mutex = NoThread
    /\ pipe = << >>
    /\ serverUp = TRUE
    /\ hw \in Byte
    /\ lastSender = NoThread
    /\ lost = FALSE
    /\ aborted = FALSE

Goto(t, label) == pc' = [pc EXCEPT ![t] = label]

\* io_write: the call is over at once when the register already has the value,
\* so only the calls that pass the test of line 96 are steps.
BeginWrite(t, pin, value) ==
    /\ pc[t] = "idle"
    /\ outRegister # NoByte => outRegister[pin] # value
    /\ req' = [req EXCEPT ![t] = <<pin, value>>]
    /\ Goto(t, "set")
    /\ UNCHANGED <<outRegister, cmd, mutex, pipe, serverUp, hw, lastSender, lost>>

\* Mutants of SetRegister: `=' instead of `||=' in line 97, and a register
\* that stays nil.
SetRegisterRestarts(t) ==
    /\ pc[t] = "set"
    /\ outRegister' = [Zeros EXCEPT ![req[t][1]] = req[t][2]]
    /\ req' = [req EXCEPT ![t] = NoRequest]
    /\ Goto(t, "format")
    /\ UNCHANGED <<cmd, mutex, pipe, serverUp, hw, lastSender, lost>>

SetRegisterStaysNil(t) ==
    /\ pc[t] = "set"
    /\ outRegister' = outRegister
    /\ req' = [req EXCEPT ![t] = NoRequest]
    /\ Goto(t, "format")
    /\ UNCHANGED <<cmd, mutex, pipe, serverUp, hw, lastSender, lost>>

\* Lines 97 and 99.
SetRegister(t) ==
    /\ pc[t] = "set"
    /\ outRegister' = [IF outRegister = NoByte THEN Zeros ELSE outRegister
                        EXCEPT ![req[t][1]] = req[t][2]]
    /\ req' = [req EXCEPT ![t] = NoRequest]
    /\ Goto(t, "format")
    /\ UNCHANGED <<cmd, mutex, pipe, serverUp, hw, lastSender, lost>>

\* "EW#{bit_to_hex(@out_register)}" is evaluated before connection.cmd runs.
FormatCommand(t) ==
    /\ pc[t] = "format"
    /\ cmd' = [cmd EXCEPT ![t] = outRegister]
    /\ Goto(t, "lock")
    /\ UNCHANGED <<outRegister, req, mutex, pipe, serverUp, hw, lastSender, lost>>

BeginRead(t) ==
    /\ pc[t] = "idle"
    /\ t \in Readers
    /\ Goto(t, "read_lock")
    /\ UNCHANGED <<outRegister, req, cmd, mutex, pipe, serverUp, hw, lastSender, lost>>

Lock(t) ==
    /\ pc[t] \in {"lock", "read_lock"}
    /\ mutex = NoThread
    /\ mutex' = t
    /\ Goto(t, IF pc[t] = "lock" THEN "put" ELSE "read_put")
    /\ UNCHANGED <<outRegister, req, cmd, pipe, serverUp, hw, lastSender, lost>>

\* Mutants of PutWrite: the mutex stays locked when puts raises, and a full
\* pipe drops the command instead of blocking.
PutWriteKeepsMutex(t) ==
    /\ pc[t] = "put"
    /\ serverUp => Len(pipe) < PipeCap
    /\ pipe' = IF serverUp THEN Append(pipe, EW(t, cmd[t])) ELSE pipe
    /\ mutex' = IF serverUp THEN NoThread ELSE mutex
    /\ lost' = (lost \/ ~serverUp)
    /\ cmd' = [cmd EXCEPT ![t] = Zeros]
    /\ Goto(t, "idle")
    /\ UNCHANGED <<outRegister, req, serverUp, hw, lastSender>>

PutWriteNonblocking(t) ==
    /\ pc[t] = "put"
    /\ pipe' = IF serverUp /\ Len(pipe) < PipeCap
                THEN Append(pipe, EW(t, cmd[t])) ELSE pipe
    /\ lost' = (lost \/ ~serverUp)
    /\ cmd' = [cmd EXCEPT ![t] = Zeros]
    /\ mutex' = NoThread
    /\ Goto(t, "idle")
    /\ UNCHANGED <<outRegister, req, serverUp, hw, lastSender>>

\* puts blocks while the pipe is full.  When the driver is gone it raises
\* EPIPE: handle answers with `connection || raise', connection returns the
\* cached, broken connection, and the call returns as if it had succeeded.
PutWrite(t) ==
    /\ pc[t] = "put"
    /\ \/ /\ serverUp
          /\ Len(pipe) < PipeCap
          /\ pipe' = Append(pipe, EW(t, cmd[t]))
          /\ lost' = lost
       \/ /\ ~serverUp
          /\ pipe' = pipe
          /\ lost' = TRUE
    /\ cmd' = [cmd EXCEPT ![t] = Zeros]
    /\ mutex' = NoThread
    /\ Goto(t, "idle")
    /\ UNCHANGED <<outRegister, req, serverUp, hw, lastSender>>

\* Mutant of PutRead: gets is called outside synchronize.
PutReadUnlocks(t) ==
    /\ pc[t] = "read_put"
    /\ serverUp => Len(pipe) < PipeCap
    /\ pipe' = IF serverUp THEN Append(pipe, ER(t)) ELSE pipe
    /\ mutex' = NoThread
    /\ Goto(t, IF serverUp THEN "gets" ELSE "idle")
    /\ UNCHANGED <<outRegister, req, cmd, serverUp, hw, lastSender, lost>>

\* With a block cmd keeps the mutex and waits in gets.
PutRead(t) ==
    /\ pc[t] = "read_put"
    /\ \/ /\ serverUp
          /\ Len(pipe) < PipeCap
          /\ pipe' = Append(pipe, ER(t))
          /\ mutex' = mutex
          /\ Goto(t, "gets")
       \/ /\ ~serverUp
          /\ pipe' = pipe
          /\ mutex' = NoThread
          /\ Goto(t, "idle")
    /\ UNCHANGED <<outRegister, req, cmd, serverUp, hw, lastSender, lost>>

\* The driver never flushes stdout, and one reply is far shorter than its
\* buffer: gets returns only at the end of file, with nil.  nil.strip! raises,
\* handle closes the connection (which raises EPIPE) and the exception ends
\* the thread and, by abort_on_exception, the process.
GetsEof(t) ==
    /\ pc[t] = "gets"
    /\ ~serverUp
    /\ mutex' = NoThread
    /\ Goto(t, "idle")
    /\ aborted' = TRUE
    /\ UNCHANGED <<outRegister, req, cmd, pipe, serverUp, hw, lastSender, lost>>

ThreadStep(t) ==
    /\ ~aborted
    /\ \/ /\ \/ \E w \in WritesOf[t] : BeginWrite(t, w[1], w[2])
             \/ BeginRead(t)
             \/ SetRegister(t)
             \/ FormatCommand(t)
             \/ Lock(t)
             \/ PutWrite(t)
             \/ PutRead(t)
          /\ UNCHANGED aborted
       \/ GetsEof(t)

----------------------------------------------------------------------------
\* The driver process

\* An EW is written to the expander, or silently dropped when the transfer
\* fails: process_rcv_cmd's result is ignored and nothing is answered.
ServerExec ==
    /\ serverUp
    /\ pipe # << >>
    /\ pipe' = Tail(pipe)
    /\ \/ /\ Head(pipe).op = "EW"
          /\ hw' = Head(pipe).byte
          /\ lastSender' = Head(pipe).by
          /\ lost' = lost
       \/ /\ Head(pipe).op = "EW"
          /\ BusMayFail
          /\ lost' = TRUE
          /\ UNCHANGED <<hw, lastSender>>
       \/ /\ Head(pipe).op = "ER"
          /\ UNCHANGED <<hw, lastSender, lost>>
    /\ UNCHANGED <<outRegister, pc, req, cmd, mutex, serverUp, aborted>>

ServerDies ==
    /\ ServerMayDie
    /\ serverUp
    /\ serverUp' = FALSE
    /\ pipe' = << >>
    /\ lost' = (lost \/ \E i \in 1 .. Len(pipe) : pipe[i].op = "EW")
    /\ UNCHANGED <<outRegister, pc, req, cmd, mutex, hw, lastSender, aborted>>

Next == (\E t \in Threads : ThreadStep(t)) \/ ServerExec \/ ServerDies

Spec == Init /\ [][Next]_vars

\* A thread inside a call keeps running, the queue of a Ruby mutex is first
\* come first served (so a waiting thread is not passed over for ever), and
\* the driver keeps reading its stdin.  Nobody is obliged to start a call.
InCall(t) ==
    /\ ~aborted
    /\ UNCHANGED aborted
    /\ SetRegister(t) \/ FormatCommand(t) \/ PutWrite(t) \/ PutRead(t)

Acquire(t) == ~aborted /\ UNCHANGED aborted /\ Lock(t)

Fairness ==
    /\ \A t \in Threads : WF_vars(InCall(t)) /\ SF_vars(Acquire(t))
    /\ WF_vars(ServerExec)

FairSpec == Spec /\ Fairness

----------------------------------------------------------------------------
\* Properties

TypeOK ==
    /\ outRegister \in Byte \cup {NoByte}
    /\ pc \in [Threads -> {"idle", "set", "format", "lock", "put",
                           "read_lock", "read_put", "gets"}]
    /\ req \in [Threads -> (Pins \X Bit) \cup {NoRequest}]
    /\ cmd \in [Threads -> Byte]
    /\ mutex \in Threads \cup {NoThread}
    /\ pipe \in Seq(Command)
    /\ serverUp \in BOOLEAN
    /\ hw \in Byte
    /\ lastSender \in Threads \cup {NoThread}
    /\ lost \in BOOLEAN
    /\ aborted \in BOOLEAN

Quiescent == pipe = << >> /\ \A t \in Threads : pc[t] = "idle"

\* When every call has returned and every command was executed, the expander
\* shows the output register.  One writing thread gets this from io_write
\* (abio_card_client.rb:92-102); two do not: the byte that was formatted first
\* may be sent last, and no later call repairs it, since the register already
\* has the value it would write.
HardwareFollowsRegister ==
    Quiescent /\ ~lost /\ outRegister # NoByte => hw = outRegister

\* What is left when several threads call io_write, each for pins of its own:
\* whoever sent last, its own pins are as it asked.  Only the pins of the
\* others may have been taken back by its stale byte (abio_card_client.rb:99-100).
OwnPinsSurvive ==
    Quiescent /\ ~lost /\ lastSender \in Threads =>
        \A p \in Own(lastSender) : hw[p] = outRegister[p]

\* The argument behind OwnPinsSurvive, as an inductive invariant.  Agrees(t, b):
\* byte b is up to date on the pins of t.  Once t has formatted its byte,
\* the byte stays up to date while it is waiting for the mutex, in the pipe and
\* on the expander, until t itself sets the register again.
Agrees(t, b) == outRegister # NoByte /\ \A p \in Own(t) : b[p] = outRegister[p]

SentBy(t, c) == c.op = "EW" /\ c.by = t

MidWrite(t) == pc[t] \in {"format", "lock", "put"}

RequestIsOwn == \A t \in Threads : pc[t] = "set" => req[t] \in WritesOf[t]

FormatFollowsSet == \A t \in Threads : pc[t] = "format" => outRegister # NoByte

\* A dead driver has an empty pipe, for good: nothing is queued for it any more.
DeadPipeIsEmpty == ~serverUp => pipe = << >>

WaitingAgrees == \A t \in Threads : pc[t] \in {"lock", "put"} => Agrees(t, cmd[t])

PipeAgrees ==
    \A t \in Threads, i \in 1 .. Len(pipe) :
        /\ ~MidWrite(t)
        /\ SentBy(t, pipe[i])
        /\ \A j \in i + 1 .. Len(pipe) : ~SentBy(t, pipe[j])
        => Agrees(t, pipe[i].byte)

ExpanderAgrees ==
    \A t \in Threads :
        /\ ~lost
        /\ ~MidWrite(t)
        /\ lastSender = t
        /\ \A i \in 1 .. Len(pipe) : ~SentBy(t, pipe[i])
        => Agrees(t, hw)

OwnPinsInv ==
    /\ RequestIsOwn /\ FormatFollowsSet /\ DeadPipeIsEmpty
    /\ WaitingAgrees /\ PipeAgrees /\ ExpanderAgrees

\* A reader that waits in gets owns the mutex and its request is the last one
\* in the pipe: no other command can come between a request and its reply, so
\* a reply could never be taken for the answer to another request
\* (direct_io.rb:17-20).
ReaderIsAlone ==
    \A t \in Threads : pc[t] = "gets" =>
        /\ mutex = t
        /\ pipe # << >> => pipe[Len(pipe)] = ER(t)

\* The expander as the one writer sees it.
Port == INSTANCE IoPort WITH
    port <- hw,
    attached <- lastSender # NoThread

\* The outputs of the expander change as IoPort says: one pin per write
\* (abio_card_client.rb:92-102), in the order of the calls, whatever waits in
\* the pipe.
ImplementsIoPort == Port!Spec

\* Every call that wants the pipe gets through, or the process is over:
\* handle and cmd always return to the state machine that called them.
CallsReturn ==
    \A t \in Threads : pc[t] \in {"lock", "read_lock"} ~> pc[t] = "idle" \/ aborted

=============================================================================
