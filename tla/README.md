# A TLA+ model of nixon-pi

nixon-pi is a clock: nixie tubes that show the time, neon lamps and bars beside
them, and a service on a Raspberry Pi that drives them through an I/O card. The
repository also has a newer driver of the card, which can reach it over an AxiCat, a
USB device, and the library for that device. This directory holds TLA+ modules that
model the service, both drivers and the library, the TLC configurations that check
them, and proofs for TLAPS.

`PROJECT.json` is the index: which definition stands for which lines, what each
run checks, which mutant each property was tried on, and which theorem states
what. To check a module, `tlc -config MCCard.cfg MCAbioCard.tla`; to prove one,
`tlapm Display_proofs.tla`.

## 1. The system

| part | state it keeps | operations | source |
| --- | --- | --- | --- |
| web server | database of last commands and schedules | validates a post, stores it, sends it as a message | `web/web_server.rb`, `db/` |
| queue and receiver | the RabbitMQ queue, receivers, locks | deliver, lock, validate, dispatch | `lib/nixonpi/messaging/` |
| state machines | state, parameters and animation of each machine | `handle_command`, `write` | `lib/nixonpi/state_machines/`, `animations/` |
| scheduler | rufus jobs, stored schedules | schedule, unschedule, reload, run a job | `lib/nixonpi/scheduler.rb` |
| drivers of the service | the values last written, for the tubes, bars and lamps | write a string, a value, dim | `lib/nixonpi/drivers/` |
| I/O card client | output register, PWM registers, the pipe | `io_write`, `io_read`, `pwm_write`, `clock_read` | `lib/nixonpi/client/` |
| driver server | the client, its line, the replies | receive, parse, execute, reply | `c-driver/abiocardserver.c` |
| card library | what it knows of each chip | commands to RTC, I/O expander, ADC and two LED drivers | `c-driver/abiocard.c` |
| I2C interfaces | registers of the BSC or a device file, a lock file | write, read | `c-driver/bsc*.c`, `i2cdev_i2cbus.c` |
| newer card driver | what it knows of the chips, the transfers of a call, whether the card is detached | the same commands, over a bus whose transfers are scheduled and polled | `axiris/.../abiocard/` |
| AxiCat library | the connection, the transfers of each interface, what the device's buffers have room for | schedule, cancel, destroy, `AXICAT_AL_Step` | `axiris/.../axicat/` |
| information proxy | none of its own | answers the web server over DRb | `lib/nixonpi/information/` |

How they interact. A post becomes a message in one queue of the broker. The consumer
thread of the service takes messages one at a time, drops those to a locked
receiver, validates the rest and calls `handle_command` of a state machine. Each
machine also has a thread of its own that calls `write` ten times a second, and
`write` may call `handle_command` of the same machine or send messages to other
machines (the tubes switch the lamps of the clock). All these threads share one
`AbioCardClient`. It turns a pin into a byte, formats a line such as `EW07` and
puts it into the pipe of a driver process, `abiocardserver -stdio`. The same
program, started at boot with `-p 5678 -t 20` (`install_root.sh:35`), serves other
programs over a socket. The driver executes a line as one or more I2C transfers
to a chip of the card.

`axiris/` has the vendor's distribution of 2015-02-28, newer than `c-driver/`, which
is the driver in use. Its driver makes a call of one or two bus transfers, polls them,
and gives up after two seconds. Over an AxiCat a bus transfer is a TWI transfer of the
library. The library is single-threaded: the application schedules, cancels and destroys
transfers of six kinds (GPIO, SPI, 1-Wire, TWI master, TWI slave in both directions)
and calls `AXICAT_AL_Step`, which parses replies, sends the commands that fit into the
device's buffers and keeps the connection. The device answers every command in
order, and no reply says which transfer it is for.

What is hard about it:

- *Threads.* The output register is tested, changed and formatted outside the
  mutex of the pipe. A machine's state, its parameters and its instance
  variables change in six steps, and two threads may be in them at once.
- *Messages.* A machine leaves an animation by sending itself a message; a
  message may come too early, to a machine that is locked, or be invalid.
- *Partial failure.* A transfer may fail before, during or after it took
  effect; a command of two or five transfers may stop after any of them; the
  service is not told about a failed write.
- *Restarts.* The driver process may die between two transfers; the chips keep
  their registers, and the next process must cope with them. The clock chip may
  lose its battery.
- *Replies without names.* The library takes a reply for the oldest transfer of its
  kind, while the application cancels, destroys and reuses transfers between two replies.
- *Credits.* Nothing tells the library how full a buffer of the device is: it
  counts, and a byte counted wrongly is never put right.
- *Removal.* The device may be removed between two bytes, and whoever waits must return.
- *Limits.* Line, reply and pipe buffers that fill up; a calendar; registers
  split over bytes.

What makes each part correct, and where it is stated:

| part | promise | property |
| --- | --- | --- |
| client | a write of one pin does not disturb the others, whoever writes at the same time | `ImplementsIoPort`, `HardwareFollowsRegister`, `OwnPinsSurvive` |
| client | a reply belongs to the request; every call returns | `ReaderIsAlone`, `CallsReturn` |
| state machines | the lamps of the clock follow the tubes, and are lit in the end; an animation ends | `LampFollowsTime`, `LampIsLit`, `AnimationIsLeft` (violated) |
| server | exactly the lines that are commands are executed; replies whole, in order, and not kept; a client is served | `LinesAreExecuted`, `RepliesInOrder`, `NoReplyIsKept`, `WaitingIsServed` |
| clock chip | a poll answers what was set; a power-up is noticed until a date is set | `PollAnswersWhatWasSet`, `PowerUpIsHandled`, `KnownTimeIsADate` |
| LED drivers | what was delivered is in effect; a channel reads back as it was set | `DimTakesEffect`, `PrescalerTakesEffect`, `SettingsReadBack` |
| card | a chip that is reported present was initialised | `PresentIsInitialised` |
| library, transfers | an object is the application's until destroyed, and handed out again only when the device is done with it | `PromiseKept`, `PoolsInv` |
| library, replies | a reply is never taken for that of another transfer; a device that obeys is never given up | `RepliesMeetTransfers`, `ObedientDeviceIsKept`, `NextPayloadIsNotSkipped` |
| library, credits | no byte of a buffer is lost or counted twice; no packet is too long | `CreditsAddUp`, `UartRoom`, `UartKeepsOrder`, `UartPacketsFit` (violated) |
| library, progress | a transfer ends, and so does the handshake | `TransfersEnd`, `HandshakeEnds` |
| newer driver | its transfers are its own, a call that succeeds leaves none behind, and every call returns | `SlotsOwnTheirTransfers`, `CallsLeaveNothing`, `CallsReturn` |

## 2. The modules

```
  Display (+ CommandValidator)        the service: queue, receiver, machines
       |  writes of pins
  AbioCardClient -- implements --> IoPort
       |  lines in a pipe
  AbioCardServer                      the server on its socket
       |  commands
  AbioCard = Rtc + Pwm + Pwm2 over I2cBus

  AxicatCard                          the newer driver, its server
       |  calls
  AxicatI2cBus                        a bus transfer in a slot
       |  TWI transfers
  Axicat = AxicatGpio + AxicatSpi + AxicatOw + AxicatTwiMaster + AxicatTwiSlave
           + AxicatUart, over AxicatLink
       |  each pool of transfers (AxicatPool)  -- implements --> AxicatTransfers
       |  each direction of a UART             -- implements --> AxicatFifo
```

**AbioCardClient** models `io_write`, `io_read`, `DirectIO#cmd` and the driver
process behind the pipe. `outRegister` is `@out_register`; a thread's `pc` is
where it stands: `set` (`abio_card_client.rb:99`), `format` (`:100`), `lock` and
`put` (`direct_io.rb:17-18`), `gets` (`:19`). The byte is a function from pins to
bits: `bit_to_hex` and the parser of the server are inverse on bytes. `BeginWrite`
is the test of line 96, which skips a write that would not change the register.
`PutWrite` blocks on a full pipe and raises on a broken one; what `handle` does
with that exception is part of the action. `ServerExec` executes the oldest
command, or loses it when the bus fails. **IoPort** is the abstract specification:
a port on which a write changes one pin.

**CommandValidator** has the pure part of the validator: which commands to the
tubes, lamps and bars are valid. A value is tagged `Str` or `Num`, since a symbol,
a string and a number behave differently in `strip`, in comparisons and in
regular expressions, and several behaviours of the display come from that.

**Display** has one `handle_command` per thread (`call`), which goes through the
steps *read, merge, leave, switch, publish, enter* one by one, and one `write`
action per state. Entering an animation takes two steps, *enter* and *driver*, since its
thread may write before `use_driver` (`base_state_machine.rb:51-52`). `params` is the
`StateHash`, `animation` the animation object, `entered` the states whose `enter_state`
has set the instance variables that `write` needs, `format` the `@format` of the tubes
(`@tubes_count` is set with it, so it stands for both). `failure` is the exception
that ended the process: a NoMethodError in `leave_state` and `enter_state` is rescued
(`base_state_machine.rb:161`, `:168`); any other, and one in `write`, ends the process when it is
raised in the thread of a machine (`Thread.abort_on_exception`, `nixonpi_service.rb:39`), while
the consumer only drops the message (`command_receiver.rb:26`). An animation is the number
of its outputs that are left. The messages that one method sends are queued in one step.
`shown` has the values of lamps and bars; of the tubes only that they show something.
Of the options, `goto_state` and the keys `say` and `state` that a countdown looks at are
modelled; `goto_target` is taken to be the machine itself, and the name of an animation
to be one made for that machine or one that nothing is registered for.

**AbioCardServer** has the socket server: a client connects, sends characters
one at a time, reads, closes or resets its connection; the server accepts, receives a
chunk of any size, processes it character by character, stores a reply in a
response buffer that may be too short for it, and sends into a connection that may
be full, closed or reset. A reply is a sequence of marked characters, so that a
reply that is lost, doubled, mixed up or given to another client can be seen.
`processed`, `executed`, `answers` and `received` are history.

**Rtc**, **Pwm** and **Pwm2** each have one chip, what the driver knows of it, and
the command in progress, transfer by transfer; **I2cBus** counts faults. A transfer
is delivered, or it fails having changed none, some or all of the registers. **AbioCard**
composes them: one command at a time (the server is sequential), each a step of
one chip; `Die` kills the driver in any state, `Init...` are the steps of
`abiocard_init`, `Disconnect` is the end of a client, `BatteryFails` resets the
clock chip. Registers are bytes; a PWM position is split over two of them as in
the chip. Boolean flags of the settings are 0 or 1, as in the code.

**AxicatLink** is the connection: the states of `Step`, the handshake of
`Step_Main` (two waits, a purge), the replies on their way (`rsp`), the
response packet being read (`rx`), and the device, which may be unplugged at any time.
`pc` is where `AXICAT_AL_Step` is; the application acts when it is at `user`. Data
bytes of a packet come one by one, since a read can stop between any two.

**AxicatPool** is the code that the six kinds of transfers have in copies: the
list of scheduled transfers, the current one, the cache, and what *cancel*,
*destroy* and *complete* do to an object that is assigned, scheduled, being transmitted, or
waiting for replies. **AxicatTransfers** is what an application is promised about an
object: free, its own, scheduled, or an orphan (destroyed while the device works for it).

**AxicatGpio, AxicatSpi, AxicatOw, AxicatTwiMaster, AxicatTwiSlave** have the calls, the
`Tx` part (which commands go out, what they cost), the `Rx` part (each reply with
its checks) and the device's side of one interface. The progress of a transfer is
kept as counts: `sc` asked for, `si`/`fi` (or `cmd`, `rsp`, `xfrd`) sent, answered
and transferred. **AxicatUart** has both rings and the room the device announced. A packet has
the length of everything that fits, less one, in a byte (`UartHeader`); of a packet that is
longer than `UartPacket` (32, `axicat.h:281`) the device may store any number of bytes
(`UartTaken`). **AxicatFifo** is a queue that may overrun.

**AxicatI2cBus** has the callbacks of the bridge (`axicat_i2cbus.c`): a slot
holds a TWI transfer from its scheduling until its result was read. **AxicatCard** has
`I2C_Xfr_Sync`, the probes of `abiocard_init`, commands of one or two calls, a
client that sends several commands at once, and the time limit. **Axicat** puts them
together: the order of `Step`, the information block, the loss of the device
(`Mark_Detached`) and `AXICAT_AL_Destroy`. `uses` says which interfaces this application
uses; it does not change.

**MC...** modules give the constants their values. The **..._proofs** modules hold
the theorems.

## 3. The runs

| run | instance | what it shows |
| --- | --- | --- |
| `two_writers` | 2 threads, 1 pin each, pipe of 2, bus and driver may fail | the last sender finds its own pins; the inductive invariant; calls return |
| `one_writer` | 3 pins, pipe of 3, one writes, one reads | the expander follows the register; refinement of `IoPort`; replies belong to requests |
| `register_race` | as `two_writers`, nothing fails | *violated*: two writers leave the expander different from the register |
| `reader_freezes` | one of two threads may read | *violated*: a read over `-stdio` never returns |
| `tubes_requests` | tubes and one lamp, 1 request of 9 kinds, one full hour, animations of 1 output | the lamp of the clock is told what the tubes show, and is lit in the end (898 000 states) |
| `clock_stops` | the tubes, a countdown and one full hour | *violated*: the animation of the hour is never left |
| `server` | 2 clients, 4 and 1 characters, chunks of 3, lines of 2, replies of 3 in a buffer of 2 and a socket of 1 | lines, replies, no reply kept, clients served |
| `card` | 4 commands, 2 faults, 2 times, 2 levels, 2 channels | every chip does what it was told |
| `axicat` | 10 kinds of application, 2 transfer objects, buffers of 7, 12, 9 and 7 bytes, packets of 2 | replies meet their transfers, credits add up, an obedient device is kept, both refinements, the card's slots (425 000 states) |
| `axicat_live` | 7 of these, TWI buffer of 6 | transfers and the handshake end, calls of the card return (181 000 states) |
| `axicat_stale_buffer` | the card alone | *violated*: bytes read are written for a call that is over |
| `uart_packets` | a UART that sends; rings and buffer of 2, packets of 1 | *violated*: a packet is longer than the device may be sent |

Why the bounds are enough. Two threads are all that race: what matters is whose
step comes between those of another, and the theorem covers any number of them.
The pipe of 2 can be full; of 3, it can hold a request behind two writes. In the
display one request meets, at every step, the start-up of the tubes and of the lamp (each an
animation that ends by a message of its own), the hour, and the commands that the clock sends to its lamp
when it leaves and enters the time. So there are up to three handle_commands at work with the messages of two
more behind them, and the lamp gets equal values twice. `AnimationTicks = 1` makes an animation
that is running and one that is over. More requests and hours only repeat this; that the lamp is told what
the tubes show is proved for any number (section 5). Requests of a kind that end the process are among the nine:
`TypeOK` and `LampFollowsTime` speak of the states up to there, and `LampIsLit` of runs that go on. In the server a line can be
empty, short, exactly as long as the buffer and longer (`aaa`), a reply is longer
than the response buffer, which is longer than the socket, two replies fit into
one connection's commands, and half a line of the first client can wait for the
second. On the card four commands are two to the same chip with an initialisation
between them, and two faults are a failure and one in its repair; the time values are
a leap day and a day that September lacks. `Polled` names the machines whose
threads run, so that the others need no steps. In the library two objects are enough
for a transfer that is created while the device works for another one, and a third would
only wait behind them in the list; a transfer of 3 bytes takes two packets, the first
full; the buffers hold one command and a part of the next, so that sending stops for
want of room in the middle of a transfer, and every place of the code that counts room is met
with too little. The application uses one interface at a time because the interfaces
share nothing but the parser and the connection, and their replies are told apart by
their codes; the slave is used in one direction at a time, as the two directions are copies.
`ChunkLimit = 2` lets a command follow, in the same chunk, one that failed. In `axicat` the
rings of the UART are as long as a packet may be, as an application must choose them (`ShortPacketsFit`,
section 5); `uart_packets` has longer ones. Three constants
leave out uses that the library does not support, and turning one on shows what happens
(section 4): `Reenable`, `GpioEarly`, `UartRestart`.

Deadlock is checked in `two_writers` and `register_race`. The others may stop: their bounds run out, the
server stops at QU or dies, or everything waits for a reader.

Fairness. *Client*: a thread inside a call goes on (weak), the mutex of Ruby is
first come first served, so a waiting thread gets it (strong), and the driver
reads its input (weak). No call has to begin. *Display*: every thread of the
process runs and the broker delivers (weak); no request and no hour has to come.
*Server*: the server runs, a silent receive times out (`SO_RCVTIMEO`,
`abiocardserver.c:1601-1604`), and a client reads its replies (weak). The last one
is an assumption about clients that the code does not enforce: `send` has no
timeout, so without it one client that does not read keeps all others out. A client
that sends a character now and then for ever is cut off by the bound `MaxSent`. *Library*: the application keeps calling
`AXICAT_AL_Step`, as every program of the distribution does in its loop (weak, `Stepping`);
a step gets to read what has arrived and to notice that the port fails, and the timer of the
handshake runs out (strong, `Progresses`, since a step may begin and end between two arrivals);
the device and the bus work on (weak). *Newer driver*: the process runs (weak), and a call that
still polls sees after two seconds that its time is up (strong, as it polls between); no client has to
send anything.

Each property of a passing run is tried on a mutant: a copy of a definition with
a bug that could have been written (`SetRegisterRestarts`, `MainClientKeepsLine`,
`HighByteTwice` ...), under which TLC must find the property violated.

## 4. Disagreements found

Among the runs, with their trace from TLC:

- **Register race** (`register_race`). `io_write` changes and formats the register
  outside the mutex; the byte formatted first may be sent last, and no later call
  repairs it, because the register already has the value.
- **Reader freezes** (`reader_freezes`). Over `-stdio` the reply stays in the stdio
  buffer of the driver; `gets` waits for ever, with the mutex, and all writers wait
  behind it.
- **Stale buffer** (`axicat_stale_buffer`). `I2C_Xfr_Sync` gives a call up by
  cancelling its transfers, but cancelling does nothing to one that is active. It
  stays with a pointer to the buffer of the call that is over, and a later call makes the
  steps that write into it. `axicat_al.h:178-180` says the buffer is not accessed any more.
- **Clock stops** (`clock_stops`). A countdown leaves a number in `params[:value]`
  (`tube_state_machine.rb:125`). When the next full hour has the tubes enter their animation, `strip`
  of that number raises a NoMethodError (`base_state_machine.rb:47`), which is rescued as if the state had no
  `enter_state`: `@animation` is still the one that was over before, its `write` does nothing, and the tubes
  stay as they are until somebody sends a command. The trace needs no two threads at once (`OneAtATime`).
- **UART packets** (`uart_packets`). `UART_Tx` sends `min(hw_tx_free, tx_sc)` bytes in one packet with
  `(U8)cnt - 1` as its header (`axicat_al_uart.c:571-594`). `axicat.h:281` allows 1 to 32 bytes;
  the ring is as long as the application makes it, and the device tells its free bytes in 16 bits. What
  a device does with a longer packet is not known: the model lets it store any number of the bytes. From
  257 bytes on the header even states fewer bytes than follow.

Found with TLC on the same modules, and not among the runs (each with a line in the hazards
or here):

- Start-up: `run!` sends `value: 0`, an Integer, which has no `strip`; the
  NoMethodError is taken for "this state has no `enter_state`", the animation stays nil
  and `write` raises. The message must come while the lamp is in its start-up animation.
  (`failure` of `Display`, with one lamp and no requests.)
- A countdown or a meeting that is entered before the tubes ever showed the time (its message met the
  start-up animation) ends the process with its first write: `@tubes_count`, set by the `enter_state` of the
  time, is nil in `rjust` (`tube_state_machine.rb:43`, `:121`, `:181`).
- A countdown or a meeting ends the process as well when its thread writes before `enter_state` has set
  `params[:target_time]` or `@meeting_start`, and so does an animation before `use_driver`: the
  machine is in the state from `base_state_machine.rb:163` on.
- A meeting entered with a number in `params[:value]` (left by a countdown) is entered half: `match` raises a
  NoMethodError that is rescued, and the first write ends the process.
- At the end of a countdown the option `say` calls `CommandSender.send_command`, a class method there is
  not, and the process ends; the option `state` calls `handle_command` with nil (`each` over the keys
  gives no values, `tube_state_machine.rb:134`), which leaves the countdown as it is, once and again.
- An animation of a name that is not registered raises in `dependency.rb:70`, after the machine has entered the
  state: the old animation is in it, or none, and then `write` ends the process.
- Month 0: `CW` with month 0 passes the calendar test as a month of 31 days and clears
  OSF. (`OsfUntilDateIsSet` of `Rtc`, with a time whose month is 0.)
- A master transfer of the TWI of which only the START was sent when the device skipped
  is never completed, though `axicat_al_twi.c:817-821` waits for "remaining response packets". (`TwiTransfersEnd`
  of `Axicat`; `TransfersEnd` leaves these out.)
- 1-Wire transfers are not completed when the device is lost (`axicat_al.c:612`).
- An interface that is disabled and enabled again while its commands are with the device: the
  transfer is taken for skipped, though the device carries out what follows. (`Reenable = TRUE`.)
- A GPIO read that is scheduled while the connection is being made: its reply is purged. (`GpioEarly = TRUE`.)
- A UART that is disabled and enabled again believes an announcement of room from before. (`UartRestart = TRUE`.)
- A request for the time that meets the full hour: the thread of the tubes goes
  to the animation while the consumer handles the request, `params[:state]` says
  `time` and the machine is in the animation, and the message that should end it
  changes nothing, as the machine seems to be in `time` already
  (`base_state_machine.rb:89-97`).
- An animation with `goto_state: free_value` sends itself a command to `free_value`
  without a value, which the validator refuses: the animation is never left.
- Digits that were shown become the format of the time: the tubes "show the time"
  with the digits of an earlier command (`tube_state_machine.rb:42`).
- A lamp that has value 1, blinks and is set to 1 again stays dark: the value did
  not change (`lamp_state_machine.rb:24`), but blink had switched the lamp off. (`LampIsLit` without
  the condition on `entered`.)
- `lock: unlock` is dropped by a receiver that is locked (`command_receiver.rb:72`).

Behaviour worth knowing that contradicts no document: a `PW` that is sent again
after its second transfer failed does not write LEDOUT, as the context has the
new mode already (`abiocard.c:491`); `pwm2_init` wakes the chip without RESTART, so
outputs that were on when the driver died between sleep and restart stay off
until the next `QQ` or `QW`; commands to a chip are executed although its
initialisation failed; a `CW` that is cut off may clear OSF with half a date; `QU`
ends the connection without sending the replies to commands before it in the same
chunk (`abiocardserver.c:1125`); SIGPIPE is not handled, so a client that is gone can
end the server; when the i2c-dev file cannot be opened, its context is given to the
`Destroy` of the other interface (`i2cdev_i2cbus.c:208`).

## 5. The proofs

All obligations are checked by TLAPS, from these named assumptions on the
constants only: sets of threads, pins, channels, levels and times of any size,
disjoint pins per thread, positive capacities; for the card over the library, that there are
two transfers to put in its slots (`XfrsAssumption`) and that an application that uses the card starts
no transfers of its own on that bus (`UsesAssumption`), and that the rings and the buffer of a UART are
not empty (`UartAssumption`). Some theorems say more: two of the client that one
thread writes (`WritesAlone`) and, for `PortIsImplemented`, that the bus does not fail; one of the
display that only the clock commands its lamp (`NobodyElse`); those about replies that the
application leaves the three unsupported uses of section 3 alone.

- **AbioCardClient_proofs**. `TypeCorrect`: `TypeOK` with two facts about what
  `req` and the register hold between the steps of a write. `OwnPins`:
  `OwnPinsSurvive` speaks only of quiet states and is not inductive. The
  invariant `OwnPinsInv` follows the byte of a thread on its way: once formatted, it is
  up to date on the thread's own pins while it waits for the mutex
  (`WaitingAgrees`), as the last command of the thread in the pipe (`PipeAgrees`), and on
  the expander (`ExpanderAgrees`); other threads may set the register, but not at these pins
  (`OthersKeepAgreement`). `ReadersAreAlone` follows from who owns the mutex (`MutexInv`).
  For one thread that writes, and any number that read, `RegisterIsFollowed` and
  `PortIsImplemented` rest on `WriterInv`: the byte on the expander, the commands in the pipe
  and the byte being formatted are one call apart each, and the last is the register (`ChainInv`).
- **AbioCardServer_proofs**. `BuffersAreBounded`: no chunk, line, reply or connection
  outgrows its buffer. `RepliesAreInOrder` and `NoReplyIsHeldBack` from `RepliesInv`: what
  the client read, what the connection holds, the response buffer and the rest of the
  reply make up, in this order, what was answered to it (`WholeInv`), wherever they are
  cut; a client that still waits was answered nothing (`FreshInv`) and waits once
  (`QueueInv`), so the empty buffers of `main_client` are a right start.
  `LinesAreExecutedOnce` adds where the bytes of a client are: what was executed, the lines still
  in the buffer and what the connection holds make up, in this order, what the client sent,
  wherever `recv` cuts it.
- **Display_proofs**. `DisplayTypes`: that every message and every call is for a machine that is
  there, and that lamps and bars never leave their four states, needs what the validator lets through and
  what each thread may be handling (`Placed`). That a machine which enters an animation has a name and options needs
  who may be about to enter it: each such call has found them in `params`, and no command takes them away
  again (`OptionsInv`, `Armed`). `LampFollowsTheTime` rests on `LampInv`: while the tubes
  show the time a thread has left the last state and not entered the new one (`Turning`), or the last
  message that brings the lamp a value lights it, or none does and what the lamp holds, or the
  consumer is about to give it, lights it (`Lit`). No such message is dropped: nobody locks the lamp, and
  each asks for the free value, which the validator accepts (`Modest`).
- **AbioCard_proofs**. The clock: BCD encoding, the masks of the poll and decoding are the
  identity on times (`TimeRoundTrip`); the calendar test accepts only dates
  or month 0 (`AcceptedIsADate`); the invariants of the poll follow
  for all times, failures and deaths.
  The LED driver: `DimTakesEffect` from an invariant that relates the mode in the
  context, LEDOUT and the dim value, with what is lost while a transfer is
  undelivered.
  The second LED driver: `PrescalerEffective`: by stages of `QQ`, the chip sleeps when
  PRE_SCALE is written, and is awake without pending RESTART at the end, whatever
  MODE1 was. `SettingsKept`: a channel's four bytes give its setting back
  (`SettingRoundTrip`), and a transfer to a range changes no other channel.
  The card: `CardImplementsChips`: it implements the
  specification of each chip and of the bus under the identity mapping; each step of
  the driver is a step of one chip or none. So the theorems about the chips hold
  on the card (`CardClock`, `CardLamps`); `CardTypeCorrect` and
  `PresentInitialised` are proved on the card itself.
- **AxicatPool_proofs**. Every operation on a pool, and every sequence of them (`Moves`),
  preserves the inductive `PoolInv`: the list has no object twice, its objects are those
  whose location says so (`ListInv`), an object that is held or destroyed is where it should be
  (`HeldInv`), and those the device has seen are a prefix of the list (`ActiveInv`). The
  lemma about unlinking an element of a list is the heart of it. `MovesPromised`:
  under `PoolInv` a move changes an object's status as `AxicatTransfers` allows.
- **Axicat_proofs**. Each action of each interface changes its pool by an operation of
  `AxicatPool` or not at all (`GpioLives` ... `SlaveLives`, `StepLives`), so `PoolInv` holds of the six pools
  (`PoolsAgree`), and the library implements `AxicatTransfers` for each of them
  (`PromiseHolds`), for any number of objects, any requests and buffers and any behaviour of
  the device. The card makes several calls of the library in one step; in an application with the card
  its pool is left out of both.
- **AxicatCard_proofs**. The card over the library: a call of the card is a sequence of calls of
  the library (`Runs`), which keeps `PoolInv` of its bus; the slots of the card and the transfers
  handed out are the same, each in one slot (`SlotsAreTheCards`); and a call that ends without giving
  the card up ends with the list of the bus empty (`CallsCleanUp`), since it ends only when the
  result of each of its slots was read.
- **AxicatReplies_proofs**. The replies on their way, over the whole `Next` of `Axicat`. `LinkInv`
  is what the parser and the device keep by themselves, and `LinkStep(K)` what a step of an
  interface does to the link: it adds replies and commands of its own kinds `K` only, and reads at
  most one reply, so the replies of every other kind stay as they are (`Elsewhere`); every step is one of
  an interface, of the link itself, or of the few that touch all (`NextCases`, `StepsLink`). The rest is
  an inductive invariant for each interface. `SpiInv`: a transfer's bytes sent are its
  bytes received and those in flight, counted unit by unit (`SpiAbout`), the last unit is known as
  such and the first is for the oldest transfer (`SpiOrder`, `Fed`), and what a data byte
  belongs to is the oldest transfer (`SpiReads`). `GpioInv`: each active read has one command in flight.
  `UartInv`: at most one announcement is on its way, and then the library has no free bytes left
  (`UartFlow`). `GpioAndSpiRepliesMeet`, `RepliesAreAccepted` and `NoByteIsTooMany`
  follow. `BytesStayInOrder` is a refinement: a ring whose indices fit (`Ring`) is a queue, storing,
  fetching and overrunning are steps of `AxicatFifo` on it (`RingStored`, `RingFetched`, `RingTakesByte`).
  It has `UartPacketsFit` as a hypothesis, as the device may store part of a packet that is too long;
  `ShortPacketsFit` says that a ring or a buffer of the device that fits in a packet is enough for that. Sums over the units are recursive functions; what is needed of them (an
  element added or taken at an end) is proved by induction over a set of numbers (`NatSet`), which
  needs no theorem with an operator parameter. The hypotheses `~Reenable`, `~GpioEarly` and `~UartRestart`
  name the uses that section 3 leaves out: enabling an interface that has transfers, scheduling a
  GPIO read before the connection is there, enabling a UART again; section 4 says what happens then.

Only model-checked: of the library, `TypeOK`, `NextPayloadIsNotSkipped`, and, for
1-Wire and TWI, `ObedientDeviceIsKept`, `RepliesMeetTransfers` and `CreditsAddUp`. All liveness
(`CallsReturn` of the client and of the newer driver, `LampIsLit`,
`WaitingIsServed`, `TransfersEnd`, `HandshakeEnds`) is out of the prover's reach.

## 6. Not modelled

The values of animations, easing, DRb and information requests, the web pages, logging,
settings and migrations: no state that another part depends on. RGB, sound,
power and background receivers: one-step receivers. The scheduler: its jobs send commands through the
queue, which `Display` enumerates anyway; what it keeps of its own is in the hazards. The
bits of a digit on the pins of the tubes, and the registers and polling loops of the BSC: `Display` and
`I2cBus` see a write as one step with its outcomes. ADC conversions and the read commands of the
LED drivers and the expander: they change no state of a chip. The broker and the
database are external. Of the library: what sends one command and changes nothing
else (speeds, modes, pin directions, baud rates, pull-ups), version numbers, the data,
acknowledgements and result codes of a transfer, and the second UART, a copy of the first. Of the newer
driver: what its commands write to the chips and its text protocol, which are those of
`c-driver`. Real time appears only as timeouts and ticks.

## 7. What comes next

1. *Scheduler* (`scheduler.rb`, `db/models.rb`): stored schedules, jobs, restarts.
   `Scheduler.new` is called twice and reloads every job twice; the second reload also picks up
   a schedule whose message came before the receiver was there. A job that ran is
   deleted after its message was sent. The message of a DELETE is refused by the validation of
   `handle_command_for` (`command_receiver.rb:107`), as it has no method, timing and command. Abstract
   specification: a stored schedule has a job while the service runs, and a job of a deleted one never sends.
2. *TubeDriver* (`tube_driver.rb`): the bits of a digit string on data, clock and
   latch, over `AbioCardClient`: the tubes show whole strings only, and two writers
   do not mix.
3. *I2C interfaces* (`bsc.c`, `bsc_i2cbus.c`): the polling loops of a transfer with their
   timeouts as an implementation of `I2cBus`; the lock file between the server and `abiocardtime`.
4. *PWM half of the client* (`pwm_write`, `pwm_read_registers`): the register cache.
5. *Proofs*: the invariants that section 5 lists as model-checked only; `SlaveInv`-like invariants for
   1-Wire, the slave and TWI in the frame that `AxicatReplies_proofs` sets for GPIO, SPI and UART.

The project keeps few runs: when a new module needs one, a disagreement of section 4 gives its
own up and stays there with what is needed to see it.
