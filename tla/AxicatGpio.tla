------------------------------ MODULE AxicatGpio ------------------------------
(***************************************************************************)
(* The GPIO part of the AxiCat library.  A transfer reads one pin; the     *)
(* device answers reads in the order they come, and keeps no buffer of     *)
(* them, so the library counts nothing.  Setting a pin's direction or      *)
(* writing it sends one command, changes nothing in the library and is     *)
(* left out.                                                               *)
(***************************************************************************)
EXTENDS AxicatLink, AxicatPool

CONSTANTS GpioPins,     \* pins the application reads
          GpioEarly     \* it may schedule a read before the device is connected

VARIABLE gpio   \* GPIO_CTX: the lists, and the pin of each scheduled transfer

GpioClear == [pool |-> EmptyPool, pin |-> << >>]

GpioInit == gpio = GpioClear

GPIO_Xfr_Complete(g, x) == [g EXCEPT !.pool = Complete(@, x), !.pin = Without(@, x)]

GPIO_Complete_All_Xfrs(g) == [g EXCEPT !.pool = CompleteAll(@), !.pin = << >>]

GPIO_Xfr_Create(x) ==
  /\ Called
  /\ CanCreate(gpio.pool, x)
  /\ gpio' = [gpio EXCEPT !.pool = Create(@, x)]

GPIO_Xfr_Schedule(x, pin) ==
  /\ Called
  /\ GpioEarly \/ conn # "connecting"
  /\ CanSchedule(gpio.pool, x)
  /\ gpio' = [gpio EXCEPT !.pool = Schedule(@, x),
                          !.pin = [y \in DOMAIN @ \cup {x} |-> IF y = x THEN pin ELSE @[y]]]

GPIO_Xfr_Cancel(x) ==
  /\ Called
  /\ x \in gpio.pool.held
  /\ gpio' = IF Cancels(gpio.pool, x) THEN GPIO_Xfr_Complete(gpio, x) ELSE gpio

GPIO_Xfr_Destroy(x) ==
  /\ Called
  /\ x \in gpio.pool.held
  /\ gpio' = [gpio EXCEPT !.pool = Destroy(@, x),
                          !.pin = IF Cancels(gpio.pool, x) THEN Without(@, x) ELSE @]

-----------------------------------------------------------------------------

GpioCanSend == gpio.pool.cur # NoXfr

\* One turn of the loop of GPIO_Tx.
GPIO_Tx ==
  /\ pc = "tx"
  /\ GpioCanSend
  /\ gpio' = [gpio EXCEPT !.pool = Transmit(@, TRUE)]
  /\ imm' = Append(imm, [k |-> "gpio", x |-> gpio.pool.cur, pin |-> gpio.pin[gpio.pool.cur]])
  /\ UNCHANGED <<conn, main, waitIdle, infoRead, pc, plugged, rsp, rx>>

\* The reply names the pin: it must be that of the oldest scheduled transfer.
GPIO_Rx ==
  /\ AtReply("gpio")
  /\ LET x  == Head(gpio.pool.sched)
         ok == gpio.pool.sched # <<>> /\ gpio.pin[x] = Head(rsp).pin
     IN  /\ Packet(ok, RxRsp)
         /\ gpio' = IF ok THEN GPIO_Xfr_Complete(gpio, x) ELSE gpio

GpioUser ==
  \E x \in Xfrs :
    \/ GPIO_Xfr_Create(x) \/ GPIO_Xfr_Cancel(x) \/ GPIO_Xfr_Destroy(x)
    \/ \E pin \in GpioPins : GPIO_Xfr_Schedule(x, pin)

=============================================================================
