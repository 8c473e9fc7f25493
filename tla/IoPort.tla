------------------------------- MODULE IoPort -------------------------------
(***************************************************************************)
(* What a caller of AbioCardClient#io_write may expect of the expander: it  *)
(* writes one pin.  Only the first write of the process sets all the pins, *)
(* since the service does not know what the expander holds.                *)
(***************************************************************************)
CONSTANTS Pins, Byte, Zeros

VARIABLES port, attached

Init == port \in Byte /\ attached = FALSE

\* The first write: every other pin becomes 0 (abio_card_client.rb:97).
Attach(pin, value) ==
    /\ ~attached
    /\ attached' = TRUE
    /\ port' = [Zeros EXCEPT ![pin] = value]

WritePin(pin, value) ==
    /\ attached
    /\ port' = [port EXCEPT ![pin] = value]
    /\ UNCHANGED attached

Next == \E pin \in Pins, value \in {0, 1} : Attach(pin, value) \/ WritePin(pin, value)

Spec == Init /\ [][Next]_<<port, attached>>
=============================================================================
