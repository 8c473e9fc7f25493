------------------------------ MODULE AxicatFifo ------------------------------
(***************************************************************************)
(* What a UART promises of one direction: bytes leave in the order they    *)
(* came, none is lost in between except the oldest ones of a full queue    *)
(* that may overrun, and setting the UART up forgets the last ones.         *)
(***************************************************************************)
EXTENDS Naturals, Sequences

CONSTANTS Room,         \* bytes the queue holds
          Overruns      \* a byte that comes to a full queue replaces the oldest

VARIABLE queue

Init == queue = <<>>

Put ==
  /\ Len(queue') >= Len(queue)
  /\ Len(queue') <= Room
  /\ SubSeq(queue', 1, Len(queue)) = queue

Overrun ==
  /\ Overruns
  /\ Len(queue) = Room
  /\ Len(queue') = Room
  /\ SubSeq(queue', 1, Room - 1) = Tail(queue)

Take == \E n \in 1..Len(queue) : queue' = SubSeq(queue, n + 1, Len(queue))

\* What has not left the library yet, or all of it.
Reset == \E n \in 0..Len(queue) : queue' = SubSeq(queue, 1, n)

Next == Put \/ Overrun \/ Take \/ Reset

Spec == Init /\ [][Next]_queue

=============================================================================
