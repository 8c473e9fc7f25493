--------------------------- MODULE AxicatTransfers ---------------------------
(***************************************************************************)
(* What an application is promised about transfer objects, whatever the    *)
(* interface: an object it created is its own until it destroys it, a      *)
(* scheduled object comes back to it when the transfer ends, and an object *)
(* destroyed while replies of the device are still to come is handed out   *)
(* again only after its transfer has ended.                                *)
(***************************************************************************)
CONSTANT Xfrs

VARIABLE status     \* of each object: free, owned, scheduled or orphan

Init == status = [x \in Xfrs |-> "free"]

\* How the status of an object may change: it is created, scheduled, ends, or
\* is destroyed.  A destroyed transfer is free at once, or when it ends.
Moves ==
  {<<"free", "owned">>, <<"owned", "scheduled">>,
   <<"scheduled", "owned">>, <<"orphan", "free">>,
   <<"owned", "free">>, <<"scheduled", "free">>, <<"scheduled", "orphan">>}

Move(x) ==
  /\ <<status[x], status'[x]>> \in Moves
  /\ status' = [status EXCEPT ![x] = status'[x]]

\* The device is lost: every transfer ends.
EndAll ==
  status' = [x \in Xfrs |-> CASE status[x] = "scheduled" -> "owned"
                              [] status[x] = "orphan" -> "free"
                              [] OTHER -> status[x]]

\* The library is destroyed with all its objects.
Discard == status' = [x \in Xfrs |-> "free"]

Next ==
  \/ \E x \in Xfrs : Move(x)
  \/ EndAll
  \/ Discard

Spec == Init /\ [][Next]_status

=============================================================================
