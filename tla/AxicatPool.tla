------------------------------ MODULE AxicatPool ------------------------------
(***************************************************************************)
(* The transfer objects of one interface of the AxiCat library.            *)
(*                                                                         *)
(* GPIO, SPI, 1-Wire and the three parts of TWI each keep their transfers  *)
(* the same way: linked lists of cached, assigned and scheduled objects, a *)
(* pointer to the transfer whose commands are being transmitted, and in    *)
(* each object the flags active and detached.  The operators below are     *)
(* that way, on a record that holds one interface's lists; the module of   *)
(* an interface applies them to its own record.                            *)
(*                                                                         *)
(* The cached and the assigned list are sets here, since nothing depends   *)
(* on their order: every field of an object is set again when it is        *)
(* scheduled.  For the same reason the flags of an object are kept only    *)
(* while it is scheduled.  "held" is the application's side: the objects   *)
(* it has a pointer to.                                                    *)
(***************************************************************************)
EXTENDS Naturals, Sequences

CONSTANTS Xfrs,         \* the transfer objects
          NoXfr         \* the null pointer

ASSUME NoXfrAssumption == NoXfr \notin Xfrs

Locations == {"none", "cached", "assigned", "scheduled"}

EmptyPool ==
  [loc |-> [x \in Xfrs |-> "none"], sched |-> <<>>, cur |-> NoXfr,
   active |-> {}, detached |-> {}, held |-> {}]

Scheduled(p) == {x \in Xfrs : p.loc[x] = "scheduled"}

\* The successor of x in a list, and the list without x.
Position(s, x) == CHOOSE i \in 1..Len(s) : s[i] = x

NextOf(s, x) ==
  LET i == Position(s, x) IN IF i < Len(s) THEN s[i + 1] ELSE NoXfr

Unlink(s, x) ==
  LET i == Position(s, x)
  IN  [j \in 1..(Len(s) - 1) |-> IF j < i THEN s[j] ELSE s[j + 1]]

\* The records of the transfers without that of x.
Without(f, x) == [y \in DOMAIN f \ {x} |-> f[y]]

-----------------------------------------------------------------------------

(* Xxx_Xfr_Create: a cached object if there is one, else a new one. *)
CanCreate(p, x) ==
  /\ p.loc[x] \in {"none", "cached"}
  /\ (\E y \in Xfrs : p.loc[y] = "cached") => p.loc[x] = "cached"

Create(p, x) ==
  [p EXCEPT !.loc = [@ EXCEPT ![x] = "assigned"],
            !.held = @ \cup {x}]

(* Xxx_Xfr_Schedule: only an assigned object; it becomes the current one *)
(* when there is none, and starts neither active nor detached.           *)
CanSchedule(p, x) == x \in p.held /\ p.loc[x] = "assigned"

Schedule(p, x) ==
  [p EXCEPT !.loc = [@ EXCEPT ![x] = "scheduled"],
            !.sched = Append(@, x),
            !.cur = IF @ = NoXfr THEN x ELSE @]

(* Xxx_Xfr_Complete: the current pointer moves past the transfer, which  *)
(* goes back to the application, or to the cache when it was destroyed.  *)
\* Mutant: the current pointer stays.
CompleteOnly(p, x) ==
  [p EXCEPT !.loc = [@ EXCEPT ![x] = IF x \in p.detached THEN "cached" ELSE "assigned"],
            !.sched = Unlink(@, x),
            !.active = @ \ {x},
            !.detached = @ \ {x}]

Complete(p, x) ==
  [p EXCEPT !.loc = [@ EXCEPT ![x] = IF x \in p.detached THEN "cached" ELSE "assigned"],
            !.sched = Unlink(@, x),
            !.cur = IF @ = x THEN NextOf(p.sched, x) ELSE @,
            !.active = @ \ {x},
            !.detached = @ \ {x}]

(* Xxx_Complete_All_Xfrs. *)
CompleteAll(p) ==
  [p EXCEPT !.loc = [x \in Xfrs |-> IF p.loc[x] # "scheduled" THEN p.loc[x]
                                    ELSE IF x \in p.detached THEN "cached" ELSE "assigned"],
            !.sched = <<>>,
            !.cur = NoXfr,
            !.active = {},
            !.detached = {}]

(* Xxx_Xfr_Cancel: completes a scheduled transfer that is not active; of *)
(* an active one nothing is done.                                        *)
\* Mutant: an active transfer is cancelled too.
CancelsAny(p, x) == p.loc[x] = "scheduled"

Cancels(p, x) == p.loc[x] = "scheduled" /\ x \notin p.active

Cancel(p, x) == IF Cancels(p, x) THEN Complete(p, x) ELSE p

(* Xxx_Xfr_Destroy: cancels, then puts an assigned object in the cache and *)
(* marks any other as detached, to be put there when it completes.         *)
\* Mutant: an active transfer is put in the cache at once.
DestroyAtOnce(p, x) ==
  LET c == Cancel(p, x)
  IN  [c EXCEPT !.loc = [@ EXCEPT ![x] = "cached"], !.held = @ \ {x}]

Destroy(p, x) ==
  LET c == Cancel(p, x)
  IN  IF c.loc[x] = "assigned"
      THEN [c EXCEPT !.loc = [@ EXCEPT ![x] = "cached"], !.held = @ \ {x}]
      ELSE [c EXCEPT !.detached = @ \cup {x}, !.held = @ \ {x}]

(* The part of Xxx_Tx that concerns the lists: commands of the current  *)
(* transfer have been transmitted; when they were the last ones the     *)
(* current pointer moves on.                                            *)
Transmit(p, all) ==
  [p EXCEPT !.active = @ \cup {p.cur},
            !.cur = IF all THEN NextOf(p.sched, @) ELSE @]

-----------------------------------------------------------------------------
(* What the lists and flags keep, whatever is called and whenever replies *)
(* come (AXICAT_AL_*_Xfr_Schedule, _Cancel, _Destroy, _Complete).         *)

InList(p) == {p.sched[i] : i \in 1..Len(p.sched)}

PoolRecords ==
  [loc : [Xfrs -> Locations], sched : Seq(Xfrs), cur : Xfrs \cup {NoXfr},
   active : SUBSET Xfrs, detached : SUBSET Xfrs, held : SUBSET Xfrs]

(* The lists agree with the objects: a scheduled object is in the list  *)
(* exactly once, and the current one is in it.                          *)
ListInv(p) ==
  /\ \A i, j \in 1..Len(p.sched) : p.sched[i] = p.sched[j] => i = j
  /\ InList(p) = Scheduled(p)
  /\ p.cur = NoXfr \/ p.cur \in InList(p)

(* The application holds what is assigned, and of the scheduled objects *)
(* exactly those that are not detached.                                 *)
HeldInv(p) ==
  /\ p.active \subseteq InList(p)
  /\ p.detached \subseteq InList(p)
  /\ \A x \in Xfrs : x \in p.held <=> \/ p.loc[x] = "assigned"
                                      \/ p.loc[x] = "scheduled" /\ x \notin p.detached

(* Commands were transmitted of the transfers before the current one, and *)
(* of none behind it: what can be cancelled is what the device never saw. *)
ActiveInv(p) ==
  /\ p.cur = NoXfr => InList(p) \subseteq p.active
  /\ \A i, j \in 1..Len(p.sched) : i < j =>
       /\ p.sched[j] \in p.active => p.sched[i] \in p.active
       /\ p.cur = p.sched[j] => p.sched[i] \in p.active
       /\ p.cur = p.sched[i] => p.sched[j] \notin p.active

PoolInv(p) == p \in PoolRecords /\ ListInv(p) /\ HeldInv(p) /\ ActiveInv(p)

\* What becomes of an object: whether the application has it, and whether
\* replies are still to come for it.
Status(p) ==
  [x \in Xfrs |-> IF x \in p.held THEN IF x \in InList(p) THEN "scheduled" ELSE "owned"
                                   ELSE IF x \in InList(p) THEN "orphan" ELSE "free"]

=============================================================================
