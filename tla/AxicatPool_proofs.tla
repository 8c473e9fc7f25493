-------------------------- MODULE AxicatPool_proofs --------------------------
(***************************************************************************)
(* The lists of an interface keep their invariant, and its transfer        *)
(* objects keep the promise of AxicatTransfers, for any set of objects and *)
(* any order of the application's calls and of the library's own steps.    *)
(***************************************************************************)
EXTENDS AxicatPool, TLAPS

Distinct(s) == \A i, j \in 1..Len(s) : s[i] = s[j] => i = j

\* A member of a list is at its position; the list without it is one shorter,
\* and keeps the others in their order.
LEMMA PositionFact ==
  ASSUME NEW S, NEW s \in Seq(S), NEW x, \E i \in 1..Len(s) : s[i] = x
  PROVE  Position(s, x) \in 1..Len(s) /\ s[Position(s, x)] = x
  BY DEF Position

\* Where the members of the list without its k-th one were.
Old(k, j) == IF j < k THEN j ELSE j + 1

LEMMA OldFact ==
  ASSUME NEW n \in Nat, NEW k \in 1..n
  PROVE  /\ \A j \in 1..(n - 1) : Old(k, j) \in 1..n /\ Old(k, j) # k
         /\ \A i, j \in 1..(n - 1) : i < j => Old(k, i) < Old(k, j)
         /\ \A i \in 1..n : i # k => \E j \in 1..(n - 1) : Old(k, j) = i
<1>1. ASSUME NEW i \in 1..n, i # k
      PROVE  \E j \in 1..(n - 1) : Old(k, j) = i
  <2>1. CASE i < k
    <3>1. i \in 1..(n - 1) /\ Old(k, i) = i
      BY <2>1 DEF Old
    <3>. QED
      BY <3>1
  <2>2. CASE i > k
    <3>1. i - 1 \in 1..(n - 1) /\ Old(k, i - 1) = i
      BY <2>2 DEF Old
    <3>. QED
      BY <3>1
  <2>. QED
    BY <2>1, <2>2, <1>1
<1>. QED
  BY <1>1 DEF Old

LEMMA UnlinkFact ==
  ASSUME NEW S, NEW s \in Seq(S), NEW x, NEW k \in 1..Len(s), k = Position(s, x)
  PROVE  /\ Unlink(s, x) \in Seq(S)
         /\ Len(Unlink(s, x)) = Len(s) - 1
         /\ \A j \in 1..(Len(s) - 1) : Unlink(s, x)[j] = s[Old(k, j)]
<1>. DEFINE f == [j \in 1..(Len(s) - 1) |-> IF j < k THEN s[j] ELSE s[j + 1]]
<1>1. Len(s) \in Nat /\ Len(s) - 1 \in Nat
  OBVIOUS
<1>2. f \in [1..(Len(s) - 1) -> S]
  BY <1>1
<1>3. f \in Seq(S) /\ Len(f) = Len(s) - 1
  BY <1>1, <1>2
<1>4. Unlink(s, x) = f
  BY DEF Unlink
<1>5. \A j \in 1..(Len(s) - 1) : f[j] = s[Old(k, j)]
  BY <1>1 DEF Old
<1>. QED
  BY <1>3, <1>4, <1>5

Members(s) == {s[i] : i \in 1..Len(s)}

LEMMA UnlinkMembers ==
  ASSUME NEW S, NEW s \in Seq(S), Distinct(s), NEW x \in Members(s)
  PROVE  /\ Unlink(s, x) \in Seq(S)
         /\ Distinct(Unlink(s, x))
         /\ Members(Unlink(s, x)) = Members(s) \ {x}
         /\ Len(Unlink(s, x)) = Len(s) - 1
         /\ Position(s, x) \in 1..Len(s) /\ s[Position(s, x)] = x
         /\ \A j \in 1..Len(Unlink(s, x)) :
              /\ Old(Position(s, x), j) \in 1..Len(s)
              /\ Unlink(s, x)[j] = s[Old(Position(s, x), j)]
         /\ \A i, j \in 1..Len(Unlink(s, x)) :
              i < j => Old(Position(s, x), i) < Old(Position(s, x), j)
<1>. DEFINE k == Position(s, x)
            t == Unlink(s, x)
<1>1. k \in 1..Len(s) /\ s[k] = x
  BY PositionFact DEF Members
<1>2. /\ t \in Seq(S)
      /\ Len(t) = Len(s) - 1
      /\ \A j \in 1..(Len(s) - 1) : t[j] = s[Old(k, j)]
  BY <1>1, UnlinkFact
<1>. HIDE DEF t, k
<1>3. Len(s) \in Nat
  OBVIOUS
<1>4. /\ \A j \in 1..Len(t) : Old(k, j) \in 1..Len(s) /\ Old(k, j) # k
      /\ \A i, j \in 1..Len(t) : i < j => Old(k, i) < Old(k, j)
      /\ \A i \in 1..Len(s) : i # k => \E j \in 1..Len(t) : Old(k, j) = i
  <2>. DEFINE n == Len(s)
  <2>1. n \in Nat /\ k \in 1..n /\ Len(t) = n - 1
    BY <1>1, <1>2, <1>3
  <2>. HIDE DEF n
  <2>2. /\ \A j \in 1..(n - 1) : Old(k, j) \in 1..n /\ Old(k, j) # k
        /\ \A i, j \in 1..(n - 1) : i < j => Old(k, i) < Old(k, j)
        /\ \A i \in 1..n : i # k => \E j \in 1..(n - 1) : Old(k, j) = i
    BY <2>1, OldFact
  <2>. QED
    BY <2>1, <2>2 DEF n
<1>5. Distinct(t)
  <2>1. SUFFICES ASSUME NEW i \in 1..Len(t), NEW j \in 1..Len(t), t[i] = t[j], i < j
                 PROVE  FALSE
    BY <1>2 DEF Distinct
  <2>2. Old(k, i) = Old(k, j)
    BY <2>1, <1>2, <1>4 DEF Distinct
  <2>. QED
    BY <2>1, <2>2, <1>4
<1>6. Members(t) \subseteq Members(s) \ {x}
  BY <1>1, <1>2, <1>4 DEF Distinct, Members
<1>7. ASSUME NEW y \in Members(s) \ {x}
      PROVE  y \in Members(t)
  <2>1. PICK i \in 1..Len(s) : s[i] = y
    BY DEF Members
  <2>2. PICK j \in 1..Len(t) : Old(k, j) = i
    BY <2>1, <1>1, <1>4
  <2>3. t[j] = y
    BY <2>1, <2>2, <1>2
  <2>. QED
    BY <2>3 DEF Members
<1>. QED
  BY <1>1, <1>2, <1>4, <1>5, <1>6, <1>7 DEF t, k

-----------------------------------------------------------------------------
(* Each operator on a pool keeps the invariant. *)

LEMMA InListMembers ==
  ASSUME NEW p PROVE InList(p) = Members(p.sched)
  BY DEF InList, Members

\* Complete takes the transfer out of the list, from wherever it is.
LEMMA CompleteInv ==
  ASSUME NEW p, PoolInv(p), NEW x \in InList(p)
  PROVE  /\ PoolInv(Complete(p, x))
         /\ InList(Complete(p, x)) = InList(p) \ {x}
         /\ Complete(p, x).held = p.held
<1>. DEFINE s == p.sched
            t == Unlink(s, x)
            k == Position(s, x)
            c == Complete(p, x)
            next == NextOf(s, x)
<1>1. s \in Seq(Xfrs) /\ Distinct(s) /\ x \in Members(s) /\ x \in Xfrs
  BY InListMembers DEF PoolInv, PoolRecords, ListInv, Distinct, Members
<1>2. /\ t \in Seq(Xfrs) /\ Distinct(t)
      /\ Members(t) = Members(s) \ {x}
      /\ Len(t) = Len(s) - 1
      /\ k \in 1..Len(s) /\ s[k] = x
      /\ \A j \in 1..Len(t) : Old(k, j) \in 1..Len(s) /\ t[j] = s[Old(k, j)]
      /\ \A i, j \in 1..Len(t) : i < j => Old(k, i) < Old(k, j)
  BY <1>1, UnlinkMembers
<1>3. Len(s) \in Nat
  BY <1>1
<1>4. next = IF k < Len(s) THEN s[k + 1] ELSE NoXfr
  BY DEF NextOf
<1>. HIDE DEF t, k, next
<1>5. /\ c.loc = [p.loc EXCEPT ![x] = IF x \in p.detached THEN "cached" ELSE "assigned"]
      /\ c.sched = t
      /\ c.cur = IF p.cur = x THEN next ELSE p.cur
      /\ c.active = p.active \ {x}
      /\ c.detached = p.detached \ {x}
      /\ c.held = p.held
  BY DEF Complete, PoolInv, PoolRecords, t, next
<1>6. next \in (InList(p) \ {x}) \cup {NoXfr}
  <2>1. k < Len(s) => s[k + 1] \in InList(p) /\ s[k + 1] # x
    BY <1>1, <1>2, <1>3 DEF InList, Distinct
  <2>. QED
    BY <2>1, <1>4
<1>7. InList(c) = InList(p) \ {x}
  BY <1>2, <1>5, InListMembers
<1>8. InList(p) \subseteq Xfrs
  BY DEF InList, PoolInv, PoolRecords
<1>9. c \in PoolRecords
  <2>1. c.cur \in Xfrs \cup {NoXfr}
    BY <1>5, <1>6, <1>8 DEF PoolInv, PoolRecords
  <2>2. c.loc \in [Xfrs -> Locations]
    BY <1>5 DEF PoolInv, PoolRecords, Locations
  <2>3. c.active \in SUBSET Xfrs /\ c.detached \in SUBSET Xfrs /\ c.held \in SUBSET Xfrs
    BY <1>5 DEF PoolInv, PoolRecords
  <2>4. c.sched \in Seq(Xfrs)
    BY <1>2, <1>5
  <2>5. PICK l, q, u, a, d : c = [p EXCEPT !.loc = l, !.sched = q, !.cur = u,
                                           !.active = a, !.detached = d]
    BY DEF Complete
  <2>. HIDE DEF c
  <2>6. c.loc = l /\ c.sched = q /\ c.cur = u /\ c.active = a /\ c.detached = d
    BY <2>5 DEF PoolInv, PoolRecords
  <2>. QED
    BY <2>1, <2>2, <2>3, <2>4, <2>5, <2>6 DEF PoolRecords, PoolInv
<1>. HIDE DEF c
<1>10. ListInv(c)
  <2>1. Scheduled(c) = Scheduled(p) \ {x}
    BY <1>1, <1>5 DEF Scheduled, PoolInv, PoolRecords
  <2>2. c.cur = NoXfr \/ c.cur \in InList(c)
    BY <1>5, <1>6, <1>7 DEF PoolInv, ListInv
  <2>. QED
    BY <2>1, <2>2, <1>2, <1>5, <1>7 DEF PoolInv, ListInv, Distinct
<1>11. HeldInv(c)
  <2>1. p.loc[x] = "scheduled"
    BY <1>1 DEF PoolInv, ListInv, Scheduled
  <2>. QED
    BY <2>1, <1>1, <1>5, <1>7 DEF PoolInv, HeldInv, PoolRecords
<1>12. ActiveInv(c)
  <2>1. /\ p.cur = NoXfr => \A i \in 1..Len(s) : s[i] \in p.active
        /\ \A i, j \in 1..Len(s) : i < j =>
             /\ s[j] \in p.active => s[i] \in p.active
             /\ p.cur = s[j] => s[i] \in p.active
             /\ p.cur = s[i] => s[j] \notin p.active
    BY DEF PoolInv, ActiveInv, InList
  <2>2. \A j \in 1..Len(t) : t[j] # x
    BY <1>2 DEF Members
  <2>3. ASSUME c.cur = NoXfr, NEW j \in 1..Len(t)
        PROVE  t[j] \in c.active
    <3>1. CASE p.cur = x
      <4>1. k = Len(s)
        BY <3>1, <2>3, <1>1, <1>2, <1>3, <1>4, <1>5, <1>8, NoXfrAssumption DEF InList
      <4>2. Old(k, j) < k
        BY <4>1, <1>2, <1>3 DEF Old
      <4>. QED
        BY <4>2, <3>1, <2>1, <2>2, <1>2, <1>5
    <3>2. CASE p.cur # x
      BY <3>2, <2>1, <2>2, <2>3, <1>2, <1>5
    <3>. QED
      BY <3>1, <3>2
  <2>4. ASSUME NEW i \in 1..Len(t), NEW j \in 1..Len(t), i < j
        PROVE  /\ t[j] \in c.active => t[i] \in c.active
               /\ c.cur = t[j] => t[i] \in c.active
               /\ c.cur = t[i] => t[j] \notin c.active
    <3>. DEFINE i0 == Old(k, i)
                j0 == Old(k, j)
    <3>0. /\ i0 \in 1..Len(s) /\ j0 \in 1..Len(s) /\ i0 < j0
          /\ t[i] = s[i0] /\ t[j] = s[j0]
          /\ t[i] # x /\ t[j] # x
      BY <2>2, <2>4, <1>2
    <3>. HIDE DEF i0, j0
    <3>1. t[j] \in c.active => t[i] \in c.active
      BY <3>0, <2>1, <1>5
    <3>2. CASE p.cur # x
      BY <3>0, <3>1, <3>2, <2>1, <1>5
    <3>3. CASE p.cur = x
      <4>1. ASSUME NEW l \in 1..Len(t), c.cur = t[l]
            PROVE  l = k
        <5>1. t[l] \in Xfrs /\ t[l] # NoXfr
          BY <1>2, NoXfrAssumption
        <5>2. c.cur = next
          BY <3>3, <1>5
        <5>3. k < Len(s) /\ s[k + 1] = t[l]
          BY <5>1, <5>2, <4>1, <1>4
        <5>4. Old(k, l) \in 1..Len(s) /\ s[Old(k, l)] = s[k + 1] /\ k + 1 \in 1..Len(s)
          BY <5>3, <4>1, <1>2, <1>3
        <5>5. Old(k, l) = k + 1
          BY <5>4, <1>1 DEF Distinct
        <5>. QED
          BY <5>5, <1>2, <1>3 DEF Old
      <4>2. c.cur = t[j] => t[i] \in c.active
        <5>1. SUFFICES ASSUME c.cur = t[j] PROVE t[i] \in c.active
          OBVIOUS
        <5>2. j = k
          BY <5>1, <4>1
        <5>3. i < k /\ Old(k, i) = i
          BY <5>2, <2>4, <1>2, <1>3 DEF Old
        <5>. QED
          BY <5>3, <3>0, <3>3, <2>1, <1>2, <1>5 DEF i0
      <4>3. c.cur = t[i] => t[j] \notin c.active
        <5>1. SUFFICES ASSUME c.cur = t[i] PROVE t[j] \notin c.active
          OBVIOUS
        <5>2. i = k
          BY <5>1, <4>1
        <5>3. k < Old(k, j)
          BY <5>2, <2>4, <1>2, <1>3 DEF Old
        <5>. QED
          BY <5>3, <3>0, <3>3, <2>1, <1>2, <1>5 DEF j0
      <4>. QED
        BY <3>1, <4>2, <4>3
    <3>. QED
      BY <3>2, <3>3
  <2>. QED
    BY <2>3, <2>4, <1>5 DEF ActiveInv, InList
<1>. QED
  BY <1>5, <1>7, <1>9, <1>10, <1>11, <1>12 DEF PoolInv, c

LEMMA EmptyInv == PoolInv(EmptyPool) /\ InList(EmptyPool) = {}
  BY NoXfrAssumption
  DEF EmptyPool, PoolInv, PoolRecords, Locations, ListInv, HeldInv, ActiveInv, InList, Scheduled

LEMMA CreateInv ==
  ASSUME NEW p, PoolInv(p), NEW x \in Xfrs, CanCreate(p, x)
  PROVE  /\ PoolInv(Create(p, x))
         /\ InList(Create(p, x)) = InList(p)
         /\ Create(p, x).held = p.held \cup {x}
<1>. DEFINE c == Create(p, x)
<1>1. /\ c.loc = [p.loc EXCEPT ![x] = "assigned"] /\ c.held = p.held \cup {x}
      /\ c.sched = p.sched /\ c.cur = p.cur /\ c.active = p.active /\ c.detached = p.detached
      /\ c \in PoolRecords
  <2>1. PICK l, h : /\ l = [p.loc EXCEPT ![x] = "assigned"] /\ h = p.held \cup {x}
                    /\ c = [p EXCEPT !.loc = l, !.held = h]
    BY DEF Create
  <2>2. l \in [Xfrs -> Locations] /\ h \in SUBSET Xfrs
    BY <2>1 DEF PoolInv, PoolRecords, Locations
  <2>. HIDE DEF c
  <2>. QED
    BY <2>1, <2>2 DEF PoolInv, PoolRecords
<1>2. p.loc[x] # "scheduled"
  BY DEF CanCreate
<1>. HIDE DEF c
<1>3. InList(c) = InList(p) /\ Scheduled(c) = Scheduled(p)
  BY <1>1, <1>2 DEF InList, Scheduled, PoolInv, PoolRecords
<1>4. ListInv(c) /\ ActiveInv(c)
  BY <1>1, <1>3 DEF PoolInv, ListInv, ActiveInv
<1>5. HeldInv(c)
  BY <1>1, <1>2, <1>3 DEF PoolInv, HeldInv, PoolRecords
<1>. QED
  BY <1>1, <1>3, <1>4, <1>5 DEF PoolInv, c

LEMMA ScheduleInv ==
  ASSUME NEW p, PoolInv(p), NEW x \in Xfrs, CanSchedule(p, x)
  PROVE  /\ PoolInv(Schedule(p, x))
         /\ InList(Schedule(p, x)) = InList(p) \cup {x}
         /\ Schedule(p, x).held = p.held
<1>. DEFINE c == Schedule(p, x)
            s == p.sched
            n == Len(s)
<1>1. s \in Seq(Xfrs) /\ n \in Nat
  BY DEF PoolInv, PoolRecords
<1>2. /\ c.loc = [p.loc EXCEPT ![x] = "scheduled"] /\ c.held = p.held
      /\ c.sched = Append(s, x) /\ c.cur = (IF p.cur = NoXfr THEN x ELSE p.cur)
      /\ c.active = p.active /\ c.detached = p.detached
      /\ c \in PoolRecords
  <2>1. PICK l, q, u : /\ l = [p.loc EXCEPT ![x] = "scheduled"] /\ q = Append(s, x)
                       /\ u = (IF p.cur = NoXfr THEN x ELSE p.cur)
                       /\ c = [p EXCEPT !.loc = l, !.sched = q, !.cur = u]
    BY DEF Schedule
  <2>2. l \in [Xfrs -> Locations] /\ q \in Seq(Xfrs) /\ u \in Xfrs \cup {NoXfr}
    BY <2>1, <1>1 DEF PoolInv, PoolRecords, Locations
  <2>. HIDE DEF c
  <2>. QED
    BY <2>1, <2>2 DEF PoolInv, PoolRecords
<1>3. x \notin InList(p) /\ x \notin p.active /\ x \notin p.detached /\ x \in p.held /\ x # NoXfr
  BY NoXfrAssumption DEF CanSchedule, PoolInv, ListInv, HeldInv, Scheduled
<1>. HIDE DEF c
<1>4. /\ Len(c.sched) = n + 1 /\ c.sched[n + 1] = x
      /\ \A i \in 1..n : c.sched[i] = s[i] /\ s[i] # x
  BY <1>1, <1>2, <1>3 DEF InList
<1>5. InList(c) = InList(p) \cup {x}
  <2>1. ASSUME NEW y \in InList(c) PROVE y \in InList(p) \cup {x}
    <3>1. PICK i \in 1..(n + 1) : c.sched[i] = y
      BY <1>4 DEF InList
    <3>2. CASE i = n + 1
      BY <3>1, <3>2, <1>4
    <3>3. CASE i \in 1..n
      BY <3>1, <3>3, <1>4 DEF InList
    <3>. QED
      BY <3>2, <3>3, <1>1
  <2>2. ASSUME NEW y \in InList(p) PROVE y \in InList(c)
    <3>1. PICK i \in 1..n : s[i] = y
      BY DEF InList
    <3>2. i \in 1..Len(c.sched)
      BY <1>1, <1>4
    <3>. QED
      BY <3>1, <3>2, <1>4 DEF InList
  <2>3. x \in InList(c)
    <3>1. n + 1 \in 1..Len(c.sched)
      BY <1>1, <1>4
    <3>. QED
      BY <3>1, <1>4 DEF InList
  <2>. QED
    BY <2>1, <2>2, <2>3
<1>6. ListInv(c)
  <2>1. Scheduled(c) = Scheduled(p) \cup {x}
    BY <1>2 DEF Scheduled, PoolInv, PoolRecords
  <2>2. ASSUME NEW i \in 1..(n + 1), NEW j \in 1..(n + 1), c.sched[i] = c.sched[j], i < j
        PROVE  FALSE
    <3>1. i \in 1..n
      BY <2>2, <1>1
    <3>2. CASE j \in 1..n
      BY <3>1, <3>2, <2>2, <1>4 DEF PoolInv, ListInv
    <3>3. CASE j = n + 1
      BY <3>1, <3>3, <2>2, <1>4
    <3>. QED
      BY <3>2, <3>3, <1>1
  <2>3. \A i, j \in 1..Len(c.sched) : c.sched[i] = c.sched[j] => i = j
    BY <2>2, <1>1, <1>4
  <2>4. c.cur = NoXfr \/ c.cur \in InList(c)
    BY <1>2, <1>5 DEF PoolInv, ListInv
  <2>. QED
    BY <2>1, <2>3, <2>4, <1>5 DEF PoolInv, ListInv
<1>7. HeldInv(c)
  BY <1>2, <1>3, <1>5 DEF PoolInv, HeldInv, PoolRecords, CanSchedule
<1>8. ActiveInv(c)
  <2>1. c.cur # NoXfr
    BY <1>2, <1>3
  <2>2. ASSUME NEW i \in 1..(n + 1), NEW j \in 1..(n + 1), i < j
        PROVE  /\ c.sched[j] \in p.active => c.sched[i] \in p.active
               /\ c.cur = c.sched[j] => c.sched[i] \in p.active
               /\ c.cur = c.sched[i] => c.sched[j] \notin p.active
    <3>1. i \in 1..n /\ s[i] \in InList(p)
      BY <2>2, <1>1 DEF InList
    <3>2. CASE j = n + 1
      BY <3>1, <3>2, <1>2, <1>3, <1>4 DEF PoolInv, ActiveInv, ListInv
    <3>3. CASE j \in 1..n
      <4>1. s[j] \in InList(p)
        BY <3>3 DEF InList
      <4>2. c.cur = s[i] \/ c.cur = s[j] => p.cur = c.cur
        BY <3>1, <4>1, <1>2, <1>3
      <4>3. /\ s[j] \in p.active => s[i] \in p.active
            /\ p.cur = s[j] => s[i] \in p.active
            /\ p.cur = s[i] => s[j] \notin p.active
        BY <2>2, <3>1, <3>3 DEF PoolInv, ActiveInv
      <4>. QED
        BY <3>1, <3>3, <4>2, <4>3, <1>4
    <3>. QED
      BY <3>2, <3>3, <1>1
  <2>. QED
    BY <2>1, <2>2, <1>2, <1>4 DEF ActiveInv
<1>. QED
  BY <1>2, <1>5, <1>6, <1>7, <1>8 DEF PoolInv, c

LEMMA CancelInv ==
  ASSUME NEW p, PoolInv(p), NEW x \in p.held
  PROVE  /\ PoolInv(Cancel(p, x))
         /\ InList(Cancel(p, x)) = IF Cancels(p, x) THEN InList(p) \ {x} ELSE InList(p)
         /\ Cancel(p, x).held = p.held
<1>1. CASE Cancels(p, x)
  <2>1. x \in InList(p)
    BY <1>1 DEF Cancels, PoolInv, PoolRecords, ListInv, Scheduled
  <2>. QED
    BY <1>1, <2>1, CompleteInv DEF Cancel
<1>2. CASE ~Cancels(p, x)
  BY <1>2 DEF Cancel
<1>. QED
  BY <1>1, <1>2

LEMMA DestroyInv ==
  ASSUME NEW p, PoolInv(p), NEW x \in p.held
  PROVE  /\ PoolInv(Destroy(p, x))
         /\ InList(Destroy(p, x)) = IF Cancels(p, x) THEN InList(p) \ {x} ELSE InList(p)
         /\ Destroy(p, x).held = p.held \ {x}
<1>. DEFINE c == Cancel(p, x)
            d == Destroy(p, x)
<1>1. PoolInv(c) /\ c.held = p.held
  BY CancelInv
<1>2. InList(c) = IF Cancels(p, x) THEN InList(p) \ {x} ELSE InList(p)
  BY CancelInv
<1>3. x \in Xfrs
  BY DEF PoolInv, PoolRecords
<1>4. d = IF c.loc[x] = "assigned"
          THEN [c EXCEPT !.loc = [@ EXCEPT ![x] = "cached"], !.held = @ \ {x}]
          ELSE [c EXCEPT !.detached = @ \cup {x}, !.held = @ \ {x}]
  BY DEF Destroy
<1>. HIDE DEF c, d
<1>5. CASE c.loc[x] = "assigned"
  <2>1. /\ d.loc = [c.loc EXCEPT ![x] = "cached"] /\ d.held = c.held \ {x}
        /\ d.sched = c.sched /\ d.cur = c.cur /\ d.active = c.active /\ d.detached = c.detached
        /\ d \in PoolRecords
    BY <1>1, <1>4, <1>5 DEF PoolInv, PoolRecords, Locations
  <2>2. InList(d) = InList(c) /\ Scheduled(d) = Scheduled(c)
    BY <2>1, <1>1, <1>5 DEF InList, Scheduled, PoolInv, PoolRecords
  <2>3. ListInv(d) /\ ActiveInv(d)
    BY <2>1, <2>2, <1>1 DEF PoolInv, ListInv, ActiveInv
  <2>4. HeldInv(d)
    BY <2>1, <2>2, <1>1, <1>3 DEF PoolInv, HeldInv, PoolRecords
  <2>. QED
    BY <2>1, <2>2, <2>3, <2>4, <1>1, <1>2 DEF PoolInv, d
<1>6. CASE c.loc[x] # "assigned"
  <2>1. /\ d.detached = c.detached \cup {x} /\ d.held = c.held \ {x}
        /\ d.sched = c.sched /\ d.cur = c.cur /\ d.active = c.active /\ d.loc = c.loc
        /\ d \in PoolRecords
    BY <1>1, <1>3, <1>4, <1>6 DEF PoolInv, PoolRecords
  <2>2. InList(d) = InList(c) /\ Scheduled(d) = Scheduled(c)
    BY <2>1 DEF InList, Scheduled
  <2>3. x \in InList(c)
    BY <1>1, <1>3, <1>6 DEF PoolInv, HeldInv, ListInv, Scheduled
  <2>4. ListInv(d) /\ ActiveInv(d)
    BY <2>1, <2>2, <1>1 DEF PoolInv, ListInv, ActiveInv
  <2>5. HeldInv(d)
    BY <2>1, <2>2, <2>3, <1>1, <1>3, <1>6 DEF PoolInv, HeldInv, PoolRecords
  <2>. QED
    BY <2>1, <2>2, <2>4, <2>5, <1>1, <1>2 DEF PoolInv, d
<1>. QED
  BY <1>5, <1>6

LEMMA TransmitInv ==
  ASSUME NEW p, PoolInv(p), p.cur # NoXfr, NEW all \in BOOLEAN
  PROVE  /\ PoolInv(Transmit(p, all))
         /\ InList(Transmit(p, all)) = InList(p)
         /\ Transmit(p, all).held = p.held
<1>. DEFINE c == Transmit(p, all)
            s == p.sched
            k == Position(s, p.cur)
            next == NextOf(s, p.cur)
<1>1. s \in Seq(Xfrs) /\ Len(s) \in Nat /\ p.cur \in InList(p) /\ p.cur \in Xfrs
  BY DEF PoolInv, PoolRecords, ListInv
<1>2. k \in 1..Len(s) /\ s[k] = p.cur
  BY <1>1, PositionFact DEF InList
<1>3. next = IF k < Len(s) THEN s[k + 1] ELSE NoXfr
  BY DEF NextOf
<1>. HIDE DEF next, k
<1>4. next \in InList(p) \cup {NoXfr}
  <2>1. k < Len(s) => k + 1 \in 1..Len(s)
    BY <1>1, <1>2
  <2>. QED
    BY <2>1, <1>3 DEF InList
<1>5. /\ c.active = p.active \cup {p.cur} /\ c.cur = (IF all THEN next ELSE p.cur)
      /\ c.loc = p.loc /\ c.sched = s /\ c.detached = p.detached /\ c.held = p.held
      /\ c \in PoolRecords
  <2>1. PICK a, u : /\ a = p.active \cup {p.cur} /\ u = (IF all THEN next ELSE p.cur)
                    /\ c = [p EXCEPT !.active = a, !.cur = u]
    BY DEF Transmit, next
  <2>2. a \in SUBSET Xfrs /\ u \in Xfrs \cup {NoXfr}
    BY <2>1, <1>1, <1>4 DEF PoolInv, PoolRecords, InList
  <2>. HIDE DEF c
  <2>. QED
    BY <2>1, <2>2 DEF PoolInv, PoolRecords
<1>. HIDE DEF c
<1>6. InList(c) = InList(p) /\ Scheduled(c) = Scheduled(p)
  BY <1>5 DEF InList, Scheduled
<1>7. ListInv(c)
  BY <1>1, <1>4, <1>5, <1>6 DEF PoolInv, ListInv
<1>8. HeldInv(c)
  BY <1>1, <1>5, <1>6 DEF PoolInv, HeldInv
<1>9. ActiveInv(c)
  <2>1. \A i, j \in 1..Len(s) : i < j =>
          /\ s[j] \in p.active => s[i] \in p.active
          /\ p.cur = s[j] => s[i] \in p.active
          /\ p.cur = s[i] => s[j] \notin p.active
    BY DEF PoolInv, ActiveInv
  <2>2. \A i, j \in 1..Len(s) : s[i] = s[j] => i = j
    BY DEF PoolInv, ListInv
  <2>3. \A i \in 1..Len(s) : i <= k => s[i] \in c.active
    BY <2>1, <1>1, <1>2, <1>5
  <2>4. \A i \in 1..Len(s) : i > k => s[i] \notin c.active
    BY <2>1, <2>2, <1>1, <1>2, <1>5
  <2>5. CASE ~all
    <3>1. c.cur = s[k] /\ c.cur # NoXfr
      BY <2>5, <1>2, <1>5
    <3>2. ASSUME NEW i \in 1..Len(s), NEW j \in 1..Len(s), i < j
          PROVE  /\ s[j] \in c.active => s[i] \in c.active
                 /\ c.cur = s[j] => s[i] \in c.active
                 /\ c.cur = s[i] => s[j] \notin c.active
      BY <3>1, <3>2, <2>2, <2>3, <2>4, <1>1, <1>2
    <3>. QED
      BY <3>1, <3>2, <1>5 DEF ActiveInv
  <2>6. CASE all /\ k < Len(s)
    <3>1. c.cur = s[k + 1] /\ k + 1 \in 1..Len(s) /\ s[k + 1] \in Xfrs
      BY <2>6, <1>1, <1>2, <1>3, <1>5
    <3>2. ASSUME NEW i \in 1..Len(s), NEW j \in 1..Len(s), i < j
          PROVE  /\ s[j] \in c.active => s[i] \in c.active
                 /\ c.cur = s[j] => s[i] \in c.active
                 /\ c.cur = s[i] => s[j] \notin c.active
      BY <3>1, <3>2, <2>2, <2>3, <2>4, <1>1, <1>2
    <3>. QED
      BY <3>1, <3>2, <1>5, NoXfrAssumption DEF ActiveInv
  <2>7. CASE all /\ ~(k < Len(s))
    <3>1. c.cur = NoXfr /\ \A i \in 1..Len(s) : s[i] \in c.active /\ s[i] # NoXfr
      BY <2>7, <2>3, <1>1, <1>2, <1>3, <1>5, NoXfrAssumption
    <3>. QED
      BY <3>1, <1>5 DEF ActiveInv, InList
  <2>. QED
    BY <2>5, <2>6, <2>7
<1>. QED
  BY <1>5, <1>6, <1>7, <1>8, <1>9 DEF PoolInv, c

LEMMA CompleteAllInv ==
  ASSUME NEW p, PoolInv(p)
  PROVE  /\ PoolInv(CompleteAll(p))
         /\ InList(CompleteAll(p)) = {}
         /\ CompleteAll(p).held = p.held
<1>. DEFINE c == CompleteAll(p)
<1>1. /\ c.loc = [x \in Xfrs |-> IF p.loc[x] # "scheduled" THEN p.loc[x]
                                 ELSE IF x \in p.detached THEN "cached" ELSE "assigned"]
      /\ c.sched = <<>> /\ c.cur = NoXfr /\ c.active = {} /\ c.detached = {} /\ c.held = p.held
      /\ c \in PoolRecords
  <2>1. PICK l : /\ l = [x \in Xfrs |-> IF p.loc[x] # "scheduled" THEN p.loc[x]
                                        ELSE IF x \in p.detached THEN "cached" ELSE "assigned"]
                 /\ c = [p EXCEPT !.loc = l, !.sched = <<>>, !.cur = NoXfr,
                                  !.active = {}, !.detached = {}]
    BY DEF CompleteAll
  <2>2. l \in [Xfrs -> Locations] /\ <<>> \in Seq(Xfrs)
    BY <2>1 DEF PoolInv, PoolRecords, Locations
  <2>. HIDE DEF c
  <2>. QED
    BY <2>1, <2>2 DEF PoolInv, PoolRecords
<1>. HIDE DEF c
<1>2. InList(c) = {} /\ Scheduled(c) = {}
  <2>1. InList(c) = {}
    BY <1>1 DEF InList
  <2>2. \A x \in Xfrs : c.loc[x] # "scheduled"
    BY <1>1
  <2>. QED
    BY <2>1, <2>2 DEF Scheduled
<1>3. ListInv(c) /\ ActiveInv(c)
  BY <1>1, <1>2 DEF ListInv, ActiveInv
<1>4. HeldInv(c)
  BY <1>1, <1>2 DEF PoolInv, HeldInv, PoolRecords
<1>. QED
  BY <1>1, <1>2, <1>3, <1>4 DEF PoolInv, c

-----------------------------------------------------------------------------
(* The life of the objects *)

\* A step of the lists of one interface, on their values before and after.
Moves(p, q) ==
  \/ \E x \in Xfrs :
       \/ CanCreate(p, x) /\ q = Create(p, x)
       \/ CanSchedule(p, x) /\ q = Schedule(p, x)
       \/ x \in p.held /\ q = Cancel(p, x)
       \/ x \in p.held /\ q = Destroy(p, x)
  \/ \E all \in BOOLEAN : p.cur # NoXfr /\ q = Transmit(p, all)
  \/ p.sched # <<>> /\ q = Complete(p, Head(p.sched))
  \/ q = CompleteAll(p)
  \/ q = EmptyPool

(* Whatever is called and in whatever order transfers end, the lists, the *)
(* flags and what the application holds agree.                            *)
LEMMA MovesInv ==
  ASSUME NEW p, NEW q, PoolInv(p), Moves(p, q)
  PROVE  PoolInv(q)
<1>1. ASSUME NEW x \in Xfrs, CanCreate(p, x), q = Create(p, x) PROVE PoolInv(q)
  BY <1>1, CreateInv
<1>2. ASSUME NEW x \in Xfrs, CanSchedule(p, x), q = Schedule(p, x) PROVE PoolInv(q)
  BY <1>2, ScheduleInv
<1>3. ASSUME NEW x \in Xfrs, x \in p.held, q = Cancel(p, x) PROVE PoolInv(q)
  BY <1>3, CancelInv
<1>4. ASSUME NEW x \in Xfrs, x \in p.held, q = Destroy(p, x) PROVE PoolInv(q)
  BY <1>4, DestroyInv
<1>5. ASSUME NEW all \in BOOLEAN, p.cur # NoXfr, q = Transmit(p, all) PROVE PoolInv(q)
  BY <1>5, TransmitInv
<1>6. ASSUME p.sched # <<>>, q = Complete(p, Head(p.sched)) PROVE PoolInv(q)
  <2>1. Head(p.sched) \in InList(p)
    BY <1>6 DEF PoolInv, PoolRecords, InList
  <2>. QED
    BY <2>1, <1>6, CompleteInv
<1>7. ASSUME q = CompleteAll(p) PROVE PoolInv(q)
  BY <1>7, CompleteAllInv
<1>8. ASSUME q = EmptyPool PROVE PoolInv(q)
  BY <1>8, EmptyInv
<1>. QED
  BY <1>1, <1>2, <1>3, <1>4, <1>5, <1>6, <1>7, <1>8 DEF Moves

-----------------------------------------------------------------------------
(* The promise. *)

\* The steps of AxicatTransfers, on the status of the objects before and after.
Allowed ==
  {<<"free", "owned">>, <<"owned", "scheduled">>,
   <<"scheduled", "owned">>, <<"orphan", "free">>,
   <<"owned", "free">>, <<"scheduled", "free">>, <<"scheduled", "orphan">>}

Promised(a, b) ==
  \/ \E x \in Xfrs : <<a[x], b[x]>> \in Allowed /\ b = [a EXCEPT ![x] = b[x]]
  \/ b = [x \in Xfrs |-> CASE a[x] = "scheduled" -> "owned"
                            [] a[x] = "orphan" -> "free"
                            [] OTHER -> a[x]]
  \/ b = [x \in Xfrs |-> "free"]
  \/ b = a

\* An object's status follows from whether it is held and in the list.
LEMMA StatusOf ==
  ASSUME NEW p, NEW x \in Xfrs
  PROVE  /\ x \in p.held /\ x \in InList(p) => Status(p)[x] = "scheduled"
         /\ x \in p.held /\ x \notin InList(p) => Status(p)[x] = "owned"
         /\ x \notin p.held /\ x \in InList(p) => Status(p)[x] = "orphan"
         /\ x \notin p.held /\ x \notin InList(p) => Status(p)[x] = "free"
  BY DEF Status

\* A step that concerns one object leaves the status of the others alone.
LEMMA StatusMoves ==
  ASSUME NEW p, NEW q, NEW x,
         q.held \ {x} = p.held \ {x}, InList(q) \ {x} = InList(p) \ {x}
  PROVE  Status(q) = [Status(p) EXCEPT ![x] = Status(q)[x]]
<1>1. ASSUME NEW y \in Xfrs, y # x
      PROVE  Status(q)[y] = Status(p)[y]
  <2>1. (y \in q.held <=> y \in p.held) /\ (y \in InList(q) <=> y \in InList(p))
    BY <1>1
  <2>. QED
    BY <2>1 DEF Status
<1>. QED
  BY <1>1 DEF Status

LEMMA StatusSame ==
  ASSUME NEW p, NEW q, q.held = p.held, InList(q) = InList(p)
  PROVE  Status(q) = Status(p)
  BY DEF Status

(* Every object is the application's own until it destroys it, and one that *)
(* was destroyed early is handed out again only after its transfer has      *)
(* ended.                                                                   *)
LEMMA MovesPromised ==
  ASSUME NEW p, NEW q, PoolInv(p), Moves(p, q)
  PROVE  Promised(Status(p), Status(q))
<1>0. ASSUME NEW x \in Xfrs,
             q.held \ {x} = p.held \ {x}, InList(q) \ {x} = InList(p) \ {x},
             <<Status(p)[x], Status(q)[x]>> \in Allowed
      PROVE  Promised(Status(p), Status(q))
  <2>1. Status(q) = [Status(p) EXCEPT ![x] = Status(q)[x]]
    BY <1>0, StatusMoves
  <2>. QED
    BY <2>1, <1>0 DEF Promised
<1>1. ASSUME NEW x \in Xfrs, CanCreate(p, x), q = Create(p, x) PROVE Promised(Status(p), Status(q))
  <2>1. q = Create(p, x) /\ x \notin p.held /\ x \notin InList(p)
    BY <1>1 DEF CanCreate, PoolInv, HeldInv, ListInv, Scheduled
  <2>2. InList(q) = InList(p) /\ q.held = p.held \cup {x}
    BY <1>1, <2>1, CreateInv
  <2>3. Status(p)[x] = "free" /\ Status(q)[x] = "owned"
    BY <2>1, <2>2, StatusOf
  <2>. QED
    BY <1>0, <2>2, <2>3 DEF Allowed
<1>2. ASSUME NEW x \in Xfrs, CanSchedule(p, x), q = Schedule(p, x) PROVE Promised(Status(p), Status(q))
  <2>1. q = Schedule(p, x) /\ x \in p.held /\ x \notin InList(p)
    BY <1>2 DEF CanSchedule, PoolInv, ListInv, Scheduled
  <2>2. InList(q) = InList(p) \cup {x} /\ q.held = p.held
    BY <1>2, <2>1, ScheduleInv
  <2>3. Status(p)[x] = "owned" /\ Status(q)[x] = "scheduled"
    BY <2>1, <2>2, StatusOf
  <2>. QED
    BY <1>0, <2>2, <2>3 DEF Allowed
<1>3. ASSUME NEW x \in Xfrs, x \in p.held, q = Cancel(p, x) PROVE Promised(Status(p), Status(q))
  <2>1. /\ q = Cancel(p, x) /\ x \in p.held /\ q.held = p.held
        /\ InList(q) = IF Cancels(p, x) THEN InList(p) \ {x} ELSE InList(p)
    BY <1>3, CancelInv
  <2>2. CASE Cancels(p, x)
    <3>1. x \in InList(p)
      BY <2>2 DEF Cancels, PoolInv, ListInv, Scheduled
    <3>2. Status(p)[x] = "scheduled" /\ Status(q)[x] = "owned"
      BY <2>1, <2>2, <3>1, StatusOf
    <3>. QED
      BY <1>0, <2>1, <2>2, <3>2 DEF Allowed
  <2>3. CASE ~Cancels(p, x)
    BY <2>1, <2>3, StatusSame DEF Promised
  <2>. QED
    BY <2>2, <2>3
<1>4. ASSUME NEW x \in Xfrs, x \in p.held, q = Destroy(p, x) PROVE Promised(Status(p), Status(q))
  <2>1. /\ q = Destroy(p, x) /\ x \in p.held /\ q.held = p.held \ {x}
        /\ InList(q) = IF Cancels(p, x) THEN InList(p) \ {x} ELSE InList(p)
    BY <1>4, DestroyInv
  <2>2. /\ Status(p)[x] \in {"scheduled", "owned"}
        /\ x \notin InList(p) => Status(p)[x] = "owned"
        /\ x \in InList(p) => Status(p)[x] = "scheduled"
    BY <2>1, StatusOf
  <2>3. x \in InList(q) => x \in InList(p) /\ Status(q)[x] = "orphan"
    BY <2>1, StatusOf
  <2>4. x \notin InList(q) => Status(q)[x] = "free"
    BY <2>1, StatusOf
  <2>5. <<Status(p)[x], Status(q)[x]>> \in Allowed
    BY <2>2, <2>3, <2>4 DEF Allowed
  <2>. QED
    BY <1>0, <2>1, <2>5
<1>5. ASSUME NEW all \in BOOLEAN, p.cur # NoXfr, q = Transmit(p, all)
      PROVE  Promised(Status(p), Status(q))
  BY <1>5, TransmitInv, StatusSame DEF Promised
<1>6. ASSUME p.sched # <<>>, q = Complete(p, Head(p.sched)) PROVE Promised(Status(p), Status(q))
  <2>. DEFINE x == Head(p.sched)
  <2>1. x \in InList(p) /\ x \in Xfrs
    BY <1>6 DEF PoolInv, PoolRecords, InList
  <2>. HIDE DEF x
  <2>2. q = Complete(p, x)
    BY <1>6 DEF x
  <2>3. InList(q) = InList(p) \ {x} /\ q.held = p.held
    BY <2>1, <2>2, CompleteInv
  <2>4. /\ x \in p.held => Status(p)[x] = "scheduled" /\ Status(q)[x] = "owned"
        /\ x \notin p.held => Status(p)[x] = "orphan" /\ Status(q)[x] = "free"
    BY <2>1, <2>3, StatusOf
  <2>5. <<Status(p)[x], Status(q)[x]>> \in Allowed
    BY <2>4 DEF Allowed
  <2>. QED
    BY <1>0, <2>1, <2>3, <2>5
<1>7. ASSUME q = CompleteAll(p) PROVE Promised(Status(p), Status(q))
  <2>1. q = CompleteAll(p) /\ InList(q) = {} /\ q.held = p.held
    BY <1>7, CompleteAllInv
  <2>2. Status(q) = [x \in Xfrs |-> CASE Status(p)[x] = "scheduled" -> "owned"
                                          [] Status(p)[x] = "orphan" -> "free"
                                          [] OTHER -> Status(p)[x]]
    BY <2>1 DEF Status
  <2>. QED
    BY <2>2 DEF Promised
<1>8. ASSUME q = EmptyPool PROVE Promised(Status(p), Status(q))
  <2>1. Status(q) = [x \in Xfrs |-> "free"]
    BY <1>8, EmptyInv DEF Status, EmptyPool
  <2>. QED
    BY <2>1 DEF Promised
<1>. QED
  BY <1>1, <1>2, <1>3, <1>4, <1>5, <1>6, <1>7, <1>8 DEF Moves

=============================================================================
