------------------------ MODULE AxicatReplies_proofs ------------------------
(***************************************************************************)
(* The replies on their way to the host, and what GPIO, SPI and UART make  *)
(* of them, whatever the other interfaces do at the same time (the whole   *)
(* Next of Axicat).  An interface and its flight, the replies to it that   *)
(* were not read yet and the commands the device still has, agree so that  *)
(* every check of Step_Rx lets the next reply pass, whatever the           *)
(* application does to the transfers in between.                           *)
(***************************************************************************)
EXTENDS AxicatCard_proofs, FiniteSetTheorems

-----------------------------------------------------------------------------
(* Induction, and the two recursive functions on sequences. *)

\* A set of numbers that is closed under successor, from 0 on: if it left one
\* out, those it leaves out below would be one less than themselves.
LEMMA NatSet ==
  ASSUME NEW S, 0 \in S, \A n \in Nat : n \in S => n + 1 \in S
  PROVE  Nat \subseteq S
<1>1. SUFFICES ASSUME NEW n \in Nat, n \notin S PROVE FALSE
  OBVIOUS
<1>. DEFINE A == {k \in 0..n : k \notin S}
            f == [k \in A |-> k - 1]
<1>2. IsFiniteSet(0..n)
  BY FS_Interval
<1>3. IsFiniteSet(A) /\ n \in A
  BY <1>1, <1>2, FS_Subset
<1>4. /\ IsFiniteSet(A \ {n}) /\ Cardinality(A \ {n}) = Cardinality(A) - 1
      /\ Cardinality(A) \in Nat
  BY <1>3, FS_RemoveElement, FS_CardinalityType
<1>5. \A k \in A : k \in Nat /\ k # 0 /\ k <= n
  OBVIOUS
<1>6. \A k \in A : k - 1 \in A \ {n}
  <2>1. TAKE k \in A
  <2>2. k - 1 \in 0..n /\ k - 1 # n
    BY <1>5
  <2>3. k - 1 \in S => k \in S
    BY <1>5
  <2>. QED
    BY <2>2, <2>3
<1>7. f \in [A -> A \ {n}]
  BY <1>6
<1>8. \A i, j \in A : f[i] = f[j] => i = j
  BY <1>5
<1>9. f \in Injection(A, A \ {n})
  BY <1>7, <1>8 DEF Injection, IsInjective
<1>10. Cardinality(A) <= Cardinality(A \ {n})
  <2>. HIDE DEF A, f
  <2>. QED
    BY <1>3, <1>4, <1>9, FS_Injection DEF ExistsInjection
<1>. QED
  BY <1>4, <1>10

LOCAL INSTANCE FiniteSetsExt

\* The sums of the first terms.
SumsTo(f, ns, m) ==
  /\ f \in [0..m -> Nat]
  /\ f[0] = 0 /\ \A i \in 1..m : f[i] = f[i - 1] + ns[i]

Sums(f, ns) == SumsTo(f, ns, Len(ns))

LEMMA SumsExist ==
  ASSUME NEW ns \in Seq(Nat)
  PROVE  \E f : Sums(f, ns)
<1>. DEFINE D == {m \in Nat : m <= Len(ns) => \E f : SumsTo(f, ns, m)}
<1>0. Len(ns) \in Nat /\ \A i \in 1..Len(ns) : ns[i] \in Nat
  OBVIOUS
<1>1. 0 \in D
  <2>1. SumsTo([i \in 0..0 |-> 0], ns, 0)
    BY DEF SumsTo
  <2>. QED
    BY <2>1
<1>2. ASSUME NEW m \in Nat, m \in D PROVE m + 1 \in D
  <2>1. SUFFICES ASSUME m + 1 <= Len(ns) PROVE \E f : SumsTo(f, ns, m + 1)
    OBVIOUS
  <2>2. PICK f : SumsTo(f, ns, m)
    BY <1>0, <1>2, <2>1
  <2>. DEFINE e == [i \in 0..(m + 1) |-> IF i <= m THEN f[i] ELSE f[m] + ns[m + 1]]
  <2>3. f[m] \in Nat /\ ns[m + 1] \in Nat
    BY <1>0, <2>1, <2>2 DEF SumsTo
  <2>4. e \in [0..(m + 1) -> Nat] /\ e[0] = 0
    BY <2>2, <2>3 DEF SumsTo
  <2>5. ASSUME NEW i \in 1..(m + 1) PROVE e[i] = e[i - 1] + ns[i]
    <3>1. CASE i = m + 1
      BY <2>3, <3>1
    <3>2. CASE i # m + 1
      <4>1. i \in 1..m /\ i - 1 \in 0..m
        BY <3>2
      <4>. QED
        BY <4>1, <2>2 DEF SumsTo
    <3>. QED
      BY <3>1, <3>2
  <2>6. SumsTo(e, ns, m + 1)
    <3>. HIDE DEF e
    <3>. QED
      BY <2>4, <2>5 DEF SumsTo
  <2>. QED
    BY <2>6
<1>. HIDE DEF D
<1>3. Nat \subseteq D
  BY <1>1, <1>2, NatSet
<1>. QED
  BY <1>0, <1>3 DEF D, Sums

LEMMA TotalIs ==
  ASSUME NEW ns \in Seq(Nat), NEW f, Sums(f, ns)
  PROVE  Total(ns) = f[Len(ns)]
<1>. DEFINE F == CHOOSE h : h = [i \in 0..Len(ns) |-> IF i = 0 THEN 0 ELSE h[i - 1] + ns[i]]
            D == {m \in Nat : m <= Len(ns) => F[m] = f[m]}
<1>0. Len(ns) \in Nat
  OBVIOUS
<1>1. f = [i \in 0..Len(ns) |-> IF i = 0 THEN 0 ELSE f[i - 1] + ns[i]]
  BY <1>0 DEF Sums, SumsTo
<1>2. F = [i \in 0..Len(ns) |-> IF i = 0 THEN 0 ELSE F[i - 1] + ns[i]]
  BY <1>1
<1>3. Total(ns) = F[Len(ns)]
  BY DEF Total
<1>. HIDE DEF F
<1>4. 0 \in D
  BY <1>0, <1>2 DEF Sums, SumsTo
<1>5. ASSUME NEW m \in Nat, m \in D PROVE m + 1 \in D
  BY <1>0, <1>2, <1>5 DEF Sums, SumsTo
<1>. HIDE DEF D
<1>6. Nat \subseteq D
  BY <1>4, <1>5, NatSet
<1>. QED
  BY <1>0, <1>3, <1>6 DEF D

LEMMA TotalFacts ==
  ASSUME NEW ns \in Seq(Nat)
  PROVE  /\ Total(ns) \in Nat
         /\ ns = <<>> => Total(ns) = 0
         /\ \A k \in Nat : Total(Append(ns, k)) = Total(ns) + k
         /\ ns # <<>> => Total(ns) = Head(ns) + Total(Tail(ns))
<1>0. Len(ns) \in Nat /\ \A i \in 1..Len(ns) : ns[i] \in Nat
  OBVIOUS
<1>1. PICK f : Sums(f, ns)
  BY SumsExist
<1>2. Total(ns) = f[Len(ns)]
  BY <1>1, TotalIs
<1>3. Total(ns) \in Nat /\ (ns = <<>> => Total(ns) = 0)
  BY <1>0, <1>1, <1>2 DEF Sums, SumsTo
<1>4. ASSUME NEW k \in Nat PROVE Total(Append(ns, k)) = Total(ns) + k
  <2>. DEFINE a == Append(ns, k)
              e == [i \in 0..Len(a) |-> IF i <= Len(ns) THEN f[i] ELSE f[Len(ns)] + k]
  <2>1. /\ a \in Seq(Nat) /\ Len(a) = Len(ns) + 1
        /\ a[Len(ns) + 1] = k /\ \A i \in 1..Len(ns) : a[i] = ns[i]
    OBVIOUS
  <2>. HIDE DEF a
  <2>2. Sums(e, a)
    <3>1. \A i \in 0..Len(ns) : f[i] \in Nat
      BY <1>1 DEF Sums, SumsTo
    <3>2. e \in [0..Len(a) -> Nat] /\ e[0] = 0
      BY <1>0, <1>1, <2>1, <3>1 DEF Sums, SumsTo
    <3>3. ASSUME NEW i \in 1..Len(a) PROVE e[i] = e[i - 1] + a[i]
      <4>1. CASE i = Len(ns) + 1
        BY <1>0, <2>1, <4>1
      <4>2. CASE i # Len(ns) + 1
        <5>1. i \in 1..Len(ns) /\ i - 1 \in 0..Len(a) /\ i - 1 <= Len(ns) /\ i <= Len(ns)
          BY <1>0, <2>1, <4>2
        <5>2. f[i] = f[i - 1] + ns[i] /\ a[i] = ns[i]
          BY <1>1, <2>1, <5>1 DEF Sums, SumsTo
        <5>. QED
          BY <5>1, <5>2
      <4>. QED
        BY <4>1, <4>2
    <3>. HIDE DEF e
    <3>. QED
      BY <3>2, <3>3 DEF Sums, SumsTo
  <2>. HIDE DEF e
  <2>3. Total(a) = e[Len(a)]
    BY <2>1, <2>2, TotalIs
  <2>4. e[Len(a)] = f[Len(ns)] + k
    BY <1>0, <2>1 DEF e
  <2>. QED
    BY <1>2, <2>3, <2>4 DEF a
<1>5. ASSUME ns # <<>> PROVE Total(ns) = Head(ns) + Total(Tail(ns))
  <2>. DEFINE t == Tail(ns)
              e(g) == [i \in 0..Len(ns) |-> IF i = 0 THEN 0 ELSE ns[1] + g[i - 1]]
  <2>1. /\ t \in Seq(Nat) /\ Len(ns) = Len(t) + 1 /\ Len(t) \in Nat
        /\ Head(ns) = ns[1] /\ \A i \in 1..Len(t) : t[i] = ns[i + 1]
    BY <1>5
  <2>. HIDE DEF t
  <2>2. PICK g : Sums(g, t)
    BY <2>1, SumsExist
  <2>3. Total(t) = g[Len(t)]
    BY <2>1, <2>2, TotalIs
  <2>4. ASSUME NEW i \in 1..Len(ns) PROVE e(g)[i] = e(g)[i - 1] + ns[i]
    <3>1. CASE i = 1
      BY <1>0, <2>1, <2>2, <3>1 DEF Sums, SumsTo
    <3>2. CASE i # 1
      <4>1. i - 1 \in 1..Len(t) /\ i - 2 \in 0..Len(t) /\ i - 1 \in 0..Len(ns) /\ i - 1 # 0 /\ (i - 1) - 1 = i - 2
        BY <1>0, <2>1, <3>2
      <4>2. g[i - 1] = g[i - 2] + t[i - 1] /\ g[i - 2] \in Nat /\ t[i - 1] \in Nat /\ t[i - 1] = ns[i]
        <5>1. g[i - 1] = g[(i - 1) - 1] + t[i - 1] /\ g[i - 2] \in Nat
          BY <2>2, <4>1 DEF Sums, SumsTo
        <5>2. t[i - 1] = ns[i] /\ ns[i] \in Nat
          <6>1. t[i - 1] = ns[(i - 1) + 1]
            BY <2>1, <4>1
          <6>2. (i - 1) + 1 = i /\ ns[i] \in Nat
            BY <1>0
          <6>. QED
            BY <6>1, <6>2
        <5>. QED
          BY <4>1, <5>1, <5>2
      <4>3. e(g)[i] = ns[1] + g[i - 1] /\ e(g)[i - 1] = ns[1] + g[i - 2] /\ ns[1] \in Nat
        BY <1>0, <2>1, <4>1
      <4>. QED
        BY <4>2, <4>3
    <3>. QED
      BY <3>1, <3>2
  <2>5. Sums(e(g), ns)
    <3>1. e(g) \in [0..Len(ns) -> Nat] /\ e(g)[0] = 0
      BY SMTT(30), <1>0, <2>1, <2>2 DEF Sums, SumsTo
    <3>. HIDE DEF e
    <3>. QED
      BY <3>1, <2>4 DEF Sums, SumsTo
  <2>6. Total(ns) = e(g)[Len(ns)] /\ e(g)[Len(ns)] = ns[1] + g[Len(t)]
    <3>1. Total(ns) = e(g)[Len(ns)]
      <4>. HIDE DEF e
      <4>. QED
        BY <2>5, TotalIs
    <3>2. Len(ns) \in 0..Len(ns) /\ Len(ns) # 0 /\ Len(ns) - 1 = Len(t)
      BY <2>1
    <3>. QED
      BY <3>1, <3>2
  <2>. QED
    BY <2>1, <2>3, <2>6 DEF t
<1>. QED
  BY <1>3, <1>4, <1>5

\* A sum is nothing only when all its terms are.
LEMMA TotalTerms ==
  ASSUME NEW ns \in Seq(Nat)
  PROVE  /\ \A i \in 1..Len(ns) : ns[i] <= Total(ns)
         /\ (\A i \in 1..Len(ns) : ns[i] = 0) => Total(ns) = 0
<1>0. Len(ns) \in Nat /\ \A i \in 1..Len(ns) : ns[i] \in Nat
  OBVIOUS
<1>1. PICK f : Sums(f, ns)
  BY SumsExist
<1>. DEFINE P(m) == /\ \A i \in 1..m : ns[i] <= f[m]
                    /\ (\A i \in 1..m : ns[i] = 0) => f[m] = 0
            D == {m \in Nat : m <= Len(ns) => P(m)}
<1>2. 0 \in D
  BY <1>1 DEF Sums, SumsTo
<1>3. ASSUME NEW m \in Nat, m \in D PROVE m + 1 \in D
  <2>1. SUFFICES ASSUME m + 1 <= Len(ns) PROVE P(m + 1)
    OBVIOUS
  <2>2. P(m)
    BY <1>0, <1>3, <2>1
  <2>3. m + 1 \in 1..Len(ns) /\ m \in 0..Len(ns) /\ (m + 1) - 1 = m
    BY <1>0, <2>1
  <2>4. f[m + 1] = f[m] + ns[m + 1] /\ f[m] \in Nat /\ ns[m + 1] \in Nat
    BY <1>0, <1>1, <2>3 DEF Sums, SumsTo
  <2>5. \A i \in 1..(m + 1) : ns[i] \in Nat /\ (i \in 1..m \/ i = m + 1)
    BY SMTT(30), <1>0, <2>1
  <2>. QED
    BY SMTT(30), <2>2, <2>4, <2>5
<1>. HIDE DEF D
<1>4. Nat \subseteq D
  BY <1>2, <1>3, NatSet
<1>5. Total(ns) = f[Len(ns)]
  BY <1>1, TotalIs
<1>. QED
  BY <1>0, <1>4, <1>5 DEF D

-----------------------------------------------------------------------------
\* What comes of the first replies.
Kind(k, U) == {u \in U : u.k = k}

KindTo(f, k, s, U, m) ==
  /\ f \in [0..m -> Seq(Kind(k, U))]
  /\ f[0] = <<>>
  /\ \A i \in 1..m : f[i] = IF s[i].k = k THEN Append(f[i - 1], s[i]) ELSE f[i - 1]

LEMMA KindExists ==
  ASSUME NEW k, NEW U, NEW s \in Seq(U)
  PROVE  \E f : KindTo(f, k, s, U, Len(s))
<1>. DEFINE D == {m \in Nat : m <= Len(s) => \E f : KindTo(f, k, s, U, m)}
            W == Kind(k, U)
<1>0. Len(s) \in Nat /\ \A i \in 1..Len(s) : s[i] \in U
  OBVIOUS
<1>1. 0 \in D
  <2>1. KindTo([i \in 0..0 |-> <<>>], k, s, U, 0)
    <3>1. <<>> \in Seq(W)
      OBVIOUS
    <3>. QED
      BY <3>1 DEF KindTo
  <2>. QED
    BY <2>1
<1>2. ASSUME NEW m \in Nat, m \in D PROVE m + 1 \in D
  <2>1. SUFFICES ASSUME m + 1 <= Len(s) PROVE \E f : KindTo(f, k, s, U, m + 1)
    OBVIOUS
  <2>2. PICK f : KindTo(f, k, s, U, m)
    BY <1>0, <1>2, <2>1
  <2>. DEFINE a == IF s[m + 1].k = k THEN Append(f[m], s[m + 1]) ELSE f[m]
              e == [i \in 0..(m + 1) |-> IF i <= m THEN f[i] ELSE a]
  <2>3. a \in Seq(W)
    <3>1. f[m] \in Seq(W) /\ s[m + 1] \in U
      BY <1>0, <2>1, <2>2 DEF KindTo
    <3>2. s[m + 1].k = k => s[m + 1] \in W
      BY <3>1 DEF Kind
    <3>. HIDE DEF W
    <3>. QED
      BY <3>1, <3>2
  <2>. HIDE DEF a, W
  <2>4. e \in [0..(m + 1) -> Seq(W)] /\ e[0] = <<>>
    BY <2>2, <2>3 DEF KindTo, W
  <2>5. ASSUME NEW i \in 1..(m + 1) PROVE e[i] = IF s[i].k = k THEN Append(e[i - 1], s[i]) ELSE e[i - 1]
    <3>1. CASE i = m + 1
      BY <3>1 DEF a
    <3>2. CASE i # m + 1
      <4>1. i \in 1..m /\ i - 1 \in 0..m
        BY <3>2
      <4>2. e[i] = f[i] /\ e[i - 1] = f[i - 1]
        BY <4>1
      <4>. QED
        BY <4>1, <4>2, <2>2 DEF KindTo
    <3>. QED
      BY <3>1, <3>2
  <2>6. KindTo(e, k, s, U, m + 1)
    <3>. HIDE DEF e
    <3>. QED
      BY <2>4, <2>5 DEF KindTo, W
  <2>. QED
    BY <2>6
<1>. HIDE DEF D
<1>3. Nat \subseteq D
  BY <1>1, <1>2, NatSet
<1>. QED
  BY <1>0, <1>3 DEF D

LEMMA KindIs ==
  ASSUME NEW k, NEW U, NEW s \in Seq(U), NEW f, KindTo(f, k, s, U, Len(s))
  PROVE  OfKind(k, s) = f[Len(s)]
<1>. DEFINE G(h) == [i \in 0..Len(s) |->
                       IF i = 0 THEN <<>> ELSE IF s[i].k = k THEN Append(h[i - 1], s[i]) ELSE h[i - 1]]
            F == CHOOSE h : h = G(h)
            D == {m \in Nat : m <= Len(s) => F[m] = f[m]}
<1>0. Len(s) \in Nat
  OBVIOUS
<1>1. f = G(f)
  <2>1. f = [i \in 0..Len(s) |-> f[i]]
    BY DEF KindTo
  <2>2. ASSUME NEW i \in 0..Len(s)
        PROVE  f[i] = IF i = 0 THEN <<>> ELSE IF s[i].k = k THEN Append(f[i - 1], s[i]) ELSE f[i - 1]
    <3>1. i = 0 \/ i \in 1..Len(s)
      BY <1>0
    <3>. QED
      BY <3>1 DEF KindTo
  <2>3. [i \in 0..Len(s) |-> f[i]] = G(f)
    BY <2>2
  <2>. QED
    BY <2>1, <2>3
<1>2. F = G(F)
  BY <1>1
<1>3. OfKind(k, s) = F[Len(s)]
  BY DEF OfKind
<1>. HIDE DEF F
<1>4. 0 \in D
  BY <1>0, <1>2 DEF KindTo
<1>5. ASSUME NEW m \in Nat, m \in D PROVE m + 1 \in D
  <2>1. SUFFICES ASSUME m + 1 <= Len(s) PROVE F[m + 1] = f[m + 1]
    OBVIOUS
  <2>2. F[m] = f[m] /\ m + 1 \in 1..Len(s) /\ (m + 1) - 1 = m /\ m + 1 # 0 /\ m + 1 \in 0..Len(s)
    BY <1>0, <1>5, <2>1
  <2>3. F[m + 1] = IF s[m + 1].k = k THEN Append(F[m], s[m + 1]) ELSE F[m]
    BY <1>2, <2>2
  <2>4. f[m + 1] = IF s[m + 1].k = k THEN Append(f[m], s[m + 1]) ELSE f[m]
    BY <2>2 DEF KindTo
  <2>. QED
    BY <2>2, <2>3, <2>4
<1>. HIDE DEF D
<1>6. Nat \subseteq D
  BY <1>4, <1>5, NatSet
<1>. QED
  BY <1>0, <1>3, <1>6 DEF D

LEMMA OfKindAppend ==
  ASSUME NEW k, NEW U, NEW s \in Seq(U), NEW u \in U
  PROVE  OfKind(k, Append(s, u)) = IF u.k = k THEN Append(OfKind(k, s), u) ELSE OfKind(k, s)
<1>. DEFINE W == Kind(k, U)
<1>0. Len(s) \in Nat /\ \A i \in 1..Len(s) : s[i] \in U
  OBVIOUS
<1>1. PICK f : KindTo(f, k, s, U, Len(s))
  BY KindExists
<1>2. OfKind(k, s) = f[Len(s)]
  BY <1>1, KindIs
<1>4. OfKind(k, Append(s, u)) = IF u.k = k THEN Append(OfKind(k, s), u) ELSE OfKind(k, s)
  <2>. DEFINE a == Append(s, u)
              last == IF u.k = k THEN Append(f[Len(s)], u) ELSE f[Len(s)]
              e == [i \in 0..Len(a) |-> IF i <= Len(s) THEN f[i] ELSE last]
  <2>1. /\ a \in Seq(U) /\ Len(a) = Len(s) + 1
        /\ a[Len(s) + 1] = u /\ \A i \in 1..Len(s) : a[i] = s[i]
    OBVIOUS
  <2>. HIDE DEF a
  <2>2. KindTo(e, k, a, U, Len(a))
    <3>1. (\A i \in 0..Len(s) : f[i] \in Seq(W)) /\ last \in Seq(W)
      <4>1. \A i \in 0..Len(s) : f[i] \in Seq(W)
        BY <1>1 DEF KindTo
      <4>2. f[Len(s)] \in Seq(W) /\ (u.k = k => u \in W)
        BY <1>0, <4>1 DEF Kind
      <4>. HIDE DEF W
      <4>. QED
        BY <4>1, <4>2
    <3>. HIDE DEF last, W
    <3>2. e \in [0..Len(a) -> Seq(W)] /\ e[0] = <<>>
      BY <1>0, <1>1, <2>1, <3>1 DEF KindTo
    <3>3. ASSUME NEW i \in 1..Len(a) PROVE e[i] = IF a[i].k = k THEN Append(e[i - 1], a[i]) ELSE e[i - 1]
      <4>1. CASE i = Len(s) + 1
        BY <1>0, <2>1, <4>1 DEF last
      <4>2. CASE i # Len(s) + 1
        <5>1. i \in 1..Len(s) /\ i - 1 \in 0..Len(a) /\ i - 1 <= Len(s) /\ i <= Len(s)
          BY <1>0, <2>1, <4>2
        <5>2. e[i] = f[i] /\ e[i - 1] = f[i - 1]
          BY <5>1
        <5>3. (f[i] = IF s[i].k = k THEN Append(f[i - 1], s[i]) ELSE f[i - 1]) /\ a[i] = s[i]
          BY <1>1, <2>1, <5>1 DEF KindTo
        <5>. QED
          BY <5>2, <5>3
      <4>. QED
        BY <4>1, <4>2
    <3>. HIDE DEF e
    <3>. QED
      BY <3>2, <3>3 DEF KindTo, W
  <2>. HIDE DEF e, last
  <2>3. OfKind(k, a) = e[Len(a)]
    BY <2>1, <2>2, KindIs
  <2>4. e[Len(a)] = last
    BY <1>0, <2>1 DEF e
  <2>. QED
    BY <1>2, <2>3, <2>4 DEF a, last
<1>. QED
  BY <1>4

LEMMA OfKindFacts ==
  ASSUME NEW k, NEW U, NEW s \in Seq(U)
  PROVE  /\ OfKind(k, s) \in Seq(Kind(k, U))
         /\ s = <<>> => OfKind(k, s) = <<>>
         /\ \A u \in U : OfKind(k, Append(s, u)) = IF u.k = k THEN Append(OfKind(k, s), u) ELSE OfKind(k, s)
         /\ s # <<>> => OfKind(k, s) = IF Head(s).k = k THEN <<Head(s)>> \o OfKind(k, Tail(s))
                                     ELSE OfKind(k, Tail(s))
<1>. DEFINE W == Kind(k, U)
<1>0. Len(s) \in Nat /\ \A i \in 1..Len(s) : s[i] \in U
  OBVIOUS
<1>1. PICK f : KindTo(f, k, s, U, Len(s))
  BY KindExists
<1>2. OfKind(k, s) = f[Len(s)]
  BY <1>1, KindIs
<1>3. OfKind(k, s) \in Seq(Kind(k, U)) /\ (s = <<>> => OfKind(k, s) = <<>>)
  BY <1>0, <1>1, <1>2 DEF KindTo
<1>4. ASSUME NEW u \in U
      PROVE  OfKind(k, Append(s, u)) = IF u.k = k THEN Append(OfKind(k, s), u) ELSE OfKind(k, s)
  BY OfKindAppend
<1>5. ASSUME s # <<>>
      PROVE  OfKind(k, s) = IF Head(s).k = k THEN <<Head(s)>> \o OfKind(k, Tail(s)) ELSE OfKind(k, Tail(s))
  <2>. DEFINE t == Tail(s)
              h == IF Head(s).k = k THEN <<Head(s)>> ELSE <<>>
              e(g) == [i \in 0..Len(s) |-> IF i = 0 THEN <<>> ELSE h \o g[i - 1]]
  <2>1. /\ t \in Seq(U) /\ Len(s) = Len(t) + 1 /\ Len(t) \in Nat
        /\ Head(s) = s[1] /\ \A i \in 1..Len(t) : t[i] = s[i + 1]
    BY <1>5
  <2>2. h \in Seq(W)
    <3>1. s[1].k = k => s[1] \in W
      BY <1>0, <2>1 DEF Kind
    <3>2. \A w \in W : <<w>> \in Seq(W)
      OBVIOUS
    <3>3. <<>> \in Seq(W)
      OBVIOUS
    <3>. HIDE DEF W
    <3>. QED
      BY <2>1, <3>1, <3>2, <3>3
  <2>. HIDE DEF t
  <2>3. PICK g : KindTo(g, k, t, U, Len(t))
    BY <2>1, KindExists
  <2>4. OfKind(k, t) = g[Len(t)]
    BY <2>1, <2>3, KindIs
  <2>5. (\A i \in 0..Len(t) : g[i] \in Seq(W)) /\ g[0] = <<>>
    BY <2>3 DEF KindTo
  <2>. HIDE DEF W
  <2>6. \A i \in 0..Len(t) : h \o g[i] \in Seq(W)
    <3>. HIDE DEF h
    <3>. QED
      BY <2>2, <2>5
  <2>7. e(g) \in [0..Len(s) -> Seq(W)] /\ e(g)[0] = <<>>
    <3>1. \A i \in 0..Len(s) : i # 0 => i - 1 \in 0..Len(t)
      BY <2>1
    <3>2. <<>> \in Seq(W)
      OBVIOUS
    <3>. HIDE DEF h
    <3>. QED
      BY <2>1, <2>6, <3>1, <3>2
  <2>8. ASSUME NEW i \in 1..Len(s)
        PROVE  e(g)[i] = IF s[i].k = k THEN Append(e(g)[i - 1], s[i]) ELSE e(g)[i - 1]
    <3>1. CASE i = 1
      <4>1. e(g)[i] = h \o <<>> /\ e(g)[i - 1] = <<>>
        <5>1. i \in 0..Len(s) /\ i # 0 /\ i - 1 = 0 /\ 0 \in 0..Len(s)
          BY <1>0, <3>1
        <5>. HIDE DEF h
        <5>2. e(g)[i] = h \o g[i - 1] /\ e(g)[0] = <<>>
          BY <5>1
        <5>. QED
          BY <2>5, <5>1, <5>2
      <4>2. h \o <<>> = IF s[1].k = k THEN Append(<<>>, s[1]) ELSE <<>>
        BY <2>1
      <4>. QED
        BY <3>1, <4>1, <4>2
    <3>2. CASE i # 1
      <4>1. i - 1 \in 1..Len(t) /\ i - 2 \in 0..Len(t) /\ i - 1 \in 0..Len(s) /\ i - 1 # 0 /\ (i - 1) - 1 = i - 2
        BY <1>0, <2>1, <3>2
      <4>2. t[i - 1] = s[i]
        <5>1. t[i - 1] = s[(i - 1) + 1]
          BY <2>1, <4>1
        <5>. QED
          BY <5>1
      <4>3. g[i - 1] = IF s[i].k = k THEN Append(g[i - 2], s[i]) ELSE g[i - 2]
        BY <2>3, <4>1, <4>2 DEF KindTo
      <4>4. e(g)[i] = h \o g[i - 1] /\ e(g)[i - 1] = h \o g[i - 2]
        <5>1. i \in 0..Len(s) /\ i # 0
          BY <1>0
        <5>. HIDE DEF h
        <5>. QED
          BY <4>1, <5>1
      <4>5. s[i].k = k => h \o Append(g[i - 2], s[i]) = Append(h \o g[i - 2], s[i])
        <5>1. g[i - 2] \in Seq(W) /\ (s[i].k = k => s[i] \in W)
          BY <1>0, <2>5, <4>1 DEF W, Kind
        <5>2. ASSUME NEW p \in Seq(W), NEW q \in Seq(W), NEW w \in W PROVE p \o Append(q, w) = Append(p \o q, w)
          OBVIOUS
        <5>. HIDE DEF h
        <5>. QED
          BY <2>2, <5>1, <5>2
      <4>. HIDE DEF e, h
      <4>. QED
        BY <4>3, <4>4, <4>5
    <3>. QED
      BY <3>1, <3>2
  <2>. HIDE DEF e
  <2>9. KindTo(e(g), k, s, U, Len(s))
    BY <2>7, <2>8 DEF KindTo, W
  <2>10. OfKind(k, s) = e(g)[Len(s)]
    BY <2>9, KindIs
  <2>11. e(g)[Len(s)] = h \o g[Len(t)]
    <3>1. Len(s) \in 0..Len(s) /\ Len(s) # 0 /\ Len(s) - 1 = Len(t)
      BY <2>1
    <3>. QED
      BY <3>1 DEF e
  <2>12. <<>> \o g[Len(t)] = g[Len(t)]
    <3>1. \A q \in Seq(W) : <<>> \o q = q
      OBVIOUS
    <3>. QED
      BY <2>1, <2>5, <3>1
  <2>. QED
    BY <2>4, <2>10, <2>11, <2>12 DEF t
<1>. QED
  BY <1>3, <1>4, <1>5

\* No reply of a kind has come.
LEMMA OfKindNone ==
  ASSUME NEW k, NEW U, NEW s \in Seq(U)
  PROVE  OfKind(k, s) = <<>> <=> \A i \in 1..Len(s) : s[i].k # k
<1>0. Len(s) \in Nat /\ \A i \in 1..Len(s) : s[i] \in U
  OBVIOUS
<1>1. PICK f : KindTo(f, k, s, U, Len(s))
  BY KindExists
<1>. DEFINE D == {m \in Nat : m <= Len(s) => (f[m] = <<>> <=> \A i \in 1..m : s[i].k # k)}
<1>2. 0 \in D
  BY <1>1 DEF KindTo
<1>3. ASSUME NEW m \in Nat, m \in D PROVE m + 1 \in D
  <2>1. SUFFICES ASSUME m + 1 <= Len(s) PROVE f[m + 1] = <<>> <=> \A i \in 1..(m + 1) : s[i].k # k
    OBVIOUS
  <2>2. (f[m] = <<>> <=> \A i \in 1..m : s[i].k # k) /\ m + 1 \in 1..Len(s) /\ m \in 0..Len(s)
    BY <1>0, <1>3, <2>1
  <2>3. (f[m + 1] = IF s[m + 1].k = k THEN Append(f[m], s[m + 1]) ELSE f[m]) /\ f[m] \in Seq(Kind(k, U))
    BY <1>0, <1>1, <2>2 DEF KindTo
  <2>4. \A q \in Seq(Kind(k, U)) : \A u : Append(q, u) # <<>>
    OBVIOUS
  <2>5. \A i \in 1..(m + 1) : i \in 1..m \/ i = m + 1
    OBVIOUS
  <2>6. \A i \in 1..m : i \in 1..(m + 1)
    OBVIOUS
  <2>7. m + 1 \in 1..(m + 1)
    OBVIOUS
  <2>. QED
    BY <2>2, <2>3, <2>4, <2>5, <2>6, <2>7
<1>. HIDE DEF D
<1>4. Nat \subseteq D
  BY <1>2, <1>3, NatSet
<1>5. OfKind(k, s) = f[Len(s)]
  BY <1>1, KindIs
<1>. QED
  BY <1>0, <1>4, <1>5 DEF D

LEMMA EmptyOfKind ==
  ASSUME NEW k
  PROVE  OfKind(k, <<>>) = <<>>
<1>1. <<>> \in Seq({})
  OBVIOUS
<1>2. \A s \in Seq({}) : s = <<>> => OfKind(k, s) = <<>>
  <2>1. TAKE s \in Seq({})
  <2>2. OfKind(k, s) \in Seq(Kind(k, {})) /\ (s = <<>> => OfKind(k, s) = <<>>)
    BY ZenonT(40), OfKindFacts
  <2>. QED
    BY <2>2
<1>. QED
  BY <1>1, <1>2

-----------------------------------------------------------------------------
(* The flight of an interface: the replies of its kind that were not read   *)
(* yet, q being all replies, and the commands b that the device has.        *)

Flight(k, q, b) == OfKind(k, q) \o b

LEMMA CatFacts ==
  ASSUME NEW V, NEW a \in Seq(V), NEW b \in Seq(V)
  PROVE  /\ a \o b \in Seq(V) /\ Len(a) \in Nat /\ Len(b) \in Nat /\ Len(a \o b) = Len(a) + Len(b)
         /\ \A n \in 1..Len(a) : (a \o b)[n] = a[n] /\ n \in 1..Len(a \o b)
         /\ \A n \in 1..Len(b) : (a \o b)[Len(a) + n] = b[n] /\ Len(a) + n \in 1..Len(a \o b)
         /\ \A n \in 1..Len(a \o b) : n \in 1..Len(a) \/ (n - Len(a) \in 1..Len(b) /\ (a \o b)[n] = b[n - Len(a)])
         /\ a = <<>> => a \o b = b
         /\ b = <<>> => a \o b = a
         /\ a \o b = <<>> => a = <<>> /\ b = <<>>
         /\ \A u \in V : a \o Append(b, u) = Append(a \o b, u)
         /\ b # <<>> => Append(a, Head(b)) \o Tail(b) = a \o b
<1>1. /\ a \o b \in Seq(V) /\ Len(a) \in Nat /\ Len(b) \in Nat /\ Len(a \o b) = Len(a) + Len(b)
      /\ \A n \in 1..Len(a) : (a \o b)[n] = a[n] /\ n \in 1..Len(a \o b)
      /\ \A n \in 1..Len(b) : (a \o b)[Len(a) + n] = b[n] /\ Len(a) + n \in 1..Len(a \o b)
  OBVIOUS
<1>2. \A n \in 1..Len(a \o b) : n \in 1..Len(a) \/ (n - Len(a) \in 1..Len(b) /\ (a \o b)[n] = b[n - Len(a)])
  OBVIOUS
<1>3. /\ a = <<>> => a \o b = b
      /\ b = <<>> => a \o b = a
      /\ a \o b = <<>> => a = <<>> /\ b = <<>>
  OBVIOUS
<1>4. ASSUME NEW u \in V PROVE a \o Append(b, u) = Append(a \o b, u)
  OBVIOUS
<1>5. ASSUME b # <<>> PROVE Append(a, Head(b)) \o Tail(b) = a \o b
  BY <1>5
<1>. QED
  BY <1>1, <1>2, <1>3, <1>4, <1>5

\* The units of one interface among those of all.
Delivers(U, k, V) == V \subseteq U /\ \A u \in U : u.k = k <=> u \in V

LEMMA DeliveredFacts ==
  ASSUME NEW k, NEW U, NEW V, Delivers(U, k, V), NEW q \in Seq(U), NEW b \in Seq(V)
  PROVE  /\ OfKind(k, q) \in Seq(V) /\ Flight(k, q, b) \in Seq(V)
         /\ \A u \in V : Flight(k, q, Append(b, u)) = Append(Flight(k, q, b), u)
         /\ b # <<>> => Flight(k, Append(q, Head(b)), Tail(b)) = Flight(k, q, b)
         /\ \A u \in U : u.k # k => OfKind(k, Append(q, u)) = OfKind(k, q)
<1>. V \subseteq U /\ \A u \in U : u.k = k <=> u \in V
  BY DEF Delivers
<1>1. OfKind(k, q) \in Seq(V)
  <2>1. OfKind(k, q) \in Seq(Kind(k, U))
    BY OfKindFacts
  <2>2. Kind(k, U) = V
    BY DEF Kind
  <2>. QED
    BY <2>1, <2>2
<1>2. Flight(k, q, b) \in Seq(V) /\ \A u \in V : Flight(k, q, Append(b, u)) = Append(Flight(k, q, b), u)
  BY <1>1, CatFacts DEF Flight
<1>0. ASSUME NEW u \in U PROVE OfKind(k, Append(q, u)) = IF u.k = k THEN Append(OfKind(k, q), u) ELSE OfKind(k, q)
  BY OfKindAppend
<1>5. ASSUME b # <<>> PROVE Flight(k, Append(q, Head(b)), Tail(b)) = Flight(k, q, b)
  <2>1. Head(b) \in V /\ Head(b) \in U /\ Head(b).k = k
    BY <1>5
  <2>2. OfKind(k, Append(q, Head(b))) = Append(OfKind(k, q), Head(b))
    BY <2>1, <1>0
  <2>. DEFINE a == OfKind(k, q)
  <2>3. a \in Seq(V)
    BY <1>1
  <2>. HIDE DEF a
  <2>4. Append(a, Head(b)) \o Tail(b) = a \o b
    BY <1>5, <2>3, CatFacts
  <2>. QED
    BY <2>2, <2>4 DEF Flight, a
<1>6. \A u \in U : u.k # k => OfKind(k, Append(q, u)) = OfKind(k, q)
  BY <1>0
<1>. QED
  BY <1>1, <1>2, <1>5, <1>6

LEMMA DeliveredHead ==
  ASSUME NEW k, NEW U, NEW V, Delivers(U, k, V), NEW q \in Seq(U), NEW b \in Seq(V), q # <<>>
  PROVE  /\ Head(q).k = k => /\ Flight(k, q, b) # <<>> /\ Head(Flight(k, q, b)) = Head(q) /\ Head(q) \in V
                             /\ Flight(k, Tail(q), b) = Tail(Flight(k, q, b))
         /\ Head(q).k # k => OfKind(k, Tail(q)) = OfKind(k, q)
<1>. V \subseteq U /\ \A u \in U : u.k = k <=> u \in V
  BY DEF Delivers
<1>0. Tail(q) \in Seq(U) /\ \A e \in Seq(U) : OfKind(k, e) \in Seq(V)
  BY DeliveredFacts
<1>3. ASSUME q # <<>>, Head(q).k = k
      PROVE  /\ Flight(k, q, b) # <<>> /\ Head(Flight(k, q, b)) = Head(q) /\ Head(q) \in V
             /\ Flight(k, Tail(q), b) = Tail(Flight(k, q, b))
  <2>0. Tail(q) \in Seq(U) /\ Head(q) \in U /\ Head(q) \in V
    BY <1>3
  <2>1. OfKind(k, q) = <<Head(q)>> \o OfKind(k, Tail(q))
    <3>1. OfKind(k, q) = IF Head(q).k = k THEN <<Head(q)>> \o OfKind(k, Tail(q)) ELSE OfKind(k, Tail(q))
      BY <1>3, OfKindFacts, Zenon
    <3>. QED
      BY <1>3, <3>1
  <2>. DEFINE o == OfKind(k, Tail(q))
  <2>2. o \in Seq(V)
    <3>1. o \in Seq(Kind(k, U))
      BY <2>0, OfKindFacts
    <3>2. Kind(k, U) = V
      BY DEF Kind
    <3>. QED
      BY <3>1, <3>2
  <2>. HIDE DEF o
  <2>3. \A v \in V : /\ (<<v>> \o o) \o b # <<>> /\ Head((<<v>> \o o) \o b) = v
                     /\ Tail((<<v>> \o o) \o b) = o \o b
    BY <2>2
  <2>. QED
    BY <2>0, <2>1, <2>3 DEF Flight, o
<1>4. ASSUME q # <<>>, Head(q).k # k PROVE OfKind(k, Tail(q)) = OfKind(k, q)
  <2>1. OfKind(k, q) = IF Head(q).k = k THEN <<Head(q)>> \o OfKind(k, Tail(q)) ELSE OfKind(k, Tail(q))
    BY <1>4, OfKindFacts, Zenon
  <2>. QED
    BY <1>4, <2>1
<1>. QED
  BY <1>3, <1>4

Weighed(f, w) == Total([n \in 1..Len(f) |-> w[f[n]]])

LEMMA WeighedFacts ==
  ASSUME NEW U, NEW w \in [U -> Nat], NEW f \in Seq(U)
  PROVE  /\ Weighed(f, w) \in Nat
         /\ f = <<>> => Weighed(f, w) = 0
         /\ \A u \in U : Weighed(Append(f, u), w) = Weighed(f, w) + w[u]
         /\ f # <<>> => Weighed(f, w) = w[Head(f)] + Weighed(Tail(f), w)
         /\ \A n \in 1..Len(f) : w[f[n]] <= Weighed(f, w)
         /\ (\A n \in 1..Len(f) : w[f[n]] = 0) => Weighed(f, w) = 0
<1>. DEFINE ns == [n \in 1..Len(f) |-> w[f[n]]]
<1>0. Len(f) \in Nat /\ \A n \in 1..Len(f) : f[n] \in U /\ w[f[n]] \in Nat
  OBVIOUS
<1>1. ns \in Seq(Nat) /\ Len(ns) = Len(f) /\ \A n \in 1..Len(f) : ns[n] = w[f[n]]
  BY <1>0
<1>2. Weighed(f, w) = Total(ns)
  BY DEF Weighed
<1>. HIDE DEF ns
<1>3. Weighed(f, w) \in Nat
  BY <1>1, <1>2, TotalFacts
<1>4. ASSUME f = <<>> PROVE Weighed(f, w) = 0
  <2>1. ns = <<>>
    BY <1>1, <1>4
  <2>. QED
    BY <1>1, <1>2, <2>1, TotalFacts
<1>5. ASSUME NEW u \in U PROVE Weighed(Append(f, u), w) = Weighed(f, w) + w[u]
  <2>. DEFINE a == Append(f, u)
  <2>1. Len(a) = Len(f) + 1 /\ a[Len(f) + 1] = u /\ \A n \in 1..Len(f) : a[n] = f[n]
    OBVIOUS
  <2>. HIDE DEF a
  <2>2. w[u] \in Nat
    OBVIOUS
  <2>3. Append(ns, w[u]) = [n \in 1..Len(a) |-> w[a[n]]]
    <3>1. Append(ns, w[u]) \in Seq(Nat) /\ Len(Append(ns, w[u])) = Len(a)
      BY <1>1, <2>1, <2>2
    <3>2. Append(ns, w[u]) = [n \in 1..Len(a) |-> Append(ns, w[u])[n]]
      BY <3>1
    <3>3. ASSUME NEW n \in 1..Len(a) PROVE Append(ns, w[u])[n] = w[a[n]]
      <4>1. CASE n = Len(f) + 1
        <5>1. Append(ns, w[u])[Len(ns) + 1] = w[u]
          BY <1>1, <2>2
        <5>. QED
          BY <4>1, <5>1, <1>1, <2>1
      <4>2. CASE n # Len(f) + 1
        <5>1. n \in 1..Len(f)
          BY <4>2, <1>0, <2>1
        <5>2. Append(ns, w[u])[n] = ns[n]
          BY <5>1, <1>1, <2>2
        <5>. QED
          BY <5>1, <5>2, <1>1, <2>1
      <4>. QED
        BY <4>1, <4>2
    <3>. QED
      BY <3>2, <3>3
  <2>4. Weighed(a, w) = Total(Append(ns, w[u]))
    BY <2>3 DEF Weighed
  <2>. QED
    BY <1>1, <1>2, <2>2, <2>4, TotalFacts DEF a
<1>6. ASSUME f # <<>> PROVE Weighed(f, w) = w[Head(f)] + Weighed(Tail(f), w)
  <2>. DEFINE t == Tail(f)
  <2>1. /\ Len(t) = Len(f) - 1 /\ Len(t) \in Nat
        /\ Head(f) = f[1] /\ 1 \in 1..Len(f) /\ \A n \in 1..Len(t) : t[n] = f[n + 1]
    BY <1>6
  <2>. HIDE DEF t
  <2>2. ns # <<>> /\ Head(ns) = w[f[1]]
    BY <1>1, <2>1
  <2>3. Tail(ns) = [n \in 1..Len(t) |-> w[t[n]]]
    <3>1. Tail(ns) \in Seq(Nat) /\ Len(Tail(ns)) = Len(t) /\ \A n \in 1..Len(t) : Tail(ns)[n] = ns[n + 1]
      BY <1>1, <2>1, <2>2
    <3>2. ASSUME NEW q \in Seq(Nat) PROVE q = [n \in 1..Len(q) |-> q[n]]
      OBVIOUS
    <3>3. ASSUME NEW n \in 1..Len(t) PROVE Tail(ns)[n] = w[t[n]]
      <4>1. n + 1 \in 1..Len(f)
        BY <1>0, <2>1
      <4>. QED
        BY <4>1, <3>1, <1>1, <2>1
    <3>. HIDE DEF t
    <3>4. Tail(ns) = [n \in 1..Len(t) |-> Tail(ns)[n]]
      BY <3>1, <3>2
    <3>. QED
      BY <3>3, <3>4
  <2>4. Weighed(t, w) = Total(Tail(ns))
    BY <2>3 DEF Weighed
  <2>. QED
    BY <1>1, <1>2, <2>1, <2>2, <2>4, TotalFacts DEF t
<1>7. /\ \A n \in 1..Len(f) : w[f[n]] <= Weighed(f, w)
      /\ (\A n \in 1..Len(f) : w[f[n]] = 0) => Weighed(f, w) = 0
  BY <1>1, <1>2, TotalTerms
<1>. QED
  BY <1>3, <1>4, <1>5, <1>6, <1>7

-----------------------------------------------------------------------------
(* A flight and the lists. *)

\* The units of a flight are for active transfers, in the order of the list.
\* (A STOP of the TWI is for none.)
Fed(p, f) ==
  /\ \A n \in 1..Len(f) : f[n].x # NoXfr => f[n].x \in p.active
  /\ \A m, n \in 1..Len(f) : \A i, j \in 1..Len(p.sched) :
       m < n /\ f[m].x = p.sched[i] /\ f[n].x = p.sched[j] => i <= j

\* What of a list the lemmas below need.
LEMMA ListFacts ==
  ASSUME NEW p, PoolInv(p)
  PROVE  /\ p.sched \in Seq(Xfrs) /\ Len(p.sched) \in Nat
         /\ \A i \in 1..Len(p.sched) : p.sched[i] \in Scheduled(p) /\ p.sched[i] # NoXfr
         /\ \A i, j \in 1..Len(p.sched) : p.sched[i] = p.sched[j] => i = j
         /\ p.active \subseteq Scheduled(p) /\ p.detached \subseteq Scheduled(p)
         /\ \A x \in Scheduled(p) : \E i \in 1..Len(p.sched) : p.sched[i] = x
         /\ p.cur # NoXfr => p.cur \in Scheduled(p)
         /\ p.sched # <<>> => /\ Head(p.sched) \in Scheduled(p)
                              /\ 1 \in 1..Len(p.sched) /\ p.sched[1] = Head(p.sched)
         /\ p.sched = <<>> <=> Scheduled(p) = {}
<1>1. p.sched \in Seq(Xfrs)
  BY DEF PoolInv, PoolRecords
<1>2. Len(p.sched) \in Nat /\ \A i \in 1..Len(p.sched) : p.sched[i] \in Xfrs
  BY <1>1
<1>3. Scheduled(p) = {p.sched[i] : i \in 1..Len(p.sched)}
  BY DEF PoolInv, ListInv, InList
<1>4. p.sched # <<>> => 1 \in 1..Len(p.sched) /\ p.sched[1] = Head(p.sched)
  BY <1>1
<1>5. p.active \subseteq Scheduled(p) /\ p.detached \subseteq Scheduled(p)
  BY DEF PoolInv, ListInv, HeldInv
<1>6. p.cur # NoXfr => p.cur \in Scheduled(p)
  BY DEF PoolInv, ListInv
<1>7. p.sched # <<>> => Head(p.sched) \in Scheduled(p)
  BY <1>3, <1>4
<1>8. \A i \in 1..Len(p.sched) : p.sched[i] \in Scheduled(p) /\ p.sched[i] # NoXfr
  BY <1>2, <1>3, NoXfrAssumption
<1>9. \A x \in Scheduled(p) : \E i \in 1..Len(p.sched) : p.sched[i] = x
  BY <1>3
<1>10. p.sched = <<>> => 1..Len(p.sched) = {}
  OBVIOUS
<1>11. p.sched = <<>> <=> Scheduled(p) = {}
  BY <1>7, <1>9, <1>10
<1>12. \A i, j \in 1..Len(p.sched) : p.sched[i] = p.sched[j] => i = j
  BY DEF PoolInv, ListInv
<1>. QED
  BY <1>1, <1>2, <1>4, <1>5, <1>6, <1>7, <1>8, <1>9, <1>11, <1>12

\* The first unit that is for a transfer is for the oldest one.
LEMMA FirstMeetsHead ==
  ASSUME NEW p, PoolInv(p), NEW U, NEW f \in Seq(U), Fed(p, f),
         NEW n \in 1..Len(f), f[n].x # NoXfr, \A m \in 1..(n - 1) : f[m].x = NoXfr,
         \A x \in p.active : x # p.cur => \E m \in 1..Len(f) : f[m].x = x
  PROVE  p.sched # <<>> /\ f[n].x = Head(p.sched)
<1>0. Len(f) \in Nat
  OBVIOUS
<1>1. f[n].x \in p.active
  BY DEF Fed
<1>2. PICK j \in 1..Len(p.sched) : p.sched[j] = f[n].x
  BY <1>1, ListFacts
<1>3. p.sched # <<>> /\ 1 \in 1..Len(p.sched) /\ p.sched[1] = Head(p.sched)
  BY <1>2, ListFacts
<1>4. CASE j = 1
  BY <1>2, <1>3, <1>4
<1>5. CASE j # 1
  <2>1. 1 < j
    BY <1>5, ListFacts
  <2>2. p.sched[1] \in p.active /\ p.cur # p.sched[1]
    BY <1>1, <1>2, <1>3, <2>1 DEF PoolInv, ActiveInv
  <2>3. PICK m \in 1..Len(f) : f[m].x = p.sched[1]
    BY <2>2
  <2>4. m \notin 1..(n - 1) /\ m # n
    BY <1>2, <1>3, <1>5, <2>3, ListFacts
  <2>5. n < m
    BY <1>0, <2>4
  <2>. QED
    BY <1>2, <1>3, <2>1, <2>3, <2>5, ListFacts DEF Fed
<1>. QED
  BY <1>4, <1>5

LEMMA FedTail ==
  ASSUME NEW p, NEW U, NEW f \in Seq(U), f # <<>>, Fed(p, f)
  PROVE  Fed(p, Tail(f))
<1>1. Len(Tail(f)) \in Nat /\ \A n \in 1..Len(Tail(f)) : n + 1 \in 1..Len(f) /\ Tail(f)[n] = f[n + 1]
  OBVIOUS
<1>. DEFINE t == Tail(f)
<1>. HIDE DEF t
<1>2. /\ \A n \in 1..Len(t) : t[n] = f[n + 1] /\ n + 1 \in 1..Len(f)
      /\ \A m, n \in 1..Len(t) : m < n => m + 1 < n + 1
  BY <1>1 DEF t
<1>3. Fed(p, t)
  BY <1>2 DEF Fed
<1>. QED
  BY <1>3 DEF t

\* Only for whom a unit is matters.
LEMMA FedSame ==
  ASSUME NEW p, NEW f, NEW g, Fed(p, f), Len(g) = Len(f), \A n \in 1..Len(f) : g[n].x = f[n].x
  PROVE  Fed(p, g)
  BY DEF Fed

LEMMA FedSchedule ==
  ASSUME NEW p, PoolInv(p), NEW x \in Xfrs, CanSchedule(p, x), NEW f, Fed(p, f)
  PROVE  Fed(Schedule(p, x), f)
<1>. DEFINE q == Schedule(p, x)
<1>1. q.sched = Append(p.sched, x) /\ q.active = p.active
  BY DEF Schedule, PoolInv, PoolRecords
<1>. HIDE DEF q
<1>2. /\ p.sched \in Seq(Xfrs) /\ x \notin Scheduled(p)
      /\ p.active \subseteq Scheduled(p) /\ NoXfr \notin Xfrs
  BY ListFacts, NoXfrAssumption DEF CanSchedule, Scheduled
<1>3. /\ Len(q.sched) = Len(p.sched) + 1 /\ q.sched[Len(p.sched) + 1] = x /\ Len(p.sched) \in Nat
      /\ \A i \in 1..Len(p.sched) : q.sched[i] = p.sched[i]
  BY <1>1, <1>2
<1>4. \A n \in 1..Len(f) : f[n].x # x
  BY <1>2 DEF Fed
<1>5. \A n \in 1..Len(f), i \in 1..Len(q.sched) : f[n].x = q.sched[i] => i \in 1..Len(p.sched) /\ q.sched[i] = p.sched[i]
  <2>1. \A i \in 1..Len(q.sched) : i \in 1..Len(p.sched) \/ i = Len(p.sched) + 1
    BY <1>3
  <2>. QED
    BY <1>3, <1>4, <2>1
<1>6. Fed(q, f)
  BY <1>1, <1>5 DEF Fed
<1>. QED
  BY <1>6 DEF q

\* A transfer leaves the list when nothing is in flight for it.
LEMMA FedComplete ==
  ASSUME NEW p, PoolInv(p), NEW x \in InList(p), NEW f, Fed(p, f), \A n \in 1..Len(f) : f[n].x # x
  PROVE  Fed(Complete(p, x), f)
<1>. DEFINE q == Complete(p, x)
            k == Position(p.sched, x)
<1>1. q.sched = Unlink(p.sched, x) /\ q.active = p.active \ {x}
  BY DEF Complete, PoolInv, PoolRecords
<1>2. /\ Len(q.sched) = Len(p.sched) - 1 /\ Len(q.sched) \in Nat
      /\ \A i \in 1..Len(q.sched) : Old(k, i) \in 1..Len(p.sched) /\ q.sched[i] = p.sched[Old(k, i)]
      /\ \A i, j \in 1..Len(q.sched) : i < j => Old(k, i) < Old(k, j)
  <2>1. p.sched \in Seq(Xfrs) /\ Distinct(p.sched) /\ x \in Members(p.sched)
    BY InListMembers DEF PoolInv, PoolRecords, ListInv, Distinct
  <2>2. /\ Len(Unlink(p.sched, x)) = Len(p.sched) - 1 /\ Unlink(p.sched, x) \in Seq(Xfrs)
        /\ \A j \in 1..Len(Unlink(p.sched, x)) :
             /\ Old(k, j) \in 1..Len(p.sched)
             /\ Unlink(p.sched, x)[j] = p.sched[Old(k, j)]
        /\ \A i, j \in 1..Len(Unlink(p.sched, x)) : i < j => Old(k, i) < Old(k, j)
    BY <2>1, UnlinkMembers
  <2>. QED
    BY <1>1, <2>2
<1>. HIDE DEF q, k
<1>3. ASSUME NEW m \in 1..Len(f), NEW n \in 1..Len(f), NEW i \in 1..Len(q.sched), NEW j \in 1..Len(q.sched),
             m < n, f[m].x = q.sched[i], f[n].x = q.sched[j]
      PROVE  i <= j
  <2>1. Old(k, i) <= Old(k, j)
    BY <1>2, <1>3 DEF Fed
  <2>2. ~(j < i)
    <3>1. Old(k, i) \in 1..Len(p.sched) /\ Old(k, j) \in 1..Len(p.sched) /\ Len(p.sched) \in Nat
      BY <1>2, ListFacts
    <3>. QED
      BY <1>2, <2>1, <3>1
  <2>. QED
    BY <1>2, <2>2
<1>4. \A n \in 1..Len(f) : f[n].x # NoXfr => f[n].x \in q.active
  BY <1>1 DEF Fed, q
<1>5. Fed(q, f)
  BY <1>3, <1>4 DEF Fed
<1>. QED
  BY <1>5 DEF q

\* A command of the current transfer is sent.
LEMMA FedTransmit ==
  ASSUME NEW p, PoolInv(p), p.cur # NoXfr, NEW U, NEW f \in Seq(U), Fed(p, f),
         NEW u \in U, u.x = p.cur, NEW all
  PROVE  Fed(Transmit(p, all), Append(f, u))
<1>. DEFINE q == Transmit(p, all)
            g == Append(f, u)
<1>1. q.sched = p.sched /\ q.active = p.active \cup {p.cur}
  BY DEF Transmit, PoolInv, PoolRecords
<1>2. /\ Len(g) = Len(f) + 1 /\ Len(f) \in Nat /\ g[Len(f) + 1] = u
      /\ \A n \in 1..Len(f) : g[n] = f[n]
  OBVIOUS
<1>. HIDE DEF q, g
<1>3. \A n \in 1..Len(g) : n \in 1..Len(f) \/ n = Len(f) + 1
  BY <1>2
<1>4. \A n \in 1..Len(g) : g[n].x # NoXfr => g[n].x \in q.active
  BY <1>1, <1>2, <1>3 DEF Fed
<1>5. ASSUME NEW m \in 1..Len(g), NEW n \in 1..Len(g), NEW i \in 1..Len(q.sched), NEW j \in 1..Len(q.sched),
             m < n, g[m].x = q.sched[i], g[n].x = q.sched[j]
      PROVE  i <= j
  <2>1. m \in 1..Len(f)
    BY <1>2, <1>3, <1>5
  <2>2. CASE n \in 1..Len(f)
    BY <1>1, <1>2, <1>5, <2>1, <2>2 DEF Fed
  <2>3. CASE n = Len(f) + 1
    <3>1. p.sched[j] = p.cur /\ p.sched[i] = f[m].x
      BY <1>1, <1>2, <1>5, <2>1, <2>3
    <3>2. p.sched[i] \in p.active
      BY <1>1, <2>1, <3>1, ListFacts DEF Fed
    <3>3. ~(j < i)
      BY <1>1, <3>1, <3>2 DEF PoolInv, ActiveInv
    <3>. QED
      BY <1>1, <3>3, ListFacts
  <2>. QED
    BY <1>3, <2>2, <2>3
<1>6. Fed(q, g)
  BY <1>4, <1>5 DEF Fed
<1>. QED
  BY <1>6 DEF q, g

-----------------------------------------------------------------------------
(* The bytes of a flight, and its packets, that are for one transfer. *)

Bytes(f, x) == Total([n \in 1..Len(f) |-> IF f[n].x = x THEN f[n].cnt ELSE 0])
Number(f, x) == Total([n \in 1..Len(f) |-> IF f[n].x = x THEN 1 ELSE 0])

LEMMA BytesFacts ==
  ASSUME NEW U, \A u \in U : u.cnt \in Nat, NEW f \in Seq(U), NEW x
  PROVE  /\ Bytes(f, x) \in Nat
         /\ \A u \in U : Bytes(Append(f, u), x) = Bytes(f, x) + (IF u.x = x THEN u.cnt ELSE 0)
         /\ f # <<>> => Bytes(f, x) = (IF Head(f).x = x THEN Head(f).cnt ELSE 0) + Bytes(Tail(f), x)
         /\ \A n \in 1..Len(f) : f[n].x = x => f[n].cnt <= Bytes(f, x)
         /\ (\A n \in 1..Len(f) : f[n].x # x) => Bytes(f, x) = 0
<1>. DEFINE w == [u \in U |-> IF u.x = x THEN u.cnt ELSE 0]
<1>1. w \in [U -> Nat] /\ \A u \in U : w[u] = IF u.x = x THEN u.cnt ELSE 0
  OBVIOUS
<1>. HIDE DEF w
<1>2. ASSUME NEW g \in Seq(U) PROVE Bytes(g, x) = Weighed(g, w)
  <2>1. \A n \in 1..Len(g) : g[n] \in U
    OBVIOUS
  <2>2. \A n \in 1..Len(g) : w[g[n]] = IF g[n].x = x THEN g[n].cnt ELSE 0
    BY <1>1, <2>1
  <2>. QED
    BY <2>2 DEF Bytes, Weighed
<1>3. /\ Weighed(f, w) \in Nat
      /\ \A u \in U : Weighed(Append(f, u), w) = Weighed(f, w) + w[u]
      /\ f # <<>> => Weighed(f, w) = w[Head(f)] + Weighed(Tail(f), w)
      /\ \A n \in 1..Len(f) : w[f[n]] <= Weighed(f, w)
      /\ (\A n \in 1..Len(f) : w[f[n]] = 0) => Weighed(f, w) = 0
  BY <1>1, WeighedFacts
<1>4. \A n \in 1..Len(f) : f[n] \in U
  OBVIOUS
<1>5. \A u \in U : Append(f, u) \in Seq(U)
  OBVIOUS
<1>6. f # <<>> => Head(f) \in U /\ Tail(f) \in Seq(U)
  OBVIOUS
<1>7. \A u \in U : Bytes(Append(f, u), x) = Bytes(f, x) + (IF u.x = x THEN u.cnt ELSE 0)
  BY <1>1, <1>2, <1>3, <1>5
<1>8. f # <<>> => Bytes(f, x) = (IF Head(f).x = x THEN Head(f).cnt ELSE 0) + Bytes(Tail(f), x)
  BY <1>1, <1>2, <1>3, <1>6
<1>9. \A n \in 1..Len(f) : f[n].x = x => f[n].cnt <= Bytes(f, x)
  BY <1>1, <1>2, <1>3, <1>4
<1>10. (\A n \in 1..Len(f) : f[n].x # x) => Bytes(f, x) = 0
  BY <1>1, <1>2, <1>3, <1>4
<1>. QED
  BY <1>2, <1>3, <1>7, <1>8, <1>9, <1>10

LEMMA BytesSame ==
  ASSUME NEW f, NEW g, Len(g) = Len(f), \A n \in 1..Len(f) : g[n].x = f[n].x /\ g[n].cnt = f[n].cnt
  PROVE  \A x : Bytes(g, x) = Bytes(f, x)
  BY DEF Bytes

LEMMA NumberFacts ==
  ASSUME NEW U, NEW f \in Seq(U), NEW x
  PROVE  /\ Number(f, x) \in Nat
         /\ \A u \in U : Number(Append(f, u), x) = Number(f, x) + (IF u.x = x THEN 1 ELSE 0)
         /\ f # <<>> => Number(f, x) = (IF Head(f).x = x THEN 1 ELSE 0) + Number(Tail(f), x)
         /\ \A n \in 1..Len(f) : f[n].x = x => 1 <= Number(f, x)
         /\ (\A n \in 1..Len(f) : f[n].x # x) => Number(f, x) = 0
<1>. DEFINE w == [u \in U |-> IF u.x = x THEN 1 ELSE 0]
<1>1. w \in [U -> Nat] /\ \A u \in U : w[u] = IF u.x = x THEN 1 ELSE 0
  OBVIOUS
<1>. HIDE DEF w
<1>2. ASSUME NEW g \in Seq(U) PROVE Number(g, x) = Weighed(g, w)
  <2>1. \A n \in 1..Len(g) : g[n] \in U
    OBVIOUS
  <2>2. \A n \in 1..Len(g) : w[g[n]] = IF g[n].x = x THEN 1 ELSE 0
    BY <1>1, <2>1
  <2>. QED
    BY <2>2 DEF Number, Weighed
<1>3. /\ Weighed(f, w) \in Nat
      /\ \A u \in U : Weighed(Append(f, u), w) = Weighed(f, w) + w[u]
      /\ f # <<>> => Weighed(f, w) = w[Head(f)] + Weighed(Tail(f), w)
      /\ \A n \in 1..Len(f) : w[f[n]] <= Weighed(f, w)
      /\ (\A n \in 1..Len(f) : w[f[n]] = 0) => Weighed(f, w) = 0
  BY <1>1, WeighedFacts
<1>4. \A n \in 1..Len(f) : f[n] \in U
  OBVIOUS
<1>5. \A u \in U : Append(f, u) \in Seq(U)
  OBVIOUS
<1>6. f # <<>> => Head(f) \in U /\ Tail(f) \in Seq(U)
  OBVIOUS
<1>7. \A u \in U : Number(Append(f, u), x) = Number(f, x) + (IF u.x = x THEN 1 ELSE 0)
  BY <1>1, <1>2, <1>3, <1>5
<1>8. f # <<>> => Number(f, x) = (IF Head(f).x = x THEN 1 ELSE 0) + Number(Tail(f), x)
  BY <1>1, <1>2, <1>3, <1>6
<1>9. \A n \in 1..Len(f) : f[n].x = x => 1 <= Number(f, x)
  BY <1>1, <1>2, <1>3, <1>4
<1>10. (\A n \in 1..Len(f) : f[n].x # x) => Number(f, x) = 0
  BY <1>1, <1>2, <1>3, <1>4
<1>. QED
  BY <1>2, <1>3, <1>7, <1>8, <1>9, <1>10

LEMMA NumberSame ==
  ASSUME NEW f, NEW g, Len(g) = Len(f), \A n \in 1..Len(f) : g[n].x = f[n].x
  PROVE  \A x : Number(g, x) = Number(f, x)
  BY DEF Number

-----------------------------------------------------------------------------
(* What an operation does to the list, the current transfer and the active *)
(* ones, which is all that a flight has to do with.                        *)

Alike(p, q) == q.sched = p.sched /\ q.cur = p.cur /\ q.active = p.active

LEMMA AlikeFacts ==
  ASSUME NEW p, NEW q, PoolInv(p), PoolInv(q), Alike(p, q)
  PROVE  /\ Scheduled(q) = Scheduled(p)
         /\ \A f : Fed(p, f) => Fed(q, f)
<1>1. Scheduled(q) = Scheduled(p)
  <2>1. InList(q) = InList(p)
    BY DEF InList, Alike
  <2>. QED
    BY <2>1 DEF PoolInv, ListInv
<1>2. \A f : Fed(p, f) => Fed(q, f)
  BY DEF Fed, Alike
<1>. QED
  BY <1>1, <1>2

\* Creating an object, and destroying one that stays in the list, change none.
LEMMA CreateAlike ==
  ASSUME NEW p, PoolInv(p), NEW x
  PROVE  Alike(p, Create(p, x))
  BY DEF Create, Alike, PoolInv, PoolRecords

LEMMA DestroyAlike ==
  ASSUME NEW p, PoolInv(p), NEW x \in p.held
  PROVE  /\ Cancels(p, x) => Alike(Complete(p, x), Destroy(p, x))
         /\ ~Cancels(p, x) => Alike(p, Destroy(p, x))
<1>1. PoolInv(Cancel(p, x))
  BY CancelInv
<1>. DEFINE c == Cancel(p, x)
<1>2. c.sched = Destroy(p, x).sched /\ c.cur = Destroy(p, x).cur /\ c.active = Destroy(p, x).active
  BY <1>1 DEF Destroy, PoolInv, PoolRecords
<1>. QED
  BY <1>2 DEF Cancel, Alike

LEMMA ScheduleFacts ==
  ASSUME NEW p, PoolInv(p), NEW x \in Xfrs, CanSchedule(p, x)
  PROVE  LET q == Schedule(p, x) IN
         /\ PoolInv(q) /\ Scheduled(q) = Scheduled(p) \cup {x} /\ x \notin Scheduled(p)
         /\ q.active = p.active /\ x \notin p.active
         /\ q.cur = IF p.cur = NoXfr THEN x ELSE p.cur
         /\ q.sched # <<>> /\ Head(q.sched) = IF p.sched = <<>> THEN x ELSE Head(p.sched)
<1>. DEFINE q == Schedule(p, x)
<1>1. q.sched = Append(p.sched, x) /\ q.active = p.active /\ q.cur = IF p.cur = NoXfr THEN x ELSE p.cur
  BY DEF Schedule, PoolInv, PoolRecords
<1>2. PoolInv(q) /\ InList(q) = InList(p) \cup {x}
  BY ScheduleInv
<1>3. Scheduled(q) = InList(q) /\ Scheduled(p) = InList(p)
  BY <1>2 DEF PoolInv, ListInv
<1>4. x \notin Scheduled(p) /\ p.active \subseteq Scheduled(p) /\ p.sched \in Seq(Xfrs)
  BY ListFacts DEF CanSchedule, Scheduled
<1>5. Append(p.sched, x) # <<>> /\ Head(Append(p.sched, x)) = IF p.sched = <<>> THEN x ELSE Head(p.sched)
  <2>1. ASSUME NEW t \in Seq(Xfrs)
        PROVE  Append(t, x) # <<>> /\ Head(Append(t, x)) = IF t = <<>> THEN x ELSE Head(t)
    <3>1. CASE t = <<>>
      BY <3>1
    <3>2. CASE t # <<>>
      <4>1. Len(Append(t, x)) = Len(t) + 1 /\ Append(t, x)[1] = t[1]
        BY <3>2
      <4>. QED
        BY <3>2, <4>1
    <3>. QED
      BY <3>1, <3>2
  <2>. QED
    BY <1>4, <2>1
<1>. HIDE DEF q
<1>6. /\ PoolInv(q) /\ Scheduled(q) = Scheduled(p) \cup {x} /\ x \notin Scheduled(p)
      /\ q.active = p.active /\ x \notin p.active
      /\ q.cur = (IF p.cur = NoXfr THEN x ELSE p.cur)
      /\ q.sched # <<>> /\ Head(q.sched) = (IF p.sched = <<>> THEN x ELSE Head(p.sched))
  BY <1>1, <1>2, <1>3, <1>4, <1>5
<1>. QED
  BY <1>6 DEF q

LEMMA TransmitFacts ==
  ASSUME NEW p, PoolInv(p), p.cur # NoXfr, NEW all \in BOOLEAN
  PROVE  LET q == Transmit(p, all) IN
         /\ PoolInv(q) /\ Scheduled(q) = Scheduled(p) /\ q.sched = p.sched
         /\ q.active = p.active \cup {p.cur} /\ p.cur \in Scheduled(p)
         /\ ~all => q.cur = p.cur
         /\ all => q.cur \notin q.active
<1>. DEFINE q == Transmit(p, all)
<1>1. q.sched = p.sched /\ q.active = p.active \cup {p.cur} /\ q.cur = IF all THEN NextOf(p.sched, p.cur) ELSE p.cur
  BY DEF Transmit, PoolInv, PoolRecords
<1>2. PoolInv(q) /\ InList(q) = InList(p)
  BY TransmitInv
<1>3. Scheduled(q) = InList(q) /\ Scheduled(p) = InList(p)
  BY <1>2 DEF PoolInv, ListInv
<1>4. ASSUME all PROVE q.cur \notin q.active
  <2>. DEFINE k == Position(p.sched, p.cur)
  <2>1. k \in 1..Len(p.sched) /\ p.sched[k] = p.cur
    <3>1. p.sched \in Seq(Xfrs) /\ \E i \in 1..Len(p.sched) : p.sched[i] = p.cur
      BY ListFacts
    <3>. QED
      BY <3>1, PositionFact
  <2>2. q.cur = IF k < Len(p.sched) THEN p.sched[k + 1] ELSE NoXfr
    BY <1>1, <1>4 DEF NextOf
  <2>. HIDE DEF k, q
  <2>3. CASE k < Len(p.sched)
    <3>1. k + 1 \in 1..Len(p.sched) /\ k < k + 1 /\ k + 1 # k
      BY <2>1, <2>3, ListFacts
    <3>2. p.sched[k + 1] \notin p.active
      BY <2>1, <3>1 DEF PoolInv, ActiveInv
    <3>3. p.sched[k + 1] # p.cur
      BY <2>1, <3>1, ListFacts
    <3>. QED
      BY <1>1, <2>2, <2>3, <3>2, <3>3
  <2>4. CASE ~(k < Len(p.sched))
    <3>1. NoXfr \notin p.active
      BY ListFacts, NoXfrAssumption DEF Scheduled
    <3>. QED
      BY <1>1, <2>2, <2>4, <3>1
  <2>. QED
    BY <2>3, <2>4
<1>5. p.cur \in Scheduled(p)
  BY ListFacts
<1>. HIDE DEF q
<1>6. /\ PoolInv(q) /\ Scheduled(q) = Scheduled(p) /\ q.sched = p.sched
      /\ q.active = p.active \cup {p.cur} /\ p.cur \in Scheduled(p)
      /\ ~all => q.cur = p.cur
      /\ all => q.cur \notin q.active
  BY <1>1, <1>2, <1>3, <1>4, <1>5
<1>. QED
  BY <1>6 DEF q

LEMMA CompleteFacts ==
  ASSUME NEW p, PoolInv(p), NEW x \in Scheduled(p)
  PROVE  LET q == Complete(p, x) IN
         /\ PoolInv(q) /\ Scheduled(q) = Scheduled(p) \ {x} /\ q.active = p.active \ {x}
         /\ p.cur # x => q.cur = p.cur
         /\ p.cur = x => q.cur # x /\ q.cur \notin p.active
         /\ Head(p.sched) # x => q.sched # <<>> /\ Head(q.sched) = Head(p.sched)
         /\ p.cur = x /\ x \in p.active => Head(p.sched) = x \/ Head(p.sched) \in p.active
<1>. DEFINE q == Complete(p, x)
            k == Position(p.sched, x)
<1>1. q.sched = Unlink(p.sched, x) /\ q.active = p.active \ {x} /\ q.cur = IF p.cur = x THEN NextOf(p.sched, x) ELSE p.cur
  BY DEF Complete, PoolInv, PoolRecords
<1>2. x \in InList(p) /\ Scheduled(p) = InList(p)
  BY DEF PoolInv, ListInv
<1>3. PoolInv(q) /\ InList(q) = InList(p) \ {x}
  BY <1>2, CompleteInv
<1>4. Scheduled(q) = InList(q)
  BY <1>3 DEF PoolInv, ListInv
<1>5. k \in 1..Len(p.sched) /\ p.sched[k] = x
  <2>1. p.sched \in Seq(Xfrs) /\ \E i \in 1..Len(p.sched) : p.sched[i] = x
    BY ListFacts
  <2>. QED
    BY <2>1, PositionFact
<1>6. NextOf(p.sched, x) = IF k < Len(p.sched) THEN p.sched[k + 1] ELSE NoXfr
  BY DEF NextOf
<1>. HIDE DEF k
<1>7. ASSUME p.cur = x PROVE NextOf(p.sched, x) # x /\ NextOf(p.sched, x) \notin p.active
  <2>1. CASE k < Len(p.sched)
    <3>1. k + 1 \in 1..Len(p.sched) /\ k < k + 1 /\ k + 1 # k
      BY <1>5, <2>1, ListFacts
    <3>2. p.sched[k + 1] \notin p.active
      BY <1>5, <1>7, <3>1 DEF PoolInv, ActiveInv
    <3>3. p.sched[k + 1] # x
      BY <1>5, <3>1, ListFacts
    <3>. QED
      BY <1>6, <2>1, <3>2, <3>3
  <2>2. CASE ~(k < Len(p.sched))
    BY <1>6, <2>2, ListFacts, NoXfrAssumption DEF Scheduled
  <2>. QED
    BY <2>1, <2>2
<1>8. ASSUME Head(p.sched) # x PROVE q.sched # <<>> /\ Head(q.sched) = Head(p.sched)
  <2>1. 1 \in 1..Len(p.sched) /\ p.sched[1] = Head(p.sched) /\ p.sched \in Seq(Xfrs) /\ Len(p.sched) \in Nat
    <3>1. p.sched # <<>>
      BY ListFacts
    <3>. QED
      BY <3>1, ListFacts
  <2>2. 1 < k /\ k <= Len(p.sched)
    BY <1>5, <1>8, <2>1
  <2>3. q.sched = [j \in 1..(Len(p.sched) - 1) |-> IF j < k THEN p.sched[j] ELSE p.sched[j + 1]]
    BY <1>1 DEF Unlink, k
  <2>4. q.sched[1] = p.sched[1]
    <3>1. 1 \in 1..(Len(p.sched) - 1)
      BY <1>5, <2>1, <2>2
    <3>. QED
      BY <2>2, <2>3, <3>1
  <2>5. q.sched \in Seq(Xfrs) /\ Len(q.sched) = Len(p.sched) - 1
    <3>1. p.sched \in Seq(Xfrs) /\ k = Position(p.sched, x)
      BY <2>1 DEF k
    <3>. QED
      BY <1>1, <1>5, <3>1, UnlinkFact
  <2>. HIDE DEF q
  <2>6. Len(q.sched) > 0
    BY <1>5, <2>1, <2>2, <2>5
  <2>7. q.sched # <<>>
    BY <2>6
  <2>. QED
    BY <2>1, <2>4, <2>5, <2>7
<1>9. ASSUME p.cur = x, x \in p.active PROVE Head(p.sched) = x \/ Head(p.sched) \in p.active
  <2>1. 1 \in 1..Len(p.sched) /\ p.sched[1] = Head(p.sched)
    <3>1. p.sched # <<>>
      BY ListFacts
    <3>. QED
      BY <3>1, ListFacts
  <2>2. k = 1 \/ 1 < k
    BY <1>5, ListFacts
  <2>. QED
    BY <1>5, <1>9, <2>1, <2>2 DEF PoolInv, ActiveInv
<1>. HIDE DEF q
<1>10. PoolInv(q) /\ Scheduled(q) = Scheduled(p) \ {x} /\ q.active = p.active \ {x}
  BY <1>1, <1>2, <1>3, <1>4
<1>11. /\ p.cur # x => q.cur = p.cur
       /\ p.cur = x => q.cur # x /\ q.cur \notin p.active
  BY <1>1, <1>7
<1>. QED
  BY <1>8, <1>9, <1>10, <1>11 DEF q

\* Nothing of the oldest transfer can be left out when others are active.
LEMMA HeadActive ==
  ASSUME NEW p, PoolInv(p), NEW x \in p.active
  PROVE  p.sched # <<>> /\ (Head(p.sched) \in p.active)
<1>1. PICK i \in 1..Len(p.sched) : p.sched[i] = x
  BY ListFacts
<1>2. p.sched # <<>>
  BY ListFacts
<1>3. 1 \in 1..Len(p.sched) /\ p.sched[1] = Head(p.sched)
  BY <1>2, ListFacts
<1>4. i = 1 \/ 1 < i
  BY ListFacts
<1>. QED
  BY <1>1, <1>2, <1>3, <1>4 DEF PoolInv, ActiveInv

\* The two ends of a sequence.
LEMMA TailFacts ==
  ASSUME NEW S, NEW f \in Seq(S), f # <<>>
  PROVE  /\ Tail(f) \in Seq(S) /\ Len(Tail(f)) \in Nat /\ Len(f) = Len(Tail(f)) + 1
         /\ 1 \in 1..Len(f) /\ Head(f) = f[1] /\ Head(f) \in S
         /\ \A n \in 1..Len(Tail(f)) : /\ Tail(f)[n] = f[n + 1] /\ Tail(f)[n] \in S
                                       /\ n + 1 \in 1..Len(f) /\ n + 1 # 1
         /\ \A n \in 1..Len(f) : n = 1 \/ (n - 1 \in 1..Len(Tail(f)) /\ f[n] = Tail(f)[n - 1])
<1>. DEFINE t == Tail(f)
<1>1. t \in Seq(S) /\ Len(f) = Len(t) + 1 /\ Len(t) \in Nat /\ Head(f) = f[1] /\ \A n \in 1..Len(t) : t[n] = f[n + 1]
  OBVIOUS
<1>2. \A n \in 1..Len(t) : t[n] \in S
  BY <1>1
<1>3. \A n \in 1..Len(f) : f[n] \in S
  OBVIOUS
<1>. HIDE DEF t
<1>4. 1 \in 1..Len(f) /\ \A n \in 1..Len(t) : n + 1 \in 1..Len(f) /\ n + 1 # 1
  BY <1>1
<1>5. ASSUME NEW n \in 1..Len(f), n # 1 PROVE n - 1 \in 1..Len(t) /\ f[n] = t[n - 1]
  <2>1. n - 1 \in 1..Len(t) /\ (n - 1) + 1 = n
    BY <1>1, <1>5
  <2>. QED
    BY <1>1, <2>1
<1>6. Head(f) \in S
  BY <1>1, <1>3, <1>4
<1>7. /\ t \in Seq(S) /\ Len(t) \in Nat /\ Len(f) = Len(t) + 1
      /\ 1 \in 1..Len(f) /\ Head(f) = f[1] /\ Head(f) \in S
      /\ \A n \in 1..Len(t) : t[n] = f[n + 1] /\ t[n] \in S /\ n + 1 \in 1..Len(f) /\ n + 1 # 1
      /\ \A n \in 1..Len(f) : n = 1 \/ (n - 1 \in 1..Len(t) /\ f[n] = t[n - 1])
  BY <1>1, <1>2, <1>4, <1>5, <1>6
<1>. QED
  BY <1>7 DEF t

LEMMA AppendFacts ==
  ASSUME NEW S, NEW f \in Seq(S), NEW u \in S
  PROVE  /\ Append(f, u) \in Seq(S) /\ Len(f) \in Nat /\ Len(Append(f, u)) = Len(f) + 1
         /\ Append(f, u)[Len(f) + 1] = u /\ Len(f) + 1 \in 1..Len(Append(f, u))
         /\ \A n \in 1..Len(f) : /\ Append(f, u)[n] = f[n] /\ f[n] \in S
                                 /\ n \in 1..Len(Append(f, u)) /\ n # Len(f) + 1
         /\ \A n \in 1..Len(Append(f, u)) : n \in 1..Len(f) \/ n = Len(f) + 1
<1>. DEFINE e == Append(f, u)
<1>1. /\ e \in Seq(S) /\ Len(f) \in Nat /\ Len(e) = Len(f) + 1 /\ e[Len(f) + 1] = u
      /\ \A n \in 1..Len(f) : e[n] = f[n] /\ f[n] \in S
  OBVIOUS
<1>. HIDE DEF e
<1>2. /\ Len(f) + 1 \in 1..Len(e) /\ \A n \in 1..Len(f) : n \in 1..Len(e) /\ n # Len(f) + 1
      /\ \A n \in 1..Len(e) : n \in 1..Len(f) \/ n = Len(f) + 1
  BY <1>1
<1>. QED
  BY <1>1, <1>2 DEF e

\* Transmit with its flag known.
LEMMA TransmitAll ==
  ASSUME NEW p, PoolInv(p), p.cur # NoXfr
  PROVE  LET q == Transmit(p, TRUE) IN
         /\ PoolInv(q) /\ Scheduled(q) = Scheduled(p) /\ q.sched = p.sched
         /\ q.active = p.active \cup {p.cur} /\ p.cur \in Scheduled(p)
         /\ q.cur \notin q.active
<1>1. TRUE \in BOOLEAN /\ TRUE
  OBVIOUS
<1>. QED
  BY <1>1, TransmitFacts, Zenon

LEMMA TransmitSome ==
  ASSUME NEW p, PoolInv(p), p.cur # NoXfr
  PROVE  LET q == Transmit(p, FALSE) IN
         /\ PoolInv(q) /\ Scheduled(q) = Scheduled(p) /\ q.sched = p.sched
         /\ q.active = p.active \cup {p.cur} /\ p.cur \in Scheduled(p)
         /\ q.cur = p.cur
<1>1. FALSE \in BOOLEAN /\ ~FALSE
  OBVIOUS
<1>. QED
  BY <1>1, TransmitFacts, Zenon

-----------------------------------------------------------------------------
(* GPIO *)

GpioUnits == [k : {"gpio"}, x : Xfrs, pin : GpioPins]

GpioShape(g) ==
  /\ DOMAIN g = {"pool", "pin"}
  /\ PoolInv(g.pool)
  /\ g.pin \in [Scheduled(g.pool) -> GpioPins]
  /\ g.pool.cur \notin g.pool.active

\* Each active transfer has one read in flight, of its own pin.
GpioFlow(g, f) ==
  /\ Fed(g.pool, f)
  /\ \A n \in 1..Len(f) : f[n].pin = g.pin[f[n].x]
  /\ \A x \in g.pool.active : \E n \in 1..Len(f) : f[n].x = x
  /\ \A m, n \in 1..Len(f) : f[m].x = f[n].x => m = n

LEMMA GpioAlike ==
  ASSUME NEW g, NEW h, GpioShape(g), DOMAIN h = DOMAIN g, PoolInv(h.pool), Alike(g.pool, h.pool), h.pin = g.pin
  PROVE  GpioShape(h) /\ \A f : GpioFlow(g, f) => GpioFlow(h, f)
<1>1. Scheduled(h.pool) = Scheduled(g.pool) /\ \A f : Fed(g.pool, f) => Fed(h.pool, f)
  BY AlikeFacts DEF GpioShape
<1>2. GpioShape(h)
  BY <1>1 DEF GpioShape, Alike
<1>3. \A f : GpioFlow(g, f) => GpioFlow(h, f)
  BY <1>1 DEF GpioFlow, Alike
<1>. QED
  BY <1>2, <1>3

LEMMA GpioSchedule ==
  ASSUME NEW g, NEW h, GpioShape(g), DOMAIN h = DOMAIN g,
         NEW x \in Xfrs, CanSchedule(g.pool, x), NEW pin \in GpioPins,
         h.pool = Schedule(g.pool, x),
         h.pin = [y \in DOMAIN g.pin \cup {x} |-> IF y = x THEN pin ELSE g.pin[y]]
  PROVE  GpioShape(h) /\ \A f : (\A n \in 1..Len(f) : f[n].x \in Xfrs) /\ GpioFlow(g, f) => GpioFlow(h, f)
<1>0. PoolInv(g.pool) /\ g.pin \in [Scheduled(g.pool) -> GpioPins] /\ g.pool.cur \notin g.pool.active
  BY DEF GpioShape
<1>1. /\ PoolInv(h.pool) /\ Scheduled(h.pool) = Scheduled(g.pool) \cup {x} /\ x \notin Scheduled(g.pool)
      /\ h.pool.active = g.pool.active /\ x \notin g.pool.active
      /\ h.pool.cur = IF g.pool.cur = NoXfr THEN x ELSE g.pool.cur
  BY <1>0, ScheduleFacts
<1>2. h.pin \in [Scheduled(h.pool) -> GpioPins] /\ \A y \in Scheduled(g.pool) : h.pin[y] = g.pin[y]
  BY <1>0, <1>1
<1>3. GpioShape(h)
  BY <1>0, <1>1, <1>2 DEF GpioShape
<1>4. ASSUME NEW f, GpioFlow(g, f), \A n \in 1..Len(f) : f[n].x \in Xfrs PROVE GpioFlow(h, f)
  <2>1. Fed(h.pool, f)
    BY <1>0, <1>4, FedSchedule DEF GpioFlow
  <2>2. \A n \in 1..Len(f) : f[n].x \in Scheduled(g.pool)
    BY <1>0, <1>4, ListFacts, NoXfrAssumption DEF GpioFlow, Fed
  <2>. QED
    BY <1>1, <1>2, <1>4, <2>1, <2>2 DEF GpioFlow
<1>. QED
  BY <1>3, <1>4

\* A transfer that is not active is cancelled.
LEMMA GpioCancel ==
  ASSUME NEW g, NEW h, GpioShape(g), DOMAIN h = DOMAIN g, PoolInv(h.pool),
         NEW x \in Scheduled(g.pool), x \notin g.pool.active,
         Alike(Complete(g.pool, x), h.pool), h.pin = Without(g.pin, x)
  PROVE  GpioShape(h) /\ \A f : (\A n \in 1..Len(f) : f[n].x \in Xfrs) /\ GpioFlow(g, f) => GpioFlow(h, f)
<1>0. PoolInv(g.pool) /\ g.pin \in [Scheduled(g.pool) -> GpioPins] /\ g.pool.cur \notin g.pool.active
  BY DEF GpioShape
<1>. DEFINE q == Complete(g.pool, x)
<1>1. /\ PoolInv(q) /\ Scheduled(q) = Scheduled(g.pool) \ {x} /\ q.active = g.pool.active \ {x}
      /\ g.pool.cur # x => q.cur = g.pool.cur
      /\ g.pool.cur = x => q.cur # x /\ q.cur \notin g.pool.active
  BY <1>0, CompleteFacts
<1>2. /\ Scheduled(h.pool) = Scheduled(g.pool) \ {x} /\ h.pool.active = g.pool.active
      /\ h.pool.cur \notin h.pool.active /\ \A f : Fed(q, f) => Fed(h.pool, f)
  BY SMTT(30), <1>0, <1>1, AlikeFacts DEF Alike
<1>3. h.pin \in [Scheduled(h.pool) -> GpioPins] /\ \A y \in Scheduled(g.pool) \ {x} : h.pin[y] = g.pin[y]
  <2>1. /\ Without(g.pin, x) \in [Scheduled(g.pool) \ {x} -> GpioPins]
        /\ \A y \in Scheduled(g.pool) \ {x} : Without(g.pin, x)[y] = g.pin[y]
    BY <1>0 DEF Without
  <2>. QED
    BY <1>2, <2>1
<1>4. GpioShape(h)
  BY <1>2, <1>3 DEF GpioShape
<1>5. ASSUME NEW f, GpioFlow(g, f), \A n \in 1..Len(f) : f[n].x \in Xfrs PROVE GpioFlow(h, f)
  <2>1. \A n \in 1..Len(f) : f[n].x \in g.pool.active
    BY <1>5, NoXfrAssumption DEF GpioFlow, Fed
  <2>2. \A n \in 1..Len(f) : f[n].x # x /\ f[n].x \in Scheduled(g.pool)
    BY <1>0, <2>1, ListFacts
  <2>3. Fed(q, f)
    <3>1. x \in InList(g.pool)
      BY <1>0 DEF PoolInv, ListInv
    <3>. QED
      BY <1>0, <1>5, <2>2, <3>1, FedComplete DEF GpioFlow
  <2>. QED
    BY <1>2, <1>3, <1>5, <2>2, <2>3 DEF GpioFlow
<1>. QED
  BY <1>4, <1>5

LEMMA GpioSend ==
  ASSUME NEW g, NEW h, GpioShape(g), DOMAIN h = DOMAIN g, g.pool.cur # NoXfr,
         h.pool = Transmit(g.pool, TRUE), h.pin = g.pin,
         NEW u, u = [k |-> "gpio", x |-> g.pool.cur, pin |-> g.pin[g.pool.cur]]
  PROVE  /\ u \in GpioUnits
         /\ GpioShape(h)
         /\ \A f \in Seq(GpioUnits) : GpioFlow(g, f) => GpioFlow(h, Append(f, u))
<1>0. PoolInv(g.pool) /\ g.pin \in [Scheduled(g.pool) -> GpioPins] /\ g.pool.cur \notin g.pool.active
  BY DEF GpioShape
<1>1. /\ PoolInv(h.pool) /\ Scheduled(h.pool) = Scheduled(g.pool) /\ h.pool.sched = g.pool.sched
      /\ h.pool.active = g.pool.active \cup {g.pool.cur} /\ g.pool.cur \in Scheduled(g.pool)
      /\ h.pool.cur \notin h.pool.active
  <2>. DEFINE q == Transmit(g.pool, TRUE)
  <2>1. /\ PoolInv(q) /\ Scheduled(q) = Scheduled(g.pool) /\ q.sched = g.pool.sched
        /\ q.active = g.pool.active \cup {g.pool.cur} /\ g.pool.cur \in Scheduled(g.pool)
        /\ q.cur \notin q.active
    BY <1>0, TransmitAll, Zenon
  <2>. QED
    BY <2>1
<1>2. u \in GpioUnits
  BY <1>0, <1>1 DEF GpioUnits, Scheduled
<1>3. GpioShape(h)
  BY <1>0, <1>1 DEF GpioShape
<1>4. ASSUME NEW f \in Seq(GpioUnits), GpioFlow(g, f) PROVE GpioFlow(h, Append(f, u))
  <2>. DEFINE e == Append(f, u)
  <2>1. /\ Len(f) \in Nat /\ e[Len(f) + 1] = u /\ Len(f) + 1 \in 1..Len(e)
        /\ \A n \in 1..Len(f) : e[n] = f[n] /\ f[n] \in GpioUnits /\ n \in 1..Len(e)
        /\ \A n \in 1..Len(e) : n \in 1..Len(f) \/ n = Len(f) + 1
    BY <1>2, AppendFacts
  <2>2. Fed(h.pool, e)
    <3>1. Fed(g.pool, f) /\ u.x = g.pool.cur
      BY <1>4 DEF GpioFlow
    <3>2. Fed(Transmit(g.pool, TRUE), Append(f, u))
      BY <1>0, <1>2, <3>1, FedTransmit, Zenon
    <3>. QED
      BY <3>2
  <2>. HIDE DEF e
  <2>4. \A n \in 1..Len(f) : n \in 1..Len(e) /\ f[n].x # g.pool.cur
    <3>1. \A n \in 1..Len(f) : f[n].x \in g.pool.active
      BY <1>4, <2>1, NoXfrAssumption DEF GpioFlow, Fed, GpioUnits
    <3>. QED
      BY <1>0, <2>1, <3>1
  <2>5. \A n \in 1..Len(e) : e[n].pin = h.pin[e[n].x]
    BY <1>4, <2>1 DEF GpioFlow
  <2>6. \A x \in h.pool.active : \E n \in 1..Len(e) : e[n].x = x
    <3>1. TAKE y \in h.pool.active
    <3>2. CASE y = g.pool.cur
      BY <2>1, <3>2
    <3>3. CASE y \in g.pool.active
      BY <1>4, <2>1, <3>3 DEF GpioFlow
    <3>. QED
      BY <1>1, <3>2, <3>3
  <2>7. \A m, n \in 1..Len(e) : e[m].x = e[n].x => m = n
    BY <1>4, <2>1, <2>4 DEF GpioFlow
  <2>8. GpioFlow(h, e)
    BY <2>2, <2>5, <2>6, <2>7 DEF GpioFlow
  <2>. QED
    BY <2>8 DEF e
<1>. QED
  BY <1>2, <1>3, <1>4

\* The oldest reply is for the oldest transfer, and names its pin.
LEMMA GpioReplyFits ==
  ASSUME NEW g, GpioShape(g), NEW f \in Seq(GpioUnits), f # <<>>, GpioFlow(g, f)
  PROVE  /\ g.pool.sched # <<>> /\ Head(f).x = Head(g.pool.sched)
         /\ g.pin[Head(g.pool.sched)] = Head(f).pin
<1>1. 1 \in 1..Len(f) /\ f[1] = Head(f) /\ f[1] \in GpioUnits /\ 1..(1 - 1) = {}
  OBVIOUS
<1>2. f[1].x # NoXfr
  BY <1>1, NoXfrAssumption DEF GpioUnits
<1>3. g.pool.sched # <<>> /\ f[1].x = Head(g.pool.sched)
  BY <1>1, <1>2, FirstMeetsHead DEF GpioShape, GpioFlow
<1>. QED
  BY <1>1, <1>3 DEF GpioFlow

LEMMA GpioReply ==
  ASSUME NEW g, NEW h, GpioShape(g), DOMAIN h = DOMAIN g, g.pool.sched # <<>>,
         h.pool = Complete(g.pool, Head(g.pool.sched)), h.pin = Without(g.pin, Head(g.pool.sched))
  PROVE  /\ GpioShape(h)
         /\ \A f \in Seq(GpioUnits) : f # <<>> /\ GpioFlow(g, f) => GpioFlow(h, Tail(f))
<1>0. PoolInv(g.pool) /\ g.pin \in [Scheduled(g.pool) -> GpioPins] /\ g.pool.cur \notin g.pool.active
  BY DEF GpioShape
<1>. DEFINE x == Head(g.pool.sched)
<1>1. x \in Scheduled(g.pool)
  BY <1>0, ListFacts
<1>. HIDE DEF x
<1>2. /\ PoolInv(h.pool) /\ Scheduled(h.pool) = Scheduled(g.pool) \ {x} /\ h.pool.active = g.pool.active \ {x}
      /\ g.pool.cur # x => h.pool.cur = g.pool.cur
      /\ g.pool.cur = x => h.pool.cur # x /\ h.pool.cur \notin g.pool.active
  BY <1>0, <1>1, CompleteFacts DEF x
<1>3. h.pin \in [Scheduled(h.pool) -> GpioPins] /\ \A y \in Scheduled(g.pool) \ {x} : h.pin[y] = g.pin[y]
  <2>1. /\ Without(g.pin, x) \in [Scheduled(g.pool) \ {x} -> GpioPins]
        /\ \A y \in Scheduled(g.pool) \ {x} : Without(g.pin, x)[y] = g.pin[y]
    BY <1>0 DEF Without
  <2>. QED
    BY <1>2, <2>1 DEF x
<1>4. GpioShape(h)
  BY <1>0, <1>2, <1>3 DEF GpioShape
<1>5. ASSUME NEW f \in Seq(GpioUnits), f # <<>>, GpioFlow(g, f) PROVE GpioFlow(h, Tail(f))
  <2>. DEFINE t == Tail(f)
  <2>1. /\ Len(t) \in Nat /\ t \in Seq(GpioUnits) /\ 1 \in 1..Len(f) /\ Head(f) = f[1]
        /\ \A n \in 1..Len(t) : t[n] = f[n + 1] /\ t[n] \in GpioUnits /\ n + 1 \in 1..Len(f) /\ n + 1 # 1
        /\ \A n \in 1..Len(f) : n = 1 \/ (n - 1 \in 1..Len(t) /\ f[n] = t[n - 1])
    BY <1>5, TailFacts
  <2>2. Fed(g.pool, t)
    BY <1>5, FedTail DEF GpioFlow
  <2>. HIDE DEF t
  <2>3. Head(f).x = x
    BY <1>5, GpioReplyFits DEF x
  <2>4. \A n \in 1..Len(t) : t[n].x # x /\ t[n].x \in Scheduled(g.pool)
    <3>1. ASSUME NEW n \in 1..Len(t) PROVE t[n].x # x
      <4>1. t[n] = f[n + 1] /\ n + 1 \in 1..Len(f) /\ n + 1 # 1 /\ f[1].x = x /\ 1 \in 1..Len(f)
        BY <2>1, <2>3
      <4>2. \A i, j \in 1..Len(f) : f[i].x = f[j].x => i = j
        BY <1>5 DEF GpioFlow
      <4>. QED
        BY <4>1, <4>2
    <3>2. \A n \in 1..Len(t) : t[n].x \in g.pool.active
      BY <2>1, <2>2, NoXfrAssumption DEF Fed, GpioUnits
    <3>. QED
      BY <1>0, <3>1, <3>2, ListFacts
  <2>5. Fed(h.pool, t)
    <3>1. x \in InList(g.pool)
      BY <1>0, <1>1 DEF PoolInv, ListInv
    <3>. QED
      BY <1>0, <2>2, <2>4, <3>1, FedComplete DEF x
  <2>6. \A n \in 1..Len(t) : t[n].pin = h.pin[t[n].x]
    <3>1. TAKE n \in 1..Len(t)
    <3>2. f[n + 1].pin = g.pin[f[n + 1].x] /\ t[n] = f[n + 1]
      BY <1>5, <2>1 DEF GpioFlow
    <3>3. h.pin[t[n].x] = g.pin[t[n].x]
      BY <1>3, <2>4
    <3>. QED
      BY <3>2, <3>3
  <2>7. \A y \in h.pool.active : \E n \in 1..Len(t) : t[n].x = y
    <3>1. TAKE y \in h.pool.active
    <3>2. PICK n \in 1..Len(f) : f[n].x = y
      BY <1>2, <1>5 DEF GpioFlow
    <3>3. n # 1
      BY <1>2, <2>1, <2>3, <3>2
    <3>. QED
      BY <2>1, <3>2, <3>3
  <2>8. \A m, n \in 1..Len(t) : t[m].x = t[n].x => m = n
    <3>1. TAKE m, n \in 1..Len(t)
    <3>2. HAVE t[m].x = t[n].x
    <3>3. m + 1 = n + 1
      BY SMTT(30), <1>5, <2>1, <3>2 DEF GpioFlow
    <3>. QED
      BY <3>3
  <2>9. GpioFlow(h, t)
    BY <2>5, <2>6, <2>7, <2>8 DEF GpioFlow
  <2>. QED
    BY <2>9 DEF t
<1>. QED
  BY <1>4, <1>5

\* Every transfer ends, or the library is destroyed.
LEMMA GpioEnds ==
  ASSUME NEW g, NEW h, GpioShape(g), DOMAIN h = DOMAIN g, h.pool = CompleteAll(g.pool), h.pin = << >>
  PROVE  GpioShape(h)
<1>1. PoolInv(h.pool) /\ InList(h.pool) = {}
  BY CompleteAllInv DEF GpioShape
<1>2. Scheduled(h.pool) = {}
  BY <1>1 DEF PoolInv, ListInv
<1>3. h.pool.active = {}
  BY DEF CompleteAll, GpioShape, PoolInv, PoolRecords
<1>. QED
  BY <1>1, <1>2, <1>3 DEF GpioShape

LEMMA GpioEmpty ==
  GpioShape(GpioClear) /\ GpioFlow(GpioClear, <<>>)
<1>1. PoolInv(EmptyPool) /\ InList(EmptyPool) = {}
  BY EmptyInv
<1>2. Scheduled(EmptyPool) = {}
  BY <1>1 DEF PoolInv, ListInv
<1>3. EmptyPool.active = {}
  BY DEF EmptyPool
<1>. QED
  BY <1>1, <1>2, <1>3 DEF GpioShape, GpioFlow, GpioClear, Fed

-----------------------------------------------------------------------------
(* SPI *)

\* The packet whose data bytes are being read is for the oldest transfer.
Reads(r, k, s, x) == r.k = k /\ x = Head(s.pool.sched)
Left(r, k, s, x) == IF Reads(r, k, s, x) THEN r.left ELSE 0

SpiUnits ==
  [k : {"spi"}, x : Xfrs, cnt : Nat \ {0}, ss : SpiSelects, last : BOOLEAN, skipped : BOOLEAN]
SpiProgs == [sc : Nat, ss : SpiSelects, fi : Nat, si : Nat, skipped : BOOLEAN]

SpiShape(s) ==
  /\ DOMAIN s = {"pool", "prog", "free", "buf", "on"}
  /\ PoolInv(s.pool)
  /\ s.prog \in [Scheduled(s.pool) -> SpiProgs]
  /\ \A x \in Scheduled(s.pool) :
       s.prog[x].si <= s.prog[x].fi /\ s.prog[x].fi <= s.prog[x].sc /\ 0 < s.prog[x].sc
  /\ s.free \in Nat
  /\ s.buf \in Seq(SpiUnits)

(* The bytes sent of x have been received, or are in flight.  A transfer   *)
(* that is wholly sent has a unit that says so, unless it is being read.   *)
SpiAbout(s, f, r, x) ==
  /\ s.prog[x].si + Left(r, "spi", s, x) + Bytes(f, x) = s.prog[x].fi
  /\ x \notin s.pool.active => s.prog[x].fi = 0 /\ ~s.prog[x].skipped
  /\ x \in s.pool.active /\ x # s.pool.cur => s.prog[x].fi = s.prog[x].sc
  /\ x = s.pool.cur => s.prog[x].fi < s.prog[x].sc
  /\ x \in s.pool.active /\ x # s.pool.cur /\ ~Reads(r, "spi", s, x) => s.prog[x].si < s.prog[x].sc
  /\ s.prog[x].fi = s.prog[x].sc => \/ Reads(r, "spi", s, x) /\ r.last
                                    \/ \E n \in 1..Len(f) : f[n].x = x /\ f[n].last
  /\ s.prog[x].skipped => ~s.on /\ r.k # "spi" /\ \A n \in 1..Len(f) : f[n].skipped

\* The last unit of a transfer is known as such; the device, once disabled,
\* skips all that is left.
SpiOrder(s, f) ==
  /\ \A n \in 1..Len(f) : f[n].ss = s.prog[f[n].x].ss
  /\ \A m, n \in 1..Len(f) : f[m].last /\ f[m].x = f[n].x => n <= m
  /\ \A n \in 1..Len(f) : f[n].last => s.prog[f[n].x].fi = s.prog[f[n].x].sc
  /\ \A m, n \in 1..Len(f) : m < n /\ f[m].skipped => f[n].skipped
  /\ \A n \in 1..Len(f) : f[n].skipped => ~s.on

SpiReads(s, f, r) ==
  r.k = "spi" =>
    /\ s.pool.sched # <<>>
    /\ r \in [k : {"spi"}, left : Nat \ {0}, last : BOOLEAN]
    /\ r.last => /\ s.prog[Head(s.pool.sched)].fi = s.prog[Head(s.pool.sched)].sc
                 /\ \A n \in 1..Len(f) : f[n].x # Head(s.pool.sched)

SpiFlow(s, f, r) ==
  /\ Fed(s.pool, f)
  /\ \A x \in Scheduled(s.pool) : SpiAbout(s, f, r, x)
  /\ SpiOrder(s, f)
  /\ SpiReads(s, f, r)

\* The types, as the provers need them.
LEMMA SpiTypes ==
  ASSUME NEW s, SpiShape(s)
  PROVE  /\ PoolInv(s.pool) /\ s.prog \in [Scheduled(s.pool) -> SpiProgs] /\ s.free \in Nat
         /\ \A x \in Scheduled(s.pool) :
              /\ s.prog[x].si \in Nat /\ s.prog[x].fi \in Nat /\ s.prog[x].sc \in Nat /\ s.prog[x].ss \in SpiSelects
              /\ s.prog[x].si <= s.prog[x].fi /\ s.prog[x].fi <= s.prog[x].sc /\ 0 < s.prog[x].sc
<1>1. PoolInv(s.pool) /\ s.prog \in [Scheduled(s.pool) -> SpiProgs] /\ s.free \in Nat
  BY DEF SpiShape
<1>2. \A x \in Scheduled(s.pool) : s.prog[x] \in SpiProgs
  BY <1>1
<1>3. \A x \in Scheduled(s.pool) :
        s.prog[x].si \in Nat /\ s.prog[x].fi \in Nat /\ s.prog[x].sc \in Nat /\ s.prog[x].ss \in SpiSelects
  BY <1>2 DEF SpiProgs
<1>. QED
  BY <1>1, <1>3 DEF SpiShape

LEMMA SpiUnitTypes ==
  ASSUME NEW f \in Seq(SpiUnits)
  PROVE  /\ Len(f) \in Nat
         /\ \A n \in 1..Len(f) : f[n] \in SpiUnits /\ f[n].x \in Xfrs /\ f[n].x # NoXfr
                                 /\ f[n].cnt \in Nat /\ 0 < f[n].cnt
         /\ \A u \in SpiUnits : u.cnt \in Nat /\ 0 < u.cnt /\ u.x \in Xfrs
<1>1. Len(f) \in Nat /\ \A n \in 1..Len(f) : f[n] \in SpiUnits
  OBVIOUS
<1>2. \A u \in SpiUnits : u.cnt \in Nat /\ 0 < u.cnt /\ u.x \in Xfrs
  BY DEF SpiUnits
<1>. QED
  BY <1>1, <1>2, NoXfrAssumption

\* The units of a flight are for scheduled transfers.
LEMMA SpiMeant ==
  ASSUME NEW s, PoolInv(s.pool), NEW f \in Seq(SpiUnits), Fed(s.pool, f)
  PROVE  \A n \in 1..Len(f) : f[n].x \in s.pool.active /\ f[n].x \in Scheduled(s.pool)
<1>1. \A n \in 1..Len(f) : f[n].x # NoXfr
  BY SpiUnitTypes
<1>2. s.pool.active \subseteq Scheduled(s.pool)
  BY ListFacts
<1>. QED
  BY <1>1, <1>2 DEF Fed

\* No bytes for a transfer: no unit for it, and the other way round.
LEMMA SpiBytes ==
  ASSUME NEW f \in Seq(SpiUnits), NEW x
  PROVE  /\ Bytes(f, x) \in Nat
         /\ \A u \in SpiUnits : Bytes(Append(f, u), x) = Bytes(f, x) + (IF u.x = x THEN u.cnt ELSE 0)
         /\ f # <<>> => Bytes(f, x) = (IF Head(f).x = x THEN Head(f).cnt ELSE 0) + Bytes(Tail(f), x)
         /\ \A n \in 1..Len(f) : f[n].x = x => 0 < Bytes(f, x)
         /\ (\A n \in 1..Len(f) : f[n].x # x) => Bytes(f, x) = 0
<1>1. \A u \in SpiUnits : u.cnt \in Nat
  BY SpiUnitTypes
<1>2. /\ Bytes(f, x) \in Nat
      /\ \A u \in SpiUnits : Bytes(Append(f, u), x) = Bytes(f, x) + (IF u.x = x THEN u.cnt ELSE 0)
      /\ f # <<>> => Bytes(f, x) = (IF Head(f).x = x THEN Head(f).cnt ELSE 0) + Bytes(Tail(f), x)
      /\ \A n \in 1..Len(f) : f[n].x = x => f[n].cnt <= Bytes(f, x)
      /\ (\A n \in 1..Len(f) : f[n].x # x) => Bytes(f, x) = 0
  BY <1>1, BytesFacts
<1>3. \A n \in 1..Len(f) : f[n].x = x => 0 < Bytes(f, x)
  BY <1>2, SpiUnitTypes
<1>. QED
  BY <1>2, <1>3

\* The flow is about the lists, the progress records and whether SPI is enabled.
LEMMA SpiAlike ==
  ASSUME NEW s, NEW t, PoolInv(s.pool), PoolInv(t.pool), Alike(s.pool, t.pool), t.prog = s.prog, t.on = s.on
  PROVE  \A f, r : SpiFlow(s, f, r) => SpiFlow(t, f, r)
<1>1. Scheduled(t.pool) = Scheduled(s.pool) /\ \A f : Fed(s.pool, f) => Fed(t.pool, f)
  BY AlikeFacts
<1>2. t.pool.sched = s.pool.sched /\ t.pool.cur = s.pool.cur /\ t.pool.active = s.pool.active
  BY DEF Alike
<1>. SUFFICES ASSUME NEW f, NEW r, SpiFlow(s, f, r) PROVE SpiFlow(t, f, r)
  OBVIOUS
<1>3. \A x \in Scheduled(t.pool) : SpiAbout(t, f, r, x)
  BY <1>1, <1>2 DEF SpiFlow, SpiAbout, Reads, Left
<1>4. SpiOrder(t, f)
  BY DEF SpiFlow, SpiOrder
<1>5. SpiReads(t, f, r)
  BY <1>2 DEF SpiFlow, SpiReads
<1>. QED
  BY <1>1, <1>3, <1>4, <1>5 DEF SpiFlow

LEMMA SpiSchedule ==
  ASSUME NEW s, NEW t, SpiShape(s), NEW x \in Xfrs, CanSchedule(s.pool, x),
         t.pool = Schedule(s.pool, x), t.on = s.on,
         \A y \in Scheduled(s.pool) : t.prog[y] = s.prog[y],
         t.prog[x].si = 0, t.prog[x].fi = 0, t.prog[x].sc \in Nat \ {0}, ~t.prog[x].skipped,
         NEW f \in Seq(SpiUnits), NEW r, r.k = "spi" => s.pool.sched # <<>>, SpiFlow(s, f, r)
  PROVE  SpiFlow(t, f, r)
<1>0. PoolInv(s.pool) /\ s.prog \in [Scheduled(s.pool) -> SpiProgs]
  BY DEF SpiShape
<1>1. /\ PoolInv(t.pool) /\ Scheduled(t.pool) = Scheduled(s.pool) \cup {x} /\ x \notin Scheduled(s.pool)
      /\ t.pool.active = s.pool.active /\ x \notin s.pool.active
      /\ t.pool.cur = (IF s.pool.cur = NoXfr THEN x ELSE s.pool.cur)
      /\ t.pool.sched # <<>> /\ Head(t.pool.sched) = (IF s.pool.sched = <<>> THEN x ELSE Head(s.pool.sched))
  BY <1>0, ScheduleFacts
<1>2. Fed(t.pool, f) /\ \A n \in 1..Len(f) : f[n].x \in Scheduled(s.pool) /\ f[n].x # x
  BY <1>0, <1>1, FedSchedule, SpiMeant DEF SpiFlow
<1>3. \A y \in Scheduled(s.pool) : Reads(r, "spi", t, y) <=> Reads(r, "spi", s, y)
  <2>1. s.pool.sched # <<>> => Head(t.pool.sched) = Head(s.pool.sched)
    BY <1>1
  <2>. QED
    BY <2>1 DEF Reads
<1>4. ASSUME NEW y \in Scheduled(s.pool) PROVE SpiAbout(t, f, r, y)
  <2>1. SpiAbout(s, f, r, y)
    BY DEF SpiFlow
  <2>2. Left(r, "spi", t, y) = Left(r, "spi", s, y)
    BY <1>3 DEF Left
  <2>3. (y = t.pool.cur <=> y = s.pool.cur) /\ t.prog[y] = s.prog[y]
    BY <1>1, NoXfrAssumption DEF Scheduled
  <2>. QED
    BY <1>1, <1>3, <2>1, <2>2, <2>3 DEF SpiAbout
<1>5. SpiAbout(t, f, r, x)
  <2>1. ~Reads(r, "spi", t, x)
    BY <1>1, <1>0, ListFacts DEF Reads
  <2>2. Bytes(f, x) = 0
    BY <1>2, SpiBytes
  <2>3. Left(r, "spi", t, x) = 0
    BY <2>1 DEF Left
  <2>. QED
    BY <1>1, <2>1, <2>2, <2>3 DEF SpiAbout
<1>6. SpiOrder(t, f)
  BY <1>2 DEF SpiFlow, SpiOrder
<1>7. SpiReads(t, f, r)
  <2>1. SUFFICES ASSUME r.k = "spi" PROVE SpiReads(t, f, r)
    BY DEF SpiReads
  <2>2. Head(t.pool.sched) = Head(s.pool.sched) /\ Head(s.pool.sched) \in Scheduled(s.pool)
    BY <1>0, <1>1, <2>1, ListFacts
  <2>3. t.prog[Head(s.pool.sched)] = s.prog[Head(s.pool.sched)]
    BY <2>2
  <2>. QED
    BY <1>1, <2>2, <2>3 DEF SpiFlow, SpiReads
<1>. QED
  BY <1>1, <1>2, <1>4, <1>5, <1>6, <1>7 DEF SpiFlow

\* A transfer of which nothing was sent leaves the list.
LEMMA SpiCancel ==
  ASSUME NEW s, NEW t, SpiShape(s), NEW x \in Scheduled(s.pool), x \notin s.pool.active,
         PoolInv(t.pool), Alike(Complete(s.pool, x), t.pool), t.on = s.on,
         \A y \in Scheduled(s.pool) \ {x} : t.prog[y] = s.prog[y],
         NEW f \in Seq(SpiUnits), NEW r, SpiFlow(s, f, r)
  PROVE  SpiFlow(t, f, r)
<1>0. PoolInv(s.pool) /\ s.prog \in [Scheduled(s.pool) -> SpiProgs]
  BY DEF SpiShape
<1>. DEFINE q == Complete(s.pool, x)
<1>1. /\ PoolInv(q) /\ Scheduled(q) = Scheduled(s.pool) \ {x} /\ q.active = s.pool.active \ {x}
      /\ s.pool.cur # x => q.cur = s.pool.cur
      /\ s.pool.cur = x => q.cur # x /\ q.cur \notin s.pool.active
      /\ Head(s.pool.sched) # x => q.sched # <<>> /\ Head(q.sched) = Head(s.pool.sched)
  BY <1>0, CompleteFacts
<1>2. \A n \in 1..Len(f) : f[n].x \in Scheduled(s.pool) /\ f[n].x # x
  BY <1>0, SpiMeant DEF SpiFlow
<1>3. Fed(q, f)
  <2>1. x \in InList(s.pool)
    BY <1>0 DEF PoolInv, ListInv
  <2>. QED
    BY <1>0, <1>2, <2>1, FedComplete DEF SpiFlow
<1>. HIDE DEF q
<1>4. /\ Fed(t.pool, f) /\ Scheduled(t.pool) = Scheduled(s.pool) \ {x} /\ t.pool.active = s.pool.active
      /\ s.pool.cur # x => t.pool.cur = s.pool.cur
      /\ s.pool.cur = x => t.pool.cur # x /\ t.pool.cur \notin s.pool.active
      /\ Head(s.pool.sched) # x => t.pool.sched # <<>> /\ Head(t.pool.sched) = Head(s.pool.sched)
  <2>1. Scheduled(t.pool) = Scheduled(q) /\ Fed(t.pool, f)
    BY <1>1, <1>3, AlikeFacts DEF q
  <2>2. t.pool.sched = q.sched /\ t.pool.cur = q.cur /\ t.pool.active = q.active
    BY DEF q, Alike
  <2>. QED
    BY <1>1, <2>1, <2>2
\* A packet that is being read is for an active transfer.
<1>5. r.k = "spi" => Head(s.pool.sched) # x
  <2>1. SUFFICES ASSUME r.k = "spi" PROVE Head(s.pool.sched) # x
    OBVIOUS
  <2>2. s.pool.sched # <<>> /\ r.left \in Nat \ {0}
    BY <2>1 DEF SpiFlow, SpiReads
  <2>3. Head(s.pool.sched) \in Scheduled(s.pool) /\ SpiAbout(s, f, r, Head(s.pool.sched))
    BY <1>0, <2>2, ListFacts DEF SpiFlow
  <2>4. Left(r, "spi", s, Head(s.pool.sched)) = r.left
    BY <2>1 DEF Left, Reads
  <2>5. Bytes(f, Head(s.pool.sched)) \in Nat
    BY SpiBytes
  <2>6. s.prog[Head(s.pool.sched)].fi # 0
    <3>1. s.prog[Head(s.pool.sched)].si \in Nat
      BY <2>3, SpiTypes
    <3>2. s.prog[Head(s.pool.sched)].si + r.left + Bytes(f, Head(s.pool.sched)) = s.prog[Head(s.pool.sched)].fi
      BY <2>3, <2>4 DEF SpiAbout
    <3>. QED
      BY <2>2, <2>5, <3>1, <3>2
  <2>. QED
    BY <2>3, <2>6 DEF SpiAbout
<1>6. \A y \in Scheduled(t.pool) : Reads(r, "spi", t, y) <=> Reads(r, "spi", s, y)
  BY <1>4, <1>5 DEF Reads
<1>7. ASSUME NEW y \in Scheduled(t.pool) PROVE SpiAbout(t, f, r, y)
  <2>1. y \in Scheduled(s.pool) /\ y # x /\ t.prog[y] = s.prog[y] /\ SpiAbout(s, f, r, y)
    BY <1>4 DEF SpiFlow
  <2>2. Left(r, "spi", t, y) = Left(r, "spi", s, y)
    BY <1>6 DEF Left
  <2>3. CASE s.pool.cur # x
    BY <1>4, <1>6, <2>1, <2>2, <2>3 DEF SpiAbout
  <2>4. CASE s.pool.cur = x
    <3>1. s.prog[y].sc > 0
      BY <2>1, SpiTypes
    <3>. QED
      BY <1>4, <1>6, <2>1, <2>2, <2>4, <3>1 DEF SpiAbout
  <2>. QED
    BY <2>3, <2>4
<1>8. SpiOrder(t, f)
  BY <1>2 DEF SpiFlow, SpiOrder
<1>9. SpiReads(t, f, r)
  <2>1. SUFFICES ASSUME r.k = "spi" PROVE SpiReads(t, f, r)
    BY DEF SpiReads
  <2>2. Head(t.pool.sched) = Head(s.pool.sched) /\ t.pool.sched # <<>>
    BY <1>4, <1>5, <2>1
  <2>3. t.prog[Head(s.pool.sched)] = s.prog[Head(s.pool.sched)]
    <3>1. Head(s.pool.sched) \in Scheduled(s.pool)
      BY <1>0, <2>1, ListFacts DEF SpiFlow, SpiReads
    <3>. QED
      BY <1>5, <2>1, <3>1
  <2>. QED
    BY <2>2, <2>3 DEF SpiFlow, SpiReads
<1>. QED
  BY <1>4, <1>7, <1>8, <1>9 DEF SpiFlow

\* Nothing is in flight when no transfer is scheduled.
LEMMA SpiIdle ==
  ASSUME NEW s, SpiShape(s), s.pool.sched = <<>>, NEW f \in Seq(SpiUnits), NEW r, SpiFlow(s, f, r)
  PROVE  f = <<>> /\ r.k # "spi"
<1>1. Scheduled(s.pool) = {}
  BY ListFacts DEF SpiShape
<1>2. \A n \in 1..Len(f) : FALSE
  BY <1>1, SpiMeant DEF SpiShape, SpiFlow
<1>3. Len(f) = 0
  BY <1>2, SpiUnitTypes
<1>. QED
  BY <1>3 DEF SpiFlow, SpiReads

LEMMA SpiEnable ==
  ASSUME NEW s, NEW t, SpiShape(s), t.pool = s.pool, s.pool.sched = <<>>,
         NEW f \in Seq(SpiUnits), NEW r, SpiFlow(s, f, r)
  PROVE  SpiFlow(t, f, r)
<1>1. f = <<>> /\ r.k # "spi" /\ Scheduled(s.pool) = {}
  BY SpiIdle, ListFacts DEF SpiShape
<1>2. \A n \in 1..Len(f) : FALSE
  BY <1>1
<1>. QED
  BY <1>1, <1>2 DEF SpiFlow, SpiOrder, SpiReads

\* What the device has not answered yet it skips: from the unit a + 1 on.
LEMMA SpiDisable ==
  ASSUME NEW s, NEW t, SpiShape(s), t.pool = s.pool, t.prog = s.prog, ~t.on,
         NEW f \in Seq(SpiUnits), NEW g \in Seq(SpiUnits), NEW a \in Nat, Len(g) = Len(f),
         \A n \in 1..Len(f) : g[n].x = f[n].x /\ g[n].cnt = f[n].cnt /\ g[n].ss = f[n].ss /\ g[n].last = f[n].last,
         \A n \in 1..Len(f) : IF n <= a THEN g[n].skipped = f[n].skipped ELSE g[n].skipped,
         NEW r, SpiFlow(s, f, r)
  PROVE  SpiFlow(t, g, r)
<1>1. Fed(t.pool, g)
  BY FedSame DEF SpiFlow
<1>2. \A x : Bytes(g, x) = Bytes(f, x)
  BY BytesSame
<1>3. \A n \in 1..Len(f) : f[n].skipped => g[n].skipped
  OBVIOUS
<1>4. \A x : Reads(r, "spi", t, x) <=> Reads(r, "spi", s, x)
  BY DEF Reads
<1>5. ASSUME NEW x \in Scheduled(t.pool) PROVE SpiAbout(t, g, r, x)
  <2>1. SpiAbout(s, f, r, x)
    BY DEF SpiFlow
  <2>2. Left(r, "spi", t, x) = Left(r, "spi", s, x)
    BY <1>4 DEF Left
  <2>. QED
    BY <1>2, <1>3, <1>4, <2>1, <2>2 DEF SpiAbout
<1>6. SpiOrder(t, g)
  <2>1. SpiOrder(s, f) /\ Len(f) \in Nat
    BY SpiUnitTypes DEF SpiFlow
  <2>2. ASSUME NEW m \in 1..Len(g), NEW n \in 1..Len(g), m < n, g[m].skipped PROVE g[n].skipped
    <3>1. CASE n <= a
      BY <2>1, <2>2, <3>1 DEF SpiOrder
    <3>2. CASE ~(n <= a)
      BY <3>2
    <3>. QED
      BY <3>1, <3>2
  <2>. QED
    BY <2>1, <2>2 DEF SpiOrder
<1>7. SpiReads(t, g, r)
  BY DEF SpiFlow, SpiReads
<1>. QED
  BY <1>1, <1>5, <1>6, <1>7 DEF SpiFlow

\* One turn of the loop of SPI_Tx.
LEMMA SpiSend ==
  ASSUME NEW s, NEW t, SpiShape(s), s.pool.cur # NoXfr, ~s.prog[s.pool.cur].skipped,
         NEW cnt \in Nat \ {0}, cnt <= s.prog[s.pool.cur].sc - s.prog[s.pool.cur].fi,
         NEW last \in BOOLEAN, last <=> cnt = s.prog[s.pool.cur].sc - s.prog[s.pool.cur].fi,
         t.pool = Transmit(s.pool, last), t.on = s.on,
         \A y \in Scheduled(s.pool) \ {s.pool.cur} : t.prog[y] = s.prog[y],
         t.prog[s.pool.cur].fi = s.prog[s.pool.cur].fi + cnt,
         t.prog[s.pool.cur].si = s.prog[s.pool.cur].si, t.prog[s.pool.cur].sc = s.prog[s.pool.cur].sc,
         t.prog[s.pool.cur].ss = s.prog[s.pool.cur].ss, t.prog[s.pool.cur].skipped = s.prog[s.pool.cur].skipped,
         NEW u \in SpiUnits, u.x = s.pool.cur, u.cnt = cnt, u.ss = s.prog[s.pool.cur].ss,
         u.last <=> last, u.skipped <=> ~s.on,
         NEW f \in Seq(SpiUnits), NEW r, SpiFlow(s, f, r)
  PROVE  SpiFlow(t, Append(f, u), r)
<1>0. PoolInv(s.pool)
  BY DEF SpiShape
<1>. DEFINE x == s.pool.cur
            g == Append(f, u)
<1>1. /\ PoolInv(t.pool) /\ Scheduled(t.pool) = Scheduled(s.pool) /\ t.pool.sched = s.pool.sched
      /\ t.pool.active = s.pool.active \cup {x} /\ x \in Scheduled(s.pool)
      /\ ~last => t.pool.cur = x
      /\ last => t.pool.cur \notin t.pool.active
  BY <1>0, TransmitFacts
<1>2. /\ Len(f) \in Nat /\ g[Len(f) + 1] = u /\ Len(f) + 1 \in 1..Len(g)
      /\ \A n \in 1..Len(f) : g[n] = f[n] /\ n \in 1..Len(g) /\ n # Len(f) + 1
      /\ \A n \in 1..Len(g) : n \in 1..Len(f) \/ n = Len(f) + 1
  BY AppendFacts
<1>3. Fed(t.pool, g)
  BY <1>0, FedTransmit DEF SpiFlow
<1>4. \A y : Bytes(g, y) = Bytes(f, y) + (IF u.x = y THEN u.cnt ELSE 0) /\ Bytes(f, y) \in Nat
  BY SpiBytes
<1>. HIDE DEF g
<1>5. \A y : (Reads(r, "spi", t, y) <=> Reads(r, "spi", s, y)) /\ Left(r, "spi", t, y) = Left(r, "spi", s, y)
  BY <1>1 DEF Reads, Left
<1>6. SpiAbout(s, f, r, x) /\ s.prog[x].fi < s.prog[x].sc
  BY <1>1 DEF SpiFlow, SpiAbout
<1>7. s.prog[x].si \in Nat /\ s.prog[x].fi \in Nat /\ s.prog[x].sc \in Nat
  BY <1>1, SpiTypes
<1>8. SpiOrder(s, f)
  BY DEF SpiFlow
<1>9. \A n \in 1..Len(f) : f[n].x = x => ~f[n].last
  BY SMTT(30), <1>6, <1>7, <1>8 DEF SpiOrder
<1>10. Left(r, "spi", s, x) \in Nat
  <2>1. CASE Reads(r, "spi", s, x)
    BY <2>1 DEF Left, Reads, SpiFlow, SpiReads
  <2>2. CASE ~Reads(r, "spi", s, x)
    BY <2>2 DEF Left
  <2>. QED
    BY <2>1, <2>2
<1>11. SpiAbout(t, g, r, x)
  <2>0. Bytes(g, x) = Bytes(f, x) + cnt /\ Bytes(f, x) \in Nat
    BY <1>4
  <2>1. t.prog[x].si + Left(r, "spi", t, x) + Bytes(g, x) = t.prog[x].fi
    <3>1. s.prog[x].si + Left(r, "spi", s, x) + Bytes(f, x) = s.prog[x].fi
      BY <1>6 DEF SpiAbout
    <3>2. t.prog[x].si = s.prog[x].si /\ t.prog[x].fi = s.prog[x].fi + cnt /\ Left(r, "spi", t, x) = Left(r, "spi", s, x)
      BY <1>5
    <3>3. s.prog[x].si + Left(r, "spi", s, x) + (Bytes(f, x) + cnt) = s.prog[x].fi + cnt
      BY SMTT(30), <1>7, <1>10, <2>0, <3>1
    <3>. QED
      BY <2>0, <3>2, <3>3
  <2>2. last <=> t.prog[x].fi = t.prog[x].sc
    BY <1>7
  <2>3. x = t.pool.cur => ~last
    BY <1>1
  <2>4. t.prog[x].fi <= t.prog[x].sc
    BY SMTT(30), <1>7
  <2>5. last => t.prog[x].si + Left(r, "spi", t, x) < t.prog[x].sc
    <3>1. t.prog[x].si \in Nat /\ t.prog[x].sc \in Nat /\ Left(r, "spi", t, x) \in Nat /\ Bytes(g, x) \in Nat /\ 0 < Bytes(g, x)
      BY <1>5, <1>7, <1>10, <2>0
    <3>. QED
      BY <2>1, <2>2, <3>1
  <2>6. last /\ ~Reads(r, "spi", t, x) => t.prog[x].si < t.prog[x].sc
    BY <1>7, <2>5 DEF Left
  <2>7. last => \E n \in 1..Len(g) : g[n].x = x /\ g[n].last
    BY <1>2
  <2>8. x = t.pool.cur => t.prog[x].fi < t.prog[x].sc
    BY SMTT(30), <1>7, <2>2, <2>3, <2>4
  <2>. QED
    BY <1>1, <2>1, <2>2, <2>3, <2>6, <2>7, <2>8 DEF SpiAbout
<1>12. ASSUME NEW y \in Scheduled(t.pool), y # x PROVE SpiAbout(t, g, r, y)
  <2>1. y \in Scheduled(s.pool) /\ t.prog[y] = s.prog[y] /\ SpiAbout(s, f, r, y) /\ Bytes(g, y) = Bytes(f, y)
    BY <1>1, <1>4, <1>12 DEF SpiFlow
  <2>2. (y \in t.pool.active <=> y \in s.pool.active) /\ s.prog[y].sc > 0
    BY <1>1, <1>12, <2>1, SpiTypes
  <2>3. y = t.pool.cur => y \notin s.pool.active
    BY <1>1, <1>12, <2>2
  <2>4. \A n \in 1..Len(g) : s.prog[y].skipped => g[n].skipped
    BY <1>2, <2>1 DEF SpiAbout
  <2>5. s.prog[y].fi = s.prog[y].sc => \/ Reads(r, "spi", t, y) /\ r.last
                                       \/ \E n \in 1..Len(g) : g[n].x = y /\ g[n].last
    BY <1>2, <1>5, <2>1 DEF SpiAbout
  <2>6. y = t.pool.cur => s.prog[y].fi < s.prog[y].sc
    BY <2>1, <2>2, <2>3 DEF SpiAbout
  <2>. QED
    BY <1>5, <1>12, <2>1, <2>2, <2>4, <2>5, <2>6 DEF SpiAbout
<1>13. SpiOrder(t, g)
  <2>1. \A n \in 1..Len(f) : f[n].x \in Scheduled(s.pool)
    BY <1>0, SpiMeant DEF SpiFlow
  <2>2. \A n \in 1..Len(f) : t.prog[f[n].x].ss = s.prog[f[n].x].ss /\ t.prog[f[n].x].sc = s.prog[f[n].x].sc
                             /\ (f[n].x # x => t.prog[f[n].x].fi = s.prog[f[n].x].fi)
    BY <2>1
  <2>3. ASSUME NEW n \in 1..Len(g) PROVE g[n].ss = t.prog[g[n].x].ss
    <3>1. CASE n = Len(f) + 1
      BY <1>2, <3>1
    <3>2. CASE n \in 1..Len(f)
      <4>1. f[n].ss = s.prog[f[n].x].ss
        BY <1>8, <3>2 DEF SpiOrder
      <4>. QED
        BY <1>2, <2>2, <3>2, <4>1
    <3>. QED
      BY <1>2, <3>1, <3>2
  <2>4. ASSUME NEW m \in 1..Len(g), NEW n \in 1..Len(g), g[m].last, g[m].x = g[n].x PROVE n <= m
    <3>1. CASE m = Len(f) + 1
      BY <1>2, <3>1
    <3>2. CASE m \in 1..Len(f)
      <4>1. f[m].x # x
        BY <1>2, <1>9, <2>4, <3>2
      <4>2. n \in 1..Len(f)
        BY <1>2, <2>4, <3>2, <4>1
      <4>. QED
        BY SMTT(30), <1>2, <1>8, <2>4, <3>2, <4>2 DEF SpiOrder
    <3>. QED
      BY <1>2, <3>1, <3>2
  <2>5. ASSUME NEW n \in 1..Len(g), g[n].last PROVE t.prog[g[n].x].fi = t.prog[g[n].x].sc
    <3>1. CASE n = Len(f) + 1
      <4>1. g[n].x = x /\ last
        BY <1>2, <2>5, <3>1
      <4>2. t.prog[x].fi = t.prog[x].sc
        BY <1>7, <4>1
      <4>. QED
        BY <4>1, <4>2
    <3>2. CASE n \in 1..Len(f)
      <4>1. g[n] = f[n] /\ f[n].last /\ f[n].x # x
        BY <1>2, <1>9, <2>5, <3>2
      <4>2. s.prog[f[n].x].fi = s.prog[f[n].x].sc
        BY <1>8, <3>2, <4>1 DEF SpiOrder
      <4>. QED
        BY <2>2, <3>2, <4>1, <4>2
    <3>. QED
      BY <1>2, <3>1, <3>2
  <2>6. \A m, n \in 1..Len(g) : m < n /\ g[m].skipped => g[n].skipped
    <3>1. TAKE m, n \in 1..Len(g)
    <3>2. HAVE m < n /\ g[m].skipped
    <3>3. m \in 1..Len(f)
      BY <1>2, <3>2
    <3>4. f[m].skipped /\ ~s.on
      BY <1>2, <1>8, <3>2, <3>3 DEF SpiOrder
    <3>5. CASE n = Len(f) + 1
      BY <1>2, <3>4, <3>5
    <3>6. CASE n \in 1..Len(f)
      BY <1>2, <1>8, <3>2, <3>3, <3>6 DEF SpiOrder
    <3>. QED
      BY <1>2, <3>5, <3>6
  <2>7. \A n \in 1..Len(g) : g[n].skipped => ~t.on
    BY <1>2, <1>8 DEF SpiOrder
  <2>. QED
    BY <2>3, <2>4, <2>5, <2>6, <2>7 DEF SpiOrder
<1>14. SpiReads(t, g, r)
  <2>1. SUFFICES ASSUME r.k = "spi" PROVE SpiReads(t, g, r)
    BY DEF SpiReads
  <2>2. SpiReads(s, f, r)
    BY DEF SpiFlow
  <2>3. s.pool.sched # <<>> /\ r \in [k : {"spi"}, left : Nat \ {0}, last : BOOLEAN]
    BY <2>1, <2>2 DEF SpiReads
  <2>4. Head(s.pool.sched) \in Scheduled(s.pool)
    BY <1>0, <2>3, ListFacts
  <2>5. ASSUME r.last PROVE /\ t.prog[Head(s.pool.sched)].fi = t.prog[Head(s.pool.sched)].sc
                            /\ \A n \in 1..Len(g) : g[n].x # Head(s.pool.sched)
    <3>1. s.prog[Head(s.pool.sched)].fi = s.prog[Head(s.pool.sched)].sc /\ \A n \in 1..Len(f) : f[n].x # Head(s.pool.sched)
      BY <2>1, <2>2, <2>5 DEF SpiReads
    <3>2. Head(s.pool.sched) # x
      BY <1>6, <1>7, <3>1
    <3>. QED
      BY <1>2, <2>4, <3>1, <3>2
  <2>. QED
    BY <1>1, <2>3, <2>5 DEF SpiReads
<1>. QED
  BY <1>3, <1>11, <1>12, <1>13, <1>14 DEF SpiFlow, g

\* The oldest transfer leaves: nothing is in flight for it any more.
LEMMA SpiLeaves ==
  ASSUME NEW s, NEW t, PoolInv(s.pool), \A y \in Scheduled(s.pool) : s.prog[y].sc \in Nat /\ 0 < s.prog[y].sc,
         NEW x \in Scheduled(s.pool), t.pool = Complete(s.pool, x), t.on = s.on,
         \A y \in Scheduled(s.pool) \ {x} : t.prog[y] = s.prog[y],
         NEW f \in Seq(SpiUnits), \A n \in 1..Len(f) : f[n].x # x, Fed(s.pool, f), SpiOrder(s, f),
         NEW r, r.k # "spi", \A y \in Scheduled(s.pool) \ {x} : SpiAbout(s, f, r, y)
  PROVE  SpiFlow(t, f, r)
<1>1. /\ PoolInv(t.pool) /\ Scheduled(t.pool) = Scheduled(s.pool) \ {x} /\ t.pool.active = s.pool.active \ {x}
      /\ s.pool.cur # x => t.pool.cur = s.pool.cur
      /\ s.pool.cur = x => t.pool.cur # x /\ t.pool.cur \notin s.pool.active
  BY CompleteFacts
<1>2. Fed(t.pool, f)
  <2>1. x \in InList(s.pool)
    BY DEF PoolInv, ListInv
  <2>. QED
    BY <2>1, FedComplete
<1>3. \A y : ~Reads(r, "spi", t, y) /\ ~Reads(r, "spi", s, y)
  BY DEF Reads
<1>4. ASSUME NEW y \in Scheduled(t.pool) PROVE SpiAbout(t, f, r, y)
  <2>1. y \in Scheduled(s.pool) /\ y # x /\ t.prog[y] = s.prog[y] /\ SpiAbout(s, f, r, y) /\ 0 < s.prog[y].sc
    BY <1>1
  <2>2. Left(r, "spi", t, y) = Left(r, "spi", s, y)
    BY <1>3 DEF Left
  <2>3. y \in t.pool.active <=> y \in s.pool.active
    BY <1>1, <2>1
  <2>4. CASE s.pool.cur # x
    BY <1>1, <1>3, <2>1, <2>2, <2>3, <2>4 DEF SpiAbout
  <2>5. CASE s.pool.cur = x
    BY <1>1, <1>3, <2>1, <2>2, <2>3, <2>5 DEF SpiAbout
  <2>. QED
    BY <2>4, <2>5
<1>5. SpiOrder(t, f)
  <2>1. \A n \in 1..Len(f) : f[n].x \in Scheduled(s.pool) \ {x}
    BY SpiMeant
  <2>. QED
    BY <2>1 DEF SpiOrder
<1>. QED
  BY <1>2, <1>4, <1>5 DEF SpiFlow, SpiReads

LEMMA SpiOrderTail ==
  ASSUME NEW s, NEW f \in Seq(SpiUnits), f # <<>>, SpiOrder(s, f)
  PROVE  /\ SpiOrder(s, Tail(f))
         /\ Head(f).skipped => ~s.on /\ \A n \in 1..Len(Tail(f)) : Tail(f)[n].skipped
         /\ Head(f).last => \A n \in 1..Len(Tail(f)) : Tail(f)[n].x # Head(f).x
         /\ Head(f).ss = s.prog[Head(f).x].ss
         /\ Head(f).last => s.prog[Head(f).x].fi = s.prog[Head(f).x].sc
<1>. DEFINE t == Tail(f)
<1>1. /\ t \in Seq(SpiUnits) /\ Len(t) \in Nat /\ 1 \in 1..Len(f) /\ Head(f) = f[1]
      /\ \A n \in 1..Len(t) : t[n] = f[n + 1] /\ n + 1 \in 1..Len(f) /\ n + 1 # 1
  BY TailFacts
<1>. HIDE DEF t
<1>2. \A m, n \in 1..Len(t) : (m < n => m + 1 < n + 1) /\ (n + 1 <= m + 1 => n <= m) /\ 1 < n + 1 /\ ~(n + 1 <= 1)
  BY <1>1
<1>3. SpiOrder(s, t)
  <2>1. \A n \in 1..Len(t) : t[n].ss = s.prog[t[n].x].ss
    BY <1>1 DEF SpiOrder
  <2>2. \A m, n \in 1..Len(t) : t[m].last /\ t[m].x = t[n].x => n <= m
    BY <1>1, <1>2 DEF SpiOrder
  <2>3. \A n \in 1..Len(t) : t[n].last => s.prog[t[n].x].fi = s.prog[t[n].x].sc
    BY <1>1 DEF SpiOrder
  <2>4. \A m, n \in 1..Len(t) : m < n /\ t[m].skipped => t[n].skipped
    BY <1>1, <1>2 DEF SpiOrder
  <2>5. \A n \in 1..Len(t) : t[n].skipped => ~s.on
    BY <1>1 DEF SpiOrder
  <2>. QED
    BY <2>1, <2>2, <2>3, <2>4, <2>5 DEF SpiOrder
<1>4. ASSUME Head(f).skipped PROVE ~s.on /\ \A n \in 1..Len(t) : t[n].skipped
  BY <1>1, <1>2, <1>4 DEF SpiOrder
<1>5. ASSUME Head(f).last PROVE \A n \in 1..Len(t) : t[n].x # Head(f).x
  BY <1>1, <1>2, <1>5 DEF SpiOrder
<1>6. Head(f).ss = s.prog[Head(f).x].ss /\ (Head(f).last => s.prog[Head(f).x].fi = s.prog[Head(f).x].sc)
  BY <1>1 DEF SpiOrder
<1>. QED
  BY <1>3, <1>4, <1>5, <1>6 DEF t

\* The oldest reply is for the oldest transfer, and passes the checks.
LEMMA SpiReplyFits ==
  ASSUME NEW s, SpiShape(s), NEW f \in Seq(SpiUnits), f # <<>>, NEW r, r.k # "spi", SpiFlow(s, f, r)
  PROVE  /\ s.pool.sched # <<>> /\ Head(f).x = Head(s.pool.sched)
         /\ s.prog[Head(s.pool.sched)].ss = Head(f).ss
         /\ s.prog[Head(s.pool.sched)].si + Head(f).cnt <= s.prog[Head(s.pool.sched)].fi
<1>1. 1 \in 1..Len(f) /\ f[1] = Head(f) /\ f[1] \in SpiUnits /\ 1..(1 - 1) = {}
  OBVIOUS
<1>2. f[1].x # NoXfr /\ f[1].cnt \in Nat
  BY <1>1, SpiUnitTypes
<1>3. ASSUME NEW x \in s.pool.active, x # s.pool.cur PROVE \E m \in 1..Len(f) : f[m].x = x
  <2>1. x \in Scheduled(s.pool)
    BY ListFacts DEF SpiShape
  <2>2. SpiAbout(s, f, r, x) /\ ~Reads(r, "spi", s, x) /\ Left(r, "spi", s, x) = 0
    BY <2>1 DEF SpiFlow, Reads, Left
  <2>3. s.prog[x].si \in Nat /\ s.prog[x].fi \in Nat /\ s.prog[x].sc \in Nat
    BY <2>1, SpiTypes
  <2>4. s.prog[x].si + Bytes(f, x) = s.prog[x].fi /\ s.prog[x].si < s.prog[x].fi /\ Bytes(f, x) \in Nat
    BY <1>3, <2>2, <2>3, SpiBytes DEF SpiAbout
  <2>5. Bytes(f, x) # 0
    BY <2>3, <2>4
  <2>. QED
    BY <2>5, SpiBytes
<1>4. s.pool.sched # <<>> /\ f[1].x = Head(s.pool.sched)
  BY <1>1, <1>2, <1>3, FirstMeetsHead DEF SpiShape, SpiFlow
<1>. DEFINE x == Head(s.pool.sched)
<1>5. x \in Scheduled(s.pool)
  BY <1>4, ListFacts DEF SpiShape
<1>6. s.prog[x].si + Bytes(f, x) = s.prog[x].fi /\ s.prog[x].si \in Nat
  <2>1. SpiAbout(s, f, r, x) /\ Left(r, "spi", s, x) = 0
    BY <1>5 DEF SpiFlow, Left, Reads
  <2>2. s.prog[x].si \in Nat /\ Bytes(f, x) \in Nat
    BY <1>5, SpiTypes, SpiBytes
  <2>. QED
    BY SMTT(30), <2>1, <2>2 DEF SpiAbout
<1>7. Bytes(f, x) = f[1].cnt + Bytes(Tail(f), x) /\ Bytes(Tail(f), x) \in Nat
  <2>1. Tail(f) \in Seq(SpiUnits) /\ Head(f).x = x /\ Head(f).cnt = f[1].cnt
    BY <1>1, <1>4
  <2>. HIDE DEF x
  <2>2. Bytes(f, x) = (IF Head(f).x = x THEN Head(f).cnt ELSE 0) + Bytes(Tail(f), x)
    BY SpiBytes
  <2>3. Bytes(Tail(f), x) \in Nat
    BY <2>1, SpiBytes
  <2>. QED
    BY <2>1, <2>2, <2>3
<1>8. s.prog[x].si + f[1].cnt <= s.prog[x].fi
  BY <1>2, <1>6, <1>7
<1>. QED
  BY <1>1, <1>4, <1>8 DEF SpiFlow, SpiOrder

\* Its data bytes follow.
LEMMA SpiReplyRead ==
  ASSUME NEW s, NEW t, SpiShape(s), t.pool = s.pool, t.prog = s.prog, t.on = s.on,
         NEW f \in Seq(SpiUnits), f # <<>>, NEW r, r.k # "spi", SpiFlow(s, f, r), ~Head(f).skipped,
         NEW q, q = [k |-> "spi", left |-> Head(f).cnt, last |-> Head(f).last]
  PROVE  SpiFlow(t, Tail(f), q)
<1>. DEFINE x == Head(s.pool.sched)
            e == Tail(f)
<1>1. s.pool.sched # <<>> /\ Head(f).x = x /\ x \in Scheduled(s.pool)
  BY SpiReplyFits, ListFacts DEF SpiShape
<1>2. /\ e \in Seq(SpiUnits) /\ 1 \in 1..Len(f) /\ Head(f) = f[1] /\ Head(f) \in SpiUnits
      /\ \A n \in 1..Len(f) : n = 1 \/ (n - 1 \in 1..Len(e) /\ f[n] = e[n - 1])
  BY TailFacts
<1>3. Fed(s.pool, e) /\ SpiOrder(s, e) /\ (Head(f).last => \A n \in 1..Len(e) : e[n].x # Head(f).x)
      /\ (Head(f).last => s.prog[Head(f).x].fi = s.prog[Head(f).x].sc)
  BY FedTail, SpiOrderTail DEF SpiFlow
<1>4. \A y : Bytes(f, y) = (IF Head(f).x = y THEN Head(f).cnt ELSE 0) + Bytes(e, y)
  BY SpiBytes
<1>. HIDE DEF e
<1>5. \A y : (Reads(q, "spi", s, y) <=> y = x) /\ Left(q, "spi", s, y) = (IF y = x THEN Head(f).cnt ELSE 0)
  BY DEF Reads, Left
<1>6. \A y : ~Reads(r, "spi", s, y) /\ Left(r, "spi", s, y) = 0
  BY DEF Reads, Left
<1>7. ASSUME NEW y \in Scheduled(s.pool) PROVE SpiAbout(s, e, q, y)
  <2>1. SpiAbout(s, f, r, y) /\ s.prog[y].si \in Nat /\ Bytes(e, y) \in Nat /\ Head(f).cnt \in Nat
    BY <1>2, SpiTypes, SpiBytes, SpiUnitTypes DEF SpiFlow
  <2>2. s.prog[y].si + Left(q, "spi", s, y) + Bytes(e, y) = s.prog[y].fi
    <3>1. s.prog[y].si + Left(r, "spi", s, y) + Bytes(f, y) = s.prog[y].fi
      BY <2>1 DEF SpiAbout
    <3>2. s.prog[y].si + Bytes(f, y) = s.prog[y].fi
      <4>1. Bytes(f, y) \in Nat
        BY SpiBytes
      <4>. QED
        BY <1>6, <2>1, <3>1, <4>1
    <3>3. CASE y = x
      BY <1>1, <1>4, <1>5, <2>1, <3>2, <3>3
    <3>4. CASE y # x
      BY <1>1, <1>4, <1>5, <2>1, <3>2, <3>4
    <3>. QED
      BY <3>3, <3>4
  <2>3. ~s.prog[y].skipped
    BY <1>2, <2>1 DEF SpiAbout
  <2>4. ASSUME s.prog[y].fi = s.prog[y].sc
        PROVE  (Reads(q, "spi", s, y) /\ q.last) \/ \E n \in 1..Len(e) : e[n].x = y /\ e[n].last
    <3>1. PICK n \in 1..Len(f) : f[n].x = y /\ f[n].last
      BY <1>6, <2>1, <2>4 DEF SpiAbout
    <3>. QED
      BY <1>1, <1>2, <1>5, <3>1
  <2>. QED
    BY <1>6, <2>1, <2>2, <2>3, <2>4 DEF SpiAbout
<1>8. SpiReads(s, e, q)
  <2>1. Head(f).cnt \in Nat \ {0} /\ Head(f).last \in BOOLEAN
    BY <1>2 DEF SpiUnits
  <2>2. q \in [k : {"spi"}, left : Nat \ {0}, last : BOOLEAN]
    BY <2>1
  <2>3. q.last => s.prog[x].fi = s.prog[x].sc /\ \A n \in 1..Len(e) : e[n].x # x
    BY <1>1, <1>3
  <2>. QED
    BY <1>1, <2>2, <2>3 DEF SpiReads
<1>9. SpiFlow(s, e, q)
  BY <1>3, <1>7, <1>8 DEF SpiFlow
<1>10. Alike(s.pool, t.pool) /\ PoolInv(s.pool) /\ PoolInv(t.pool)
  BY DEF Alike, SpiShape
<1>. QED
  BY <1>9, <1>10, SpiAlike DEF e

\* What a unit says of its own transfer when it is read: with a reply that was
\* skipped there is nothing to read.
LEMMA SpiSkipAbout ==
  ASSUME NEW s, SpiShape(s), NEW f \in Seq(SpiUnits), f # <<>>, NEW r, r.k # "spi", SpiFlow(s, f, r),
         Head(f).skipped, NEW q, q.k # "spi"
  PROVE  /\ \A y \in Scheduled(s.pool) \ {Head(s.pool.sched)} : SpiAbout(s, Tail(f), q, y)
         /\ Tail(f) \in Seq(SpiUnits) /\ Fed(s.pool, Tail(f)) /\ SpiOrder(s, Tail(f))
         /\ ~s.on /\ \A n \in 1..Len(Tail(f)) : Tail(f)[n].skipped
         /\ s.pool.sched # <<>> /\ Head(f).x = Head(s.pool.sched)
         /\ Head(s.pool.sched) \in Scheduled(s.pool) /\ Head(s.pool.sched) \in s.pool.active
         /\ s.prog[Head(s.pool.sched)].si + Head(f).cnt + Bytes(Tail(f), Head(s.pool.sched))
              = s.prog[Head(s.pool.sched)].fi
<1>. DEFINE x == Head(s.pool.sched)
            e == Tail(f)
<1>1. s.pool.sched # <<>> /\ Head(f).x = x /\ x \in Scheduled(s.pool)
  BY SpiReplyFits, ListFacts DEF SpiShape
<1>2. /\ e \in Seq(SpiUnits) /\ 1 \in 1..Len(f) /\ Head(f) = f[1] /\ Head(f) \in SpiUnits
      /\ \A n \in 1..Len(f) : n = 1 \/ (n - 1 \in 1..Len(e) /\ f[n] = e[n - 1])
  BY TailFacts
<1>3. Fed(s.pool, e) /\ SpiOrder(s, e) /\ ~s.on /\ \A n \in 1..Len(e) : e[n].skipped
  BY FedTail, SpiOrderTail DEF SpiFlow
<1>4. \A y : Bytes(f, y) = (IF Head(f).x = y THEN Head(f).cnt ELSE 0) + Bytes(e, y)
  BY SpiBytes
<1>5. x \in s.pool.active
  BY <1>1, <1>2, SpiUnitTypes, SpiMeant DEF SpiFlow, SpiShape
<1>. HIDE DEF e, x
<1>6. \A y : ~Reads(q, "spi", s, y) /\ Left(q, "spi", s, y) = 0 /\ ~Reads(r, "spi", s, y) /\ Left(r, "spi", s, y) = 0
  BY DEF Reads, Left
<1>7. ASSUME NEW y \in Scheduled(s.pool) \ {x} PROVE SpiAbout(s, e, q, y)
  <2>1. SpiAbout(s, f, r, y) /\ s.prog[y].si \in Nat /\ Bytes(e, y) \in Nat /\ Bytes(f, y) \in Nat
    BY <1>2, SpiTypes, SpiBytes DEF SpiFlow
  <2>2. Bytes(f, y) = Bytes(e, y)
    BY <1>1, <1>4, <2>1
  <2>3. s.prog[y].si + Left(q, "spi", s, y) + Bytes(e, y) = s.prog[y].fi
    BY <1>6, <2>1, <2>2 DEF SpiAbout
  <2>4. ASSUME s.prog[y].fi = s.prog[y].sc PROVE \E n \in 1..Len(e) : e[n].x = y /\ e[n].last
    <3>1. PICK n \in 1..Len(f) : f[n].x = y /\ f[n].last
      BY <1>6, <2>1, <2>4 DEF SpiAbout
    <3>. QED
      BY <1>1, <1>2, <3>1
  <2>. QED
    BY <1>3, <1>6, <2>1, <2>3, <2>4 DEF SpiAbout
<1>8. s.prog[x].si + Head(f).cnt + Bytes(e, x) = s.prog[x].fi
  <2>1. SpiAbout(s, f, r, x) /\ s.prog[x].si \in Nat /\ Bytes(e, x) \in Nat /\ Head(f).cnt \in Nat
    BY <1>1, <1>2, SpiTypes, SpiBytes, SpiUnitTypes DEF SpiFlow
  <2>2. Bytes(f, x) = Head(f).cnt + Bytes(e, x)
    BY <1>1, <1>4
  <2>3. s.prog[x].si + 0 + Bytes(f, x) = s.prog[x].fi
    BY <1>6, <2>1 DEF SpiAbout
  <2>. QED
    BY <2>1, <2>2, <2>3
<1>. QED
  BY <1>1, <1>2, <1>3, <1>5, <1>7, <1>8 DEF e, x

\* A skipped packet of several, and the one that ends its transfer.
LEMMA SpiReplySkipped ==
  ASSUME NEW s, NEW t, SpiShape(s), t.pool = s.pool, t.on = s.on,
         NEW f \in Seq(SpiUnits), f # <<>>, NEW r, r.k # "spi", SpiFlow(s, f, r), Head(f).skipped,
         \A y \in Scheduled(s.pool) \ {Head(s.pool.sched)} : t.prog[y] = s.prog[y],
         t.prog[Head(s.pool.sched)].si = s.prog[Head(s.pool.sched)].si + Head(f).cnt, t.prog[Head(s.pool.sched)].fi = s.prog[Head(s.pool.sched)].fi,
         t.prog[Head(s.pool.sched)].sc = s.prog[Head(s.pool.sched)].sc, t.prog[Head(s.pool.sched)].ss = s.prog[Head(s.pool.sched)].ss, t.prog[Head(s.pool.sched)].si # t.prog[Head(s.pool.sched)].fi,
         NEW q, q.k # "spi"
  PROVE  SpiFlow(t, Tail(f), q)
<1>. DEFINE x == Head(s.pool.sched)
            e == Tail(f)
<1>1. /\ \A y \in Scheduled(s.pool) \ {x} : SpiAbout(s, e, q, y)
      /\ e \in Seq(SpiUnits) /\ Fed(s.pool, e) /\ SpiOrder(s, e)
      /\ ~s.on /\ \A n \in 1..Len(e) : e[n].skipped
      /\ s.pool.sched # <<>> /\ Head(f).x = x /\ x \in Scheduled(s.pool) /\ x \in s.pool.active
  <2>1. Tail(f) = e /\ Head(s.pool.sched) = x
    OBVIOUS
  <2>. HIDE DEF e, x
  <2>2. \A y \in Scheduled(s.pool) \ {x} : SpiAbout(s, e, q, y)
    BY <2>1, SpiSkipAbout
  <2>3. e \in Seq(SpiUnits) /\ Fed(s.pool, e) /\ SpiOrder(s, e)
    BY <2>1, SpiSkipAbout
  <2>4. ~s.on /\ \A n \in 1..Len(e) : e[n].skipped
    BY ZenonT(40), <2>1, SpiSkipAbout
  <2>5. s.pool.sched # <<>> /\ Head(f).x = Head(s.pool.sched)
    BY SpiReplyFits, Zenon
  <2>6. Head(s.pool.sched) \in Scheduled(s.pool) /\ Head(s.pool.sched) \in s.pool.active
    BY SpiSkipAbout, Zenon
  <2>. QED
    BY <2>2, <2>3, <2>4, <2>5, <2>6, <2>1
<1>2. /\ 1 \in 1..Len(f) /\ Head(f) = f[1] /\ Head(f) \in SpiUnits
      /\ \A n \in 1..Len(f) : n = 1 \/ (n - 1 \in 1..Len(e) /\ f[n] = e[n - 1])
      /\ (Head(f).last => \A n \in 1..Len(e) : e[n].x # x)
  <2>1. Head(f).last => \A n \in 1..Len(e) : e[n].x # Head(f).x
    BY SpiOrderTail DEF SpiFlow
  <2>. QED
    BY SMTT(30), <1>1, <2>1, TailFacts
<1>0. /\ \A y \in Scheduled(s.pool) \ {x} : t.prog[y] = s.prog[y]
      /\ t.prog[x].si = s.prog[x].si + Head(f).cnt /\ t.prog[x].fi = s.prog[x].fi
      /\ t.prog[x].sc = s.prog[x].sc /\ t.prog[x].ss = s.prog[x].ss /\ t.prog[x].si # t.prog[x].fi
  OBVIOUS
<1>. HIDE DEF e, x
<1>3. /\ s.prog[x].si \in Nat /\ s.prog[x].fi \in Nat /\ s.prog[x].sc \in Nat /\ s.prog[x].fi <= s.prog[x].sc
      /\ Bytes(e, x) \in Nat /\ Head(f).cnt \in Nat /\ s.prog[x].si + Head(f).cnt + Bytes(e, x) = s.prog[x].fi
  <2>1. /\ s.prog[x].si \in Nat /\ s.prog[x].fi \in Nat /\ s.prog[x].sc \in Nat /\ s.prog[x].fi <= s.prog[x].sc
        /\ Bytes(e, x) \in Nat /\ Head(f).cnt \in Nat
    BY <1>1, <1>2, SpiTypes, SpiBytes, SpiUnitTypes
  <2>2. Bytes(f, x) = Head(f).cnt + Bytes(e, x)
    BY <1>1, SpiBytes DEF e
  <2>3. SpiAbout(s, f, r, x) /\ Left(r, "spi", s, x) = 0
    BY <1>1 DEF SpiFlow, Left, Reads
  <2>4. s.prog[x].si + 0 + Bytes(f, x) = s.prog[x].fi
    BY <2>3 DEF SpiAbout
  <2>. QED
    BY <2>1, <2>2, <2>4
<1>4. ASSUME NEW y \in Scheduled(s.pool) PROVE SpiAbout(t, e, q, y)
  <2>1. ~Reads(q, "spi", t, y) /\ Left(q, "spi", t, y) = 0 /\ ~Reads(q, "spi", s, y) /\ Left(q, "spi", s, y) = 0
    BY DEF Reads, Left
  <2>2. CASE y # x
    <3>1. t.prog[y] = s.prog[y] /\ SpiAbout(s, e, q, y)
      BY <1>0, <1>1, <2>2
    <3>. QED
      BY <2>1, <3>1 DEF SpiAbout
  <2>3. CASE y = x
    <3>1. SpiAbout(s, f, r, x) /\ r.k # "spi"
      BY <1>0, <1>1 DEF SpiFlow
    <3>2. t.prog[x].si + 0 + Bytes(e, x) = t.prog[x].fi /\ t.prog[x].si < t.prog[x].sc
      BY <1>0, <1>1, <1>3
    <3>3. ASSUME t.prog[x].fi = t.prog[x].sc PROVE \E n \in 1..Len(e) : e[n].x = x /\ e[n].last
      <4>1. PICK n \in 1..Len(f) : f[n].x = x /\ f[n].last
        BY <1>0, <3>1, <3>3 DEF SpiAbout, Reads
      <4>2. CASE n = 1
        <5>1. Bytes(e, x) = 0
          BY SMTT(30), <1>0, <1>1, <1>2, <4>1, <4>2, SpiBytes
        <5>. QED
          BY <1>0, <1>1, <1>3, <5>1
      <4>3. CASE n # 1
        BY <1>2, <4>1, <4>3
      <4>. QED
        BY <4>2, <4>3
    <3>4. x = s.pool.cur => t.prog[x].fi < t.prog[x].sc
      BY <1>0, <3>1 DEF SpiAbout
    <3>5. x # s.pool.cur => t.prog[x].fi = t.prog[x].sc
      BY <1>0, <1>1, <3>1 DEF SpiAbout
    <3>. QED
      BY <1>0, <1>1, <2>1, <2>3, <3>2, <3>3, <3>4, <3>5 DEF SpiAbout
  <2>. QED
    BY <2>2, <2>3
<1>5. SpiOrder(t, e)
  <2>1. \A y \in Scheduled(s.pool) : t.prog[y].ss = s.prog[y].ss /\ t.prog[y].fi = s.prog[y].fi /\ t.prog[y].sc = s.prog[y].sc
    OBVIOUS
  <2>2. \A n \in 1..Len(e) : e[n].x \in Scheduled(s.pool)
    BY <1>0, <1>1, SpiMeant DEF SpiShape
  <2>3. \A n \in 1..Len(e) : /\ t.prog[e[n].x].ss = s.prog[e[n].x].ss
                             /\ t.prog[e[n].x].fi = s.prog[e[n].x].fi
                             /\ t.prog[e[n].x].sc = s.prog[e[n].x].sc
    BY <2>1, <2>2
  <2>4. \A n \in 1..Len(e) : e[n].ss = t.prog[e[n].x].ss
    BY ZenonT(40), <1>1, <2>3 DEF SpiOrder
  <2>5. \A n \in 1..Len(e) : e[n].last => t.prog[e[n].x].fi = t.prog[e[n].x].sc
    BY ZenonT(40), <1>1, <2>3 DEF SpiOrder
  <2>. QED
    BY <1>1, <2>4, <2>5 DEF SpiOrder
<1>6. SpiFlow(t, e, q)
  BY <1>0, <1>1, <1>4, <1>5 DEF SpiFlow, SpiReads
<1>. QED
  BY <1>6 DEF e

LEMMA SpiReplyEnds ==
  ASSUME NEW s, NEW t, SpiShape(s),
         NEW f \in Seq(SpiUnits), f # <<>>, NEW r, r.k # "spi", SpiFlow(s, f, r), Head(f).skipped,
         t.pool = Complete(s.pool, Head(s.pool.sched)), t.on = s.on,
         \A y \in Scheduled(s.pool) \ {Head(s.pool.sched)} : t.prog[y] = s.prog[y],
         s.prog[Head(s.pool.sched)].si + Head(f).cnt = s.prog[Head(s.pool.sched)].fi,
         NEW q, q.k # "spi"
  PROVE  SpiFlow(t, Tail(f), q)
<1>. DEFINE x == Head(s.pool.sched)
            e == Tail(f)
<1>1. /\ \A y \in Scheduled(s.pool) \ {x} : SpiAbout(s, e, q, y)
      /\ e \in Seq(SpiUnits) /\ Fed(s.pool, e) /\ SpiOrder(s, e) /\ x \in Scheduled(s.pool)
      /\ s.prog[x].si + Head(f).cnt + Bytes(e, x) = s.prog[x].fi
  BY SMTT(30), SpiSkipAbout
<1>2. Head(f) \in SpiUnits
  BY TailFacts
<1>. HIDE DEF e, x
<1>3. s.prog[x].si \in Nat /\ s.prog[x].fi \in Nat /\ Bytes(e, x) \in Nat /\ Head(f).cnt \in Nat
  BY <1>1, <1>2, SpiTypes, SpiBytes, SpiUnitTypes
<1>4. Bytes(e, x) = 0
  BY <1>1, <1>3 DEF x
<1>5. \A n \in 1..Len(e) : e[n].x # x
  BY <1>1, <1>4, SpiBytes
<1>6. PoolInv(s.pool) /\ \A y \in Scheduled(s.pool) : s.prog[y].sc \in Nat /\ 0 < s.prog[y].sc
  BY SpiTypes
<1>7. SpiFlow(t, e, q)
  BY <1>1, <1>5, <1>6, SpiLeaves DEF x
<1>. QED
  BY <1>7 DEF e

\* A data byte is for a transfer that is not skipped, and is the last one
\* exactly when the device says so.
LEMMA SpiByteFits ==
  ASSUME NEW s, SpiShape(s), NEW f \in Seq(SpiUnits), NEW r, r.k = "spi", SpiFlow(s, f, r)
  PROVE  /\ s.pool.sched # <<>> /\ Head(s.pool.sched) \in Scheduled(s.pool)
         /\ r.left \in Nat /\ 0 < r.left /\ r.last \in BOOLEAN /\ ~s.prog[Head(s.pool.sched)].skipped
         /\ s.prog[Head(s.pool.sched)].si + r.left + Bytes(f, Head(s.pool.sched)) = s.prog[Head(s.pool.sched)].fi
         /\ ~(r.left = 1 /\ r.last) => s.prog[Head(s.pool.sched)].si + 1 < s.prog[Head(s.pool.sched)].sc
         /\ Head(s.pool.sched) \in s.pool.active
<1>. DEFINE x == Head(s.pool.sched)
<1>1. s.pool.sched # <<>> /\ x \in Scheduled(s.pool) /\ r \in [k : {"spi"}, left : Nat \ {0}, last : BOOLEAN]
  BY ListFacts DEF SpiShape, SpiFlow, SpiReads
<1>2. r.left \in Nat /\ 0 < r.left /\ r.last \in BOOLEAN
  BY <1>1
<1>3. Reads(r, "spi", s, x) /\ Left(r, "spi", s, x) = r.left
  BY DEF Reads, Left
<1>. HIDE DEF x
<1>4. SpiAbout(s, f, r, x) /\ s.prog[x].si \in Nat /\ s.prog[x].fi \in Nat /\ s.prog[x].sc \in Nat
      /\ s.prog[x].fi <= s.prog[x].sc /\ Bytes(f, x) \in Nat
  BY <1>1, SpiTypes, SpiBytes DEF SpiFlow
<1>5. ~s.prog[x].skipped /\ s.prog[x].si + r.left + Bytes(f, x) = s.prog[x].fi
  BY <1>3, <1>4 DEF SpiAbout
<1>6. ASSUME ~(r.left = 1 /\ r.last) PROVE s.prog[x].si + 1 < s.prog[x].sc
  <2>1. CASE r.left # 1
    BY SMTT(30), <1>2, <1>4, <1>5, <2>1
  <2>2. CASE r.left = 1 /\ s.prog[x].fi # s.prog[x].sc
    BY <1>2, <1>4, <1>5, <2>2
  <2>3. CASE r.left = 1 /\ s.prog[x].fi = s.prog[x].sc
    <3>1. \E n \in 1..Len(f) : f[n].x = x
      BY <1>4, <1>6, <2>3 DEF SpiAbout
    <3>2. 0 < Bytes(f, x)
      BY <3>1, SpiBytes
    <3>. QED
      BY <1>4, <1>5, <2>3, <3>2
  <2>. QED
    BY <2>1, <2>2, <2>3
<1>7. x \in s.pool.active
  <2>1. s.prog[x].fi # 0
    BY <1>2, <1>4, <1>5
  <2>. QED
    BY <1>4, <2>1 DEF SpiAbout
<1>. QED
  BY <1>1, <1>2, <1>5, <1>6, <1>7 DEF x

LEMMA SpiByteRead ==
  ASSUME NEW s, NEW t, SpiShape(s), t.pool = s.pool, t.on = s.on,
         NEW f \in Seq(SpiUnits), NEW r, r.k = "spi", SpiFlow(s, f, r), ~(r.left = 1 /\ r.last),
         \A y \in Scheduled(s.pool) \ {Head(s.pool.sched)} : t.prog[y] = s.prog[y],
         t.prog[Head(s.pool.sched)].si = s.prog[Head(s.pool.sched)].si + 1,
         t.prog[Head(s.pool.sched)].fi = s.prog[Head(s.pool.sched)].fi,
         t.prog[Head(s.pool.sched)].sc = s.prog[Head(s.pool.sched)].sc,
         t.prog[Head(s.pool.sched)].ss = s.prog[Head(s.pool.sched)].ss,
         t.prog[Head(s.pool.sched)].skipped = s.prog[Head(s.pool.sched)].skipped,
         NEW q, IF r.left = 1 THEN q.k # "spi" ELSE q = [r EXCEPT !.left = @ - 1]
  PROVE  SpiFlow(t, f, q)
<1>. DEFINE x == Head(s.pool.sched)
<1>1. /\ s.pool.sched # <<>> /\ x \in Scheduled(s.pool) /\ x \in s.pool.active
      /\ r.left \in Nat /\ 0 < r.left /\ r.last \in BOOLEAN /\ ~s.prog[x].skipped
  BY SpiByteFits
<1>2. s.prog[x].si + r.left + Bytes(f, x) = s.prog[x].fi /\ s.prog[x].si + 1 < s.prog[x].sc
  BY SpiByteFits
<1>3. /\ \A y \in Scheduled(s.pool) \ {x} : t.prog[y] = s.prog[y]
      /\ t.prog[x].si = s.prog[x].si + 1 /\ t.prog[x].fi = s.prog[x].fi
      /\ t.prog[x].sc = s.prog[x].sc /\ t.prog[x].ss = s.prog[x].ss /\ t.prog[x].skipped = s.prog[x].skipped
  OBVIOUS
<1>4. Fed(s.pool, f) /\ SpiOrder(s, f) /\ SpiReads(s, f, r) /\ r \in [k : {"spi"}, left : Nat \ {0}, last : BOOLEAN]
  BY DEF SpiFlow, SpiReads
<1>5. /\ \A y : (Reads(r, "spi", s, y) <=> y = x) /\ Left(r, "spi", s, y) = (IF y = x THEN r.left ELSE 0)
      /\ \A y : Left(q, "spi", t, y) = IF y = x THEN r.left - 1 ELSE 0
      /\ r.left # 1 => (\A y : Reads(q, "spi", t, y) <=> y = x) /\ q.last = r.last /\ q.k = "spi"
      /\ r.left # 1 => q \in [k : {"spi"}, left : Nat \ {0}, last : BOOLEAN]
  <2>1. CASE r.left = 1
    BY <2>1 DEF Reads, Left
  <2>2. CASE r.left # 1
    <3>1. q.k = "spi" /\ q.left = r.left - 1 /\ q.last = r.last /\ q \in [k : {"spi"}, left : Nat \ {0}, last : BOOLEAN]
      BY <1>1, <1>4, <2>2
    <3>. QED
      BY <2>2, <3>1 DEF Reads, Left
  <2>. QED
    BY <2>1, <2>2
<1>6. r.left = 1 => q.k # "spi" /\ \A y : ~Reads(q, "spi", t, y)
  BY DEF Reads
<1>. HIDE DEF x
<1>7. ASSUME NEW y \in Scheduled(s.pool) PROVE SpiAbout(t, f, q, y)
  <2>1. SpiAbout(s, f, r, y)
    BY DEF SpiFlow
  <2>2. CASE y # x
    <3>1. t.prog[y] = s.prog[y] /\ ~s.prog[y].skipped
      BY <1>3, <2>1, <2>2 DEF SpiAbout
    <3>2. ~Reads(q, "spi", t, y) /\ Left(q, "spi", t, y) = 0 /\ ~Reads(r, "spi", s, y) /\ Left(r, "spi", s, y) = 0
      BY <1>5, <1>6, <2>2
    <3>. QED
      BY <2>1, <3>1, <3>2 DEF SpiAbout
  <2>3. CASE y = x
    <3>1. s.prog[x].si \in Nat /\ s.prog[x].fi \in Nat /\ Bytes(f, x) \in Nat /\ Left(q, "spi", t, x) = r.left - 1
      BY <1>1, <1>5, SpiTypes, SpiBytes
    <3>2. t.prog[x].si + Left(q, "spi", t, x) + Bytes(f, x) = t.prog[x].fi
      BY <1>1, <1>2, <1>3, <3>1
    <3>3. ASSUME t.prog[x].fi = t.prog[x].sc
          PROVE  (Reads(q, "spi", t, x) /\ q.last) \/ \E n \in 1..Len(f) : f[n].x = x /\ f[n].last
      BY <1>3, <1>5, <2>1, <2>3, <3>3 DEF SpiAbout
    <3>4. x # s.pool.cur => t.prog[x].fi = t.prog[x].sc
      BY <1>1, <1>3, <2>1, <2>3 DEF SpiAbout
    <3>5. x = s.pool.cur => t.prog[x].fi < t.prog[x].sc
      BY <1>3, <2>1, <2>3 DEF SpiAbout
    <3>6. t.prog[x].si < t.prog[x].sc /\ ~t.prog[x].skipped
      BY <1>1, <1>2, <1>3
    <3>. QED
      BY <1>1, <2>3, <3>2, <3>3, <3>4, <3>5, <3>6 DEF SpiAbout
  <2>. QED
    BY <2>2, <2>3
<1>8. SpiOrder(t, f)
  <2>1. \A y \in Scheduled(s.pool) : t.prog[y].ss = s.prog[y].ss /\ t.prog[y].fi = s.prog[y].fi /\ t.prog[y].sc = s.prog[y].sc
    BY <1>3
  <2>2. \A n \in 1..Len(f) : f[n].x \in Scheduled(s.pool)
    BY <1>4, SpiMeant DEF SpiShape
  <2>3. \A n \in 1..Len(f) : f[n].ss = t.prog[f[n].x].ss
    BY ZenonT(40), <1>4, <2>1, <2>2 DEF SpiOrder
  <2>4. \A n \in 1..Len(f) : f[n].last => t.prog[f[n].x].fi = t.prog[f[n].x].sc
    BY ZenonT(40), <1>4, <2>1, <2>2 DEF SpiOrder
  <2>. QED
    BY <1>4, <2>3, <2>4 DEF SpiOrder
<1>9. SpiReads(t, f, q)
  <2>1. CASE r.left = 1
    BY <1>6, <2>1 DEF SpiReads
  <2>2. CASE r.left # 1
    <3>1. r.last => s.prog[x].fi = s.prog[x].sc /\ \A n \in 1..Len(f) : f[n].x # x
      BY <1>4 DEF SpiReads, x
    <3>2. q.last => t.prog[x].fi = t.prog[x].sc /\ \A n \in 1..Len(f) : f[n].x # x
      BY <1>3, <1>5, <2>2, <3>1
    <3>. QED
      BY SMTT(30), <1>1, <1>5, <2>2, <3>2 DEF SpiReads, x
  <2>. QED
    BY <2>1, <2>2
<1>. QED
  BY <1>4, <1>7, <1>8, <1>9 DEF SpiFlow

LEMMA SpiByteEnds ==
  ASSUME NEW s, NEW t, SpiShape(s),
         NEW f \in Seq(SpiUnits), NEW r, r.k = "spi", SpiFlow(s, f, r), r.left = 1, r.last,
         t.pool = Complete(s.pool, Head(s.pool.sched)), t.on = s.on,
         \A y \in Scheduled(s.pool) \ {Head(s.pool.sched)} : t.prog[y] = s.prog[y],
         NEW q, q.k # "spi"
  PROVE  SpiFlow(t, f, q)
<1>. DEFINE x == Head(s.pool.sched)
<1>1. x \in Scheduled(s.pool)
  BY SpiByteFits
<1>2. (\A n \in 1..Len(f) : f[n].x # x) /\ Fed(s.pool, f) /\ SpiOrder(s, f)
  BY DEF SpiFlow, SpiReads
<1>3. \A y \in Scheduled(s.pool) \ {x} : ~Reads(q, "spi", s, y) /\ Left(q, "spi", s, y) = 0
                                          /\ ~Reads(r, "spi", s, y) /\ Left(r, "spi", s, y) = 0
  BY DEF Reads, Left
<1>. HIDE DEF x
<1>4. ASSUME NEW y \in Scheduled(s.pool) \ {x} PROVE SpiAbout(s, f, q, y)
  <2>1. SpiAbout(s, f, r, y)
    BY DEF SpiFlow
  <2>. QED
    BY <1>3, <2>1 DEF SpiAbout
<1>5. PoolInv(s.pool) /\ \A y \in Scheduled(s.pool) : s.prog[y].sc \in Nat /\ 0 < s.prog[y].sc
  BY SpiTypes
<1>. QED
  BY <1>1, <1>2, <1>4, <1>5, SpiLeaves DEF x

-----------------------------------------------------------------------------
(* The steps of SPI. *)

SpiFlight == Flight("spi", rsp, spi.buf)

(* What is kept: the shape, the flow while the device is there, and every  *)
(* byte of the device's buffer either free or taken.                       *)
SpiInv ==
  /\ SpiShape(spi)
  /\ ~Is_Detached => SpiFlow(spi, SpiFlight, rx)
  /\ infoRead => spi.free + SpiTaken(SpiFlight) = SpiLen
  /\ ~infoRead => spi.free = 0 /\ SpiFlight = <<>>

LEMMA MinOfThree ==
  ASSUME NEW a \in Nat, NEW b \in Nat, NEW c \in Nat
  PROVE  /\ Min({a, b, c}) \in Nat /\ Min({a, b, c}) <= a /\ Min({a, b, c}) <= b /\ Min({a, b, c}) <= c
         /\ Min({a, b, c}) \in {a, b, c}
<1>1. \E m \in {a, b, c} : \A n \in {a, b, c} : m <= n
  OBVIOUS
<1>2. Min({a, b, c}) \in {a, b, c} /\ \A n \in {a, b, c} : Min({a, b, c}) <= n
  BY <1>1 DEF Min
<1>. QED
  BY <1>2

LEMMA SpiTakenFacts ==
  ASSUME NEW f \in Seq(SpiUnits)
  PROVE  /\ SpiTaken(f) \in Nat
         /\ f = <<>> => SpiTaken(f) = 0
         /\ \A u \in SpiUnits : SpiTaken(Append(f, u)) = SpiTaken(f) + Cost(u.cnt)
         /\ f # <<>> => SpiTaken(f) = Cost(Head(f).cnt) + SpiTaken(Tail(f))
<1>. DEFINE w == [u \in SpiUnits |-> Cost(u.cnt)]
<1>1. w \in [SpiUnits -> Nat]
  BY DEF SpiUnits, Cost
<1>2. ASSUME NEW e \in Seq(SpiUnits) PROVE SpiTaken(e) = Weighed(e, w)
  <2>1. \A n \in 1..Len(e) : w[e[n]] = Cost(e[n].cnt)
    OBVIOUS
  <2>. HIDE DEF w
  <2>. QED
    BY <2>1 DEF SpiTaken, Weighed
<1>3. \A u \in SpiUnits : w[u] = Cost(u.cnt)
  OBVIOUS
<1>. HIDE DEF w
<1>4. SpiTaken(f) \in Nat /\ (f = <<>> => SpiTaken(f) = 0)
  <2>1. Weighed(f, w) \in Nat /\ (f = <<>> => Weighed(f, w) = 0)
    BY <1>1, WeighedFacts
  <2>. QED
    BY <1>2, <2>1
<1>5. ASSUME NEW u \in SpiUnits PROVE SpiTaken(Append(f, u)) = SpiTaken(f) + Cost(u.cnt)
  <2>1. Weighed(Append(f, u), w) = Weighed(f, w) + w[u]
    BY <1>1, WeighedFacts
  <2>2. Append(f, u) \in Seq(SpiUnits)
    OBVIOUS
  <2>. QED
    BY <1>2, <1>3, <2>1, <2>2
<1>6. ASSUME f # <<>> PROVE SpiTaken(f) = Cost(Head(f).cnt) + SpiTaken(Tail(f))
  <2>1. Weighed(f, w) = w[Head(f)] + Weighed(Tail(f), w)
    BY <1>1, <1>6, WeighedFacts
  <2>2. Tail(f) \in Seq(SpiUnits) /\ Head(f) \in SpiUnits
    BY <1>6
  <2>. QED
    BY <1>2, <1>3, <2>1, <2>2
<1>. QED
  BY <1>4, <1>5, <1>6

\* Commands that only change in other fields take as many bytes.
LEMMA SpiTakenSame ==
  ASSUME NEW f, NEW g, Len(g) = Len(f), \A n \in 1..Len(f) : g[n].cnt = f[n].cnt
  PROVE  SpiTaken(g) = SpiTaken(f)
<1>1. [n \in 1..Len(g) |-> Cost(g[n].cnt)] = [n \in 1..Len(f) |-> Cost(f[n].cnt)]
  OBVIOUS
<1>. QED
  BY <1>1 DEF SpiTaken

\* Only the transfers and their programs change.
LEMMA SpiShapeAlike ==
  ASSUME NEW s, NEW t, SpiShape(s), DOMAIN t = DOMAIN s, PoolInv(t.pool), Alike(s.pool, t.pool),
         t.prog = s.prog, t.free \in Nat, t.buf \in Seq(SpiUnits)
  PROVE  SpiShape(t)
<1>1. Scheduled(t.pool) = Scheduled(s.pool)
  BY AlikeFacts DEF SpiShape
<1>. QED
  BY <1>1 DEF SpiShape

LEMMA SpiShapeLess ==
  ASSUME NEW s, NEW t, SpiShape(s), DOMAIN t = DOMAIN s, NEW x \in Scheduled(s.pool), PoolInv(t.pool),
         Alike(Complete(s.pool, x), t.pool), t.prog = Without(s.prog, x), t.free \in Nat, t.buf \in Seq(SpiUnits)
  PROVE  SpiShape(t)
<1>1. Scheduled(t.pool) = Scheduled(s.pool) \ {x}
  BY CompleteFacts, AlikeFacts DEF SpiShape
<1>2. s.prog \in [Scheduled(s.pool) -> SpiProgs]
  BY DEF SpiShape
<1>3. t.prog \in [Scheduled(t.pool) -> SpiProgs] /\ \A y \in Scheduled(t.pool) : t.prog[y] = s.prog[y]
  BY <1>1, <1>2 DEF Without
<1>. QED
  BY <1>1, <1>3 DEF SpiShape

LEMMA CancelsFacts ==
  ASSUME NEW p, PoolInv(p), NEW x \in p.held, Cancels(p, x)
  PROVE  x \in Scheduled(p) /\ x \notin p.active /\ PoolInv(Complete(p, x)) /\ x \in Xfrs
<1>1. x \in Xfrs /\ x \in Scheduled(p) /\ x \notin p.active
  BY DEF Cancels, Scheduled, PoolInv, PoolRecords
<1>. QED
  BY <1>1, CompleteFacts

LEMMA SpiFlightFacts ==
  ASSUME NEW U, Delivers(U, "spi", SpiUnits), rsp \in Seq(U), SpiShape(spi)
  PROVE  SpiFlight \in Seq(SpiUnits) /\ OfKind("spi", rsp) \in Seq(SpiUnits) /\ spi.buf \in Seq(SpiUnits)
<1>1. spi.buf \in Seq(SpiUnits)
  BY DEF SpiShape
<1>. QED
  BY <1>1, DeliveredFacts DEF SpiFlight

\* A call that leaves commands, replies and free bytes alone.
LEMMA SpiCallKeeps ==
  ASSUME SpiInv, SpiShape(spi'), UNCHANGED <<conn, infoRead, rsp, rx>>,
         spi'.buf = spi.buf, spi'.free = spi.free,
         SpiFlow(spi, SpiFlight, rx) => SpiFlow(spi', SpiFlight, rx)
  PROVE  SpiInv'
<1>1. SpiFlight' = SpiFlight
  BY DEF SpiFlight
<1>. QED
  BY <1>1 DEF SpiInv, Is_Detached

LEMMA SpiCreateKeeps ==
  ASSUME SpiInv, NEW x \in Xfrs, SPI_Xfr_Create(x)
  PROVE  SpiInv'
<1>1. SpiShape(spi) /\ PoolInv(spi.pool) /\ DOMAIN spi = {"pool", "prog", "free", "buf", "on"}
      /\ spi.free \in Nat /\ spi.buf \in Seq(SpiUnits)
  BY DEF SpiInv, SpiShape
<1>2. /\ spi'.pool = Create(spi.pool, x) /\ DOMAIN spi' = DOMAIN spi /\ CanCreate(spi.pool, x)
      /\ spi'.prog = spi.prog /\ spi'.free = spi.free /\ spi'.buf = spi.buf /\ spi'.on = spi.on
      /\ UNCHANGED <<conn, infoRead, rsp, rx>>
  BY <1>1 DEF SPI_Xfr_Create, Called, linkVars
<1>3. PoolInv(spi'.pool) /\ Alike(spi.pool, spi'.pool)
  BY <1>1, <1>2, CreateInv, CreateAlike
<1>4. SpiShape(spi')
  BY <1>1, <1>2, <1>3, SpiShapeAlike
<1>5. SpiFlow(spi, SpiFlight, rx) => SpiFlow(spi', SpiFlight, rx)
  BY <1>1, <1>2, <1>3, SpiAlike
<1>. QED
  BY <1>2, <1>4, <1>5, SpiCallKeeps

LEMMA SpiScheduleKeeps ==
  ASSUME NEW U, Delivers(U, "spi", SpiUnits), rsp \in Seq(U),
         SpiInv, NEW x \in Xfrs, NEW sc \in SpiSizes, NEW ss \in SpiSelects, SPI_Xfr_Schedule(x, sc, ss)
  PROVE  SpiInv'
<1>1. SpiShape(spi) /\ PoolInv(spi.pool) /\ DOMAIN spi = {"pool", "prog", "free", "buf", "on"}
      /\ spi.free \in Nat /\ spi.buf \in Seq(SpiUnits) /\ spi.prog \in [Scheduled(spi.pool) -> SpiProgs]
  BY DEF SpiInv, SpiShape
<1>2. /\ spi'.pool = Schedule(spi.pool, x) /\ DOMAIN spi' = DOMAIN spi /\ CanSchedule(spi.pool, x)
      /\ spi'.prog = [y \in DOMAIN spi.prog \cup {x} |->
                        IF y = x THEN [sc |-> sc, ss |-> ss, fi |-> 0, si |-> 0, skipped |-> FALSE]
                        ELSE spi.prog[y]]
      /\ spi'.free = spi.free /\ spi'.buf = spi.buf /\ spi'.on = spi.on
      /\ UNCHANGED <<conn, infoRead, rsp, rx>>
  BY <1>1 DEF SPI_Xfr_Schedule, Called, linkVars
<1>3. PoolInv(spi'.pool) /\ Scheduled(spi'.pool) = Scheduled(spi.pool) \cup {x} /\ x \notin Scheduled(spi.pool)
  BY <1>1, <1>2, ScheduleFacts
<1>4. sc \in Nat \ {0}
  BY SpiAssumption
<1>. DEFINE p == [sc |-> sc, ss |-> ss, fi |-> 0, si |-> 0, skipped |-> FALSE]
<1>5. p \in SpiProgs /\ p.si <= p.fi /\ p.fi <= p.sc /\ 0 < p.sc /\ ~p.skipped /\ p.si = 0 /\ p.fi = 0
      /\ p.sc \in Nat \ {0}
  BY <1>4 DEF SpiProgs
<1>6. spi'.prog[x] = p /\ \A y \in Scheduled(spi.pool) : spi'.prog[y] = spi.prog[y]
  BY <1>1, <1>2, <1>3
<1>. HIDE DEF p
<1>7. spi'.prog \in [Scheduled(spi'.pool) -> SpiProgs]
  BY <1>1, <1>2, <1>3, <1>5, <1>6
<1>8. SpiShape(spi')
  BY <1>1, <1>2, <1>3, <1>5, <1>6, <1>7 DEF SpiShape
<1>9. ASSUME SpiFlow(spi, SpiFlight, rx) PROVE SpiFlow(spi', SpiFlight, rx)
  <2>1. SpiFlight \in Seq(SpiUnits) /\ (rx.k = "spi" => spi.pool.sched # <<>>)
    BY <1>1, <1>9, SpiFlightFacts DEF SpiFlow, SpiReads
  <2>2. spi'.prog[x].si = 0 /\ spi'.prog[x].fi = 0 /\ spi'.prog[x].sc \in Nat \ {0} /\ ~spi'.prog[x].skipped
    BY <1>5, <1>6
  <2>. QED
    BY <1>1, <1>2, <1>6, <1>9, <2>1, <2>2, SpiSchedule
<1>. QED
  BY <1>2, <1>8, <1>9, SpiCallKeeps

\* Cancelling, also when the object is destroyed.
LEMMA SpiCancels ==
  ASSUME NEW U, Delivers(U, "spi", SpiUnits), rsp \in Seq(U), SpiInv, UNCHANGED <<conn, infoRead, rsp, rx>>,
         NEW x \in spi.pool.held, Cancels(spi.pool, x),
         DOMAIN spi' = DOMAIN spi, PoolInv(spi'.pool), Alike(Complete(spi.pool, x), spi'.pool),
         spi'.prog = Without(spi.prog, x), spi'.free = spi.free, spi'.buf = spi.buf, spi'.on = spi.on
  PROVE  SpiInv'
<1>1. SpiShape(spi) /\ PoolInv(spi.pool) /\ spi.free \in Nat /\ spi.buf \in Seq(SpiUnits)
      /\ spi.prog \in [Scheduled(spi.pool) -> SpiProgs]
  BY DEF SpiInv, SpiShape
<1>2. x \in Scheduled(spi.pool) /\ x \notin spi.pool.active
  BY <1>1, CancelsFacts
<1>3. SpiShape(spi')
  BY <1>1, <1>2, SpiShapeLess
<1>4. \A y \in Scheduled(spi.pool) \ {x} : spi'.prog[y] = spi.prog[y]
  BY <1>1 DEF Without
<1>5. SpiFlight \in Seq(SpiUnits)
  BY <1>1, SpiFlightFacts
<1>6. SpiFlow(spi, SpiFlight, rx) => SpiFlow(spi', SpiFlight, rx)
  BY <1>1, <1>2, <1>4, <1>5, SpiCancel
<1>. QED
  BY <1>3, <1>6, SpiCallKeeps

LEMMA SpiCancelKeeps ==
  ASSUME NEW U, Delivers(U, "spi", SpiUnits), rsp \in Seq(U), SpiInv, NEW x \in Xfrs, SPI_Xfr_Cancel(x)
  PROVE  SpiInv'
<1>1. SpiShape(spi) /\ PoolInv(spi.pool) /\ DOMAIN spi = {"pool", "prog", "free", "buf", "on"}
  BY DEF SpiInv, SpiShape
<1>2. UNCHANGED <<conn, infoRead, rsp, rx>> /\ x \in spi.pool.held
  BY DEF SPI_Xfr_Cancel, Called, linkVars
<1>3. CASE Cancels(spi.pool, x)
  <2>1. /\ spi'.pool = Complete(spi.pool, x) /\ DOMAIN spi' = DOMAIN spi
        /\ spi'.prog = Without(spi.prog, x) /\ spi'.free = spi.free /\ spi'.buf = spi.buf /\ spi'.on = spi.on
    BY <1>1, <1>3 DEF SPI_Xfr_Cancel, SpiDone
  <2>2. PoolInv(spi'.pool) /\ Alike(Complete(spi.pool, x), spi'.pool)
    BY <1>1, <1>2, <1>3, <2>1, CancelsFacts DEF Alike
  <2>. QED
    BY <1>2, <1>3, <2>1, <2>2, SpiCancels
<1>4. CASE ~Cancels(spi.pool, x)
  <2>1. spi' = spi
    BY <1>4 DEF SPI_Xfr_Cancel
  <2>. QED
    BY <1>1, <1>2, <2>1, SpiCallKeeps
<1>. QED
  BY <1>3, <1>4

LEMMA SpiDestroyKeeps ==
  ASSUME NEW U, Delivers(U, "spi", SpiUnits), rsp \in Seq(U), SpiInv, NEW x \in Xfrs, SPI_Xfr_Destroy(x)
  PROVE  SpiInv'
<1>1. SpiShape(spi) /\ PoolInv(spi.pool) /\ DOMAIN spi = {"pool", "prog", "free", "buf", "on"}
      /\ spi.free \in Nat /\ spi.buf \in Seq(SpiUnits)
  BY DEF SpiInv, SpiShape
<1>2. /\ spi'.pool = Destroy(spi.pool, x) /\ DOMAIN spi' = DOMAIN spi
      /\ spi'.prog = (IF Cancels(spi.pool, x) THEN Without(spi.prog, x) ELSE spi.prog)
      /\ spi'.free = spi.free /\ spi'.buf = spi.buf /\ spi'.on = spi.on
      /\ UNCHANGED <<conn, infoRead, rsp, rx>> /\ x \in spi.pool.held
  BY <1>1 DEF SPI_Xfr_Destroy, Called, linkVars
<1>3. /\ PoolInv(spi'.pool)
      /\ Cancels(spi.pool, x) => Alike(Complete(spi.pool, x), spi'.pool)
      /\ ~Cancels(spi.pool, x) => Alike(spi.pool, spi'.pool)
  BY <1>1, <1>2, DestroyInv, DestroyAlike
<1>4. CASE Cancels(spi.pool, x)
  BY <1>2, <1>3, <1>4, SpiCancels
<1>5. CASE ~Cancels(spi.pool, x)
  <2>1. SpiShape(spi')
    BY <1>1, <1>2, <1>3, <1>5, SpiShapeAlike
  <2>2. SpiFlow(spi, SpiFlight, rx) => SpiFlow(spi', SpiFlight, rx)
    BY <1>1, <1>2, <1>3, <1>5, SpiAlike
  <2>. QED
    BY <1>2, <2>1, <2>2, SpiCallKeeps
<1>. QED
  BY <1>4, <1>5

LEMMA SpiEnableKeeps ==
  ASSUME NEW U, Delivers(U, "spi", SpiUnits), rsp \in Seq(U), SpiInv, ~Reenable, SPI_Enable
  PROVE  SpiInv'
<1>1. SpiShape(spi) /\ PoolInv(spi.pool) /\ DOMAIN spi = {"pool", "prog", "free", "buf", "on"}
      /\ spi.free \in Nat /\ spi.buf \in Seq(SpiUnits)
  BY DEF SpiInv, SpiShape
<1>2. /\ spi'.pool = spi.pool /\ DOMAIN spi' = DOMAIN spi
      /\ spi'.prog = spi.prog /\ spi'.free = spi.free /\ spi'.buf = spi.buf
      /\ UNCHANGED <<conn, infoRead, rsp, rx>> /\ spi.pool.sched = <<>>
  BY <1>1 DEF SPI_Enable, Enables, Configured, Called, linkVars
<1>3. PoolInv(spi'.pool) /\ Alike(spi.pool, spi'.pool)
  BY <1>1, <1>2 DEF Alike
<1>4. SpiShape(spi')
  BY <1>1, <1>2, <1>3, SpiShapeAlike
<1>5. SpiFlight \in Seq(SpiUnits)
  BY <1>1, SpiFlightFacts
<1>6. SpiFlow(spi, SpiFlight, rx) => SpiFlow(spi', SpiFlight, rx)
  BY <1>1, <1>2, <1>5, SpiEnable
<1>. QED
  BY <1>2, <1>4, <1>6, SpiCallKeeps

LEMMA SpiDisableKeeps ==
  ASSUME NEW U, Delivers(U, "spi", SpiUnits), rsp \in Seq(U), SpiInv, SPI_Disable
  PROVE  SpiInv'
<1>. DEFINE b == [i \in DOMAIN spi.buf |-> [spi.buf[i] EXCEPT !.skipped = TRUE]]
            a == OfKind("spi", rsp)
<1>1. SpiShape(spi) /\ PoolInv(spi.pool) /\ DOMAIN spi = {"pool", "prog", "free", "buf", "on"}
      /\ spi.free \in Nat /\ spi.buf \in Seq(SpiUnits)
  BY DEF SpiInv, SpiShape
<1>2. /\ spi'.pool = spi.pool /\ DOMAIN spi' = DOMAIN spi
      /\ spi'.prog = spi.prog /\ spi'.free = spi.free /\ spi'.buf = b /\ spi'.on = FALSE
      /\ UNCHANGED <<conn, infoRead, rsp, rx>>
  BY <1>1 DEF SPI_Disable, Configured, Called, linkVars
<1>3. /\ b \in Seq(SpiUnits) /\ Len(b) = Len(spi.buf)
      /\ \A n \in 1..Len(spi.buf) : /\ b[n].x = spi.buf[n].x /\ b[n].cnt = spi.buf[n].cnt
                                    /\ b[n].ss = spi.buf[n].ss /\ b[n].last = spi.buf[n].last /\ b[n].skipped
  <2>1. ASSUME NEW u \in SpiUnits, NEW v, v = [u EXCEPT !.skipped = TRUE]
        PROVE  v \in SpiUnits /\ v.x = u.x /\ v.cnt = u.cnt /\ v.ss = u.ss /\ v.last = u.last /\ v.skipped
    BY <2>1 DEF SpiUnits
  <2>2. DOMAIN spi.buf = 1..Len(spi.buf) /\ Len(spi.buf) \in Nat /\ \A n \in 1..Len(spi.buf) : spi.buf[n] \in SpiUnits
    BY <1>1
  <2>3. \A n \in 1..Len(spi.buf) : b[n] = [spi.buf[n] EXCEPT !.skipped = TRUE]
    BY <2>2
  <2>4. ASSUME NEW n \in 1..Len(spi.buf)
        PROVE  /\ b[n] \in SpiUnits /\ b[n].x = spi.buf[n].x /\ b[n].cnt = spi.buf[n].cnt
               /\ b[n].ss = spi.buf[n].ss /\ b[n].last = spi.buf[n].last /\ b[n].skipped
    <3>1. spi.buf[n] \in SpiUnits /\ b[n] = [spi.buf[n] EXCEPT !.skipped = TRUE]
      BY <2>2, <2>3
    <3>. QED
      BY <3>1, <2>1
  <2>5. b \in [1..Len(spi.buf) -> SpiUnits]
    BY <2>2, <2>4
  <2>. HIDE DEF b
  <2>6. b \in Seq(SpiUnits) /\ Len(b) = Len(spi.buf)
    BY <2>2, <2>5
  <2>. QED
    BY <2>4, <2>6
<1>4. a \in Seq(SpiUnits)
  BY <1>1, SpiFlightFacts
<1>. HIDE DEF a, b
<1>. DEFINE f == a \o spi.buf
            g == a \o b
<1>5. SpiFlight = f /\ SpiFlight' = g
  BY <1>2 DEF SpiFlight, Flight, a
<1>6. /\ f \in Seq(SpiUnits) /\ Len(f) = Len(a) + Len(spi.buf)
      /\ \A n \in 1..Len(a) : f[n] = a[n]
      /\ \A n \in 1..Len(spi.buf) : f[Len(a) + n] = spi.buf[n]
  BY <1>1, <1>4, CatFacts
<1>7. /\ g \in Seq(SpiUnits) /\ Len(g) = Len(a) + Len(b) /\ Len(a) \in Nat
      /\ \A n \in 1..Len(a) : g[n] = a[n]
      /\ \A n \in 1..Len(b) : g[Len(a) + n] = b[n]
  <2>1. a \in Seq(SpiUnits) /\ b \in Seq(SpiUnits)
    BY <1>3, <1>4
  <2>. QED
    BY <2>1, CatFacts
<1>. HIDE DEF f, g
<1>8. ASSUME NEW n \in 1..Len(f)
      PROVE  /\ g[n].x = f[n].x /\ g[n].cnt = f[n].cnt /\ g[n].ss = f[n].ss /\ g[n].last = f[n].last
             /\ IF n <= Len(a) THEN g[n].skipped = f[n].skipped ELSE g[n].skipped
  <2>1. CASE n <= Len(a)
    <3>1. n \in 1..Len(a)
      BY <1>7, <2>1
    <3>. QED
      BY <1>6, <1>7, <2>1, <3>1
  <2>2. CASE ~(n <= Len(a))
    <3>1. n - Len(a) \in 1..Len(b) /\ n - Len(a) \in 1..Len(spi.buf) /\ Len(a) + (n - Len(a)) = n
      BY <1>1, <1>3, <1>6, <1>7, <2>2
    <3>2. f[n] = spi.buf[n - Len(a)] /\ g[n] = b[n - Len(a)]
      BY <1>6, <1>7, <3>1
    <3>. QED
      BY <1>3, <2>2, <3>1, <3>2
  <2>. QED
    BY <2>1, <2>2
<1>9. Len(g) = Len(f)
  BY <1>3, <1>6, <1>7
<1>10. SpiShape(spi')
  <2>1. PoolInv(spi'.pool) /\ Alike(spi.pool, spi'.pool)
    BY <1>1, <1>2 DEF Alike
  <2>. QED
    BY <1>1, <1>2, <1>3, <2>1, SpiShapeAlike
<1>11. ASSUME SpiFlow(spi, f, rx) PROVE SpiFlow(spi', g, rx)
  <2>1. \A n \in 1..Len(f) : g[n].x = f[n].x /\ g[n].cnt = f[n].cnt /\ g[n].ss = f[n].ss /\ g[n].last = f[n].last
    BY <1>8
  <2>2. \A n \in 1..Len(f) : IF n <= Len(a) THEN g[n].skipped = f[n].skipped ELSE g[n].skipped
    BY <1>8
  <2>3. f \in Seq(SpiUnits) /\ g \in Seq(SpiUnits) /\ Len(a) \in Nat /\ ~spi'.on
    BY <1>2, <1>6, <1>7
  <2>. QED
    BY <1>1, <1>2, <1>9, <1>11, <2>1, <2>2, <2>3, SpiDisable
<1>12. SpiTaken(g) = SpiTaken(f)
  BY <1>8, <1>9, SpiTakenSame
<1>13. f = <<>> => g = <<>>
  BY <1>6, <1>7, <1>9
<1>. QED
  BY <1>2, <1>5, <1>10, <1>11, <1>12, <1>13 DEF SpiInv, Is_Detached

LEMMA SpiTxKeeps ==
  ASSUME NEW U, Delivers(U, "spi", SpiUnits), rsp \in Seq(U), SpiInv, ~Is_Detached, SPI_Tx
  PROVE  SpiInv'
<1>. DEFINE cur  == spi.pool.cur
            p    == spi.prog[cur]
            cnt  == PacketSize(p, spi.free)
            last == cnt = p.sc - p.fi
            u    == [k |-> "spi", x |-> cur, cnt |-> cnt, ss |-> p.ss, last |-> last, skipped |-> ~spi.on]
<1>1. SpiShape(spi) /\ PoolInv(spi.pool) /\ DOMAIN spi = {"pool", "prog", "free", "buf", "on"}
      /\ spi.free \in Nat /\ spi.buf \in Seq(SpiUnits) /\ spi.prog \in [Scheduled(spi.pool) -> SpiProgs]
  BY DEF SpiInv, SpiShape
<1>2. cur # NoXfr /\ ~p.skipped /\ 3 <= spi.free /\ UNCHANGED <<conn, infoRead, rsp, rx>>
  BY <1>1 DEF SPI_Tx, SpiCanSend, linkVars
<1>3. cur \in Scheduled(spi.pool) /\ cur \in Xfrs /\ p \in SpiProgs
  BY <1>1, <1>2, ListFacts DEF Scheduled
<1>4. p.fi < p.sc /\ p.fi \in Nat /\ p.sc \in Nat /\ p.si \in Nat /\ p.si <= p.fi /\ p.ss \in SpiSelects /\ p.skipped \in BOOLEAN
  <2>1. SpiAbout(spi, SpiFlight, rx, cur)
    BY <1>3 DEF SpiInv, SpiFlow
  <2>2. p.fi < p.sc
    BY <2>1 DEF SpiAbout
  <2>3. p.fi \in Nat /\ p.sc \in Nat /\ p.si \in Nat /\ p.ss \in SpiSelects /\ p.skipped \in BOOLEAN
    BY <1>3 DEF SpiProgs
  <2>4. p.si <= p.fi
    BY <1>3, SpiTypes, <1>1
  <2>. QED
    BY <2>2, <2>3, <2>4
<1>5. /\ cnt \in Nat \ {0} /\ cnt <= p.sc - p.fi /\ Cost(cnt) <= spi.free /\ Cost(cnt) \in Nat
      /\ last \in BOOLEAN
  <2>1. p.sc - p.fi \in Nat \ {0} /\ MaxPacket \in Nat \ {0} /\ spi.free - 2 \in Nat \ {0}
    BY SMTT(30), <1>1, <1>2, <1>4, SpiAssumption
  <2>2. cnt \in Nat \ {0} /\ cnt <= p.sc - p.fi /\ cnt <= spi.free - 2
    <3>. HIDE DEF p
    <3>1. cnt \in {p.sc - p.fi, MaxPacket, spi.free - 2} /\ cnt <= p.sc - p.fi /\ cnt <= spi.free - 2
      BY <2>1, MinOfThree DEF PacketSize
    <3>. HIDE DEF cnt
    <3>. QED
      BY <2>1, <3>1
  <2>. HIDE DEF cnt
  <2>. QED
    BY <1>1, <2>2 DEF Cost
<1>6. u \in SpiUnits
  <2>1. spi.on \in BOOLEAN \/ spi.on \notin BOOLEAN
    OBVIOUS
  <2>. HIDE DEF cnt, last, p
  <2>. QED
    BY <1>3, <1>4, <1>5 DEF SpiUnits
<1>7. /\ spi'.pool = Transmit(spi.pool, last) /\ spi'.prog = [spi.prog EXCEPT ![cur].fi = @ + cnt]
      /\ spi'.free = spi.free - Cost(cnt) /\ spi'.buf = Append(spi.buf, u) /\ spi'.on = spi.on
      /\ DOMAIN spi' = DOMAIN spi
  BY <1>1 DEF SPI_Tx
<1>8. u.x = cur /\ u.cnt = cnt /\ u.ss = p.ss /\ (u.last <=> last) /\ (u.skipped <=> ~spi.on)
  OBVIOUS
<1>. HIDE DEF cnt, u
<1>9. /\ spi'.prog[cur].fi = p.fi + cnt /\ spi'.prog[cur].si = p.si /\ spi'.prog[cur].sc = p.sc
      /\ spi'.prog[cur].ss = p.ss /\ spi'.prog[cur].skipped = p.skipped
      /\ \A y \in Scheduled(spi.pool) \ {cur} : spi'.prog[y] = spi.prog[y]
      /\ spi'.prog \in [Scheduled(spi.pool) -> SpiProgs]
  <2>1. p.fi + cnt \in Nat
    BY SMTT(30), <1>4, <1>5
  <2>2. [p EXCEPT !.fi = p.fi + cnt] \in SpiProgs
    BY <1>3, <2>1 DEF SpiProgs
  <2>3. spi'.prog[cur] = [p EXCEPT !.fi = p.fi + cnt] /\ DOMAIN spi'.prog = Scheduled(spi.pool)
        /\ \A y \in Scheduled(spi.pool) \ {cur} : spi'.prog[y] = spi.prog[y]
    BY <1>1, <1>3, <1>7
  <2>4. DOMAIN p = {"sc", "ss", "fi", "si", "skipped"}
    BY <1>3 DEF SpiProgs
  <2>5. /\ spi'.prog[cur].fi = p.fi + cnt /\ spi'.prog[cur].si = p.si /\ spi'.prog[cur].sc = p.sc
        /\ spi'.prog[cur].ss = p.ss /\ spi'.prog[cur].skipped = p.skipped
    <3>. HIDE DEF p
    <3>. QED
      BY <2>3, <2>4
  <2>6. spi'.prog \in [Scheduled(spi.pool) -> SpiProgs]
    BY <1>1, <1>7, <2>2
  <2>. QED
    BY <2>3, <2>5, <2>6
<1>10. PoolInv(spi'.pool) /\ Scheduled(spi'.pool) = Scheduled(spi.pool)
  <2>1. PoolInv(spi'.pool)
    <3>1. PoolInv(spi.pool) /\ spi.pool.cur # NoXfr /\ last \in BOOLEAN /\ spi'.pool = Transmit(spi.pool, last)
      BY <1>1, <1>2, <1>5, <1>7
    <3>. HIDE DEF last
    <3>. QED
      BY <3>1, TransmitInv
  <2>2. Scheduled(Transmit(spi.pool, last)) = Scheduled(spi.pool)
    BY <1>1 DEF Transmit, Scheduled, PoolInv, PoolRecords
  <2>. QED
    BY <1>7, <2>1, <2>2
<1>11. SpiShape(spi')
  <2>1. spi'.free \in Nat /\ spi'.buf \in Seq(SpiUnits)
    BY <1>1, <1>5, <1>6, <1>7
  <2>2. \A y \in Scheduled(spi.pool) :
          spi'.prog[y].si <= spi'.prog[y].fi /\ spi'.prog[y].fi <= spi'.prog[y].sc /\ 0 < spi'.prog[y].sc
    <3>1. ASSUME NEW y \in Scheduled(spi.pool), y # cur
          PROVE  spi'.prog[y].si <= spi'.prog[y].fi /\ spi'.prog[y].fi <= spi'.prog[y].sc /\ 0 < spi'.prog[y].sc
      BY <1>1, <1>9, <3>1 DEF SpiShape
    <3>2. p.si <= p.fi + cnt /\ p.fi + cnt <= p.sc /\ 0 < p.sc
      <4>. HIDE DEF p
      <4>. QED
        BY <1>4, <1>5
    <3>. QED
      BY <1>9, <3>1, <3>2
  <2>. QED
    BY <1>1, <1>7, <1>9, <1>10, <2>1, <2>2 DEF SpiShape
<1>12. SpiFlight \in Seq(SpiUnits) /\ SpiFlight' = Append(SpiFlight, u)
  <2>1. Flight("spi", rsp, Append(spi.buf, u)) = Append(Flight("spi", rsp, spi.buf), u)
    BY <1>1, <1>6, DeliveredFacts
  <2>. QED
    BY <1>1, <1>2, <1>7, <2>1, SpiFlightFacts DEF SpiFlight
<1>13. SpiFlow(spi', SpiFlight', rx)
  <2>1. SpiFlow(spi, SpiFlight, rx)
    BY DEF SpiInv
  <2>. QED
    BY <1>1, <1>2, <1>5, <1>6, <1>7, <1>8, <1>9, <1>12, <2>1, SpiSend
<1>14. infoRead /\ spi'.free + SpiTaken(SpiFlight') = SpiLen
  <2>1. infoRead
    BY <1>1, <1>2 DEF SpiInv
  <2>2. SpiTaken(SpiFlight') = SpiTaken(SpiFlight) + Cost(cnt) /\ SpiTaken(SpiFlight) \in Nat
    BY <1>6, <1>8, <1>12, SpiTakenFacts
  <2>3. spi.free + SpiTaken(SpiFlight) = SpiLen
    BY <2>1 DEF SpiInv
  <2>. QED
    BY <1>1, <1>5, <1>7, <2>1, <2>2, <2>3
<1>. QED
  BY <1>2, <1>11, <1>13, <1>14 DEF SpiInv, Is_Detached

LEMMA SpiRspKeeps ==
  ASSUME NEW U, Delivers(U, "spi", SpiUnits), rsp \in Seq(U), SpiInv, ~Is_Detached, SPI_Rx_Rsp
  PROVE  SpiInv' /\ pc' = pc
<1>. DEFINE r    == Head(rsp)
            x    == Head(spi.pool.sched)
            p    == spi.prog[x]
            free == spi.free + Cost(r.cnt)
            si   == p.si + r.cnt
            f    == SpiFlight
<1>1. SpiShape(spi) /\ PoolInv(spi.pool) /\ DOMAIN spi = {"pool", "prog", "free", "buf", "on"}
      /\ spi.free \in Nat /\ spi.buf \in Seq(SpiUnits) /\ spi.prog \in [Scheduled(spi.pool) -> SpiProgs]
  BY DEF SpiInv, SpiShape
<1>2. rsp # <<>> /\ r.k = "spi" /\ rx.k # "spi" /\ UNCHANGED <<conn, infoRead>> /\ rsp' = Tail(rsp)
  BY DEF SPI_Rx_Rsp, AtReply, Packet, RxRsp
<1>3. /\ f \in Seq(SpiUnits) /\ f # <<>> /\ Head(f) = r /\ r \in SpiUnits
      /\ Flight("spi", Tail(rsp), spi.buf) = Tail(f)
  BY <1>1, <1>2, DeliveredHead, SpiFlightFacts DEF SpiFlight
<1>4. SpiFlow(spi, f, rx)
  BY DEF SpiInv
<1>5. spi.pool.sched # <<>> /\ r.x = x /\ p.ss = r.ss /\ si <= p.fi /\ x \in Scheduled(spi.pool)
  <2>1. x \in Scheduled(spi.pool)
    BY <1>1, <1>2, <1>3, <1>4, SpiReplyFits, ListFacts
  <2>. HIDE DEF f
  <2>. QED
    BY <1>1, <1>2, <1>3, <1>4, <2>1, SpiReplyFits
<1>6. r.cnt \in Nat /\ r.last \in BOOLEAN /\ Cost(r.cnt) \in Nat /\ p \in SpiProgs /\ p.si \in Nat
  <2>1. r.cnt \in Nat /\ r.last \in BOOLEAN /\ p \in SpiProgs
    BY <1>1, <1>3, <1>5 DEF SpiUnits
  <2>2. p.si \in Nat
    BY <2>1 DEF SpiProgs
  <2>. QED
    BY <2>1, <2>2 DEF Cost
<1>7. infoRead /\ free + SpiTaken(Tail(f)) = SpiLen /\ free \in Nat /\ free <= SpiLen
  <2>1. infoRead
    BY <1>3 DEF SpiInv
  <2>2. SpiTaken(f) = Cost(r.cnt) + SpiTaken(Tail(f)) /\ SpiTaken(Tail(f)) \in Nat
    <3>1. Tail(f) \in Seq(SpiUnits)
      BY <1>3
    <3>. QED
      BY <1>3, <3>1, SpiTakenFacts
  <2>3. spi.free + SpiTaken(f) = SpiLen
    BY <2>1 DEF SpiInv
  <2>. HIDE DEF f, r
  <2>. QED
    BY <1>1, <1>6, <2>1, <2>2, <2>3, SpiAssumption
<1>8. spi.pool.sched # <<>> /\ p.ss = r.ss /\ free <= SpiLen
  BY <1>5, <1>7
<1>9. ASSUME SpiShape(spi'), spi'.free = free, spi'.buf = spi.buf, SpiFlow(spi', Tail(f), rx') PROVE SpiInv'
  <2>1. SpiFlight' = Tail(f)
    BY <1>2, <1>3, <1>9 DEF SpiFlight
  <2>. QED
    BY <1>2, <1>7, <1>9, <2>1 DEF SpiInv, Is_Detached
<1>10. CASE ~r.skipped
  <2>1. /\ spi' = [spi EXCEPT !.free = free]
        /\ rx' = [k |-> "spi", left |-> r.cnt, last |-> r.last] /\ pc' = pc
    BY <1>8, <1>10 DEF SPI_Rx_Rsp, Packet
  <2>. HIDE DEF f, free, r
  <2>2. /\ spi'.pool = spi.pool /\ spi'.prog = spi.prog /\ spi'.free = free /\ spi'.buf = spi.buf
        /\ spi'.on = spi.on /\ DOMAIN spi' = DOMAIN spi
    BY <1>1, <2>1
  <2>3. PoolInv(spi'.pool) /\ Alike(spi.pool, spi'.pool)
    BY <1>1, <2>2 DEF Alike
  <2>4. SpiShape(spi')
    BY <1>1, <1>7, <2>2, <2>3, SpiShapeAlike
  <2>5. SpiFlow(spi', Tail(f), rx')
    BY <1>1, <1>2, <1>3, <1>4, <1>10, <2>1, <2>2, SpiReplyRead
  <2>. QED
    BY <1>9, <2>1, <2>2, <2>4, <2>5
<1>11. CASE r.skipped
  <2>. DEFINE s == [spi EXCEPT !.free = free, !.prog[x].si = si, !.prog[x].skipped = TRUE]
  <2>1. /\ spi' = IF si = p.fi THEN SpiDone(s, x) ELSE s
        /\ rx' = RxRsp /\ pc' = pc
    BY <1>5, <1>8, <1>11 DEF SPI_Rx_Rsp, Packet
  <2>. DEFINE q == [p EXCEPT !.si = si, !.skipped = TRUE]
  <2>2. /\ s.pool = spi.pool /\ s.free = free /\ s.buf = spi.buf /\ s.on = spi.on /\ DOMAIN s = DOMAIN spi
        /\ s.prog = [spi.prog EXCEPT ![x] = q]
    BY <1>1, <1>5, <1>6 DEF SpiProgs
  <2>3. q \in SpiProgs /\ q.si = si /\ q.fi = p.fi /\ q.sc = p.sc /\ q.ss = p.ss /\ q.skipped
    <3>1. si \in Nat
      BY <1>6
    <3>. HIDE DEF p, si
    <3>. QED
      BY <1>6, <3>1 DEF SpiProgs
  <2>. HIDE DEF q, s, free, f, r
  <2>4. /\ s.prog[x] = q /\ \A y \in Scheduled(spi.pool) \ {x} : s.prog[y] = spi.prog[y]
        /\ s.prog \in [Scheduled(spi.pool) -> SpiProgs]
    BY <1>1, <1>5, <2>2, <2>3
  <2>5. SpiShape(s)
    <3>1. \A y \in Scheduled(spi.pool) \ {x} :
            s.prog[y].si <= s.prog[y].fi /\ s.prog[y].fi <= s.prog[y].sc /\ 0 < s.prog[y].sc
      BY <1>1, <2>4 DEF SpiShape
    <3>2. s.prog[x].si <= s.prog[x].fi /\ s.prog[x].fi <= s.prog[x].sc /\ 0 < s.prog[x].sc
      <4>1. p.fi <= p.sc /\ 0 < p.sc
        BY <1>1, <1>5 DEF SpiShape
      <4>. HIDE DEF p, x, si
      <4>. QED
        BY <1>5, <2>3, <2>4, <4>1
    <3>3. s.free \in Nat /\ s.buf \in Seq(SpiUnits) /\ PoolInv(s.pool)
      BY <1>1, <1>7, <2>2
    <3>. QED
      BY <1>1, <2>2, <2>4, <3>1, <3>2, <3>3 DEF SpiShape
  <2>6. CASE si # p.fi
    <3>1. spi' = s
      BY <2>1, <2>6
    <3>2. SpiFlow(s, Tail(f), RxRsp)
      <4>1. RxRsp.k # "spi"
        BY DEF RxRsp
      <4>. QED
        BY <1>1, <1>2, <1>3, <1>4, <1>11, <2>2, <2>3, <2>4, <2>6, <4>1, SpiReplySkipped
    <3>. QED
      BY <1>9, <2>1, <2>2, <2>5, <3>1, <3>2
  <2>7. CASE si = p.fi
    <3>1. spi' = SpiDone(s, x)
      BY <2>1, <2>7
    <3>2. /\ spi'.pool = Complete(spi.pool, x) /\ spi'.prog = Without(s.prog, x) /\ spi'.free = free
          /\ spi'.buf = spi.buf /\ spi'.on = spi.on /\ DOMAIN spi' = DOMAIN spi
      <4>1. DOMAIN s = {"pool", "prog", "free", "buf", "on"}
        BY <1>1, <2>2
      <4>. QED
        BY <2>2, <3>1, <4>1 DEF SpiDone
    <3>3. PoolInv(spi'.pool) /\ Alike(Complete(s.pool, x), spi'.pool)
      <4>1. PoolInv(Complete(spi.pool, x))
        BY <1>1, <1>5, CompleteFacts
      <4>. QED
        BY <2>2, <3>2, <4>1 DEF Alike
    <3>4. SpiShape(spi')
      BY <1>1, <1>5, <1>7, <2>2, <2>5, <3>2, <3>3, SpiShapeLess
    <3>5. SpiFlow(spi', Tail(f), RxRsp)
      <4>1. RxRsp.k # "spi"
        BY DEF RxRsp
      <4>2. \A y \in Scheduled(spi.pool) \ {x} : spi'.prog[y] = spi.prog[y]
        BY <2>4, <3>2 DEF Without
      <4>. QED
        BY <1>1, <1>2, <1>3, <1>4, <1>11, <2>7, <3>2, <4>1, <4>2, SpiReplyEnds
    <3>. QED
      BY <1>9, <2>1, <3>2, <3>4, <3>5
  <2>. QED
    BY <2>6, <2>7
<1>. QED
  BY <1>10, <1>11

LEMMA SpiByteKeeps ==
  ASSUME NEW U, Delivers(U, "spi", SpiUnits), rsp \in Seq(U), SpiInv, ~Is_Detached, SPI_Rx_Byte
  PROVE  SpiInv' /\ pc' = pc
<1>. DEFINE x    == Head(spi.pool.sched)
            p    == spi.prog[x]
            last == rx.left = 1 /\ rx.last
            f    == SpiFlight
<1>1. SpiShape(spi) /\ PoolInv(spi.pool) /\ DOMAIN spi = {"pool", "prog", "free", "buf", "on"}
      /\ spi.free \in Nat /\ spi.buf \in Seq(SpiUnits) /\ spi.prog \in [Scheduled(spi.pool) -> SpiProgs]
  BY DEF SpiInv, SpiShape
<1>2. rx.k = "spi" /\ UNCHANGED <<conn, infoRead, rsp>>
  BY DEF SPI_Rx_Byte, AtByte, DataByte
<1>3. f \in Seq(SpiUnits) /\ SpiFlow(spi, f, rx)
  BY <1>1, SpiFlightFacts DEF SpiInv
<1>4. /\ spi.pool.sched # <<>> /\ x \in Scheduled(spi.pool) /\ rx.left \in Nat /\ 0 < rx.left /\ rx.last \in BOOLEAN
      /\ ~p.skipped /\ p.si + rx.left + Bytes(f, x) = p.fi /\ (~last => p.si + 1 < p.sc)
  BY <1>1, <1>2, <1>3, SpiByteFits
<1>5. /\ rx' = IF rx.left = 1 THEN RxRsp ELSE [rx EXCEPT !.left = @ - 1]
      /\ spi' = IF last THEN SpiDone(spi, x) ELSE [spi EXCEPT !.prog[x].si = @ + 1]
      /\ pc' = pc
  BY <1>4 DEF SPI_Rx_Byte, DataByte
<1>. HIDE DEF f
<1>6. ASSUME SpiShape(spi'), spi'.free = spi.free, spi'.buf = spi.buf, SpiFlow(spi', f, rx') PROVE SpiInv'
  <2>1. SpiFlight' = f
    BY <1>2, <1>6 DEF SpiFlight, f
  <2>. QED
    BY <1>2, <1>6, <2>1 DEF SpiInv, Is_Detached, f
<1>7. RxRsp.k # "spi"
  BY DEF RxRsp
<1>8. CASE last
  <2>1. /\ spi'.pool = Complete(spi.pool, x) /\ spi'.prog = Without(spi.prog, x) /\ spi'.free = spi.free
        /\ spi'.buf = spi.buf /\ spi'.on = spi.on /\ DOMAIN spi' = DOMAIN spi /\ rx' = RxRsp
    BY <1>1, <1>5, <1>8 DEF SpiDone
  <2>2. PoolInv(spi'.pool) /\ Alike(Complete(spi.pool, x), spi'.pool)
    <3>1. PoolInv(Complete(spi.pool, x))
      BY <1>1, <1>4, CompleteFacts
    <3>. QED
      BY <2>1, <3>1 DEF Alike
  <2>3. SpiShape(spi')
    BY <1>1, <1>4, <2>1, <2>2, SpiShapeLess
  <2>4. \A y \in Scheduled(spi.pool) \ {x} : spi'.prog[y] = spi.prog[y]
    BY <1>1, <2>1 DEF Without
  <2>5. SpiFlow(spi', f, rx')
    BY <1>1, <1>2, <1>3, <1>7, <1>8, <2>1, <2>4, SpiByteEnds
  <2>. QED
    BY <1>5, <1>6, <2>1, <2>3, <2>5
<1>9. CASE ~last
  <2>. DEFINE q == [p EXCEPT !.si = @ + 1]
  <2>1. /\ spi'.pool = spi.pool /\ spi'.free = spi.free /\ spi'.buf = spi.buf /\ spi'.on = spi.on
        /\ DOMAIN spi' = DOMAIN spi /\ spi'.prog = [spi.prog EXCEPT ![x] = q]
    BY <1>1, <1>4, <1>5, <1>9
  <2>2. p \in SpiProgs /\ p.si \in Nat /\ p.fi \in Nat /\ p.sc \in Nat /\ p.fi <= p.sc /\ 0 < p.sc /\ Bytes(f, x) \in Nat
    <3>1. p \in SpiProgs /\ p.si \in Nat /\ p.fi \in Nat /\ p.sc \in Nat
      BY <1>1, <1>4 DEF SpiProgs
    <3>2. p.fi <= p.sc /\ 0 < p.sc
      BY <1>1, <1>4 DEF SpiShape
    <3>3. Bytes(f, x) \in Nat
      BY <1>3, SpiBytes
    <3>. QED
      BY <3>1, <3>2, <3>3
  <2>3. q \in SpiProgs /\ q.si = p.si + 1 /\ q.fi = p.fi /\ q.sc = p.sc /\ q.ss = p.ss /\ q.skipped = p.skipped
    <3>1. p.si + 1 \in Nat
      BY <2>2
    <3>. HIDE DEF p
    <3>. QED
      BY <2>2, <3>1 DEF SpiProgs
  <2>. HIDE DEF q
  <2>4. /\ spi'.prog[x] = q /\ \A y \in Scheduled(spi.pool) \ {x} : spi'.prog[y] = spi.prog[y]
        /\ spi'.prog \in [Scheduled(spi.pool) -> SpiProgs]
    BY <1>1, <1>4, <2>1, <2>3
  <2>5. SpiShape(spi')
    <3>1. \A y \in Scheduled(spi.pool) \ {x} :
            spi'.prog[y].si <= spi'.prog[y].fi /\ spi'.prog[y].fi <= spi'.prog[y].sc /\ 0 < spi'.prog[y].sc
      BY <1>1, <2>4 DEF SpiShape
    <3>2. q.si <= q.fi /\ q.fi <= q.sc /\ 0 < q.sc
      <4>. HIDE DEF p, x
      <4>. QED
        BY <1>4, <2>2, <2>3
    <3>. QED
      BY <1>1, <2>1, <2>4, <3>1, <3>2 DEF SpiShape
  <2>6. SpiFlow(spi', f, rx')
    <3>1. IF rx.left = 1 THEN rx'.k # "spi" ELSE rx' = [rx EXCEPT !.left = @ - 1]
      BY <1>5, <1>7
    <3>. QED
      BY <1>1, <1>2, <1>3, <1>9, <2>1, <2>3, <2>4, <3>1, SpiByteRead
  <2>. QED
    BY <1>5, <1>6, <2>1, <2>5, <2>6
<1>. QED
  BY <1>8, <1>9

LEMMA SpiDeviceKeeps ==
  ASSUME NEW U, Delivers(U, "spi", SpiUnits), rsp \in Seq(U), SpiInv, SpiDevice
  PROVE  SpiInv'
<1>1. SpiShape(spi) /\ PoolInv(spi.pool) /\ DOMAIN spi = {"pool", "prog", "free", "buf", "on"}
      /\ spi.free \in Nat /\ spi.buf \in Seq(SpiUnits)
  BY DEF SpiInv, SpiShape
<1>2. /\ spi'.pool = spi.pool /\ spi'.prog = spi.prog /\ spi'.free = spi.free /\ spi'.buf = Tail(spi.buf)
      /\ spi'.on = spi.on /\ DOMAIN spi' = DOMAIN spi /\ spi.buf # <<>>
      /\ rsp' = Append(rsp, Head(spi.buf)) /\ UNCHANGED <<conn, infoRead, rx>>
  BY <1>1 DEF SpiDevice, Replies
<1>3. PoolInv(spi'.pool) /\ Alike(spi.pool, spi'.pool) /\ spi'.buf \in Seq(SpiUnits)
  BY <1>1, <1>2 DEF Alike
<1>4. SpiShape(spi')
  BY <1>1, <1>2, <1>3, SpiShapeAlike
<1>5. SpiFlight' = SpiFlight
  BY <1>1, <1>2, DeliveredFacts DEF SpiFlight
<1>6. SpiFlow(spi, SpiFlight, rx) => SpiFlow(spi', SpiFlight, rx)
  BY <1>1, <1>2, <1>3, SpiAlike
<1>. QED
  BY <1>2, <1>4, <1>5, <1>6 DEF SpiInv, Is_Detached

LEMMA SpiUserKeeps ==
  ASSUME NEW U, Delivers(U, "spi", SpiUnits), rsp \in Seq(U), SpiInv, ~Reenable, SpiUser
  PROVE  SpiInv'
<1>1. ASSUME NEW x \in Xfrs, SPI_Xfr_Create(x) PROVE SpiInv'
  BY <1>1, SpiCreateKeeps
<1>2. ASSUME NEW x \in Xfrs, SPI_Xfr_Cancel(x) PROVE SpiInv'
  BY <1>2, SpiCancelKeeps
<1>3. ASSUME NEW x \in Xfrs, SPI_Xfr_Destroy(x) PROVE SpiInv'
  BY <1>3, SpiDestroyKeeps
<1>4. ASSUME NEW x \in Xfrs, NEW sc \in SpiSizes, NEW ss \in SpiSelects, SPI_Xfr_Schedule(x, sc, ss) PROVE SpiInv'
  BY <1>4, SpiScheduleKeeps
<1>5. SPI_Enable \/ SPI_Disable => SpiInv'
  BY SpiEnableKeeps, SpiDisableKeeps
<1>. QED
  BY <1>1, <1>2, <1>3, <1>4, <1>5 DEF SpiUser

\* The device is lost: every transfer ends, whatever was on its way.
LEMMA SpiEndsAll ==
  ASSUME SpiInv, spi' = SPI_Complete_All_Xfrs(spi), Is_Detached', UNCHANGED <<infoRead, rsp>>
  PROVE  SpiInv'
<1>1. SpiShape(spi) /\ PoolInv(spi.pool) /\ DOMAIN spi = {"pool", "prog", "free", "buf", "on"}
      /\ spi.free \in Nat /\ spi.buf \in Seq(SpiUnits)
  BY DEF SpiInv, SpiShape
<1>2. /\ spi'.pool = CompleteAll(spi.pool) /\ spi'.prog = << >> /\ spi'.free = spi.free /\ spi'.buf = spi.buf
      /\ DOMAIN spi' = DOMAIN spi
  BY <1>1 DEF SPI_Complete_All_Xfrs
<1>3. PoolInv(spi'.pool) /\ Scheduled(spi'.pool) = {}
  <2>1. PoolInv(spi'.pool) /\ InList(spi'.pool) = {}
    BY <1>1, <1>2, CompleteAllInv
  <2>. QED
    BY <2>1 DEF PoolInv, ListInv
<1>4. spi'.prog \in [{} -> SpiProgs]
  BY <1>2
<1>5. SpiShape(spi')
  BY <1>1, <1>2, <1>3, <1>4 DEF SpiShape
<1>6. SpiFlight' = SpiFlight
  BY <1>2 DEF SpiFlight
<1>. QED
  BY <1>2, <1>5, <1>6 DEF SpiInv

\* The device says how long its buffer is, which is empty.
LEMMA SpiInfoKeeps ==
  ASSUME NEW U, Delivers(U, "spi", SpiUnits), rsp \in Seq(U), SpiInv, ~infoRead, infoRead',
         rsp # <<>>, Head(rsp).k # "spi", rsp' = Tail(rsp), spi' = [spi EXCEPT !.free = SpiLen], UNCHANGED <<conn, rx>>
  PROVE  SpiInv'
<1>1. SpiShape(spi) /\ PoolInv(spi.pool) /\ DOMAIN spi = {"pool", "prog", "free", "buf", "on"}
      /\ spi.free \in Nat /\ spi.buf \in Seq(SpiUnits)
  BY DEF SpiInv, SpiShape
<1>2. /\ spi'.pool = spi.pool /\ spi'.prog = spi.prog /\ spi'.free = SpiLen /\ spi'.buf = spi.buf
      /\ spi'.on = spi.on /\ DOMAIN spi' = DOMAIN spi
  BY <1>1
<1>3. PoolInv(spi'.pool) /\ Alike(spi.pool, spi'.pool) /\ SpiLen \in Nat
  BY <1>1, <1>2, SpiAssumption DEF Alike
<1>4. SpiShape(spi')
  BY <1>1, <1>2, <1>3, SpiShapeAlike
<1>5. SpiFlight' = SpiFlight /\ SpiFlight = <<>>
  <2>1. OfKind("spi", Tail(rsp)) = OfKind("spi", rsp)
    BY <1>1, DeliveredHead
  <2>. QED
    BY <1>2, <2>1 DEF SpiFlight, Flight, SpiInv
<1>6. SpiFlow(spi, SpiFlight, rx) => SpiFlow(spi', SpiFlight, rx)
  BY <1>1, <1>2, <1>3, SpiAlike
<1>7. SpiTaken(<<>>) = 0
  <2>1. <<>> \in Seq(SpiUnits)
    OBVIOUS
  <2>. QED
    BY <2>1, SpiTakenFacts
<1>. QED
  BY <1>2, <1>3, <1>4, <1>5, <1>6, <1>7 DEF SpiInv, Is_Detached

\* At the start, and when the library is destroyed.
LEMMA SpiEmpty ==
  ASSUME NEW s, s = SpiClear, NEW r, r = RxRsp
  PROVE  SpiShape(s) /\ SpiFlow(s, <<>>, r) /\ Flight("spi", <<>>, s.buf) = <<>> /\ s.free = 0
<1>1. PoolInv(EmptyPool) /\ Scheduled(EmptyPool) = {} /\ EmptyPool.active = {} /\ EmptyPool.sched = <<>>
  BY EmptyInv DEF PoolInv, ListInv, EmptyPool
<1>2. SpiShape(s)
  <2>1. s.prog \in [{} -> SpiProgs] /\ s.free \in Nat /\ s.buf \in Seq(SpiUnits)
    BY DEF SpiClear
  <2>. QED
    BY <1>1, <2>1 DEF SpiClear, SpiShape
<1>3. SpiFlow(s, <<>>, r)
  BY <1>1 DEF SpiClear, SpiFlow, Fed, SpiOrder, SpiReads, RxRsp
<1>4. OfKind("spi", <<>>) = <<>>
  BY EmptyOfKind
<1>. QED
  BY <1>2, <1>3, <1>4 DEF SpiClear, Flight

\* What a step of another interface leaves alone.
LEMMA SpiForeign ==
  ASSUME SpiInv, spi' = spi, OfKind("spi", rsp') = OfKind("spi", rsp), infoRead' = infoRead,
         Is_Detached => Is_Detached', rx' = rx \/ (rx.k # "spi" /\ rx'.k # "spi")
  PROVE  SpiInv'
<1>1. SpiFlight' = SpiFlight
  BY DEF SpiFlight, Flight
<1>2. ASSUME NEW f, NEW r, NEW q, r.k # "spi", q.k # "spi", SpiFlow(spi, f, r) PROVE SpiFlow(spi, f, q)
  <2>1. \A x : ~Reads(q, "spi", spi, x) /\ Left(q, "spi", spi, x) = 0 /\ ~Reads(r, "spi", spi, x) /\ Left(r, "spi", spi, x) = 0
    BY <1>2 DEF Reads, Left
  <2>2. \A x \in Scheduled(spi.pool) : SpiAbout(spi, f, q, x)
    <3>1. TAKE x \in Scheduled(spi.pool)
    <3>2. SpiAbout(spi, f, r, x)
      BY <1>2 DEF SpiFlow
    <3>. QED
      BY <1>2, <2>1, <3>2 DEF SpiAbout
  <2>. QED
    BY <1>2, <2>2 DEF SpiFlow, SpiReads
<1>3. ~Is_Detached' => SpiFlow(spi', SpiFlight', rx')
  <2>1. ASSUME ~Is_Detached' PROVE SpiFlow(spi, SpiFlight, rx')
    <3>1. SpiFlow(spi, SpiFlight, rx)
      BY <2>1 DEF SpiInv
    <3>2. CASE rx' = rx
      BY <3>1, <3>2
    <3>3. CASE rx' # rx
      BY <1>2, <3>1, <3>3
    <3>. QED
      BY <3>2, <3>3
  <2>. QED
    BY <1>1, <2>1
<1>. QED
  BY <1>1, <1>3 DEF SpiInv

-----------------------------------------------------------------------------
(* The steps of GPIO. *)

GpioFlight == Flight("gpio", rsp, OfKind("gpio", imm))

GpioInv ==
  /\ GpioShape(gpio)
  /\ ~Is_Detached => GpioFlow(gpio, GpioFlight)
  /\ conn = "connecting" => gpio.pool.sched = <<>> /\ GpioFlight = <<>>

LEMMA GpioFlightFacts ==
  ASSUME NEW U, Delivers(U, "gpio", GpioUnits), rsp \in Seq(U), imm \in Seq(U)
  PROVE  /\ GpioFlight \in Seq(GpioUnits) /\ OfKind("gpio", imm) \in Seq(GpioUnits)
         /\ \A n \in 1..Len(GpioFlight) : GpioFlight[n].x \in Xfrs
<1>1. OfKind("gpio", imm) \in Seq(GpioUnits)
  <2>1. <<>> \in Seq(GpioUnits)
    OBVIOUS
  <2>. QED
    BY <2>1, DeliveredFacts
<1>2. GpioFlight \in Seq(GpioUnits)
  <2>1. ASSUME NEW b \in Seq(GpioUnits) PROVE Flight("gpio", rsp, b) \in Seq(GpioUnits)
    BY DeliveredFacts
  <2>. QED
    BY <1>1, <2>1 DEF GpioFlight
<1>3. \A n \in 1..Len(GpioFlight) : GpioFlight[n] \in GpioUnits
  BY <1>2
<1>. QED
  BY <1>1, <1>2, <1>3 DEF GpioUnits

LEMMA GpioCallKeeps ==
  ASSUME GpioInv, GpioShape(gpio'), UNCHANGED linkVars, conn = "connecting" => gpio'.pool.sched = <<>>,
         GpioFlow(gpio, GpioFlight) => GpioFlow(gpio', GpioFlight)
  PROVE  GpioInv'
<1>1. GpioFlight' = GpioFlight /\ conn' = conn
  BY DEF GpioFlight, linkVars
<1>. QED
  BY <1>1 DEF GpioInv, Is_Detached

\* A transfer leaves a list that is empty while the device is not connected.
LEMMA GpioCancels ==
  ASSUME NEW U, Delivers(U, "gpio", GpioUnits), rsp \in Seq(U), imm \in Seq(U), GpioInv, UNCHANGED linkVars,
         NEW x \in gpio.pool.held, Cancels(gpio.pool, x),
         DOMAIN gpio' = DOMAIN gpio, PoolInv(gpio'.pool), Alike(Complete(gpio.pool, x), gpio'.pool),
         gpio'.pin = Without(gpio.pin, x)
  PROVE  GpioInv'
<1>1. GpioShape(gpio) /\ PoolInv(gpio.pool)
  BY DEF GpioInv, GpioShape
<1>2. x \in Scheduled(gpio.pool) /\ x \notin gpio.pool.active
  BY <1>1, CancelsFacts
<1>3. conn # "connecting"
  BY <1>1, <1>2, ListFacts DEF GpioInv
<1>4. GpioShape(gpio') /\ (GpioFlow(gpio, GpioFlight) => GpioFlow(gpio', GpioFlight))
  BY <1>1, <1>2, GpioFlightFacts, GpioCancel
<1>. QED
  BY <1>3, <1>4, GpioCallKeeps

LEMMA GpioUserKeeps ==
  ASSUME NEW U, Delivers(U, "gpio", GpioUnits), rsp \in Seq(U), imm \in Seq(U), GpioInv, ~GpioEarly, GpioUser
  PROVE  GpioInv'
<1>1. GpioShape(gpio) /\ PoolInv(gpio.pool) /\ DOMAIN gpio = {"pool", "pin"}
      /\ (conn = "connecting" => gpio.pool.sched = <<>>)
  BY DEF GpioInv, GpioShape
<1>2. ASSUME NEW x \in Xfrs, GPIO_Xfr_Create(x) PROVE GpioInv'
  <2>1. /\ gpio'.pool = Create(gpio.pool, x) /\ CanCreate(gpio.pool, x) /\ gpio'.pin = gpio.pin
        /\ DOMAIN gpio' = DOMAIN gpio /\ UNCHANGED linkVars
    BY <1>1, <1>2 DEF GPIO_Xfr_Create, Called
  <2>2. PoolInv(gpio'.pool) /\ Alike(gpio.pool, gpio'.pool)
    BY <1>1, <2>1, CreateInv, CreateAlike
  <2>3. GpioShape(gpio') /\ (GpioFlow(gpio, GpioFlight) => GpioFlow(gpio', GpioFlight))
    BY <1>1, <2>1, <2>2, GpioAlike
  <2>. QED
    BY <1>1, <2>1, <2>2, <2>3, GpioCallKeeps DEF Alike
<1>3. ASSUME NEW x \in Xfrs, NEW pin \in GpioPins, GPIO_Xfr_Schedule(x, pin) PROVE GpioInv'
  <2>1. /\ gpio'.pool = Schedule(gpio.pool, x) /\ CanSchedule(gpio.pool, x)
        /\ gpio'.pin = [y \in DOMAIN gpio.pin \cup {x} |-> IF y = x THEN pin ELSE gpio.pin[y]]
        /\ DOMAIN gpio' = DOMAIN gpio /\ UNCHANGED linkVars /\ conn # "connecting"
    BY <1>1, <1>3 DEF GPIO_Xfr_Schedule, Called
  <2>2. GpioShape(gpio') /\ (GpioFlow(gpio, GpioFlight) => GpioFlow(gpio', GpioFlight))
    BY <1>1, <2>1, GpioFlightFacts, GpioSchedule
  <2>. QED
    BY <2>1, <2>2, GpioCallKeeps
<1>4. ASSUME NEW x \in Xfrs, GPIO_Xfr_Cancel(x) PROVE GpioInv'
  <2>1. x \in gpio.pool.held /\ UNCHANGED linkVars
    BY <1>4 DEF GPIO_Xfr_Cancel, Called
  <2>2. CASE Cancels(gpio.pool, x)
    <3>1. /\ gpio'.pool = Complete(gpio.pool, x) /\ gpio'.pin = Without(gpio.pin, x) /\ DOMAIN gpio' = DOMAIN gpio
      BY <1>1, <1>4, <2>2 DEF GPIO_Xfr_Cancel, GPIO_Xfr_Complete
    <3>2. PoolInv(gpio'.pool) /\ Alike(Complete(gpio.pool, x), gpio'.pool)
      BY <1>1, <2>1, <2>2, <3>1, CancelsFacts DEF Alike
    <3>. QED
      BY <2>1, <2>2, <3>1, <3>2, GpioCancels
  <2>3. CASE ~Cancels(gpio.pool, x)
    <3>1. gpio' = gpio
      BY <1>4, <2>3 DEF GPIO_Xfr_Cancel
    <3>. QED
      BY <1>1, <2>1, <3>1, GpioCallKeeps
  <2>. QED
    BY <2>2, <2>3
<1>5. ASSUME NEW x \in Xfrs, GPIO_Xfr_Destroy(x) PROVE GpioInv'
  <2>1. /\ gpio'.pool = Destroy(gpio.pool, x) /\ x \in gpio.pool.held /\ DOMAIN gpio' = DOMAIN gpio
        /\ gpio'.pin = (IF Cancels(gpio.pool, x) THEN Without(gpio.pin, x) ELSE gpio.pin) /\ UNCHANGED linkVars
    BY <1>1, <1>5 DEF GPIO_Xfr_Destroy, Called
  <2>2. /\ PoolInv(gpio'.pool)
        /\ Cancels(gpio.pool, x) => Alike(Complete(gpio.pool, x), gpio'.pool)
        /\ ~Cancels(gpio.pool, x) => Alike(gpio.pool, gpio'.pool)
    BY <1>1, <2>1, DestroyInv, DestroyAlike
  <2>3. CASE Cancels(gpio.pool, x)
    BY <2>1, <2>2, <2>3, GpioCancels
  <2>4. CASE ~Cancels(gpio.pool, x)
    <3>1. GpioShape(gpio') /\ (GpioFlow(gpio, GpioFlight) => GpioFlow(gpio', GpioFlight))
      BY <1>1, <2>1, <2>2, <2>4, GpioAlike
    <3>. QED
      BY <1>1, <2>1, <2>2, <2>4, <3>1, GpioCallKeeps DEF Alike
  <2>. QED
    BY <2>3, <2>4
<1>. QED
  BY <1>2, <1>3, <1>4, <1>5 DEF GpioUser

LEMMA GpioTxKeeps ==
  ASSUME NEW U, Delivers(U, "gpio", GpioUnits), rsp \in Seq(U), imm \in Seq(U), GpioInv, ~Is_Detached, GPIO_Tx
  PROVE  GpioInv' /\ imm' \in Seq(U)
<1>. DEFINE u == [k |-> "gpio", x |-> gpio.pool.cur, pin |-> gpio.pin[gpio.pool.cur]]
<1>1. GpioShape(gpio) /\ PoolInv(gpio.pool) /\ DOMAIN gpio = {"pool", "pin"}
  BY DEF GpioInv, GpioShape
<1>2. /\ gpio'.pool = Transmit(gpio.pool, TRUE) /\ gpio'.pin = gpio.pin /\ DOMAIN gpio' = DOMAIN gpio
      /\ gpio.pool.cur # NoXfr /\ imm' = Append(imm, u) /\ UNCHANGED <<conn, rsp>>
  BY <1>1 DEF GPIO_Tx, GpioCanSend
<1>3. /\ u \in GpioUnits /\ GpioShape(gpio')
      /\ \A f \in Seq(GpioUnits) : GpioFlow(gpio, f) => GpioFlow(gpio', Append(f, u))
  BY <1>1, <1>2, GpioSend
<1>4. conn # "connecting"
  BY <1>1, <1>2, ListFacts DEF GpioInv
<1>. HIDE DEF u
<1>5. u \in U /\ u.k = "gpio"
  BY <1>3 DEF Delivers
<1>6. GpioFlight' = Append(GpioFlight, u)
  <2>1. OfKind("gpio", Append(imm, u)) = IF u.k = "gpio" THEN Append(OfKind("gpio", imm), u) ELSE OfKind("gpio", imm)
    BY <1>5, OfKindAppend
  <2>2. Flight("gpio", rsp, Append(OfKind("gpio", imm), u)) = Append(Flight("gpio", rsp, OfKind("gpio", imm)), u)
    BY <1>3, GpioFlightFacts, DeliveredFacts
  <2>. QED
    BY <1>2, <1>5, <2>1, <2>2 DEF GpioFlight
<1>7. GpioFlow(gpio', GpioFlight')
  BY <1>3, <1>6, GpioFlightFacts DEF GpioInv
<1>8. imm' \in Seq(U)
  BY <1>2, <1>5
<1>. QED
  BY <1>2, <1>3, <1>4, <1>7, <1>8 DEF GpioInv

LEMMA GpioRxKeeps ==
  ASSUME NEW U, Delivers(U, "gpio", GpioUnits), rsp \in Seq(U), imm \in Seq(U), GpioInv, ~Is_Detached, GPIO_Rx
  PROVE  GpioInv' /\ pc' = pc
<1>. DEFINE x == Head(gpio.pool.sched)
            f == GpioFlight
<1>1. GpioShape(gpio) /\ PoolInv(gpio.pool) /\ DOMAIN gpio = {"pool", "pin"} /\ GpioFlow(gpio, f)
  BY DEF GpioInv, GpioShape
<1>2. rsp # <<>> /\ Head(rsp).k = "gpio" /\ UNCHANGED <<conn, imm>> /\ rsp' = Tail(rsp)
  BY DEF GPIO_Rx, AtReply, Packet
<1>3. /\ f \in Seq(GpioUnits) /\ f # <<>> /\ Head(f) = Head(rsp)
      /\ Flight("gpio", Tail(rsp), OfKind("gpio", imm)) = Tail(f)
  BY <1>2, DeliveredHead, GpioFlightFacts DEF GpioFlight
<1>. HIDE DEF f
<1>4. gpio.pool.sched # <<>> /\ gpio.pin[x] = Head(rsp).pin
  BY <1>1, <1>3, GpioReplyFits
<1>5. /\ gpio'.pool = Complete(gpio.pool, x) /\ gpio'.pin = Without(gpio.pin, x) /\ DOMAIN gpio' = DOMAIN gpio
      /\ pc' = pc
  BY <1>1, <1>4 DEF GPIO_Rx, Packet, GPIO_Xfr_Complete
<1>6. GpioShape(gpio') /\ GpioFlow(gpio', Tail(f))
  BY <1>1, <1>3, <1>4, <1>5, GpioReply
<1>7. GpioFlight' = Tail(f)
  BY <1>2, <1>3 DEF GpioFlight
<1>8. conn # "connecting"
  BY <1>4 DEF GpioInv
<1>. QED
  BY <1>2, <1>5, <1>6, <1>7, <1>8 DEF GpioInv

LEMMA GpioEndsAll ==
  ASSUME GpioInv, gpio' = GPIO_Complete_All_Xfrs(gpio), conn' = "disconnected"
  PROVE  GpioInv'
<1>1. /\ gpio'.pool = CompleteAll(gpio.pool) /\ gpio'.pin = << >> /\ DOMAIN gpio' = DOMAIN gpio
  BY DEF GPIO_Complete_All_Xfrs, GpioInv, GpioShape
<1>2. GpioShape(gpio')
  BY <1>1, GpioEnds DEF GpioInv
<1>. QED
  BY <1>2 DEF GpioInv, Is_Detached

\* What a step of another interface, or of the device, leaves alone.
LEMMA GpioForeign ==
  ASSUME GpioInv, gpio' = gpio, GpioFlight' = GpioFlight, Is_Detached => Is_Detached',
         conn' = "connecting" => conn = "connecting"
  PROVE  GpioInv'
  BY DEF GpioInv

-----------------------------------------------------------------------------
(* The link: which replies come, whatever the interfaces make of them. *)

\* What s holds, s being a sequence.
Among(s) == {s[i] : i \in 1..Len(s)}
IsSeq(s) == s \in Seq(Among(s))

LEMMA SeqOf ==
  ASSUME NEW S, NEW s \in Seq(S)
  PROVE  IsSeq(s) /\ Among(s) \subseteq S
<1>1. Len(s) \in Nat /\ \A i \in 1..Len(s) : s[i] \in S
  OBVIOUS
<1>2. \A i \in 1..Len(s) : s[i] \in Among(s)
  BY DEF Among
<1>3. s \in Seq(Among(s))
  BY <1>2
<1>. QED
  BY <1>1, <1>3 DEF IsSeq, Among

LEMMA SeqIn ==
  ASSUME NEW s, IsSeq(s), NEW S, Among(s) \subseteq S
  PROVE  s \in Seq(S)
<1>1. s \in Seq(Among(s)) /\ \A e \in Among(s) : e \in S
  BY DEF IsSeq
<1>. HIDE DEF Among
<1>. QED
  BY <1>1

LEMMA AmongNone == IsSeq(<<>>) /\ Among(<<>>) = {}
<1>1. <<>> \in Seq({}) /\ Len(<<>>) = 0
  OBVIOUS
<1>2. Among(<<>>) = {}
  BY <1>1 DEF Among
<1>. QED
  BY <1>1, <1>2 DEF IsSeq

LEMMA AmongAppend ==
  ASSUME NEW s, IsSeq(s), NEW u
  PROVE  IsSeq(Append(s, u)) /\ Among(Append(s, u)) = Among(s) \cup {u} /\ Len(Append(s, u)) = Len(s) + 1
<1>. DEFINE S == Among(s) \cup {u}
            t == Append(s, u)
<1>1. s \in Seq(S) /\ u \in S /\ t \in Seq(S)
  <2>1. s \in Seq(S)
    BY SeqIn
  <2>. QED
    BY <2>1
<1>2. Len(s) \in Nat /\ Len(t) = Len(s) + 1 /\ t[Len(s) + 1] = u /\ \A i \in 1..Len(s) : t[i] = s[i]
  <2>1. \A T : \A q \in Seq(T) : \A v \in T :
          /\ Len(q) \in Nat /\ Len(Append(q, v)) = Len(q) + 1 /\ Append(q, v)[Len(q) + 1] = v
          /\ \A i \in 1..Len(q) : Append(q, v)[i] = q[i]
    OBVIOUS
  <2>. QED
    BY <1>1, <2>1
<1>3. IsSeq(t) /\ Among(t) \subseteq S
  BY <1>1, SeqOf
<1>4. u \in Among(t)
  BY <1>2 DEF Among
<1>5. \A i \in 1..Len(s) : s[i] \in Among(t)
  <2>1. TAKE i \in 1..Len(s)
  <2>2. i \in 1..Len(t) /\ t[i] = s[i]
    BY <1>2
  <2>. QED
    BY <2>2 DEF Among
<1>6. Among(s) \subseteq Among(t)
  BY <1>5 DEF Among
<1>. QED
  BY <1>2, <1>3, <1>4, <1>6

LEMMA AmongTail ==
  ASSUME NEW s, IsSeq(s), s # <<>>
  PROVE  /\ IsSeq(Tail(s)) /\ Among(Tail(s)) \subseteq Among(s) /\ Head(s) \in Among(s)
         /\ Among(s) = Among(Tail(s)) \cup {Head(s)}
<1>. DEFINE S == Among(s)
            t == Tail(s)
<1>1. s \in Seq(S)
  BY DEF IsSeq
<1>2. /\ t \in Seq(S) /\ Head(s) \in S /\ Head(s) = s[1] /\ Len(s) \in Nat /\ Len(t) = Len(s) - 1
      /\ \A i \in 1..Len(t) : t[i] = s[i + 1]
  <2>1. \A T : \A q \in Seq(T) : q # <<>> =>
          /\ Tail(q) \in Seq(T) /\ Head(q) \in T /\ Head(q) = q[1] /\ Len(q) \in Nat /\ Len(Tail(q)) = Len(q) - 1
          /\ \A i \in 1..Len(Tail(q)) : Tail(q)[i] = q[i + 1]
    OBVIOUS
  <2>. HIDE DEF S
  <2>. QED
    BY <1>1, <2>1
<1>3. \A i \in 1..Len(s) : s[i] \in Among(t) \cup {Head(s)}
  <2>1. TAKE i \in 1..Len(s)
  <2>2. CASE i = 1
    BY <1>2, <2>2
  <2>3. CASE i # 1
    <3>1. i - 1 \in 1..Len(t) /\ t[i - 1] = s[i]
      BY <1>2, <2>3
    <3>. QED
      BY <3>1 DEF Among
  <2>. QED
    BY <2>2, <2>3
<1>4. Among(s) \subseteq Among(t) \cup {Head(s)}
  BY <1>3 DEF Among
<1>. QED
  BY <1>2, <1>4, SeqOf

\* A queue s becomes t: nothing, a new last one or the first one read, of the kinds K.
Came(s, t, K) ==
  \/ t = s
  \/ \E u : u.k \in K /\ t = Append(s, u)
  \/ s # <<>> /\ Head(s).k \in K /\ t = Tail(s)

LEMMA CameFacts ==
  ASSUME NEW s, NEW t, NEW K, IsSeq(s), Came(s, t, K)
  PROVE  /\ IsSeq(t)
         /\ \A k : k \notin K => OfKind(k, t) = OfKind(k, s)
         /\ \A u \in Among(t) : u \in Among(s) \/ u.k \in K
<1>1. ASSUME NEW u, u.k \in K, t = Append(s, u)
      PROVE  /\ IsSeq(t) /\ \A v \in Among(t) : v \in Among(s) \/ v.k \in K
             /\ \A k : k \notin K => OfKind(k, t) = OfKind(k, s)
  <2>1. IsSeq(t) /\ Among(t) = Among(s) \cup {u}
    BY <1>1, AmongAppend
  <2>2. ASSUME NEW k, k \notin K PROVE OfKind(k, t) = OfKind(k, s)
    <3>. DEFINE S == Among(s) \cup {u}
    <3>1. s \in Seq(S) /\ u \in S
      BY SeqIn
    <3>. HIDE DEF S
    <3>2. OfKind(k, Append(s, u)) = IF u.k = k THEN Append(OfKind(k, s), u) ELSE OfKind(k, s)
      BY <3>1, OfKindAppend
    <3>. QED
      BY <1>1, <2>2, <3>2
  <2>. QED
    BY <1>1, <2>1, <2>2
<1>2. ASSUME s # <<>>, Head(s).k \in K, t = Tail(s)
      PROVE  /\ IsSeq(t) /\ Among(t) \subseteq Among(s)
             /\ \A k : k \notin K => OfKind(k, t) = OfKind(k, s)
  <2>1. IsSeq(t) /\ Among(t) \subseteq Among(s)
    BY <1>2, AmongTail
  <2>2. ASSUME NEW k, k \notin K PROVE OfKind(k, t) = OfKind(k, s)
    <3>. DEFINE S == Among(s)
    <3>1. s \in Seq(S)
      BY SeqIn
    <3>. HIDE DEF S
    <3>2. OfKind(k, s) = IF Head(s).k = k THEN <<Head(s)>> \o OfKind(k, Tail(s)) ELSE OfKind(k, Tail(s))
      BY <1>2, <3>1, OfKindFacts, Zenon
    <3>. QED
      BY <1>2, <2>2, <3>2
  <2>. QED
    BY <1>2, <2>1, <2>2
<1>. QED
  BY <1>1, <1>2 DEF Came

LEMMA PurgeFacts ==
  ASSUME NEW s, IsSeq(s), NEW n \in 1..Len(s)
  PROVE  LET t == SubSeq(s, n + 1, Len(s)) IN
         /\ IsSeq(t) /\ Among(t) \subseteq Among(s)
         /\ \A k : OfKind(k, s) = <<>> => OfKind(k, t) = <<>>
<1>. DEFINE S == Among(s)
            t == SubSeq(s, n + 1, Len(s))
<1>1. s \in Seq(S)
  BY SeqIn
<1>2. /\ t \in Seq(S) /\ Len(s) \in Nat /\ Len(t) \in Nat /\ Len(t) = Len(s) - n
      /\ \A i \in 1..Len(t) : t[i] = s[i + n] /\ i + n \in 1..Len(s)
  <2>. HIDE DEF S
  <2>1. \A q \in Seq(S) : \A m \in 1..Len(q) :
          LET e == SubSeq(q, m + 1, Len(q)) IN
          /\ e \in Seq(S) /\ Len(q) \in Nat /\ Len(e) = Len(q) - m /\ Len(e) \in Nat
          /\ \A i \in 1..Len(e) : e[i] = q[i + m] /\ i + m \in 1..Len(q)
    OBVIOUS
  <2>. QED
    BY <1>1, <2>1
<1>3. IsSeq(t) /\ Among(t) \subseteq S
  BY <1>2, SeqOf
<1>4. ASSUME NEW k, OfKind(k, s) = <<>> PROVE OfKind(k, t) = <<>>
  <2>. HIDE DEF S
  <2>1. \A i \in 1..Len(s) : s[i].k # k
    BY <1>1, <1>4, OfKindNone
  <2>2. \A i \in 1..Len(t) : t[i].k # k
    BY <1>2, <2>1
  <2>. HIDE DEF t
  <2>. QED
    BY <1>2, <2>2, OfKindNone
<1>. QED
  BY <1>3, <1>4

\* All that is on its way from the device, or waits there for an answer.
Seen == Among(rsp) \cup Among(imm)

\* Kinds of replies that the device gives in the order of the commands.
ImmKinds == {"gpio", "txfree", "skipped_start", "info"}

\* The flight of such a kind.
ImmFlight(k) == Flight(k, rsp, OfKind(k, imm))

LinkInv ==
  /\ LinkTypeOK
  /\ IsSeq(rsp) /\ IsSeq(imm)
  /\ \A u \in Among(imm) : u.k \in ImmKinds
  /\ pc = "rx" => main \in {"w2", "w3"}
  /\ pc \in {"rx", "main", "tx"} => ~Is_Detached
  /\ infoRead => main \in {"w2", "w3"}
  /\ conn = "connected" => main = "w3"
  /\ main = "w3" => conn # "connecting" /\ (pc # "gone" => infoRead)
  /\ ImmFlight("info") = <<>> \/ (main = "w2" /\ ~infoRead /\ Len(ImmFlight("info")) = 1)
  /\ rx.k = "rsp" => rx = RxRsp
  /\ "k" \in DOMAIN rx

\* A step of the interface whose replies, and states of the parser, are K.
LinkStep(K) ==
  /\ Came(rsp, rsp', K) /\ Came(imm, imm', K \cap ImmKinds)
  /\ rx' = rx \/ (rx.k \in K \cup {"rsp"} /\ (rx' = RxRsp \/ (rx'.k \in K /\ "k" \in DOMAIN rx')))
  /\ pc' = pc \/ (pc = "rx" /\ pc' = "err")
  /\ UNCHANGED <<conn, main, waitIdle, infoRead, plugged>>

LEMMA LinkStepKeeps ==
  ASSUME LinkInv, NEW K, "info" \notin K, "rsp" \notin K, LinkStep(K)
  PROVE  LinkInv'
<1>1. IsSeq(rsp) /\ IsSeq(imm) /\ Came(rsp, rsp', K) /\ Came(imm, imm', K \cap ImmKinds)
  BY DEF LinkInv, LinkStep
<1>2. IsSeq(rsp') /\ OfKind("info", rsp') = OfKind("info", rsp)
  BY <1>1, CameFacts
<1>3. /\ IsSeq(imm') /\ OfKind("info", imm') = OfKind("info", imm)
      /\ \A u \in Among(imm') : u \in Among(imm) \/ u.k \in K \cap ImmKinds
  <2>1. "info" \notin K \cap ImmKinds
    OBVIOUS
  <2>. QED
    BY <1>1, <2>1, CameFacts
<1>4. ImmFlight("info")' = ImmFlight("info")
  BY <1>2, <1>3 DEF ImmFlight, Flight
<1>5. \A u \in Among(imm') : u.k \in ImmKinds
  BY <1>3 DEF LinkInv
<1>6. (rx'.k = "rsp" => rx' = RxRsp) /\ "k" \in DOMAIN rx'
  BY DEF LinkInv, LinkStep, RxRsp
<1>7. UNCHANGED <<conn, main, waitIdle, infoRead, plugged>> /\ (pc' = pc \/ (pc = "rx" /\ pc' = "err"))
  BY DEF LinkStep
<1>8. LinkTypeOK'
  BY <1>7 DEF LinkInv, LinkTypeOK
<1>. QED
  BY <1>2, <1>3, <1>4, <1>5, <1>6, <1>7, <1>8 DEF LinkInv, Is_Detached

LEMMA AnswersFacts ==
  ASSUME LinkInv, DeviceAnswers
  PROVE  /\ IsSeq(rsp') /\ IsSeq(imm') /\ Seen' \subseteq Seen /\ Among(imm') \subseteq Among(imm)
         /\ \A k : ImmFlight(k)' = ImmFlight(k)
         /\ \A k : k \notin ImmKinds => OfKind(k, rsp') = OfKind(k, rsp)
<1>. DEFINE u == Head(imm)
<1>1. imm # <<>> /\ imm' = Tail(imm) /\ rsp' = Append(rsp, u) /\ IsSeq(rsp) /\ IsSeq(imm)
  BY DEF DeviceAnswers, Replies, LinkInv
<1>2. /\ IsSeq(imm') /\ Among(imm') \subseteq Among(imm) /\ u \in Among(imm)
  BY <1>1, AmongTail
<1>3. IsSeq(rsp') /\ Among(rsp') = Among(rsp) \cup {u}
  <2>. HIDE DEF u
  <2>. QED
    BY <1>1, AmongAppend
<1>4. u.k \in ImmKinds
  BY <1>2 DEF LinkInv
<1>. DEFINE U == Seen
<1>5. rsp \in Seq(U) /\ imm \in Seq(U) /\ u \in U /\ Tail(imm) \in Seq(U)
  <2>1. rsp \in Seq(U) /\ imm \in Seq(U)
    BY <1>1, SeqIn DEF Seen
  <2>. HIDE DEF U
  <2>. QED
    BY <1>1, <2>1
<1>. HIDE DEF U, u
<1>6. ASSUME NEW k PROVE /\ OfKind(k, rsp') = IF u.k = k THEN Append(OfKind(k, rsp), u) ELSE OfKind(k, rsp)
                         /\ ImmFlight(k)' = ImmFlight(k)
  <2>1. OfKind(k, rsp') = IF u.k = k THEN Append(OfKind(k, rsp), u) ELSE OfKind(k, rsp)
    BY <1>1, <1>5, OfKindAppend
  <2>2. OfKind(k, imm) = IF u.k = k THEN <<u>> \o OfKind(k, Tail(imm)) ELSE OfKind(k, Tail(imm))
    BY <1>1, <1>5, OfKindFacts, Zenon DEF u
  <2>. DEFINE a == OfKind(k, rsp)
              b == OfKind(k, Tail(imm))
              S == Kind(k, U)
  <2>3. a \in Seq(S) /\ b \in Seq(S)
    BY <1>5, OfKindFacts
  <2>4. ASSUME u.k = k PROVE Append(a, u) \o b = a \o (<<u>> \o b)
    <3>1. u \in S
      BY <1>5, <2>4 DEF Kind
    <3>. HIDE DEF a, b, S
    <3>. QED
      BY <2>3, <3>1
  <2>. QED
    BY <1>1, <2>1, <2>2, <2>4 DEF ImmFlight, Flight
<1>. QED
  BY <1>2, <1>3, <1>4, <1>6 DEF Seen

\* A command of the handshake.
LEMMA AskedFacts ==
  ASSUME LinkInv, NEW u, u.k \in {"skipped_start", "info"}, rsp' = rsp, imm' = Append(imm, u)
  PROVE  /\ IsSeq(imm') /\ Among(imm') = Among(imm) \cup {u} /\ Seen' = Seen \cup {u}
         /\ \A k : k # u.k => ImmFlight(k)' = ImmFlight(k)
         /\ ImmFlight(u.k)' = Append(ImmFlight(u.k), u) /\ Len(ImmFlight(u.k)') = Len(ImmFlight(u.k)) + 1
<1>1. IsSeq(rsp) /\ IsSeq(imm) /\ \A e \in Among(imm) : e.k \in ImmKinds
  BY DEF LinkInv
<1>2. IsSeq(imm') /\ Among(imm') = Among(imm) \cup {u}
  BY <1>1, AmongAppend
<1>. DEFINE U == Seen \cup {u}
<1>3. rsp \in Seq(U) /\ imm \in Seq(U) /\ u \in U
  BY <1>1, SeqIn DEF Seen
<1>. HIDE DEF U
<1>4. ASSUME NEW k PROVE OfKind(k, imm') = IF u.k = k THEN Append(OfKind(k, imm), u) ELSE OfKind(k, imm)
  BY <1>3, OfKindAppend
<1>5. \A k : k # u.k => ImmFlight(k)' = ImmFlight(k)
  BY <1>4 DEF ImmFlight, Flight
<1>6. ImmFlight(u.k)' = Append(ImmFlight(u.k), u) /\ Len(ImmFlight(u.k)') = Len(ImmFlight(u.k)) + 1
  <2>. DEFINE a == OfKind(u.k, rsp)
              b == OfKind(u.k, imm)
              S == Kind(u.k, U)
  <2>1. a \in Seq(S) /\ b \in Seq(S) /\ u \in S
    BY <1>3, OfKindFacts DEF Kind
  <2>2. a \o Append(b, u) = Append(a \o b, u) /\ Len(Append(a \o b, u)) = Len(a \o b) + 1
    <3>. HIDE DEF a, b, S
    <3>. QED
      BY <2>1
  <2>. QED
    BY <1>4, <2>2 DEF ImmFlight, Flight
<1>. QED
  BY <1>2, <1>5, <1>6 DEF Seen

\* The steps of the library and the device that no interface takes.
LinkOwn ==
  Step \/ Step_Rx_Ends \/ Step_Main \/ Tx_Flush \/ SerialFails \/ DeviceAnswers \/ Rx_Skipped_Start \/ Unplug

\* Before the library is connected nothing but the handshake is under way.
LEMMA EmptyFlight ==
  ASSUME NEW k, NEW a, NEW S, a \in Seq(S), IsSeq(rsp)
  PROVE  Flight(k, rsp, a) = <<>> => OfKind(k, rsp) = <<>>
<1>1. OfKind(k, rsp) \in Seq(Kind(k, Among(rsp)))
  BY OfKindFacts DEF IsSeq
<1>. DEFINE T == Kind(k, Among(rsp)) \cup S
            o == OfKind(k, rsp)
<1>2. o \in Seq(T) /\ a \in Seq(T)
  <2>1. \A A, B : \A s \in Seq(A) : A \subseteq B => s \in Seq(B)
    OBVIOUS
  <2>. HIDE DEF o
  <2>. QED
    BY <1>1, <2>1 DEF o
<1>. HIDE DEF T, o
<1>3. o \o a = <<>> => o = <<>>
  BY <1>2
<1>. QED
  BY <1>3 DEF Flight, o

LEMMA PurgesEarly ==
  ASSUME LinkInv, Main_W1_Purge
  PROVE  ~infoRead /\ conn = "connecting"
<1>1. main = "w1" /\ pc = "main"
  BY DEF Main_W1_Purge
<1>. QED
  BY <1>1 DEF LinkInv, LinkTypeOK, Is_Detached

LEMMA LinkOwnFacts ==
  ASSUME LinkInv, LinkOwn
  PROVE  /\ UNCHANGED infoRead /\ rx' = rx
         /\ (Is_Detached' <=> Is_Detached) /\ (conn' = "connecting" => conn = "connecting")
         /\ \A u \in Seen' : u \in Seen \/ u.k \in {"skipped_start", "info"}
         /\ \A k : k \notin {"skipped_start", "info"} /\ (~infoRead /\ conn = "connecting" => OfKind(k, rsp) = <<>>)
              => /\ ImmFlight(k)' = ImmFlight(k)
                 /\ k \notin ImmKinds => OfKind(k, rsp') = OfKind(k, rsp)
<1>0. conn \in {"connecting", "connected", "disconnected"} /\ IsSeq(rsp) /\ IsSeq(imm)
  BY DEF LinkInv, LinkTypeOK
<1>1. CASE UNCHANGED <<rsp, imm, conn, infoRead, rx>>
  BY <1>1 DEF Seen, ImmFlight, Is_Detached
<1>2. CASE Main_Start
  <2>. DEFINE u == [k |-> "skipped_start"]
  <2>1. rsp' = rsp /\ imm' = Append(imm, u) /\ UNCHANGED <<conn, infoRead, rx>> /\ u.k = "skipped_start"
    BY <1>2 DEF Main_Start
  <2>. HIDE DEF u
  <2>2. /\ Seen' = Seen \cup {u} /\ \A k : k # u.k => ImmFlight(k)' = ImmFlight(k)
    BY <2>1, AskedFacts
  <2>. QED
    BY <2>1, <2>2 DEF Is_Detached
<1>3. CASE Main_W1_Idle
  <2>. DEFINE u == [k |-> "info"]
  <2>1. rsp' = rsp /\ imm' = Append(imm, u) /\ UNCHANGED <<conn, infoRead, rx>> /\ u.k = "info"
    BY <1>3 DEF Main_W1_Idle
  <2>. HIDE DEF u
  <2>2. /\ Seen' = Seen \cup {u} /\ \A k : k # u.k => ImmFlight(k)' = ImmFlight(k)
    BY <2>1, AskedFacts
  <2>. QED
    BY <2>1, <2>2 DEF Is_Detached
<1>4. CASE Main_W1_Purge
  <2>1. PICK n \in 1..Len(rsp) : rsp' = SubSeq(rsp, n + 1, Len(rsp))
    BY <1>4 DEF Main_W1_Purge
  <2>2. Among(rsp') \subseteq Among(rsp) /\ \A k : OfKind(k, rsp) = <<>> => OfKind(k, rsp') = <<>>
    BY <1>0, <2>1, PurgeFacts
  <2>3. ~infoRead /\ conn = "connecting" /\ UNCHANGED <<imm, conn, infoRead, rx>>
    BY <1>4, PurgesEarly DEF Main_W1_Purge
  <2>4. ASSUME NEW k, OfKind(k, rsp) = <<>> PROVE OfKind(k, rsp') = OfKind(k, rsp) /\ ImmFlight(k)' = ImmFlight(k)
    BY <2>2, <2>3, <2>4 DEF ImmFlight, Flight
  <2>. QED
    BY <2>2, <2>3, <2>4 DEF Seen, Is_Detached
<1>5. CASE DeviceAnswers
  <2>1. UNCHANGED <<conn, infoRead, rx>>
    BY <1>5 DEF DeviceAnswers
  <2>. QED
    BY <1>5, <2>1, AnswersFacts DEF Is_Detached
<1>6. CASE Rx_Skipped_Start
  <2>1. /\ rsp # <<>> /\ Head(rsp).k = "skipped_start" /\ rsp' = Tail(rsp) /\ UNCHANGED <<imm, conn, infoRead>>
        /\ rx' = rx
    BY <1>6 DEF Rx_Skipped_Start, AtReply, Packet
  <2>2. Came(rsp, rsp', {"skipped_start"})
    BY <2>1 DEF Came
  <2>3. /\ \A k : k \notin {"skipped_start"} => OfKind(k, rsp') = OfKind(k, rsp)
        /\ \A u \in Among(rsp') : u \in Among(rsp) \/ u.k \in {"skipped_start"}
    BY <1>0, <2>2, CameFacts
  <2>. QED
    BY <2>1, <2>3 DEF ImmFlight, Flight, Seen, Is_Detached
<1>7. CASE Main_Connected
  BY <1>0, <1>7 DEF Main_Connected, Seen, ImmFlight, Is_Detached, LinkInv
<1>8. ASSUME Step \/ Step_Rx_Ends \/ Tx_Flush \/ SerialFails \/ Unplug \/ Main_W1_Waits \/ Main_W1_Fails
             \/ Main_W2_Waits \/ Main_W3
      PROVE  UNCHANGED <<rsp, imm, conn, infoRead, rx>>
  BY <1>8 DEF Step, Step_Rx_Ends, Tx_Flush, SerialFails, Unplug, Main_W1_Waits, Main_W1_Fails, Main_W2_Waits, Main_W3
<1>. QED
  BY <1>1, <1>2, <1>3, <1>4, <1>5, <1>6, <1>7, <1>8 DEF LinkOwn, Step_Main

LEMMA LinkOwnKeeps ==
  ASSUME LinkInv, LinkOwn
  PROVE  LinkInv'
<1>0. /\ LinkTypeOK /\ IsSeq(rsp) /\ IsSeq(imm) /\ (\A u \in Among(imm) : u.k \in ImmKinds)
      /\ (ImmFlight("info") = <<>> \/ (main = "w2" /\ ~infoRead /\ Len(ImmFlight("info")) = 1))
  BY DEF LinkInv
<1>1. ASSUME UNCHANGED <<rsp, imm, rx>>, LinkTypeOK',
             pc' = "rx" => main' \in {"w2", "w3"}, pc' \in {"rx", "main", "tx"} => ~Is_Detached',
             infoRead' => main' \in {"w2", "w3"}, conn' = "connected" => main' = "w3",
             main' = "w3" => conn' # "connecting" /\ (pc' # "gone" => infoRead'),
             main = "w2" /\ ~infoRead => main' = "w2" /\ ~infoRead'
      PROVE  LinkInv'
  <2>1. ImmFlight("info")' = ImmFlight("info")
    BY <1>1 DEF ImmFlight
  <2>2. ImmFlight("info")' = <<>> \/ (main' = "w2" /\ ~infoRead' /\ Len(ImmFlight("info")') = 1)
    BY <1>0, <1>1, <2>1
  <2>. QED
    BY <1>1, <2>2 DEF LinkInv
<1>2. CASE Step
  BY <1>1, <1>2 DEF Step, LinkInv, LinkTypeOK, Is_Detached
<1>3. CASE Step_Rx_Ends \/ Tx_Flush \/ SerialFails \/ Unplug
  <2>1. UNCHANGED <<conn, main, waitIdle, infoRead, imm, rsp, rx>> /\ plugged' \in BOOLEAN
        /\ (pc' \in {"user", "err"} \/ (pc = "rx" /\ pc' = "main") \/ pc' = pc) /\ (pc = "gone" => pc' = "gone")
    BY <1>0, <1>3 DEF Step_Rx_Ends, Tx_Flush, SerialFails, Unplug, LinkTypeOK
  <2>2. LinkTypeOK'
    BY <1>0, <2>1 DEF LinkTypeOK
  <2>. QED
    BY <1>1, <2>1, <2>2 DEF LinkInv, Is_Detached
<1>4. CASE DeviceAnswers
  <2>1. UNCHANGED <<conn, main, waitIdle, infoRead, pc, plugged, rx>>
    BY <1>4 DEF DeviceAnswers
  <2>2. LinkTypeOK'
    BY <1>0, <2>1 DEF LinkTypeOK
  <2>3. IsSeq(rsp') /\ IsSeq(imm') /\ Among(imm') \subseteq Among(imm) /\ ImmFlight("info")' = ImmFlight("info")
    BY <1>4, AnswersFacts
  <2>. QED
    BY <2>1, <2>2, <2>3 DEF LinkInv, Is_Detached
<1>5. CASE Rx_Skipped_Start
  <2>1. LinkStep({"skipped_start"})
    BY <1>5 DEF Rx_Skipped_Start, AtReply, Packet, LinkStep, Came
  <2>. QED
    BY <2>1, LinkStepKeeps
<1>6. CASE Main_Start
  <2>. DEFINE u == [k |-> "skipped_start"]
  <2>1. /\ rsp' = rsp /\ imm' = Append(imm, u) /\ UNCHANGED <<conn, infoRead, plugged, rx>> /\ u.k = "skipped_start"
        /\ pc = "main" /\ main = "start" /\ main' = "w1" /\ waitIdle' = FALSE /\ pc' = "tx"
    BY <1>6 DEF Main_Start
  <2>. HIDE DEF u
  <2>2. /\ IsSeq(imm') /\ Among(imm') = Among(imm) \cup {u} /\ ImmFlight("info")' = ImmFlight("info")
    BY <2>1, AskedFacts
  <2>3. LinkTypeOK'
    BY <1>0, <2>1 DEF LinkTypeOK
  <2>4. \A e \in Among(imm') : e.k \in ImmKinds
    BY <1>0, <2>1, <2>2 DEF ImmKinds
  <2>. QED
    BY <2>1, <2>2, <2>3, <2>4 DEF LinkInv, Is_Detached
<1>7. CASE Main_W1_Purge
  <2>1. PICK n \in 1..Len(rsp) : rsp' = SubSeq(rsp, n + 1, Len(rsp))
    BY <1>7 DEF Main_W1_Purge
  <2>2. IsSeq(rsp') /\ (OfKind("info", rsp) = <<>> => OfKind("info", rsp') = <<>>)
    BY <1>0, <2>1, PurgeFacts
  <2>3. /\ pc = "main" /\ main = "w1" /\ waitIdle' = TRUE /\ pc' = "tx"
        /\ UNCHANGED <<conn, main, infoRead, plugged, imm, rx>>
    BY <1>7 DEF Main_W1_Purge
  <2>4. LinkTypeOK'
    BY <1>0, <2>3 DEF LinkTypeOK
  <2>5. ImmFlight("info") = <<>>
    BY <1>0, <2>3
  <2>6. OfKind("info", rsp) = <<>>
    <3>1. OfKind("info", imm) \in Seq(Kind("info", Among(imm)))
      BY <1>0, OfKindFacts DEF IsSeq
    <3>. QED
      BY <1>0, <2>5, <3>1, EmptyFlight DEF ImmFlight
  <2>7. ImmFlight("info")' = <<>>
    BY <2>2, <2>3, <2>5, <2>6 DEF ImmFlight, Flight
  <2>. QED
    BY <2>2, <2>3, <2>4, <2>7 DEF LinkInv, Is_Detached
<1>8. CASE Main_W1_Idle
  <2>. DEFINE u == [k |-> "info"]
  <2>1. /\ rsp' = rsp /\ imm' = Append(imm, u) /\ UNCHANGED <<conn, waitIdle, infoRead, plugged, rx>> /\ u.k = "info"
        /\ pc = "main" /\ main = "w1" /\ main' = "w2" /\ pc' = "tx"
    BY <1>8 DEF Main_W1_Idle
  <2>. HIDE DEF u
  <2>2. /\ IsSeq(imm') /\ Among(imm') = Among(imm) \cup {u} /\ Len(ImmFlight("info")') = Len(ImmFlight("info")) + 1
    BY <2>1, AskedFacts
  <2>3. LinkTypeOK'
    BY <1>0, <2>1 DEF LinkTypeOK
  <2>4. \A e \in Among(imm') : e.k \in ImmKinds
    BY <1>0, <2>1, <2>2 DEF ImmKinds
  <2>5. ~infoRead' /\ Len(ImmFlight("info")') = 1
    <3>1. ~infoRead
      BY <2>1 DEF LinkInv
    <3>2. ImmFlight("info") = <<>>
      BY <1>0, <2>1
    <3>3. Len(ImmFlight("info")) = 0
      BY <3>2
    <3>4. Len(ImmFlight("info")') = 1
      <4>1. \A m, n : m = 0 /\ n = m + 1 => n = 1
        OBVIOUS
      <4>. QED
        BY <2>2, <3>3, <4>1, Zenon
    <3>. QED
      BY <2>1, <3>1, <3>4
  <2>. QED
    BY <2>1, <2>2, <2>3, <2>4, <2>5 DEF LinkInv, Is_Detached
<1>9. CASE Main_W1_Waits \/ Main_W1_Fails \/ Main_W2_Waits \/ Main_W3
  <2>1. UNCHANGED <<conn, main, waitIdle, infoRead, plugged, imm, rsp, rx>> /\ pc = "main" /\ pc' \in {"tx", "err"}
    BY <1>9 DEF Main_W1_Waits, Main_W1_Fails, Main_W2_Waits, Main_W3
  <2>2. LinkTypeOK'
    BY <1>0, <2>1 DEF LinkTypeOK
  <2>. QED
    BY <1>1, <2>1, <2>2 DEF LinkInv, Is_Detached
<1>10. CASE Main_Connected
  BY <1>1, <1>10 DEF Main_Connected, LinkInv, LinkTypeOK, Is_Detached
<1>. QED
  BY <1>2, <1>3, <1>4, <1>5, <1>6, <1>7, <1>8, <1>9, <1>10 DEF LinkOwn, Step_Main

LEMMA LinkRestKeeps ==
  ASSUME LinkInv, Rx_Info \/ Mark_Detached \/ AL_Destroy
  PROVE  LinkInv'
<1>0. /\ LinkTypeOK /\ IsSeq(rsp) /\ IsSeq(imm) /\ (\A u \in Among(imm) : u.k \in ImmKinds)
      /\ (ImmFlight("info") = <<>> \/ (main = "w2" /\ ~infoRead /\ Len(ImmFlight("info")) = 1))
  BY DEF LinkInv
<1>1. CASE Rx_Info
  <2>1. /\ pc = "rx" /\ rsp # <<>> /\ Head(rsp).k = "info" /\ rsp' = Tail(rsp) /\ infoRead'
        /\ UNCHANGED <<conn, main, waitIdle, pc, plugged, imm, rx>>
    BY <1>1 DEF Rx_Info, AtReply
  <2>2. IsSeq(rsp')
    BY <1>0, <2>1, AmongTail
  <2>3. ImmFlight("info")' = <<>>
    <3>. DEFINE o == OfKind("info", Tail(rsp))
                b == OfKind("info", imm)
                S == Kind("info", Seen)
                u == Head(rsp)
    <3>1. rsp \in Seq(Seen) /\ imm \in Seq(Seen)
      BY <1>0, SeqIn DEF Seen
    <3>2. Tail(rsp) \in Seq(Seen) /\ u \in Seen
      BY <2>1, <3>1
    <3>3. o \in Seq(S) /\ b \in Seq(S) /\ u \in S
      BY <2>1, <3>1, <3>2, OfKindFacts DEF Kind
    <3>4. OfKind("info", rsp) = <<u>> \o o
      <4>1. OfKind("info", rsp) = IF u.k = "info" THEN <<u>> \o o ELSE o
        BY <2>1, <3>1, OfKindFacts, Zenon
      <4>. QED
        BY <2>1, <4>1
    <3>5. ImmFlight("info") = (<<u>> \o o) \o b
      BY <3>4 DEF ImmFlight, Flight
    <3>6. ImmFlight("info")' = o \o b
      BY <2>1 DEF ImmFlight, Flight
    <3>. HIDE DEF o, b, S, u
    <3>7. (<<u>> \o o) \o b # <<>> /\ (Len((<<u>> \o o) \o b) = 1 => o \o b = <<>>)
      BY <3>3
    <3>. QED
      BY <1>0, <3>5, <3>6, <3>7
  <2>4. main \in {"w2", "w3"}
    BY <2>1 DEF LinkInv
  <2>5. LinkTypeOK'
    BY <1>0, <1>1, <2>1 DEF LinkTypeOK, Rx_Info
  <2>. QED
    BY <2>1, <2>2, <2>3, <2>4, <2>5 DEF LinkInv, Is_Detached
<1>2. CASE Mark_Detached
  <2>1. conn' = "disconnected" /\ pc = "err" /\ pc' = "user" /\ UNCHANGED <<main, waitIdle, infoRead, plugged, imm, rsp, rx>>
    BY <1>2 DEF Mark_Detached
  <2>2. ImmFlight("info")' = ImmFlight("info")
    BY <2>1 DEF ImmFlight
  <2>3. LinkTypeOK'
    BY <1>0, <2>1 DEF LinkTypeOK
  <2>. QED
    BY <2>1, <2>2, <2>3 DEF LinkInv, Is_Detached
<1>3. CASE AL_Destroy
  <2>1. pc' = "gone" /\ infoRead' = FALSE /\ imm' = <<>> /\ rsp' = <<>> /\ rx' = RxRsp /\ UNCHANGED <<conn, main, waitIdle, plugged>>
    BY <1>3 DEF AL_Destroy
  <2>2. ImmFlight("info")' = <<>>
    <3>1. OfKind("info", <<>>) = <<>>
      BY EmptyOfKind
    <3>. QED
      BY <2>1, <3>1 DEF ImmFlight, Flight
  <2>3. LinkTypeOK'
    BY <1>0, <2>1 DEF LinkTypeOK
  <2>4. IsSeq(rsp') /\ IsSeq(imm') /\ Among(imm') = {} /\ "k" \in DOMAIN rx'
    BY <2>1, AmongNone DEF RxRsp
  <2>. QED
    BY <2>1, <2>2, <2>3, <2>4 DEF LinkInv, Is_Detached
<1>. QED
  BY <1>1, <1>2, <1>3

-----------------------------------------------------------------------------
(* What the interfaces do to the link. *)

LEMMA LinkSame ==
  ASSUME NEW K, UNCHANGED linkVars
  PROVE  LinkStep(K)
  BY DEF linkVars, LinkStep, Came

LEMMA LinkWider ==
  ASSUME NEW K, NEW k \in K, LinkStep({k})
  PROVE  LinkStep(K)
  BY DEF LinkStep, Came

LEMMA PacketLinks ==
  ASSUME NEW K, NEW k \in K, AtReply(k), NEW ok, NEW next, Packet(ok, next),
         next = RxRsp \/ (next.k \in K /\ "k" \in DOMAIN next)
  PROVE  LinkStep(K)
<1>1. pc = "rx" /\ rx = RxRsp /\ rx.k = "rsp" /\ rsp # <<>> /\ Head(rsp).k \in K
  BY DEF AtReply, RxRsp
<1>2. /\ rsp' = Tail(rsp) /\ UNCHANGED <<conn, main, waitIdle, infoRead, plugged, imm>>
      /\ (pc' = pc \/ pc' = "err") /\ (rx' = next \/ rx' = RxRsp)
  BY DEF Packet
<1>. QED
  BY <1>1, <1>2 DEF LinkStep, Came

LEMMA ByteLinks ==
  ASSUME LinkInv, NEW K, NEW k \in K, AtByte(k), NEW ok, NEW next, DataByte(ok, next),
         next = RxRsp \/ (next.k \in K /\ "k" \in DOMAIN next)
  PROVE  LinkStep(K)
<1>1. pc = "rx" /\ rx.k \in K
  BY DEF AtByte
<1>2. /\ UNCHANGED <<conn, main, waitIdle, infoRead, plugged, imm, rsp>>
      /\ (pc' = pc \/ pc' = "err") /\ (rx' = next \/ rx' = RxRsp)
  BY DEF DataByte
<1>. QED
  BY <1>1, <1>2 DEF LinkStep, Came

\* The rest of a packet is still of its kind.
LEMMA RestOfPacket ==
  ASSUME LinkInv, NEW n
  PROVE  LET next == [rx EXCEPT !.left = n] IN next.k = rx.k /\ "k" \in DOMAIN next
  BY DEF LinkInv

LEMMA RepliesLinks ==
  ASSUME NEW K, NEW u, u.k \in K, rsp' = Append(rsp, u), UNCHANGED <<conn, main, waitIdle, infoRead, pc, plugged, imm, rx>>
  PROVE  LinkStep(K)
  BY DEF LinkStep, Came

\* The commands that the device holds for an interface are of its kind.
HasBuf(s, k) ==
  /\ "buf" \in DOMAIN s /\ IsSeq(s.buf)
  /\ \A u \in Among(s.buf) : "k" \in DOMAIN u /\ u.k = k

LEMMA BufSame ==
  ASSUME NEW s, NEW k, HasBuf(s, k), NEW t, DOMAIN t = DOMAIN s, t.buf = s.buf
  PROVE  HasBuf(t, k)
  BY DEF HasBuf

LEMMA BufAppend ==
  ASSUME NEW s, NEW k, HasBuf(s, k), NEW t, NEW u, DOMAIN t = DOMAIN s, t.buf = Append(s.buf, u),
         "k" \in DOMAIN u, u.k = k
  PROVE  HasBuf(t, k)
<1>1. IsSeq(Append(s.buf, u)) /\ Among(Append(s.buf, u)) = Among(s.buf) \cup {u}
  BY AmongAppend DEF HasBuf
<1>. QED
  BY <1>1 DEF HasBuf

LEMMA BufTail ==
  ASSUME NEW s, NEW k, HasBuf(s, k), s.buf # <<>>, NEW t, DOMAIN t = DOMAIN s, t.buf = Tail(s.buf)
  PROVE  HasBuf(t, k) /\ Head(s.buf).k = k /\ "k" \in DOMAIN Head(s.buf)
<1>1. IsSeq(Tail(s.buf)) /\ Among(Tail(s.buf)) \subseteq Among(s.buf) /\ Head(s.buf) \in Among(s.buf)
  BY AmongTail DEF HasBuf
<1>. QED
  BY <1>1 DEF HasBuf

LEMMA BufMap ==
  ASSUME NEW s, NEW k, HasBuf(s, k), NEW t, DOMAIN t = DOMAIN s, NEW b, t.buf = b,
         NEW T, b \in [DOMAIN s.buf -> T],
         \A i \in DOMAIN s.buf : DOMAIN b[i] = DOMAIN s.buf[i] /\ b[i].k = s.buf[i].k
  PROVE  HasBuf(t, k)
<1>1. IsSeq(s.buf) /\ s.buf \in Seq(Among(s.buf))
  BY DEF HasBuf, IsSeq
<1>2. DOMAIN s.buf = 1..Len(s.buf) /\ Len(s.buf) \in Nat
  <2>1. \A S : \A q \in Seq(S) : DOMAIN q = 1..Len(q) /\ Len(q) \in Nat
    OBVIOUS
  <2>. QED
    BY <1>1, <2>1
<1>3. \A i \in 1..Len(s.buf) : "k" \in DOMAIN s.buf[i] /\ s.buf[i].k = k
  BY DEF HasBuf, Among
<1>4. \A i \in 1..Len(s.buf) : "k" \in DOMAIN b[i] /\ b[i].k = k
  BY <1>2, <1>3
<1>. DEFINE S == {b[i] : i \in 1..Len(s.buf)}
<1>5. b \in Seq(S) /\ Len(b) = Len(s.buf)
  <2>1. \A i \in 1..Len(s.buf) : b[i] \in S
    OBVIOUS
  <2>. HIDE DEF S
  <2>. QED
    BY <1>2, <2>1
<1>6. IsSeq(b) /\ Among(b) \subseteq S
  BY <1>5, SeqOf
<1>7. \A u \in S : "k" \in DOMAIN u /\ u.k = k
  BY <1>4
<1>. HIDE DEF S
<1>. QED
  BY <1>6, <1>7 DEF HasBuf

LEMMA GpioLinks ==
  ASSUME LinkInv, GpioUser \/ GPIO_Tx \/ GPIO_Rx
  PROVE  LinkStep({"gpio"})
<1>1. CASE GpioUser
  <2>1. UNCHANGED linkVars
    BY <1>1 DEF GpioUser, GPIO_Xfr_Create, GPIO_Xfr_Cancel, GPIO_Xfr_Destroy, GPIO_Xfr_Schedule, Called
  <2>. QED
    BY <2>1, LinkSame
<1>2. CASE GPIO_Tx
  BY <1>2 DEF GPIO_Tx, LinkStep, Came, ImmKinds
<1>3. CASE GPIO_Rx
  <2>1. PICK ok : AtReply("gpio") /\ Packet(ok, RxRsp)
    BY <1>3 DEF GPIO_Rx
  <2>. QED
    BY <2>1, PacketLinks
<1>. QED
  BY <1>1, <1>2, <1>3

LEMMA SpiLinks ==
  ASSUME LinkInv, HasBuf(spi, "spi"), SpiUser \/ SPI_Tx \/ SpiRx \/ SpiDevice
  PROVE  LinkStep({"spi"}) /\ HasBuf(spi', "spi")
<1>. DEFINE K == {"spi"}
<1>1. CASE SpiUser
  <2>1. UNCHANGED linkVars
    BY <1>1 DEF SpiUser, SPI_Xfr_Create, SPI_Xfr_Cancel, SPI_Xfr_Destroy, SPI_Xfr_Schedule, SPI_Enable, SPI_Disable,
      Enables, Configured, Called
  <2>2. HasBuf(spi', "spi")
    <3>1. CASE SPI_Disable
      <4>. DEFINE b == [i \in DOMAIN spi.buf |-> [spi.buf[i] EXCEPT !.skipped = TRUE]]
      <4>1. "buf" \in DOMAIN spi
        BY DEF HasBuf
      <4>2. DOMAIN spi' = DOMAIN spi /\ spi'.buf = b
        BY <3>1, <4>1 DEF SPI_Disable
      <4>3. b \in [DOMAIN spi.buf -> {b[i] : i \in DOMAIN spi.buf}]
        OBVIOUS
      <4>4. \A i \in DOMAIN spi.buf : DOMAIN b[i] = DOMAIN spi.buf[i] /\ b[i].k = spi.buf[i].k
        OBVIOUS
      <4>. HIDE DEF b
      <4>5. DOMAIN spi' = DOMAIN spi
        BY <4>2
      <4>6. spi'.buf = b
        BY <4>2
      <4>. QED
        BY SMTT(30), <4>3, <4>4, <4>5, <4>6, BufMap, Zenon
    <3>2. CASE ~SPI_Disable
      <4>1. DOMAIN spi' = DOMAIN spi /\ spi'.buf = spi.buf
        <5>1. "buf" \in DOMAIN spi
          BY DEF HasBuf
        <5>. QED
          BY <1>1, <3>2, <5>1 DEF SpiUser, SPI_Xfr_Create, SPI_Xfr_Cancel, SPI_Xfr_Destroy, SPI_Xfr_Schedule, SPI_Enable, SpiDone
      <4>. QED
        BY <4>1, BufSame
    <3>. QED
      BY <3>1, <3>2
  <2>. QED
    BY <2>1, <2>2, LinkSame
<1>2. CASE SPI_Tx
  <2>1. PICK u : DOMAIN spi' = DOMAIN spi /\ spi'.buf = Append(spi.buf, u) /\ "k" \in DOMAIN u /\ u.k = "spi"
    <3>1. "buf" \in DOMAIN spi
      BY DEF HasBuf
    <3>. DEFINE cur == spi.pool.cur
                p   == spi.prog[cur]
                cnt == PacketSize(p, spi.free)
                u   == [k |-> "spi", x |-> cur, cnt |-> cnt, ss |-> p.ss, last |-> cnt = p.sc - p.fi, skipped |-> ~spi.on]
    <3>2. DOMAIN spi' = DOMAIN spi /\ spi'.buf = Append(spi.buf, u)
      BY <1>2, <3>1 DEF SPI_Tx
    <3>. QED
      BY SMTT(30), <3>2
  <2>2. UNCHANGED linkVars
    BY <1>2 DEF SPI_Tx
  <2>. QED
    BY <2>1, <2>2, LinkSame, BufAppend
<1>3. CASE SPI_Rx_Rsp
  <2>1. DOMAIN spi' = DOMAIN spi /\ spi'.buf = spi.buf
    <3>1. "buf" \in DOMAIN spi
      BY DEF HasBuf
    <3>. QED
      BY <1>3, <3>1 DEF SPI_Rx_Rsp, SpiDone
  <2>2. PICK ok, cnt, last : /\ AtReply("spi")
                             /\ Packet(ok, RxRsp) \/ Packet(ok, [k |-> "spi", left |-> cnt, last |-> last])
    BY <1>3 DEF SPI_Rx_Rsp
  <2>. DEFINE next == [k |-> "spi", left |-> cnt, last |-> last]
  <2>3. LinkStep({"spi"})
    <3>1. next.k \in {"spi"} /\ "k" \in DOMAIN next
      OBVIOUS
    <3>2. CASE Packet(ok, RxRsp)
      BY <2>2, <3>2, PacketLinks
    <3>3. CASE Packet(ok, next)
      <4>. HIDE DEF next
      <4>. QED
        BY <2>2, <3>1, <3>3, PacketLinks
    <3>. QED
      BY <2>2, <3>2, <3>3
  <2>. QED
    BY <2>1, <2>3, BufSame
<1>4. CASE SPI_Rx_Byte
  <2>1. DOMAIN spi' = DOMAIN spi /\ spi'.buf = spi.buf
    <3>1. "buf" \in DOMAIN spi
      BY DEF HasBuf
    <3>. QED
      BY <1>4, <3>1 DEF SPI_Rx_Byte, SpiDone
  <2>2. PICK ok : AtByte("spi") /\ DataByte(ok, IF rx.left = 1 THEN RxRsp ELSE [rx EXCEPT !.left = rx.left - 1])
    BY <1>4 DEF SPI_Rx_Byte
  <2>. DEFINE next == IF rx.left = 1 THEN RxRsp ELSE [rx EXCEPT !.left = rx.left - 1]
  <2>3. next = RxRsp \/ (next.k = "spi" /\ "k" \in DOMAIN next)
    BY <2>2, RestOfPacket DEF AtByte
  <2>4. LinkStep({"spi"})
    <3>. HIDE DEF next
    <3>. QED
      BY <2>2, <2>3, ByteLinks DEF next
  <2>. QED
    BY <2>1, <2>4, BufSame
<1>5. CASE SpiDevice
  <2>0. "buf" \in DOMAIN spi
    BY DEF HasBuf
  <2>1. spi.buf # <<>> /\ DOMAIN spi' = DOMAIN spi /\ spi'.buf = Tail(spi.buf)
    BY <1>5, <2>0 DEF SpiDevice
  <2>2. HasBuf(spi', "spi") /\ Head(spi.buf).k = "spi"
    BY <2>1, BufTail
  <2>3. /\ rsp' = Append(rsp, Head(spi.buf)) /\ UNCHANGED <<conn, main, waitIdle, infoRead, pc, plugged, imm, rx>>
    BY <1>5 DEF SpiDevice, Replies
  <2>4. LinkStep({"spi"})
    BY <2>2, <2>3, RepliesLinks
  <2>. QED
    BY <2>2, <2>4
<1>. QED
  BY <1>1, <1>2, <1>3, <1>4, <1>5 DEF SpiRx

OwKinds == {"ow", "ow_touch", "ow_enum"}

LEMMA OwLinks ==
  ASSUME LinkInv, HasBuf(ow, "ow"), OwUser \/ OW_Tx \/ OwRx \/ OwDevice
  PROVE  LinkStep(OwKinds) /\ HasBuf(ow', "ow")
<1>0. "buf" \in DOMAIN ow
  BY DEF HasBuf
<1>1. CASE OwUser
  <2>1. UNCHANGED linkVars
    BY <1>1 DEF OwUser, OW_Xfr_Create, OW_Xfr_Cancel, OW_Xfr_Destroy, OW_Xfr_Schedule, OW_Enable, OW_Disable,
      Enables, Configured, Called
  <2>2. HasBuf(ow', "ow")
    <3>1. CASE OW_Disable
      <4>1. PICK short \in BOOLEAN :
              ow' = [ow EXCEPT !.on = FALSE,
                               !.buf = [i \in DOMAIN ow.buf |-> IF short /\ i = 1 THEN [ow.buf[i] EXCEPT !.short = TRUE]
                                                                ELSE [ow.buf[i] EXCEPT !.skipped = TRUE]]]
        BY <3>1 DEF OW_Disable
      <4>. DEFINE b == [i \in DOMAIN ow.buf |-> IF short /\ i = 1 THEN [ow.buf[i] EXCEPT !.short = TRUE]
                                                ELSE [ow.buf[i] EXCEPT !.skipped = TRUE]]
      <4>2. DOMAIN ow' = DOMAIN ow /\ ow'.buf = b
        BY <1>0, <4>1
      <4>3. b \in [DOMAIN ow.buf -> {b[i] : i \in DOMAIN ow.buf}]
        OBVIOUS
      <4>4. \A i \in DOMAIN ow.buf : DOMAIN b[i] = DOMAIN ow.buf[i] /\ b[i].k = ow.buf[i].k
        OBVIOUS
      <4>. HIDE DEF b
      <4>. QED
        BY <4>2, <4>3, <4>4, BufMap
    <3>2. CASE ~OW_Disable
      <4>1. DOMAIN ow' = DOMAIN ow /\ ow'.buf = ow.buf
        BY <1>0, <1>1, <3>2 DEF OwUser, OW_Xfr_Create, OW_Xfr_Cancel, OW_Xfr_Destroy, OW_Xfr_Schedule, OW_Enable, OwDone
      <4>. QED
        BY <4>1, BufSame
    <3>. QED
      BY <3>1, <3>2
  <2>. QED
    BY <2>1, <2>2, LinkSame
<1>2. CASE OW_Tx
  <2>1. PICK x, id, cnt, skipped :
          /\ DOMAIN ow' = DOMAIN ow
          /\ ow'.buf = Append(ow.buf, [k |-> "ow", x |-> x, id |-> id, cnt |-> cnt, skipped |-> skipped, short |-> FALSE])
    BY <1>0, <1>2 DEF OW_Tx
  <2>. DEFINE u == [k |-> "ow", x |-> x, id |-> id, cnt |-> cnt, skipped |-> skipped, short |-> FALSE]
  <2>2. "k" \in DOMAIN u /\ u.k = "ow"
    OBVIOUS
  <2>3. HasBuf(ow', "ow")
    <3>. HIDE DEF u
    <3>. QED
      BY <2>1, <2>2, BufAppend DEF u
  <2>4. UNCHANGED linkVars
    BY <1>2 DEF OW_Tx
  <2>. QED
    BY <2>3, <2>4, LinkSame
<1>3. CASE OwRx
  <2>1. DOMAIN ow' = DOMAIN ow /\ ow'.buf = ow.buf
    BY <1>0, <1>3 DEF OwRx, OW_Rx_Rsp, OW_Rx_Enum, OW_Rx_Touch_Bits, OW_Rx_Byte, OwDone
  <2>2. LinkStep(OwKinds)
    <3>1. CASE OW_Rx_Rsp \/ OW_Rx_Touch_Bits
      <4>1. PICK ok, left, short : /\ AtReply("ow")
                                   /\ \/ Packet(ok, RxRsp) \/ Packet(ok, [k |-> "ow_enum"])
                                      \/ Packet(ok, [k |-> "ow_touch", left |-> left, short |-> short])
        BY <3>1 DEF OW_Rx_Rsp, OW_Rx_Touch_Bits
      <4>. DEFINE e == [k |-> "ow_enum"]
                  t == [k |-> "ow_touch", left |-> left, short |-> short]
      <4>2. e.k \in OwKinds /\ "k" \in DOMAIN e /\ t.k \in OwKinds /\ "k" \in DOMAIN t /\ "ow" \in OwKinds
        BY DEF OwKinds
      <4>3. Packet(ok, RxRsp) \/ Packet(ok, e) \/ Packet(ok, t)
        BY <4>1
      <4>. HIDE DEF e, t
      <4>. QED
        BY <4>1, <4>2, <4>3, PacketLinks
    <3>2. CASE OW_Rx_Enum
      <4>1. PICK ok : AtByte("ow_enum") /\ DataByte(ok, RxRsp)
        BY <3>2 DEF OW_Rx_Enum
      <4>. QED
        BY <4>1, ByteLinks DEF OwKinds
    <3>3. CASE OW_Rx_Byte
      <4>1. PICK ok : AtByte("ow_touch") /\ (DataByte(ok, RxRsp) \/ DataByte(ok, [rx EXCEPT !.left = rx.left - 1]))
        BY <3>3 DEF OW_Rx_Byte
      <4>. DEFINE next == [rx EXCEPT !.left = rx.left - 1]
      <4>2. next.k \in OwKinds /\ "k" \in DOMAIN next /\ "ow_touch" \in OwKinds
        BY <4>1, RestOfPacket DEF AtByte, OwKinds
      <4>3. DataByte(ok, RxRsp) \/ DataByte(ok, next)
        BY <4>1
      <4>. HIDE DEF next
      <4>. QED
        BY <4>1, <4>2, <4>3, ByteLinks
    <3>. QED
      BY <1>3, <3>1, <3>2, <3>3 DEF OwRx
  <2>. QED
    BY <2>1, <2>2, BufSame
<1>4. CASE OwDevice
  <2>1. ow.buf # <<>> /\ DOMAIN ow' = DOMAIN ow /\ ow'.buf = Tail(ow.buf)
    BY <1>0, <1>4 DEF OwDevice
  <2>2. HasBuf(ow', "ow") /\ Head(ow.buf).k = "ow"
    BY <2>1, BufTail
  <2>3. /\ rsp' = Append(rsp, Head(ow.buf)) /\ UNCHANGED <<conn, main, waitIdle, infoRead, pc, plugged, imm, rx>>
    BY <1>4 DEF OwDevice, Replies
  <2>4. LinkStep(OwKinds)
    BY <2>2, <2>3, RepliesLinks DEF OwKinds
  <2>. QED
    BY <2>2, <2>4
<1>. QED
  BY <1>1, <1>2, <1>3, <1>4

\* A step that leaves the commands in the device's buffer alone.
KeepsBuf(s, t) == DOMAIN t = DOMAIN s /\ t.buf = s.buf

LEMMA TwiKeepsBuf ==
  ASSUME NEW t, "buf" \in DOMAIN t, NEW x, NEW q
  PROVE  KeepsBuf(t, TwiSchedule(t, x, q)) /\ KeepsBuf(t, TwiCancel(t, x)) /\ KeepsBuf(t, TwiDestroy(t, x))
  BY DEF KeepsBuf, TwiSchedule, TwiCancel, TwiDestroy, TWI_Xfr_Master_Complete

\* The operations of a bus.
LEMMA BusKeepsBuf ==
  ASSUME NEW b, DOMAIN b = {"twi", "slots"}, "buf" \in DOMAIN b.twi, NEW i, NEW q
  PROVE  /\ KeepsBuf(b.twi, I2CBUS_Xfr_Schedule_CB(b, i, q).twi) /\ DOMAIN I2CBUS_Xfr_Schedule_CB(b, i, q) = DOMAIN b
         /\ KeepsBuf(b.twi, I2CBUS_Xfr_Cancel_CB(b, i).twi) /\ DOMAIN I2CBUS_Xfr_Cancel_CB(b, i) = DOMAIN b
         /\ KeepsBuf(b.twi, I2CBUS_Xfr_Get_Status_CB(b, i).twi)
<1>1. KeepsBuf(b.twi, I2CBUS_Xfr_Schedule_CB(b, i, q).twi) /\ DOMAIN I2CBUS_Xfr_Schedule_CB(b, i, q) = DOMAIN b
  <2>. DEFINE x == FreeXfr(b.twi.pool)
              t == [b.twi EXCEPT !.pool = Create(@, x)]
  <2>1. I2CBUS_Xfr_Schedule_CB(b, i, q) = [twi |-> TwiSchedule(t, x, q), slots |-> [b.slots EXCEPT ![i] = x]]
    BY DEF I2CBUS_Xfr_Schedule_CB
  <2>2. KeepsBuf(b.twi, t)
    BY DEF KeepsBuf
  <2>. HIDE DEF t
  <2>3. KeepsBuf(t, TwiSchedule(t, x, q))
    BY <2>2, TwiKeepsBuf DEF KeepsBuf
  <2>. QED
    BY <2>1, <2>2, <2>3 DEF KeepsBuf
<1>2. KeepsBuf(b.twi, I2CBUS_Xfr_Cancel_CB(b, i).twi) /\ DOMAIN I2CBUS_Xfr_Cancel_CB(b, i) = DOMAIN b
  <2>1. KeepsBuf(b.twi, TwiCancel(b.twi, b.slots[i]))
    BY TwiKeepsBuf
  <2>. QED
    BY <2>1 DEF I2CBUS_Xfr_Cancel_CB, KeepsBuf
<1>3. KeepsBuf(b.twi, I2CBUS_Xfr_Get_Status_CB(b, i).twi)
  <2>1. KeepsBuf(b.twi, TwiDestroy(b.twi, b.slots[i]))
    BY TwiKeepsBuf
  <2>. QED
    BY <2>1 DEF I2CBUS_Xfr_Get_Status_CB, KeepsBuf
<1>. QED
  BY <1>1, <1>2, <1>3

LEMMA CardLinks ==
  ASSUME "buf" \in DOMAIN twi, CardUser
  PROVE  UNCHANGED linkVars /\ KeepsBuf(twi, twi')
<1>1. UNCHANGED linkVars
  BY DEF CardUser, CardSync, CardOpens, CardCalls, CardSkips, CardStepsInVain, CardAsks, CardTimeout, CardReceives,
    CardCommand, Configured, Called
<1>2. DOMAIN Bus = {"twi", "slots"} /\ Bus.twi = twi
  BY DEF Bus
<1>. DEFINE Good(b) == DOMAIN b = {"twi", "slots"} /\ KeepsBuf(twi, b.twi)
<1>3. Good(Bus)
  BY <1>2 DEF KeepsBuf
<1>4. ASSUME NEW b, Good(b), NEW i, NEW q
      PROVE  /\ Good(I2CBUS_Xfr_Schedule_CB(b, i, q)) /\ Good(I2CBUS_Xfr_Cancel_CB(b, i))
             /\ KeepsBuf(twi, I2CBUS_Xfr_Get_Status_CB(b, i).twi)
  <2>1. "buf" \in DOMAIN b.twi
    BY <1>4 DEF KeepsBuf
  <2>. QED
    BY <1>4, <2>1, BusKeepsBuf DEF KeepsBuf
<1>5. ASSUME NEW b, Good(b), GivesUp(b) \/ Polls(b) PROVE KeepsBuf(twi, twi')
  <2>1. twi' \in {b.twi, I2CBUS_Xfr_Cancel_CB(b, 1).twi, I2CBUS_Xfr_Cancel_CB(I2CBUS_Xfr_Cancel_CB(b, 1), 2).twi}
    BY <1>5 DEF GivesUp, Polls
  <2>2. Good(I2CBUS_Xfr_Cancel_CB(b, 1))
    BY <1>4, <1>5
  <2>3. Good(I2CBUS_Xfr_Cancel_CB(I2CBUS_Xfr_Cancel_CB(b, 1), 2))
    BY <1>4, <2>2
  <2>. QED
    BY <1>5, <2>1, <2>2, <2>3
<1>6. ASSUME CardOpens PROVE KeepsBuf(twi, twi')
  BY <1>6 DEF CardOpens, KeepsBuf
<1>7. ASSUME CardCalls PROVE KeepsBuf(twi, twi')
  <2>. DEFINE b1 == I2CBUS_Xfr_Schedule_CB(Bus, 1, Call[1])
              b2 == I2CBUS_Xfr_Schedule_CB(b1, 2, Call[2])
  <2>1. Good(b1)
    BY <1>3, <1>4
  <2>2. Good(b2)
    BY <1>4, <2>1
  <2>3. GivesUp(Bus) \/ Polls(b1) \/ Polls(b2) \/ GivesUp(b1)
    BY <1>7 DEF CardCalls
  <2>. HIDE DEF b1, b2, Good
  <2>. QED
    BY <1>3, <1>5, <2>1, <2>2, <2>3
<1>8. ASSUME CardAsks PROVE KeepsBuf(twi, twi')
  <2>1. twi' = I2CBUS_Xfr_Get_Status_CB(Bus, card.at).twi
    BY <1>8 DEF CardAsks
  <2>. QED
    BY <1>3, <1>4, <2>1
<1>9. ASSUME CardTimeout PROVE KeepsBuf(twi, twi')
  BY <1>3, <1>5, <1>9 DEF CardTimeout
<1>10. ASSUME CardSkips \/ CardStepsInVain \/ CardReceives \/ CardCommand PROVE KeepsBuf(twi, twi')
  BY <1>10 DEF CardSkips, CardStepsInVain, CardReceives, CardCommand, KeepsBuf
<1>. QED
  BY <1>1, <1>6, <1>7, <1>8, <1>9, <1>10 DEF CardUser, CardSync

LEMMA TwiLinks ==
  ASSUME LinkInv, HasBuf(twi, "twi"), CardUser \/ (\E q : TwiUser(q)) \/ TwiTx \/ TwiRx \/ TwiDevice
  PROVE  LinkStep({"twi"}) /\ HasBuf(twi', "twi")
<1>0. "buf" \in DOMAIN twi
  BY DEF HasBuf
<1>. DEFINE K == {"twi"}
<1>1. CASE CardUser
  <2>1. UNCHANGED linkVars /\ KeepsBuf(twi, twi')
    BY <1>0, <1>1, CardLinks
  <2>. QED
    BY <2>1, LinkSame, BufSame DEF KeepsBuf
<1>2. ASSUME NEW q, TwiUser(q) PROVE LinkStep(K) /\ HasBuf(twi', "twi")
  <2>1. UNCHANGED linkVars
    BY <1>2 DEF TwiUser, TWI_Xfr_Create, TWI_Xfr_Cancel, TWI_Xfr_Destroy, TWI_Xfr_Master_Schedule, TWI_Enable, TWI_Disable,
      Enables, Configured, Called
  <2>2. HasBuf(twi', "twi")
    <3>1. CASE TWI_Disable
      <4>. DEFINE b == [i \in DOMAIN twi.buf |-> [twi.buf[i] EXCEPT !.skipped = TRUE]]
      <4>2. DOMAIN twi' = DOMAIN twi /\ twi'.buf = b
        BY <1>0, <3>1 DEF TWI_Disable
      <4>3. b \in [DOMAIN twi.buf -> {b[i] : i \in DOMAIN twi.buf}]
        OBVIOUS
      <4>4. \A i \in DOMAIN twi.buf : DOMAIN b[i] = DOMAIN twi.buf[i] /\ b[i].k = twi.buf[i].k
        OBVIOUS
      <4>. HIDE DEF b
      <4>. QED
        BY ZenonT(40), <4>2, <4>3, <4>4, BufMap
    <3>2. CASE ~TWI_Disable
      <4>1. KeepsBuf(twi, twi')
        <5>1. \A x, r : /\ KeepsBuf(twi, TwiSchedule(twi, x, r)) /\ KeepsBuf(twi, TwiCancel(twi, x))
                        /\ KeepsBuf(twi, TwiDestroy(twi, x))
          BY <1>0, TwiKeepsBuf
        <5>2. \A x : TWI_Xfr_Create(x) => KeepsBuf(twi, twi')
          BY <1>0 DEF TWI_Xfr_Create, KeepsBuf
        <5>3. TWI_Enable => KeepsBuf(twi, twi')
          BY <1>0 DEF TWI_Enable, KeepsBuf
        <5>. QED
          BY <1>2, <3>2, <5>1, <5>2, <5>3 DEF TwiUser, TWI_Xfr_Cancel, TWI_Xfr_Destroy, TWI_Xfr_Master_Schedule
      <4>. QED
        BY <4>1, BufSame DEF KeepsBuf
    <3>. QED
      BY <3>1, <3>2
  <2>. QED
    BY <2>1, <2>2, LinkSame
<1>3. CASE TwiTx
  <2>1. UNCHANGED linkVars
    BY <1>3 DEF TwiTx, TWI_Tx_Stop, TWI_Tx_Start, TWI_Tx_Data
  <2>2. ASSUME NEW x, NEW cmd, NEW dir, NEW cnt PROVE "k" \in DOMAIN TwiCommand(x, cmd, dir, cnt) /\ TwiCommand(x, cmd, dir, cnt).k = "twi"
    BY DEF TwiCommand
  <2>3. ASSUME NEW c PROVE DOMAIN Put(twi, c) = DOMAIN twi /\ Put(twi, c).buf = Append(twi.buf, c)
    BY <1>0 DEF Put
  <2>4. ASSUME NEW t PROVE DOMAIN Next_Xfr(t) = DOMAIN t /\ Next_Xfr(t).buf = t.buf
    BY DEF Next_Xfr
  <2>5. \E x, cmd, dir, cnt : DOMAIN twi' = DOMAIN twi /\ twi'.buf = Append(twi.buf, TwiCommand(x, cmd, dir, cnt))
    <3>1. CASE TWI_Tx_Stop
      BY <1>0, <2>3, <3>1 DEF TWI_Tx_Stop
    <3>2. CASE TWI_Tx_Start
      <4>. DEFINE cur == twi.pool.cur
                  p   == twi.prog[cur]
                  c   == TwiCommand(cur, "start", p.dir, 0)
                  t   == Put(twi, c)
      <4>1. twi' = IF p.sc = 0 THEN Next_Xfr(t) ELSE [t EXCEPT !.pool = Transmit(@, FALSE), !.prog[cur].tx = 1]
        BY <3>2 DEF TWI_Tx_Start
      <4>2. DOMAIN t = DOMAIN twi /\ t.buf = Append(twi.buf, c)
        BY <2>3
      <4>. HIDE DEF t
      <4>3. DOMAIN twi' = DOMAIN twi /\ twi'.buf = Append(twi.buf, c)
        BY <1>0, <2>4, <4>1, <4>2
      <4>. QED
        BY <4>3
    <3>3. CASE TWI_Tx_Data
      <4>. DEFINE cur == twi.pool.cur
                  p   == twi.prog[cur]
                  cnt == Min({p.sc - p.cmd, TwiPacket, twi.free - 3})
                  c   == TwiCommand(cur, "data", p.dir, cnt)
                  d   == Put(twi, c)
                  t   == [d EXCEPT !.prog[cur].cmd = @ + cnt]
      <4>1. twi' = IF p.cmd + cnt = p.sc THEN Next_Xfr(t) ELSE t
        BY <3>3 DEF TWI_Tx_Data
      <4>2. DOMAIN d = DOMAIN twi /\ d.buf = Append(twi.buf, c)
        BY <2>3
      <4>. HIDE DEF d
      <4>3. DOMAIN t = DOMAIN twi /\ t.buf = Append(twi.buf, c)
        BY <1>0, <4>2
      <4>. HIDE DEF t
      <4>4. DOMAIN twi' = DOMAIN twi /\ twi'.buf = Append(twi.buf, c)
        BY <2>4, <4>1, <4>3
      <4>. QED
        BY <4>4
    <3>. QED
      BY <1>3, <3>1, <3>2, <3>3 DEF TwiTx
  <2>. QED
    BY <2>1, <2>2, <2>5, LinkSame, BufAppend
<1>4. CASE TwiRx
  <2>1. KeepsBuf(twi, twi')
    <3>1. ASSUME NEW r PROVE KeepsBuf(twi, Credited(r))
      BY <1>0 DEF Credited, KeepsBuf
    <3>2. ASSUME NEW t, KeepsBuf(twi, t), NEW p PROVE KeepsBuf(twi, Progress(t, p)) /\ KeepsBuf(twi, [t EXCEPT !.prog[TwiHead] = p])
      BY <1>0, <3>2 DEF Progress, TWI_Xfr_Master_Complete, KeepsBuf
    <3>3. KeepsBuf(twi, twi)
      BY DEF KeepsBuf
    <3>4. CASE TWI_Rx_Stop
      BY <3>1, <3>4 DEF TWI_Rx_Stop
    <3>5. CASE TWI_Rx_Start
      <4>. DEFINE r  == Head(rsp)
                  q  == [twi.prog[TwiHead] EXCEPT !.short = @ \/ r.skipped]
                  q1 == [q EXCEPT !.rx = 1]
      <4>1. twi' \in {twi, Progress(Credited(r), q), [Credited(r) EXCEPT !.prog[TwiHead] = q1]}
        BY <3>5 DEF TWI_Rx_Start
      <4>. HIDE DEF q, q1
      <4>2. KeepsBuf(twi, Credited(r))
        BY <3>1
      <4>3. KeepsBuf(twi, Progress(Credited(r), q))
        BY <3>2, <4>2
      <4>4. KeepsBuf(twi, [Credited(r) EXCEPT !.prog[TwiHead] = q1])
        BY <3>2, <4>2
      <4>. QED
        BY <3>3, <4>1, <4>3, <4>4
    <3>6. CASE TWI_Rx_Master_Tx_Rsp
      <4>1. KeepsBuf(twi, Progress(Credited(Head(rsp)), Replied(Head(rsp))))
        BY <3>1, <3>2
      <4>. QED
        BY <3>3, <3>6, <4>1 DEF TWI_Rx_Master_Tx_Rsp
    <3>7. CASE TWI_Rx_Master_Rx_Rsp
      <4>. DEFINE r == Head(rsp)
      <4>1. twi' \in {twi, Progress(Credited(r), Replied(r)), [Credited(r) EXCEPT !.prog[TwiHead] = Replied(r)]}
        BY <3>7 DEF TWI_Rx_Master_Rx_Rsp
      <4>2. KeepsBuf(twi, Credited(r))
        BY <3>1
      <4>3. KeepsBuf(twi, Progress(Credited(r), Replied(r)))
        BY <3>2, <4>2
      <4>4. KeepsBuf(twi, [Credited(r) EXCEPT !.prog[TwiHead] = Replied(r)])
        BY <3>2, <4>2
      <4>. QED
        BY <3>3, <4>1, <4>3, <4>4
    <3>8. CASE TWI_Rx_Master_Rx_Byte
      BY <3>2, <3>3, <3>8 DEF TWI_Rx_Master_Rx_Byte
    <3>. QED
      BY <1>4, <3>4, <3>5, <3>6, <3>7, <3>8 DEF TwiRx
  <2>2. LinkStep({"twi"})
    <3>1. CASE TWI_Rx_Master_Rx_Byte
      <4>1. PICK ok : AtByte("twi") /\ (DataByte(ok, RxRsp) \/ DataByte(ok, [rx EXCEPT !.left = rx.left - 1]))
        BY <3>1 DEF TWI_Rx_Master_Rx_Byte
      <4>. DEFINE next == [rx EXCEPT !.left = rx.left - 1]
      <4>2. next.k \in K /\ "k" \in DOMAIN next
        BY <4>1, RestOfPacket DEF AtByte
      <4>3. DataByte(ok, RxRsp) \/ DataByte(ok, next)
        BY <4>1
      <4>. HIDE DEF next
      <4>. QED
        BY <4>1, <4>2, <4>3, ByteLinks
    <3>2. CASE ~TWI_Rx_Master_Rx_Byte
      <4>1. PICK ok, left : AtReply("twi") /\ (Packet(ok, RxRsp) \/ Packet(ok, [k |-> "twi", left |-> left]))
        BY <1>4, <3>2 DEF TwiRx, TWI_Rx_Stop, TWI_Rx_Start, TWI_Rx_Master_Tx_Rsp, TWI_Rx_Master_Rx_Rsp
      <4>. DEFINE next == [k |-> "twi", left |-> left]
      <4>2. next.k \in K /\ "k" \in DOMAIN next
        OBVIOUS
      <4>3. Packet(ok, RxRsp) \/ Packet(ok, next)
        BY <4>1
      <4>. HIDE DEF next
      <4>. QED
        BY <4>1, <4>2, <4>3, PacketLinks
    <3>. QED
      BY <3>1, <3>2
  <2>. QED
    BY <2>1, <2>2, BufSame DEF KeepsBuf
<1>5. CASE TwiDevice
  <2>. DEFINE c == Head(twi.buf)
  <2>1. PICK done, skipped, bus : twi.buf # <<>> /\ DeviceDoes(c, done, skipped, bus)
    BY <1>5 DEF TwiDevice
  <2>. DEFINE u == [c EXCEPT !.done = done, !.skipped = skipped]
  <2>2. DOMAIN twi' = DOMAIN twi /\ twi'.buf = Tail(twi.buf)
    BY <1>0, <2>1 DEF DeviceDoes
  <2>3. HasBuf(twi', "twi") /\ c.k = "twi" /\ "k" \in DOMAIN c
    BY <2>1, <2>2, BufTail
  <2>4. u.k = "twi"
    BY <2>3
  <2>5. rsp' = Append(rsp, u) /\ UNCHANGED <<conn, main, waitIdle, infoRead, pc, plugged, imm, rx>>
    BY <1>5, <2>1 DEF TwiDevice, DeviceDoes, Replies
  <2>6. LinkStep(K)
    <3>. HIDE DEF u
    <3>. QED
      BY <2>4, <2>5, RepliesLinks
  <2>. QED
    BY <2>3, <2>6
<1>. QED
  BY <1>1, <1>2, <1>3, <1>4, <1>5

\* What the application asks of a side, and what the library makes of it.
LEMMA SideKeepsBuf ==
  ASSUME NEW s, "buf" \in DOMAIN s, NEW t, SideCalls(s, t)
  PROVE  KeepsBuf(s, t)
  BY DEF SideCalls, SideDone, SideSchedule, KeepsBuf

LEMMA BufEmpties ==
  ASSUME NEW s, NEW k, HasBuf(s, k), NEW t, DOMAIN t = DOMAIN s, t.buf = <<>> \/ t.buf = s.buf
  PROVE  HasBuf(t, k)
  BY AmongNone DEF HasBuf

LEMMA SideEndsBuf ==
  ASSUME NEW s, "buf" \in DOMAIN s, NEW p
  PROVE  /\ DOMAIN TWI_Xfr_Slave_Tx_Chk_Complete(s, p) = DOMAIN s
         /\ TWI_Xfr_Slave_Tx_Chk_Complete(s, p).buf \in {<<>>, s.buf}
         /\ DOMAIN TWI_Xfr_Slave_Rx_Chk_Complete(s, p) = DOMAIN s
         /\ TWI_Xfr_Slave_Rx_Chk_Complete(s, p).buf \in {<<>>, s.buf}
<1>1. DOMAIN Cleared(s, p) = DOMAIN s /\ Cleared(s, p).buf \in {<<>>, s.buf}
  BY DEF Cleared
<1>2. ASSUME NEW t, DOMAIN t = DOMAIN s PROVE DOMAIN SideDone(t, Oldest(s)) = DOMAIN s /\ SideDone(t, Oldest(s)).buf = t.buf
  BY <1>2 DEF SideDone
<1>. QED
  BY <1>1, <1>2 DEF TWI_Xfr_Slave_Tx_Chk_Complete, TWI_Xfr_Slave_Rx_Chk_Complete

LEMMA SideSendBuf ==
  ASSUME NEW s, NEW k, HasBuf(s, k)
  PROVE  HasBuf(SideSend(s, k), k)
<1>0. "buf" \in DOMAIN s
  BY DEF HasBuf
<1>. DEFINE cur == s.pool.cur
            p   == s.prog[cur]
            cnt == Min({p.sc - p.cmd, SlavePacket, s.free - 2})
            all == p.cmd + cnt = p.sc
            u   == [k |-> k, x |-> cur, cnt |-> cnt, done |-> 0, first |-> p.cmd = 0,
                    fin |-> p.last, marked |-> all /\ p.last, skipped |-> ~slaveOn]
            t   == SideSend(s, k)
<1>1. t = [s EXCEPT !.free = @ - SlaveCost(cnt), !.pool = Transmit(@, all), !.prog[cur].cmd = @ + cnt, !.buf = Append(@, u)]
  BY DEF SideSend
<1>2. "k" \in DOMAIN u /\ u.k = k
  OBVIOUS
<1>. HIDE DEF u, cnt, all, t
<1>3. DOMAIN t = DOMAIN s /\ t.buf = Append(s.buf, u)
  BY <1>0, <1>1
<1>4. HasBuf(t, k)
  BY <1>2, <1>3, BufAppend
<1>. QED
  BY <1>4 DEF t

LEMMA SideSkips ==
  ASSUME NEW s, NEW k, HasBuf(s, k), NEW t, DOMAIN t = DOMAIN s, t.buf = Skipped(s.buf)
  PROVE  HasBuf(t, k)
<1>. DEFINE b == [i \in DOMAIN s.buf |-> [s.buf[i] EXCEPT !.skipped = TRUE]]
<1>1. DOMAIN t = DOMAIN s /\ t.buf = b
  BY DEF Skipped
<1>2. b \in [DOMAIN s.buf -> {b[i] : i \in DOMAIN s.buf}]
  OBVIOUS
<1>3. \A i \in DOMAIN s.buf : DOMAIN b[i] = DOMAIN s.buf[i] /\ b[i].k = s.buf[i].k
  OBVIOUS
<1>. DEFINE T == {b[i] : i \in DOMAIN s.buf}
<1>4. b \in [DOMAIN s.buf -> T]
  BY <1>2
<1>5. HasBuf(s, k) /\ DOMAIN t = DOMAIN s /\ t.buf = b
  BY <1>1
<1>. HIDE DEF b, T
<1>. QED
  BY ZenonT(40), <1>3, <1>4, <1>5, BufMap

LEMMA SideAnswers ==
  ASSUME NEW s, NEW k, HasBuf(s, k), NEW t, SideDevice(s, t), LinkInv
  PROVE  LinkStep({k}) /\ HasBuf(t, k)
<1>. DEFINE c == Head(s.buf)
<1>1. PICK done, skipped, skip : /\ s.buf # <<>> /\ Replies([c EXCEPT !.done = done, !.skipped = skipped])
                                 /\ t = [s EXCEPT !.buf = Tail(@), !.skip = skip]
  BY DEF SideDevice
<1>. DEFINE u == [c EXCEPT !.done = done, !.skipped = skipped]
<1>2. DOMAIN t = DOMAIN s /\ t.buf = Tail(s.buf)
  BY <1>1 DEF HasBuf
<1>3. HasBuf(t, k) /\ c.k = k /\ "k" \in DOMAIN c
  BY <1>1, <1>2, BufTail
<1>4. u.k = k
  BY <1>3
<1>5. rsp' = Append(rsp, u) /\ UNCHANGED <<conn, main, waitIdle, infoRead, pc, plugged, imm, rx>>
  BY <1>1 DEF SideDevice, Replies
<1>6. LinkStep({k})
  <2>. HIDE DEF u
  <2>. QED
    BY <1>4, <1>5, RepliesLinks
<1>. QED
  BY <1>3, <1>6

SlaveStep ==
  \/ StxUser \/ SrxUser \/ TWI_Slave_Enable \/ TWI_Slave_Disable \/ TWI_Tx_Slave_Tx \/ TWI_Tx_Slave_Rx
  \/ SlaveRx \/ StxDevice \/ SrxDevice

LEMMA SlaveLinks ==
  ASSUME LinkInv, HasBuf(stx, "stx"), HasBuf(srx, "srx"), SlaveStep
  PROVE  LinkStep({"stx", "srx"}) /\ HasBuf(stx', "stx") /\ HasBuf(srx', "srx")
<1>0. "buf" \in DOMAIN stx /\ "buf" \in DOMAIN srx
  BY DEF HasBuf
<1>. DEFINE K == {"stx", "srx"}
            Goal == LinkStep(K) /\ HasBuf(stx', "stx") /\ HasBuf(srx', "srx")
<1>1. ASSUME StxUser \/ SrxUser PROVE Goal
  <2>1. UNCHANGED linkVars /\ \A k : LinkStep(k)
    BY <1>1, LinkSame DEF StxUser, SrxUser, Called
  <2>2. CASE StxUser
    <3>1. KeepsBuf(stx, stx') /\ srx' = srx
      BY <1>0, <2>2, SideKeepsBuf DEF StxUser
    <3>. QED
      BY <2>1, <3>1, BufSame DEF KeepsBuf
  <2>3. CASE SrxUser
    <3>1. KeepsBuf(srx, srx') /\ stx' = stx
      BY <1>0, <2>3, SideKeepsBuf DEF SrxUser
    <3>. QED
      BY <2>1, <3>1, BufSame DEF KeepsBuf
  <2>. QED
    BY <1>1, <2>2, <2>3
<1>2. ASSUME TWI_Slave_Enable \/ TWI_Slave_Disable PROVE Goal
  <2>1. UNCHANGED linkVars /\ \A k : LinkStep(k)
    BY <1>2, LinkSame DEF TWI_Slave_Enable, TWI_Slave_Disable, Enables, Configured, Called
  <2>2. CASE TWI_Slave_Enable
    BY <2>1, <2>2 DEF TWI_Slave_Enable
  <2>3. CASE TWI_Slave_Disable
    <3>1. /\ DOMAIN stx' = DOMAIN stx /\ stx'.buf = Skipped(stx.buf)
          /\ DOMAIN srx' = DOMAIN srx /\ srx'.buf = Skipped(srx.buf)
      BY <1>0, <2>3 DEF TWI_Slave_Disable
    <3>. QED
      BY <2>1, <3>1, SideSkips
  <2>. QED
    BY <1>2, <2>2, <2>3
<1>3. ASSUME TWI_Tx_Slave_Tx \/ TWI_Tx_Slave_Rx PROVE Goal
  <2>1. UNCHANGED linkVars /\ \A k : LinkStep(k)
    BY <1>3, LinkSame DEF TWI_Tx_Slave_Tx, TWI_Tx_Slave_Rx
  <2>2. HasBuf(SideSend(stx, "stx"), "stx") /\ HasBuf(SideSend(srx, "srx"), "srx")
    BY SideSendBuf
  <2>. QED
    BY <1>3, <2>1, <2>2 DEF TWI_Tx_Slave_Tx, TWI_Tx_Slave_Rx
<1>4. ASSUME TWI_Rx_Slave_Tx_Rsp PROVE Goal
  <2>1. PICK ok : AtReply("stx") /\ Packet(ok, RxRsp) /\ srx' = srx
    BY <1>4 DEF TWI_Rx_Slave_Tx_Rsp
  <2>2. LinkStep(K)
    BY <2>1, PacketLinks
  <2>3. DOMAIN stx' = DOMAIN stx /\ stx'.buf \in {<<>>, stx.buf}
    <3>. DEFINE r == Head(rsp)
                s == [stx EXCEPT !.free = @ + SlaveCost(r.cnt)]
    <3>1. DOMAIN s = DOMAIN stx /\ s.buf = stx.buf
      BY <1>0
    <3>2. stx' = stx \/ \E q : stx' = TWI_Xfr_Slave_Tx_Chk_Complete(s, q)
      BY <1>4 DEF TWI_Rx_Slave_Tx_Rsp
    <3>. HIDE DEF s
    <3>. QED
      BY <1>0, <3>1, <3>2, SideEndsBuf
  <2>. QED
    BY <2>1, <2>2, <2>3, BufEmpties
<1>5. ASSUME TWI_Rx_Slave_Rx_Rsp PROVE Goal
  <2>1. PICK ok, left : AtReply("srx") /\ (Packet(ok, RxRsp) \/ Packet(ok, [k |-> "srx", left |-> left])) /\ stx' = stx
    BY <1>5 DEF TWI_Rx_Slave_Rx_Rsp
  <2>2. LinkStep(K)
    <3>. DEFINE next == [k |-> "srx", left |-> left]
    <3>1. next.k \in K /\ "k" \in DOMAIN next
      OBVIOUS
    <3>2. Packet(ok, RxRsp) \/ Packet(ok, next)
      BY <2>1
    <3>. HIDE DEF next
    <3>. QED
      BY <2>1, <3>1, <3>2, PacketLinks
  <2>3. DOMAIN srx' = DOMAIN srx /\ srx'.buf \in {<<>>, srx.buf}
    <3>. DEFINE r == Head(rsp)
                s == [srx EXCEPT !.free = @ + SlaveCost(r.cnt)]
    <3>1. DOMAIN s = DOMAIN srx /\ s.buf = srx.buf
      BY <1>0
    <3>2. srx' = srx \/ \E q : srx' = TWI_Xfr_Slave_Rx_Chk_Complete(s, q) \/ srx' = [s EXCEPT !.prog[Oldest(srx)] = q]
      BY <1>5 DEF TWI_Rx_Slave_Rx_Rsp
    <3>. HIDE DEF s
    <3>. QED
      BY <1>0, <3>1, <3>2, SideEndsBuf
  <2>. QED
    BY <2>1, <2>2, <2>3, BufEmpties
<1>6. ASSUME TWI_Rx_Slave_Rx_Byte PROVE Goal
  <2>1. PICK ok : AtByte("srx") /\ (DataByte(ok, RxRsp) \/ DataByte(ok, [rx EXCEPT !.left = rx.left - 1])) /\ stx' = stx
    BY <1>6 DEF TWI_Rx_Slave_Rx_Byte
  <2>2. LinkStep(K)
    <3>. DEFINE next == [rx EXCEPT !.left = rx.left - 1]
    <3>1. next.k \in K /\ "k" \in DOMAIN next
      BY <2>1, RestOfPacket DEF AtByte
    <3>2. DataByte(ok, RxRsp) \/ DataByte(ok, next)
      BY <2>1
    <3>. HIDE DEF next
    <3>. QED
      BY <2>1, <3>1, <3>2, ByteLinks
  <2>3. DOMAIN srx' = DOMAIN srx /\ srx'.buf \in {<<>>, srx.buf}
    <3>2. srx' = srx \/ \E q : srx' = TWI_Xfr_Slave_Rx_Chk_Complete(srx, q) \/ srx' = [srx EXCEPT !.prog[Oldest(srx)] = q]
      BY <1>6 DEF TWI_Rx_Slave_Rx_Byte
    <3>. QED
      BY <1>0, <3>2, SideEndsBuf
  <2>. QED
    BY <2>1, <2>2, <2>3, BufEmpties
<1>7. ASSUME StxDevice \/ SrxDevice PROVE Goal
  <2>1. CASE StxDevice
    <3>1. SideDevice(stx, stx') /\ srx' = srx
      BY <2>1 DEF StxDevice
    <3>2. LinkStep({"stx"}) /\ HasBuf(stx', "stx")
      BY <3>1, SideAnswers
    <3>3. LinkStep(K)
      BY <3>2, LinkWider
    <3>. QED
      BY <3>1, <3>2, <3>3
  <2>2. CASE SrxDevice
    <3>1. SideDevice(srx, srx') /\ stx' = stx
      BY <2>2 DEF SrxDevice
    <3>2. LinkStep({"srx"}) /\ HasBuf(srx', "srx")
      BY <3>1, SideAnswers
    <3>3. LinkStep(K)
      BY <3>2, LinkWider
    <3>. QED
      BY <3>1, <3>2, <3>3
  <2>. QED
    BY <1>7, <2>1, <2>2
<1>. QED
  BY <1>1, <1>2, <1>3, <1>4, <1>5, <1>6, <1>7 DEF SlaveStep, SlaveRx

UartStep == UartSetup \/ UartWriter \/ UartReader \/ UART_Tx \/ UartRx \/ UartDevice

UartKinds == {"uart", "txfree"}

LEMMA UartLinks ==
  ASSUME LinkInv, UartStep
  PROVE  LinkStep(UartKinds)
<1>1. CASE UART_Enable
  <2>. DEFINE u == [k |-> "txfree", n |-> UartLen]
  <2>1. imm' = Append(imm, u) /\ UNCHANGED <<conn, main, waitIdle, infoRead, pc, plugged, rsp, rx>> /\ u.k = "txfree"
    BY <1>1 DEF UART_Enable
  <2>2. "txfree" \in UartKinds \cap ImmKinds
    BY DEF UartKinds, ImmKinds
  <2>. HIDE DEF u
  <2>. QED
    BY <2>1, <2>2 DEF LinkStep, Came
<1>2. CASE UART_Disable \/ (\E wide \in BOOLEAN : UART_Set_Data_Bits(wide)) \/ UartWriter
           \/ (\E n \in 1..UartWrites : UART_Read(n)) \/ UART_Tx \/ UartLineSends
  <2>1. UNCHANGED linkVars
    BY <1>2 DEF UART_Disable, UART_Set_Data_Bits, UartWriter, UART_Write, UART_Read, UART_Tx, UartLineSends, Configured, Called
  <2>. QED
    BY <2>1, LinkSame
<1>3. CASE UartLineReceives \/ UartAnnounces
  <2>1. PICK n, bytes : Replies([k |-> "txfree", n |-> n]) \/ Replies([k |-> "uart", bytes |-> bytes])
    BY <1>3 DEF UartLineReceives, UartAnnounces
  <2>2. UNCHANGED <<conn, main, waitIdle, infoRead, pc, plugged, imm, rx>>
    BY <1>3 DEF UartLineReceives, UartAnnounces
  <2>. DEFINE u == [k |-> "txfree", n |-> n]
              v == [k |-> "uart", bytes |-> bytes]
  <2>3. u.k \in UartKinds /\ v.k \in UartKinds
    BY DEF UartKinds
  <2>4. rsp' = Append(rsp, u) \/ rsp' = Append(rsp, v)
    BY <2>1 DEF Replies
  <2>. HIDE DEF u, v
  <2>. QED
    BY <2>2, <2>3, <2>4, RepliesLinks
<1>4. CASE UART_Rx_Tx_Free
  <2>1. PICK ok : AtReply("txfree") /\ Packet(ok, RxRsp)
    BY <1>4 DEF UART_Rx_Tx_Free
  <2>. QED
    BY <2>1, PacketLinks DEF UartKinds
<1>5. CASE UART_Rx_Rsp
  <2>. DEFINE next == [k |-> "uart", bytes |-> Head(rsp).bytes]
  <2>1. AtReply("uart") /\ Packet(TRUE, next)
    BY <1>5 DEF UART_Rx_Rsp
  <2>2. next.k \in UartKinds /\ "k" \in DOMAIN next /\ "uart" \in UartKinds
    BY DEF UartKinds
  <2>. HIDE DEF next
  <2>. QED
    BY <2>1, <2>2, PacketLinks
<1>6. CASE UART_Rx_Byte
  <2>. DEFINE next == [rx EXCEPT !.bytes = Tail(@)]
  <2>1. AtByte("uart") /\ (DataByte(TRUE, RxRsp) \/ DataByte(TRUE, next))
    BY <1>6 DEF UART_Rx_Byte
  <2>2. next.k \in UartKinds /\ "k" \in DOMAIN next /\ "uart" \in UartKinds
    BY <2>1 DEF UartKinds, AtByte, LinkInv
  <2>. HIDE DEF next
  <2>. QED
    BY <2>1, <2>2, ByteLinks
<1>. QED
  BY <1>1, <1>2, <1>3, <1>4, <1>5, <1>6 DEF UartStep, UartSetup, UartReader, UartRx, UartDevice

-----------------------------------------------------------------------------
(* The steps of the library, sorted by what they are about. *)

GpioStep == GpioUser \/ GPIO_Tx \/ GPIO_Rx
SpiStep  == SpiUser \/ SPI_Tx \/ SpiRx \/ SpiDevice
OwStep   == OwUser \/ OW_Tx \/ OwRx \/ OwDevice
TwiStep  == CardUser \/ (\E q : TwiUser(q)) \/ TwiTx \/ TwiRx \/ TwiDevice

BufsInv ==
  /\ HasBuf(spi, "spi") /\ HasBuf(ow, "ow") /\ HasBuf(twi, "twi")
  /\ HasBuf(stx, "stx") /\ HasBuf(srx, "srx")

ILink == LinkInv /\ BufsInv

LEMMA NextCases ==
  ASSUME [Next]_vars
  PROVE  \/ UNCHANGED <<linkVars, gpio, spi, ow, twi, slaveVars, uart>>
         \/ Rx_Info \/ Mark_Detached \/ AL_Destroy
         \/ LinkOwn  /\ UNCHANGED <<gpio, spi, ow, twi, slaveVars, uart>>
         \/ GpioStep /\ UNCHANGED <<spi, ow, twi, slaveVars, uart>>
         \/ SpiStep  /\ UNCHANGED <<gpio, ow, twi, slaveVars, uart>>
         \/ OwStep   /\ UNCHANGED <<gpio, spi, twi, slaveVars, uart>>
         \/ TwiStep  /\ UNCHANGED <<gpio, spi, ow, slaveVars, uart>>
         \/ SlaveStep /\ UNCHANGED <<gpio, spi, ow, twi, uart>>
         \/ UartStep /\ UNCHANGED <<gpio, spi, ow, twi, slaveVars>>
<1>1. CASE UNCHANGED vars
  BY <1>1 DEF vars, interfaces, slaveVars
<1>2. CASE User
  BY <1>2 DEF User, Using, OnlyGpio, OnlySpi, OnlyOw, OnlyTwi, OnlySlave, OnlyUart, OnlyCard,
    GpioStep, SpiStep, OwStep, TwiStep, SlaveStep, UartStep
<1>3. CASE Stepping
  <2>1. CASE Step /\ OnlyCard /\ UNCHANGED twi
    BY <2>1 DEF OnlyCard, LinkOwn
  <2>2. CASE (Step_Rx_Ends \/ Step_Main \/ (~CanSend /\ Tx_Flush)) /\ OnlyLink
    BY <2>2 DEF OnlyLink, interfaces, slaveVars, LinkOwn
  <2>3. CASE Tx
    BY <2>3 DEF Tx, OnlyGpio, OnlySpi, OnlyOw, OnlyTwi, OnlySlave, OnlyUart,
      GpioStep, SpiStep, OwStep, TwiStep, SlaveStep, UartStep
  <2>. QED
    BY <1>3, <2>1, <2>2, <2>3 DEF Stepping
<1>4. CASE Step_Rx
  BY <1>4 DEF Step_Rx, OnlyGpio, OnlySpi, OnlyOw, OnlyTwi, OnlySlave, OnlyUart,
    GpioStep, SpiStep, OwStep, TwiStep, SlaveStep, UartStep
<1>5. CASE (Rx_Skipped_Start \/ SerialFails \/ Unplug) /\ OnlyLink
  BY <1>5 DEF OnlyLink, interfaces, slaveVars, LinkOwn
<1>6. CASE Device
  BY <1>6 DEF Device, OnlySpi, OnlyOw, OnlyTwi, OnlySlave, OnlyUart, OnlyLink, interfaces, slaveVars,
    LinkOwn, SpiStep, OwStep, TwiStep, SlaveStep, UartStep
<1>. QED
  BY <1>1, <1>2, <1>3, <1>4, <1>5, <1>6 DEF Next

LEMMA StepsLink ==
  ASSUME ILink
  PROVE  /\ GpioStep => LinkStep({"gpio"})
         /\ SpiStep => LinkStep({"spi"}) /\ HasBuf(spi', "spi")
         /\ OwStep => LinkStep(OwKinds) /\ HasBuf(ow', "ow")
         /\ TwiStep => LinkStep({"twi"}) /\ HasBuf(twi', "twi")
         /\ SlaveStep => LinkStep({"stx", "srx"}) /\ HasBuf(stx', "stx") /\ HasBuf(srx', "srx")
         /\ UartStep => LinkStep(UartKinds)
<1>. LinkInv /\ HasBuf(spi, "spi") /\ HasBuf(ow, "ow") /\ HasBuf(twi, "twi") /\ HasBuf(stx, "stx") /\ HasBuf(srx, "srx")
  BY DEF ILink, BufsInv
<1>1. GpioStep => LinkStep({"gpio"})
  BY GpioLinks DEF GpioStep
<1>2. SpiStep => LinkStep({"spi"}) /\ HasBuf(spi', "spi")
  BY SpiLinks DEF SpiStep
<1>3. OwStep => LinkStep(OwKinds) /\ HasBuf(ow', "ow")
  BY OwLinks DEF OwStep
<1>4. TwiStep => LinkStep({"twi"}) /\ HasBuf(twi', "twi")
  BY TwiLinks DEF TwiStep
<1>5. SlaveStep => LinkStep({"stx", "srx"}) /\ HasBuf(stx', "stx") /\ HasBuf(srx', "srx")
  BY SlaveLinks
<1>6. UartStep => LinkStep(UartKinds)
  BY UartLinks
<1>. QED
  BY <1>1, <1>2, <1>3, <1>4, <1>5, <1>6

LEMMA ILinkKeeps ==
  ASSUME ILink, [Next]_vars
  PROVE  ILink'
<1>0. LinkInv /\ HasBuf(spi, "spi") /\ HasBuf(ow, "ow") /\ HasBuf(twi, "twi") /\ HasBuf(stx, "stx") /\ HasBuf(srx, "srx")
  BY DEF ILink, BufsInv
<1>1. CASE UNCHANGED <<linkVars, gpio, spi, ow, twi, slaveVars, uart>>
  <2>1. LinkInv'
    <3>1. LinkStep({})
      BY <1>1, LinkSame
    <3>. QED
      BY <1>0, <3>1, LinkStepKeeps
  <2>. QED
    BY <1>0, <1>1, <2>1 DEF ILink, BufsInv, slaveVars
<1>2. CASE Rx_Info
  <2>1. LinkInv'
    BY <1>0, <1>2, LinkRestKeeps
  <2>2. /\ DOMAIN spi' = DOMAIN spi /\ spi'.buf = spi.buf /\ DOMAIN ow' = DOMAIN ow /\ ow'.buf = ow.buf
        /\ DOMAIN twi' = DOMAIN twi /\ twi'.buf = twi.buf /\ DOMAIN stx' = DOMAIN stx /\ stx'.buf = stx.buf
        /\ DOMAIN srx' = DOMAIN srx /\ srx'.buf = srx.buf
    BY <1>0, <1>2 DEF Rx_Info, HasBuf
  <2>. QED
    BY <1>0, <2>1, <2>2, BufSame DEF ILink, BufsInv
<1>3. CASE Mark_Detached
  <2>1. LinkInv'
    BY <1>0, <1>3, LinkRestKeeps
  <2>2. /\ DOMAIN spi' = DOMAIN spi /\ spi'.buf = spi.buf /\ ow' = ow
        /\ DOMAIN twi' = DOMAIN twi /\ twi'.buf = twi.buf /\ DOMAIN stx' = DOMAIN stx /\ stx'.buf = stx.buf
        /\ DOMAIN srx' = DOMAIN srx /\ srx'.buf = srx.buf
    BY <1>0, <1>3 DEF Mark_Detached, HasBuf, SPI_Complete_All_Xfrs, TWI_Complete_All_Xfrs, SideCompleteAll
  <2>. QED
    BY <1>0, <2>1, <2>2, BufSame DEF ILink, BufsInv
<1>4. CASE AL_Destroy
  <2>1. LinkInv'
    BY <1>0, <1>4, LinkRestKeeps
  <2>2. spi' = SpiClear /\ ow' = OwClear /\ twi' = TwiClear /\ stx' = SideClear /\ srx' = SideClear
    BY <1>4 DEF AL_Destroy
  <2>. QED
    BY <2>1, <2>2, AmongNone DEF ILink, BufsInv, HasBuf, SpiClear, OwClear, TwiClear, SideClear
<1>5. CASE LinkOwn /\ UNCHANGED <<gpio, spi, ow, twi, slaveVars, uart>>
  BY <1>0, <1>5, LinkOwnKeeps DEF ILink, BufsInv, slaveVars
<1>6. CASE GpioStep /\ UNCHANGED <<spi, ow, twi, slaveVars, uart>>
  BY <1>0, <1>6, StepsLink, LinkStepKeeps DEF ILink, BufsInv, slaveVars
<1>7. CASE SpiStep /\ UNCHANGED <<gpio, ow, twi, slaveVars, uart>>
  BY <1>0, <1>7, StepsLink, LinkStepKeeps DEF ILink, BufsInv, slaveVars
<1>8. CASE OwStep /\ UNCHANGED <<gpio, spi, twi, slaveVars, uart>>
  BY <1>0, <1>8, StepsLink, LinkStepKeeps DEF ILink, BufsInv, slaveVars, OwKinds
<1>9. CASE TwiStep /\ UNCHANGED <<gpio, spi, ow, slaveVars, uart>>
  BY <1>0, <1>9, StepsLink, LinkStepKeeps DEF ILink, BufsInv, slaveVars
<1>10. CASE SlaveStep /\ UNCHANGED <<gpio, spi, ow, twi, uart>>
  BY <1>0, <1>10, StepsLink, LinkStepKeeps DEF ILink, BufsInv
<1>11. CASE UartStep /\ UNCHANGED <<gpio, spi, ow, twi, slaveVars>>
  BY <1>0, <1>11, StepsLink, LinkStepKeeps DEF ILink, BufsInv, slaveVars, UartKinds
<1>. QED
  BY <1>1, <1>2, <1>3, <1>4, <1>5, <1>6, <1>7, <1>8, <1>9, <1>10, <1>11, NextCases

LEMMA ILinkStarts == Init => ILink
<1>. SUFFICES ASSUME Init PROVE ILink
  OBVIOUS
<1>1. rsp = <<>> /\ imm = <<>> /\ rx = RxRsp
  BY DEF Init, LinkInit
<1>2. ImmFlight("info") = <<>>
  BY <1>1, EmptyOfKind DEF ImmFlight, Flight
<1>3. LinkInv
  BY <1>1, <1>2, AmongNone DEF Init, LinkInit, LinkInv, LinkTypeOK, RxRsp, Is_Detached
<1>4. BufsInv
  BY AmongNone DEF Init, SpiInit, OwInit, TwiInit, SlaveInit, BufsInv, HasBuf, SpiClear, OwClear, TwiClear, SideClear
<1>. QED
  BY <1>3, <1>4 DEF ILink

LEMMA ILinkHolds == Spec => []ILink
  BY ILinkStarts, ILinkKeeps, PTL DEF Spec

-----------------------------------------------------------------------------
(* The theorems of the interfaces.  The replies of an interface are units  *)
(* of its own, whatever the others do.                                     *)

Typed(k, V) == \A u \in Seen : u.k = k => u \in V

\* A step of another interface.
LEMMA Elsewhere ==
  ASSUME ILink, NEW K, LinkStep(K), NEW k, k \notin K, k # "rsp", NEW V, Typed(k, V)
  PROVE  /\ OfKind(k, rsp') = OfKind(k, rsp) /\ OfKind(k, imm') = OfKind(k, imm) /\ ImmFlight(k)' = ImmFlight(k)
         /\ UNCHANGED <<infoRead, conn>> /\ (rx' = rx \/ (rx.k # k /\ rx'.k # k))
         /\ Typed(k, V)'
<1>1. IsSeq(rsp) /\ IsSeq(imm) /\ Came(rsp, rsp', K) /\ Came(imm, imm', K \cap ImmKinds)
  BY DEF ILink, LinkInv, LinkStep
<1>2. OfKind(k, rsp') = OfKind(k, rsp) /\ \A u \in Among(rsp') : u \in Among(rsp) \/ u.k \in K
  BY <1>1, CameFacts
<1>3. OfKind(k, imm') = OfKind(k, imm) /\ \A u \in Among(imm') : u \in Among(imm) \/ u.k \in K \cap ImmKinds
  <2>1. k \notin K \cap ImmKinds
    OBVIOUS
  <2>. QED
    BY <1>1, <2>1, CameFacts
<1>4. Typed(k, V)'
  BY <1>2, <1>3 DEF Typed, Seen
<1>5. ImmFlight(k)' = ImmFlight(k)
  BY <1>2, <1>3 DEF ImmFlight, Flight
<1>6. UNCHANGED <<infoRead, conn>> /\ (rx' = rx \/ (rx.k # k /\ rx'.k # k))
  BY DEF LinkStep, RxRsp
<1>. QED
  BY <1>2, <1>3, <1>4, <1>5, <1>6

\* The handshake asks once for the lengths of the buffers.
LEMMA InfoComesOnce ==
  ASSUME LinkInv, Rx_Info
  PROVE  ~infoRead /\ rsp # <<>> /\ Head(rsp).k = "info"
<1>1. rsp # <<>> /\ Head(rsp).k = "info"
  BY DEF Rx_Info, AtReply
<1>2. IsSeq(rsp) /\ IsSeq(imm)
  BY DEF LinkInv
<1>3. rsp \in Seq(Seen) /\ imm \in Seq(Seen)
  BY <1>2, SeqIn DEF Seen
<1>. DEFINE V == Kind("info", Seen)
<1>4. Delivers(Seen, "info", V) /\ OfKind("info", imm) \in Seq(V)
  BY <1>3, OfKindFacts DEF Delivers, Kind
<1>5. ImmFlight("info") # <<>>
  BY <1>1, <1>3, <1>4, DeliveredHead DEF ImmFlight
<1>. QED
  BY <1>1, <1>5 DEF LinkInv

\* What an interface may take the replies to be.
LEMMA TypedDelivers ==
  ASSUME ILink, NEW k, NEW V, Typed(k, V), \A u \in V : u.k = k
  PROVE  /\ Delivers(Seen \cup V, k, V) /\ rsp \in Seq(Seen \cup V) /\ imm \in Seq(Seen \cup V)
<1>1. rsp \in Seq(Seen \cup V) /\ imm \in Seq(Seen \cup V)
  BY SeqIn DEF ILink, LinkInv, Seen
<1>. QED
  BY <1>1 DEF Delivers, Typed

\* What a step of the interface itself adds is of its units.
LEMMA TypedAgain ==
  ASSUME ILink', NEW k, NEW V, Typed(k, V), rsp' \in Seq(Seen \cup V), imm' \in Seq(Seen \cup V)
  PROVE  Typed(k, V)'
<1>1. Among(rsp') \subseteq Seen \cup V /\ Among(imm') \subseteq Seen \cup V
  BY SeqOf
<1>. QED
  BY <1>1 DEF Typed, Seen

LEMMA TypedRest ==
  ASSUME ILink, NEW k, NEW V, Typed(k, V), Rx_Info \/ Mark_Detached \/ AL_Destroy
  PROVE  Typed(k, V)'
<1>1. CASE Rx_Info
  <2>1. IsSeq(rsp) /\ rsp # <<>> /\ rsp' = Tail(rsp) /\ imm' = imm
    BY <1>1 DEF ILink, LinkInv, Rx_Info, AtReply
  <2>2. Among(rsp') \subseteq Among(rsp)
    BY <2>1, AmongTail
  <2>. QED
    BY <2>1, <2>2 DEF Typed, Seen
<1>2. CASE Mark_Detached
  BY <1>2 DEF Mark_Detached, Typed, Seen
<1>3. CASE AL_Destroy
  BY <1>3, AmongNone DEF AL_Destroy, Typed, Seen
<1>. QED
  BY <1>1, <1>2, <1>3

\* The library, the handshake and the device leave the flight of an interface alone.
LEMMA LinkOwnTyped ==
  ASSUME ILink, LinkOwn, NEW k, k \notin {"skipped_start", "info"}, NEW V, Typed(k, V)
  PROVE  Typed(k, V)'
<1>1. \A u \in Seen' : u \in Seen \/ u.k \in {"skipped_start", "info"}
  BY LinkOwnFacts DEF ILink
<1>. QED
  BY <1>1 DEF Typed

\* No step of an interface but its answers brings replies.
LEMMA ReadsTyped ==
  ASSUME ILink, NEW k, NEW V, Typed(k, V), imm' = imm, rsp' = rsp \/ (rsp # <<>> /\ rsp' = Tail(rsp))
  PROVE  Typed(k, V)'
<1>1. Among(rsp') \subseteq Among(rsp)
  BY AmongTail DEF ILink, LinkInv
<1>. QED
  BY <1>1 DEF Typed, Seen

LEMMA AnswerTyped ==
  ASSUME ILink, NEW k, NEW V, Typed(k, V), imm' = imm, NEW u \in V, rsp' = Append(rsp, u)
  PROVE  Typed(k, V)'
<1>1. Among(rsp') = Among(rsp) \cup {u}
  BY AmongAppend DEF ILink, LinkInv
<1>. QED
  BY <1>1 DEF Typed, Seen

-----------------------------------------------------------------------------
(* SPI *)

SpiIInv == ILink /\ Typed("spi", SpiUnits) /\ SpiInv

LEMMA SpiOwnKeeps ==
  ASSUME SpiIInv, SpiStep, ~Reenable
  PROVE  SpiInv' /\ Typed("spi", SpiUnits)'
<1>0. ILink /\ Typed("spi", SpiUnits) /\ SpiInv /\ \A u \in SpiUnits : u.k = "spi"
  BY DEF SpiIInv, SpiUnits
<1>. DEFINE U == Seen \cup SpiUnits
<1>1. Delivers(U, "spi", SpiUnits) /\ rsp \in Seq(U)
  BY <1>0, TypedDelivers
<1>2. pc \in {"rx", "tx"} => ~Is_Detached
  BY <1>0 DEF ILink, LinkInv
<1>. HIDE DEF U
<1>3. CASE SpiUser
  <2>1. SpiInv'
    BY <1>0, <1>1, <1>3, SpiUserKeeps
  <2>2. imm' = imm /\ rsp' = rsp
    BY <1>3 DEF SpiUser, SPI_Xfr_Create, SPI_Xfr_Cancel, SPI_Xfr_Destroy, SPI_Xfr_Schedule, SPI_Enable, SPI_Disable,
      Enables, Configured, Called, linkVars
  <2>. QED
    BY <1>0, <2>1, <2>2, ReadsTyped
<1>4. CASE SPI_Tx
  <2>1. SpiInv'
    BY <1>0, <1>1, <1>2, <1>4, SpiTxKeeps DEF SPI_Tx
  <2>2. imm' = imm /\ rsp' = rsp
    BY <1>4 DEF SPI_Tx, linkVars
  <2>. QED
    BY <1>0, <2>1, <2>2, ReadsTyped
<1>5. CASE SPI_Rx_Rsp
  <2>1. ~Is_Detached
    BY <1>2, <1>5 DEF SPI_Rx_Rsp, AtReply
  <2>2. SpiInv'
    BY <1>0, <1>1, <1>5, <2>1, SpiRspKeeps
  <2>3. imm' = imm /\ rsp # <<>> /\ rsp' = Tail(rsp)
    BY <1>5 DEF SPI_Rx_Rsp, AtReply, Packet
  <2>. QED
    BY <1>0, <2>2, <2>3, ReadsTyped
<1>6. CASE SPI_Rx_Byte
  <2>1. ~Is_Detached
    BY <1>2, <1>6 DEF SPI_Rx_Byte, AtByte
  <2>2. SpiInv'
    BY <1>0, <1>1, <1>6, <2>1, SpiByteKeeps
  <2>3. imm' = imm /\ rsp' = rsp
    BY <1>6 DEF SPI_Rx_Byte, DataByte
  <2>. QED
    BY <1>0, <2>2, <2>3, ReadsTyped
<1>7. CASE SpiDevice
  <2>1. SpiInv'
    BY <1>0, <1>1, <1>7, SpiDeviceKeeps
  <2>2. imm' = imm /\ rsp' = Append(rsp, Head(spi.buf)) /\ spi.buf # <<>>
    BY <1>7 DEF SpiDevice, Replies
  <2>3. Head(spi.buf) \in SpiUnits
    BY <1>0, <2>2 DEF SpiInv, SpiShape
  <2>. QED
    BY <1>0, <2>1, <2>2, <2>3, AnswerTyped
<1>. QED
  BY <1>3, <1>4, <1>5, <1>6, <1>7 DEF SpiStep, SpiRx

LEMMA SpiElsewhere ==
  ASSUME SpiIInv, spi' = spi, NEW K, LinkStep(K), "spi" \notin K
  PROVE  SpiInv' /\ Typed("spi", SpiUnits)'
<1>0. ILink /\ Typed("spi", SpiUnits) /\ SpiInv
  BY DEF SpiIInv
<1>1. /\ OfKind("spi", rsp') = OfKind("spi", rsp) /\ UNCHANGED <<infoRead, conn>>
      /\ (rx' = rx \/ (rx.k # "spi" /\ rx'.k # "spi"))
      /\ Typed("spi", SpiUnits)'
  BY <1>0, Elsewhere
<1>2. SpiInv'
  BY <1>0, <1>1, SpiForeign DEF Is_Detached
<1>. QED
  BY <1>1, <1>2

LEMMA SpiLinkOwn ==
  ASSUME SpiIInv, spi' = spi, LinkOwn
  PROVE  SpiInv' /\ Typed("spi", SpiUnits)'
<1>0. ILink /\ Typed("spi", SpiUnits) /\ SpiInv /\ LinkInv
  BY DEF SpiIInv, ILink
<1>1. Typed("spi", SpiUnits)'
  BY <1>0, LinkOwnTyped
<1>2. ~infoRead => OfKind("spi", rsp) = <<>>
  <2>1. spi.buf \in Seq(SpiUnits) /\ (~infoRead => SpiFlight = <<>>) /\ IsSeq(rsp)
    BY <1>0 DEF SpiInv, SpiShape, LinkInv
  <2>. QED
    BY <2>1, EmptyFlight DEF SpiFlight
<1>3. /\ UNCHANGED infoRead /\ rx' = rx /\ (Is_Detached' <=> Is_Detached)
      /\ OfKind("spi", rsp') = OfKind("spi", rsp)
  BY <1>0, <1>2, LinkOwnFacts DEF ImmKinds
<1>4. SpiInv'
  BY <1>0, <1>3, SpiForeign
<1>. QED
  BY <1>1, <1>4

LEMMA SpiRest ==
  ASSUME SpiIInv, Rx_Info \/ Mark_Detached \/ AL_Destroy
  PROVE  SpiInv' /\ Typed("spi", SpiUnits)'
<1>0. ILink /\ Typed("spi", SpiUnits) /\ SpiInv /\ LinkInv /\ \A u \in SpiUnits : u.k = "spi"
  BY DEF SpiIInv, ILink, SpiUnits
<1>1. Typed("spi", SpiUnits)'
  BY <1>0, TypedRest
<1>2. CASE Rx_Info
  <2>. DEFINE U == Seen \cup SpiUnits
  <2>1. Delivers(U, "spi", SpiUnits) /\ rsp \in Seq(U)
    BY <1>0, TypedDelivers
  <2>2. ~infoRead /\ rsp # <<>> /\ Head(rsp).k # "spi"
    BY <1>0, <1>2, InfoComesOnce
  <2>3. infoRead' /\ rsp' = Tail(rsp) /\ spi' = [spi EXCEPT !.free = SpiLen] /\ UNCHANGED <<conn, rx>>
    BY <1>2 DEF Rx_Info
  <2>. HIDE DEF U
  <2>4. SpiInv'
    BY <1>0, <2>1, <2>2, <2>3, SpiInfoKeeps
  <2>. QED
    BY <1>1, <2>4
<1>3. CASE Mark_Detached
  <2>1. spi' = SPI_Complete_All_Xfrs(spi) /\ Is_Detached' /\ UNCHANGED <<infoRead, rsp>>
    BY <1>3 DEF Mark_Detached, Is_Detached
  <2>2. SpiInv'
    BY <1>0, <2>1, SpiEndsAll
  <2>. QED
    BY <1>1, <2>2
<1>4. CASE AL_Destroy
  <2>1. spi' = SpiClear /\ rx' = RxRsp /\ rsp' = <<>> /\ ~infoRead'
    BY <1>4 DEF AL_Destroy
  <2>2. SpiShape(spi') /\ SpiFlow(spi', <<>>, rx') /\ Flight("spi", <<>>, spi'.buf) = <<>> /\ spi'.free = 0
    BY <2>1, SpiEmpty
  <2>3. SpiInv'
    BY <2>1, <2>2 DEF SpiInv, SpiFlight
  <2>. QED
    BY <1>1, <2>3
<1>. QED
  BY <1>2, <1>3, <1>4

LEMMA SpiIInvKeeps ==
  ASSUME SpiIInv, [Next]_vars, ~Reenable
  PROVE  SpiIInv'
<1>0. ILink /\ ILink'
  BY ILinkKeeps DEF SpiIInv
<1>1. CASE SpiStep
  BY <1>0, <1>1, SpiOwnKeeps DEF SpiIInv
<1>2. CASE Rx_Info \/ Mark_Detached \/ AL_Destroy
  BY <1>0, <1>2, SpiRest DEF SpiIInv
<1>3. CASE LinkOwn /\ spi' = spi
  BY <1>0, <1>3, SpiLinkOwn DEF SpiIInv
<1>4. CASE spi' = spi /\ (UNCHANGED linkVars \/ GpioStep \/ OwStep \/ TwiStep \/ SlaveStep \/ UartStep)
  <2>1. PICK K : LinkStep(K) /\ "spi" \notin K
    <3>1. UNCHANGED linkVars => LinkStep({})
      BY LinkSame
    <3>. QED
      BY <1>0, <1>4, <3>1, StepsLink DEF OwKinds, UartKinds
  <2>. QED
    BY <1>0, <1>4, <2>1, SpiElsewhere DEF SpiIInv
<1>. QED
  BY <1>1, <1>2, <1>3, <1>4, NextCases

LEMMA SpiIInvHolds == ~Reenable => (Spec => []SpiIInv)
<1>. SUFFICES ASSUME ~Reenable PROVE Spec => []SpiIInv
  OBVIOUS
<1>1. Init => SpiIInv
  <2>. SUFFICES ASSUME Init PROVE SpiIInv
    OBVIOUS
  <2>1. ILink
    BY ILinkStarts
  <2>2. spi = SpiClear /\ rx = RxRsp /\ rsp = <<>> /\ imm = <<>> /\ ~infoRead
    BY DEF Init, SpiInit, LinkInit
  <2>3. SpiShape(spi) /\ SpiFlow(spi, <<>>, rx) /\ Flight("spi", <<>>, spi.buf) = <<>> /\ spi.free = 0
    BY <2>2, SpiEmpty
  <2>4. Typed("spi", SpiUnits)
    BY <2>2, AmongNone DEF Typed, Seen
  <2>. QED
    BY <2>1, <2>2, <2>3, <2>4 DEF SpiIInv, SpiInv, SpiFlight
<1>2. SpiIInv /\ [Next]_vars => SpiIInv'
  BY SpiIInvKeeps
<1>. QED
  BY <1>1, <1>2, PTL DEF Spec

-----------------------------------------------------------------------------
(* GPIO *)

GpioIInv == ILink /\ Typed("gpio", GpioUnits) /\ GpioInv

LEMMA GpioOwnKeeps ==
  ASSUME GpioIInv, ILink', GpioStep, ~GpioEarly
  PROVE  GpioInv' /\ Typed("gpio", GpioUnits)'
<1>0. ILink /\ Typed("gpio", GpioUnits) /\ GpioInv /\ \A u \in GpioUnits : u.k = "gpio"
  BY DEF GpioIInv, GpioUnits
<1>. DEFINE U == Seen \cup GpioUnits
<1>1. Delivers(U, "gpio", GpioUnits) /\ rsp \in Seq(U) /\ imm \in Seq(U)
  BY <1>0, TypedDelivers
<1>2. pc \in {"rx", "tx"} => ~Is_Detached
  BY <1>0 DEF ILink, LinkInv
<1>3. CASE GpioUser
  <2>. HIDE DEF U
  <2>1. GpioInv'
    BY <1>0, <1>1, <1>3, GpioUserKeeps
  <2>2. imm' = imm /\ rsp' = rsp
    BY <1>3 DEF GpioUser, GPIO_Xfr_Create, GPIO_Xfr_Cancel, GPIO_Xfr_Destroy, GPIO_Xfr_Schedule, Called, linkVars
  <2>. QED
    BY <1>0, <2>1, <2>2, ReadsTyped
<1>4. CASE GPIO_Tx
  <2>1. GpioInv' /\ imm' \in Seq(U)
    <3>. HIDE DEF U
    <3>. QED
      BY <1>0, <1>1, <1>2, <1>4, GpioTxKeeps DEF GPIO_Tx
  <2>2. rsp' = rsp
    BY <1>4 DEF GPIO_Tx
  <2>. QED
    BY <1>0, <1>1, <2>1, <2>2, TypedAgain
<1>5. CASE GPIO_Rx
  <2>. HIDE DEF U
  <2>1. ~Is_Detached
    BY <1>2, <1>5 DEF GPIO_Rx, AtReply
  <2>2. GpioInv'
    BY <1>0, <1>1, <1>5, <2>1, GpioRxKeeps
  <2>3. imm' = imm /\ rsp # <<>> /\ rsp' = Tail(rsp)
    BY <1>5 DEF GPIO_Rx, AtReply, Packet
  <2>. QED
    BY <1>0, <2>2, <2>3, ReadsTyped
<1>. QED
  BY <1>3, <1>4, <1>5 DEF GpioStep

LEMMA GpioElsewhere ==
  ASSUME GpioIInv, gpio' = gpio, NEW K, LinkStep(K), "gpio" \notin K
  PROVE  GpioInv' /\ Typed("gpio", GpioUnits)'
<1>0. ILink /\ Typed("gpio", GpioUnits) /\ GpioInv
  BY DEF GpioIInv
<1>1. /\ ImmFlight("gpio")' = ImmFlight("gpio") /\ UNCHANGED <<infoRead, conn>>
      /\ Typed("gpio", GpioUnits)'
  BY <1>0, Elsewhere
<1>2. GpioFlight' = GpioFlight
  BY <1>1 DEF GpioFlight, ImmFlight
<1>3. GpioInv'
  BY <1>0, <1>1, <1>2, GpioForeign DEF Is_Detached
<1>. QED
  BY <1>1, <1>3

LEMMA GpioLinkOwn ==
  ASSUME GpioIInv, gpio' = gpio, LinkOwn
  PROVE  GpioInv' /\ Typed("gpio", GpioUnits)'
<1>0. ILink /\ Typed("gpio", GpioUnits) /\ GpioInv /\ LinkInv /\ \A u \in GpioUnits : u.k = "gpio"
  BY DEF GpioIInv, ILink, GpioUnits
<1>1. Typed("gpio", GpioUnits)'
  BY <1>0, LinkOwnTyped
<1>2. conn = "connecting" => OfKind("gpio", rsp) = <<>>
  <2>. DEFINE U == Seen \cup GpioUnits
              a == OfKind("gpio", imm)
  <2>1. Delivers(U, "gpio", GpioUnits) /\ rsp \in Seq(U) /\ imm \in Seq(U)
    BY <1>0, TypedDelivers
  <2>2. a \in Seq(GpioUnits)
    <3>. HIDE DEF U
    <3>. QED
      BY <2>1, GpioFlightFacts
  <2>3. IsSeq(rsp) /\ (conn = "connecting" => Flight("gpio", rsp, a) = <<>>)
    BY <1>0 DEF GpioInv, GpioFlight, LinkInv
  <2>. HIDE DEF a
  <2>. QED
    BY <2>2, <2>3, EmptyFlight
<1>3. /\ (Is_Detached' <=> Is_Detached) /\ (conn' = "connecting" => conn = "connecting")
      /\ ImmFlight("gpio")' = ImmFlight("gpio")
  BY <1>0, <1>2, LinkOwnFacts
<1>4. GpioFlight' = GpioFlight
  BY <1>3 DEF GpioFlight, ImmFlight
<1>5. GpioInv'
  BY <1>0, <1>3, <1>4, GpioForeign
<1>. QED
  BY <1>1, <1>5

LEMMA GpioRest ==
  ASSUME GpioIInv, Rx_Info \/ Mark_Detached \/ AL_Destroy
  PROVE  GpioInv' /\ Typed("gpio", GpioUnits)'
<1>0. ILink /\ Typed("gpio", GpioUnits) /\ GpioInv /\ LinkInv /\ \A u \in GpioUnits : u.k = "gpio"
  BY DEF GpioIInv, ILink, GpioUnits
<1>1. Typed("gpio", GpioUnits)'
  BY <1>0, TypedRest
<1>2. CASE Rx_Info
  <2>. DEFINE U == Seen \cup GpioUnits
  <2>1. Delivers(U, "gpio", GpioUnits) /\ rsp \in Seq(U) /\ imm \in Seq(U)
    BY <1>0, TypedDelivers
  <2>2. rsp # <<>> /\ Head(rsp).k # "gpio"
    BY <1>0, <1>2, InfoComesOnce
  <2>3. rsp' = Tail(rsp) /\ UNCHANGED <<conn, imm, gpio>>
    BY <1>2 DEF Rx_Info
  <2>. HIDE DEF U
  <2>4. OfKind("gpio", Tail(rsp)) = OfKind("gpio", rsp)
    <3>1. OfKind("gpio", imm) \in Seq(GpioUnits)
      BY <2>1, GpioFlightFacts
    <3>. QED
      BY <2>1, <2>2, <3>1, DeliveredHead
  <2>5. GpioFlight' = GpioFlight
    BY <2>3, <2>4 DEF GpioFlight, Flight
  <2>6. GpioInv'
    BY <1>0, <2>3, <2>5, GpioForeign DEF Is_Detached
  <2>. QED
    BY <1>1, <2>6
<1>3. CASE Mark_Detached
  <2>1. gpio' = GPIO_Complete_All_Xfrs(gpio) /\ conn' = "disconnected"
    BY <1>3 DEF Mark_Detached
  <2>. QED
    BY <1>0, <1>1, <2>1, GpioEndsAll
<1>4. CASE AL_Destroy
  <2>1. gpio' = GpioClear /\ rsp' = <<>> /\ imm' = <<>>
    BY <1>4 DEF AL_Destroy
  <2>2. GpioFlight' = <<>>
    BY <2>1, EmptyOfKind DEF GpioFlight, Flight
  <2>3. GpioShape(gpio') /\ GpioFlow(gpio', <<>>) /\ gpio'.pool.sched = <<>>
    BY <2>1, GpioEmpty DEF GpioClear, EmptyPool
  <2>4. GpioInv'
    BY <2>2, <2>3 DEF GpioInv
  <2>. QED
    BY <1>1, <2>4
<1>. QED
  BY <1>2, <1>3, <1>4

LEMMA GpioIInvKeeps ==
  ASSUME GpioIInv, [Next]_vars, ~GpioEarly
  PROVE  GpioIInv'
<1>0. ILink /\ ILink'
  BY ILinkKeeps DEF GpioIInv
<1>1. CASE GpioStep
  BY <1>0, <1>1, GpioOwnKeeps DEF GpioIInv
<1>2. CASE Rx_Info \/ Mark_Detached \/ AL_Destroy
  BY <1>0, <1>2, GpioRest DEF GpioIInv
<1>3. CASE LinkOwn /\ gpio' = gpio
  BY <1>0, <1>3, GpioLinkOwn DEF GpioIInv
<1>4. CASE gpio' = gpio /\ (UNCHANGED linkVars \/ SpiStep \/ OwStep \/ TwiStep \/ SlaveStep \/ UartStep)
  <2>1. PICK K : LinkStep(K) /\ "gpio" \notin K
    <3>1. UNCHANGED linkVars => LinkStep({})
      BY LinkSame
    <3>. QED
      BY <1>0, <1>4, <3>1, StepsLink DEF OwKinds, UartKinds
  <2>. QED
    BY <1>0, <1>4, <2>1, GpioElsewhere DEF GpioIInv
<1>. QED
  BY <1>1, <1>2, <1>3, <1>4, NextCases

LEMMA GpioIInvHolds == ~GpioEarly => (Spec => []GpioIInv)
<1>. SUFFICES ASSUME ~GpioEarly PROVE Spec => []GpioIInv
  OBVIOUS
<1>1. Init => GpioIInv
  <2>. SUFFICES ASSUME Init PROVE GpioIInv
    OBVIOUS
  <2>1. ILink
    BY ILinkStarts
  <2>2. gpio = GpioClear /\ rsp = <<>> /\ imm = <<>>
    BY DEF Init, GpioInit, LinkInit
  <2>3. GpioFlight = <<>>
    BY <2>2, EmptyOfKind DEF GpioFlight, Flight
  <2>4. GpioShape(gpio) /\ GpioFlow(gpio, <<>>) /\ gpio.pool.sched = <<>>
    BY <2>2, GpioEmpty DEF GpioClear, EmptyPool
  <2>5. Typed("gpio", GpioUnits)
    BY <2>2, AmongNone DEF Typed, Seen
  <2>. QED
    BY <2>1, <2>3, <2>4, <2>5 DEF GpioIInv, GpioInv
<1>2. GpioIInv /\ [Next]_vars => GpioIInv'
  BY GpioIInvKeeps
<1>. QED
  BY <1>1, <1>2, PTL DEF Spec

-----------------------------------------------------------------------------
(* The UART.  At most one announcement is on its way, and then the library *)
(* counts no byte as free; what it announces is the room of the device.    *)

UartFrees == [k : {"txfree"}, n : Nat]

UartFlight == ImmFlight("txfree")

UartShape(u) ==
  /\ DOMAIN u = {"tx", "rx", "wide", "free", "on", "used", "line", "room"}
  /\ DOMAIN u.tx = {"buf", "si", "fi", "sc"} /\ u.tx.sc \in Nat /\ u.tx.sc <= UartRing
  /\ u.free \in Nat /\ u.room \in Nat /\ IsSeq(u.line) /\ Len(u.line) \in Nat

UartFlow(u, f) ==
  /\ u.free <= u.room /\ Len(u.line) + u.room <= UartLen
  /\ f # <<>> => u.free = 0 /\ u.room > 0 /\ Len(f) = 1 /\ Head(f).n = u.room
  /\ ~u.used => u.free = 0 /\ f = <<>> /\ ~u.on

UartInv ==
  /\ UartShape(uart)
  /\ UartFlow(uart, UartFlight)
  /\ conn = "connecting" => ~uart.used

LEMMA MinOfTwo ==
  ASSUME NEW a \in Nat, NEW b \in Nat
  PROVE  Min({a, b}) \in Nat /\ Min({a, b}) <= a /\ Min({a, b}) <= b
<1>1. \E m \in {a, b} : \A n \in {a, b} : m <= n
  OBVIOUS
<1>2. Min({a, b}) \in {a, b} /\ \A n \in {a, b} : Min({a, b}) <= n
  BY <1>1 DEF Min
<1>. QED
  BY <1>2

\* The header states the bytes of a packet of up to 256 bytes, so that the device
\* stores one that it may be sent; it never stores more than there are.
LEMMA PacketFacts ==
  ASSUME NEW cnt \in Nat, cnt > 0
  PROVE  /\ UartTaken(cnt) \subseteq 0..cnt
         /\ cnt <= UartPacket => UartTaken(cnt) = {cnt}
<1>1. UartPacket \in Nat /\ UartPacket <= 256
  BY UartAssumption
<1>. DEFINE h == UartHeader(cnt)
<1>2. h = (cnt + 255) % 256
  BY DEF UartHeader
<1>. HIDE DEF h
<1>3. h \in 0..(cnt - 1)
  BY <1>2
<1>4. cnt <= 256 => h + 1 = cnt
  BY <1>2
<1>5. UartTaken(cnt) = IF h + 1 <= UartPacket THEN {h + 1} ELSE 0..cnt
  BY DEF UartTaken, h
<1>. QED
  BY <1>1, <1>3, <1>4, <1>5

\* The bytes that are sent from a ring follow those in the device's buffer.
LEMMA LineFacts ==
  ASSUME NEW a, IsSeq(a), NEW r, r.sc \in Nat, NEW n \in Nat, n <= r.sc
  PROVE  LET b == a \o SubSeq(RingBytes(r), 1, n)
         IN  IsSeq(b) /\ Len(b) \in Nat /\ Len(b) = Len(a) + n
<1>. DEFINE q == RingBytes(r)
            T == {q[i] : i \in 1..r.sc}
            c == SubSeq(q, 1, n)
            S == Among(a) \cup T
<1>1. q \in Seq(T) /\ Len(q) = r.sc
  <2>. DEFINE e == [i \in 1..r.sc |-> r.buf[(r.fi + i - 1) % UartRing]]
  <2>1. q = e /\ T = {e[i] : i \in 1..r.sc}
    BY DEF RingBytes
  <2>2. \A W : \A g \in [1..r.sc -> W] : g \in Seq(W) /\ Len(g) = r.sc
    OBVIOUS
  <2>3. e \in [1..r.sc -> {e[i] : i \in 1..r.sc}]
    OBVIOUS
  <2>. HIDE DEF e, q, T
  <2>. QED
    BY <2>1, <2>2, <2>3
<1>. HIDE DEF q, T
<1>2. c \in Seq(T) /\ Len(c) = n
  BY <1>1
<1>. HIDE DEF c
<1>3. \A A, B : \A s \in Seq(A), t \in Seq(B) : s \o t \in Seq(A \cup B) /\ Len(s \o t) = Len(s) + Len(t) /\ Len(s) \in Nat
  OBVIOUS
<1>4. a \in Seq(Among(a))
  BY DEF IsSeq
<1>. DEFINE b == a \o c
<1>5. b \in Seq(S) /\ Len(b) = Len(a) + n /\ Len(a) \in Nat
  BY SMTT(30), <1>2, <1>3, <1>4
<1>. HIDE DEF b, S
<1>6. IsSeq(b) /\ Len(b) \in Nat
  BY <1>5, SeqOf
<1>. QED
  BY <1>5, <1>6 DEF b, c, q

LEMMA UartStarts ==
  ASSUME NEW u, u = UartClear
  PROVE  UartShape(u) /\ UartFlow(u, <<>>) /\ ~u.used
<1>1. IsSeq(<<>>) /\ Len(<<>>) = 0
  BY AmongNone
<1>2. /\ DOMAIN u = {"tx", "rx", "wide", "free", "on", "used", "line", "room"} /\ ~u.used /\ ~u.on
      /\ DOMAIN u.tx = {"buf", "si", "fi", "sc"} /\ u.tx.sc = 0 /\ u.free = 0 /\ u.room = 0 /\ u.line = <<>>
  BY DEF UartClear, EmptyRing
<1>. QED
  BY <1>1, <1>2, UartAssumption DEF UartShape, UartFlow

\* The first announcement of the device.
LEMMA UartEnableKeeps ==
  ASSUME UartInv, ILink, Typed("txfree", UartFrees), ~UartRestart, UART_Enable
  PROVE  UartInv' /\ Typed("txfree", UartFrees)'
<1>. DEFINE u == [k |-> "txfree", n |-> UartLen]
            U == Seen \cup UartFrees
            a == OfKind("txfree", rsp)
            b == OfKind("txfree", imm)
<1>1. /\ imm' = Append(imm, u) /\ UNCHANGED <<conn, rsp>> /\ ~uart.used /\ conn = "connected"
      /\ uart' = [UART_Reset_Bufs(uart) EXCEPT !.on = TRUE, !.used = TRUE, !.line = <<>>, !.room = UartLen]
  BY DEF UART_Enable
<1>2. \A e \in UartFrees : e.k = "txfree"
  BY DEF UartFrees
<1>3. Delivers(U, "txfree", UartFrees) /\ rsp \in Seq(U) /\ imm \in Seq(U)
  BY <1>2, TypedDelivers
<1>4. u \in UartFrees /\ u.k = "txfree" /\ u.n = UartLen /\ UartLen \in Nat /\ UartLen > 0
  BY UartAssumption DEF UartFrees
<1>5. UartFlight = <<>> /\ UartShape(uart) /\ uart.free = 0
  BY <1>1 DEF UartInv, UartFlow
<1>6. UartShape(uart') /\ uart'.used /\ uart'.free = 0 /\ uart'.room = UartLen /\ uart'.line = <<>>
  <2>1. DOMAIN uart = {"tx", "rx", "wide", "free", "on", "used", "line", "room"}
    BY <1>5 DEF UartShape
  <2>2. /\ DOMAIN uart' = DOMAIN uart /\ uart'.tx = EmptyRing(uart.tx.buf) /\ uart'.free = uart.free
        /\ uart'.line = <<>> /\ uart'.room = UartLen /\ uart'.used
    BY <1>1, <2>1 DEF UART_Reset_Bufs
  <2>3. IsSeq(<<>>) /\ Len(<<>>) = 0
    BY AmongNone
  <2>4. DOMAIN uart'.tx = {"buf", "si", "fi", "sc"} /\ uart'.tx.sc = 0
    BY <2>2 DEF EmptyRing
  <2>. QED
    BY <1>4, <1>5, <2>1, <2>2, <2>3, <2>4, UartAssumption DEF UartShape
<1>. HIDE DEF u
<1>7. OfKind("txfree", imm') = Append(b, u)
  <2>1. u \in U
    BY <1>4
  <2>2. OfKind("txfree", Append(imm, u)) = IF u.k = "txfree" THEN Append(b, u) ELSE b
    <3>. HIDE DEF U
    <3>. QED
      BY <1>3, <2>1, OfKindAppend
  <2>. QED
    BY <1>1, <1>4, <2>2
<1>8. a \in Seq(UartFrees) /\ b \in Seq(UartFrees)
  <2>. HIDE DEF U
  <2>1. <<>> \in Seq(UartFrees)
    OBVIOUS
  <2>. QED
    BY <1>3, <2>1, DeliveredFacts
<1>9. UartFlight' = <<u>>
  <2>1. UartFlight = a \o b /\ UartFlight' = a \o Append(b, u)
    BY <1>1, <1>7 DEF UartFlight, ImmFlight, Flight
  <2>. HIDE DEF a, b
  <2>2. a \o b = <<>> => a \o Append(b, u) = <<u>>
    BY <1>4, <1>8
  <2>. QED
    BY <1>5, <2>1, <2>2
<1>10. UartFlow(uart', UartFlight')
  <2>1. Len(<<u>>) = 1 /\ Head(<<u>>) = u /\ Len(<<>>) = 0
    OBVIOUS
  <2>. QED
    BY <1>4, <1>6, <1>9, <2>1 DEF UartFlow
<1>11. Typed("txfree", UartFrees)'
  <2>1. Among(imm') = Among(imm) \cup {u} /\ Among(rsp') = Among(rsp)
    BY <1>1, AmongAppend DEF ILink, LinkInv
  <2>. QED
    BY <1>4, <2>1 DEF Typed, Seen
<1>. QED
  BY <1>1, <1>6, <1>10, <1>11 DEF UartInv

\* Steps of the application and of the line, and sending.
LEMMA UartQuietKeeps ==
  ASSUME UartInv, UNCHANGED linkVars,
         \/ UART_Disable \/ (\E wide \in BOOLEAN : UART_Set_Data_Bits(wide)) \/ UartWriter
         \/ (\E n \in 1..UartWrites : UART_Read(n)) \/ UART_Tx \/ UartLineSends
  PROVE  UartInv'
<1>0. /\ UartShape(uart) /\ UartFlow(uart, UartFlight) /\ UartFlight' = UartFlight
      /\ DOMAIN uart = {"tx", "rx", "wide", "free", "on", "used", "line", "room"}
      /\ DOMAIN uart.tx = {"buf", "si", "fi", "sc"} /\ uart.tx.sc \in Nat /\ uart.tx.sc <= UartRing
      /\ IsSeq(uart.line) /\ Len(uart.line) \in Nat /\ UartRing \in Nat /\ UartLen \in Nat
      /\ uart.free \in Nat /\ uart.room \in Nat
  BY UartAssumption DEF UartInv, UartShape, linkVars, UartFlight, ImmFlight
<1>1. IsSeq(<<>>) /\ Len(<<>>) = 0
  BY AmongNone
<1>. SUFFICES /\ UartShape(uart') /\ UartFlow(uart', UartFlight) /\ uart'.used = uart.used
  BY <1>0 DEF UartInv, linkVars
<1>2. CASE UART_Disable
  <2>1. /\ DOMAIN uart' = DOMAIN uart /\ uart'.tx = uart.tx /\ uart'.free = 0 /\ uart'.line = <<>>
        /\ uart'.room = uart.room /\ uart'.used = uart.used /\ (uart'.on => uart.on)
    BY <1>0, <1>2 DEF UART_Disable
  <2>. QED
    BY <1>0, <1>1, <2>1 DEF UartShape, UartFlow
<1>3. ASSUME NEW wide \in BOOLEAN, UART_Set_Data_Bits(wide)
      PROVE  /\ UartShape(uart') /\ UartFlow(uart', UartFlight) /\ uart'.used = uart.used
  <2>1. /\ DOMAIN uart' = DOMAIN uart /\ uart'.tx = EmptyRing(uart.tx.buf) /\ uart'.free = uart.free /\ uart'.line = uart.line
        /\ uart'.room = uart.room /\ uart'.used = uart.used /\ (uart'.on => uart.on)
    BY <1>0, <1>3 DEF UART_Set_Data_Bits, UART_Reset_Bufs
  <2>2. DOMAIN uart'.tx = {"buf", "si", "fi", "sc"} /\ uart'.tx.sc = 0
    BY <2>1 DEF EmptyRing
  <2>. QED
    BY <1>0, <2>1, <2>2 DEF UartShape, UartFlow
<1>4. CASE UartWriter
  <2>1. PICK m \in 1..UartWrites : \E bytes \in [1..m -> UartBytes] : UART_Write(bytes)
    BY <1>4 DEF UartWriter
  <2>2. PICK bytes \in [1..m -> UartBytes] : UART_Write(bytes)
    BY <2>1
  <2>. DEFINE even == Len(bytes) - (Len(bytes) % 2)
              s == IF uart.wide THEN SubSeq(bytes, 1, even) ELSE bytes
              n == Min({Len(s), UartRing - uart.tx.sc})
  <2>3. m \in Nat
    BY UartAssumption
  <2>4. bytes \in Seq(UartBytes) /\ Len(bytes) = m
    BY <2>3
  <2>5. even \in Nat /\ even <= Len(bytes)
    BY <2>3, <2>4
  <2>6. Len(s) \in Nat
    <3>. HIDE DEF even
    <3>. QED
      BY <2>4, <2>5
  <2>7. UartRing - uart.tx.sc \in Nat
    BY <1>0
  <2>8. uart' = [uart EXCEPT !.tx = Stored(uart.tx, s)]
    BY <2>2 DEF UART_Write
  <2>9. DOMAIN Stored(uart.tx, s) = DOMAIN uart.tx /\ Stored(uart.tx, s).sc = uart.tx.sc + n
    <3>. HIDE DEF s
    <3>. QED
      BY <1>0 DEF Stored
  <2>. HIDE DEF s
  <2>10. n \in Nat /\ n <= UartRing - uart.tx.sc
    BY <2>6, <2>7, MinOfTwo
  <2>. HIDE DEF n
  <2>11. uart.tx.sc + n \in Nat /\ uart.tx.sc + n <= UartRing
    BY <1>0, <2>10
  <2>12. /\ DOMAIN uart' = DOMAIN uart /\ uart'.tx = Stored(uart.tx, s) /\ uart'.free = uart.free /\ uart'.line = uart.line
         /\ uart'.room = uart.room /\ uart'.used = uart.used /\ (uart'.on => uart.on)
    BY <1>0, <2>8
  <2>. QED
    BY <1>0, <2>9, <2>11, <2>12 DEF UartShape, UartFlow
<1>5. ASSUME NEW n \in 1..UartWrites, UART_Read(n)
      PROVE  /\ UartShape(uart') /\ UartFlow(uart', UartFlight) /\ uart'.used = uart.used
  <2>1. /\ DOMAIN uart' = DOMAIN uart /\ uart'.tx = uart.tx /\ uart'.free = uart.free /\ uart'.line = uart.line
        /\ uart'.room = uart.room /\ uart'.used = uart.used /\ (uart'.on => uart.on)
    BY <1>0, <1>5 DEF UART_Read
  <2>. QED
    BY <1>0, <2>1 DEF UartShape, UartFlow
<1>6. CASE UART_Tx
  <2>. DEFINE cnt == UartCount
  <2>1. cnt \in Nat /\ cnt <= uart.free /\ cnt <= uart.tx.sc /\ cnt > 0
    <3>1. uart.free \in Nat /\ uart.tx.sc \in Nat
      BY <1>0
    <3>2. uart.free > 0 /\ uart.tx.sc > 0
      BY <1>6 DEF UART_Tx, UartCanSend
    <3>3. cnt \in {uart.free, uart.tx.sc}
      <4>1. \E m \in {uart.free, uart.tx.sc} : \A k \in {uart.free, uart.tx.sc} : m <= k
        BY <3>1
      <4>. QED
        BY <4>1 DEF UartCount, Min
    <3>4. cnt <= uart.free /\ cnt <= uart.tx.sc
      BY <3>1, MinOfTwo DEF UartCount
    <3>. HIDE DEF cnt
    <3>. QED
      BY <3>1, <3>2, <3>3, <3>4
  <2>2. PICK n \in UartTaken(cnt) :
          uart' = [uart EXCEPT
                     !.tx   = Fetched(@, cnt),
                     !.free = @ - cnt,
                     !.line = IF uart.on THEN @ \o SubSeq(RingBytes(uart.tx), 1, n) ELSE @,
                     !.room = IF n > @ THEN 0 ELSE @ - n]
    BY <1>6 DEF UART_Tx
  <2>3. n \in Nat /\ n <= cnt
    BY <2>1, PacketFacts
  <2>. DEFINE line == uart.line \o SubSeq(RingBytes(uart.tx), 1, n)
  <2>4. /\ DOMAIN uart' = DOMAIN uart /\ uart'.tx = Fetched(uart.tx, cnt) /\ uart'.free = uart.free - cnt
        /\ uart'.line = (IF uart.on THEN line ELSE uart.line)
        /\ uart'.room = (IF n > uart.room THEN 0 ELSE uart.room - n) /\ uart'.used = uart.used /\ (uart'.on => uart.on)
    BY <1>0, <2>2
  <2>. HIDE DEF cnt
  <2>5. IsSeq(line) /\ Len(line) \in Nat /\ Len(line) = Len(uart.line) + n
    BY <1>0, <2>1, <2>3, LineFacts
  <2>. HIDE DEF line
  <2>6. DOMAIN uart'.tx = {"buf", "si", "fi", "sc"} /\ uart'.tx.sc = uart.tx.sc - cnt
    BY <1>0, <2>4 DEF Fetched
  <2>7. UartFlight = <<>> /\ uart.free <= uart.room /\ Len(uart.line) + uart.room <= UartLen
    BY <1>0, <2>1 DEF UartFlow
  <2>8. uart'.room = uart.room - n
    BY <1>0, <2>1, <2>3, <2>4, <2>7
  <2>9. IsSeq(uart'.line) /\ Len(uart'.line) \in Nat /\ Len(uart'.line) <= Len(uart.line) + n
    BY <1>0, <2>3, <2>4, <2>5
  <2>10. UartShape(uart')
    <3>1. uart'.tx.sc \in Nat /\ uart'.tx.sc <= UartRing /\ uart'.free \in Nat /\ uart'.room \in Nat
      BY <1>0, <2>1, <2>3, <2>4, <2>6, <2>7, <2>8
    <3>. QED
      BY <1>0, <2>4, <2>6, <2>9, <3>1 DEF UartShape
  <2>11. ~uart.used => uart.free = 0 /\ ~uart.on
    BY <1>0 DEF UartFlow
  <2>12. uart'.free <= uart'.room /\ Len(uart'.line) + uart'.room <= UartLen
    BY <1>0, <2>1, <2>3, <2>4, <2>7, <2>8, <2>9
  <2>. QED
    BY <1>0, <2>1, <2>4, <2>7, <2>10, <2>11, <2>12 DEF UartFlow
<1>7. CASE UartLineSends
  <2>1. /\ DOMAIN uart' = DOMAIN uart /\ uart'.tx = uart.tx /\ uart'.free = uart.free /\ uart'.line = Tail(uart.line)
        /\ uart'.room = uart.room /\ uart'.used = uart.used /\ (uart'.on => uart.on) /\ uart.line # <<>>
    BY <1>0, <1>7 DEF UartLineSends
  <2>2. IsSeq(uart'.line)
    BY <1>0, <2>1, AmongTail
  <2>3. Len(uart'.line) \in Nat /\ Len(uart'.line) <= Len(uart.line)
    <3>1. \A S : \A q \in Seq(S) : q # <<>> => Len(Tail(q)) \in Nat /\ Len(Tail(q)) <= Len(q)
      OBVIOUS
    <3>. QED
      BY <1>0, <2>1, <3>1 DEF IsSeq
  <2>. QED
    BY <1>0, <2>1, <2>2, <2>3 DEF UartShape, UartFlow
<1>. QED
  BY <1>2, <1>3, <1>4, <1>5, <1>6, <1>7

\* An announcement is read: the library learns what room the device has.
LEMMA UartFreeKeeps ==
  ASSUME UartInv, ILink, Typed("txfree", UartFrees), UART_Rx_Tx_Free
  PROVE  UartInv' /\ Typed("txfree", UartFrees)' /\ pc' = pc
<1>. DEFINE U == Seen \cup UartFrees
            b == OfKind("txfree", imm)
            n == Head(rsp).n
<1>1. /\ rsp # <<>> /\ Head(rsp).k = "txfree" /\ Packet(n <= UartLen, RxRsp)
      /\ uart' = IF n <= UartLen THEN [uart EXCEPT !.free = n] ELSE uart
  BY DEF UART_Rx_Tx_Free, AtReply
<1>2. Delivers(U, "txfree", UartFrees) /\ rsp \in Seq(U) /\ imm \in Seq(U)
  BY TypedDelivers DEF UartFrees
<1>3. b \in Seq(UartFrees)
  <2>. HIDE DEF U
  <2>1. <<>> \in Seq(UartFrees)
    OBVIOUS
  <2>. QED
    BY <1>2, <2>1, DeliveredFacts
<1>4. /\ UartFlight # <<>> /\ Head(UartFlight) = Head(rsp) /\ Head(rsp) \in UartFrees
      /\ Flight("txfree", Tail(rsp), b) = Tail(UartFlight)
  <2>. HIDE DEF U, b
  <2>1. UartFlight = Flight("txfree", rsp, b)
    BY DEF UartFlight, ImmFlight, b
  <2>. QED
    BY <1>1, <1>2, <1>3, <2>1, DeliveredHead
<1>5. /\ UartShape(uart) /\ uart.free = 0 /\ uart.room > 0 /\ Len(UartFlight) = 1 /\ n = uart.room /\ uart.used
      /\ Len(uart.line) + uart.room <= UartLen /\ uart.room \in Nat /\ Len(uart.line) \in Nat /\ UartLen \in Nat
  BY <1>4, UartAssumption DEF UartInv, UartFlow, UartShape
<1>. HIDE DEF n
<1>6. n <= UartLen /\ n \in Nat
  BY <1>5
<1>7. rsp' = Tail(rsp) /\ UNCHANGED <<pc, conn, imm>> /\ uart' = [uart EXCEPT !.free = n]
  BY <1>1, <1>6 DEF Packet
<1>8. UartFlight' = <<>>
  <2>1. UartFlight' = Tail(UartFlight)
    BY <1>4, <1>7 DEF UartFlight, ImmFlight, b
  <2>2. UartFlight \in Seq(UartFrees)
    <3>. HIDE DEF U, b
    <3>1. UartFlight = Flight("txfree", rsp, b)
      BY DEF UartFlight, ImmFlight, b
    <3>. QED
      BY <1>2, <1>3, <3>1, DeliveredFacts
  <2>3. \A S : \A q \in Seq(S) : Len(q) = 1 => Tail(q) = <<>>
    <3>1. \A S : \A q \in Seq(S) : q # <<>> => Tail(q) \in Seq(S) /\ Len(Tail(q)) = Len(q) - 1
      OBVIOUS
    <3>2. \A S : \A q \in Seq(S) : Len(q) = 0 => q = <<>>
      OBVIOUS
    <3>3. Len(<<>>) = 0
      OBVIOUS
    <3>. SUFFICES ASSUME NEW S, NEW q \in Seq(S), Len(q) = 1 PROVE Tail(q) = <<>>
      OBVIOUS
    <3>4. q # <<>>
      <4>1. 1 # 0
        OBVIOUS
      <4>. QED
        BY <3>3, <4>1, Zenon
    <3>5. Tail(q) \in Seq(S) /\ Len(Tail(q)) = 0
      BY <3>1, <3>4
    <3>. QED
      BY <3>2, <3>5
  <2>. QED
    BY <1>5, <2>1, <2>2, <2>3
<1>9. /\ DOMAIN uart' = DOMAIN uart /\ uart'.tx = uart.tx /\ uart'.free = n /\ uart'.line = uart.line
      /\ uart'.room = uart.room /\ uart'.used = uart.used /\ (uart'.on => uart.on)
  BY <1>5, <1>7 DEF UartShape
<1>10. UartShape(uart')
  BY <1>5, <1>6, <1>9 DEF UartShape
<1>11. UartFlow(uart', <<>>)
  BY <1>5, <1>9 DEF UartFlow
<1>12. Typed("txfree", UartFrees)'
  BY <1>1, <1>7, ReadsTyped
<1>. QED
  BY <1>5, <1>7, <1>8, <1>9, <1>10, <1>11, <1>12 DEF UartInv

\* What the invariant says does not depend on the bytes that come.
LEMMA UartBytesKeep ==
  ASSUME UartInv, ILink, Typed("txfree", UartFrees), UartLineReceives \/ UART_Rx_Rsp \/ UART_Rx_Byte
  PROVE  UartInv' /\ Typed("txfree", UartFrees)' /\ pc' = pc
<1>1. LinkStep({"uart"})
  <2>. DEFINE K == {"uart"}
  <2>0. LinkInv
    BY DEF ILink
  <2>1. CASE UartLineReceives
    <3>1. PICK bytes : Replies([k |-> "uart", bytes |-> bytes])
      BY <2>1 DEF UartLineReceives
    <3>2. UNCHANGED <<conn, main, waitIdle, infoRead, pc, plugged, imm, rx>>
      BY <2>1 DEF UartLineReceives
    <3>. DEFINE v == [k |-> "uart", bytes |-> bytes]
    <3>3. v.k \in K /\ rsp' = Append(rsp, v)
      BY <3>1 DEF Replies
    <3>. HIDE DEF v
    <3>. QED
      BY <2>0, <3>2, <3>3, RepliesLinks
  <2>2. CASE UART_Rx_Rsp
    <3>. DEFINE next == [k |-> "uart", bytes |-> Head(rsp).bytes]
    <3>1. AtReply("uart") /\ Packet(TRUE, next)
      BY <2>2 DEF UART_Rx_Rsp
    <3>2. next.k \in K /\ "k" \in DOMAIN next /\ "uart" \in K
      OBVIOUS
    <3>. HIDE DEF next
    <3>. QED
      BY <2>0, <3>1, <3>2, PacketLinks
  <2>3. CASE UART_Rx_Byte
    <3>. DEFINE next == [rx EXCEPT !.bytes = Tail(@)]
    <3>1. AtByte("uart") /\ (DataByte(TRUE, RxRsp) \/ DataByte(TRUE, next))
      BY <2>3 DEF UART_Rx_Byte
    <3>2. next.k \in K /\ "k" \in DOMAIN next /\ "uart" \in K
      BY <2>0, <3>1 DEF AtByte, LinkInv
    <3>. HIDE DEF next
    <3>. QED
      BY <2>0, <3>1, <3>2, ByteLinks
  <2>. QED
    BY <2>1, <2>2, <2>3
<1>2. /\ ImmFlight("txfree")' = ImmFlight("txfree") /\ UNCHANGED conn
      /\ Typed("txfree", UartFrees)'
  BY <1>1, Elsewhere
<1>3. pc' = pc
  BY DEF UartLineReceives, UART_Rx_Rsp, UART_Rx_Byte, Packet, DataByte
<1>4. /\ DOMAIN uart = {"tx", "rx", "wide", "free", "on", "used", "line", "room"}
      /\ UartShape(uart) /\ UartFlow(uart, UartFlight)
  BY DEF UartInv, UartShape
<1>5. \/ uart' = uart
      \/ \E r : uart' = [uart EXCEPT !.rx = r]
  BY DEF UartLineReceives, UART_Rx_Rsp, UART_Rx_Byte
<1>6. /\ DOMAIN uart' = DOMAIN uart /\ uart'.tx = uart.tx /\ uart'.free = uart.free /\ uart'.line = uart.line
      /\ uart'.room = uart.room /\ uart'.used = uart.used /\ (uart'.on => uart.on)
  BY <1>4, <1>5
<1>7. UartShape(uart') /\ UartFlow(uart', UartFlight)
  BY <1>4, <1>6 DEF UartShape, UartFlow
<1>. QED
  BY <1>2, <1>3, <1>6, <1>7 DEF UartInv, UartFlight

\* The device has used what it announced, and announces what has become free.
LEMMA UartAnnouncesKeeps ==
  ASSUME UartInv, ILink, Typed("txfree", UartFrees), UartAnnounces
  PROVE  UartInv' /\ Typed("txfree", UartFrees)'
<1>. DEFINE n == UartLen - Len(uart.line)
            u == [k |-> "txfree", n |-> n]
            U == Seen \cup UartFrees
<1>1. /\ uart.room = 0 /\ Len(uart.line) < UartLen /\ imm = <<>> /\ rsp' = Append(rsp, u)
      /\ uart' = [uart EXCEPT !.room = n] /\ UNCHANGED <<conn, imm>> /\ uart.on
  BY DEF UartAnnounces, Replies
<1>2. /\ UartShape(uart) /\ UartFlow(uart, UartFlight) /\ uart.room \in Nat /\ uart.free \in Nat
      /\ Len(uart.line) \in Nat /\ UartLen \in Nat
      /\ DOMAIN uart = {"tx", "rx", "wide", "free", "on", "used", "line", "room"}
  BY UartAssumption DEF UartInv, UartShape
<1>3. n \in Nat /\ n > 0 /\ Len(uart.line) + n <= UartLen
  BY <1>1, <1>2
<1>4. u \in UartFrees /\ u.k = "txfree" /\ u.n = n
  BY <1>3 DEF UartFrees
<1>. HIDE DEF n, u
<1>5. Delivers(U, "txfree", UartFrees) /\ rsp \in Seq(U) /\ imm \in Seq(U)
  BY TypedDelivers DEF UartFrees
<1>6. uart.free = 0 /\ UartFlight = <<>>
  BY <1>1, <1>2 DEF UartFlow
<1>7. UartFlight' = <<u>>
  <2>. DEFINE a == OfKind("txfree", rsp)
  <2>1. u \in U
    BY <1>4
  <2>2. OfKind("txfree", Append(rsp, u)) = IF u.k = "txfree" THEN Append(a, u) ELSE a
    <3>. HIDE DEF U
    <3>. QED
      BY <1>5, <2>1, OfKindAppend
  <2>3. OfKind("txfree", <<>>) = <<>>
    BY EmptyOfKind
  <2>4. a \in Seq(UartFrees)
    <3>. HIDE DEF U
    <3>1. <<>> \in Seq(UartFrees)
      OBVIOUS
    <3>. QED
      BY <1>5, <3>1, DeliveredFacts
  <2>5. UartFlight = a \o <<>> /\ UartFlight' = Append(a, u) \o <<>>
    BY <1>1, <1>4, <2>2, <2>3 DEF UartFlight, ImmFlight, Flight
  <2>. HIDE DEF a
  <2>6. a \o <<>> = <<>> => Append(a, u) \o <<>> = <<u>>
    BY <1>4, <2>4
  <2>. QED
    BY <1>6, <2>5, <2>6
<1>8. uart.used
  BY <1>1, <1>2 DEF UartFlow
<1>9. /\ DOMAIN uart' = DOMAIN uart /\ uart'.tx = uart.tx /\ uart'.free = uart.free /\ uart'.line = uart.line
      /\ uart'.room = n /\ uart'.used = uart.used
  BY <1>1, <1>2
<1>10. UartShape(uart')
  BY <1>2, <1>3, <1>9 DEF UartShape
<1>11. UartFlow(uart', UartFlight')
  <2>1. Len(<<u>>) = 1 /\ Head(<<u>>) = u
    OBVIOUS
  <2>. QED
    BY <1>2, <1>3, <1>4, <1>6, <1>7, <1>8, <1>9, <2>1 DEF UartFlow
<1>12. Typed("txfree", UartFrees)'
  BY <1>1, <1>4, AnswerTyped
<1>. QED
  BY <1>1, <1>8, <1>9, <1>10, <1>11, <1>12 DEF UartInv

UartIInv == ILink /\ Typed("txfree", UartFrees) /\ UartInv

LEMMA UartOwnKeeps ==
  ASSUME UartIInv, UartStep, ~UartRestart
  PROVE  UartInv' /\ Typed("txfree", UartFrees)'
<1>0. ILink /\ Typed("txfree", UartFrees) /\ UartInv
  BY DEF UartIInv
<1>1. CASE UART_Enable
  BY <1>0, <1>1, UartEnableKeeps
<1>2. CASE \/ UART_Disable \/ (\E wide \in BOOLEAN : UART_Set_Data_Bits(wide)) \/ UartWriter
           \/ (\E n \in 1..UartWrites : UART_Read(n)) \/ UART_Tx \/ UartLineSends
  <2>1. UNCHANGED linkVars
    BY <1>2 DEF UART_Disable, UART_Set_Data_Bits, UartWriter, UART_Write, UART_Read, UART_Tx, UartLineSends, Configured, Called
  <2>2. imm' = imm /\ rsp' = rsp
    BY <2>1 DEF linkVars
  <2>3. Typed("txfree", UartFrees)'
    BY <1>0, <2>2, ReadsTyped
  <2>. QED
    BY <1>0, <1>2, <2>1, <2>3, UartQuietKeeps
<1>3. CASE UART_Rx_Tx_Free
  BY <1>0, <1>3, UartFreeKeeps
<1>4. CASE UartLineReceives \/ UART_Rx_Rsp \/ UART_Rx_Byte
  BY <1>0, <1>4, UartBytesKeep
<1>5. CASE UartAnnounces
  BY <1>0, <1>5, UartAnnouncesKeeps
<1>. QED
  BY <1>1, <1>2, <1>3, <1>4, <1>5 DEF UartStep, UartSetup, UartReader, UartRx, UartDevice

LEMMA UartElsewhere ==
  ASSUME UartIInv, uart' = uart, NEW K, LinkStep(K), "txfree" \notin K
  PROVE  UartInv' /\ Typed("txfree", UartFrees)'
<1>0. ILink /\ Typed("txfree", UartFrees) /\ UartInv
  BY DEF UartIInv
<1>1. /\ ImmFlight("txfree")' = ImmFlight("txfree") /\ UNCHANGED <<infoRead, conn>>
      /\ Typed("txfree", UartFrees)'
  BY <1>0, Elsewhere
<1>. QED
  BY <1>0, <1>1 DEF UartInv, UartFlight

LEMMA UartLinkOwn ==
  ASSUME UartIInv, uart' = uart, LinkOwn
  PROVE  UartInv' /\ Typed("txfree", UartFrees)'
<1>0. ILink /\ Typed("txfree", UartFrees) /\ UartInv /\ LinkInv /\ \A u \in UartFrees : u.k = "txfree"
  BY DEF UartIInv, ILink, UartFrees
<1>1. Typed("txfree", UartFrees)'
  BY <1>0, LinkOwnTyped
<1>2. conn = "connecting" => OfKind("txfree", rsp) = <<>>
  <2>. DEFINE U == Seen \cup UartFrees
              a == OfKind("txfree", imm)
  <2>1. Delivers(U, "txfree", UartFrees) /\ imm \in Seq(U)
    BY <1>0, TypedDelivers
  <2>2. a \in Seq(UartFrees)
    <3>. HIDE DEF U
    <3>1. <<>> \in Seq(UartFrees)
      OBVIOUS
    <3>. QED
      BY <2>1, <3>1, DeliveredFacts
  <2>3. IsSeq(rsp) /\ (conn = "connecting" => Flight("txfree", rsp, a) = <<>>)
    BY <1>0 DEF UartInv, UartFlow, UartFlight, ImmFlight, LinkInv
  <2>. HIDE DEF a
  <2>. QED
    BY <2>2, <2>3, EmptyFlight
<1>3. (conn' = "connecting" => conn = "connecting") /\ ImmFlight("txfree")' = ImmFlight("txfree")
  BY <1>0, <1>2, LinkOwnFacts
<1>. QED
  BY <1>0, <1>1, <1>3 DEF UartInv, UartFlight

LEMMA UartRest ==
  ASSUME UartIInv, Rx_Info \/ Mark_Detached \/ AL_Destroy
  PROVE  UartInv' /\ Typed("txfree", UartFrees)'
<1>0. ILink /\ Typed("txfree", UartFrees) /\ UartInv /\ LinkInv /\ \A u \in UartFrees : u.k = "txfree"
  BY DEF UartIInv, ILink, UartFrees
<1>1. Typed("txfree", UartFrees)'
  BY <1>0, TypedRest
<1>2. CASE Rx_Info
  <2>. DEFINE U == Seen \cup UartFrees
              b == OfKind("txfree", imm)
  <2>1. Delivers(U, "txfree", UartFrees) /\ rsp \in Seq(U) /\ imm \in Seq(U)
    BY <1>0, TypedDelivers
  <2>2. rsp # <<>> /\ Head(rsp).k # "txfree"
    BY <1>0, <1>2, InfoComesOnce
  <2>3. rsp' = Tail(rsp) /\ UNCHANGED <<conn, imm, uart>>
    BY <1>2 DEF Rx_Info
  <2>. HIDE DEF U
  <2>4. OfKind("txfree", Tail(rsp)) = OfKind("txfree", rsp)
    <3>1. b \in Seq(UartFrees)
      <4>1. <<>> \in Seq(UartFrees)
        OBVIOUS
      <4>. QED
        BY <2>1, <4>1, DeliveredFacts
    <3>. HIDE DEF b
    <3>. QED
      BY <2>1, <2>2, <3>1, DeliveredHead
  <2>5. UartFlight' = UartFlight
    BY <2>3, <2>4 DEF UartFlight, ImmFlight, Flight
  <2>. QED
    BY <1>0, <1>1, <2>3, <2>5 DEF UartInv
<1>3. CASE Mark_Detached
  <2>1. UNCHANGED <<uart, imm, rsp>> /\ conn' = "disconnected"
    BY <1>3 DEF Mark_Detached
  <2>2. UartFlight' = UartFlight
    BY <2>1 DEF UartFlight, ImmFlight, Flight
  <2>. QED
    BY <1>0, <1>1, <2>1, <2>2 DEF UartInv
<1>4. CASE AL_Destroy
  <2>1. uart' = UartClear /\ rsp' = <<>> /\ imm' = <<>>
    BY <1>4 DEF AL_Destroy
  <2>2. UartFlight' = <<>>
    BY <2>1, EmptyOfKind DEF UartFlight, ImmFlight, Flight
  <2>3. UartShape(uart') /\ UartFlow(uart', <<>>) /\ ~uart'.used
    BY <2>1, UartStarts
  <2>. QED
    BY <1>1, <2>2, <2>3 DEF UartInv
<1>. QED
  BY <1>2, <1>3, <1>4

LEMMA UartIInvKeeps ==
  ASSUME UartIInv, [Next]_vars, ~UartRestart
  PROVE  UartIInv'
<1>0. ILink /\ ILink'
  BY ILinkKeeps DEF UartIInv
<1>1. CASE UartStep
  BY <1>0, <1>1, UartOwnKeeps DEF UartIInv
<1>2. CASE Rx_Info \/ Mark_Detached \/ AL_Destroy
  BY <1>0, <1>2, UartRest DEF UartIInv
<1>3. CASE LinkOwn /\ uart' = uart
  BY <1>0, <1>3, UartLinkOwn DEF UartIInv
<1>4. CASE uart' = uart /\ (UNCHANGED linkVars \/ GpioStep \/ SpiStep \/ OwStep \/ TwiStep \/ SlaveStep)
  <2>1. PICK K : LinkStep(K) /\ "txfree" \notin K
    <3>1. UNCHANGED linkVars => LinkStep({})
      BY LinkSame
    <3>. QED
      BY <1>0, <1>4, <3>1, StepsLink DEF OwKinds
  <2>. QED
    BY <1>0, <1>4, <2>1, UartElsewhere DEF UartIInv
<1>. QED
  BY <1>1, <1>2, <1>3, <1>4, NextCases

LEMMA UartIInvHolds == ~UartRestart => (Spec => []UartIInv)
<1>. SUFFICES ASSUME ~UartRestart PROVE Spec => []UartIInv
  OBVIOUS
<1>1. Init => UartIInv
  <2>. SUFFICES ASSUME Init PROVE UartIInv
    OBVIOUS
  <2>1. ILink
    BY ILinkStarts
  <2>2. uart = UartClear /\ rsp = <<>> /\ imm = <<>>
    BY DEF Init, UartInit, LinkInit
  <2>3. UartFlight = <<>>
    BY <2>2, EmptyOfKind DEF UartFlight, ImmFlight, Flight
  <2>4. UartShape(uart) /\ UartFlow(uart, <<>>) /\ ~uart.used
    BY <2>2, UartStarts
  <2>5. Typed("txfree", UartFrees)
    BY <2>2, AmongNone DEF Typed, Seen
  <2>. QED
    BY <2>1, <2>3, <2>4, <2>5 DEF UartIInv, UartInv
<1>2. UartIInv /\ [Next]_vars => UartIInv'
  BY UartIInvKeeps
<1>. QED
  BY <1>1, <1>2, PTL DEF Spec

(* A UART is never sent more bytes than its buffer has room for, whatever  *)
(* the other interfaces do and however the device's announcements and the  *)
(* application's calls fall between them.                                  *)
THEOREM NoByteIsTooMany == ~UartRestart => (Spec => []UartRoom)
<1>. SUFFICES ASSUME ~UartRestart PROVE Spec => []UartRoom
  OBVIOUS
<1>1. UartIInv => UartRoom
  <2>. SUFFICES ASSUME UartIInv PROVE UartRoom
    OBVIOUS
  <2>1. /\ uart.free \in Nat /\ uart.room \in Nat /\ Len(uart.line) \in Nat /\ UartLen \in Nat
        /\ uart.free <= uart.room /\ Len(uart.line) + uart.room <= UartLen
    BY UartAssumption DEF UartIInv, UartInv, UartShape, UartFlow
  <2>. QED
    BY <2>1 DEF UartRoom
<1>2. Spec => []UartIInv
  BY UartIInvHolds
<1>. QED
  BY <1>1, <1>2, PTL

-----------------------------------------------------------------------------
(* What the invariants of the interfaces say of the replies. *)

\* Each reply meets the transfer it is for.
LEMMA FlightMeets ==
  ASSUME NEW p, PoolInv(p), NEW U, NEW f \in Seq(U), Fed(p, f),
         rx = RxRsp => \A x \in p.active : x # p.cur => \E m \in 1..Len(f) : f[m].x = x
  PROVE  Meets(p, f)
<1>. DEFINE meant == {n \in 1..Len(f) : f[n].x # NoXfr}
<1>1. \A n \in meant : f[n].x \in p.active
  BY DEF Fed
<1>2. p.sched \in Seq(Xfrs) /\ \A x \in p.active : \E i \in 1..Len(p.sched) : p.sched[i] = x
  BY ListFacts
<1>3. ASSUME NEW m \in meant, NEW n \in meant, m < n
      PROVE  Position(p.sched, f[m].x) <= Position(p.sched, f[n].x)
  <2>1. /\ Position(p.sched, f[m].x) \in 1..Len(p.sched) /\ p.sched[Position(p.sched, f[m].x)] = f[m].x
        /\ Position(p.sched, f[n].x) \in 1..Len(p.sched) /\ p.sched[Position(p.sched, f[n].x)] = f[n].x
    BY <1>1, <1>2, PositionFact
  <2>. QED
    BY <1>3, <2>1 DEF Fed
<1>4. ASSUME rx = RxRsp, NEW n \in meant, \A m \in meant : n <= m
      PROVE  f[n].x = Head(p.sched)
  <2>1. n \in 1..Len(f) /\ f[n].x # NoXfr
    OBVIOUS
  <2>2. \A m \in 1..(n - 1) : m \in 1..Len(f) /\ ~(n <= m)
    BY <2>1
  <2>3. \A m \in 1..(n - 1) : f[m].x = NoXfr
    BY <1>4, <2>2
  <2>. QED
    BY <1>4, <2>1, <2>3, FirstMeetsHead
<1>. QED
  BY <1>1, <1>3, <1>4 DEF Meets

LEMMA SpiMeets ==
  ASSUME SpiIInv
  PROVE  /\ ~Is_Detached => Meets(spi.pool, InFlight("spi"))
         /\ infoRead => SpiCredits
<1>0. ILink /\ Typed("spi", SpiUnits) /\ SpiInv
  BY DEF SpiIInv
<1>1. InFlight("spi") = SpiFlight
  BY DEF InFlight, Held, SpiFlight, Flight
<1>2. infoRead => SpiCredits
  BY <1>0, <1>1 DEF SpiCredits, SpiInv
<1>3. SUFFICES ASSUME ~Is_Detached PROVE Meets(spi.pool, SpiFlight)
  BY <1>1, <1>2
<1>4. SpiShape(spi) /\ SpiFlow(spi, SpiFlight, rx) /\ PoolInv(spi.pool) /\ Fed(spi.pool, SpiFlight)
  BY <1>0, <1>3 DEF SpiInv, SpiShape, SpiFlow
<1>5. SpiFlight \in Seq(SpiUnits)
  <2>. DEFINE U == Seen \cup SpiUnits
  <2>1. Delivers(U, "spi", SpiUnits) /\ rsp \in Seq(U)
    BY <1>0, TypedDelivers DEF SpiUnits
  <2>2. spi.buf \in Seq(SpiUnits)
    BY <1>4 DEF SpiShape
  <2>. HIDE DEF U
  <2>. QED
    BY <2>1, <2>2, DeliveredFacts DEF SpiFlight
<1>6. ASSUME rx = RxRsp, NEW x \in spi.pool.active, x # spi.pool.cur
      PROVE  \E m \in 1..Len(SpiFlight) : SpiFlight[m].x = x
  <2>1. x \in Scheduled(spi.pool)
    BY <1>4, ListFacts
  <2>2. SpiAbout(spi, SpiFlight, rx, x) /\ ~Reads(rx, "spi", spi, x)
    BY <1>4, <1>6, <2>1 DEF SpiFlow, Reads, RxRsp
  <2>3. spi.prog[x].fi = spi.prog[x].sc
    BY <1>6, <2>2 DEF SpiAbout
  <2>. QED
    BY <2>2, <2>3 DEF SpiAbout
<1>. QED
  BY <1>4, <1>5, <1>6, FlightMeets

LEMMA GpioMeets ==
  ASSUME GpioIInv, ~Is_Detached
  PROVE  Meets(gpio.pool, InFlight("gpio"))
<1>0. ILink /\ Typed("gpio", GpioUnits) /\ GpioInv
  BY DEF GpioIInv
<1>1. InFlight("gpio") = GpioFlight
  BY DEF InFlight, Held, GpioFlight, Flight
<1>2. GpioShape(gpio) /\ GpioFlow(gpio, GpioFlight) /\ PoolInv(gpio.pool) /\ Fed(gpio.pool, GpioFlight)
  BY <1>0 DEF GpioInv, GpioShape, GpioFlow
<1>3. GpioFlight \in Seq(GpioUnits)
  <2>. DEFINE U == Seen \cup GpioUnits
  <2>1. Delivers(U, "gpio", GpioUnits) /\ rsp \in Seq(U) /\ imm \in Seq(U)
    BY <1>0, TypedDelivers DEF GpioUnits
  <2>. HIDE DEF U
  <2>. QED
    BY <2>1, GpioFlightFacts
<1>4. \A x \in gpio.pool.active : x # gpio.pool.cur => \E m \in 1..Len(GpioFlight) : GpioFlight[m].x = x
  BY <1>2 DEF GpioFlow
<1>. QED
  BY <1>1, <1>2, <1>3, <1>4, FlightMeets

\* The checks of a reply and of its data bytes let it pass.
LEMMA RepliesAccepted ==
  ASSUME SpiIInv, GpioIInv, UartIInv, GPIO_Rx \/ SpiRx \/ UartRx
  PROVE  UNCHANGED pc
<1>0. /\ ILink /\ Typed("spi", SpiUnits) /\ SpiInv /\ Typed("gpio", GpioUnits) /\ GpioInv
      /\ Typed("txfree", UartFrees) /\ UartInv
  BY DEF SpiIInv, GpioIInv, UartIInv
<1>1. pc = "rx" => ~Is_Detached
  BY <1>0 DEF ILink, LinkInv
<1>2. CASE SpiRx
  <2>. DEFINE U == Seen \cup SpiUnits
  <2>1. Delivers(U, "spi", SpiUnits) /\ rsp \in Seq(U)
    BY <1>0, TypedDelivers DEF SpiUnits
  <2>2. pc = "rx"
    BY <1>2 DEF SpiRx, SPI_Rx_Rsp, SPI_Rx_Byte, AtReply, AtByte
  <2>. HIDE DEF U
  <2>. QED
    BY <1>0, <1>1, <1>2, <2>1, <2>2, SpiRspKeeps, SpiByteKeeps DEF SpiRx
<1>3. CASE GPIO_Rx
  <2>. DEFINE U == Seen \cup GpioUnits
  <2>1. Delivers(U, "gpio", GpioUnits) /\ rsp \in Seq(U) /\ imm \in Seq(U)
    BY <1>0, TypedDelivers DEF GpioUnits
  <2>2. pc = "rx"
    BY <1>3 DEF GPIO_Rx, AtReply
  <2>. HIDE DEF U
  <2>. QED
    BY <1>0, <1>1, <1>3, <2>1, <2>2, GpioRxKeeps
<1>4. CASE UartRx
  BY <1>0, <1>4, UartFreeKeeps, UartBytesKeep DEF UartRx
<1>. QED
  BY <1>2, <1>3, <1>4

SpiMeet  == ~Is_Detached => Meets(spi.pool, InFlight("spi"))
GpioMeet == ~Is_Detached => Meets(gpio.pool, InFlight("gpio"))

(* The replies of the GPIO lines and of the SPI on their way are, in their *)
(* order, for the transfers at the front of the list, and the free bytes   *)
(* of the device's SPI buffer add up: the parts of RepliesMeetTransfers    *)
(* and CreditsAddUp of these two, for an application that does not enable  *)
(* the SPI while it has transfers.                                         *)
THEOREM GpioAndSpiRepliesMeet ==
  ~Reenable /\ ~GpioEarly => (Spec => [](SpiMeet /\ (infoRead => SpiCredits) /\ GpioMeet))
<1>. SUFFICES ASSUME ~Reenable, ~GpioEarly
             PROVE  Spec => [](SpiMeet /\ (infoRead => SpiCredits) /\ GpioMeet)
  OBVIOUS
<1>1. SpiIInv => SpiMeet /\ (infoRead => SpiCredits)
  BY SpiMeets DEF SpiMeet
<1>2. GpioIInv => GpioMeet
  BY GpioMeets DEF GpioMeet
<1>. QED
  BY <1>1, <1>2, SpiIInvHolds, GpioIInvHolds, PTL

(* No reply of the GPIO lines, the SPI or the UART makes the library give  *)
(* the device up: the part of ObedientDeviceIsKept of these three.         *)
THEOREM RepliesAreAccepted ==
  ~Reenable /\ ~GpioEarly /\ ~UartRestart =>
    (Spec => [][GPIO_Rx \/ SpiRx \/ UartRx => UNCHANGED pc]_vars)
<1>. SUFFICES ASSUME ~Reenable, ~GpioEarly, ~UartRestart
             PROVE  Spec => [][GPIO_Rx \/ SpiRx \/ UartRx => UNCHANGED pc]_vars
  OBVIOUS
<1>1. SpiIInv /\ GpioIInv /\ UartIInv /\ [Next]_vars => [GPIO_Rx \/ SpiRx \/ UartRx => UNCHANGED pc]_vars
  BY RepliesAccepted
<1>. QED
  BY <1>1, SpiIInvHolds, GpioIInvHolds, UartIInvHolds, PTL DEF Spec

-----------------------------------------------------------------------------
(* The rings of a UART: what they hold is a queue. *)

LEMMA SameSequence ==
  ASSUME NEW s, IsSeq(s), NEW t, IsSeq(t), Len(s) = Len(t), \A i \in 1..Len(s) : s[i] = t[i]
  PROVE  s = t
<1>1. \A S, T : \A a \in Seq(S), b \in Seq(T) : Len(a) = Len(b) /\ (\A i \in 1..Len(a) : a[i] = b[i]) => a = b
  OBVIOUS
<1>. QED
  BY <1>1 DEF IsSeq

\* What the provers need of sequences joined and cut.
IsJoin(s, t, w) ==
  /\ \A i \in 1..Len(s) : w[i] = s[i]
  /\ \A i \in 1..Len(t) : w[Len(s) + i] = t[i]

LEMMA Joined ==
  ASSUME NEW s, IsSeq(s), NEW t, IsSeq(t)
  PROVE  /\ IsSeq(s \o t) /\ Len(s \o t) = Len(s) + Len(t) /\ Len(s) \in Nat /\ Len(t) \in Nat
         /\ IsJoin(s, t, s \o t)
<1>1. \A S, T : \A a \in Seq(S), b \in Seq(T) :
         /\ a \o b \in Seq(S \cup T) /\ Len(a \o b) = Len(a) + Len(b) /\ Len(a) \in Nat /\ Len(b) \in Nat
         /\ \A i \in 1..Len(a) : (a \o b)[i] = a[i]
         /\ \A i \in 1..Len(b) : (a \o b)[Len(a) + i] = b[i]
  OBVIOUS
<1>2. s \in Seq(Among(s)) /\ t \in Seq(Among(t))
  BY DEF IsSeq
<1>3. s \o t \in Seq(Among(s) \cup Among(t))
  BY <1>1, <1>2
<1>4. IsSeq(s \o t)
  BY <1>3, SeqOf
<1>5. IsJoin(s, t, s \o t)
  BY <1>1, <1>2 DEF IsJoin
<1>. QED
  BY <1>1, <1>2, <1>4, <1>5

LEMMA LenOf ==
  ASSUME NEW s, IsSeq(s)
  PROVE  Len(s) \in Nat
<1>1. \A S : \A a \in Seq(S) : Len(a) \in Nat
  OBVIOUS
<1>. QED
  BY <1>1 DEF IsSeq

LEMMA FirstPart ==
  ASSUME NEW s, IsSeq(s), NEW n \in 0..Len(s)
  PROVE  IsSeq(SubSeq(s, 1, n)) /\ Len(SubSeq(s, 1, n)) = n /\ \A i \in 1..n : SubSeq(s, 1, n)[i] = s[i]
<1>1. \A S : \A a \in Seq(S) : \A m \in 0..Len(a) :
         SubSeq(a, 1, m) \in Seq(S) /\ Len(SubSeq(a, 1, m)) = m /\ \A i \in 1..m : SubSeq(a, 1, m)[i] = a[i]
  OBVIOUS
<1>2. s \in Seq(Among(s))
  BY DEF IsSeq
<1>3. SubSeq(s, 1, n) \in Seq(Among(s))
  BY <1>1, <1>2
<1>4. IsSeq(SubSeq(s, 1, n))
  BY <1>3, SeqOf
<1>. QED
  BY <1>1, <1>2, <1>4

LEMMA LastPart ==
  ASSUME NEW s, IsSeq(s), NEW n \in 0..Len(s)
  PROVE  /\ IsSeq(SubSeq(s, n + 1, Len(s))) /\ Len(SubSeq(s, n + 1, Len(s))) = Len(s) - n
         /\ \A i \in 1..(Len(s) - n) : SubSeq(s, n + 1, Len(s))[i] = s[n + i]
<1>1. \A S : \A a \in Seq(S) : \A m \in 0..Len(a) :
         /\ SubSeq(a, m + 1, Len(a)) \in Seq(S) /\ Len(SubSeq(a, m + 1, Len(a))) = Len(a) - m
         /\ \A i \in 1..(Len(a) - m) : SubSeq(a, m + 1, Len(a))[i] = a[m + i]
  OBVIOUS
<1>2. s \in Seq(Among(s))
  BY DEF IsSeq
<1>3. SubSeq(s, n + 1, Len(s)) \in Seq(Among(s))
  BY <1>1, <1>2
<1>4. IsSeq(SubSeq(s, n + 1, Len(s)))
  BY <1>3, SeqOf
<1>. QED
  BY <1>1, <1>2, <1>4

\* An index runs over the end of a ring at most once.
Wrap(a) == IF a < UartRing THEN a ELSE a - UartRing

LEMMA Wraps ==
  ASSUME NEW a \in Nat, a < UartRing + UartRing
  PROVE  a % UartRing = Wrap(a) /\ Wrap(a) \in 0..(UartRing - 1)
<1>0. UartRing \in Nat /\ UartRing > 0
  BY UartAssumption
<1>1. CASE a < UartRing
  <2>1. a % UartRing = a
    BY <1>0, <1>1
  <2>. QED
    BY <1>0, <1>1, <2>1 DEF Wrap
<1>2. CASE ~(a < UartRing)
  <2>1. a >= UartRing
    BY <1>0, <1>2
  <2>2. a % UartRing = a - UartRing
    BY <1>0, <2>1
  <2>. QED
    BY <1>0, <1>2, <2>2 DEF Wrap
<1>. QED
  BY <1>1, <1>2

LEMMA WrapTwice ==
  ASSUME NEW a \in Nat, NEW b \in Nat, a + b < UartRing + UartRing
  PROVE  Wrap(Wrap(a) + b) = Wrap(a + b)
<1>0. UartRing \in Nat
  BY UartAssumption
<1>1. CASE a < UartRing
  BY <1>1 DEF Wrap
<1>2. CASE ~(a < UartRing)
  <2>1. a - UartRing + b < UartRing /\ ~(a + b < UartRing) /\ a + b - UartRing = a - UartRing + b
    BY <1>0, <1>2
  <2>2. Wrap(a) = a - UartRing
    BY <1>2 DEF Wrap
  <2>. DEFINE m == a - UartRing + b
  <2>3. Wrap(a) + b = m
    BY <2>2
  <2>4. Wrap(a + b) = m
    <3>. DEFINE ab == a + b
    <3>1. ~(ab < UartRing) /\ ab - UartRing = m
      BY <1>0, <2>1
    <3>. HIDE DEF ab, m
    <3>2. Wrap(ab) = m
      BY <3>1 DEF Wrap
    <3>. QED
      BY <3>2 DEF ab
  <2>5. m < UartRing
    BY <2>1
  <2>. HIDE DEF m
  <2>6. Wrap(m) = m
    BY <2>5 DEF Wrap
  <2>. QED
    BY <2>3, <2>4, <2>6
<1>. QED
  BY <1>1, <1>2

\* How far the index a is behind or before the index b.
LEMMA WrapBack ==
  ASSUME NEW a \in Nat, NEW b \in Nat, a < UartRing + UartRing, b < UartRing + UartRing,
         a < b + UartRing, b <= a + UartRing
  PROVE  Wrap(Wrap(a) + UartRing - Wrap(b)) = IF a < b THEN a - b + UartRing ELSE a - b
<1>0. UartRing \in Nat
  BY UartAssumption
<1>1. CASE a < UartRing /\ b < UartRing
  <2>1. Wrap(a) = a /\ Wrap(b) = b
    BY <1>1 DEF Wrap
  <2>. QED
    BY <1>0, <1>1, <2>1 DEF Wrap
<1>2. CASE a < UartRing /\ ~(b < UartRing)
  <2>1. Wrap(a) = a /\ Wrap(b) = b - UartRing
    BY <1>2 DEF Wrap
  <2>. QED
    BY <1>0, <1>2, <2>1 DEF Wrap
<1>3. CASE ~(a < UartRing) /\ b < UartRing
  <2>1. Wrap(a) = a - UartRing /\ Wrap(b) = b
    BY <1>3 DEF Wrap
  <2>. QED
    BY <1>0, <1>3, <2>1 DEF Wrap
<1>4. CASE ~(a < UartRing) /\ ~(b < UartRing)
  <2>1. Wrap(a) = a - UartRing /\ Wrap(b) = b - UartRing
    BY <1>4 DEF Wrap
  <2>. QED
    BY <1>0, <1>4, <2>1 DEF Wrap
<1>. QED
  BY <1>1, <1>2, <1>3, <1>4

Ring(r) ==
  /\ DOMAIN r = {"buf", "si", "fi", "sc"}
  /\ DOMAIN r.buf = 0..(UartRing - 1)
  /\ r.fi \in 0..(UartRing - 1) /\ r.sc \in 0..UartRing
  /\ r.si = Wrap(r.fi + r.sc)

\* The bytes of a ring, one by one.
LEMMA RingFacts ==
  ASSUME NEW r, Ring(r)
  PROVE  /\ IsSeq(RingBytes(r)) /\ Len(RingBytes(r)) = r.sc
         /\ \A i \in 1..r.sc : RingBytes(r)[i] = r.buf[Wrap(r.fi + i - 1)]
         /\ r.si \in 0..(UartRing - 1)
<1>0. UartRing \in Nat /\ UartRing > 0 /\ r.fi \in Nat /\ r.sc \in Nat /\ r.fi < UartRing /\ r.sc <= UartRing
  BY UartAssumption DEF Ring
<1>. DEFINE e == [i \in 1..r.sc |-> r.buf[(r.fi + i - 1) % UartRing]]
            T == {e[i] : i \in 1..r.sc}
<1>1. RingBytes(r) = e
  BY DEF RingBytes
<1>2. e \in Seq(T) /\ Len(e) = r.sc
  <2>1. \A W : \A g \in [1..r.sc -> W] : g \in Seq(W) /\ Len(g) = r.sc
    BY <1>0
  <2>2. e \in [1..r.sc -> {e[i] : i \in 1..r.sc}]
    OBVIOUS
  <2>. HIDE DEF e
  <2>. QED
    BY <2>1, <2>2
<1>3. IsSeq(e)
  <2>. HIDE DEF e, T
  <2>. QED
    BY <1>2, SeqOf
<1>4. ASSUME NEW i \in 1..r.sc PROVE e[i] = r.buf[Wrap(r.fi + i - 1)]
  <2>1. r.fi + i - 1 \in Nat /\ r.fi + i - 1 < UartRing + UartRing
    BY <1>0
  <2>. QED
    BY <2>1, Wraps
<1>5. r.fi + r.sc \in Nat /\ r.fi + r.sc < UartRing + UartRing
  BY <1>0
<1>6. r.si \in 0..(UartRing - 1)
  BY <1>5, Wraps DEF Ring
<1>. HIDE DEF e
<1>. QED
  BY <1>1, <1>2, <1>3, <1>4, <1>6

LEMMA RingEmptied ==
  ASSUME NEW b, DOMAIN b = 0..(UartRing - 1)
  PROVE  Ring(EmptyRing(b)) /\ RingBytes(EmptyRing(b)) = <<>>
<1>. DEFINE r == EmptyRing(b)
<1>1. DOMAIN r = {"buf", "si", "fi", "sc"} /\ r.buf = b /\ r.si = 0 /\ r.fi = 0 /\ r.sc = 0
  BY DEF EmptyRing
<1>. HIDE DEF r
<1>2. Ring(r)
  BY <1>1, UartAssumption DEF Ring, Wrap
<1>3. IsSeq(RingBytes(r)) /\ Len(RingBytes(r)) = 0
  BY <1>1, <1>2, RingFacts
<1>4. RingBytes(r) = <<>>
  BY <1>3, AmongNone, SameSequence
<1>. QED
  BY <1>2, <1>4 DEF r

\* The oldest bytes leave.
LEMMA RingFetched ==
  ASSUME NEW r, Ring(r), NEW n \in 0..r.sc
  PROVE  /\ Ring(Fetched(r, n))
         /\ RingBytes(Fetched(r, n)) = SubSeq(RingBytes(r), n + 1, Len(RingBytes(r)))
<1>0. UartRing \in Nat /\ UartRing > 0 /\ r.fi \in Nat /\ r.sc \in Nat /\ r.fi < UartRing /\ r.sc <= UartRing
      /\ n \in Nat /\ n <= r.sc /\ r.si = Wrap(r.fi + r.sc)
  BY UartAssumption DEF Ring
<1>. DEFINE t == Fetched(r, n)
<1>1. (r.fi + n) % UartRing = Wrap(r.fi + n) /\ Wrap(r.fi + n) \in 0..(UartRing - 1)
  BY <1>0, Wraps
<1>2. DOMAIN t = DOMAIN r /\ t.buf = r.buf /\ t.si = r.si /\ t.fi = Wrap(r.fi + n) /\ t.sc = r.sc - n
  BY <1>1 DEF Fetched, Ring
<1>. HIDE DEF t
<1>3. Ring(t)
  <2>1. Wrap(Wrap(r.fi + n) + (r.sc - n)) = Wrap(r.fi + r.sc)
    <3>1. r.fi + n \in Nat /\ r.sc - n \in Nat /\ r.fi + n + (r.sc - n) = r.fi + r.sc /\ r.fi + r.sc < UartRing + UartRing
      BY <1>0
    <3>. QED
      BY <3>1, WrapTwice
  <2>. QED
    BY <1>0, <1>1, <1>2, <2>1 DEF Ring
<1>. DEFINE q == RingBytes(r)
            s == SubSeq(q, n + 1, Len(q))
            u == RingBytes(t)
<1>4. IsSeq(q) /\ Len(q) = r.sc /\ \A i \in 1..r.sc : q[i] = r.buf[Wrap(r.fi + i - 1)]
  BY RingFacts
<1>5. IsSeq(u) /\ Len(u) = r.sc - n /\ \A i \in 1..(r.sc - n) : u[i] = r.buf[Wrap(Wrap(r.fi + n) + i - 1)]
  BY <1>2, <1>3, RingFacts
<1>. HIDE DEF q, u
<1>6. IsSeq(s) /\ Len(s) = r.sc - n /\ \A i \in 1..(r.sc - n) : s[i] = q[n + i]
  <2>1. n \in 0..Len(q)
    BY <1>0, <1>4
  <2>. QED
    BY <1>4, <2>1, LastPart
<1>. HIDE DEF s
<1>7. ASSUME NEW i \in 1..(r.sc - n) PROVE u[i] = s[i]
  <2>1. n + i \in 1..r.sc
    BY <1>0
  <2>2. Wrap(Wrap(r.fi + n) + i - 1) = Wrap(r.fi + (n + i) - 1)
    <3>1. r.fi + n \in Nat /\ i - 1 \in Nat /\ r.fi + n + (i - 1) < UartRing + UartRing
          /\ r.fi + (n + i) - 1 = r.fi + n + (i - 1)
      BY <1>0
    <3>2. Wrap(r.fi + n) + i - 1 = Wrap(r.fi + n) + (i - 1)
      BY <1>1, <3>1
    <3>. QED
      BY <3>1, <3>2, WrapTwice
  <2>. QED
    BY <1>4, <1>5, <1>6, <2>1, <2>2
<1>8. u = s
  BY <1>5, <1>6, <1>7, SameSequence
<1>. QED
  BY <1>3, <1>8 DEF t, u, s, q

\* The bytes that are stored follow those that are there.
LEMMA RingStored ==
  ASSUME NEW r, Ring(r), NEW bytes, IsSeq(bytes)
  PROVE  \E n \in 0..Len(bytes) :
           /\ Ring(Stored(r, bytes)) /\ n <= UartRing - r.sc
           /\ RingBytes(Stored(r, bytes)) = RingBytes(r) \o SubSeq(bytes, 1, n)
<1>. DEFINE n == Min({Len(bytes), UartRing - r.sc})
            t == Stored(r, bytes)
<1>0. UartRing \in Nat /\ UartRing > 0 /\ r.fi \in Nat /\ r.sc \in Nat /\ r.fi < UartRing /\ r.sc <= UartRing
      /\ r.si = Wrap(r.fi + r.sc) /\ r.si \in 0..(UartRing - 1) /\ Len(bytes) \in Nat
  BY UartAssumption, RingFacts, LenOf DEF Ring
<1>1. n \in Nat /\ n <= Len(bytes) /\ n <= UartRing - r.sc
  <2>1. UartRing - r.sc \in Nat
    BY <1>0
  <2>. QED
    BY <1>0, <2>1, MinOfTwo
<1>2. /\ DOMAIN t = DOMAIN r /\ t.fi = r.fi /\ t.si = (r.si + n) % UartRing /\ t.sc = r.sc + n
      /\ t.buf = [i \in DOMAIN r.buf |-> LET k == (i + UartRing - r.si) % UartRing
                                          IN  IF k < n THEN bytes[k + 1] ELSE r.buf[i]]
  BY DEF Stored, Ring
<1>. HIDE DEF t, n
<1>3. t.si = Wrap(r.si + n)
  <2>1. r.si + n \in Nat /\ r.si + n < UartRing + UartRing
    BY <1>0, <1>1
  <2>. QED
    BY <1>2, <2>1, Wraps
<1>4. ASSUME NEW i \in 0..(UartRing - 1)
      PROVE  t.buf[i] = IF Wrap(i + UartRing - r.si) < n THEN bytes[Wrap(i + UartRing - r.si) + 1] ELSE r.buf[i]
  <2>1. i + UartRing - r.si \in Nat /\ i + UartRing - r.si < UartRing + UartRing
    BY <1>0
  <2>2. (i + UartRing - r.si) % UartRing = Wrap(i + UartRing - r.si)
    BY <2>1, Wraps
  <2>. QED
    BY <1>2, <2>2 DEF Ring
<1>5. Ring(t)
  <2>1. Wrap(Wrap(r.fi + r.sc) + n) = Wrap(r.fi + (r.sc + n))
    <3>1. r.fi + r.sc \in Nat /\ r.fi + r.sc + n < UartRing + UartRing /\ r.fi + r.sc + n = r.fi + (r.sc + n)
      BY SMTT(30), <1>0, <1>1
    <3>. QED
      BY <1>1, <3>1, WrapTwice
  <2>2. DOMAIN t.buf = DOMAIN r.buf
    BY <1>2
  <2>3. r.sc + n \in 0..UartRing
    BY <1>0, <1>1
  <2>. QED
    BY <1>0, <1>2, <1>3, <2>1, <2>2, <2>3 DEF Ring
<1>. DEFINE q == RingBytes(r)
            u == RingBytes(t)
            c == SubSeq(bytes, 1, n)
            s == q \o c
<1>6. IsSeq(q) /\ Len(q) = r.sc /\ \A i \in 1..r.sc : q[i] = r.buf[Wrap(r.fi + i - 1)]
  BY RingFacts
<1>7. IsSeq(u) /\ Len(u) = r.sc + n /\ \A i \in 1..(r.sc + n) : u[i] = t.buf[Wrap(r.fi + i - 1)]
  BY <1>2, <1>5, RingFacts
<1>8. IsSeq(c) /\ Len(c) = n /\ \A i \in 1..n : c[i] = bytes[i]
  <2>1. n \in 0..Len(bytes)
    BY <1>0, <1>1
  <2>. QED
    BY <2>1, FirstPart
<1>. HIDE DEF q, u, c
<1>9. /\ IsSeq(s) /\ Len(s) = r.sc + n
      /\ \A i \in 1..r.sc : s[i] = q[i]
      /\ \A j \in 1..n : s[r.sc + j] = c[j]
  <2>1. IsSeq(s) /\ Len(s) = Len(q) + Len(c) /\ IsJoin(q, c, s)
    <3>1. IsSeq(q) /\ IsSeq(c)
      BY <1>6, <1>8
    <3>. QED
      BY <3>1, Joined
  <2>. HIDE DEF s
  <2>. QED
    BY <1>6, <1>8, <2>1 DEF IsJoin
<1>. HIDE DEF s
<1>10. ASSUME NEW i \in 1..(r.sc + n) PROVE u[i] = s[i]
  <2>. DEFINE p == Wrap(r.fi + i - 1)
              k == Wrap(p + UartRing - r.si)
  <2>0. i \in Nat /\ i >= 1 /\ i <= r.sc + n
    BY <1>0, <1>1
  <2>. DEFINE a == r.fi + i - 1
              b == r.fi + r.sc
  <2>1. a \in Nat /\ b \in Nat /\ a < UartRing + UartRing /\ b < UartRing + UartRing
        /\ a < b + UartRing /\ b <= a + UartRing
    <3>. DEFINE fi == r.fi
                sc == r.sc
    <3>1. /\ UartRing \in Nat /\ fi \in Nat /\ sc \in Nat /\ fi < UartRing /\ sc <= UartRing
          /\ n \in Nat /\ sc + n <= UartRing
      BY <1>0, <1>1
    <3>. HIDE DEF fi, sc
    <3>2. /\ fi + i - 1 \in Nat /\ fi + sc \in Nat /\ fi + i - 1 < UartRing + UartRing /\ fi + sc < UartRing + UartRing
          /\ fi + i - 1 < fi + sc + UartRing /\ fi + sc <= fi + i - 1 + UartRing
      BY <2>0, <3>1 DEF sc
    <3>. QED
      BY <3>2 DEF fi, sc
  <2>2. p \in 0..(UartRing - 1) /\ k = IF a < b THEN a - b + UartRing ELSE a - b
    <3>. HIDE DEF a, b
    <3>1. Wrap(a) \in 0..(UartRing - 1) /\ Wrap(Wrap(a) + UartRing - Wrap(b)) = IF a < b THEN a - b + UartRing ELSE a - b
      BY <2>1, Wraps, WrapBack
    <3>. QED
      BY <1>0, <3>1 DEF a, b
  <2>. HIDE DEF k, p
  <2>5. u[i] = IF k < n THEN bytes[k + 1] ELSE r.buf[p]
    BY <1>4, <1>7, <2>2 DEF p, k
  <2>3. CASE i <= r.sc
    <3>1. ~(k < n) /\ i \in 1..r.sc
      <4>1. a < b /\ a - b + UartRing = i - 1 - r.sc + UartRing /\ i \in 1..r.sc
        BY <1>0, <2>0, <2>3
      <4>2. k = i - 1 - r.sc + UartRing
        BY <2>2, <4>1
      <4>. QED
        BY <1>0, <1>1, <2>0, <4>1, <4>2
    <3>2. s[i] = q[i] /\ q[i] = r.buf[p]
      BY <1>6, <1>9, <3>1 DEF p
    <3>. QED
      BY <2>5, <3>1, <3>2
  <2>4. CASE ~(i <= r.sc)
    <3>. DEFINE j == i - r.sc
    <3>1. j \in 1..n /\ i = r.sc + j /\ k < n /\ k + 1 = j
      <4>1. ~(a < b) /\ a - b = i - 1 - r.sc
        BY <1>0, <2>0, <2>4
      <4>2. k = i - 1 - r.sc
        BY <2>2, <4>1
      <4>. QED
        <5>. DEFINE sc == r.sc
        <5>1. k = i - 1 - sc /\ sc \in Nat /\ ~(i <= sc) /\ i <= sc + n
          BY <1>0, <2>0, <2>4, <4>2
        <5>. HIDE DEF sc
        <5>2. j = i - sc
          BY DEF sc
        <5>. HIDE DEF j
        <5>3. j \in 1..n /\ i = sc + j /\ k < n /\ k + 1 = j
          BY <1>1, <2>0, <5>1, <5>2
        <5>. QED
          BY <5>3 DEF sc
    <3>. HIDE DEF j
    <3>2. s[r.sc + j] = c[j] /\ c[j] = bytes[j]
      BY <1>8, <1>9, <3>1
    <3>3. s[i] = bytes[j]
      BY <3>1, <3>2
    <3>. QED
      BY <2>5, <3>1, <3>3
  <2>. QED
    BY <2>3, <2>4
<1>11. u = s
  BY <1>7, <1>9, <1>10, SameSequence
<1>12. n \in 0..Len(bytes)
  BY <1>0, <1>1
<1>. QED
  BY <1>1, <1>5, <1>11, <1>12 DEF t, u, s, q, c

\* A byte that comes to a full ring is stored over the oldest one.
TakesByte(r, b, t) ==
  /\ DOMAIN t = {"buf", "si", "fi", "sc"}
  /\ t.buf = [r.buf EXCEPT ![r.si] = b]
  /\ t.si = (r.si + 1) % UartRing
  /\ t.fi = IF r.sc = UartRing THEN (r.fi + 1) % UartRing ELSE r.fi
  /\ t.sc = IF r.sc = UartRing THEN r.sc ELSE r.sc + 1

LEMMA RingTakesByte ==
  ASSUME NEW r, Ring(r), NEW b, NEW t, TakesByte(r, b, t)
  PROVE  /\ Ring(t)
         /\ r.sc = UartRing => /\ Len(RingBytes(t)) = UartRing
                               /\ SubSeq(RingBytes(t), 1, UartRing - 1) = Tail(RingBytes(r))
         /\ r.sc # UartRing => /\ Len(RingBytes(t)) = r.sc + 1 /\ r.sc + 1 <= UartRing
                               /\ SubSeq(RingBytes(t), 1, Len(RingBytes(r))) = RingBytes(r)
<1>0. UartRing \in Nat /\ UartRing > 0 /\ r.fi \in Nat /\ r.sc \in Nat /\ r.fi < UartRing /\ r.sc <= UartRing
      /\ r.si = Wrap(r.fi + r.sc) /\ r.si \in 0..(UartRing - 1)
  BY UartAssumption, RingFacts DEF Ring
<1>9. /\ DOMAIN t = {"buf", "si", "fi", "sc"} /\ t.buf = [r.buf EXCEPT ![r.si] = b] /\ t.si = (r.si + 1) % UartRing
      /\ t.fi = IF r.sc = UartRing THEN (r.fi + 1) % UartRing ELSE r.fi
      /\ t.sc = IF r.sc = UartRing THEN r.sc ELSE r.sc + 1
  BY DEF TakesByte
<1>1. t.si = Wrap(r.si + 1) /\ (r.fi + 1) % UartRing = Wrap(r.fi + 1) /\ Wrap(r.fi + 1) \in 0..(UartRing - 1)
  <2>1. r.si + 1 \in Nat /\ r.si + 1 < UartRing + UartRing /\ r.fi + 1 \in Nat /\ r.fi + 1 < UartRing + UartRing
    BY <1>0
  <2>. QED
    BY <1>9, <2>1, Wraps
<1>2. Ring(t)
  <2>1. Wrap(Wrap(r.fi + r.sc) + 1) = Wrap(t.fi + t.sc)
    <3>1. CASE r.sc = UartRing
      <4>1. Wrap(r.fi + r.sc) = r.fi
        BY <1>0, <3>1 DEF Wrap
      <4>2. t.fi + t.sc = Wrap(r.fi + 1) + UartRing /\ Wrap(r.fi + 1) \in 0..(UartRing - 1)
        BY <1>0, <1>1, <1>9, <3>1
      <4>3. Wrap(t.fi + t.sc) = Wrap(r.fi + 1)
        <5>. DEFINE a == Wrap(r.fi + 1)
        <5>1. t.fi + t.sc = a + UartRing /\ a \in 0..(UartRing - 1)
          BY <4>2
        <5>. HIDE DEF a
        <5>2. ~(a + UartRing < UartRing) /\ a + UartRing - UartRing = a
          BY <1>0, <5>1
        <5>3. Wrap(a + UartRing) = a
          <6>. DEFINE m == a + UartRing
          <6>1. ~(m < UartRing) /\ m - UartRing = a
            BY <1>0, <5>1
          <6>. HIDE DEF m
          <6>2. Wrap(m) = a
            BY <6>1 DEF Wrap
          <6>. QED
            BY <6>2 DEF m
        <5>4. Wrap(t.fi + t.sc) = a
          BY <5>1, <5>3
        <5>. QED
          BY <5>4 DEF a
      <4>. QED
        BY <4>1, <4>3
    <3>2. CASE r.sc # UartRing
      <4>1. r.fi + r.sc \in Nat /\ r.fi + r.sc + 1 < UartRing + UartRing /\ t.fi + t.sc = r.fi + r.sc + 1
        BY <1>0, <1>9, <3>2
      <4>. QED
        BY <4>1, WrapTwice
    <3>. QED
      BY <3>1, <3>2
  <2>2. t.fi \in 0..(UartRing - 1) /\ t.sc \in 0..UartRing
    BY <1>0, <1>1, <1>9
  <2>3. DOMAIN t.buf = 0..(UartRing - 1)
    BY <1>9 DEF Ring
  <2>. QED
    BY <1>0, <1>1, <1>9, <2>1, <2>2, <2>3 DEF Ring
<1>3. \A i \in 0..(UartRing - 1) : i # r.si => t.buf[i] = r.buf[i]
  BY <1>9 DEF Ring
<1>. DEFINE q == RingBytes(r)
            u == RingBytes(t)
<1>4. IsSeq(q) /\ Len(q) = r.sc /\ \A i \in 1..r.sc : q[i] = r.buf[Wrap(r.fi + i - 1)]
  BY RingFacts
<1>5. IsSeq(u) /\ Len(u) = t.sc /\ \A i \in 1..t.sc : u[i] = t.buf[Wrap(t.fi + i - 1)]
  BY <1>2, RingFacts
<1>. HIDE DEF q, u
<1>6. ASSUME r.sc = UartRing PROVE Len(u) = UartRing /\ SubSeq(u, 1, UartRing - 1) = Tail(q)
  <2>. DEFINE s == SubSeq(u, 1, UartRing - 1)
              v == Tail(q)
  <2>1. Len(u) = UartRing /\ t.fi = Wrap(r.fi + 1) /\ r.si = r.fi
    BY <1>0, <1>1, <1>5, <1>6, <1>9 DEF Wrap
  <2>2. IsSeq(s) /\ Len(s) = UartRing - 1 /\ \A i \in 1..(UartRing - 1) : s[i] = u[i]
    <3>1. UartRing - 1 \in 0..Len(u)
      BY <1>0, <2>1
    <3>. QED
      BY <1>5, <3>1, FirstPart
  <2>3. IsSeq(v) /\ Len(v) = UartRing - 1 /\ \A i \in 1..(UartRing - 1) : v[i] = q[i + 1]
    <3>1. \A S : \A a \in Seq(S) : Len(a) > 0 =>
             Tail(a) \in Seq(S) /\ Len(Tail(a)) = Len(a) - 1 /\ \A i \in 1..(Len(a) - 1) : Tail(a)[i] = a[i + 1]
      OBVIOUS
    <3>2. v \in Seq(Among(q)) /\ Len(v) = UartRing - 1 /\ \A i \in 1..(UartRing - 1) : v[i] = q[i + 1]
      BY <1>0, <1>4, <1>6, <3>1 DEF IsSeq
    <3>. QED
      BY <3>2, SeqOf
  <2>. HIDE DEF s, v
  <2>4. ASSUME NEW i \in 1..(UartRing - 1) PROVE s[i] = v[i]
    <3>1. Wrap(t.fi + i - 1) = Wrap(r.fi + (i + 1) - 1) /\ Wrap(t.fi + i - 1) # r.si /\ Wrap(t.fi + i - 1) \in 0..(UartRing - 1)
      <4>1. r.fi + 1 \in Nat /\ i - 1 \in Nat /\ r.fi + 1 + (i - 1) < UartRing + UartRing
            /\ r.fi + (i + 1) - 1 = r.fi + i /\ r.fi + 1 + (i - 1) = r.fi + i /\ r.fi + i \in Nat
        BY <1>0
      <4>2. t.fi + i - 1 = Wrap(r.fi + 1) + (i - 1)
        BY <1>1, <2>1, <4>1
      <4>3. Wrap(t.fi + i - 1) = Wrap(r.fi + i)
        BY <4>1, <4>2, WrapTwice
      <4>4. Wrap(r.fi + i) \in 0..(UartRing - 1)
        BY <4>1, Wraps
      <4>5. Wrap(r.fi + i) # r.fi
        BY <1>0, <4>1 DEF Wrap
      <4>. QED
        BY <2>1, <4>1, <4>3, <4>4, <4>5
    <3>2. i \in 1..t.sc /\ i + 1 \in 1..r.sc
      BY <1>0, <1>6, <1>9
    <3>3. u[i] = t.buf[Wrap(t.fi + i - 1)] /\ q[i + 1] = r.buf[Wrap(r.fi + (i + 1) - 1)]
      BY <1>4, <1>5, <3>2
    <3>. QED
      BY <1>3, <2>2, <2>3, <3>1, <3>3
  <2>5. s = v
    BY <2>2, <2>3, <2>4, SameSequence
  <2>. QED
    BY <2>1, <2>5 DEF s, v
<1>7. ASSUME r.sc # UartRing PROVE Len(u) = r.sc + 1 /\ r.sc + 1 <= UartRing /\ SubSeq(u, 1, Len(q)) = q
  <2>. DEFINE s == SubSeq(u, 1, Len(q))
  <2>1. Len(u) = r.sc + 1 /\ t.fi = r.fi /\ t.sc = r.sc + 1 /\ r.sc + 1 <= UartRing
    BY <1>0, <1>5, <1>7, <1>9
  <2>2. IsSeq(s) /\ Len(s) = r.sc /\ \A i \in 1..r.sc : s[i] = u[i]
    <3>1. r.sc \in 0..Len(u)
      BY <1>0, <2>1
    <3>. QED
      BY <1>4, <1>5, <3>1, FirstPart
  <2>. HIDE DEF s
  <2>3. ASSUME NEW i \in 1..r.sc PROVE s[i] = q[i]
    <3>1. Wrap(r.fi + i - 1) # r.si /\ Wrap(r.fi + i - 1) \in 0..(UartRing - 1)
      <4>. DEFINE a == r.fi + i - 1
                  e == r.fi + r.sc
      <4>1. a \in Nat /\ e \in Nat /\ a < e /\ e < a + UartRing /\ e < UartRing + UartRing
        BY <1>0, <1>7
      <4>. HIDE DEF a, e
      <4>2. Wrap(a) # Wrap(e)
        BY <1>0, <4>1 DEF Wrap
      <4>3. Wrap(a) \in 0..(UartRing - 1)
        BY <1>0, <4>1, Wraps
      <4>. QED
        BY <1>0, <4>2, <4>3 DEF a, e
    <3>2. i \in 1..t.sc
      BY <1>0, <2>1
    <3>3. u[i] = t.buf[Wrap(r.fi + i - 1)] /\ q[i] = r.buf[Wrap(r.fi + i - 1)]
      BY <1>4, <1>5, <2>1, <3>2
    <3>. QED
      BY <1>3, <2>2, <3>1, <3>3
  <2>4. s = q
    BY <1>4, <2>2, <2>3, SameSequence
  <2>. QED
    BY <2>1, <2>4 DEF s
<1>. QED
  BY <1>2, <1>6, <1>7 DEF q, u

\* A sequence and its parts.
LEMMA NothingJoined ==
  ASSUME NEW s, IsSeq(s)
  PROVE  s \o <<>> = s /\ <<>> \o s = s
<1>1. \A S : \A a \in Seq(S) : a \o <<>> = a /\ <<>> \o a = a
  OBVIOUS
<1>. QED
  BY <1>1 DEF IsSeq

LEMMA NoneAndAll ==
  ASSUME NEW s, IsSeq(s)
  PROVE  SubSeq(s, 1, 0) = <<>> /\ SubSeq(s, 1, Len(s)) = s
<1>1. \A S : \A a \in Seq(S) : SubSeq(a, 1, 0) = <<>>
  OBVIOUS
<1>2. SubSeq(s, 1, 0) = <<>>
  BY <1>1 DEF IsSeq
<1>. DEFINE n == Len(s)
            t == SubSeq(s, 1, n)
<1>3. n \in Nat
  BY LenOf
<1>. HIDE DEF n
<1>4. n \in 0..Len(s)
  BY <1>3 DEF n
<1>5. IsSeq(t) /\ Len(t) = n /\ \A i \in 1..n : t[i] = s[i]
  BY <1>4, FirstPart
<1>. HIDE DEF t
<1>6. t = s
  BY <1>5, SameSequence DEF n
<1>. QED
  BY <1>2, <1>6 DEF t, n

LEMMA JoinedParts ==
  ASSUME NEW s, IsSeq(s), NEW t, IsSeq(t)
  PROVE  SubSeq(s \o t, 1, Len(s)) = s /\ SubSeq(s \o t, Len(s) + 1, Len(s \o t)) = t
<1>. DEFINE w == s \o t
            n == Len(s)
            a == SubSeq(w, 1, n)
            b == SubSeq(w, n + 1, Len(w))
<1>1. /\ IsSeq(w) /\ Len(w) = n + Len(t) /\ n \in Nat /\ Len(t) \in Nat
      /\ \A i \in 1..n : w[i] = s[i]
      /\ \A i \in 1..Len(t) : w[n + i] = t[i]
  <2>1. IsSeq(w) /\ Len(w) = n + Len(t) /\ n \in Nat /\ Len(t) \in Nat /\ IsJoin(s, t, w)
    BY Joined
  <2>. HIDE DEF w
  <2>. QED
    BY <2>1 DEF IsJoin
<1>. HIDE DEF w
<1>2. n \in 0..Len(w) /\ Len(w) - n = Len(t)
  BY <1>1
<1>3. IsSeq(a) /\ Len(a) = n /\ \A i \in 1..n : a[i] = w[i]
  <2>. HIDE DEF n
  <2>. QED
    BY <1>1, <1>2, FirstPart
<1>4. IsSeq(b) /\ Len(b) = Len(w) - n /\ \A i \in 1..(Len(w) - n) : b[i] = w[n + i]
  <2>. HIDE DEF n
  <2>. QED
    BY <1>1, <1>2, LastPart
<1>. HIDE DEF a, b
<1>5. a = s
  BY <1>1, <1>3, SameSequence
<1>6. b = t
  <2>1. Len(b) = Len(t) /\ \A i \in 1..Len(b) : b[i] = t[i]
    BY <1>1, <1>2, <1>4
  <2>. QED
    BY <1>4, <2>1, SameSequence
<1>. QED
  BY <1>5, <1>6 DEF a, b, w

LEMMA CutAndJoined ==
  ASSUME NEW s, IsSeq(s), NEW n \in 0..Len(s)
  PROVE  SubSeq(s, 1, n) \o SubSeq(s, n + 1, Len(s)) = s
<1>. DEFINE a == SubSeq(s, 1, n)
            b == SubSeq(s, n + 1, Len(s))
            w == a \o b
<1>0. Len(s) \in Nat /\ n \in Nat /\ n <= Len(s)
  BY LenOf
<1>1. IsSeq(a) /\ Len(a) = n /\ \A i \in 1..n : a[i] = s[i]
  BY FirstPart
<1>2. IsSeq(b) /\ Len(b) = Len(s) - n /\ \A i \in 1..(Len(s) - n) : b[i] = s[n + i]
  BY LastPart
<1>. HIDE DEF a, b
<1>3. /\ IsSeq(w) /\ Len(w) = n + Len(b)
      /\ \A i \in 1..n : w[i] = a[i]
      /\ \A i \in 1..Len(b) : w[n + i] = b[i]
  <2>1. IsSeq(w) /\ Len(w) = Len(a) + Len(b) /\ IsJoin(a, b, w)
    <3>1. IsSeq(a) /\ IsSeq(b)
      BY <1>1, <1>2
    <3>. QED
      BY <3>1, Joined
  <2>. HIDE DEF w
  <2>. QED
    BY <1>1, <2>1 DEF IsJoin
<1>. HIDE DEF w
<1>4. ASSUME NEW i \in 1..Len(s) PROVE w[i] = s[i]
  <2>1. CASE i <= n
    <3>1. i \in 1..n
      BY <1>0, <2>1
    <3>. QED
      BY <1>1, <1>3, <3>1
  <2>2. CASE ~(i <= n)
    <3>1. i - n \in 1..(Len(s) - n) /\ n + (i - n) = i
      BY <1>0, <2>2
    <3>. DEFINE j == i - n
    <3>. HIDE DEF j
    <3>2. j \in 1..(Len(s) - n) /\ n + j = i
      BY <3>1 DEF j
    <3>. QED
      BY <1>2, <1>3, <3>2
  <2>. QED
    BY <2>1, <2>2
<1>5. Len(w) = Len(s)
  BY <1>0, <1>2, <1>3
<1>. QED
  BY <1>3, <1>4, <1>5, SameSequence DEF a, b, w

LEMMA JoinedThree ==
  ASSUME NEW s, IsSeq(s), NEW t, IsSeq(t), NEW u, IsSeq(u)
  PROVE  (s \o t) \o u = s \o (t \o u)
<1>1. \A S, T, U : \A a \in Seq(S), b \in Seq(T), c \in Seq(U) : (a \o b) \o c = a \o (b \o c)
  OBVIOUS
<1>. QED
  BY <1>1 DEF IsSeq

LEMMA HeadLeaves ==
  ASSUME NEW s, IsSeq(s), s # <<>>, NEW t, IsSeq(t)
  PROVE  Len(s) > 0 /\ Tail(s) \o t = SubSeq(s \o t, 2, Len(s \o t))
<1>. DEFINE w == s \o t
            b == SubSeq(w, 1 + 1, Len(w))
            a == Tail(s) \o t
<1>1. /\ \A S : \A q \in Seq(S) : q # <<>> => Len(q) \in Nat /\ Len(q) > 0
      /\ \A S : \A q \in Seq(S) : Len(q) > 0 =>
             Len(Tail(q)) = Len(q) - 1 /\ \A i \in 1..(Len(q) - 1) : Tail(q)[i] = q[i + 1]
  OBVIOUS
<1>2. Len(s) \in Nat /\ Len(s) > 0
  BY <1>1 DEF IsSeq
<1>3. Len(Tail(s)) = Len(s) - 1 /\ \A i \in 1..(Len(s) - 1) : Tail(s)[i] = s[i + 1]
  BY <1>1, <1>2 DEF IsSeq
<1>4. IsSeq(Tail(s))
  BY AmongTail
<1>5. /\ IsSeq(w) /\ Len(w) = Len(s) + Len(t) /\ Len(t) \in Nat
      /\ \A i \in 1..Len(s) : w[i] = s[i]
      /\ \A i \in 1..Len(t) : w[Len(s) + i] = t[i]
  <2>1. IsSeq(w) /\ Len(w) = Len(s) + Len(t) /\ Len(t) \in Nat /\ IsJoin(s, t, w)
    BY Joined
  <2>. HIDE DEF w
  <2>. QED
    BY <2>1 DEF IsJoin
<1>6. /\ IsSeq(a) /\ Len(a) = Len(s) - 1 + Len(t)
      /\ \A i \in 1..(Len(s) - 1) : a[i] = Tail(s)[i]
      /\ \A i \in 1..Len(t) : a[Len(s) - 1 + i] = t[i]
  <2>1. IsSeq(a) /\ Len(a) = Len(Tail(s)) + Len(t) /\ IsJoin(Tail(s), t, a)
    BY <1>4, Joined
  <2>. HIDE DEF a
  <2>. QED
    BY <1>3, <2>1 DEF IsJoin
<1>. HIDE DEF w
<1>7. IsSeq(b) /\ Len(b) = Len(w) - 1 /\ \A i \in 1..(Len(w) - 1) : b[i] = w[1 + i]
  <2>1. 1 \in 0..Len(w)
    BY <1>2, <1>5
  <2>. QED
    BY <1>5, <2>1, LastPart
<1>. HIDE DEF a, b
<1>8. ASSUME NEW i \in 1..Len(a) PROVE a[i] = b[i]
  <2>0. i \in 1..(Len(w) - 1) /\ b[i] = w[1 + i]
    BY <1>2, <1>5, <1>6, <1>7
  <2>1. CASE i <= Len(s) - 1
    <3>1. i \in 1..(Len(s) - 1) /\ i + 1 \in 1..Len(s) /\ 1 + i = i + 1
      BY <1>2, <2>1
    <3>. QED
      BY <1>3, <1>5, <1>6, <2>0, <3>1
  <2>2. CASE ~(i <= Len(s) - 1)
    <3>. DEFINE j == i - (Len(s) - 1)
    <3>1. j \in 1..Len(t) /\ Len(s) - 1 + j = i /\ Len(s) + j = 1 + i
      BY <1>2, <1>5, <1>6, <2>2
    <3>. HIDE DEF j
    <3>. QED
      BY <1>5, <1>6, <2>0, <3>1
  <2>. QED
    BY <2>1, <2>2
<1>9. Len(a) = Len(b) /\ 1 + 1 = 2
  BY <1>2, <1>5, <1>6, <1>7
<1>10. a = b
  BY <1>6, <1>7, <1>8, <1>9, SameSequence
<1>. QED
  BY <1>2, <1>9, <1>10 DEF a, b, w

UartRings ==
  /\ DOMAIN uart = {"tx", "rx", "wide", "free", "on", "used", "line", "room"}
  /\ Ring(uart.tx) /\ Ring(uart.rx)
  /\ IsSeq(uart.line) /\ (~uart.on => uart.line = <<>>)

\* A step of AxicatFifo, or none.
FifoStep(q, t, room, overruns) ==
  \/ t = q
  \/ Len(t) >= Len(q) /\ Len(t) <= room /\ SubSeq(t, 1, Len(q)) = q
  \/ overruns /\ Len(q) = room /\ Len(t) = room /\ SubSeq(t, 1, room - 1) = Tail(q)
  \/ \E n \in 1..Len(q) : t = SubSeq(q, n + 1, Len(q))
  \/ \E n \in 0..Len(q) : t = SubSeq(q, 1, n)

SentBytes == uart.line \o RingBytes(uart.tx)
ReadBytes == RingBytes(uart.rx)

FifoSteps ==
  /\ FifoStep(SentBytes, SentBytes', UartLen + UartRing, FALSE)
  /\ FifoStep(ReadBytes, ReadBytes', UartRing, TRUE)

\* What is forgotten of a queue.
LEMMA FifoCuts ==
  ASSUME NEW q, IsSeq(q), NEW room, NEW overruns
  PROVE  /\ FifoStep(q, q, room, overruns) /\ FifoStep(q, <<>>, room, overruns)
         /\ \A n \in 0..Len(q) : FifoStep(q, SubSeq(q, n + 1, Len(q)), room, overruns)
         /\ \A n \in 0..Len(q) : FifoStep(q, SubSeq(q, 1, n), room, overruns)
<1>1. Len(q) \in Nat /\ SubSeq(q, 1, 0) = <<>> /\ SubSeq(q, 1, Len(q)) = q
  BY LenOf, NoneAndAll
<1>2. ASSUME NEW n \in 0..Len(q) PROVE FifoStep(q, SubSeq(q, n + 1, Len(q)), room, overruns)
  <2>1. CASE n = 0
    <3>1. n + 1 = 1
      BY <2>1
    <3>2. SubSeq(q, n + 1, Len(q)) = q
      BY <1>1, <3>1
    <3>. QED
      BY <3>2 DEF FifoStep
  <2>2. CASE n # 0
    <3>1. n \in 1..Len(q)
      BY <1>1, <2>2
    <3>. QED
      BY <3>1 DEF FifoStep
  <2>. QED
    BY <2>1, <2>2
<1>3. \A n \in 0..Len(q) : FifoStep(q, SubSeq(q, 1, n), room, overruns)
  BY DEF FifoStep
<1>4. FifoStep(q, q, room, overruns)
  BY DEF FifoStep
<1>5. FifoStep(q, <<>>, room, overruns)
  <2>1. 0 \in 0..Len(q)
    BY <1>1
  <2>. QED
    BY <1>1, <1>3, <2>1
<1>. QED
  BY <1>2, <1>3, <1>4, <1>5

\* The rings are emptied.
LEMMA FifoReset ==
  ASSUME UartRings, DOMAIN uart' = DOMAIN uart,
         NEW b, DOMAIN b = 0..(UartRing - 1), uart'.tx = EmptyRing(b),
         NEW c, DOMAIN c = 0..(UartRing - 1), uart'.rx = EmptyRing(c),
         uart'.line = <<>> \/ (uart'.line = uart.line /\ (uart'.on <=> uart.on))
  PROVE  UartRings' /\ FifoSteps
<1>0. IsSeq(uart.line) /\ IsSeq(RingBytes(uart.tx)) /\ IsSeq(RingBytes(uart.rx)) /\ IsSeq(<<>>)
  BY RingFacts, AmongNone DEF UartRings
<1>1. /\ Ring(uart'.tx) /\ RingBytes(uart'.tx) = <<>>
      /\ Ring(uart'.rx) /\ RingBytes(uart'.rx) = <<>>
  BY RingEmptied
<1>2. UartRings'
  BY <1>0, <1>1 DEF UartRings
<1>3. FifoStep(ReadBytes, ReadBytes', UartRing, TRUE)
  BY <1>0, <1>1, FifoCuts DEF ReadBytes
<1>4. IsSeq(SentBytes) /\ SentBytes' = uart'.line
  <2>1. IsSeq(uart'.line)
    BY <1>2 DEF UartRings
  <2>2. SentBytes' = uart'.line \o <<>>
    BY <1>1 DEF SentBytes
  <2>3. IsSeq(SentBytes)
    BY <1>0, Joined DEF SentBytes
  <2>. QED
    BY <2>1, <2>2, <2>3, NothingJoined
<1>5. CASE uart'.line = <<>>
  BY <1>2, <1>3, <1>4, <1>5, FifoCuts DEF FifoSteps
<1>6. CASE uart'.line = uart.line
  <2>. DEFINE n == Len(uart.line)
  <2>1. n \in 0..Len(SentBytes) /\ SubSeq(SentBytes, 1, n) = uart.line
    <3>1. Len(SentBytes) = n + Len(RingBytes(uart.tx)) /\ n \in Nat /\ Len(RingBytes(uart.tx)) \in Nat
      BY <1>0, Joined DEF SentBytes
    <3>2. SubSeq(SentBytes, 1, n) = uart.line
      BY <1>0, JoinedParts DEF SentBytes
    <3>. DEFINE ls == Len(SentBytes)
                lt == Len(RingBytes(uart.tx))
    <3>. HIDE DEF n, ls, lt
    <3>3. ls = n + lt /\ n \in Nat /\ lt \in Nat
      BY <3>1 DEF ls, lt
    <3>4. n \in 0..ls
      BY <3>3
    <3>. QED
      BY <3>2, <3>4 DEF ls
  <2>. HIDE DEF n
  <2>. QED
    BY <1>2, <1>3, <1>4, <1>6, <2>1, FifoCuts DEF FifoSteps
<1>. QED
  BY <1>5, <1>6

\* The application and the line.
LEMMA FifoQuiet ==
  ASSUME UartRings, UartInv,
         UART_Enable \/ UART_Disable \/ (\E wide \in BOOLEAN : UART_Set_Data_Bits(wide)) \/ UartWriter
         \/ (\E n \in 1..UartWrites : UART_Read(n)) \/ UART_Tx \/ UartLineSends,
         UART_Tx => UartCount <= UartPacket
  PROVE  UartRings' /\ FifoSteps
<1>0. /\ DOMAIN uart = {"tx", "rx", "wide", "free", "on", "used", "line", "room"}
      /\ Ring(uart.tx) /\ Ring(uart.rx) /\ IsSeq(uart.line) /\ (~uart.on => uart.line = <<>>)
      /\ DOMAIN uart.tx.buf = 0..(UartRing - 1) /\ DOMAIN uart.rx.buf = 0..(UartRing - 1)
      /\ uart.tx.sc \in 0..UartRing /\ uart.rx.sc \in 0..UartRing
      /\ UartRing \in Nat /\ UartLen \in Nat /\ UartWrites \in Nat /\ uart.free \in Nat
      /\ Len(uart.line) \in Nat /\ Len(uart.line) <= UartLen /\ uart.room \in Nat
  BY UartAssumption DEF UartRings, Ring, UartInv, UartShape, UartFlow
<1>. DEFINE w == RingBytes(uart.tx)
            v == RingBytes(uart.rx)
            line == uart.line
<1>1. IsSeq(w) /\ Len(w) = uart.tx.sc /\ IsSeq(v) /\ Len(v) = uart.rx.sc /\ IsSeq(<<>>) /\ Len(<<>>) = 0
  BY <1>0, RingFacts, AmongNone
<1>2. SentBytes = line \o w /\ ReadBytes = v
  BY DEF SentBytes, ReadBytes
<1>. HIDE DEF w, v
<1>11. IsSeq(SentBytes) /\ Len(SentBytes) = Len(line) + Len(w) /\ Len(w) \in Nat /\ Len(line) \in Nat
  BY <1>0, <1>1, <1>2, Joined
<1>3. FifoStep(v, v, UartRing, TRUE) /\ FifoStep(SentBytes, SentBytes, UartLen + UartRing, FALSE)
  BY DEF FifoStep
<1>4. CASE UART_Enable
  <2>1. DOMAIN uart' = DOMAIN uart /\ uart'.tx = EmptyRing(uart.tx.buf) /\ uart'.rx = EmptyRing(uart.rx.buf) /\ uart'.line = <<>>
    BY <1>0, <1>4 DEF UART_Enable, UART_Reset_Bufs
  <2>. QED
    BY <1>0, <2>1, FifoReset
<1>5. ASSUME NEW wide \in BOOLEAN, UART_Set_Data_Bits(wide) PROVE UartRings' /\ FifoSteps
  <2>1. /\ DOMAIN uart' = DOMAIN uart /\ uart'.tx = EmptyRing(uart.tx.buf) /\ uart'.rx = EmptyRing(uart.rx.buf)
        /\ uart'.line = uart.line /\ uart'.on = uart.on
    BY <1>0, <1>5 DEF UART_Set_Data_Bits, UART_Reset_Bufs
  <2>. QED
    BY <1>0, <2>1, FifoReset
<1>6. CASE UART_Disable
  <2>1. DOMAIN uart' = DOMAIN uart /\ uart'.tx = uart.tx /\ uart'.rx = uart.rx /\ uart'.line = <<>>
    BY <1>0, <1>6 DEF UART_Disable
  <2>2. UartRings'
    BY <1>0, <1>1, <2>1 DEF UartRings
  <2>3. SentBytes' = w /\ ReadBytes' = v
    <3>1. SentBytes' = <<>> \o w /\ ReadBytes' = v
      BY <2>1 DEF SentBytes, ReadBytes, w, v
    <3>. QED
      BY <1>1, <3>1, NothingJoined
  <2>4. Len(line) \in 0..Len(SentBytes) /\ SubSeq(SentBytes, Len(line) + 1, Len(SentBytes)) = w
    <3>1. SubSeq(line \o w, Len(line) + 1, Len(line \o w)) = w
      BY <1>0, <1>1, JoinedParts
    <3>2. SubSeq(SentBytes, Len(line) + 1, Len(SentBytes)) = w
      BY <1>2, <3>1
    <3>. DEFINE ls == Len(SentBytes)
                ll == Len(line)
                lw == Len(w)
    <3>3. ls = ll + lw /\ ll \in Nat /\ lw \in Nat
      BY <1>11
    <3>. HIDE DEF ls, ll, lw
    <3>4. ll \in 0..ls
      BY <3>3
    <3>. QED
      BY <3>2, <3>4 DEF ls, ll
  <2>5. FifoStep(SentBytes, w, UartLen + UartRing, FALSE)
    BY <1>11, <2>4, FifoCuts
  <2>. QED
    BY <1>2, <1>3, <2>2, <2>3, <2>5 DEF FifoSteps
<1>7. CASE UartWriter
  <2>1. PICK m \in 1..UartWrites : \E bytes \in [1..m -> UartBytes] : UART_Write(bytes)
    BY <1>7 DEF UartWriter
  <2>2. PICK bytes \in [1..m -> UartBytes] : UART_Write(bytes)
    BY <2>1
  <2>. DEFINE even == Len(bytes) - (Len(bytes) % 2)
              s == IF uart.wide THEN SubSeq(bytes, 1, even) ELSE bytes
  <2>3. m \in Nat
    BY <1>0
  <2>4. bytes \in Seq(UartBytes) /\ Len(bytes) = m
    BY <2>3
  <2>5. even \in Nat /\ even <= Len(bytes)
    BY <2>3, <2>4
  <2>6. IsSeq(s)
    <3>. HIDE DEF even
    <3>1. s \in Seq(UartBytes)
      BY <2>4, <2>5
    <3>. HIDE DEF s
    <3>. QED
      BY <3>1, SeqOf
  <2>7. DOMAIN uart' = DOMAIN uart /\ uart'.tx = Stored(uart.tx, s) /\ uart'.rx = uart.rx /\ uart'.line = line /\ uart'.on = uart.on
    BY <1>0, <2>2 DEF UART_Write
  <2>. HIDE DEF s
  <2>8. PICK n \in 0..Len(s) :
           /\ Ring(Stored(uart.tx, s)) /\ n <= UartRing - uart.tx.sc
           /\ RingBytes(Stored(uart.tx, s)) = RingBytes(uart.tx) \o SubSeq(s, 1, n)
    BY <1>0, <2>6, RingStored
  <2>. DEFINE c == SubSeq(s, 1, n)
  <2>9. IsSeq(c) /\ Len(c) = n /\ n \in Nat
    <3>1. Len(s) \in Nat
      BY <2>6, LenOf
    <3>. QED
      BY <2>6, <3>1, FirstPart
  <2>. HIDE DEF c
  <2>10. UartRings'
    BY <1>0, <2>7, <2>8 DEF UartRings
  <2>11. SentBytes' = SentBytes \o c /\ ReadBytes' = v
    <3>1. SentBytes' = line \o (w \o c) /\ ReadBytes' = v
      BY <2>7, <2>8 DEF SentBytes, ReadBytes, w, v, c
    <3>2. (line \o w) \o c = line \o (w \o c)
      <4>1. IsSeq(line) /\ IsSeq(w) /\ IsSeq(c)
        BY <1>0, <1>1, <2>9
      <4>. HIDE DEF line
      <4>. QED
        BY <4>1, JoinedThree
    <3>. QED
      BY <1>2, <3>1, <3>2
  <2>12. FifoStep(SentBytes, SentBytes \o c, UartLen + UartRing, FALSE)
    <3>1. Len(SentBytes) = Len(line) + Len(w) /\ Len(SentBytes \o c) = Len(SentBytes) + n
      BY <1>11, <2>9, Joined
    <3>2. Len(SentBytes \o c) >= Len(SentBytes) /\ Len(SentBytes \o c) <= UartLen + UartRing
      <4>1. Len(w) \in Nat /\ Len(w) <= UartRing /\ n <= UartRing - Len(w)
        BY <1>0, <1>1, <2>8
      <4>. DEFINE lw == Len(w)
                  ls == Len(SentBytes)
                  lc == Len(SentBytes \o c)
                  ll == Len(line)
      <4>2. ls = ll + lw /\ lc = ls + n /\ ll \in Nat /\ ll <= UartLen /\ lw \in Nat /\ n <= UartRing - lw
        BY <1>0, <1>11, <3>1, <4>1
      <4>. HIDE DEF lw, ls, lc, ll
      <4>3. lc >= ls /\ lc <= UartLen + UartRing
        BY <1>0, <2>9, <4>2
      <4>. QED
        BY <4>3 DEF lc, ls
    <3>3. SubSeq(SentBytes \o c, 1, Len(SentBytes)) = SentBytes
      BY <1>11, <2>9, JoinedParts
    <3>. QED
      BY <3>2, <3>3 DEF FifoStep
  <2>. QED
    BY <1>2, <1>3, <2>10, <2>11, <2>12 DEF FifoSteps
<1>8. ASSUME NEW len \in 1..UartWrites, UART_Read(len) PROVE UartRings' /\ FifoSteps
  <2>. DEFINE n == Min({len, uart.rx.sc})
  <2>1. n \in 0..uart.rx.sc
    <3>1. len \in Nat /\ uart.rx.sc \in Nat
      BY <1>0
    <3>. HIDE DEF n
    <3>2. n \in Nat /\ n <= uart.rx.sc
      BY <3>1, MinOfTwo DEF n
    <3>. QED
      BY <3>1, <3>2
  <2>2. DOMAIN uart' = DOMAIN uart /\ uart'.tx = uart.tx /\ uart'.rx = Fetched(uart.rx, n) /\ uart'.line = line /\ uart'.on = uart.on
    BY <1>0, <1>8 DEF UART_Read
  <2>. HIDE DEF n
  <2>3. Ring(Fetched(uart.rx, n)) /\ RingBytes(Fetched(uart.rx, n)) = SubSeq(v, n + 1, Len(v))
    BY <1>0, <2>1, RingFetched DEF v
  <2>4. UartRings'
    BY <1>0, <2>2, <2>3 DEF UartRings
  <2>5. SentBytes' = SentBytes /\ ReadBytes' = SubSeq(v, n + 1, Len(v))
    BY <2>2, <2>3 DEF SentBytes, ReadBytes
  <2>6. FifoStep(v, SubSeq(v, n + 1, Len(v)), UartRing, TRUE)
    BY <1>1, <2>1, FifoCuts
  <2>. QED
    BY <1>2, <1>3, <2>4, <2>5, <2>6 DEF FifoSteps
<1>9. CASE UART_Tx
  <2>. DEFINE n == UartCount
              c == SubSeq(w, 1, n)
              e == SubSeq(w, n + 1, Len(w))
  <2>1. n \in 0..uart.tx.sc /\ UartTaken(n) = {n}
    <3>1. uart.free \in Nat /\ uart.tx.sc \in Nat /\ uart.free > 0 /\ uart.tx.sc > 0
      <4>1. uart.free \in Nat /\ uart.tx.sc \in Nat
        BY <1>0
      <4>2. uart.free > 0 /\ uart.tx.sc > 0
        BY <1>9 DEF UART_Tx, UartCanSend
      <4>. QED
        BY <4>1, <4>2
    <3>2. n \in {uart.free, uart.tx.sc} /\ n <= uart.tx.sc
      <4>1. \E m \in {uart.free, uart.tx.sc} : \A k \in {uart.free, uart.tx.sc} : m <= k
        BY <3>1
      <4>. QED
        BY <3>1, <4>1, MinOfTwo DEF UartCount, Min
    <3>3. n <= UartPacket
      BY <1>9
    <3>. HIDE DEF n
    <3>4. n \in Nat /\ n > 0
      BY <3>1, <3>2
    <3>. QED
      BY <3>1, <3>2, <3>3, <3>4, PacketFacts
  <2>2. /\ DOMAIN uart' = DOMAIN uart /\ uart'.tx = Fetched(uart.tx, n) /\ uart'.rx = uart.rx /\ uart'.on = uart.on
        /\ uart'.line = IF uart.on THEN line \o c ELSE line
    <3>1. uart' = [uart EXCEPT
                     !.tx   = Fetched(@, n),
                     !.free = @ - n,
                     !.line = IF uart.on THEN @ \o SubSeq(RingBytes(uart.tx), 1, n) ELSE @,
                     !.room = IF n > @ THEN 0 ELSE @ - n]
      BY <1>9, <2>1 DEF UART_Tx
    <3>. QED
      BY <1>0, <3>1 DEF w
  <2>. HIDE DEF n
  <2>3. Ring(Fetched(uart.tx, n)) /\ RingBytes(Fetched(uart.tx, n)) = e
    BY <1>0, <2>1, RingFetched DEF w
  <2>4. IsSeq(c) /\ IsSeq(e) /\ c \o e = w
    <3>1. n \in 0..Len(w)
      BY <1>1, <2>1
    <3>. QED
      BY <1>1, <3>1, FirstPart, LastPart, CutAndJoined
  <2>. HIDE DEF c, e
  <2>5. ReadBytes' = v
    BY <2>2 DEF ReadBytes, v
  <2>6. CASE uart.on
    <3>1. UartRings'
      <4>1. IsSeq(line \o c)
        BY <1>0, <2>4, Joined
      <4>. QED
        BY <1>0, <2>2, <2>3, <2>6, <4>1 DEF UartRings
    <3>2. SentBytes' = SentBytes
      <4>1. SentBytes' = (line \o c) \o e
        BY <2>2, <2>3, <2>6 DEF SentBytes
      <4>2. (line \o c) \o e = line \o (c \o e)
        <5>1. IsSeq(line) /\ IsSeq(c) /\ IsSeq(e)
          BY <1>0, <2>4
        <5>. HIDE DEF line
        <5>. QED
          BY <5>1, JoinedThree
      <4>. QED
        BY <1>2, <2>4, <4>1, <4>2
    <3>. QED
      BY <1>2, <1>3, <2>5, <3>1, <3>2 DEF FifoSteps
  <2>7. CASE ~uart.on
    <3>1. UartRings'
      BY <1>0, <2>2, <2>3, <2>7 DEF UartRings
    <3>2. SentBytes = w /\ SentBytes' = e
      <4>1. SentBytes' = <<>> \o e /\ SentBytes = <<>> \o w
        BY <1>0, <1>2, <2>2, <2>3, <2>7 DEF SentBytes
      <4>. QED
        BY <1>1, <2>4, <4>1, NothingJoined
    <3>3. FifoStep(w, e, UartLen + UartRing, FALSE)
      <4>1. n \in 0..Len(w)
        BY <1>1, <2>1
      <4>. QED
        BY <1>1, <4>1, FifoCuts DEF e
    <3>. QED
      BY <1>2, <1>3, <2>5, <3>1, <3>2, <3>3 DEF FifoSteps
  <2>. QED
    BY <2>6, <2>7
<1>10. CASE UartLineSends
  <2>1. /\ DOMAIN uart' = DOMAIN uart /\ uart'.tx = uart.tx /\ uart'.rx = uart.rx /\ uart'.on = uart.on
        /\ uart'.line = Tail(line) /\ line # <<>>
    BY <1>0, <1>10 DEF UartLineSends
  <2>2. IsSeq(Tail(line)) /\ Len(line) > 0 /\ Tail(line) \o w = SubSeq(SentBytes, 2, Len(SentBytes))
    BY <1>0, <1>1, <1>2, <2>1, AmongTail, HeadLeaves
  <2>3. UartRings'
    BY <1>0, <2>1, <2>2 DEF UartRings
  <2>4. SentBytes' = SubSeq(SentBytes, 2, Len(SentBytes)) /\ ReadBytes' = v
    BY <2>1, <2>2 DEF SentBytes, ReadBytes, w, v
  <2>5. FifoStep(SentBytes, SubSeq(SentBytes, 2, Len(SentBytes)), UartLen + UartRing, FALSE)
    <3>1. 1 \in 0..Len(SentBytes) /\ 1 + 1 = 2
      BY <1>11, <2>2
    <3>. DEFINE one == 1
    <3>. HIDE DEF one
    <3>2. one \in 0..Len(SentBytes) /\ one + 1 = 2
      BY <3>1 DEF one
    <3>3. FifoStep(SentBytes, SubSeq(SentBytes, one + 1, Len(SentBytes)), UartLen + UartRing, FALSE)
      BY <1>11, <3>2, FifoCuts
    <3>. QED
      BY <3>2, <3>3
  <2>. QED
    BY <1>2, <1>3, <2>3, <2>4, <2>5 DEF FifoSteps
<1>. QED
  BY <1>4, <1>5, <1>6, <1>7, <1>8, <1>9, <1>10

\* The replies of the device.
LEMMA FifoReplies ==
  ASSUME UartRings, UartReader \/ UartRx \/ UartAnnounces, ~(\E n \in 1..UartWrites : UART_Read(n))
  PROVE  UartRings' /\ FifoSteps
<1>0. /\ DOMAIN uart = {"tx", "rx", "wide", "free", "on", "used", "line", "room"}
      /\ Ring(uart.tx) /\ Ring(uart.rx) /\ IsSeq(uart.line) /\ (~uart.on => uart.line = <<>>)
  BY DEF UartRings
<1>1. FifoStep(ReadBytes, ReadBytes, UartRing, TRUE) /\ FifoStep(SentBytes, SentBytes, UartLen + UartRing, FALSE)
  BY DEF FifoStep
<1>2. CASE UART_Rx_Byte
  <2>. DEFINE r == uart.rx
              t == uart'.rx
  <2>1. /\ DOMAIN uart' = DOMAIN uart /\ uart'.tx = uart.tx /\ uart'.line = uart.line /\ uart'.on = uart.on
        /\ TakesByte(r, Head(rx.bytes), t)
    BY <1>0, <1>2 DEF UART_Rx_Byte, TakesByte, Ring
  <2>. HIDE DEF r, t
  <2>2. Ring(r)
    BY <1>0 DEF r
  <2>3. /\ Ring(t)
        /\ r.sc = UartRing => /\ Len(RingBytes(t)) = UartRing
                              /\ SubSeq(RingBytes(t), 1, UartRing - 1) = Tail(RingBytes(r))
        /\ r.sc # UartRing => /\ Len(RingBytes(t)) = r.sc + 1 /\ r.sc + 1 <= UartRing
                              /\ SubSeq(RingBytes(t), 1, Len(RingBytes(r))) = RingBytes(r)
    BY <2>1, <2>2, RingTakesByte
  <2>4. Len(RingBytes(r)) = r.sc /\ r.sc \in Nat
    BY <2>2, RingFacts, UartAssumption DEF Ring
  <2>5. FifoStep(RingBytes(r), RingBytes(t), UartRing, TRUE)
    BY <2>3, <2>4 DEF FifoStep
  <2>6. SentBytes' = SentBytes /\ ReadBytes' = RingBytes(t) /\ ReadBytes = RingBytes(r)
    BY <2>1 DEF SentBytes, ReadBytes, r, t
  <2>7. UartRings'
    BY <1>0, <2>1, <2>3 DEF UartRings, t
  <2>. QED
    BY <1>1, <2>5, <2>6, <2>7 DEF FifoSteps
<1>3. CASE UART_Rx_Tx_Free \/ UART_Rx_Rsp \/ UartLineReceives \/ UartAnnounces
  <2>1. /\ DOMAIN uart' = DOMAIN uart /\ uart'.tx = uart.tx /\ uart'.rx = uart.rx /\ uart'.line = uart.line
        /\ uart'.on = uart.on
    <3>1. \/ uart' = uart \/ (\E n : uart' = [uart EXCEPT !.free = n]) \/ (\E n : uart' = [uart EXCEPT !.room = n])
      BY <1>3 DEF UART_Rx_Tx_Free, UART_Rx_Rsp, UartLineReceives, UartAnnounces
    <3>. QED
      BY <1>0, <3>1
  <2>2. UartRings' /\ SentBytes' = SentBytes /\ ReadBytes' = ReadBytes
    BY <1>0, <2>1 DEF UartRings, SentBytes, ReadBytes
  <2>. QED
    BY <1>1, <2>2 DEF FifoSteps
<1>. QED
  BY <1>2, <1>3 DEF UartReader, UartRx

\* Every other step leaves the UART alone, or destroys the library.
LEMMA FifoKeeps ==
  ASSUME UartRings, UartIInv, [Next]_vars, [UART_Tx => UartCount <= UartPacket]_uart
  PROVE  UartRings' /\ FifoSteps
<1>1. CASE uart' = uart
  <2>1. UartRings' /\ SentBytes' = SentBytes /\ ReadBytes' = ReadBytes
    BY <1>1 DEF UartRings, SentBytes, ReadBytes
  <2>. QED
    BY <2>1 DEF FifoSteps, FifoStep
<1>2. CASE AL_Destroy
  <2>. DEFINE b == [i \in 0..(UartRing - 1) |-> CHOOSE e \in UartBytes : TRUE]
  <2>1. uart' = UartClear
    BY <1>2 DEF AL_Destroy
  <2>2. /\ DOMAIN uart' = {"tx", "rx", "wide", "free", "on", "used", "line", "room"}
        /\ uart'.tx = EmptyRing(b) /\ uart'.rx = EmptyRing(b) /\ uart'.line = <<>>
    BY <2>1 DEF UartClear
  <2>3. DOMAIN b = 0..(UartRing - 1) /\ DOMAIN uart' = DOMAIN uart
    BY <2>2 DEF UartRings
  <2>. HIDE DEF b
  <2>. QED
    BY <2>2, <2>3, FifoReset
<1>3. CASE UartStep /\ uart' # uart
  <2>1. UartInv /\ (UART_Tx => UartCount <= UartPacket)
    BY <1>3 DEF UartIInv
  <2>. QED
    BY <1>3, <2>1, FifoQuiet, FifoReplies DEF UartStep, UartSetup, UartReader, UartDevice
<1>4. Rx_Info \/ Mark_Detached => uart' = uart
  BY DEF Rx_Info, Mark_Detached
<1>. QED
  BY <1>1, <1>2, <1>3, <1>4, NextCases

LEMMA FifoStarts ==
  ASSUME Init
  PROVE  UartRings /\ SentBytes = <<>> /\ ReadBytes = <<>>
<1>. DEFINE b == [i \in 0..(UartRing - 1) |-> CHOOSE e \in UartBytes : TRUE]
<1>1. uart = UartClear
  BY DEF Init, UartInit
<1>2. /\ DOMAIN uart = {"tx", "rx", "wide", "free", "on", "used", "line", "room"}
      /\ uart.tx = EmptyRing(b) /\ uart.rx = EmptyRing(b) /\ uart.line = <<>> /\ DOMAIN b = 0..(UartRing - 1)
  BY <1>1 DEF UartClear
<1>. HIDE DEF b
<1>3. Ring(uart.tx) /\ Ring(uart.rx) /\ RingBytes(uart.tx) = <<>> /\ RingBytes(uart.rx) = <<>>
  BY <1>2, RingEmptied
<1>4. IsSeq(<<>>) /\ <<>> \o <<>> = <<>>
  BY AmongNone, NothingJoined
<1>. QED
  BY <1>2, <1>3, <1>4 DEF UartRings, SentBytes, ReadBytes

\* When a ring of the library or the buffer of the device fits in a packet, every
\* packet is one that the device may be sent (axicat.h:281).
THEOREM ShortPacketsFit ==
  ~UartRestart /\ (UartRing <= UartPacket \/ UartLen <= UartPacket) => (Spec => UartPacketsFit)
<1>. SUFFICES ASSUME ~UartRestart, UartRing <= UartPacket \/ UartLen <= UartPacket
              PROVE  Spec => UartPacketsFit
  OBVIOUS
<1>1. UartIInv /\ [Next]_vars => [UART_Tx => UartCount <= UartPacket]_uart
  <2>. SUFFICES ASSUME UartIInv PROVE UartCount <= UartPacket
    OBVIOUS
  <2>1. /\ uart.free \in Nat /\ uart.room \in Nat /\ Len(uart.line) \in Nat /\ UartLen \in Nat
        /\ uart.free <= uart.room /\ Len(uart.line) + uart.room <= UartLen
        /\ uart.tx.sc \in Nat /\ uart.tx.sc <= UartRing /\ UartRing \in Nat /\ UartPacket \in Nat
    BY UartAssumption DEF UartIInv, UartInv, UartShape, UartFlow
  <2>2. uart.free <= UartLen
    BY <2>1
  <2>3. UartCount \in Nat /\ UartCount <= uart.free /\ UartCount <= uart.tx.sc
    BY <2>1, MinOfTwo DEF UartCount
  <2>. QED
    BY <2>1, <2>2, <2>3
<1>. QED
  BY <1>1, UartIInvHolds, PTL DEF Spec, UartPacketsFit

(* Each direction of a UART is a queue: bytes leave in the order they came, *)
(* wherever the ends of the rings, the packets and the announcements cut    *)
(* them; bytes are lost only over the oldest ones of a full receive ring,   *)
(* when the UART is set up, and when it is disabled.  That is so as long as *)
(* every packet is one that the device may be sent (axicat.h:278-282): the  *)
(* library does not see to it (axicat_al_uart.c:571-594), a ring or a       *)
(* buffer that fits in a packet does (ShortPacketsFit).                     *)
THEOREM BytesStayInOrder == ~UartRestart => (Spec /\ UartPacketsFit => UartKeepsOrder)
<1>. SUFFICES ASSUME ~UartRestart PROVE Spec /\ UartPacketsFit => UartKeepsOrder
  OBVIOUS
<1>. DEFINE Fits == [UART_Tx => UartCount <= UartPacket]_uart
<1>1. Init => UartRings
  BY FifoStarts
<1>2. UartRings /\ UartIInv /\ [Next]_vars /\ Fits => UartRings'
  BY FifoKeeps
<1>3. Spec /\ UartPacketsFit => []UartRings
  BY <1>1, <1>2, UartIInvHolds, PTL DEF Spec, UartPacketsFit
<1>4. Spec /\ UartPacketsFit => Sent!Spec
  <2>1. Init => Sent!Init
    BY FifoStarts DEF Sent!Init, SentBytes
  <2>2. UartRings /\ UartIInv /\ [Next]_vars /\ Fits => [Sent!Next]_(uart.line \o RingBytes(uart.tx))
    <3>1. UartRings /\ UartIInv /\ [Next]_vars /\ Fits => FifoStep(SentBytes, SentBytes', UartLen + UartRing, FALSE)
      BY FifoKeeps DEF FifoSteps
    <3>. QED
      BY <3>1 DEF FifoStep, SentBytes, Sent!Next, Sent!Put, Sent!Overrun, Sent!Take, Sent!Reset
  <2>. QED
    BY <1>3, <2>1, <2>2, UartIInvHolds, PTL DEF Spec, UartPacketsFit, Sent!Spec
<1>5. Spec /\ UartPacketsFit => Received!Spec
  <2>1. Init => Received!Init
    BY FifoStarts DEF Received!Init, ReadBytes
  <2>2. UartRings /\ UartIInv /\ [Next]_vars /\ Fits => [Received!Next]_(RingBytes(uart.rx))
    <3>1. UartRings /\ UartIInv /\ [Next]_vars /\ Fits => FifoStep(ReadBytes, ReadBytes', UartRing, TRUE)
      BY FifoKeeps DEF FifoSteps
    <3>. QED
      BY <3>1 DEF FifoStep, ReadBytes, Received!Next, Received!Put, Received!Overrun, Received!Take, Received!Reset
  <2>. QED
    BY <1>3, <2>1, <2>2, UartIInvHolds, PTL DEF Spec, UartPacketsFit, Received!Spec
<1>. QED
  BY <1>4, <1>5 DEF UartKeepsOrder

=============================================================================
