--------------------------- MODULE QuadListsProofs --------------------------
(***************************************************************************)
(* Lemmas about quads and their lists of incomplete jumps: what emit and   *)
(* patchlabel leave alone, and that a list is found along its labels.      *)
(***************************************************************************)
EXTENDS QuadLists, FiniteSetTheorems, WellFoundedInduction, TLAPS

(* A set with 0, and with the next of each of its members, is Nat.        *)
LEMMA Induction ==
  ASSUME NEW S \in SUBSET Nat, 0 \in S, \A n \in S : n + 1 \in S
  PROVE  S = Nat
<1>1. SUFFICES ASSUME Nat \ S # {} PROVE FALSE
  OBVIOUS
<1>2. PICK R : R = OpToRel(<, Nat) /\ IsWellFoundedOn(R, Nat)
  BY NatLessThanWellFounded
<1>3. \A x, y \in Nat : <<x, y>> \in R <=> x < y
  BY <1>2 DEF OpToRel
<1>4. PICK m \in Nat \ S : \A y \in Nat \ S : ~(<<y, m>> \in R)
  BY <1>1, <1>2, WFMin
<1>5. m \in Nat /\ m - 1 \in Nat /\ m - 1 < m
  OBVIOUS
<1>6. m - 1 \in S
  BY <1>3, <1>4, <1>5
<1>7. m \in S
  BY <1>5, <1>6
<1>8. QED BY <1>7

(* The numbers of n quads. *)
LEMMA Numbers0 ==
  ASSUME NEW q, NEW n \in Nat, DOMAIN q = 0 .. n - 1
  PROVE  NextQuad(q) = n
BY FS_Interval DEF NextQuad

(* emit: one more quad, the others as they were. *)
LEMMA Emitted ==
  ASSUME NEW q, NEW n \in Nat, DOMAIN q = 0 .. n - 1, NEW x
  PROVE  /\ NextQuad(Emit(q, x)) = n + 1 /\ DOMAIN Emit(q, x) = 0 .. n
         /\ \A i \in 0 .. n - 1 : i \in 0 .. n /\ Emit(q, x)[i] = q[i]
         /\ Emit(q, x)[n] = x
         /\ \A i \in 0 .. n : i \in 0 .. n - 1 \/ i = n
<1> DEFINE e == Emit(q, x)
<1>1. e = [i \in 0 .. n |-> IF i = n THEN x ELSE q[i]]
  BY Numbers0 DEF Emit
<1> HIDE DEF e
<1>2. DOMAIN e = 0 .. (n + 1) - 1 /\ DOMAIN e = 0 .. n /\ n + 1 \in Nat
  BY <1>1
<1>3. NextQuad(e) = n + 1
  BY <1>2, Numbers0
<1>4. e[n] = x /\ \A i \in 0 .. n - 1 : e[i] = q[i]
  BY <1>1
<1>5. QED BY <1>2, <1>3, <1>4 DEF e

(* patchlabel: the labels of S are changed. *)
LEMMA Relabelled ==
  ASSUME NEW q, NEW S, NEW l
  PROVE  /\ NextQuad(Labelled(q, S, l)) = NextQuad(q)
         /\ DOMAIN Labelled(q, S, l) = DOMAIN q
         /\ \A i \in DOMAIN q :
              Labelled(q, S, l)[i] = IF i \in S THEN [q[i] EXCEPT !.label = l] ELSE q[i]
BY DEF Labelled, NextQuad

-----------------------------------------------------------------------------
(* Lists of quads. *)

(* What is reached in a number of links from l. *)
Links(F, k, q, l) ==
  IF k = 0 THEN {l} \ {0} ELSE (UNION {{i, q[i].label} : i \in F[k - 1]}) \ {0}
AreLinks(F, n, q, l) == F = [k \in 0 .. n |-> Links(F, k, q, l)]

(* The links are a function: the recursion is well-founded. *)
LEMMA LinksExist ==
  ASSUME NEW q, NEW l, NEW n \in Nat
  PROVE  \E F : AreLinks(F, n, q, l)
<1> DEFINE Step(F, k) == Links(F, k, q, l)
           S == {m \in Nat : \E F : F = [k \in 0 .. m |-> Step(F, k)]}
<1>0. \A F, G, k : (k = 0 \/ F[k - 1] = G[k - 1]) => Step(F, k) = Step(G, k)
  BY DEF Links
<1>01. \A F, G : Step(F, 0) = Step(G, 0)
  BY <1>0
<1> HIDE DEF Step
<1>1. 0 \in S
  <2> DEFINE F == [k \in 0 .. 0 |-> Step(q, 0)]
  <2>1. \A k \in 0 .. 0 : k = 0 /\ Step(F, k) = Step(q, 0)
    BY <1>01
  <2>2. F = [k \in 0 .. 0 |-> Step(F, k)]
    BY <2>1
  <2>3. QED BY <2>2
<1>2. ASSUME NEW m \in S
      PROVE  m + 1 \in S
  <2>1. m \in Nat
    OBVIOUS
  <2>2. PICK F : F = [k \in 0 .. m |-> Step(F, k)]
    OBVIOUS
  <2> DEFINE G == [k \in 0 .. m + 1 |-> IF k = m + 1 THEN Step(F, k) ELSE F[k]]
  <2>3. G = [k \in 0 .. m + 1 |-> IF k = m + 1 THEN Step(F, k) ELSE F[k]]
    OBVIOUS
  <2> HIDE DEF G
  <2>4. ASSUME NEW k \in 0 .. m + 1
        PROVE  G[k] = Step(G, k)
    <3>1. Step(G, k) = Step(F, k)
      <4>1. CASE k = 0
        BY <1>0, <4>1
      <4>2. CASE k # 0
        <5>1. k - 1 \in 0 .. m + 1 /\ k - 1 # m + 1
          BY <2>1, <4>2
        <5>2. G[k - 1] = F[k - 1]
          BY <2>3, <5>1
        <5>3. QED BY <1>0, <5>2
      <4>3. QED BY <4>1, <4>2
    <3>2. CASE k = m + 1
      BY <2>3, <3>1, <3>2
    <3>3. CASE k # m + 1
      <4>1. k \in 0 .. m
        BY <2>1, <3>3
      <4>2. F[k] = Step(F, k)
        BY <2>2, <4>1
      <4>3. QED BY <2>3, <3>1, <3>3, <4>2
    <3>4. QED BY <3>2, <3>3
  <2>5. G = [k \in 0 .. m + 1 |-> G[k]]
    BY <2>3
  <2>6. G = [k \in 0 .. m + 1 |-> Step(G, k)]
    BY <2>4, <2>5
  <2>7. \E H : H = [k \in 0 .. m + 1 |-> Step(H, k)]
    BY <2>6
  <2>8. QED BY <2>1, <2>7
<1>3. S = Nat
  <2> HIDE DEF S
  <2>1. S \in SUBSET Nat
    BY DEF S
  <2>2. QED BY <1>1, <1>2, <2>1, Induction
<1>4. QED BY <1>3 DEF Step, AreLinks

(* S are the quads of the list that begins at l; each is further down than  *)
(* those before it.                                                         *)
Leads(q, l, S, down) ==
  /\ l = 0 <=> S = {}
  /\ l # 0 => l \in S
  /\ \A i \in S : down[i] \in Nat
  /\ \A i \in S : q[i].label = 0 \/ (q[i].label \in S /\ down[i] < down[q[i].label])
  /\ \A i \in S : i # l => \E j \in S : q[j].label = i
  /\ \A i, j \in S : q[i].label = 0 /\ q[j].label = 0 => i = j
  /\ S # {} => \E i \in S : q[i].label = 0

(* The quads of a list are found along its labels, if there are as many     *)
(* steps as quads.                                                          *)
LEMMA Reached ==
  ASSUME NEW q, NEW m \in Nat, DOMAIN q = 0 .. m - 1, NEW l, NEW S,
         S \subseteq DOMAIN q \ {0}, NEW down, Leads(q, l, S, down),
         \A i \in S : down[i] <= m
  PROVE  On(q, l) = S
<1> DEFINE F == CHOOSE G : G = [k \in 0 .. NextQuad(q) |-> Links(G, k, q, l)]
           n == NextQuad(q)
           U == {k \in Nat : k <= n => F[k] \subseteq S}
           V == {k \in Nat : k <= n => \A i \in S : down[i] <= k => i \in F[k]}
<1>0. n \in Nat /\ DOMAIN q = 0 .. n - 1 /\ n = m
  BY Numbers0
<1>1. F = [k \in 0 .. n |-> Links(F, k, q, l)]
  <2>1. \E G : G = [k \in 0 .. NextQuad(q) |-> Links(G, k, q, l)]
    <3> HIDE DEF F, U, V
    <3>1. PICK G : AreLinks(G, m, q, l)
      BY LinksExist
    <3>2. G = [k \in 0 .. NextQuad(q) |-> Links(G, k, q, l)]
      BY <1>0, <3>1 DEF AreLinks
    <3>3. QED BY <3>2
  <2>2. QED BY <2>1
<1>2. On(q, l) = F[n]
  BY DEF On, Links
<1> HIDE DEF F, n
<1>3. F[0] = {l} \ {0}
  BY <1>0, <1>1 DEF Links
<1>4. ASSUME NEW k \in Nat, k + 1 <= n
      PROVE  \A x : x \in F[k + 1] <=> x # 0 /\ \E i \in F[k] : x = i \/ x = q[i].label
  <2>1. k + 1 \in 0 .. n /\ k + 1 # 0 /\ (k + 1) - 1 = k
    BY <1>0, <1>4
  <2>2. F[k + 1] = Links(F, k + 1, q, l)
    BY <1>1, <2>1
  <2> DEFINE P(i) == {i, q[i].label}
             A == UNION {P(i) : i \in F[k]}
  <2>3. Links(F, k + 1, q, l) = A \ {0}
    BY <2>1 DEF Links
  <2>4. \A x : x \in A <=> \E i \in F[k] : x \in P(i)
    BY Zenon
  <2>5. \A x, i : x \in P(i) <=> x = i \/ x = q[i].label
    OBVIOUS
  <2> HIDE DEF A, P
  <2>6. \A x : x \in A <=> \E i \in F[k] : x = i \/ x = q[i].label
    BY ONLY <2>4, <2>5
  <2>7. F[k + 1] = A \ {0}
    BY ONLY <2>2, <2>3
  <2>8. QED BY ONLY <2>6, <2>7
<1>5. U = Nat
  <2>1. 0 \in U
    BY <1>3 DEF Leads
  <2>2. ASSUME NEW k \in U
        PROVE  k + 1 \in U
    <3>1. SUFFICES ASSUME k + 1 <= n PROVE F[k + 1] \subseteq S
      OBVIOUS
    <3>2. k \in Nat /\ F[k] \subseteq S
      BY <1>0, <3>1
    <3>3. \A x : x \in F[k + 1] <=> x # 0 /\ \E i \in F[k] : x = i \/ x = q[i].label
      BY <1>4, <3>1, <3>2
    <3>4. \A i \in F[k] : q[i].label = 0 \/ q[i].label \in S
      BY <3>2 DEF Leads
    <3>5. QED BY <3>2, <3>3, <3>4
  <2>3. QED BY <2>1, <2>2, Induction
<1>6. V = Nat
  <2>1. 0 \in V
    <3>1. SUFFICES ASSUME NEW i \in S, down[i] <= 0 PROVE i \in F[0]
      OBVIOUS
    <3>2. i = l
      BY <3>1 DEF Leads
    <3>3. QED BY <1>3, <3>2
  <2>2. ASSUME NEW k \in V
        PROVE  k + 1 \in V
    <3>1. SUFFICES ASSUME k + 1 <= n, NEW i \in S, down[i] <= k + 1 PROVE i \in F[k + 1]
      OBVIOUS
    <3>2. k \in Nat /\ \A j \in S : down[j] <= k => j \in F[k]
      BY <1>0, <3>1
    <3>3. \A x : x \in F[k + 1] <=> x # 0 /\ \E j \in F[k] : x = j \/ x = q[j].label
      BY <1>4, <3>1, <3>2
    <3>4. i \in Nat /\ i # 0
      BY <1>0 DEF Leads
    <3>5. CASE down[i] <= k
      BY <3>2, <3>3, <3>4, <3>5
    <3>6. CASE i # l
      <4>1. PICK j \in S : q[j].label = i
        BY <3>6 DEF Leads
      <4>2. down[j] < down[i] /\ down[j] \in Nat /\ down[i] \in Nat
        BY <3>4, <4>1 DEF Leads
      <4>3. down[j] <= k
        BY <3>1, <3>2, <3>4, <4>2
      <4>4. j \in F[k]
        BY <3>2, <4>3
      <4>5. QED BY <3>3, <3>4, <4>1, <4>4
    <3>7. CASE i = l
      <4> DEFINE W == {d \in Nat : d <= n => l \in F[d]}
      <4>1. 0 \in W
        BY <1>3, <3>4, <3>7
      <4>2. ASSUME NEW d \in W
            PROVE  d + 1 \in W
        <5>1. SUFFICES ASSUME d + 1 <= n PROVE l \in F[d + 1]
          OBVIOUS
        <5>2. d \in Nat /\ l \in F[d]
          BY <1>0, <5>1
        <5>3. \A x : x \in F[d + 1] <=> x # 0 /\ \E j \in F[d] : x = j \/ x = q[j].label
          BY <1>4, <5>1, <5>2
        <5>4. QED BY <3>4, <3>7, <5>2, <5>3
      <4>3. W = Nat
        BY <4>1, <4>2, Induction
      <4>4. k + 1 \in W
        BY <3>2, <4>3
      <4>5. QED BY <3>1, <3>7, <4>4
    <3>8. QED BY <3>6, <3>7
  <2>3. QED BY <2>1, <2>2, Induction
<1>7. F[n] \subseteq S
  <2>1. n \in U
    BY <1>0, <1>5
  <2>2. QED BY <1>0, <2>1
<1>8. S \subseteq F[n]
  <2>1. n \in V
    BY <1>0, <1>6
  <2>2. \A i \in S : down[i] <= n
    BY <1>0
  <2>3. QED BY <1>0, <2>1, <2>2
<1>9. QED BY <1>2, <1>7, <1>8

=============================================================================
