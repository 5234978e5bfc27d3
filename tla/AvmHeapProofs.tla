----------------------------- MODULE AvmHeapProofs --------------------------
(***************************************************************************)
(* Proof that reference counts are never too low, that nothing held was    *)
(* freed, and that only a key can make the machine touch a freed table:    *)
(* for any number of tables, cells, keys and references.                   *)
(***************************************************************************)
EXTENDS AvmHeapProps, FiniteSetTheorems, TLAPS

(* The bindings of the tables of S, holding m, to u. *)
Refs(m, S, u) == {b \in S \X Keys : m[b[1]][b[2]] = u}

(* The cells that contain u, and the result register. *)
In(f, u) == {c \in Cells : f[c] = u}
Held(f, r, u) == Cardinality(In(f, u)) + (IF r = u THEN 1 ELSE 0)

Maps == [Tables -> [Keys -> Value]]
Counts == [Tables -> Nat]

(* Both invariants in one: what is not live counts as 0. *)
Cover == \A u \in Tables : Holders(u) <= ref[u]

-----------------------------------------------------------------------------
(* Sets that differ in one element, and their sizes. *)

LEMMA OneApart ==
  ASSUME NEW A, NEW B, NEW e, IsFiniteSet(A), IsFiniteSet(B), A \ {e} = B \ {e}
  PROVE  Cardinality(A) + (IF e \in B THEN 1 ELSE 0)
           = Cardinality(B) + (IF e \in A THEN 1 ELSE 0)
<1>1. /\ Cardinality(A \ {e}) = IF e \in A THEN Cardinality(A) - 1 ELSE Cardinality(A)
      /\ Cardinality(B \ {e}) = IF e \in B THEN Cardinality(B) - 1 ELSE Cardinality(B)
  BY FS_RemoveElement
<1>2. Cardinality(A) \in Nat /\ Cardinality(B) \in Nat
  BY FS_CardinalityType
<1>3. QED BY <1>1, <1>2

LEMMA Distinct ==
  /\ \A v : v \in Tables => v # NIL /\ v # UNDEF
  /\ NIL \in Value /\ UNDEF \in Value /\ Literals \subseteq Value /\ Keys \subseteq Value
BY HeapAssumption DEF Value

LEMMA RefsFinite ==
  ASSUME NEW m, NEW S \in SUBSET Tables, NEW u
  PROVE  IsFiniteSet(Refs(m, S, u)) /\ Cardinality(Refs(m, S, u)) \in Nat
<1>1. IsFiniteSet(S) /\ IsFiniteSet(Keys)
  BY HeapAssumption, FS_Subset
<1>2. IsFiniteSet(S \X Keys)
  BY <1>1, FS_Product
<1>3. Refs(m, S, u) \in SUBSET (S \X Keys)
  BY DEF Refs
<1>4. IsFiniteSet(Refs(m, S, u))
  BY <1>2, <1>3, FS_Subset
<1>5. QED BY <1>4, FS_CardinalityType

LEMMA RefsSplit ==
  ASSUME NEW m, NEW T \in SUBSET Tables, NEW S \in SUBSET T, NEW u
  PROVE  Cardinality(Refs(m, T, u))
           = Cardinality(Refs(m, S, u)) + Cardinality(Refs(m, T \ S, u))
<1> DEFINE A == Refs(m, S, u)
           B == Refs(m, T \ S, u)
<1>1. /\ IsFiniteSet(A) /\ Cardinality(A) \in Nat
      /\ IsFiniteSet(B) /\ Cardinality(B) \in Nat
  BY RefsFinite
<1>2. Refs(m, T, u) = A \cup B
  BY DEF Refs
<1>3. A \cap B = {}
  BY DEF Refs
<1> HIDE DEF A, B
<1>4. Cardinality(A \cup B) = Cardinality(A) + Cardinality(B) - Cardinality(A \cap B)
  BY <1>1, FS_Union
<1>5. Cardinality(A \cup B) = Cardinality(A) + Cardinality(B)
  BY <1>1, <1>3, <1>4, FS_EmptySet
<1>6. QED BY <1>2, <1>5 DEF A, B

LEMMA RefsGrow ==
  ASSUME NEW m, NEW T \in SUBSET Tables, NEW S \in SUBSET T, NEW u
  PROVE  Cardinality(Refs(m, S, u)) <= Cardinality(Refs(m, T, u))
<1> DEFINE a == Cardinality(Refs(m, S, u))
           b == Cardinality(Refs(m, T \ S, u))
<1>1. S \in SUBSET Tables /\ T \ S \in SUBSET Tables
  OBVIOUS
<1>2. a \in Nat /\ b \in Nat
  BY <1>1, RefsFinite
<1>3. Cardinality(Refs(m, T, u)) = a + b
  BY RefsSplit
<1> HIDE DEF a, b
<1>4. a <= a + b
  BY <1>2
<1>5. QED BY <1>3, <1>4 DEF a

(* One binding is changed. *)
Rebound(m, n, S, t, k) ==
  \A b \in S \X Keys : b # <<t, k>> => n[b[1]][b[2]] = m[b[1]][b[2]]

BoundTo(m, n, t, k, v) ==
  /\ \A S \in SUBSET Tables : Rebound(m, n, S, t, k)
  /\ n[t][k] = v /\ n \in Maps
  /\ \A s \in Tables : s # t => n[s] = m[s]

LEMMA ReboundIs ==
  ASSUME NEW m \in Maps, NEW t \in Tables, NEW k \in Keys, NEW v \in Value
  PROVE  BoundTo(m, [m EXCEPT ![t][k] = v], t, k, v)
<1> DEFINE n == [m EXCEPT ![t][k] = v]
<1>1. m[t] \in [Keys -> Value]
  BY DEF Maps
<1>2. n[t] = [m[t] EXCEPT ![k] = v] /\ \A s \in Tables : s # t => n[s] = m[s]
  BY <1>1 DEF Maps
<1>3. n[t][k] = v /\ \A j \in Keys : j # k => n[t][j] = m[t][j]
  BY <1>1, <1>2
<1>4. n \in Maps
  BY DEF Maps
<1> HIDE DEF n
<1>5. ASSUME NEW S \in SUBSET Tables, NEW b \in S \X Keys, b # <<t, k>>
      PROVE  n[b[1]][b[2]] = m[b[1]][b[2]]
  <2>1. b[1] \in S /\ b[2] \in Keys /\ b = <<b[1], b[2]>> /\ b[1] \in Tables
    OBVIOUS
  <2>2. b[1] # t \/ b[2] # k
    BY <1>5, <2>1
  <2>3. QED BY <1>2, <1>3, <2>1, <2>2
<1>6. \A S \in SUBSET Tables : Rebound(m, n, S, t, k)
  BY <1>5 DEF Rebound
<1>7. BoundTo(m, n, t, k, v)
  BY <1>2, <1>3, <1>4, <1>6 DEF BoundTo
<1>8. QED BY <1>7 DEF n

LEMMA RefsChange ==
  ASSUME NEW m, NEW n, NEW S \in SUBSET Tables, NEW t \in S, NEW k \in Keys, NEW u,
         Rebound(m, n, S, t, k)
  PROVE  Cardinality(Refs(n, S, u)) + (IF m[t][k] = u THEN 1 ELSE 0)
           = Cardinality(Refs(m, S, u)) + (IF n[t][k] = u THEN 1 ELSE 0)
<1> DEFINE A == Refs(n, S, u)
           B == Refs(m, S, u)
           e == <<t, k>>
<1>1. IsFiniteSet(A) /\ IsFiniteSet(B)
  BY RefsFinite
<1>2. (e \in A <=> n[t][k] = u) /\ (e \in B <=> m[t][k] = u)
  BY DEF Refs
<1>3. A \ {e} = B \ {e}
  BY DEF Refs, Rebound
<1> HIDE DEF A, B, e
<1>4. Cardinality(A) + (IF e \in B THEN 1 ELSE 0) = Cardinality(B) + (IF e \in A THEN 1 ELSE 0)
  BY <1>1, <1>3, OneApart
<1>5. QED BY <1>2, <1>4 DEF A, B

LEMMA InFinite ==
  ASSUME NEW f, NEW u
  PROVE  IsFiniteSet(In(f, u)) /\ Cardinality(In(f, u)) \in Nat
<1>1. In(f, u) \in SUBSET Cells
  BY DEF In
<1>2. IsFiniteSet(In(f, u))
  BY <1>1, HeapAssumption, FS_Subset
<1>3. QED BY <1>2, FS_CardinalityType

LEMMA HeldNat ==
  ASSUME NEW f, NEW r, NEW u
  PROVE  Held(f, r, u) \in Nat
BY InFinite DEF Held

(* One cell is changed. *)
LEMMA HeldChange ==
  ASSUME NEW f, NEW g, NEW r, NEW c \in Cells, NEW u, \A d \in Cells \ {c} : g[d] = f[d]
  PROVE  Held(g, r, u) + (IF f[c] = u THEN 1 ELSE 0)
           = Held(f, r, u) + (IF g[c] = u THEN 1 ELSE 0)
<1> DEFINE A == In(g, u)
           B == In(f, u)
<1>1. IsFiniteSet(A) /\ IsFiniteSet(B) /\ Cardinality(A) \in Nat /\ Cardinality(B) \in Nat
  BY InFinite
<1>2. (c \in A <=> g[c] = u) /\ (c \in B <=> f[c] = u) /\ A \ {c} = B \ {c}
  BY DEF In
<1> HIDE DEF A, B
<1>3. Cardinality(A) + (IF c \in B THEN 1 ELSE 0) = Cardinality(B) + (IF c \in A THEN 1 ELSE 0)
  BY <1>1, <1>2, OneApart
<1>4. /\ Held(g, r, u) = Cardinality(A) + (IF r = u THEN 1 ELSE 0)
      /\ Held(f, r, u) = Cardinality(B) + (IF r = u THEN 1 ELSE 0)
  BY DEF Held, A, B
<1>5. QED BY <1>1, <1>2, <1>3, <1>4

(* The holders of a table, by place. *)
LEMMA HoldersAre ==
  ASSUME live \in SUBSET Tables, NEW u
  PROVE  Holders(u) = Held(cell, retval, u) + Cardinality(Refs(members, live, u))
<1> DEFINE a == Cardinality(In(cell, u))
           b == Cardinality(Refs(members, live, u))
           r == IF retval = u THEN 1 ELSE 0
<1>1. Holders(u) = a + b + r
  BY DEF Holders, In, Refs
<1>2. Held(cell, retval, u) = a + r
  BY DEF Held
<1>3. a \in Nat /\ b \in Nat /\ r \in Nat
  BY InFinite, RefsFinite
<1> HIDE DEF a, b, r
<1>4. a + b + r = a + r + b
  BY <1>3
<1>5. QED BY <1>1, <1>2, <1>4 DEF b

(* TypeOK and Cover are the two invariants about counts. *)
LEMMA CoverIsBoth ==
  ASSUME TypeOK, Cover
  PROVE  CountsCover /\ HeldIsLive
<1>1. live \in SUBSET Tables /\ ref \in Counts
  BY DEF TypeOK, Counts
<1>2. CountsCover
  <2>1. SUFFICES ASSUME NEW u \in live PROVE ref[u] >= Holders(u)
    BY DEF CountsCover
  <2>2. Holders(u) <= ref[u] /\ ref[u] \in Nat
    BY <1>1 DEF Cover, Counts
  <2>3. Holders(u) \in Nat
    BY <1>1, HoldersAre, HeldNat, RefsFinite
  <2>4. QED BY <2>2, <2>3
<1>3. ASSUME NEW u \in Tables \ live
      PROVE  In(cell, u) = {} /\ retval # u /\ Refs(members, live, u) = {}
  <2> DEFINE a == Cardinality(In(cell, u))
             b == Cardinality(Refs(members, live, u))
  <2>1. Held(cell, retval, u) + b <= 0
    BY <1>1, <1>3, HoldersAre DEF Cover, TypeOK
  <2>2. a \in Nat /\ b \in Nat /\ Held(cell, retval, u) = a + (IF retval = u THEN 1 ELSE 0)
    BY <1>1, InFinite, RefsFinite DEF Held
  <2> HIDE DEF a, b
  <2>3. a = 0 /\ b = 0 /\ retval # u
    BY <2>1, <2>2
  <2>4. QED BY <1>1, <2>3, InFinite, RefsFinite, FS_EmptySet DEF a, b
<1>4. ASSUME NEW c \in Cells, cell[c] \in Tables PROVE cell[c] \in live
  BY <1>3, <1>4 DEF In
<1>5. retval \in Tables => retval \in live
  BY <1>3
<1>6. ASSUME NEW t \in live, NEW k \in Keys, members[t][k] \in Tables
      PROVE  members[t][k] \in live
  <2>1. ASSUME members[t][k] \notin live PROVE FALSE
    <3>1. <<t, k>> \in Refs(members, live, members[t][k])
      BY DEF Refs
    <3>2. QED BY <1>3, <1>6, <2>1, <3>1
  <2>2. QED BY <2>1
<1>7. QED BY <1>2, <1>4, <1>5, <1>6 DEF HeldIsLive

-----------------------------------------------------------------------------
(* What one drop frees. *)

Sizes == /\ live \in SUBSET Tables /\ ref \in Counts
         /\ \A u \in Tables \ live : ref[u] = 0

LEMMA DroppedIs ==
  ASSUME NEW m, NEW drops \in Counts, NEW S \in SUBSET Tables, NEW u \in Tables
  PROVE  /\ Dropped(m, drops, S, u) = drops[u] + Cardinality(Refs(m, S, u))
         /\ drops[u] \in Nat /\ Dropped(m, drops, S, u) \in Nat
<1>1. Dropped(m, drops, S, u) = drops[u] + Cardinality(Refs(m, S, u))
  BY DEF Dropped, Refs
<1>2. drops[u] \in Nat /\ Cardinality(Refs(m, S, u)) \in Nat
  BY RefsFinite DEF Counts
<1>3. QED BY <1>1, <1>2

(* Freed is the least closed set. *)
LEMMA FreedClosed ==
  ASSUME Sizes, NEW m, NEW drops \in Counts
  PROVE  /\ Freed(m, drops) \in SUBSET live
         /\ Closed(m, drops, Freed(m, drops))
         /\ \A S \in SUBSET live : Closed(m, drops, S) => Freed(m, drops) \subseteq S
<1> DEFINE dead == Freed(m, drops)
<1>1. CASE \A u \in live : drops[u] < ref[u]
  <2>1. dead = {}
    BY <1>1 DEF Freed
  <2>2. ASSUME NEW u \in live PROVE ~(Dropped(m, drops, {}, u) >= ref[u])
    <3>1. u \in Tables /\ {} \in SUBSET Tables /\ ref[u] \in Nat
      BY DEF Sizes, Counts
    <3>2. Cardinality(Refs(m, {}, u)) = 0
      BY FS_EmptySet DEF Refs
    <3>3. Dropped(m, drops, {}, u) = drops[u] /\ drops[u] \in Nat
      <4>1. Dropped(m, drops, {}, u) = drops[u] + Cardinality(Refs(m, {}, u)) /\ drops[u] \in Nat
        BY <3>1, DroppedIs
      <4>2. QED BY <3>2, <4>1
    <3>4. QED BY <1>1, <3>1, <3>3
  <2>3. Closed(m, drops, {})
    BY <2>2 DEF Closed
  <2>4. QED BY <2>1, <2>3
<1>2. CASE ~(\A u \in live : drops[u] < ref[u])
  <2>1. dead = {u \in live : \A S \in SUBSET live : Closed(m, drops, S) => u \in S}
    BY <1>2 DEF Freed
  <2>2. dead \in SUBSET live /\ \A S \in SUBSET live : Closed(m, drops, S) => dead \subseteq S
    BY <2>1
  <2> HIDE DEF dead
  <2>3. ASSUME NEW u \in live, Dropped(m, drops, dead, u) >= ref[u] PROVE u \in dead
    <3>1. SUFFICES ASSUME NEW S \in SUBSET live, Closed(m, drops, S) PROVE u \in S
      BY <2>1
    <3> DEFINE a == Cardinality(Refs(m, dead, u))
               b == Cardinality(Refs(m, S, u))
    <3>2. /\ S \in SUBSET Tables /\ dead \in SUBSET S /\ dead \in SUBSET Tables
          /\ u \in Tables /\ ref[u] \in Nat
      BY <2>2, <3>1 DEF Sizes, Counts
    <3>3. a <= b
      BY <3>2, RefsGrow
    <3>4. a \in Nat /\ b \in Nat
      BY <3>2, RefsFinite
    <3>5. /\ Dropped(m, drops, dead, u) = drops[u] + a
          /\ Dropped(m, drops, S, u) = drops[u] + b /\ drops[u] \in Nat
      BY <3>2, DroppedIs
    <3> HIDE DEF a, b
    <3>6. Dropped(m, drops, S, u) >= ref[u]
      BY <2>3, <3>2, <3>3, <3>4, <3>5
    <3>7. QED BY <3>1, <3>6 DEF Closed
  <2>4. Closed(m, drops, dead)
    BY <2>3 DEF Closed
  <2>5. QED BY <2>2, <2>4 DEF dead
<1>3. QED BY <1>1, <1>2

(* R counts references that stay.  As long as every reference is counted    *)
(* once, nothing is freed that one of these or a table that stays holds, and*)
(* the counts of what stays go on covering them.                            *)
Covered(m, drops, R) ==
  \A u \in Tables : drops[u] + Cardinality(Refs(m, live, u)) + R[u] <= ref[u]

LEMMA Release ==
  ASSUME Sizes, NEW m, NEW drops \in Counts, NEW R \in Counts, Covered(m, drops, R)
  PROVE  LET dead == Freed(m, drops)
             kept == live \ dead IN
         /\ \A u \in Tables :
              Dropped(m, drops, dead, u) + Cardinality(Refs(m, kept, u)) + R[u] <= ref[u]
         /\ \A u \in kept : Dropped(m, drops, dead, u) < ref[u]
         /\ \A u \in dead : R[u] = 0 /\ Cardinality(Refs(m, kept, u)) = 0
         /\ Releasable(m, drops, dead)
<1> DEFINE dead == Freed(m, drops)
           kept == live \ dead
           d(u) == Cardinality(Refs(m, dead, u))
           k(u) == Cardinality(Refs(m, kept, u))
<1>1. /\ dead \in SUBSET live /\ Closed(m, drops, dead)
      /\ \A S \in SUBSET live : Closed(m, drops, S) => dead \subseteq S
  BY FreedClosed
<1>2. /\ live \in SUBSET Tables /\ dead \in SUBSET Tables /\ kept \in SUBSET Tables
      /\ dead \cup kept = live /\ dead \cap kept = {}
  BY <1>1 DEF Sizes
<1> HIDE DEF dead
<1>3. ASSUME NEW u \in Tables
      PROVE  /\ d(u) \in Nat /\ k(u) \in Nat /\ drops[u] \in Nat /\ R[u] \in Nat /\ ref[u] \in Nat
             /\ Dropped(m, drops, dead, u) = drops[u] + d(u)
             /\ drops[u] + d(u) + k(u) + R[u] <= ref[u]
  <2>1. /\ d(u) \in Nat /\ k(u) \in Nat /\ drops[u] \in Nat
        /\ Dropped(m, drops, dead, u) = drops[u] + d(u)
    BY <1>2, RefsFinite, DroppedIs
  <2>2. R[u] \in Nat /\ ref[u] \in Nat
    BY DEF Counts, Sizes
  <2>3. Cardinality(Refs(m, live, u)) = d(u) + k(u)
    BY <1>1, <1>2, RefsSplit
  <2>4. drops[u] + (d(u) + k(u)) + R[u] <= ref[u]
    BY <2>3 DEF Covered
  <2> HIDE DEF d, k
  <2>5. drops[u] + d(u) + k(u) + R[u] <= ref[u]
    BY <2>1, <2>2, <2>4
  <2>6. QED BY <2>1, <2>2, <2>5
<1> HIDE DEF d, k
<1>4. ASSUME NEW u \in Tables
      PROVE  Dropped(m, drops, dead, u) + k(u) + R[u] <= ref[u]
  BY <1>3
<1>5. ASSUME NEW u \in kept PROVE Dropped(m, drops, dead, u) < ref[u]
  <2>1. u \in live /\ u \notin dead /\ u \in Tables
    BY <1>2
  <2>2. ~(Dropped(m, drops, dead, u) >= ref[u])
    BY <1>1, <2>1 DEF Closed
  <2>3. Dropped(m, drops, dead, u) \in Nat /\ ref[u] \in Nat
    BY <1>3, <2>1
  <2>4. QED BY <2>2, <2>3
<1>6. ASSUME NEW u \in dead PROVE R[u] = 0 /\ k(u) = 0
  <2> DEFINE S0 == {x \in dead : R[x] = 0 /\ k(x) = 0}
  <2>1. S0 \in SUBSET live /\ S0 \in SUBSET Tables /\ S0 \in SUBSET dead
    BY <1>1, <1>2
  <2>2. ASSUME NEW x \in live, Dropped(m, drops, S0, x) >= ref[x] PROVE x \in S0
    <3> DEFINE s == Cardinality(Refs(m, S0, x))
    <3>1. x \in Tables
      BY <1>2
    <3>2. s \in Nat /\ Dropped(m, drops, S0, x) = drops[x] + s
      BY <2>1, <3>1, RefsFinite, DroppedIs
    <3>3. s <= d(x)
      BY <1>2, <2>1, RefsGrow DEF d
    <3> HIDE DEF s, S0
    <3>4. Dropped(m, drops, dead, x) >= ref[x]
      BY <1>3, <2>2, <3>1, <3>2, <3>3
    <3>5. x \in dead
      BY <1>1, <3>4 DEF Closed
    <3>6. R[x] = 0 /\ k(x) = 0
      <4>1. /\ d(x) \in Nat /\ k(x) \in Nat /\ drops[x] \in Nat /\ R[x] \in Nat /\ ref[x] \in Nat
            /\ drops[x] + d(x) + k(x) + R[x] <= ref[x] /\ drops[x] + s >= ref[x]
        BY <1>3, <2>2, <3>1, <3>2
      <4>2. drops[x] + d(x) >= ref[x]
        BY <3>2, <3>3, <4>1
      <4>3. QED BY <4>1, <4>2
    <3>7. QED BY <3>5, <3>6 DEF S0
  <2>3. Closed(m, drops, S0)
    BY <2>2 DEF Closed
  <2>4. dead \subseteq S0
    BY <1>1, <2>1, <2>3
  <2>5. QED BY <2>4
<1>7. Releasable(m, drops, dead)
  <2>1. ASSUME NEW u \in Tables
        PROVE  IF u \in live THEN Dropped(m, drops, dead, u) <= ref[u]
               ELSE Dropped(m, drops, dead, u) = 0
    <3>1. Dropped(m, drops, dead, u) <= ref[u] /\ Dropped(m, drops, dead, u) \in Nat
      BY <1>3
    <3>2. u \notin live => ref[u] = 0
      BY DEF Sizes
    <3>3. QED BY <3>1, <3>2
  <2>2. QED BY <2>1 DEF Releasable
<1>8. QED BY <1>4, <1>5, <1>6, <1>7 DEF dead, k

-----------------------------------------------------------------------------
(* The inductive invariant. *)

DeadKey == \E t \in live : Bound(t) \cap (Tables \ live) # {}
HeapInv == TypeOK /\ Cover /\ CrashNeedsDeadKey

LEMMA InvFacts ==
  ASSUME HeapInv
  PROVE  /\ Sizes /\ members \in Maps /\ cell \in [Cells -> Value] /\ retval \in Value
         /\ \A u \in Tables :
              /\ Holders(u) <= ref[u] /\ ref[u] \in Nat
              /\ Holders(u) = Held(cell, retval, u) + Cardinality(Refs(members, live, u))
              /\ Held(cell, retval, u) \in Nat /\ Cardinality(Refs(members, live, u)) \in Nat
         /\ \A t \in Tables \ live : members[t] = Empty
         /\ HeldIsLive
<1>1. /\ Sizes /\ members \in Maps /\ cell \in [Cells -> Value] /\ retval \in Value
      /\ live \in SUBSET Tables /\ \A t \in Tables \ live : members[t] = Empty
  BY DEF HeapInv, TypeOK, Sizes, Counts, Maps
<1>2. ASSUME NEW u \in Tables
      PROVE  /\ Holders(u) <= ref[u] /\ ref[u] \in Nat
             /\ Holders(u) = Held(cell, retval, u) + Cardinality(Refs(members, live, u))
             /\ Held(cell, retval, u) \in Nat /\ Cardinality(Refs(members, live, u)) \in Nat
  <2>1. Holders(u) <= ref[u] /\ ref[u] \in Nat
    BY <1>1 DEF HeapInv, Cover, Sizes, Counts
  <2>2. QED BY <1>1, <2>1, HoldersAre, HeldNat, RefsFinite
<1>3. HeldIsLive
  BY CoverIsBoth DEF HeapInv
<1>4. QED BY <1>1, <1>2, <1>3

LEMMA HoldersAfter ==
  ASSUME live' \in SUBSET Tables, NEW u
  PROVE  Holders(u)' = Held(cell', retval', u) + Cardinality(Refs(members', live', u))
<1> DEFINE a == Cardinality(In(cell', u))
           b == Cardinality(Refs(members', live', u))
           r == IF retval' = u THEN 1 ELSE 0
<1>1. Holders(u)' = a + b + r
  BY DEF Holders, In, Refs
<1>2. Held(cell', retval', u) = a + r
  BY DEF Held
<1>3. a \in Nat /\ b \in Nat /\ r \in Nat
  BY InFinite, RefsFinite
<1> HIDE DEF a, b, r
<1>4. a + b + r = a + r + b
  BY <1>3
<1>5. QED BY <1>1, <1>2, <1>4 DEF b

LEMMA CrashKeeps ==
  ASSUME HeapInv, Crash, DeadKey
  PROVE  HeapInv'
<1>1. TypeOK'
  BY DEF HeapInv, TypeOK, Crash
<1>2. Cover'
  BY DEF HeapInv, Cover, Holders, Crash
<1>3. CrashNeedsDeadKey'
  BY DEF CrashNeedsDeadKey, DeadKey, Bound, Crash
<1>4. QED BY <1>1, <1>2, <1>3 DEF HeapInv

(* Nothing is counted or freed, and no table gets a new reference. *)
LEMMA StayKeeps ==
  ASSUME HeapInv, UNCHANGED <<live, ref, members>>, mode' \in {"run", "done"},
         cell' \in [Cells -> Value], retval' \in Value,
         \A u \in Tables : Held(cell', retval', u) <= Held(cell, retval, u)
  PROVE  HeapInv'
<1>1. TypeOK'
  BY DEF HeapInv, TypeOK
<1>2. ASSUME NEW u \in Tables PROVE Holders(u)' <= ref'[u]
  <2> DEFINE b == Cardinality(Refs(members, live, u))
  <2>1. /\ Holders(u) <= ref[u] /\ ref[u] \in Nat /\ b \in Nat
        /\ Holders(u) = Held(cell, retval, u) + b /\ Held(cell, retval, u) \in Nat
    BY InvFacts
  <2>2. Holders(u)' = Held(cell', retval', u) + b
    BY HoldersAfter DEF HeapInv, TypeOK
  <2>3. Held(cell', retval', u) \in Nat
    BY HeldNat
  <2> HIDE DEF b
  <2>4. QED BY <2>1, <2>2, <2>3
<1>3. CrashNeedsDeadKey'
  BY DEF CrashNeedsDeadKey
<1>4. QED BY <1>1, <1>2, <1>3 DEF HeapInv, Cover

LEMMA AcquireKeeps ==
  ASSUME HeapInv, mode = "run", NEW fresh \in SUBSET (Tables \ live), NEW m \in Maps,
         NEW incs \in Counts, Acquire(fresh, m, incs),
         \A t \in fresh : incs[t] > 0,
         \A t \in Tables \ (live \cup fresh) : m[t] = Empty,
         cell' \in [Cells -> Value], retval' \in Value,
         \A u \in Tables :
           Held(cell', retval', u) + Cardinality(Refs(m, live \cup fresh, u))
             <= Holders(u) + incs[u]
  PROVE  HeapInv'
<1>1. /\ live' = live \cup fresh /\ ref' = [t \in Tables |-> ref[t] + incs[t]]
      /\ members' = m /\ mode' = "run"
      /\ \A t \in Tables : incs[t] > 0 => t \in live \cup fresh
  BY DEF Acquire
<1>2. live' \in SUBSET Tables
  BY <1>1 DEF HeapInv, TypeOK
<1>3. ASSUME NEW t \in Tables
      PROVE  /\ ref[t] \in Nat /\ incs[t] \in Nat /\ ref'[t] = ref[t] + incs[t]
             /\ t \in live => ref[t] > 0
             /\ t \notin live => ref[t] = 0
             /\ t \notin live \cup fresh => incs[t] = 0
  BY <1>1 DEF HeapInv, TypeOK, Counts
<1>4. TypeOK'
  <2>1. ref' \in [Tables -> Nat]
    BY <1>1, <1>3
  <2>2. \A t \in live' : ref'[t] > 0
    BY <1>1, <1>2, <1>3
  <2>3. \A t \in Tables \ live' : ref'[t] = 0 /\ members'[t] = Empty
    BY <1>1, <1>3
  <2>4. QED BY <1>1, <1>2, <2>1, <2>2, <2>3 DEF TypeOK, Maps
<1>5. ASSUME NEW u \in Tables PROVE Holders(u)' <= ref'[u]
  <2>1. Holders(u)' <= Holders(u) + incs[u]
    BY <1>1, <1>2, HoldersAfter
  <2>2. Holders(u) <= ref[u] /\ Holders(u) \in Nat
    BY InvFacts
  <2>3. Holders(u)' \in Nat
    BY <1>2, HoldersAfter, HeldNat, RefsFinite
  <2>4. QED BY <1>3, <2>1, <2>2, <2>3
<1>6. CrashNeedsDeadKey'
  BY <1>1 DEF CrashNeedsDeadKey
<1>7. QED BY <1>4, <1>5, <1>6 DEF HeapInv, Cover

LEMMA ExchangeKeeps ==
  ASSUME HeapInv, mode = "run", NEW m \in Maps, NEW after \in Maps, NEW drops \in Counts,
         NEW R \in Counts, NEW v \in Value, Covered(m, drops, R),
         Exchange(m, drops, after, v), {v} \cap Tables \subseteq live \ Freed(m, drops),
         cell' \in [Cells -> Value], retval' \in Value,
         \A u \in Tables :
           Held(cell', retval', u) + Cardinality(Refs(after, live \ Freed(m, drops), u))
             <= R[u] + Cardinality(Refs(m, live \ Freed(m, drops), u)) + One(v)[u]
  PROVE  HeapInv'
<1> DEFINE dead == Freed(m, drops)
           kept == live \ dead
           D(u) == Dropped(m, drops, dead, u)
           k(u) == Cardinality(Refs(m, kept, u))
<1>1. Sizes /\ live \in SUBSET Tables
  BY InvFacts DEF Sizes
<1>2. dead \in SUBSET live /\ dead \in SUBSET Tables /\ kept \in SUBSET Tables
  BY <1>1, FreedClosed
<1>3. /\ \A u \in Tables : D(u) + k(u) + R[u] <= ref[u]
      /\ \A u \in kept : D(u) < ref[u]
      /\ \A u \in dead : R[u] = 0 /\ k(u) = 0
  BY <1>1, Release
<1>4. /\ live' = kept
      /\ ref' = [u \in Tables |-> IF u \in kept THEN ref[u] - D(u) + One(v)[u] ELSE 0]
      /\ members' = [u \in Tables |-> IF u \in kept THEN after[u] ELSE Empty]
      /\ mode' = "run"
  BY DEF Exchange
<1>5. ASSUME NEW u \in Tables
      PROVE  /\ D(u) \in Nat /\ k(u) \in Nat /\ R[u] \in Nat /\ ref[u] \in Nat
             /\ One(v)[u] \in Nat
  BY <1>1, <1>2, DroppedIs, RefsFinite DEF Counts, One, Sizes
<1>6. ASSUME NEW u \in Tables
      PROVE  Held(cell', retval', u) + Cardinality(Refs(after, kept, u)) <= R[u] + k(u) + One(v)[u]
  OBVIOUS
<1>7. {v} \cap Tables \subseteq kept
  OBVIOUS
<1> HIDE DEF D, k, dead
<1>8. TypeOK'
  <2>1. ASSUME NEW u \in Tables
        PROVE  /\ ref'[u] \in Nat
               /\ u \in kept => ref'[u] > 0
               /\ u \notin kept => ref'[u] = 0 /\ members'[u] = Empty
               /\ members'[u] \in [Keys -> Value]
    <3>1. u \in kept => ref'[u] = ref[u] - D(u) + One(v)[u] /\ members'[u] = after[u]
      BY <1>4
    <3>2. u \notin kept => ref'[u] = 0 /\ members'[u] = Empty
      BY <1>4
    <3>3. Empty \in [Keys -> Value] /\ after[u] \in [Keys -> Value]
      BY Distinct DEF Empty, Maps
    <3>4. u \in kept => ref'[u] \in Nat /\ ref'[u] > 0
      BY <1>3, <1>5, <3>1
    <3>5. QED BY <3>1, <3>2, <3>3, <3>4
  <2>2. ref' = [u \in Tables |-> ref'[u]] /\ members' = [u \in Tables |-> members'[u]]
    BY <1>4, Zenon
  <2>3. ref' \in [Tables -> Nat] /\ members' \in [Tables -> [Keys -> Value]]
    BY <2>1, <2>2
  <2>4. QED BY <1>2, <1>4, <2>1, <2>3 DEF TypeOK
<1>9. ASSUME NEW u \in Tables PROVE Holders(u)' <= ref'[u]
  <2> DEFINE h == Held(cell', retval', u)
             a == Cardinality(Refs(after, kept, u))
  <2>1. Holders(u)' = h + Cardinality(Refs(members', kept, u))
    BY <1>2, <1>4, HoldersAfter
  <2>2. Refs(members', kept, u) = Refs(after, kept, u)
    BY <1>2, <1>4 DEF Refs
  <2>3. h \in Nat /\ a \in Nat
    BY <1>2, HeldNat, RefsFinite
  <2>4. Holders(u)' = h + a /\ h + a <= R[u] + k(u) + One(v)[u]
    BY <1>6, <2>1, <2>2
  <2> HIDE DEF h, a
  <2>5. CASE u \in kept
    <3>1. ref'[u] = ref[u] - D(u) + One(v)[u] /\ D(u) + k(u) + R[u] <= ref[u]
      BY <1>3, <1>4, <2>5
    <3>2. QED BY <1>5, <2>3, <2>4, <3>1
  <2>6. CASE u \notin kept
    <3>1. ref'[u] = 0
      BY <1>4, <2>6
    <3>2. R[u] = 0 /\ k(u) = 0
      <4>1. CASE u \in dead
        BY <1>3, <4>1
      <4>2. CASE u \notin live
        <5>1. ref[u] = 0
          BY <1>1, <4>2 DEF Sizes
        <5>2. D(u) + k(u) + R[u] <= 0
          BY <1>3, <5>1
        <5>3. D(u) \in Nat /\ k(u) \in Nat /\ R[u] \in Nat
          BY <1>5
        <5>4. QED BY <5>2, <5>3
      <4>3. QED BY <2>6, <4>1, <4>2
    <3>3. One(v)[u] = 0
      BY <1>7, <2>6 DEF One
    <3>4. QED BY <2>3, <2>4, <3>1, <3>2, <3>3
  <2>7. QED BY <2>5, <2>6
<1>10. CrashNeedsDeadKey'
  BY <1>4 DEF CrashNeedsDeadKey
<1>11. QED BY <1>8, <1>9, <1>10 DEF HeapInv, Cover

-----------------------------------------------------------------------------
(* The instructions that drop references. *)

(* What a table that stays holds makes no difference to what is freed. *)
LEMMA FreedSame ==
  ASSUME Sizes, NEW m, NEW n, NEW drops \in Counts, NEW t,
         \A s \in Tables : s # t => m[s] = n[s], t \notin Freed(m, drops)
  PROVE  /\ Freed(n, drops) = Freed(m, drops)
         /\ \A u : Dropped(n, drops, Freed(m, drops), u) = Dropped(m, drops, Freed(m, drops), u)
<1> DEFINE A == Freed(m, drops)
           B == Freed(n, drops)
<1>1. /\ A \in SUBSET live /\ Closed(m, drops, A)
      /\ \A S \in SUBSET live : Closed(m, drops, S) => A \subseteq S
  BY FreedClosed
<1>2. /\ B \in SUBSET live /\ Closed(n, drops, B)
      /\ \A S \in SUBSET live : Closed(n, drops, S) => B \subseteq S
  BY FreedClosed
<1>3. t \notin A
  OBVIOUS
<1> HIDE DEF A, B
<1>4. ASSUME NEW S \in SUBSET live, t \notin S, NEW u
      PROVE  Dropped(n, drops, S, u) = Dropped(m, drops, S, u)
  <2>1. \A b \in S \X Keys : m[b[1]] = n[b[1]]
    BY <1>4 DEF Sizes
  <2>2. {b \in S \X Keys : m[b[1]][b[2]] = u} = {b \in S \X Keys : n[b[1]][b[2]] = u}
    BY <2>1
  <2>3. QED BY <2>2 DEF Dropped
<1>5. B \subseteq A
  BY <1>1, <1>2, <1>3, <1>4 DEF Closed
<1>6. A \subseteq B
  BY <1>1, <1>2, <1>3, <1>4, <1>5 DEF Closed
<1>7. QED BY <1>1, <1>3, <1>4, <1>5, <1>6 DEF A, B

LEMMA HeldSome ==
  ASSUME NEW f, NEW r, NEW u, r = u \/ \E c \in Cells : f[c] = u
  PROVE  Held(f, r, u) > 0
<1>1. Cardinality(In(f, u)) \in Nat /\ IsFiniteSet(In(f, u))
  BY InFinite
<1>2. CASE r = u
  BY <1>1, <1>2 DEF Held
<1>3. CASE \E c \in Cells : f[c] = u
  <2>1. In(f, u) # {}
    BY <1>3 DEF In
  <2>2. Cardinality(In(f, u)) # 0
    BY <1>1, <2>1, FS_EmptySet
  <2>3. QED BY <1>1, <2>2 DEF Held
<1>4. QED BY <1>2, <1>3

LEMMA AssignKeeps ==
  ASSUME HeapInv, NEW c \in Cells, NEW v \in Value, Assign(c, v),
         v \in Tables => \E d \in Cells \ {c} : cell[d] = v
  PROVE  HeapInv'
<1> DEFINE f == [cell EXCEPT ![c] = UNDEF]
           R == [u \in Tables |-> Held(f, retval, u)]
           drops == One(cell[c])
           kept == live \ Freed(members, drops)
<1>1. /\ Sizes /\ members \in Maps /\ cell \in [Cells -> Value] /\ retval \in Value
      /\ \A u \in Tables :
           /\ Holders(u) <= ref[u] /\ ref[u] \in Nat
           /\ Holders(u) = Held(cell, retval, u) + Cardinality(Refs(members, live, u))
           /\ Held(cell, retval, u) \in Nat /\ Cardinality(Refs(members, live, u)) \in Nat
      /\ HeldIsLive
  BY InvFacts
<1>2. R \in Counts /\ drops \in Counts
  BY HeldNat DEF Counts, One
<1>3. ASSUME NEW u \in Tables
      PROVE  /\ R[u] + One(cell[c])[u] = Held(cell, retval, u)
             /\ R[u] \in Nat /\ One(cell[c])[u] \in Nat
  <2>1. Held(f, retval, u) + (IF cell[c] = u THEN 1 ELSE 0)
          = Held(cell, retval, u) + (IF UNDEF = u THEN 1 ELSE 0)
    <3>1. f[c] = UNDEF /\ \A d \in Cells \ {c} : f[d] = cell[d]
      BY <1>1
    <3> HIDE DEF f
    <3>2. QED BY <3>1, HeldChange
  <2>2. UNDEF # u /\ R[u] = Held(f, retval, u) /\ R[u] \in Nat
    BY Distinct, HeldNat
  <2> HIDE DEF f, R
  <2>3. QED BY <1>1, <2>1, <2>2 DEF One
<1> HIDE DEF R
<1>4. Covered(members, drops, R)
  <2>1. ASSUME NEW u \in Tables
        PROVE  drops[u] + Cardinality(Refs(members, live, u)) + R[u] <= ref[u]
    BY <1>1, <1>3
  <2>2. QED BY <2>1 DEF Covered
<1>5. /\ \A u \in Freed(members, drops) : R[u] = 0
      /\ Releasable(members, drops, Freed(members, drops))
  BY <1>1, <1>2, <1>4, Release
<1>6. {v} \cap Tables \subseteq kept
  <2>1. SUFFICES ASSUME v \in Tables PROVE v \in live /\ v \notin Freed(members, drops)
    OBVIOUS
  <2>2. PICK d \in Cells \ {c} : cell[d] = v
    BY <2>1
  <2>3. f[d] = v
    BY <1>1, <2>2
  <2>4. R[v] > 0
    BY <2>1, <2>3, HeldSome DEF R
  <2>5. QED BY <1>1, <1>5, <2>1, <2>2, <2>4 DEF HeldIsLive
<1>7. Exchangeable(members, drops, v, v)
  BY <1>5, <1>6 DEF Exchangeable
<1>8. /\ mode = "run" /\ Exchange(members, drops, members, v)
      /\ cell' = [cell EXCEPT ![c] = v] /\ retval' = retval
  BY <1>7 DEF Assign
<1>9. ASSUME NEW u \in Tables
      PROVE  Held(cell', retval', u) + Cardinality(Refs(members, kept, u))
               <= R[u] + Cardinality(Refs(members, kept, u)) + One(v)[u]
  <2> DEFINE x == Cardinality(Refs(members, kept, u))
             h == Held(cell', retval', u)
  <2>1. h + (IF cell[c] = u THEN 1 ELSE 0)
          = Held(cell, retval, u) + (IF v = u THEN 1 ELSE 0)
    <3>1. cell'[c] = v /\ \A d \in Cells \ {c} : cell'[d] = cell[d]
      BY <1>1, <1>8
    <3>2. Held(cell', retval, u) + (IF cell[c] = u THEN 1 ELSE 0)
            = Held(cell, retval, u) + (IF cell'[c] = u THEN 1 ELSE 0)
      BY <3>1, HeldChange
    <3>3. QED BY <1>8, <3>1, <3>2
  <2>2. x \in Nat /\ h \in Nat
    BY <1>1, RefsFinite, HeldNat DEF Sizes
  <2> HIDE DEF x, h
  <2>3. h = R[u] + One(v)[u] /\ One(v)[u] \in Nat
    BY <1>1, <1>3, <2>1, <2>2 DEF One
  <2>4. h + x <= R[u] + x + One(v)[u]
    BY <1>3, <2>2, <2>3
  <2>5. QED BY <2>4 DEF x, h
<1>10. cell' \in [Cells -> Value] /\ retval' \in Value
  BY <1>1, <1>8
<1> HIDE DEF drops
<1>11. QED BY <1>1, <1>2, <1>4, <1>6, <1>8, <1>9, <1>10, ExchangeKeeps

LEMMA ReturnKeeps ==
  ASSUME HeapInv, NEW v \in Value, Return(v),
         v \in Tables => \E d \in Cells : cell[d] = v
  PROVE  HeapInv'
<1> DEFINE R == [u \in Tables |-> Held(cell, UNDEF, u)]
           drops == One(retval)
           kept == live \ Freed(members, drops)
<1>1. /\ Sizes /\ members \in Maps /\ cell \in [Cells -> Value] /\ retval \in Value
      /\ \A u \in Tables :
           /\ Holders(u) <= ref[u] /\ ref[u] \in Nat
           /\ Holders(u) = Held(cell, retval, u) + Cardinality(Refs(members, live, u))
           /\ Held(cell, retval, u) \in Nat /\ Cardinality(Refs(members, live, u)) \in Nat
      /\ HeldIsLive
  BY InvFacts
<1>2. R \in Counts /\ drops \in Counts
  BY HeldNat DEF Counts, One
<1>3. ASSUME NEW u \in Tables
      PROVE  /\ R[u] + One(retval)[u] = Held(cell, retval, u)
             /\ Held(cell, v, u) = R[u] + One(v)[u]
             /\ R[u] \in Nat /\ One(retval)[u] \in Nat /\ One(v)[u] \in Nat
  BY Distinct, InFinite DEF Held, One
<1> HIDE DEF R
<1>4. Covered(members, drops, R)
  <2>1. ASSUME NEW u \in Tables
        PROVE  drops[u] + Cardinality(Refs(members, live, u)) + R[u] <= ref[u]
    BY <1>1, <1>3
  <2>2. QED BY <2>1 DEF Covered
<1>5. /\ \A u \in Freed(members, drops) : R[u] = 0
      /\ Releasable(members, drops, Freed(members, drops))
  BY <1>1, <1>2, <1>4, Release
<1>6. {v} \cap Tables \subseteq kept
  <2>1. SUFFICES ASSUME v \in Tables PROVE v \in live /\ v \notin Freed(members, drops)
    OBVIOUS
  <2>2. PICK d \in Cells : cell[d] = v
    BY <2>1
  <2>3. R[v] > 0
    BY <2>1, <2>2, HeldSome DEF R
  <2>4. QED BY <1>1, <1>5, <2>1, <2>2, <2>3 DEF HeldIsLive
<1>7. Exchangeable(members, drops, v, v)
  BY <1>5, <1>6 DEF Exchangeable
<1>8. /\ mode = "run" /\ Exchange(members, drops, members, v)
      /\ cell' = cell /\ retval' = v
  BY <1>7 DEF Return
<1>9. ASSUME NEW u \in Tables
      PROVE  Held(cell', retval', u) + Cardinality(Refs(members, kept, u))
               <= R[u] + Cardinality(Refs(members, kept, u)) + One(v)[u]
  <2> DEFINE x == Cardinality(Refs(members, kept, u))
  <2>1. x \in Nat
    BY <1>1, RefsFinite DEF Sizes
  <2> HIDE DEF x
  <2>2. Held(cell', retval', u) + x <= R[u] + x + One(v)[u]
    BY <1>3, <1>8, <2>1
  <2>3. QED BY <2>2 DEF x
<1>10. cell' \in [Cells -> Value] /\ retval' \in Value
  BY <1>1, <1>8
<1> HIDE DEF drops
<1>11. QED BY <1>1, <1>2, <1>4, <1>6, <1>8, <1>9, <1>10, ExchangeKeeps

LEMMA SetElemKeeps ==
  ASSUME HeapInv, NEW c \in Cells, NEW k \in Value, NEW v \in Value, SetElem(c, k, v),
         v \in Tables => \E d \in Cells : cell[d] = v
  PROVE  HeapInv'
<1> DEFINE t == cell[c]
           m == [members EXCEPT ![t][k] = NIL]
           after == [members EXCEPT ![t][k] = v]
           during == IF v = NIL THEN after ELSE members
           drops == One(members[t][k])
           R == [u \in Tables |-> Held(cell, retval, u)]
           dead == Freed(m, drops)
           kept == live \ dead
<1>1. /\ Sizes /\ members \in Maps /\ cell \in [Cells -> Value] /\ retval \in Value
      /\ \A u \in Tables :
           /\ Holders(u) <= ref[u] /\ ref[u] \in Nat
           /\ Holders(u) = Held(cell, retval, u) + Cardinality(Refs(members, live, u))
           /\ Held(cell, retval, u) \in Nat /\ Cardinality(Refs(members, live, u)) \in Nat
      /\ HeldIsLive
  BY InvFacts
<1>2. /\ t \in Tables /\ k \in Keys /\ mode = "run"
      /\ IF t \in live /\ Exchangeable(during, drops, t, v)
         THEN Exchange(during, drops, after, v) /\ UNCHANGED <<cell, retval>>
         ELSE Crash
  BY DEF SetElem
<1>3. t \in live
  BY <1>1, <1>2 DEF HeldIsLive
<1>4. BoundTo(members, m, t, k, NIL) /\ BoundTo(members, after, t, k, v)
  <2>1. members \in Maps /\ NIL \in Value
    BY <1>1, Distinct
  <2>2. QED BY <1>2, <2>1, ReboundIs, Zenon
<1>5. /\ \A S \in SUBSET Tables : Rebound(members, m, S, t, k) /\ Rebound(members, after, S, t, k)
      /\ m[t][k] = NIL /\ m \in Maps /\ after[t][k] = v /\ after \in Maps
      /\ \A s \in Tables : s # t => m[s] = members[s]
  <2> HIDE DEF m, after
  <2>1. QED BY <1>4 DEF BoundTo
<1>6. v = NIL => during = m
  OBVIOUS
<1>7. v # NIL => during = members
  OBVIOUS
<1>8. R \in Counts /\ drops \in Counts
  BY HeldNat DEF Counts, One
<1>9. \A u \in Tables : drops[u] = (IF members[t][k] = u THEN 1 ELSE 0)
  BY DEF One
<1>10. \A u \in Tables : R[u] = Held(cell, retval, u)
  OBVIOUS
<1> HIDE DEF m, after, during, drops, R
<1>11. Covered(m, drops, R)
  <2>1. ASSUME NEW u \in Tables
        PROVE  drops[u] + Cardinality(Refs(m, live, u)) + R[u] <= ref[u]
    <3> DEFINE x == Cardinality(Refs(m, live, u))
    <3>1. x + (IF members[t][k] = u THEN 1 ELSE 0)
            = Cardinality(Refs(members, live, u)) + (IF m[t][k] = u THEN 1 ELSE 0)
      <4>1. live \in SUBSET Tables
        BY <1>1 DEF Sizes
      <4>2. Rebound(members, m, live, t, k) /\ k \in Keys
        BY <1>2, <1>5, <4>1
      <4>3. QED BY <1>3, <4>1, <4>2, RefsChange
    <3>2. x \in Nat /\ m[t][k] # u
      BY <1>1, <1>5, Distinct, RefsFinite DEF Sizes
    <3> HIDE DEF x
    <3>3. drops[u] + x = Cardinality(Refs(members, live, u))
      BY <1>1, <1>9, <3>1, <3>2
    <3>4. drops[u] + x + R[u] <= ref[u]
      BY <1>1, <1>10, <3>3
    <3>5. QED BY <3>4 DEF x
  <2>2. QED BY <2>1 DEF Covered
<1>12. (\A u \in dead : R[u] = 0) /\ Releasable(m, drops, dead)
  BY <1>1, <1>8, <1>11, Release
<1>13. dead \in SUBSET live
  BY <1>1, <1>8, FreedClosed
<1>14. t \notin dead
  <2>1. R[t] > 0
    BY <1>2, <1>10, HeldSome
  <2>2. QED BY <1>12, <2>1
<1>15. {v} \cap Tables \subseteq kept
  <2>1. SUFFICES ASSUME v \in Tables PROVE v \in live /\ v \notin dead
    OBVIOUS
  <2>2. PICK d \in Cells : cell[d] = v
    BY <2>1
  <2>3. R[v] > 0
    BY <1>10, <2>1, <2>2, HeldSome
  <2>4. QED BY <1>1, <1>12, <2>1, <2>2, <2>3 DEF HeldIsLive
<1>16. /\ Freed(during, drops) = dead
       /\ \A u : Dropped(during, drops, dead, u) = Dropped(m, drops, dead, u)
  <2>1. CASE v = NIL
    BY <1>6, <2>1
  <2>2. CASE v # NIL
    BY <1>1, <1>5, <1>7, <1>8, <1>14, <2>2, FreedSame
  <2>3. QED BY <2>1, <2>2
<1> HIDE DEF dead
<1>17. Exchangeable(during, drops, t, v)
  <2>1. Releasable(during, drops, dead)
    BY <1>12, <1>16 DEF Releasable
  <2>2. {t, v} \cap Tables \subseteq live \ dead
    BY <1>3, <1>14, <1>15
  <2>3. QED BY <1>16, <2>1, <2>2 DEF Exchangeable
<1>18. Exchange(during, drops, after, v) /\ cell' = cell /\ retval' = retval
  BY <1>2, <1>3, <1>17
<1>19. Exchange(m, drops, after, v)
  <2>1. dead = Freed(m, drops)
    BY DEF dead
  <2>2. QED BY <1>16, <1>18, <2>1 DEF Exchange
<1>20. ASSUME NEW u \in Tables
       PROVE  Held(cell', retval', u) + Cardinality(Refs(after, kept, u))
                <= R[u] + Cardinality(Refs(m, kept, u)) + One(v)[u]
  <2> DEFINE x == Cardinality(Refs(members, kept, u))
             y == Cardinality(Refs(m, kept, u))
             z == Cardinality(Refs(after, kept, u))
             w == IF members[t][k] = u THEN 1 ELSE 0
  <2>1. kept \in SUBSET Tables /\ t \in kept
    BY <1>1, <1>3, <1>13, <1>14 DEF Sizes
  <2>2. x \in Nat /\ y \in Nat /\ z \in Nat
    BY <2>1, RefsFinite
  <2>3. y + w = x + (IF m[t][k] = u THEN 1 ELSE 0)
    BY <1>2, <1>5, <2>1, RefsChange
  <2>4. z + w = x + (IF after[t][k] = u THEN 1 ELSE 0)
    BY <1>2, <1>5, <2>1, RefsChange
  <2>5. m[t][k] # u /\ after[t][k] = v
    BY <1>5, Distinct
  <2>6. One(v)[u] = IF v = u THEN 1 ELSE 0
    BY DEF One
  <2>7. w \in Nat
    OBVIOUS
  <2> HIDE DEF x, y, z, w
  <2>8. z = y + One(v)[u]
    BY <2>2, <2>3, <2>4, <2>5, <2>6, <2>7
  <2>9. Held(cell', retval', u) = R[u] /\ R[u] \in Nat
    BY <1>1, <1>10, <1>18
  <2>10. Held(cell', retval', u) + z <= R[u] + y + One(v)[u]
    BY <2>2, <2>6, <2>8, <2>9
  <2>11. QED BY <2>10 DEF y, z
<1>21. cell' \in [Cells -> Value] /\ retval' \in Value
  BY <1>1, <1>18
<1>22. QED BY <1>2, <1>5, <1>8, <1>11, <1>15, <1>19, <1>20, <1>21, ExchangeKeeps DEF dead

-----------------------------------------------------------------------------
(* The instructions that drop none. *)

LEMMA ClearKeeps ==
  ASSUME HeapInv, NEW c \in Cells, Clear(c)
  PROVE  HeapInv'
<1>1. /\ mode' = "run" /\ cell' = [cell EXCEPT ![c] = UNDEF]
      /\ UNCHANGED <<retval, live, ref, members>>
  BY DEF Clear
<1>2. cell \in [Cells -> Value] /\ retval \in Value
  BY InvFacts
<1>3. cell' \in [Cells -> Value]
  BY <1>1, <1>2, Distinct
<1>4. ASSUME NEW u \in Tables PROVE Held(cell', retval', u) <= Held(cell, retval, u)
  <2>1. cell'[c] = UNDEF /\ \A d \in Cells \ {c} : cell'[d] = cell[d]
    BY <1>1, <1>2
  <2>2. Held(cell', retval, u) + (IF cell[c] = u THEN 1 ELSE 0)
          = Held(cell, retval, u) + (IF cell'[c] = u THEN 1 ELSE 0)
    BY <2>1, HeldChange
  <2>3. UNDEF # u /\ Held(cell', retval, u) \in Nat /\ Held(cell, retval, u) \in Nat
    BY Distinct, HeldNat
  <2>4. QED BY <1>1, <2>1, <2>2, <2>3
<1>5. QED BY <1>1, <1>2, <1>3, <1>4, StayKeeps

LEMMA LibScalarKeeps ==
  ASSUME HeapInv, NEW v \in Literals \cup {NIL}, LibScalar(v)
  PROVE  HeapInv'
<1>1. mode' = "run" /\ retval' = v /\ UNCHANGED <<cell, live, ref, members>>
  BY DEF LibScalar
<1>2. cell \in [Cells -> Value] /\ v \in Value /\ v \notin Tables
  <2>1. v \in Value /\ v \notin Tables
    BY HeapAssumption DEF Value
  <2>2. QED BY <2>1, InvFacts
<1>3. ASSUME NEW u \in Tables PROVE Held(cell', retval', u) <= Held(cell, retval, u)
  BY <1>1, <1>2, InFinite DEF Held
<1>4. QED BY <1>1, <1>2, <1>3, StayKeeps

LEMMA DestroyKeeps ==
  ASSUME HeapInv, Destroy
  PROVE  HeapInv'
<1> DEFINE drops == [t \in Tables |-> Cardinality(In(cell, t))]
           R == [t \in Tables |-> IF retval = t THEN 1 ELSE 0]
<1>1. /\ Sizes /\ cell \in [Cells -> Value] /\ retval \in Value
      /\ \A u \in Tables :
           /\ Holders(u) <= ref[u] /\ ref[u] \in Nat
           /\ Holders(u) = Held(cell, retval, u) + Cardinality(Refs(members, live, u))
           /\ Held(cell, retval, u) \in Nat /\ Cardinality(Refs(members, live, u)) \in Nat
  BY InvFacts
<1>2. drops \in Counts /\ R \in Counts
  BY InFinite DEF Counts
<1>3. ASSUME NEW u \in Tables
      PROVE  /\ drops[u] + R[u] = Held(cell, retval, u)
             /\ drops[u] \in Nat /\ R[u] \in Nat
  BY InFinite DEF Held
<1>4. drops = [t \in Tables |-> Cardinality({c \in Cells : cell[c] = t})]
  BY DEF In
<1> HIDE DEF drops, R
<1>5. Covered(members, drops, R)
  <2>1. ASSUME NEW u \in Tables
        PROVE  drops[u] + Cardinality(Refs(members, live, u)) + R[u] <= ref[u]
    BY <1>1, <1>3
  <2>2. QED BY <2>1 DEF Covered
<1>6. Releasable(members, drops, Freed(members, drops))
  BY <1>1, <1>2, <1>5, Release
<1>7. mode' = "done" /\ UNCHANGED <<cell, retval, live, ref, members>>
  BY <1>4, <1>6 DEF Destroy
<1>8. \A u \in Tables : Held(cell', retval', u) <= Held(cell, retval, u)
  BY <1>1, <1>7
<1>9. QED BY <1>1, <1>7, <1>8, StayKeeps

LEMMA NewTableKeeps ==
  ASSUME HeapInv, NEW c \in Cells, NewTable(c)
  PROVE  HeapInv'
<1>1. PICK d \in Tables \ live :
        /\ Acquire({d}, members, One(d))
        /\ cell' = [cell EXCEPT ![c] = d]
  BY DEF NewTable
<1>2. mode = "run" /\ retval' = retval
  BY DEF NewTable
<1>3. /\ live \in SUBSET Tables /\ members \in Maps /\ cell \in [Cells -> Value] /\ retval \in Value
      /\ \A t \in Tables \ live : members[t] = Empty
  BY InvFacts DEF Sizes
<1>4. One(d) \in Counts /\ \A u \in Tables : One(d)[u] = IF d = u THEN 1 ELSE 0
  BY DEF One, Counts
<1>5. cell' \in [Cells -> Value]
  BY <1>1, <1>3 DEF Value
<1>6. ASSUME NEW u \in Tables
      PROVE  Held(cell', retval', u) + Cardinality(Refs(members, live \cup {d}, u))
               <= Holders(u) + One(d)[u]
  <2> DEFINE x == Cardinality(Refs(members, live, u))
             h == Held(cell', retval', u)
             g == Held(cell, retval, u)
  <2>1. Refs(members, live \cup {d}, u) = Refs(members, live, u)
    <3>1. \A k \in Keys : members[d][k] = NIL
      BY <1>3 DEF Empty
    <3>2. \A k \in Keys : members[d][k] # u
      BY <3>1, Distinct
    <3>3. QED BY <3>2 DEF Refs
  <2>2. cell'[c] = d /\ \A e \in Cells \ {c} : cell'[e] = cell[e]
    BY <1>1, <1>3
  <2>3. Held(cell', retval, u) + (IF cell[c] = u THEN 1 ELSE 0)
          = g + (IF cell'[c] = u THEN 1 ELSE 0)
    BY <2>2, HeldChange
  <2>4. h + (IF cell[c] = u THEN 1 ELSE 0) = g + One(d)[u]
    BY <1>2, <1>4, <2>2, <2>3
  <2>5. h \in Nat /\ g \in Nat /\ x \in Nat /\ Holders(u) = g + x
    BY <1>3, HeldNat, RefsFinite, HoldersAre
  <2>6. Cardinality(Refs(members, live \cup {d}, u)) = x
    BY <2>1
  <2> HIDE DEF x, h, g
  <2>7. h + x <= Holders(u) + One(d)[u]
    BY <1>4, <2>4, <2>5
  <2>8. QED BY <2>6, <2>7 DEF h
<1> DEFINE fresh == {d}
           incs == One(d)
<1>7. /\ \A t \in fresh : incs[t] > 0
      /\ \A t \in Tables \ (live \cup fresh) : members[t] = Empty
      /\ fresh \in SUBSET (Tables \ live) /\ incs \in Counts
      /\ members \in Maps /\ Acquire(fresh, members, incs)
  BY <1>1, <1>3, <1>4
<1>8. \A u \in Tables : Held(cell', retval', u) + Cardinality(Refs(members, live \cup fresh, u))
                           <= Holders(u) + incs[u]
  BY <1>6
<1>9. retval' \in Value
  BY <1>2, <1>3
<1> HIDE DEF fresh, incs
<1>10. QED BY <1>2, <1>5, <1>7, <1>8, <1>9, AcquireKeeps

(* A copy of a value that something holds.  *)
LEMMA CopyIntoKeeps ==
  ASSUME HeapInv, mode = "run", NEW c \in Cells, NEW v \in Value, CopyInto(c, v),
         v \in Tables => v \in live
  PROVE  HeapInv'
<1>1. Acquire({}, members, One(v)) /\ cell' = [cell EXCEPT ![c] = v] /\ retval' = retval
  BY DEF CopyInto
<1>2. /\ live \in SUBSET Tables /\ members \in Maps /\ cell \in [Cells -> Value] /\ retval \in Value
      /\ \A t \in Tables \ live : members[t] = Empty
  BY InvFacts DEF Sizes
<1>3. One(v) \in Counts /\ \A u \in Tables : One(v)[u] = IF v = u THEN 1 ELSE 0
  BY DEF One, Counts
<1>4. cell' \in [Cells -> Value]
  BY <1>1, <1>2
<1>5. ASSUME NEW u \in Tables
      PROVE  Held(cell', retval', u) + Cardinality(Refs(members, live \cup {}, u))
               <= Holders(u) + One(v)[u]
  <2> DEFINE x == Cardinality(Refs(members, live, u))
             h == Held(cell', retval', u)
             g == Held(cell, retval, u)
  <2>1. cell'[c] = v /\ \A e \in Cells \ {c} : cell'[e] = cell[e]
    BY <1>1, <1>2
  <2>2. Held(cell', retval, u) + (IF cell[c] = u THEN 1 ELSE 0)
          = g + (IF cell'[c] = u THEN 1 ELSE 0)
    BY <2>1, HeldChange
  <2>3. h + (IF cell[c] = u THEN 1 ELSE 0) = g + One(v)[u]
    BY <1>1, <1>3, <2>1, <2>2
  <2>4. h \in Nat /\ g \in Nat /\ x \in Nat /\ Holders(u) = g + x
    BY <1>2, HeldNat, RefsFinite, HoldersAre
  <2>5. Cardinality(Refs(members, live \cup {}, u)) = x
    OBVIOUS
  <2> HIDE DEF x, h, g
  <2>6. h + x <= Holders(u) + One(v)[u]
    BY <1>3, <2>3, <2>4
  <2>7. QED BY <2>5, <2>6 DEF h
<1> DEFINE fresh == {}
           incs == One(v)
<1>6. /\ \A t \in fresh : incs[t] > 0
      /\ \A t \in Tables \ (live \cup fresh) : members[t] = Empty
      /\ fresh \in SUBSET (Tables \ live) /\ incs \in Counts
      /\ members \in Maps /\ Acquire(fresh, members, incs)
  BY <1>1, <1>2, <1>3
<1>7. \A u \in Tables : Held(cell', retval', u) + Cardinality(Refs(members, live \cup fresh, u))
                           <= Holders(u) + incs[u]
  BY <1>5
<1>8. retval' \in Value
  BY <1>1, <1>2
<1> HIDE DEF fresh, incs
<1>9. QED BY <1>4, <1>6, <1>7, <1>8, AcquireKeeps

LEMMA ArgumentKeeps ==
  ASSUME HeapInv, NEW c \in Cells, Argument(c)
  PROVE  HeapInv'
<1> DEFINE v == cell[c]
<1>1. /\ live \in SUBSET Tables /\ members \in Maps /\ cell \in [Cells -> Value] /\ retval \in Value
      /\ \A t \in Tables \ live : members[t] = Empty
      /\ HeldIsLive
  BY InvFacts DEF Sizes
<1>2. mode = "run" /\ Acquire({}, members, One(v)) /\ retval' = v /\ cell' = cell
  BY <1>1 DEF Argument, HeldIsLive
<1>3. One(v) \in Counts /\ \A u \in Tables : One(v)[u] = IF v = u THEN 1 ELSE 0
  BY DEF One, Counts
<1>4. cell' \in [Cells -> Value] /\ retval' \in Value
  BY <1>1, <1>2
<1>5. ASSUME NEW u \in Tables
      PROVE  Held(cell', retval', u) + Cardinality(Refs(members, live \cup {}, u))
               <= Holders(u) + One(v)[u]
  <2> DEFINE x == Cardinality(Refs(members, live, u))
             i == Cardinality(In(cell, u))
  <2>1. Held(cell, retval, u) = i + (IF retval = u THEN 1 ELSE 0) /\ Held(cell', retval', u) = i + One(v)[u]
    BY <1>2, <1>3 DEF Held
  <2>2. i \in Nat /\ x \in Nat /\ Holders(u) = Held(cell, retval, u) + x
    BY <1>1, InFinite, RefsFinite, HoldersAre
  <2>3. Cardinality(Refs(members, live \cup {}, u)) = x
    OBVIOUS
  <2> HIDE DEF x, i
  <2>4. Held(cell', retval', u) + x <= Holders(u) + One(v)[u]
    BY <1>3, <2>1, <2>2
  <2>5. QED BY <2>3, <2>4
<1> DEFINE fresh == {}
           incs == One(v)
<1>6. /\ \A t \in fresh : incs[t] > 0
      /\ \A t \in Tables \ (live \cup fresh) : members[t] = Empty
      /\ fresh \in SUBSET (Tables \ live) /\ incs \in Counts
      /\ members \in Maps /\ Acquire(fresh, members, incs)
  BY <1>1, <1>2, <1>3
<1>7. \A u \in Tables : Held(cell', retval', u) + Cardinality(Refs(members, live \cup fresh, u))
                           <= Holders(u) + incs[u]
  BY <1>5
<1> HIDE DEF fresh, incs, v
<1>8. QED BY <1>2, <1>4, <1>6, <1>7, AcquireKeeps

(* A fresh table in the result register. *)
LEMMA BuildKeeps ==
  ASSUME HeapInv, mode = "run", NEW d \in Tables \ live, NEW m \in [Keys -> Value], Build(d, m),
         (\E k \in Keys : m[k] \in Tables \ (live \cup {d})) => DeadKey
  PROVE  HeapInv'
<1> DEFINE n == [members EXCEPT ![d] = m]
           K(u) == {k \in Keys : m[k] = u}
           incs == [t \in Tables |-> Cardinality(K(t)) + One(d)[t]]
           fresh == {d}
<1>1. /\ live \in SUBSET Tables /\ members \in Maps /\ cell \in [Cells -> Value] /\ retval \in Value
      /\ \A t \in Tables \ live : members[t] = Empty
  BY InvFacts DEF Sizes
<1>2. CASE Crash /\ \E k \in Keys : m[k] \in Tables \ (live \cup {d})
  BY <1>2, CrashKeeps
<1>3. CASE Acquire({d}, n, incs) /\ retval' = d /\ UNCHANGED cell
  <2>1. /\ n \in Maps /\ n[d] = m /\ \A t \in Tables \ {d} : n[t] = members[t]
    BY <1>1 DEF Maps
  <2> HIDE DEF n
  <2>2. ASSUME NEW u
        PROVE  /\ IsFiniteSet(K(u)) /\ Cardinality(K(u)) \in Nat
               /\ Cardinality(Refs(n, {d}, u)) = Cardinality(K(u))
    <3>1. K(u) \in SUBSET Keys
      OBVIOUS
    <3>2. IsFiniteSet(K(u)) /\ Cardinality(K(u)) \in Nat
      BY <3>1, HeapAssumption, FS_Subset, FS_CardinalityType
    <3>3. IsFiniteSet({d}) /\ Cardinality({d}) = 1
      BY FS_Singleton
    <3>4. Refs(n, {d}, u) = {d} \X K(u)
      BY <2>1 DEF Refs
    <3> DEFINE x == Cardinality(K(u))
    <3>5. Cardinality({d} \X K(u)) = Cardinality({d}) * x
      BY <3>2, <3>3, FS_Product
    <3>6. Cardinality(Refs(n, {d}, u)) = 1 * x
      BY <3>3, <3>4, <3>5
    <3>7. IsFiniteSet(K(u)) /\ x \in Nat
      BY <3>2
    <3> HIDE DEF x
    <3>8. Cardinality(Refs(n, {d}, u)) = x
      BY <3>6, <3>7
    <3>9. QED BY <3>7, <3>8 DEF x
  <2>3. ASSUME NEW u \in Tables
        PROVE  /\ One(d)[u] = (IF d = u THEN 1 ELSE 0)
               /\ incs[u] = Cardinality(Refs(n, {d}, u)) + One(d)[u] /\ incs[u] \in Nat
    <3>1. One(d)[u] = (IF d = u THEN 1 ELSE 0)
      BY DEF One
    <3>2. incs[u] = Cardinality(K(u)) + One(d)[u]
      OBVIOUS
    <3>3. Cardinality(K(u)) \in Nat /\ Cardinality(Refs(n, {d}, u)) = Cardinality(K(u))
      BY <2>2
    <3> HIDE DEF K, incs
    <3>4. QED BY <3>1, <3>2, <3>3
  <2>4. incs \in Counts
    BY <2>3 DEF Counts
  <2> HIDE DEF K
  <2>5. ASSUME NEW u \in Tables
        PROVE  Held(cell', retval', u) + Cardinality(Refs(n, live \cup fresh, u))
                 <= Holders(u) + incs[u]
    <3> DEFINE x == Cardinality(Refs(members, live, u))
               y == Cardinality(Refs(n, {d}, u))
               z == Cardinality(Refs(n, live \cup fresh, u))
               i == Cardinality(In(cell, u))
    <3>1. Refs(n, live, u) = Refs(members, live, u)
      BY <1>1, <2>1 DEF Refs
    <3>2. /\ live \cup fresh \in SUBSET Tables /\ live \in SUBSET (live \cup fresh)
          /\ (live \cup fresh) \ live = {d}
      BY <1>1
    <3>3. z = x + y
      BY <3>1, <3>2, RefsSplit
    <3>4. /\ Held(cell, retval, u) = i + (IF retval = u THEN 1 ELSE 0)
          /\ Held(cell', retval', u) = i + (IF d = u THEN 1 ELSE 0)
      BY <1>3 DEF Held
    <3>5. /\ i \in Nat /\ x \in Nat /\ y \in Nat
          /\ Holders(u) = Held(cell, retval, u) + x
      <4>1. {d} \in SUBSET Tables
        OBVIOUS
      <4>2. QED BY <1>1, <4>1, InFinite, RefsFinite, HoldersAre
    <3>6. incs[u] = y + (IF d = u THEN 1 ELSE 0)
      BY <2>3
    <3> HIDE DEF x, y, z, i, incs
    <3>7. Held(cell', retval', u) + z <= Holders(u) + incs[u]
      BY <3>3, <3>4, <3>5, <3>6
    <3>8. QED BY <3>7 DEF z
  <2>6. /\ \A t \in fresh : incs[t] > 0
        /\ \A t \in Tables \ (live \cup fresh) : n[t] = Empty
        /\ fresh \in SUBSET (Tables \ live) /\ Acquire(fresh, n, incs)
        /\ cell' \in [Cells -> Value] /\ retval' \in Value
    <3>1. incs[d] > 0
      <4>1. incs[d] = Cardinality(Refs(n, {d}, d)) + 1 /\ {d} \in SUBSET Tables
        BY <2>3
      <4>2. Cardinality(Refs(n, {d}, d)) \in Nat
        BY <4>1, RefsFinite
      <4> HIDE DEF incs
      <4>3. QED BY <4>1, <4>2
    <3> HIDE DEF incs
    <3>2. QED BY <1>1, <1>3, <2>1, <3>1 DEF Value
  <2> HIDE DEF fresh, incs
  <2>7. QED BY <2>1, <2>4, <2>5, <2>6, AcquireKeeps
<1>4. QED BY <1>2, <1>3 DEF Build

LEMMA ObjectCopyKeeps ==
  ASSUME HeapInv, NEW c \in Cells, ObjectCopy(c)
  PROVE  HeapInv'
<1> DEFINE t == cell[c]
<1>1. t \in live /\ members[t] \in [Keys -> Value] /\ HeldIsLive
  BY InvFacts DEF ObjectCopy, HeldIsLive, Maps, Sizes
<1>2. PICK d \in Tables \ live : Build(d, members[t])
  BY <1>1 DEF ObjectCopy
<1>3. mode = "run"
  BY DEF ObjectCopy
<1>4. ~\E k \in Keys : members[t][k] \in Tables \ (live \cup {d})
  BY <1>1 DEF HeldIsLive
<1>5. QED BY <1>1, <1>2, <1>3, <1>4, BuildKeeps

LEMMA ObjectMemberKeysKeeps ==
  ASSUME HeapInv, NEW c \in Cells, ObjectMemberKeys(c)
  PROVE  HeapInv'
<1> DEFINE t == cell[c]
           keys == Bound(t)
           index == 0 .. Cardinality(keys) - 1
           listed(order) == [k \in Keys |-> IF k \in index THEN order[k] ELSE NIL]
<1>1. t \in live /\ mode = "run" /\ keys \in SUBSET Keys
  BY InvFacts DEF ObjectMemberKeys, HeldIsLive, Bound
<1>2. PICK d \in Tables \ live, order \in [index -> keys] : Build(d, listed(order))
  BY <1>1 DEF ObjectMemberKeys
<1> HIDE DEF keys, index
<1>3. listed(order) \in [Keys -> Value]
  BY <1>1, <1>2, Distinct
<1>4. ASSUME NEW k \in Keys, listed(order)[k] \in Tables \ (live \cup {d})
      PROVE  DeadKey
  <2>1. k \in index
    BY <1>4, Distinct
  <2>2. order[k] \in keys /\ order[k] \in Tables \ live
    BY <1>2, <1>4, <2>1
  <2>3. QED BY <1>1, <2>2 DEF DeadKey, keys
<1> HIDE DEF listed
<1>5. QED BY <1>1, <1>2, <1>3, <1>4, BuildKeeps

(* All that is reached by values is live: print needs a key to leave it. *)
LEMMA PrintFreedKeeps ==
  ASSUME HeapInv, NEW c \in Cells, PrintFreed(c)
  PROVE  HeapInv'
<1>1. /\ live \in SUBSET Tables /\ HeldIsLive /\ Crash
      /\ cell[c] \in live /\ ~(Visited(cell[c]) \subseteq live)
  BY InvFacts DEF PrintFreed, HeldIsLive, Sizes
<1>2. ASSUME ~DeadKey PROVE FALSE
  <2>1. ASSUME NEW x \in Contents(live), x \in Tables PROVE x \in live
    <3>1. PICK t \in live : x \in Bound(t) \cup {members[t][k] : k \in Bound(t)}
      BY DEF Contents
    <3>2. CASE x \in Bound(t)
      BY <1>2, <2>1, <3>2 DEF DeadKey
    <3>3. CASE \E k \in Bound(t) : x = members[t][k]
      BY <1>1, <2>1, <3>3 DEF HeldIsLive, Bound
    <3>4. QED BY <3>1, <3>2, <3>3
  <2>2. live \cap live = live
    OBVIOUS
  <2>3. cell[c] \in live /\ Contents(live \cap live) \cap Tables \subseteq live
    BY <1>1, <2>1, <2>2
  <2>4. Visited(cell[c]) \subseteq live
    BY <1>1, <2>3 DEF Visited
  <2>5. QED BY <1>1, <2>4
<1>3. QED BY <1>1, <1>2, CrashKeeps

-----------------------------------------------------------------------------
(* Every step. *)

LEMMA InitInv == Init => HeapInv
<1> SUFFICES ASSUME Init PROVE HeapInv
  OBVIOUS
<1>1. TypeOK
  BY Distinct DEF Init, TypeOK, None, Empty
<1>2. ASSUME NEW u \in Tables PROVE Holders(u) <= ref[u]
  <2>1. UNDEF # u
    BY Distinct
  <2>2. In(cell, u) = {} /\ retval # u /\ Refs(members, live, u) = {}
    BY <2>1 DEF Init, In, Refs
  <2>3. Held(cell, retval, u) = 0 /\ Cardinality(Refs(members, live, u)) = 0
    BY <2>2, FS_EmptySet DEF Held
  <2>4. live \in SUBSET Tables /\ ref[u] = 0
    BY DEF Init, None
  <2>5. QED BY <2>3, <2>4, HoldersAre
<1>3. CrashNeedsDeadKey
  BY DEF Init, CrashNeedsDeadKey
<1>4. QED BY <1>1, <1>2, <1>3 DEF HeapInv, Cover

LEMMA NextInv == HeapInv /\ [Next]_vars => HeapInv'
<1> SUFFICES ASSUME HeapInv, [Next]_vars PROVE HeapInv'
  OBVIOUS
<1>1. /\ cell \in [Cells -> Value] /\ retval \in Value /\ members \in Maps /\ HeldIsLive
      /\ live \in SUBSET Tables
  BY InvFacts DEF Sizes
<1>2. ASSUME NEW v, Operand(v)
      PROVE  v \in Value /\ (v \in Tables => \E d \in Cells : cell[d] = v)
  BY <1>1, <1>2, HeapAssumption DEF Operand, Value
<1>3. CASE UNCHANGED vars
  <2>1. TypeOK'
    BY <1>3 DEF HeapInv, TypeOK, vars
  <2>2. Cover' /\ CrashNeedsDeadKey'
    BY <1>3 DEF HeapInv, Cover, Holders, CrashNeedsDeadKey, Bound, vars
  <2>3. QED BY <2>1, <2>2 DEF HeapInv
<1>4. ASSUME NEW c \in Cells, NewTable(c) PROVE HeapInv'
  BY <1>4, NewTableKeeps
<1>5. ASSUME NEW c \in Cells, GetRet(c) PROVE HeapInv'
  <2>1. mode = "run" /\ CopyInto(c, retval)
    BY <1>5 DEF GetRet
  <2>2. retval \in Tables => retval \in live
    BY <1>1 DEF HeldIsLive
  <2>3. QED BY <1>1, <2>1, <2>2, CopyIntoKeeps
<1>6. ASSUME NEW c \in Cells, NEW d \in Cells, PushArg(c, d) PROVE HeapInv'
  <2>1. mode = "run" /\ CopyInto(c, cell[d]) /\ cell[d] \in Value
    BY <1>1, <1>6 DEF PushArg
  <2>2. cell[d] \in Tables => cell[d] \in live
    BY <1>1 DEF HeldIsLive
  <2>3. QED BY <2>1, <2>2, CopyIntoKeeps
<1>7. ASSUME NEW c \in Cells, NEW d \in Cells, NEW k \in Value, GetElem(c, d, k) PROVE HeapInv'
  <2> DEFINE v == IF k \in Keys THEN members[cell[d]][k] ELSE NIL
  <2>1. cell[d] \in live /\ mode = "run" /\ cell[d] \in Tables
    BY <1>1, <1>7 DEF GetElem, HeldIsLive
  <2>2. CopyInto(c, v)
    BY <1>7, <2>1 DEF GetElem
  <2>3. v \in Value /\ (v \in Tables => v \in live)
    <3>1. CASE k \in Keys
      BY <1>1, <2>1, <3>1 DEF HeldIsLive, Maps
    <3>2. CASE k \notin Keys
      BY <3>2, Distinct
    <3>3. QED BY <3>1, <3>2
  <2> HIDE DEF v
  <2>4. QED BY <2>1, <2>2, <2>3, CopyIntoKeeps
<1>8. ASSUME NEW c \in Cells, NEW v \in Literals \cup {NIL}, Assign(c, v) PROVE HeapInv'
  <2>1. v \in Value /\ v \notin Tables
    BY HeapAssumption DEF Value
  <2>2. QED BY <1>8, <2>1, AssignKeeps
<1>9. ASSUME NEW c \in Cells, NEW d \in Cells, c # d, Assign(c, cell[d]) PROVE HeapInv'
  <2>1. cell[d] \in Value /\ d \in Cells \ {c}
    BY <1>1, <1>9
  <2>2. QED BY <1>9, <2>1, AssignKeeps
<1>10. ASSUME NEW c \in Cells, NEW k \in Value, NEW v \in Value, Operand(v), SetElem(c, k, v)
       PROVE  HeapInv'
  BY <1>2, <1>10, SetElemKeeps
<1>11. ASSUME NEW v \in Value, Operand(v), Return(v) PROVE HeapInv'
  BY <1>2, <1>11, ReturnKeeps
<1>12. QED
  BY <1>3, <1>4, <1>5, <1>6, <1>7, <1>8, <1>9, <1>10, <1>11, ClearKeeps, ArgumentKeeps,
     LibScalarKeeps, ObjectCopyKeeps, ObjectMemberKeysKeeps, PrintFreedKeeps, DestroyKeeps
  DEF Next

LEMMA AlwaysInv == Spec => []HeapInv
<1>1. QED BY InitInv, NextInv, PTL DEF Spec

-----------------------------------------------------------------------------
(* Type correctness: a table is counted exactly while it is allocated.  *)
THEOREM HeapTypeCorrect == Spec => []TypeOK
<1>1. HeapInv => TypeOK
  BY DEF HeapInv
<1>2. QED BY <1>1, AlwaysInv, PTL

(* No count is ever below the number of cells, values and result that name  *)
(* its table: of everything the instructions of vm.c forget, nothing is     *)
(* forgotten on the side of counting.                                       *)
THEOREM CountsAreCovered == Spec => []CountsCover
<1>1. HeapInv => CountsCover
  BY CoverIsBoth DEF HeapInv
<1>2. QED BY <1>1, AlwaysInv, PTL

(* free_bucket_chain and avm_table_dec_ref never free a table that a cell,  *)
(* the result register or a value of a live table still names.              *)
THEOREM HeldTablesAreLive == Spec => []HeldIsLive
<1>1. HeapInv => HeldIsLive
  BY CoverIsBoth DEF HeapInv
<1>2. QED BY <1>1, AlwaysInv, PTL

(* The machine touches a freed table only when a live one has it as a key:  *)
(* avm_table_set counts the values it binds, never the keys.                *)
THEOREM TouchedOnlyThroughKeys == Spec => []CrashNeedsDeadKey
<1>1. HeapInv => CrashNeedsDeadKey
  BY DEF HeapInv
<1>2. QED BY <1>1, AlwaysInv, PTL

-----------------------------------------------------------------------------
(***************************************************************************)
(* AvmHeap implements ObjectStore: the counts are counts of something the  *)
(* program never sees.  Every step of the machine is a step of the store   *)
(* or changes nothing, for any number of tables, cells, keys and counts.   *)
(***************************************************************************)

Objs == [t \in live |-> members[t]]

(* What the invariant gives before and after a step. *)
LEMMA StoreFacts ==
  HeapInv => /\ live \subseteq Tables /\ members \in Maps /\ HeldIsLive
             /\ cell \in [Cells -> Value] /\ retval \in Value
             /\ \A t \in Tables \ live : members[t] = Empty
             /\ mode = "use_after_free" => DeadKey
BY InvFacts DEF Sizes, HeapInv, CrashNeedsDeadKey, DeadKey

LEMMA StoreFactsAfter ==
  (HeapInv => /\ live \subseteq Tables /\ members \in Maps /\ HeldIsLive
              /\ cell \in [Cells -> Value] /\ retval \in Value
              /\ \A t \in Tables \ live : members[t] = Empty
              /\ mode = "use_after_free" => DeadKey)'
BY StoreFacts, PTL

(* What is held after the step exists after the step, so the objects may    *)
(* become o, less those that were freed.                                    *)
LEMMA ObjectsBecome ==
  ASSUME HeapInv', mode' = mode, NEW D \in SUBSET Tables, NEW o, DOMAIN o = D,
         live' \subseteq D, \A t \in live' : members'[t] = o[t]
  PROVE  Store!Become(o)
<1>1. HeldIsLive'
  BY StoreFactsAfter
<1>2. ({cell'[c] : c \in Cells} \cup {retval'}) \cap DOMAIN o \subseteq live'
  <2>1. ASSUME NEW x \in D, x \in {cell'[c] : c \in Cells} \cup {retval'}
        PROVE  x \in live'
    BY <1>1, <2>1 DEF HeldIsLive
  <2>2. QED BY <2>1
<1>3. ASSUME NEW t \in live', NEW k \in Keys, o[t][k] \in DOMAIN o
      PROVE  o[t][k] \in live'
  <2>1. o[t][k] = members'[t][k] /\ o[t][k] \in Tables
    BY <1>3
  <2>2. QED BY <1>1, <2>1 DEF HeldIsLive
<1>4. Store!Keeps(live', o)
  BY <1>2, <1>3 DEF Store!Keeps
<1>5. Objs' = [t \in live' |-> o[t]]
  BY DEF Objs
<1>6. live' \in SUBSET DOMAIN o
  OBVIOUS
<1>7. QED BY <1>4, <1>5, <1>6 DEF Store!Become, Objs

(* A step after which the tables that are left hold what they held.         *)
LEMMA ObjectsStay ==
  ASSUME HeapInv, HeapInv', mode' = mode, live' \subseteq live,
         \A t \in live' : members'[t] = members[t]
  PROVE  Store!Become(Objs)
<1>1. PICK D, o : D = live /\ o = Objs
  OBVIOUS
<1>2. D \in SUBSET Tables /\ DOMAIN o = D /\ live' \subseteq D
  BY <1>1, StoreFacts DEF Objs
<1>3. \A t \in live' : members'[t] = o[t]
  BY <1>1, <1>2 DEF Objs
<1>4. Store!Become(o)
  BY <1>2, <1>3, ObjectsBecome
<1>5. QED BY <1>1, <1>4 DEF Store!Become, Store!Keeps

(* Steps that move a value the program has, and steps that touch freed      *)
(* memory.                                                                  *)
LEMMA MapsToMove ==
  ASSUME HeapInv, HeapInv', mode = "run", mode' = "run", Store!Move, live' \subseteq live,
         \A t \in live' : members'[t] = members[t]
  PROVE  Store!Next
<1>1. Store!Become(Objs)
  BY ObjectsStay
<1>2. QED BY <1>1 DEF Store!Next, Objs

LEMMA MapsToLost ==
  ASSUME HeapInv, HeapInv', mode = "run", Crash
  PROVE  Store!Next
<1>1. DeadKey
  <2>1. DeadKey'
    BY StoreFactsAfter DEF Crash
  <2>2. QED BY <2>1 DEF DeadKey, Bound, Crash
<1>2. PICK t \in live : \E k \in Keys : members[t][k] # NIL /\ k \in Tables \ live
  BY <1>1 DEF DeadKey, Bound
<1>3. Objs' = Objs /\ DOMAIN Objs = live /\ Objs[t] = members[t]
  BY DEF Objs, Crash
<1>4. Store!Lost
  BY <1>2, <1>3 DEF Store!Lost, Store!Existing, Objs, Crash
<1>5. QED BY <1>4 DEF Store!Next

(* The register or a cell takes an operand. *)
LEMMA Operands ==
  ASSUME NEW v, v \in Literals \cup {NIL, UNDEF} \/ v = retval \/ \E c \in Cells : v = cell[c]
  PROVE  v \in Store!Named
BY HeapAssumption DEF Store!Named

LEMMA CellTakes ==
  ASSUME NEW c \in Cells, NEW v \in Store!Named, cell' = [cell EXCEPT ![c] = v], retval' = retval
  PROVE  Store!Move
BY DEF Store!Move

LEMMA RegisterTakes ==
  ASSUME NEW v \in Store!Named, retval' = v, cell' = cell
  PROVE  Store!Move
BY DEF Store!Move

-----------------------------------------------------------------------------
(* One lemma per instruction and library function. *)

LEMMA NewTableStep ==
  ASSUME HeapInv, HeapInv', NEW c \in Cells, NewTable(c)
  PROVE  Store!Next
<1>1. PICK d \in Tables \ live : Acquire({d}, members, One(d)) /\ cell' = [cell EXCEPT ![c] = d]
  BY DEF NewTable
<1>2. mode = "run" /\ mode' = mode /\ retval' = retval /\ live' = live \cup {d} /\ members' = members
  BY <1>1 DEF NewTable, Acquire
<1>0. PICK D, o : D = live \cup {d} /\ o = Store!With(d, [k \in Keys |-> NIL])
  OBVIOUS
<1>3. DOMAIN o = D /\ o[d] = [k \in Keys |-> NIL] /\ \A t \in live : o[t] = members[t]
  BY <1>0 DEF Store!With, Store!Existing
<1>4. members[d] = [k \in Keys |-> NIL]
  BY StoreFacts DEF Empty
<1>5. D \in SUBSET Tables /\ live' \subseteq D
  BY <1>0, <1>2, StoreFacts
<1>6. \A t \in live' : members'[t] = o[t]
  BY <1>2, <1>3, <1>4
<1>7. Store!Become(o)
  BY <1>2, <1>3, <1>5, <1>6, ObjectsBecome
<1>8. d \in Tables \ Store!Existing
  BY DEF Store!Existing
<1>9. Store!New(c)
  <2>1. Store!Become(Store!With(d, [k \in Keys |-> NIL]))
    BY <1>0, <1>7 DEF Store!Become, Store!Keeps
  <2>2. QED BY <1>1, <1>2, <1>8, <2>1 DEF Store!New
<1>10. QED BY <1>2, <1>9 DEF Store!Next

LEMMA CopyIntoStep ==
  ASSUME HeapInv, HeapInv', mode = "run", NEW c \in Cells, NEW v \in Store!Named, CopyInto(c, v)
  PROVE  Store!Next
<1>1. CASE Crash
  BY <1>1, MapsToLost
<1>2. CASE Acquire({}, members, One(v)) /\ cell' = [cell EXCEPT ![c] = v] /\ UNCHANGED retval
  <2>1. mode' = "run" /\ live' \subseteq live /\ members' = members
    BY <1>2 DEF Acquire
  <2>2. Store!Move
    BY <1>2, CellTakes
  <2>3. QED BY <2>1, <2>2, MapsToMove
<1>3. QED BY <1>1, <1>2 DEF CopyInto

LEMMA GetElemStep ==
  ASSUME HeapInv, HeapInv', NEW c \in Cells, NEW d \in Cells, NEW k, GetElem(c, d, k)
  PROVE  Store!Next
<1> DEFINE t == cell[d]
           v == members[t][k]
<1>1. mode = "run" /\ t \in Tables
  BY DEF GetElem
<1>2. CASE t \notin live
  BY <1>1, <1>2, MapsToLost DEF GetElem
<1>3. CASE t \in live /\ k \notin Keys
  <2>1. CopyInto(c, NIL) /\ NIL \in Store!Named
    BY <1>3, Operands DEF GetElem
  <2>2. QED BY <1>1, <2>1, CopyIntoStep
<1>4. CASE t \in live /\ k \in Keys
  <2>1. CopyInto(c, v)
    BY <1>4 DEF GetElem
  <2>2. CASE Crash
    BY <1>1, <2>2, MapsToLost
  <2>3. CASE Acquire({}, members, One(v)) /\ cell' = [cell EXCEPT ![c] = v] /\ UNCHANGED retval
    <3>1. mode' = "run" /\ live' \subseteq live /\ members' = members
      BY <1>1, <2>3 DEF Acquire
    <3>2. Store!Become(Objs)
      BY <1>1, <3>1, ObjectsStay
    <3>3. Objs[t] = members[t] /\ t \in Store!Existing
      BY <1>4 DEF Objs, Store!Existing
    <3>4. cell' = [cell EXCEPT ![c] = Objs[cell[d]][k]]
      BY <2>3, <3>3
    <3>5. Store!Get(c, d, k)
      BY <2>3, <3>2, <3>3, <3>4 DEF Store!Get, Objs
    <3>6. QED BY <1>1, <1>4, <3>5 DEF Store!Next
  <2>4. QED BY <2>1, <2>2, <2>3 DEF CopyInto
<1>5. QED BY <1>2, <1>3, <1>4

LEMMA AssignStep ==
  ASSUME HeapInv, HeapInv', NEW c \in Cells, NEW v \in Store!Named, Assign(c, v)
  PROVE  Store!Next
<1>1. mode = "run"
  BY DEF Assign
<1>2. CASE Crash
  BY <1>1, <1>2, MapsToLost
<1>3. CASE /\ Exchange(members, One(cell[c]), members, v)
           /\ cell' = [cell EXCEPT ![c] = v] /\ retval' = retval
  <2>1. mode' = "run" /\ live' \subseteq live /\ \A t \in live' : members'[t] = members[t]
    BY <1>1, <1>3, StoreFacts DEF Exchange
  <2>2. Store!Move
    BY <1>3, CellTakes
  <2>3. QED BY <1>1, <2>1, <2>2, MapsToMove
<1>4. QED BY <1>2, <1>3 DEF Assign

LEMMA ReturnStep ==
  ASSUME HeapInv, HeapInv', NEW v \in Store!Named, Return(v)
  PROVE  Store!Next
<1>1. mode = "run"
  BY DEF Return
<1>2. CASE Crash
  BY <1>1, <1>2, MapsToLost
<1>3. CASE Exchange(members, One(retval), members, v) /\ retval' = v /\ cell' = cell
  <2>1. mode' = "run" /\ live' \subseteq live /\ \A t \in live' : members'[t] = members[t]
    BY <1>1, <1>3, StoreFacts DEF Exchange
  <2>2. Store!Move
    BY <1>3, RegisterTakes
  <2>3. QED BY <1>1, <2>1, <2>2, MapsToMove
<1>4. QED BY <1>2, <1>3 DEF Return

LEMMA SetElemStep ==
  ASSUME HeapInv, HeapInv', NEW c \in Cells, NEW k, NEW v \in Store!Named, SetElem(c, k, v)
  PROVE  Store!Next
<1> DEFINE t == cell[c]
           drops == One(members[t][k])
           after == [members EXCEPT ![t][k] = v]
           during == IF v = NIL THEN after ELSE members
<1>1. mode = "run" /\ k \in Keys
  BY DEF SetElem
<1>2. CASE Crash
  BY <1>1, <1>2, MapsToLost
<1>3. CASE t \in live /\ Exchange(during, drops, after, v) /\ UNCHANGED <<cell, retval>>
  <2>1. PICK D, o : D = live /\ o = [Objs EXCEPT ![t][k] = v]
    OBVIOUS
  <2>2. D \in SUBSET Tables /\ DOMAIN o = D
    BY <2>1, StoreFacts DEF Objs
  <2>3. \A u \in live : o[u] = after[u]
    <3>1. t \in Tables /\ members \in Maps /\ live \subseteq Tables
      BY <1>3, StoreFacts
    <3>2. members[t] \in [Keys -> Value] /\ Objs[t] = members[t]
      BY <1>3, <3>1 DEF Maps, Objs
    <3>3. after[t] = [members[t] EXCEPT ![k] = v] /\ \A u \in live : u # t => after[u] = members[u]
      BY <3>1 DEF Maps
    <3>4. o[t] = [members[t] EXCEPT ![k] = v] /\ \A u \in live : u # t => o[u] = members[u]
      BY <1>3, <2>1, <3>2 DEF Objs
    <3>5. QED BY <3>3, <3>4
  <2> HIDE DEF after, during, drops
  <2>4. mode' = mode /\ live' \subseteq live /\ \A u \in live' : members'[u] = after[u]
    BY <1>3, StoreFacts DEF Exchange
  <2>5. Store!Become(o)
    BY <2>1, <2>2, <2>3, <2>4, ObjectsBecome
  <2>6. Store!Become([Objs EXCEPT ![t][k] = v])
    BY <2>1, <2>5 DEF Store!Become, Store!Keeps
  <2>7. t \in Store!Existing
    BY <1>3 DEF Store!Existing
  <2>8. Store!Set(c, k, v)
    BY <1>3, <2>6, <2>7 DEF Store!Set, Objs
  <2>9. QED BY <1>1, <2>8 DEF Store!Next
<1>4. QED BY <1>2, <1>3 DEF SetElem

(* A fresh object in the result register. *)
LEMMA BuildStep ==
  ASSUME HeapInv, HeapInv', mode = "run", NEW d \in Tables \ live, NEW m \in [Keys -> Value],
         Build(d, m)
  PROVE  \/ Store!Next
         \/ /\ retval' = d /\ d \in Tables \ Store!Existing /\ UNCHANGED cell
            /\ Store!Become(Store!With(d, m))
<1> DEFINE n == [members EXCEPT ![d] = m]
<1>1. CASE Crash
  BY <1>1, MapsToLost
<1>2. ASSUME NEW incs, Acquire({d}, n, incs), retval' = d, UNCHANGED cell
      PROVE  /\ d \in Tables \ Store!Existing
             /\ Store!Become(Store!With(d, m))
  <2>1. PICK D, o : D = live \cup {d} /\ o = Store!With(d, m)
    OBVIOUS
  <2>2. DOMAIN o = D /\ o[d] = m /\ \A t \in live : o[t] = members[t]
    BY <2>1 DEF Store!With, Store!Existing
  <2>3. n[d] = m /\ \A t \in live : n[t] = members[t]
    BY StoreFacts DEF Maps
  <2> HIDE DEF n
  <2>4. mode' = mode /\ live' = D /\ members' = n /\ D \in SUBSET Tables
    BY <1>2, <2>1, StoreFacts DEF Acquire
  <2>5. \A t \in live' : members'[t] = o[t]
    BY <2>1, <2>2, <2>3, <2>4
  <2>6. Store!Become(o)
    BY <2>2, <2>4, <2>5, ObjectsBecome
  <2>7. Store!Become(Store!With(d, m))
    BY <2>1, <2>6 DEF Store!Become, Store!Keeps
  <2>8. QED BY <2>7 DEF Store!Existing
<1>3. QED BY <1>1, <1>2 DEF Build

LEMMA ObjectCopyStep ==
  ASSUME HeapInv, HeapInv', NEW c \in Cells, ObjectCopy(c)
  PROVE  Store!Next
<1> DEFINE t == cell[c]
<1>1. mode = "run" /\ t \in Tables
  BY DEF ObjectCopy
<1>2. CASE t \notin live
  BY <1>1, <1>2, MapsToLost DEF ObjectCopy
<1>3. CASE t \in live
  <2>1. PICK d \in Tables \ live : Build(d, members[t])
    BY <1>3 DEF ObjectCopy
  <2>2. PICK m : m = members[t]
    OBVIOUS
  <2>3. m \in [Keys -> Value] /\ Build(d, m)
    BY <1>3, <2>1, <2>2, StoreFacts DEF Maps
  <2>4. SUFFICES ASSUME retval' = d, d \in Tables \ Store!Existing, UNCHANGED cell,
                        Store!Become(Store!With(d, m))
                 PROVE  Store!Next
    BY <1>1, <2>3, BuildStep
  <2>5. Objs[t] = m /\ t \in Store!Existing
    BY <1>3, <2>2 DEF Objs, Store!Existing
  <2>6. Store!Become(Store!With(retval', Objs[cell[c]]))
    <3>1. PICK o : o = Store!With(d, m)
      OBVIOUS
    <3>2. o = Store!With(retval', Objs[cell[c]])
      BY <2>4, <2>5, <3>1 DEF Store!With
    <3>3. Store!Become(o)
      BY <2>4, <3>1 DEF Store!Become, Store!Keeps
    <3>4. QED BY <3>2, <3>3 DEF Store!Become, Store!Keeps
  <2>7. Store!Copy(c)
    BY <2>4, <2>5, <2>6 DEF Store!Copy, Objs
  <2>8. QED BY <1>1, <2>7 DEF Store!Next
<1>4. QED BY <1>2, <1>3

LEMMA SizesAgree == ASSUME NEW S PROVE Store!Cardinality(S) = Cardinality(S)
BY DEF Store!Cardinality, Cardinality

LEMMA ObjectMemberKeysStep ==
  ASSUME HeapInv, HeapInv', NEW c \in Cells, ObjectMemberKeys(c)
  PROVE  Store!Next
<1> DEFINE t == cell[c]
           keys == Bound(t)
           index == 0 .. Cardinality(keys) - 1
           listed(order) == [k \in Keys |-> IF k \in index THEN order[k] ELSE NIL]
<1>1. mode = "run" /\ t \in Tables
  BY DEF ObjectMemberKeys
<1>2. CASE t \notin live
  BY <1>1, <1>2, MapsToLost DEF ObjectMemberKeys
<1>3. CASE t \in live
  <2>1. PICK d \in Tables \ live, order \in [index -> keys] :
          /\ \A k \in keys : \E i \in index : order[i] = k
          /\ Build(d, listed(order))
    BY <1>3 DEF ObjectMemberKeys
  <2>2. keys = Store!BoundKeys(cell[c]) /\ t \in Store!Existing /\ keys \subseteq Keys
    BY <1>3 DEF Bound, Store!BoundKeys, Store!Existing
  <2> HIDE DEF keys
  <2>3. PICK m : m = listed(order)
    OBVIOUS
  <2>4. m \in [Keys -> Value] /\ Build(d, m)
    BY <2>1, <2>2, <2>3, Distinct
  <2>5. SUFFICES ASSUME retval' = d, d \in Tables \ Store!Existing, UNCHANGED cell,
                        Store!Become(Store!With(d, m))
                 PROVE  Store!Next
    BY <1>1, <2>4, BuildStep
  <2> DEFINE bound == Store!BoundKeys(cell[c])
             places == 0 .. Store!Cardinality(bound) - 1
             list == [k \in Keys |-> IF k \in places THEN order[k] ELSE NIL]
  <2>6. bound = keys /\ places = index
    BY <2>2, SizesAgree
  <2>7. Store!Become(Store!With(retval', list))
    <3>1. PICK o : o = Store!With(d, m)
      OBVIOUS
    <3>2. o = Store!With(retval', list)
      <4>1. list = listed(order)
        <5> HIDE DEF places, index
        <5>1. QED BY <2>6
      <4> HIDE DEF list, listed
      <4>2. QED BY <2>3, <2>5, <3>1, <4>1 DEF Store!With
    <3>3. Store!Become(o)
      BY <2>5, <3>1 DEF Store!Become, Store!Keeps
    <3>4. QED BY <3>2, <3>3 DEF Store!Become, Store!Keeps
  <2>8. order \in [places -> bound] /\ \A k \in bound : \E i \in places : order[i] = k
    BY <2>1, <2>6
  <2>9. Store!KeysOf(c)
    BY <2>2, <2>5, <2>7, <2>8 DEF Store!KeysOf
  <2>10. QED BY <1>1, <2>9 DEF Store!Next
<1>4. QED BY <1>2, <1>3

LEMMA DestroyStep ==
  ASSUME HeapInv, HeapInv', Destroy
  PROVE  Store!Next
<1>1. mode = "run"
  BY DEF Destroy
<1>2. CASE Crash
  BY <1>1, <1>2, MapsToLost
<1>3. CASE mode' = "done" /\ UNCHANGED <<cell, retval, live, ref, members>>
  <2>1. Objs' = Objs
    BY <1>3 DEF Objs
  <2>2. Store!End
    BY <1>3, <2>1 DEF Store!End, Objs
  <2>3. QED BY <1>1, <2>2 DEF Store!Next
<1>4. QED BY <1>2, <1>3 DEF Destroy

-----------------------------------------------------------------------------
LEMMA InitStore == Init => Store!Init
<1> SUFFICES ASSUME Init PROVE Store!Init
  OBVIOUS
<1>1. live = {}
  BY DEF Init
<1>2. Objs = << >>
  BY <1>1 DEF Objs
<1>3. QED BY <1>2 DEF Init, Store!Init, Objs

LEMMA NextStore == HeapInv /\ HeapInv' /\ [Next]_vars => [Store!Next]_(Store!vars)
<1> SUFFICES ASSUME HeapInv, HeapInv', [Next]_vars
             PROVE  Store!Next \/ UNCHANGED <<cell, retval, Objs, mode>>
  BY DEF Store!vars, Objs
<1>1. CASE UNCHANGED vars
  BY <1>1 DEF vars, Objs
<1>2. ASSUME NEW v, Operand(v) \/ v \in Literals \cup {NIL} PROVE v \in Store!Named
  BY <1>2, Operands DEF Operand
<1>3. \A c \in Cells : cell[c] \in Store!Named
  BY Operands
<1>4. ASSUME NEW c \in Cells, GetRet(c) PROVE Store!Next
  BY <1>4, Operands, CopyIntoStep DEF GetRet
<1>5. ASSUME NEW c \in Cells, NEW d \in Cells, PushArg(c, d) PROVE Store!Next
  BY <1>3, <1>5, CopyIntoStep DEF PushArg
<1>6. ASSUME NEW c \in Cells, Clear(c) PROVE Store!Next
  <2>1. Store!Move
    BY <1>6, Operands, CellTakes DEF Clear
  <2>2. QED BY <1>6, <2>1, MapsToMove DEF Clear
<1>7. ASSUME NEW c \in Cells, Argument(c) PROVE Store!Next
  <2>1. CASE Crash
    BY <1>7, <2>1, MapsToLost DEF Argument
  <2>2. CASE Acquire({}, members, One(cell[c])) /\ retval' = cell[c] /\ UNCHANGED cell
    <3>1. Store!Move
      BY <1>3, <2>2, RegisterTakes
    <3>2. mode = "run" /\ mode' = mode /\ live' \subseteq live /\ members' = members
      BY <1>7, <2>2 DEF Argument, Acquire
    <3>3. QED BY <3>1, <3>2, MapsToMove
  <2>3. QED BY <1>7, <2>1, <2>2 DEF Argument
<1>8. ASSUME NEW v \in Literals \cup {NIL}, LibScalar(v) PROVE Store!Next
  <2>1. Store!Move
    BY <1>2, <1>8, RegisterTakes DEF LibScalar
  <2>2. QED BY <1>8, <2>1, MapsToMove DEF LibScalar
<1>9. ASSUME NEW c \in Cells, PrintFreed(c) PROVE Store!Next
  BY <1>9, MapsToLost DEF PrintFreed
<1>10. ASSUME NEW c \in Cells, NEW v \in Literals \cup {NIL}, Assign(c, v) PROVE Store!Next
  BY <1>2, <1>10, AssignStep
<1>11. ASSUME NEW c \in Cells, NEW d \in Cells, Assign(c, cell[d]) PROVE Store!Next
  BY <1>3, <1>11, AssignStep
<1>12. ASSUME NEW c \in Cells, NEW k, NEW v, Operand(v), SetElem(c, k, v) PROVE Store!Next
  BY <1>2, <1>12, SetElemStep
<1>13. ASSUME NEW v, Operand(v), Return(v) PROVE Store!Next
  BY <1>2, <1>13, ReturnStep
<1>14. QED
  BY <1>1, <1>4, <1>5, <1>6, <1>7, <1>8, <1>9, <1>10, <1>11, <1>12, <1>13, NewTableStep,
     GetElemStep, ObjectCopyStep, ObjectMemberKeysStep, DestroyStep DEF Next

(* The reference counts of vm.c implement objects that live for as long as  *)
(* they can be reached: a table is freed only when nothing but keys names   *)
(* it, each instruction does to cells, result and tables what the program   *)
(* asks for, and only a freed table that is still a key ends the promise.   *)
THEOREM ObjectStoreImplemented == Spec => ImplementsObjectStore
<1>1. QED BY InitStore, NextStore, AlwaysInv, PTL DEF Spec, ImplementsObjectStore, Store!Spec
=============================================================================
