---------------------------- MODULE BoolExprProofs --------------------------
(***************************************************************************)
(* Proofs about boolean expressions, for any operands, operators and places*)
(* in a program: no jump is lost, shared or completed twice, and the       *)
(* machine finds the value of every sound expression.                      *)
(***************************************************************************)
EXTENDS BoolExprProps, QuadListsProofs, SequenceTheorems

-----------------------------------------------------------------------------
(* Quads. *)
IsQuad(x) ==
  /\ x \in [op : Tests \cup {"assign"}, x : 0 .. Result, y : 0 .. Result, label : Nat]
  /\ x.op = "assign" => x.y \in {T, F, U}

(* The quads of q are numbered from 0 and jump to quads or right behind.    *)
Numbered(q) ==
  /\ NextQuad(q) \in Nat /\ DOMAIN q = 0 .. NextQuad(q) - 1
  /\ \A i \in DOMAIN q : IsQuad(q[i]) /\ q[i].label <= NextQuad(q)

Alike(x, y) == y.op = x.op /\ y.x = x.x /\ y.y = x.y

(* r is q with more quads behind, and other labels on some of S. *)
Grown(q, r, S) ==
  /\ Numbered(r) /\ NextQuad(q) <= NextQuad(r)
  /\ \A i \in DOMAIN q : i \in DOMAIN r /\ Alike(q[i], r[i])
  /\ \A i \in DOMAIN q : i \notin S => r[i].label = q[i].label

(* The numbers of the places. *)
LEMMA Places ==
  /\ Result \in Nat /\ Unwritten \in Nat /\ Unwritten < Result /\ MaxQuads <= Unwritten
  /\ MaxQuads \in Nat /\ MaxOperands \in Nat /\ Result \in 0 .. Result /\ Unwritten \in 0 .. Result
  /\ \A i \in Nat : i < MaxOperands => Variable(i) \in 0 .. Result /\ Variable(i) < Unwritten
  /\ \A i \in Nat : i <= MaxQuads => i \in 0 .. Result
  /\ {T, F, U} \subseteq 0 .. Result /\ {T, F, U} = {0, 1, 2}
BY BoolExprAssumption DEF Result, Unwritten, Variable, T, F, U

(* The quads that are emitted. *)
LEMMA QuadsEmitted ==
  /\ \A x \in 0 .. Result, v \in {T, F, U} : IsQuad(Set(x, v)) /\ Set(x, v).label = 0
  /\ \A op \in Tests, x, y \in 0 .. Result : IsQuad(Test(op, x, y)) /\ Test(op, x, y).label = 0
  /\ \A x \in 0 .. Result : IsQuad(IfTrue(x)) /\ IfTrue(x).label = 0
  /\ IsQuad(Goto) /\ Goto.label = 0 /\ Goto.op = "jump"
<1>1. \A x \in 0 .. Result, v \in {T, F, U} : IsQuad(Set(x, v)) /\ Set(x, v).label = 0
  BY Places DEF Set, IsQuad
<1>2. \A op \in Tests, x, y \in 0 .. Result : IsQuad(Test(op, x, y)) /\ Test(op, x, y).label = 0
  BY DEF Test, IsQuad, Tests
<1>3. 0 \in 0 .. Result
  BY Places
<1>4. QED BY <1>1, <1>2, <1>3 DEF IfTrue, Goto, Tests, Test

(* emit: one more quad, the others as they were. *)
LEMMA EmitGrown ==
  ASSUME NEW q, Numbered(q), NEW x, IsQuad(x), x.label = 0, NEW r, r = Emit(q, x)
  PROVE  /\ Grown(q, r, {}) /\ NextQuad(q) \in Nat /\ NextQuad(r) = NextQuad(q) + 1
         /\ r[NextQuad(q)] = x /\ NextQuad(q) \in DOMAIN r
         /\ \A i \in DOMAIN q : i \in DOMAIN r /\ r[i] = q[i] /\ i \in Nat /\ i < NextQuad(q)
         /\ \A i \in DOMAIN r : i \in DOMAIN q \/ i = NextQuad(q)
<1>1. PICK n \in Nat : n = NextQuad(q) /\ DOMAIN q = 0 .. n - 1
  BY DEF Numbered
<1>2. /\ NextQuad(r) = n + 1 /\ DOMAIN r = 0 .. n
      /\ \A i \in 0 .. n - 1 : i \in 0 .. n /\ r[i] = q[i]
      /\ r[n] = x
      /\ \A i \in 0 .. n : i \in 0 .. n - 1 \/ i = n
  BY <1>1, Emitted
<1>3. ASSUME NEW i \in 0 .. n
      PROVE  IsQuad(r[i]) /\ r[i].label <= n + 1
  <2>1. CASE i = n
    BY <1>2, <2>1
  <2>2. CASE i \in 0 .. n - 1
    <3>1. PICK y : y = q[i] /\ IsQuad(y) /\ y.label <= n
      BY <1>1, <2>2 DEF Numbered
    <3>2. y.label \in Nat
      BY <3>1 DEF IsQuad
    <3>3. r[i] = y
      BY <1>2, <2>2, <3>1
    <3>4. QED BY <3>1, <3>2, <3>3
  <2>3. QED BY <1>2, <2>1, <2>2
<1>4. (n + 1) - 1 = n /\ n + 1 \in Nat /\ n <= n + 1 /\ n \in 0 .. n
  OBVIOUS
<1>5. Numbered(r)
  BY <1>2, <1>3, <1>4 DEF Numbered
<1>6. \A i \in 0 .. n - 1 : i \in Nat /\ i < n
  OBVIOUS
<1>7. QED BY <1>1, <1>2, <1>4, <1>5, <1>6 DEF Grown, Alike

(* patchlabel: only labels are changed. *)
LEMMA LabelledFacts ==
  ASSUME NEW q, Numbered(q), NEW S, NEW l \in Nat, l <= NextQuad(q), NEW r, r = Labelled(q, S, l)
  PROVE  /\ Grown(q, r, S) /\ NextQuad(r) = NextQuad(q) /\ DOMAIN r = DOMAIN q
         /\ \A i \in DOMAIN q : i \in S => r[i].label = l
         /\ \A i \in DOMAIN q : i \notin S => r[i] = q[i]
         /\ \A i \in DOMAIN q : i \in S /\ q[i].label = l => r[i] = q[i]
<1>1. DOMAIN r = DOMAIN q /\ NextQuad(r) = NextQuad(q) /\ NextQuad(q) \in Nat
  BY Relabelled DEF Numbered
<1>2. ASSUME NEW i \in DOMAIN q
      PROVE  /\ IsQuad(r[i]) /\ Alike(q[i], r[i]) /\ r[i].label <= NextQuad(q)
             /\ i \in S => r[i].label = l
             /\ i \notin S => r[i] = q[i]
             /\ q[i].label = l => r[i] = q[i]
  <2>1. r[i] = IF i \in S THEN [q[i] EXCEPT !.label = l] ELSE q[i]
    BY Relabelled
  <2>2. PICK x : x = q[i] /\ IsQuad(x) /\ x.label <= NextQuad(q)
    BY DEF Numbered
  <2>3. PICK y : y = [x EXCEPT !.label = l]
    OBVIOUS
  <2>4. IsQuad(y) /\ Alike(x, y) /\ y.label = l /\ (x.label = l => y = x)
    BY <2>2, <2>3 DEF IsQuad, Alike
  <2>5. Alike(x, x)
    BY DEF Alike
  <2>6. QED BY <2>1, <2>2, <2>3, <2>4, <2>5
<1>3. Numbered(r)
  BY <1>1, <1>2 DEF Numbered
<1>4. QED BY <1>1, <1>2, <1>3 DEF Grown

(* What grows twice has grown. *)
LEMMA GrownTwice ==
  ASSUME NEW p, NEW q, NEW r, NEW S, NEW V, Numbered(p), Grown(p, q, S), Grown(q, r, V),
         NEW W, \A i \in DOMAIN p : i \in S \cup V => i \in W
  PROVE  Grown(p, r, W)
<1>1. NextQuad(p) <= NextQuad(r)
  BY DEF Grown, Numbered
<1>2. ASSUME NEW i \in DOMAIN p
      PROVE  i \in DOMAIN r /\ Alike(p[i], r[i]) /\ (i \notin W => r[i].label = p[i].label)
  BY DEF Grown, Alike
<1>3. Numbered(r)
  BY DEF Grown
<1>4. QED BY <1>1, <1>2, <1>3 DEF Grown

LEMMA GrownSame ==
  ASSUME NEW q, Numbered(q), NEW S
  PROVE  Grown(q, q, S)
BY DEF Grown, Numbered, Alike

-----------------------------------------------------------------------------
(* Lists of quads. *)
Listed(q, l, S) ==
  /\ S \subseteq DOMAIN q \ {0}
  /\ \E down : Leads(q, l, S, down) /\ \A i \in S : down[i] < Cardinality(S)

(* The quads of a list are finite in number, no more than there are.        *)
LEMMA ListedFinite ==
  ASSUME NEW q, Numbered(q), NEW S \in SUBSET DOMAIN q
  PROVE  IsFiniteSet(S) /\ Cardinality(S) \in Nat /\ Cardinality(S) <= NextQuad(q)
<1>1. PICK n \in Nat : n = NextQuad(q) /\ DOMAIN q = 0 .. n - 1
  BY DEF Numbered
<1>2. IsFiniteSet(0 .. n - 1) /\ Cardinality(0 .. n - 1) = n
  BY FS_Interval
<1>3. QED BY <1>1, <1>2, FS_Subset, FS_CardinalityType

LEMMA ListedOn ==
  ASSUME NEW q, Numbered(q), NEW l, NEW S, Listed(q, l, S)
  PROVE  On(q, l) = S
<1>1. PICK m \in Nat : m = NextQuad(q) /\ DOMAIN q = 0 .. m - 1
  BY DEF Numbered
<1>2. S \subseteq DOMAIN q \ {0} /\ Cardinality(S) \in Nat /\ Cardinality(S) <= m
  BY <1>1, ListedFinite DEF Listed
<1>3. PICK down : Leads(q, l, S, down) /\ \A i \in S : down[i] < Cardinality(S)
  BY DEF Listed
<1>4. \A i \in S : down[i] <= m
  BY <1>2, <1>3 DEF Leads
<1>5. QED BY <1>1, <1>2, <1>3, <1>4, Reached

(* A list is as long as the labels of its quads stay. *)
LEMMA ListedStays ==
  ASSUME NEW q, NEW r, NEW l, NEW S, Listed(q, l, S),
         \A i \in S : i \in DOMAIN r /\ r[i].label = q[i].label
  PROVE  Listed(r, l, S)
<1>1. PICK down : Leads(q, l, S, down) /\ \A i \in S : down[i] < Cardinality(S)
  BY DEF Listed
<1>2. S \subseteq DOMAIN r \ {0}
  BY DEF Listed
<1>3. Leads(r, l, S, down)
  BY <1>1 DEF Leads
<1>4. QED BY <1>1, <1>2, <1>3 DEF Listed

LEMMA ListOfNone ==
  ASSUME NEW q
  PROVE  Listed(q, 0, {})
<1>1. PICK down : down = [i \in {} |-> 0]
  OBVIOUS
<1>2. Leads(q, 0, {}, down)
  BY DEF Leads
<1>3. QED BY <1>2 DEF Listed

(* newlist: a list of one quad - or of none, if its number is 0. *)
Alone(i) == {i} \ {0}
LEMMA ListOfOne ==
  ASSUME NEW q, Numbered(q), NEW i \in DOMAIN q, q[i].label = 0
  PROVE  Listed(q, i, Alone(i))
<1>1. CASE i = 0
  BY <1>1, ListOfNone DEF Alone
<1>2. CASE i # 0
  <2>1. PICK down : down = [j \in {i} |-> 0]
    OBVIOUS
  <2>2. down[i] = 0
    BY <2>1
  <2>3. Leads(q, i, {i}, down)
    BY <1>2, <2>2 DEF Leads
  <2>4. Cardinality({i}) = 1
    BY FS_Singleton
  <2>5. Listed(q, i, {i})
    BY <1>2, <2>2, <2>3, <2>4 DEF Listed
  <2>6. Alone(i) = {i}
    BY <1>2 DEF Alone
  <2>7. QED BY <2>5, <2>6
<1>3. QED BY <1>1, <1>2

(* mergelist: the quads of two lists without common quads are one list. *)
LEMMA MergeFacts ==
  ASSUME NEW q, Numbered(q), NEW l, NEW A, Listed(q, l, A), NEW m, NEW B, Listed(q, m, B),
         A \cap B = {}, NEW r, r = MergeLists(q, l, m), NEW W, W = A \cup B
  PROVE  /\ Grown(q, r, A) /\ NextQuad(r) = NextQuad(q) /\ DOMAIN r = DOMAIN q
         /\ Listed(r, Merged(l, m), W)
         /\ \A i \in DOMAIN q : i \notin A => r[i] = q[i]
         /\ \A i \in DOMAIN q : r[i].label = 0 => q[i].label = 0
<1>0. /\ A \subseteq DOMAIN q \ {0} /\ B \subseteq DOMAIN q \ {0}
      /\ DOMAIN q \subseteq Nat /\ NextQuad(q) \in Nat
  BY DEF Listed, Numbered
<1>1. CASE l = 0
  <2>1. r = q /\ Merged(l, m) = m
    BY <1>1 DEF MergeLists, Merged
  <2>2. A = {}
    BY <1>1 DEF Listed, Leads
  <2>3. Grown(q, q, A)
    BY GrownSame
  <2>4. A \cup B = B
    BY <2>2
  <2>5. QED BY <2>1, <2>3, <2>4
<1>2. CASE l # 0 /\ m = 0
  <2>1. r = q /\ Merged(l, m) = l
    BY <1>2 DEF MergeLists, Merged
  <2>2. B = {}
    BY <1>2 DEF Listed, Leads
  <2>3. Grown(q, q, A)
    BY GrownSame
  <2>4. A \cup B = A
    BY <2>2
  <2>5. QED BY <2>1, <2>3, <2>4
<1>3. CASE l # 0 /\ m # 0
  <2>1. PICK k : k = LastOn(q, l)
    OBVIOUS
  <2>2. r = Labelled(q, {k}, m) /\ Merged(l, m) = l
    BY <1>3, <2>1 DEF MergeLists, Merged
  <2>3. PICK da : Leads(q, l, A, da) /\ \A i \in A : da[i] < Cardinality(A)
    BY DEF Listed
  <2>4. PICK db : Leads(q, m, B, db) /\ \A i \in B : db[i] < Cardinality(B)
    BY DEF Listed
  <2>5. k \in A /\ q[k].label = 0
    <3>1. On(q, l) = A
      BY ListedOn
    <3>2. \E i \in A : q[i].label = 0
      BY <1>3, <2>3 DEF Leads
    <3>3. k = CHOOSE i \in A : q[i].label = 0
      BY <2>1, <3>1 DEF LastOn
    <3>4. QED BY <3>2, <3>3
  <2>6. l \in A /\ m \in B
    BY <1>3, <2>3, <2>4 DEF Leads
  <2>7. m \in Nat /\ m <= NextQuad(q) /\ m # 0
    BY <1>0, <2>6 DEF Numbered
  <2>8. /\ Grown(q, r, {k}) /\ NextQuad(r) = NextQuad(q) /\ DOMAIN r = DOMAIN q
        /\ r[k].label = m
        /\ \A i \in DOMAIN q : i # k => r[i] = q[i]
    BY <1>0, <2>2, <2>5, <2>7, LabelledFacts
  <2>9. Grown(q, r, A)
    BY <2>5, <2>8 DEF Grown
  <2>10. \A i \in DOMAIN q : r[i].label = 0 => q[i].label = 0
    BY <2>7, <2>8
  <2>11. PICK a, b : a = Cardinality(A) /\ b = Cardinality(B)
    OBVIOUS
  <2>12. a \in Nat /\ b \in Nat /\ Cardinality(A \cup B) = a + b
    <3>1. IsFiniteSet(A) /\ IsFiniteSet(B) /\ a \in Nat /\ b \in Nat
      BY <1>0, <2>11, ListedFinite
    <3>2. Cardinality(A \cap B) = 0
      BY FS_EmptySet
    <3>3. Cardinality(A \cup B) = a + b - Cardinality(A \cap B)
      BY <2>11, <3>1, FS_Union
    <3>4. QED BY <3>1, <3>2, <3>3
  <2>13. W = A \cup B /\ \A i : i \in W <=> i \in A \/ i \in B
    OBVIOUS
  <2>14. PICK d : d = [i \in W |-> IF i \in A THEN da[i] ELSE a + db[i]]
    OBVIOUS
  <2>15. /\ \A i \in A : d[i] = da[i] /\ da[i] \in Nat /\ da[i] < a
         /\ \A i \in B : d[i] = a + db[i] /\ db[i] \in Nat /\ db[i] < b
    <3>1. \A i \in B : i \notin A
      OBVIOUS
    <3>2. QED BY <2>3, <2>4, <2>11, <2>13, <2>14, <3>1 DEF Leads
  <2>16. \A i \in W : d[i] \in Nat /\ d[i] < Cardinality(W)
    BY <2>12, <2>13, <2>15
  <2>17. Leads(r, l, W, d)
    <3>1. \A i \in A : i # k => r[i].label = q[i].label /\ q[i].label # 0
      <4>1. \A i \in A : q[i].label = 0 => i = k
        BY <2>3, <2>5 DEF Leads
      <4>2. QED BY <1>0, <2>8, <4>1
    <3>2. \A i \in B : r[i].label = q[i].label
      BY <1>0, <2>5, <2>8
    <3>3. ASSUME NEW i \in W
          PROVE  r[i].label = 0 \/ (r[i].label \in W /\ d[i] < d[r[i].label])
      <4>1. CASE i = k
        <5>1. r[i].label = m /\ i \in A /\ m \in B
          BY <2>5, <2>6, <2>8, <4>1
        <5>2. d[i] < d[m]
          BY <2>12, <2>15, <5>1
        <5>3. QED BY <2>13, <5>1, <5>2
      <4>2. CASE i \in A /\ i # k
        <5>1. q[i].label \in A /\ da[i] < da[q[i].label]
          BY <2>3, <3>1, <4>2 DEF Leads
        <5>2. QED BY <2>13, <2>15, <3>1, <4>2, <5>1
      <4>3. CASE i \in B
        <5>1. q[i].label = 0 \/ (q[i].label \in B /\ db[i] < db[q[i].label])
          BY <2>4, <4>3 DEF Leads
        <5>2. CASE q[i].label = 0
          BY <3>2, <4>3, <5>2
        <5>3. CASE q[i].label \in B /\ db[i] < db[q[i].label]
          <6>1. PICK j : j = q[i].label /\ j \in B /\ db[i] < db[j]
            BY <5>3
          <6>2. d[i] < d[j]
            BY <2>12, <2>15, <4>3, <6>1
          <6>3. r[i].label = j
            BY <3>2, <4>3, <6>1
          <6>4. QED BY <2>13, <6>1, <6>2, <6>3
        <5>4. QED BY <5>1, <5>2, <5>3
      <4>4. QED BY <2>13, <4>1, <4>2, <4>3
    <3>4. ASSUME NEW i \in W, i # l
          PROVE  \E j \in W : r[j].label = i
      <4>1. CASE i = m
        BY <2>5, <2>8, <2>13, <4>1
      <4>2. CASE i \in A
        <5>1. PICK j \in A : q[j].label = i
          BY <2>3, <3>4, <4>2 DEF Leads
        <5>2. i # 0
          BY <1>0, <4>2
        <5>3. r[j].label = i
          BY <2>5, <3>1, <5>1, <5>2
        <5>4. QED BY <2>13, <5>3
      <4>3. CASE i \in B /\ i # m
        <5>1. PICK j \in B : q[j].label = i
          BY <2>4, <4>3 DEF Leads
        <5>2. QED BY <2>13, <3>2, <5>1
      <4>4. QED BY <2>13, <4>1, <4>2, <4>3
    <3>5. \A i \in W : r[i].label = 0 => i \in B /\ q[i].label = 0
      BY <2>7, <2>8, <2>13, <3>1, <3>2
    <3>6. \A i, j \in W : r[i].label = 0 /\ r[j].label = 0 => i = j
      BY <2>4, <3>5 DEF Leads
    <3>7. \E i \in W : r[i].label = 0
      <4>1. PICK i \in B : q[i].label = 0
        BY <2>4, <2>6 DEF Leads
      <4>2. QED BY <2>13, <3>2, <4>1
    <3>8. l \in W /\ \A i \in W : d[i] \in Nat
      BY <2>6, <2>13, <2>16
    <3> QED BY <1>3, <3>3, <3>4, <3>6, <3>7, <3>8 DEF Leads
  <2>18. W \subseteq DOMAIN r \ {0}
    BY <1>0, <2>8, <2>13
  <2>19. Listed(r, l, W)
    BY <2>16, <2>17, <2>18 DEF Listed
  <2>20. QED BY <2>2, <2>5, <2>8, <2>9, <2>10, <2>13, <2>19
<1>4. QED BY <1>1, <1>2, <1>3

(* patchlist: the quads of the list jump to the label. *)
LEMMA PatchFacts ==
  ASSUME NEW q, Numbered(q), NEW l, NEW S, Listed(q, l, S),
         NEW label \in Nat, label <= NextQuad(q), NEW r, r = PatchList(q, l, label)
  PROVE  /\ Grown(q, r, S) /\ NextQuad(r) = NextQuad(q) /\ DOMAIN r = DOMAIN q
         /\ \A i \in S : r[i].label = label
         /\ \A i \in DOMAIN q : i \notin S => r[i] = q[i]
<1>1. r = Labelled(q, S, label)
  BY ListedOn DEF PatchList
<1>2. S \subseteq DOMAIN q
  BY DEF Listed
<1>3. QED BY <1>1, <1>2, LabelledFacts

-----------------------------------------------------------------------------
(* Expressions. *)
Exprs ==
  [kind : {"value", "bool", "nil"}, place : 0 .. Result, truelist : Nat, falselist : Nat,
   start : Nat, val : {T, F, U}, sound : BOOLEAN]
IsExpr(e) == e \in Exprs

JumpsOf(q) == {i \in DOMAIN q : q[i].op \in Tests}

(* e waits for the targets of the jumps of t, taken when it is true, and of *)
(* f, taken when it is not.                                                 *)
Waits(q, e, t, f) ==
  /\ IsExpr(e) /\ e.truelist <= NextQuad(q) /\ e.falselist <= NextQuad(q)
  /\ IF IsBool(e)
     THEN /\ Listed(q, e.truelist, t) /\ Listed(q, e.falselist, f)
          /\ t \cap f = {} /\ t \cup f \subseteq JumpsOf(q)
     ELSE t = {} /\ f = {}

(* Jumps of other expressions are their own affair. *)
LEMMA WaitsStays ==
  ASSUME NEW q, Numbered(q), NEW e, NEW t, NEW f, Waits(q, e, t, f),
         NEW r, NEW S, Grown(q, r, S), \A i \in S : i \notin t /\ i \notin f
  PROVE  Waits(r, e, t, f)
<1>1. e.truelist <= NextQuad(r) /\ e.falselist <= NextQuad(r)
  BY DEF Waits, IsExpr, Exprs, Grown, Numbered
<1>2. CASE ~IsBool(e)
  BY <1>1, <1>2 DEF Waits
<1>3. CASE IsBool(e)
  <2>1. t \subseteq JumpsOf(q) /\ f \subseteq JumpsOf(q)
    BY <1>3 DEF Waits
  <2>2. \A i \in t \cup f : i \in DOMAIN q /\ i \in DOMAIN r /\ r[i].label = q[i].label /\ i \in JumpsOf(r)
    BY <2>1 DEF JumpsOf, Grown, Alike
  <2>3. Listed(q, e.truelist, t) /\ Listed(q, e.falselist, f)
    BY <1>3 DEF Waits
  <2>4. Listed(r, e.truelist, t)
    BY <2>2, <2>3, ListedStays
  <2>5. Listed(r, e.falselist, f)
    BY <2>2, <2>3, ListedStays
  <2>6. QED BY <1>1, <1>3, <2>2, <2>4, <2>5 DEF Waits
<1>4. QED BY <1>2, <1>3

(* What e waits for has been emitted, and is not quad 0. *)
LEMMA WaitsFor ==
  ASSUME NEW q, Numbered(q), NEW e, NEW t, NEW f, Waits(q, e, t, f)
  PROVE  \A i \in t \cup f : i \in DOMAIN q /\ i # 0 /\ i \in Nat /\ i < NextQuad(q)
<1>1. \A i \in DOMAIN q : i \in Nat /\ i < NextQuad(q)
  BY DEF Numbered
<1>2. CASE ~IsBool(e)
  BY <1>2 DEF Waits
<1>3. CASE IsBool(e)
  BY <1>1, <1>3 DEF Waits, Listed
<1>4. QED BY <1>2, <1>3

(* A test and the jump behind it. *)
LEMMA WithTestFacts ==
  ASSUME NEW q, Numbered(q), NEW x, IsQuad(x), x.label = 0, x.op \in Tests,
         NEW n, n = NextQuad(q), NEW r, r = WithTest(q, x)
  PROVE  /\ Grown(q, r, {}) /\ n \in Nat /\ NextQuad(r) = n + 2
         /\ n \in DOMAIN r /\ n + 1 \in DOMAIN r /\ r[n] = x /\ r[n + 1] = Goto
         /\ \A i \in DOMAIN q : i \in DOMAIN r /\ r[i] = q[i] /\ i # n /\ i # n + 1
         /\ \A i \in DOMAIN r : i \in DOMAIN q \/ i = n \/ i = n + 1
         /\ Listed(r, n, Alone(n)) /\ Listed(r, n + 1, Alone(n + 1))
<1>1. PICK p : p = Emit(q, x)
  OBVIOUS
<1>2. /\ Grown(q, p, {}) /\ n \in Nat /\ NextQuad(p) = n + 1
      /\ p[n] = x /\ n \in DOMAIN p
      /\ \A i \in DOMAIN q : i \in DOMAIN p /\ p[i] = q[i] /\ i \in Nat /\ i < n
      /\ \A i \in DOMAIN p : i \in DOMAIN q \/ i = n
  BY <1>1, EmitGrown
<1>3. Numbered(p)
  BY <1>2 DEF Grown
<1>4. r = Emit(p, Goto)
  BY <1>1 DEF WithTest
<1>5. /\ Grown(p, r, {}) /\ NextQuad(r) = (n + 1) + 1
      /\ r[n + 1] = Goto /\ n + 1 \in DOMAIN r
      /\ \A i \in DOMAIN p : i \in DOMAIN r /\ r[i] = p[i] /\ i \in Nat /\ i < n + 1
      /\ \A i \in DOMAIN r : i \in DOMAIN p \/ i = n + 1
  BY <1>2, <1>3, <1>4, EmitGrown, QuadsEmitted
<1>6. Grown(q, r, {})
  BY <1>2, <1>5, GrownTwice
<1>7. Numbered(r)
  BY <1>6 DEF Grown
<1>8. r[n] = x /\ n \in DOMAIN r
  BY <1>2, <1>5
<1>9. Listed(r, n, Alone(n))
  BY <1>7, <1>8, ListOfOne
<1>10. Listed(r, n + 1, Alone(n + 1))
  <2>1. r[n + 1].label = 0
    BY <1>5, QuadsEmitted
  <2>2. QED BY <1>5, <1>7, <2>1, ListOfOne
<1>11. \A i \in DOMAIN q : i \in DOMAIN r /\ r[i] = q[i] /\ i # n /\ i # n + 1
  BY <1>2, <1>5
<1>12. \A i \in DOMAIN r : i \in DOMAIN q \/ i = n \/ i = n + 1
  BY <1>2, <1>5
<1>13. NextQuad(r) = n + 2
  BY <1>2, <1>5
<1>14. QED BY <1>2, <1>5, <1>6, <1>8, <1>9, <1>10, <1>11, <1>12, <1>13

(* convert_to_bool emits the test of an operand that has none. *)
LEMMA TestedFacts ==
  ASSUME NEW q, Numbered(q), NEW e, IsExpr(e), ~IsBool(e), NEW n, n = NextQuad(q),
         NEW b, b = ConvertToBool(q, e)
  PROVE  /\ Grown(q, b.quads, {}) /\ n \in Nat /\ NextQuad(b.quads) = n + 2
         /\ n \in DOMAIN b.quads /\ n + 1 \in DOMAIN b.quads
         /\ b.quads[n] = IfTrue(e.place) /\ b.quads[n + 1] = Goto
         /\ \A i \in DOMAIN q : i \in DOMAIN b.quads /\ b.quads[i] = q[i] /\ i # n /\ i # n + 1
         /\ \A i \in DOMAIN b.quads : i \in DOMAIN q \/ i = n \/ i = n + 1
         /\ Waits(b.quads, b.expr, Alone(n), Alone(n + 1)) /\ IsBool(b.expr)
         /\ b.expr = Bool(Unwritten, n, n + 1, e.start, e.val, e.sound /\ n # 0)
<1>1. b.quads = WithTest(q, IfTrue(e.place)) /\ b.expr = Bool(Unwritten, n, n + 1, e.start, e.val, e.sound /\ n # 0)
  BY DEF ConvertToBool, Both
<1>2. PICK r : r = b.quads
  OBVIOUS
<1>3. PICK g : g = b.expr
  OBVIOUS
<1>4. IsQuad(IfTrue(e.place)) /\ IfTrue(e.place).label = 0 /\ IfTrue(e.place).op \in Tests
  BY QuadsEmitted DEF IsExpr, Exprs, IfTrue, Test, Tests
<1>5. /\ Grown(q, r, {}) /\ n \in Nat /\ NextQuad(r) = n + 2
      /\ n \in DOMAIN r /\ n + 1 \in DOMAIN r /\ r[n] = IfTrue(e.place) /\ r[n + 1] = Goto
      /\ \A i \in DOMAIN q : i \in DOMAIN r /\ r[i] = q[i] /\ i # n /\ i # n + 1
      /\ \A i \in DOMAIN r : i \in DOMAIN q \/ i = n \/ i = n + 1
      /\ Listed(r, n, Alone(n)) /\ Listed(r, n + 1, Alone(n + 1))
  BY <1>1, <1>2, <1>4, WithTestFacts
<1>6. /\ IsExpr(g) /\ IsBool(g) /\ g.truelist = n /\ g.falselist = n + 1
  BY <1>1, <1>3, <1>5, Places DEF Bool, IsExpr, Exprs, IsBool
<1>7. {n, n + 1} \subseteq JumpsOf(r)
  BY <1>4, <1>5, QuadsEmitted DEF JumpsOf, Tests
<1>8. Waits(r, g, Alone(n), Alone(n + 1))
  <2>1. g.truelist <= NextQuad(r) /\ g.falselist <= NextQuad(r)
    BY <1>5, <1>6
  <2>2. Alone(n) \cap Alone(n + 1) = {} /\ Alone(n) \cup Alone(n + 1) \subseteq JumpsOf(r)
    BY <1>5, <1>7 DEF Alone
  <2>3. QED BY <1>5, <1>6, <2>1, <2>2 DEF Waits
<1>9. QED BY <1>1, <1>2, <1>3, <1>5, <1>6, <1>8

(* convert_to_value completes the jumps of a boolean expression. *)
LEMMA AssignedFacts ==
  ASSUME NEW q, Numbered(q), NEW e, NEW t, NEW f, Waits(q, e, t, f), IsBool(e),
         NEW n, n = NextQuad(q), n + 3 <= MaxQuads, NEW b, b = ConvertToValue(q, e),
         NEW W, W = t \cup f
  PROVE  /\ Grown(q, b.quads, W) /\ n \in Nat /\ NextQuad(b.quads) = n + 3
         /\ n \in DOMAIN b.quads /\ n + 1 \in DOMAIN b.quads /\ n + 2 \in DOMAIN b.quads
         /\ b.quads[n] = Set(n, T) /\ b.quads[n + 2] = Set(n, F)
         /\ Alike(Goto, b.quads[n + 1]) /\ b.quads[n + 1].label = n + 3
         /\ \A i \in DOMAIN q : i # n /\ i # n + 1 /\ i # n + 2
         /\ \A i \in DOMAIN b.quads : i \in DOMAIN q \/ i = n \/ i = n + 1 \/ i = n + 2
         /\ \A i \in t : b.quads[i].label = n
         /\ \A i \in f : b.quads[i].label = n + 2
         /\ b.expr = Value(n, e.start, e.val, e.sound)
         /\ Waits(b.quads, b.expr, {}, {}) /\ ~IsBool(b.expr) /\ b.expr.kind # "nil"
<1>1. PICK q1, q2, q3, q4a, q4, r :
        /\ q1 = Emit(q, Set(n, T)) /\ q2 = Emit(q1, Goto) /\ q3 = Emit(q2, Set(n, F))
        /\ q4a = PatchList(q3, e.truelist, n) /\ q4 = PatchList(q4a, e.falselist, n + 2)
        /\ r = PatchLabel(q4, n + 1, n + 3)
  OBVIOUS
<1>2. b.quads = r /\ b.expr = Value(n, e.start, e.val, e.sound)
  BY <1>1 DEF ConvertToValue, Both
<1>3. n \in Nat /\ n \in 0 .. Result
  BY Places DEF Numbered
<1>4. /\ IsQuad(Set(n, T)) /\ Set(n, T).label = 0 /\ IsQuad(Set(n, F)) /\ Set(n, F).label = 0
      /\ IsQuad(Goto) /\ Goto.label = 0
  BY <1>3, QuadsEmitted
<1>5. /\ Grown(q, q1, {}) /\ NextQuad(q1) = n + 1 /\ q1[n] = Set(n, T) /\ n \in DOMAIN q1
      /\ \A i \in DOMAIN q : i \in DOMAIN q1 /\ q1[i] = q[i] /\ i \in Nat /\ i < n
      /\ \A i \in DOMAIN q1 : i \in DOMAIN q \/ i = n
  BY <1>1, <1>4, EmitGrown
<1>6. Numbered(q1)
  BY <1>5 DEF Grown
<1>7. /\ Grown(q1, q2, {}) /\ NextQuad(q2) = (n + 1) + 1 /\ q2[n + 1] = Goto /\ n + 1 \in DOMAIN q2
      /\ \A i \in DOMAIN q1 : i \in DOMAIN q2 /\ q2[i] = q1[i] /\ i \in Nat /\ i < n + 1
      /\ \A i \in DOMAIN q2 : i \in DOMAIN q1 \/ i = n + 1
  BY <1>1, <1>4, <1>5, <1>6, EmitGrown
<1>8. Numbered(q2) /\ NextQuad(q2) = n + 2
  BY <1>3, <1>7 DEF Grown
<1>9. /\ Grown(q2, q3, {}) /\ NextQuad(q3) = (n + 2) + 1 /\ q3[n + 2] = Set(n, F) /\ n + 2 \in DOMAIN q3
      /\ \A i \in DOMAIN q2 : i \in DOMAIN q3 /\ q3[i] = q2[i] /\ i \in Nat /\ i < n + 2
      /\ \A i \in DOMAIN q3 : i \in DOMAIN q2 \/ i = n + 2
  BY <1>1, <1>4, <1>8, EmitGrown
<1>10. Numbered(q3) /\ NextQuad(q3) = n + 3
  BY <1>3, <1>9 DEF Grown
<1>11. /\ \A i \in DOMAIN q : i \in DOMAIN q3 /\ q3[i] = q[i] /\ i \in Nat /\ i < n
       /\ q3[n] = Set(n, T) /\ q3[n + 1] = Goto /\ q3[n + 2] = Set(n, F)
       /\ n \in DOMAIN q3 /\ n + 1 \in DOMAIN q3 /\ n + 2 \in DOMAIN q3
       /\ \A i \in DOMAIN q3 : i \in DOMAIN q \/ i = n \/ i = n + 1 \/ i = n + 2
  BY <1>5, <1>7, <1>9
<1>12. Grown(q, q3, {})
  <2>1. Grown(q, q2, {})
    BY <1>5, <1>7, GrownTwice
  <2>2. QED BY <1>9, <2>1, GrownTwice
<1>13. /\ Listed(q, e.truelist, t) /\ Listed(q, e.falselist, f) /\ t \cap f = {}
       /\ \A i \in t \cup f : i \in DOMAIN q /\ i < n /\ i \in Nat
  BY <1>5, WaitsFor DEF Waits
<1>14. Listed(q3, e.truelist, t) /\ Listed(q3, e.falselist, f)
  BY <1>11, <1>13, ListedStays
<1>15. /\ Grown(q3, q4a, t) /\ NextQuad(q4a) = n + 3 /\ DOMAIN q4a = DOMAIN q3
       /\ \A i \in t : q4a[i].label = n
       /\ \A i \in DOMAIN q3 : i \notin t => q4a[i] = q3[i]
  <2>1. n <= NextQuad(q3)
    BY <1>3, <1>10
  <2>2. QED BY <1>1, <1>3, <1>10, <1>14, <2>1, PatchFacts
<1>16. Numbered(q4a)
  BY <1>15 DEF Grown
<1>17. Listed(q4a, e.falselist, f)
  BY <1>11, <1>13, <1>14, <1>15, ListedStays
<1>18. /\ Grown(q4a, q4, f) /\ NextQuad(q4) = n + 3 /\ DOMAIN q4 = DOMAIN q3
       /\ \A i \in f : q4[i].label = n + 2
       /\ \A i \in DOMAIN q3 : i \notin f => q4[i] = q4a[i]
  <2>1. n + 2 <= NextQuad(q4a) /\ n + 2 \in Nat
    BY <1>3, <1>15
  <2>2. QED BY <1>1, <1>15, <1>16, <1>17, <2>1, PatchFacts
<1>19. Numbered(q4)
  BY <1>18 DEF Grown
<1>20. /\ Grown(q4, r, {n + 1}) /\ NextQuad(r) = n + 3 /\ DOMAIN r = DOMAIN q3
       /\ r[n + 1].label = n + 3
       /\ \A i \in DOMAIN q3 : i # n + 1 => r[i] = q4[i]
  <2>1. n + 3 <= NextQuad(q4) /\ n + 3 \in Nat
    BY <1>3, <1>18
  <2>2. r = Labelled(q4, {n + 1}, n + 3)
    BY <1>1 DEF PatchLabel
  <2>3. QED BY <1>11, <1>18, <1>19, <2>1, <2>2, LabelledFacts
<1>21. n \notin t \cup f /\ n + 1 \notin t \cup f /\ n + 2 \notin t \cup f /\ n + 1 \notin DOMAIN q
  BY <1>3, <1>5, <1>13
<1>22. Grown(q, r, t \cup f)
  <2>1. Grown(q, q4a, t)
    BY <1>12, <1>15, GrownTwice
  <2>2. Grown(q, q4, t \cup f)
    BY <1>18, <2>1, GrownTwice
  <2>3. QED BY <1>20, <1>21, <2>2, GrownTwice
<1>23. r[n] = Set(n, T) /\ r[n + 2] = Set(n, F)
  BY <1>3, <1>11, <1>15, <1>18, <1>20, <1>21
<1>24. Alike(Goto, r[n + 1])
  <2>1. q4[n + 1] = Goto
    BY <1>11, <1>15, <1>18, <1>21
  <2>2. QED BY <1>11, <1>18, <1>20, <2>1 DEF Grown
<1>25. \A i \in t : r[i].label = n
  BY <1>11, <1>13, <1>15, <1>18, <1>20, <1>21
<1>26. \A i \in f : r[i].label = n + 2
  BY <1>11, <1>13, <1>18, <1>20, <1>21
<1>27. PICK g : g = b.expr
  OBVIOUS
<1>28. IsExpr(g) /\ ~IsBool(g) /\ g.kind # "nil" /\ g.truelist = 0 /\ g.falselist = 0
  BY <1>2, <1>3, <1>27 DEF Value, IsExpr, Exprs, IsBool, Waits
<1>29. Waits(r, g, {}, {})
  BY <1>3, <1>20, <1>28 DEF Waits
<1>30. QED BY <1>2, <1>3, <1>5, <1>11, <1>20, <1>22, <1>23, <1>24, <1>25, <1>26, <1>27, <1>28, <1>29
-----------------------------------------------------------------------------
(* What conversions and comparisons do to the jumps that wait. *)
OpenIn(q) == {i \in JumpsOf(q) : q[i].label = 0}

(* Open jumps of grown quads. *)
LEMMA OpenGrown ==
  ASSUME NEW q, Numbered(q), NEW r, NEW S, Grown(q, r, S), NEW i \in OpenIn(r), i \in DOMAIN q, i \notin S
  PROVE  i \in OpenIn(q)
BY DEF Grown, OpenIn, JumpsOf, Alike

LEMMA ToBool ==
  ASSUME NEW q, Numbered(q), NEW e, NEW t, NEW f, Waits(q, e, t, f),
         NEW b, b = ConvertToBool(q, e)
  PROVE  \E u, g : /\ Waits(b.quads, b.expr, u, g) /\ IsBool(b.expr)
                   /\ Grown(q, b.quads, {}) /\ NextQuad(b.quads) <= NextQuad(q) + 2
                   /\ t \subseteq u /\ f \subseteq g
                   /\ \A i \in u \cup g : i \in t \cup f \/ i \notin DOMAIN q
                   /\ \A i \in OpenIn(b.quads) : i = 0 \/ i \in u \cup g \/ i \in OpenIn(q)
<1>0. NextQuad(q) \in Nat
  BY DEF Numbered
<1>1. CASE IsBool(e)
  <2>1. b.quads = q /\ b.expr = e
    BY <1>1 DEF ConvertToBool, Both
  <2>2. Grown(q, q, {})
    BY GrownSame
  <2>3. QED BY <1>0, <1>1, <2>1, <2>2
<1>2. CASE ~IsBool(e)
  <2>1. PICK n \in Nat : n = NextQuad(q)
    BY <1>0
  <2>2. IsExpr(e) /\ t = {} /\ f = {}
    BY <1>2 DEF Waits
  <2>3. /\ Grown(q, b.quads, {}) /\ NextQuad(b.quads) = n + 2
        /\ \A i \in DOMAIN q : i # n /\ i # n + 1
        /\ \A i \in DOMAIN b.quads : i \in DOMAIN q \/ i = n \/ i = n + 1
        /\ Waits(b.quads, b.expr, Alone(n), Alone(n + 1)) /\ IsBool(b.expr)
    <3>1. Numbered(q) /\ IsExpr(e) /\ ~IsBool(e) /\ n = NextQuad(q) /\ b = ConvertToBool(q, e)
      BY <1>2, <2>1, <2>2
    <3>2. QED BY ONLY <3>1, TestedFacts
  <2>4. \A i \in OpenIn(b.quads) : i = 0 \/ i \in Alone(n) \cup Alone(n + 1) \/ i \in OpenIn(q)
    <3>1. \A i \in OpenIn(b.quads) : i \in DOMAIN b.quads
      BY DEF OpenIn, JumpsOf
    <3>2. QED BY <2>3, <3>1, OpenGrown DEF Alone
  <2>5. \A i \in Alone(n) \cup Alone(n + 1) : i \notin DOMAIN q
    BY <2>3 DEF Alone
  <2>6. NextQuad(b.quads) <= NextQuad(q) + 2
    BY <2>1, <2>3
  <2>7. QED BY <2>2, <2>3, <2>4, <2>5, <2>6
<1>3. QED BY <1>1, <1>2

LEMMA ToValue ==
  ASSUME NEW q, Numbered(q), NEW e, NEW t, NEW f, Waits(q, e, t, f), NextQuad(q) + 3 <= MaxQuads,
         NEW b, b = ConvertToValue(q, e), NEW W, W = t \cup f
  PROVE  /\ Waits(b.quads, b.expr, {}, {}) /\ ~IsBool(b.expr)
         /\ Grown(q, b.quads, W) /\ NextQuad(b.quads) <= NextQuad(q) + 3
         /\ \A i \in OpenIn(b.quads) : i \in OpenIn(q) /\ i \notin W
<1>0. NextQuad(q) \in Nat
  BY DEF Numbered
<1>1. CASE ~IsBool(e)
  <2>1. b.quads = q /\ b.expr = e /\ t = {} /\ f = {}
    BY <1>1 DEF ConvertToValue, Both, Waits
  <2>2. Grown(q, q, W)
    BY GrownSame
  <2>3. QED BY <1>0, <1>1, <2>1, <2>2
<1>2. CASE IsBool(e)
  <2>1. PICK n \in Nat : n = NextQuad(q)
    BY <1>0
  <2>2. /\ Grown(q, b.quads, W) /\ NextQuad(b.quads) = n + 3
        /\ b.quads[n] = Set(n, T) /\ b.quads[n + 2] = Set(n, F)
        /\ b.quads[n + 1].label = n + 3
        /\ \A i \in DOMAIN b.quads : i \in DOMAIN q \/ i = n \/ i = n + 1 \/ i = n + 2
        /\ \A i \in t : b.quads[i].label = n
        /\ \A i \in f : b.quads[i].label = n + 2
        /\ Waits(b.quads, b.expr, {}, {}) /\ ~IsBool(b.expr)
    BY ONLY Numbered(q), Waits(q, e, t, f), NextQuad(q) + 3 <= MaxQuads, b = ConvertToValue(q, e), W = t \cup f,
            <1>2, <2>1, AssignedFacts
  <2>3. NextQuad(b.quads) <= NextQuad(q) + 3
    BY <2>1, <2>2
  <2>4. Set(n, T).op = "assign" /\ Set(n, F).op = "assign" /\ "assign" \notin Tests
    BY DEF Set, Tests
  <2>5. ASSUME NEW i \in OpenIn(b.quads)
        PROVE  i \in DOMAIN q /\ i \notin t \cup f
    <3>1. i \in DOMAIN b.quads /\ b.quads[i].op \in Tests /\ b.quads[i].label = 0
      BY DEF OpenIn, JumpsOf
    <3>2. i # n /\ i # n + 1 /\ i # n + 2
      BY <2>1, <2>2, <2>4, <3>1
    <3>3. i \in DOMAIN q
      BY <2>2, <3>1, <3>2
    <3>4. i \notin f
      BY <2>1, <2>2, <3>1
    <3>5. i \notin t
      <4>1. ASSUME i \in t PROVE FALSE
        <5>1. n > i /\ i \in Nat
          BY <2>1, <4>1, WaitsFor
        <5>2. n = 0
          BY <2>2, <3>1, <4>1
        <5>3. QED BY <5>1, <5>2
      <4>2. QED BY <4>1
    <3>6. QED BY <3>3, <3>4, <3>5
  <2>6. \A i \in OpenIn(b.quads) : i \in OpenIn(q)
    BY <2>2, <2>5, OpenGrown
  <2>7. QED BY <2>2, <2>3, <2>5, <2>6
<1>3. QED BY <1>1, <1>2

LEMMA ComparedFacts ==
  ASSUME NEW q, Numbered(q), NextQuad(q) + 2 <= MaxQuads, NEW l, IsExpr(l), NEW r, IsExpr(r),
         NEW op \in Tests, NEW val \in {T, F, U}, NEW sound \in BOOLEAN,
         NEW b, b = Compared(q, op, l, r, val, sound)
  PROVE  \E u, g : /\ Waits(b.quads, b.expr, u, g) /\ IsBool(b.expr)
                   /\ Grown(q, b.quads, {}) /\ NextQuad(b.quads) <= NextQuad(q) + 2
                   /\ \A i \in u \cup g : i \notin DOMAIN q
                   /\ \A i \in OpenIn(b.quads) : i = 0 \/ i \in u \cup g \/ i \in OpenIn(q)
<1>1. PICK n \in Nat : n = NextQuad(q)
  BY DEF Numbered
<1>2. CASE "nil" \in {l.kind, r.kind}
  <2>1. b.quads = Emit(q, Set(n, F)) /\ b.expr = Bool(n, 0, 0, l.start, val, FALSE)
    BY <1>1, <1>2 DEF Compared, Both
  <2>2. IsQuad(Set(n, F)) /\ Set(n, F).label = 0 /\ n \in 0 .. Result /\ Set(n, F).op \notin Tests
    <3>1. n \in 0 .. Result
      BY <1>1, Places
    <3>2. IsQuad(Set(n, F)) /\ Set(n, F).label = 0
      BY <3>1, QuadsEmitted
    <3>3. QED BY <3>1, <3>2 DEF Set, Tests
  <2>3. PICK p : p = b.quads
    OBVIOUS
  <2>4. /\ Grown(q, p, {}) /\ NextQuad(p) = n + 1 /\ p[n] = Set(n, F)
        /\ \A i \in DOMAIN p : i \in DOMAIN q \/ i = n
    BY <1>1, <2>1, <2>2, <2>3, EmitGrown
  <2>5. PICK e : e = b.expr
    OBVIOUS
  <2>6. IsExpr(e) /\ IsBool(e) /\ e.truelist = 0 /\ e.falselist = 0
    BY <1>1, <2>1, <2>2, <2>5, Places DEF IsExpr, Exprs, IsBool, Bool
  <2>7. Waits(p, e, {}, {})
    BY <2>4, <2>6, ListOfNone DEF Waits
  <2>8. \A i \in OpenIn(p) : i \in DOMAIN p /\ p[i].op \in Tests
    BY DEF OpenIn, JumpsOf
  <2>9. \A i \in OpenIn(p) : i \in OpenIn(q)
    BY <2>2, <2>4, <2>8, OpenGrown
  <2>10. NextQuad(p) <= NextQuad(q) + 2
    BY <1>1, <2>4
  <2>11. QED BY <2>3, <2>4, <2>5, <2>6, <2>7, <2>9, <2>10
<1>3. CASE "nil" \notin {l.kind, r.kind}
  <2>1. PICK x : x = Test(op, l.place, r.place)
    OBVIOUS
  <2>2. b.quads = WithTest(q, x) /\ b.expr = Bool(Unwritten, n, n + 1, l.start, val, sound /\ n # 0)
    BY <1>1, <1>3, <2>1 DEF Compared, Both
  <2>3. IsQuad(x) /\ x.label = 0 /\ x.op \in Tests
    BY <2>1, QuadsEmitted DEF IsExpr, Exprs, Test
  <2>4. PICK p, e : p = b.quads /\ e = b.expr
    OBVIOUS
  <2>5. /\ Grown(q, p, {}) /\ NextQuad(p) = n + 2
        /\ n \in DOMAIN p /\ n + 1 \in DOMAIN p /\ p[n] = x /\ p[n + 1] = Goto
        /\ \A i \in DOMAIN q : i # n /\ i # n + 1
        /\ \A i \in DOMAIN p : i \in DOMAIN q \/ i = n \/ i = n + 1
        /\ Listed(p, n, Alone(n)) /\ Listed(p, n + 1, Alone(n + 1))
    <3>1. Numbered(q) /\ n = NextQuad(q) /\ p = WithTest(q, x)
      BY <1>1, <2>2, <2>4
    <3>2. QED BY ONLY <2>3, <3>1, WithTestFacts
  <2>6. IsExpr(e) /\ IsBool(e) /\ e.truelist = n /\ e.falselist = n + 1
    BY <1>1, <2>2, <2>4, Places DEF IsExpr, Exprs, IsBool, Bool
  <2>7. {n, n + 1} \subseteq JumpsOf(p)
    BY <2>3, <2>5, QuadsEmitted DEF JumpsOf, Tests
  <2>8. Waits(p, e, Alone(n), Alone(n + 1))
    <3>1. Alone(n) \cap Alone(n + 1) = {} /\ Alone(n) \cup Alone(n + 1) \subseteq JumpsOf(p)
      BY <2>7 DEF Alone
    <3>2. e.truelist <= NextQuad(p) /\ e.falselist <= NextQuad(p)
      BY <2>5, <2>6
    <3>3. QED BY <2>5, <2>6, <3>1, <3>2 DEF Waits
  <2>9. \A i \in OpenIn(p) : i = 0 \/ i \in Alone(n) \cup Alone(n + 1) \/ i \in OpenIn(q)
    <3>1. \A i \in OpenIn(p) : i \in DOMAIN p
      BY DEF OpenIn, JumpsOf
    <3>2. QED BY <2>5, <3>1, OpenGrown DEF Alone
  <2>10. \A i \in Alone(n) \cup Alone(n + 1) : i \notin DOMAIN q
    BY <2>5 DEF Alone
  <2>11. NextQuad(p) <= NextQuad(q) + 2
    BY <1>1, <2>5
  <2>12. QED BY <2>4, <2>5, <2>6, <2>8, <2>9, <2>10, <2>11
<1>4. QED BY <1>2, <1>3
-----------------------------------------------------------------------------
(* The stack of expressions: each has its own jumps to wait for, P[i] when  *)
(* it is true and N[i] when it is not.                                      *)
StackAt(q, es, P, N) ==
  /\ \A i \in DOMAIN es : Waits(q, es[i], P[i], N[i])
  /\ \A i, j \in DOMAIN es : i # j => (P[i] \cup N[i]) \cap (P[j] \cup N[j]) = {}

(* Every jump without a target is waited for. *)
Covered(q, es, P, N) ==
  \A i \in OpenIn(q) : i = 0 \/ \E j \in DOMAIN es : i \in P[j] \/ i \in N[j]

(* The jumps of the expressions above the first d. *)
IsUpper(es, P, N, d, Old) ==
  \A i : i \in Old <=> \E j \in DOMAIN es : j > d /\ (i \in P[j] \/ i \in N[j])

Replaced(es, d, e) == Append(SubSeq(es, 1, d), e)

LEMMA ReplacedFacts ==
  ASSUME NEW es \in Seq(Exprs), NEW d \in Nat, d <= Len(es), NEW e, IsExpr(e),
         NEW fs, fs = Replaced(es, d, e)
  PROVE  /\ fs \in Seq(Exprs) /\ Len(fs) = d + 1 /\ DOMAIN fs = 1 .. d + 1
         /\ fs[d + 1] = e
         /\ \A i \in 1 .. d : i \in DOMAIN es /\ fs[i] = es[i] /\ i # d + 1
         /\ \A i \in 1 .. d + 1 : i \in 1 .. d \/ i = d + 1
<1>1. PICK s : s = SubSeq(es, 1, d)
  OBVIOUS
<1>2. s \in Seq(Exprs) /\ Len(s) = d /\ \A i \in 1 .. d : s[i] = es[i]
  <2>1. 1 \in 1 .. Len(es) + 1 /\ d \in 0 .. Len(es)
    BY LenProperties
  <2>2. Len(s) = d /\ \A i \in 1 .. d : s[i] = es[1 + i - 1]
    BY <1>1, <2>1, SubSeqProperties
  <2>3. \A i \in 1 .. d : 1 + i - 1 = i
    OBVIOUS
  <2>4. s \in Seq(Exprs)
    BY <1>1, <2>1, SubSeqProperties
  <2>5. QED BY <2>2, <2>3, <2>4
<1>3. fs = Append(s, e)
  BY <1>1 DEF Replaced
<1>4. fs \in Seq(Exprs) /\ Len(fs) = d + 1 /\ fs[d + 1] = e /\ \A i \in 1 .. d : fs[i] = s[i]
  BY <1>2, <1>3, AppendProperties DEF IsExpr
<1>5. \A i \in 1 .. d : i \in DOMAIN es /\ i # d + 1
  BY LenProperties
<1>6. QED BY <1>2, <1>4, <1>5, LenProperties

(* An operator gives the jumps of its operands to its result, or completes  *)
(* them; those of the other expressions stay.                               *)
LEMMA StackReplaced ==
  ASSUME NEW q, Numbered(q), NEW es \in Seq(Exprs), NEW P, NEW N, StackAt(q, es, P, N),
         NEW d \in Nat, d <= Len(es), NEW Old, IsUpper(es, P, N, d, Old),
         NEW r, Grown(q, r, Old), NEW e, NEW u, NEW g, Waits(r, e, u, g),
         \A i \in u \cup g : i \in Old \/ i \notin DOMAIN q,
         NEW fs, fs = Replaced(es, d, e)
  PROVE  \E P2, N2 :
           /\ StackAt(r, fs, P2, N2)
           /\ Covered(q, es, P, N)
              /\ (\A i \in OpenIn(r) : i = 0 \/ i \in u \cup g \/ (i \in OpenIn(q) /\ i \notin Old))
              => Covered(r, fs, P2, N2)
<1>1. /\ fs \in Seq(Exprs) /\ DOMAIN fs = 1 .. d + 1
      /\ fs[d + 1] = e
      /\ \A i \in 1 .. d : i \in DOMAIN es /\ fs[i] = es[i] /\ i # d + 1
      /\ \A i \in 1 .. d + 1 : i \in 1 .. d \/ i = d + 1
  BY ReplacedFacts DEF Waits
<1>2. PICK P2, N2 : /\ P2 = [i \in 1 .. d + 1 |-> IF i = d + 1 THEN u ELSE P[i]]
                    /\ N2 = [i \in 1 .. d + 1 |-> IF i = d + 1 THEN g ELSE N[i]]
  OBVIOUS
<1>3. /\ P2[d + 1] = u /\ N2[d + 1] = g
      /\ \A i \in 1 .. d : P2[i] = P[i] /\ N2[i] = N[i]
  BY <1>1, <1>2
<1>4. ASSUME NEW i \in 1 .. d, NEW x, x \in P[i] \/ x \in N[i]
      PROVE  x \notin Old /\ x \in DOMAIN q
  <2>1. i \in DOMAIN es /\ ~(i > d)
    BY <1>1
  <2>2. x \notin Old
    <3>1. ASSUME NEW j \in DOMAIN es, j > d, x \in P[j] \/ x \in N[j] PROVE FALSE
      <4>1. (P[i] \cup N[i]) \cap (P[j] \cup N[j]) = {}
        BY <2>1, <3>1 DEF StackAt
      <4>2. QED BY <1>4, <3>1, <4>1
    <3>2. QED BY <3>1 DEF IsUpper
  <2>3. Waits(q, es[i], P[i], N[i])
    BY <2>1 DEF StackAt
  <2>4. QED BY <1>4, <2>2, <2>3, WaitsFor
<1>5. ASSUME NEW i \in 1 .. d
      PROVE  Waits(r, es[i], P[i], N[i])
  <2>1. Waits(q, es[i], P[i], N[i])
    BY <1>1 DEF StackAt
  <2>2. \A x \in Old : x \notin P[i] /\ x \notin N[i]
    BY <1>4
  <2>3. QED BY <2>1, <2>2, WaitsStays
<1>6. StackAt(r, fs, P2, N2)
  <2>1. ASSUME NEW i \in 1 .. d + 1
        PROVE  Waits(r, fs[i], P2[i], N2[i])
    <3>1. CASE i = d + 1
      BY <1>1, <1>3, <3>1
    <3>2. CASE i \in 1 .. d
      BY <1>1, <1>3, <1>5, <3>2
    <3>3. QED BY <1>1, <3>1, <3>2
  <2>2. ASSUME NEW i \in 1 .. d
        PROVE  (P2[i] \cup N2[i]) \cap (u \cup g) = {}
    <3>1. \A x \in u \cup g : x \notin P[i] /\ x \notin N[i]
      BY <1>4
    <3>2. QED BY <1>3, <3>1
  <2>3. ASSUME NEW i \in 1 .. d, NEW j \in 1 .. d, i # j
        PROVE  (P2[i] \cup N2[i]) \cap (P2[j] \cup N2[j]) = {}
    BY <1>1, <1>3, <2>3 DEF StackAt
  <2>4. ASSUME NEW i \in 1 .. d + 1, NEW j \in 1 .. d + 1, i # j
        PROVE  (P2[i] \cup N2[i]) \cap (P2[j] \cup N2[j]) = {}
    <3>1. CASE i = d + 1
      <4>1. j \in 1 .. d
        BY <1>1, <2>4, <3>1
      <4>2. QED BY <1>3, <2>2, <3>1, <4>1
    <3>2. CASE j = d + 1
      <4>1. i \in 1 .. d
        BY <1>1, <2>4, <3>2
      <4>2. QED BY <1>3, <2>2, <3>2, <4>1
    <3>3. CASE i \in 1 .. d /\ j \in 1 .. d
      BY <2>3, <2>4, <3>3
    <3>4. QED BY <1>1, <3>1, <3>2, <3>3
  <2>5. QED BY <1>1, <2>1, <2>4 DEF StackAt
<1>7. ASSUME Covered(q, es, P, N),
             \A i \in OpenIn(r) : i = 0 \/ i \in u \cup g \/ (i \in OpenIn(q) /\ i \notin Old)
      PROVE  Covered(r, fs, P2, N2)
  <2>1. SUFFICES ASSUME NEW i \in OpenIn(r), i # 0
                 PROVE  \E j \in DOMAIN fs : i \in P2[j] \/ i \in N2[j]
    BY DEF Covered
  <2>2. CASE i \in u \cup g
    <3>1. d + 1 \in DOMAIN fs
      BY <1>1
    <3>2. QED BY <1>3, <2>2, <3>1
  <2>3. CASE i \in OpenIn(q) /\ i \notin Old
    <3>1. PICK j \in DOMAIN es : i \in P[j] \/ i \in N[j]
      BY <1>7, <2>1, <2>3 DEF Covered
    <3>2. ~(j > d)
      BY <2>3, <3>1 DEF IsUpper
    <3>3. j \in 1 .. d
      BY <3>1, <3>2, LenProperties
    <3>4. QED BY <1>1, <1>3, <3>1, <3>3
  <2>4. QED BY <1>7, <2>1, <2>2, <2>3
<1>8. QED BY <1>6, <1>7

(* The jumps of the last one or two. *)
LEMMA UpperOne ==
  ASSUME NEW es \in Seq(Exprs), Len(es) >= 1, NEW P, NEW N, NEW k, k = Len(es),
         NEW Old, Old = P[k] \cup N[k]
  PROVE  IsUpper(es, P, N, k - 1, Old) /\ k \in DOMAIN es /\ k - 1 \in Nat /\ k - 1 <= Len(es)
<1>1. k \in Nat /\ k \in DOMAIN es /\ \A j \in DOMAIN es : j > k - 1 <=> j = k
  BY LenProperties
<1>2. QED BY <1>1 DEF IsUpper

LEMMA UpperTwo ==
  ASSUME NEW es \in Seq(Exprs), Len(es) >= 2, NEW P, NEW N, NEW k, k = Len(es),
         NEW Old, Old = (P[k - 1] \cup N[k - 1]) \cup (P[k] \cup N[k])
  PROVE  /\ IsUpper(es, P, N, k - 2, Old) /\ k \in DOMAIN es /\ k - 1 \in DOMAIN es
         /\ k - 2 \in Nat /\ k - 2 <= Len(es) /\ k # k - 1
<1>1. /\ k \in Nat /\ k \in DOMAIN es /\ k - 1 \in DOMAIN es
      /\ \A j \in DOMAIN es : j > k - 2 <=> j = k \/ j = k - 1
  BY LenProperties
<1>2. QED BY <1>1 DEF IsUpper

-----------------------------------------------------------------------------
(* The inductive invariant. *)
TypeInv ==
  /\ Numbered(quads) /\ NextQuad(quads) <= MaxQuads
  /\ exprs \in Seq(Exprs)
  /\ \A i \in DOMAIN exprs : exprs[i].truelist <= NextQuad(quads) /\ exprs[i].falselist <= NextQuad(quads)
  /\ read \in Nat /\ read <= MaxOperands
  /\ cell \in [0 .. Result -> {T, F, U}]
  /\ mode \in {"parse", "run", "done", "loop", "clobbered"}
  /\ pc \in 0 .. NextQuad(quads) /\ answer \in 0 .. Result /\ lost \in BOOLEAN

ListsInv ==
  mode = "parse" => \E P, N : /\ StackAt(quads, exprs, P, N)
                              /\ ~lost => Covered(quads, exprs, P, N)

BoolExprInv == TypeInv /\ ListsInv
LEMMA InitKeeps == Init => BoolExprInv
<1>1. ASSUME Init PROVE BoolExprInv
  <2>1. PICK n \in 0 .. FirstQuad : quads = [i \in 0 .. n - 1 |-> Set(Unwritten, U)]
    BY <1>1 DEF Init
  <2>2. n \in Nat /\ n <= MaxQuads
    BY BoolExprAssumption
  <2>3. DOMAIN quads = 0 .. n - 1 /\ NextQuad(quads) = n
    <3>1. DOMAIN quads = 0 .. n - 1
      BY <2>1
    <3>2. QED BY <2>2, <3>1, Numbers0
  <2>4. IsQuad(Set(Unwritten, U)) /\ Set(Unwritten, U).label = 0 /\ Set(Unwritten, U).op \notin Tests
    BY Places, QuadsEmitted DEF Set, Tests
  <2>5. \A i \in DOMAIN quads : quads[i] = Set(Unwritten, U)
    BY <2>1, <2>3
  <2>6. Numbered(quads)
    BY <2>2, <2>3, <2>4, <2>5 DEF Numbered
  <2>7. TypeInv
    <3>1. exprs = << >> /\ exprs \in Seq(Exprs) /\ DOMAIN exprs = {}
      BY <1>1 DEF Init
    <3>2. read = 0 /\ mode = "parse" /\ pc = 0 /\ answer = Result /\ lost = FALSE
      BY <1>1 DEF Init
    <3>3. cell \in [0 .. Result -> {T, F, U}]
      BY <1>1 DEF Init
    <3>4. pc \in 0 .. NextQuad(quads)
      BY <2>2, <2>3, <3>2
    <3>5. read <= MaxOperands
      BY <3>2, Places
    <3>6. QED BY <2>2, <2>3, <2>6, <3>1, <3>2, <3>3, <3>4, <3>5, Places DEF TypeInv
  <2>8. ListsInv
    <3>1. DOMAIN exprs = {}
      BY <1>1 DEF Init
    <3>2. OpenIn(quads) = {}
      BY <2>4, <2>5 DEF OpenIn, JumpsOf
    <3>3. \A P, N : StackAt(quads, exprs, P, N) /\ Covered(quads, exprs, P, N)
      BY <3>1, <3>2 DEF StackAt, Covered
    <3>4. QED BY <3>3 DEF ListsInv
  <2>9. QED BY <2>7, <2>8 DEF BoolExprInv
<1>2. QED BY <1>1

(* What an operator has to show. *)
LEMMA ReduceKeeps ==
  ASSUME BoolExprInv, mode = "parse", NEW n \in {1, 2}, Depth >= n, NEW P, NEW N,
         StackAt(quads, exprs, P, N), ~lost => Covered(quads, exprs, P, N),
         NEW Old, IsUpper(exprs, P, N, Depth - n, Old),
         NEW r, Grown(quads, r, Old), NextQuad(r) <= MaxQuads,
         NEW e, NEW u, NEW g, Waits(r, e, u, g),
         \A i \in u \cup g : i \in Old \/ i \notin DOMAIN quads,
         Reduce(n, r, e), lost' \in BOOLEAN, lost => lost',
         ~lost' => \A i \in OpenIn(r) : i = 0 \/ i \in u \cup g \/ (i \in OpenIn(quads) /\ i \notin Old)
  PROVE  BoolExprInv'
<1>1. TypeInv
  BY DEF BoolExprInv
<1>2. Numbered(quads) /\ exprs \in Seq(Exprs) /\ Depth = Len(exprs) /\ Len(exprs) \in Nat
  BY <1>1, LenProperties DEF TypeInv, Depth
<1>3. PICK d \in Nat : d = Depth - n /\ d <= Len(exprs)
  BY <1>2
<1>4. /\ quads' = r /\ exprs' = Replaced(exprs, d, e)
      /\ UNCHANGED <<read, mode, pc, cell, answer>>
  BY <1>3 DEF Reduce, Replaced
<1>5. PICK fs : fs = Replaced(exprs, d, e)
  OBVIOUS
<1>6. PICK P2, N2 :
        /\ StackAt(r, fs, P2, N2)
        /\ Covered(quads, exprs, P, N)
           /\ (\A i \in OpenIn(r) : i = 0 \/ i \in u \cup g \/ (i \in OpenIn(quads) /\ i \notin Old))
           => Covered(r, fs, P2, N2)
  BY <1>2, <1>3, <1>5, StackReplaced
<1>7. ListsInv'
  <2>1. StackAt(r, fs, P2, N2) /\ (~lost' => Covered(r, fs, P2, N2))
    BY <1>6
  <2>2. quads' = r /\ exprs' = fs
    BY <1>4, <1>5
  <2>3. QED BY <2>1, <2>2 DEF ListsInv
<1>8. fs \in Seq(Exprs)
  BY <1>2, <1>3, <1>5, ReplacedFacts DEF Waits
<1>9. \A i \in DOMAIN fs : fs[i].truelist <= NextQuad(r) /\ fs[i].falselist <= NextQuad(r)
  BY <1>6 DEF StackAt, Waits
<1>10. Numbered(r) /\ pc \in 0 .. NextQuad(r)
  BY <1>1, <1>2 DEF Grown, Numbered, TypeInv
<1>11. TypeInv'
  BY <1>1, <1>4, <1>5, <1>8, <1>9, <1>10 DEF TypeInv
<1>12. QED BY <1>7, <1>11 DEF BoolExprInv

(* Operands are read. *)
LEMMA ReadKeeps ==
  ASSUME BoolExprInv, Reading, NEW r, Grown(quads, r, {}), NextQuad(r) <= MaxQuads,
         quads' = r, NEW e, exprs' = Append(exprs, e), Waits(r, e, {}, {}),
         \A i \in OpenIn(r) : i \in OpenIn(quads),
         cell' \in [0 .. Result -> {T, F, U}]
  PROVE  BoolExprInv'
<1>1. TypeInv /\ mode = "parse" /\ read < MaxOperands
  BY DEF BoolExprInv, Reading
<1>2. Numbered(quads) /\ exprs \in Seq(Exprs) /\ Len(exprs) \in Nat
  BY <1>1, LenProperties DEF TypeInv
<1>3. PICK P, N : StackAt(quads, exprs, P, N) /\ (~lost => Covered(quads, exprs, P, N))
  BY <1>1 DEF BoolExprInv, ListsInv
<1>4. PICK d \in Nat : d = Len(exprs)
  BY <1>2
<1>5. exprs' = Replaced(exprs, d, e)
  <2>1. SubSeq(exprs, 1, d) = exprs
    BY <1>2, <1>4
  <2>2. QED BY <2>1 DEF Replaced
<1>6. IsUpper(exprs, P, N, d, {})
  BY <1>2, <1>4, LenProperties DEF IsUpper
<1>7. PICK fs : fs = Replaced(exprs, d, e)
  OBVIOUS
<1>8. PICK P2, N2 :
        /\ StackAt(r, fs, P2, N2)
        /\ Covered(quads, exprs, P, N)
           /\ (\A i \in OpenIn(r) : i = 0 \/ i \in {} \cup {} \/ (i \in OpenIn(quads) /\ i \notin {}))
           => Covered(r, fs, P2, N2)
  <2>1. d <= Len(exprs) /\ \A i \in {} \cup {} : i \in {} \/ i \notin DOMAIN quads
    BY <1>4
  <2>2. QED BY <1>2, <1>3, <1>4, <1>6, <1>7, <2>1, StackReplaced
<1>9. ListsInv'
  <2>1. StackAt(r, fs, P2, N2) /\ (~lost => Covered(r, fs, P2, N2))
    BY <1>3, <1>8
  <2>2. quads' = r /\ exprs' = fs /\ lost' = lost
    BY <1>5, <1>7 DEF Reading
  <2>3. QED BY <2>1, <2>2 DEF ListsInv
<1>10. fs \in Seq(Exprs)
  BY <1>2, <1>4, <1>7, ReplacedFacts DEF Waits
<1>11. \A i \in DOMAIN fs : fs[i].truelist <= NextQuad(r) /\ fs[i].falselist <= NextQuad(r)
  BY <1>8 DEF StackAt, Waits
<1>12. Numbered(r) /\ pc \in 0 .. NextQuad(r)
  BY <1>1, <1>2 DEF Grown, Numbered, TypeInv
<1>13. read' \in Nat /\ read' <= MaxOperands
  BY <1>1, Places DEF TypeInv, Reading
<1>14. UNCHANGED <<mode, pc, answer, lost>> /\ exprs' = fs
  BY <1>5, <1>7 DEF Reading
<1>15. TypeInv'
  BY <1>1, <1>10, <1>11, <1>12, <1>13, <1>14 DEF TypeInv
<1>16. QED BY <1>9, <1>15 DEF BoolExprInv

LEMMA ReadVariableKeeps ==
  ASSUME BoolExprInv, NEW v \in {T, F}, ReadVariable(v)
  PROVE  BoolExprInv'
<1>1. TypeInv /\ Reading
  BY DEF BoolExprInv, ReadVariable
<1>2. Numbered(quads) /\ NextQuad(quads) <= MaxQuads /\ NextQuad(quads) \in Nat
  BY <1>1 DEF TypeInv, Numbered
<1>3. Grown(quads, quads, {})
  BY <1>2, GrownSame
<1>4. PICK x : x = Variable(read) /\ x \in 0 .. Result
  BY <1>1, Places DEF TypeInv, Reading
<1>5. PICK e : e = Value(x, NextQuad(quads), v, TRUE)
  OBVIOUS
<1>6. Waits(quads, e, {}, {})
  BY <1>2, <1>4, <1>5 DEF Waits, IsExpr, Exprs, Value, IsBool
<1>7. cell' \in [0 .. Result -> {T, F, U}]
  BY <1>1, <1>4 DEF TypeInv, ReadVariable
<1>8. quads' = quads /\ exprs' = Append(exprs, e)
  BY <1>4, <1>5 DEF ReadVariable
<1>9. QED BY <1>1, <1>2, <1>3, <1>6, <1>7, <1>8, ReadKeeps

LEMMA ReadComputedKeeps ==
  ASSUME BoolExprInv, NEW v \in {T, F}, ReadComputed(v)
  PROVE  BoolExprInv'
<1>1. TypeInv /\ Reading
  BY DEF BoolExprInv, ReadComputed
<1>2. Numbered(quads) /\ NextQuad(quads) \in Nat
  BY <1>1 DEF TypeInv, Numbered
<1>3. PICK n \in Nat : n = NextQuad(quads)
  BY <1>2
<1>4. n < MaxQuads /\ quads' = Emit(quads, Set(n, v)) /\ exprs' = Append(exprs, Value(n, n, v, TRUE)) /\ cell' = cell
  BY <1>3 DEF ReadComputed
<1>5. IsQuad(Set(n, v)) /\ Set(n, v).label = 0 /\ n \in 0 .. Result
  <2>1. n \in 0 .. Result
    BY <1>3, <1>4, Places
  <2>2. QED BY <2>1, QuadsEmitted
<1>6. Set(n, v).op \notin Tests
  BY DEF Set, Tests
<1>7. PICK r : r = Emit(quads, Set(n, v))
  OBVIOUS
<1>8. /\ Grown(quads, r, {}) /\ NextQuad(r) = n + 1 /\ r[n] = Set(n, v)
      /\ \A i \in DOMAIN r : i \in DOMAIN quads \/ i = n
  BY <1>2, <1>3, <1>5, <1>7, EmitGrown
<1>9. \A i \in OpenIn(r) : i \in OpenIn(quads)
  <2>1. \A i \in OpenIn(r) : i \in DOMAIN r /\ r[i].op \in Tests
    BY DEF OpenIn, JumpsOf
  <2>2. QED BY <1>2, <1>6, <1>8, <2>1, OpenGrown
<1>10. PICK e : e = Value(n, n, v, TRUE)
  OBVIOUS
<1>11. Waits(r, e, {}, {})
  BY <1>5, <1>8, <1>10 DEF Waits, IsExpr, Exprs, Value, IsBool
<1>12. NextQuad(r) <= MaxQuads
  BY <1>3, <1>4, <1>8, Places
<1>13. cell' \in [0 .. Result -> {T, F, U}]
  BY <1>1, <1>4 DEF TypeInv
<1>14. QED BY <1>1, <1>4, <1>7, <1>8, <1>9, <1>10, <1>11, <1>12, <1>13, ReadKeeps

LEMMA ReadNilKeeps ==
  ASSUME BoolExprInv, ReadNil
  PROVE  BoolExprInv'
<1>1. TypeInv /\ Reading
  BY DEF BoolExprInv, ReadNil
<1>2. Numbered(quads) /\ NextQuad(quads) <= MaxQuads /\ NextQuad(quads) \in Nat
  BY <1>1 DEF TypeInv, Numbered
<1>3. Grown(quads, quads, {})
  BY <1>2, GrownSame
<1>4. PICK e : e = Nil
  OBVIOUS
<1>5. e.truelist = 0 /\ e.falselist = 0 /\ e.kind = "nil" /\ IsExpr(e)
  BY <1>4, Places DEF IsExpr, Exprs, Value, Nil
<1>6. Waits(quads, e, {}, {})
  BY <1>2, <1>5 DEF Waits, IsBool
<1>7. quads' = quads /\ exprs' = Append(exprs, e) /\ cell' \in [0 .. Result -> {T, F, U}]
  BY <1>1, <1>4 DEF ReadNil, TypeInv
<1>8. QED BY <1>1, <1>2, <1>3, <1>6, <1>7, ReadKeeps
-----------------------------------------------------------------------------
(* The operators. *)

(* A boolean expression made of two lists. *)
LEMMA BoolWaits ==
  ASSUME NEW q, Numbered(q), NEW tl, NEW t, Listed(q, tl, t), NEW fl, NEW f, Listed(q, fl, f),
         t \cap f = {}, t \subseteq JumpsOf(q), f \subseteq JumpsOf(q),
         NEW start \in Nat, NEW val \in {T, F, U}, NEW sound \in BOOLEAN,
         NEW e, e = Bool(Unwritten, tl, fl, start, val, sound)
  PROVE  Waits(q, e, t, f)
<1>1. \A l, S : Listed(q, l, S) => l = 0 \/ l \in DOMAIN q
  BY DEF Listed, Leads
<1>2. tl \in Nat /\ tl <= NextQuad(q) /\ fl \in Nat /\ fl <= NextQuad(q)
  BY <1>1 DEF Numbered
<1>3. IsExpr(e) /\ IsBool(e) /\ e.truelist = tl /\ e.falselist = fl
  BY <1>2, Places DEF IsExpr, Exprs, Bool, IsBool
<1>4. QED BY <1>2, <1>3 DEF Waits

(* The jumps of the left operand that end the expression join those of the  *)
(* right one that do.                                                       *)
Choice(isAnd, x, y) == IF isAnd THEN x ELSE y
IsOutcome(start, val, sound) == start \in Nat /\ val \in {T, F, U} /\ sound \in BOOLEAN
LEMMA Joined ==
  ASSUME NEW q, Numbered(q), NEW e, NEW u, NEW g, Waits(q, e, u, g), IsBool(e),
         NEW stop, NEW S, Listed(q, stop, S), S \subseteq JumpsOf(q),
         \A i \in S : i \notin u /\ i \notin g, NEW isAnd \in BOOLEAN,
         NEW m, m = Choice(isAnd, e.falselist, e.truelist),
         NEW r, r = MergeLists(q, stop, m),
         NEW t, t = Choice(isAnd, e.truelist, Merged(stop, e.truelist)),
         NEW f, f = Choice(isAnd, Merged(stop, e.falselist), e.falselist),
         NEW start, NEW val, NEW sound, IsOutcome(start, val, sound),
         NEW x, x = Bool(Unwritten, t, f, start, val, sound),
         NEW su, su = S \cup u, NEW sg, sg = S \cup g,
         NEW v, v = Choice(isAnd, u, su), NEW w, w = Choice(isAnd, sg, g)
  PROVE  /\ Waits(r, x, v, w) /\ Grown(q, r, S) /\ NextQuad(r) = NextQuad(q)
         /\ \A i \in OpenIn(r) : i \in OpenIn(q)
         /\ \A i : i \in v \cup w <=> i \in S \/ i \in u \/ i \in g
         /\ \A i \in DOMAIN q : i \notin S => r[i] = q[i]
<1>1. /\ Listed(q, e.truelist, u) /\ Listed(q, e.falselist, g) /\ u \cap g = {}
      /\ u \subseteq JumpsOf(q) /\ g \subseteq JumpsOf(q)
  BY DEF Waits
<1>2. PICK B : B = IF isAnd THEN g ELSE u
  OBVIOUS
<1>3. Listed(q, m, B) /\ S \cap B = {}
  BY <1>1, <1>2 DEF Choice
<1>31. PICK SB : SB = S \cup B
  OBVIOUS
<1>4. /\ Grown(q, r, S) /\ NextQuad(r) = NextQuad(q) /\ DOMAIN r = DOMAIN q
      /\ Listed(r, Merged(stop, m), SB)
      /\ \A i \in DOMAIN q : i \notin S => r[i] = q[i]
      /\ \A i \in DOMAIN q : r[i].label = 0 => q[i].label = 0
  BY <1>3, <1>31, MergeFacts
<1>5. Numbered(r) /\ \A i : i \in JumpsOf(q) <=> i \in JumpsOf(r)
  BY <1>4 DEF Grown, JumpsOf, Alike
<1>6. PICK C, c : C = (IF isAnd THEN u ELSE g) /\ c = (IF isAnd THEN e.truelist ELSE e.falselist)
  OBVIOUS
<1>7. Listed(r, c, C)
  <2>1. Listed(q, c, C)
    BY <1>1, <1>6
  <2>2. \A i \in C : i \in DOMAIN r /\ r[i].label = q[i].label
    BY <1>1, <1>4, <1>6 DEF JumpsOf
  <2>3. QED BY <2>1, <2>2, ListedStays
<1>8. v \cap w = {} /\ v \subseteq JumpsOf(r) /\ w \subseteq JumpsOf(r)
  BY <1>1, <1>5 DEF Choice
<1>9. Listed(r, t, v) /\ Listed(r, f, w)
  <2>1. CASE isAnd
    BY <1>2, <1>31, <1>4, <1>6, <1>7, <2>1 DEF Choice
  <2>2. CASE ~isAnd
    BY <1>2, <1>31, <1>4, <1>6, <1>7, <2>2 DEF Choice
  <2>3. QED BY <2>1, <2>2
<1>10. Waits(r, x, v, w)
  BY <1>5, <1>8, <1>9, BoolWaits DEF IsOutcome
<1>11. \A i \in OpenIn(r) : i \in OpenIn(q)
  BY <1>4, <1>5 DEF OpenIn, JumpsOf
<1>12. \A i : i \in v \cup w <=> i \in S \/ i \in u \/ i \in g
  BY <1>1 DEF Choice
<1>13. QED BY <1>4, <1>10, <1>11, <1>12

(* The jumps that go on to the right operand are completed. *)
LEMMA PassedOn ==
  ASSUME NEW q, Numbered(q), NEW pass, NEW S, Listed(q, pass, S), NEW stop, NEW Z, Listed(q, stop, Z),
         NEW e, NEW t, NEW f, Waits(q, e, t, f), S \cap Z = {},
         \A i \in S \cup Z : i \notin t /\ i \notin f /\ i \in JumpsOf(q),
         NEW b, b = ConvertToBool(q, e), NEW r, r = PatchToRight(b.quads, pass, b.expr)
  PROVE  \E u, g :
           /\ Waits(b.quads, b.expr, u, g) /\ Waits(r, b.expr, u, g) /\ IsBool(b.expr)
           /\ Grown(q, r, S) /\ NextQuad(r) <= NextQuad(q) + 2 /\ DOMAIN r = DOMAIN b.quads
           /\ Listed(r, stop, Z) /\ t \subseteq u /\ f \subseteq g
           /\ \A i \in u \cup g : i \in t \cup f \/ i \notin DOMAIN q
           /\ b.expr.truelist # 0 =>
                \A i \in OpenIn(r) : i = 0 \/ i \in u \cup g \/ (i \in OpenIn(q) /\ i \notin S)
           /\ \A i \in S : r[i].label = b.expr.truelist
           /\ \A i \in DOMAIN b.quads : i \notin S => r[i] = b.quads[i]
<1>1. PICK u, g :
        /\ Waits(b.quads, b.expr, u, g) /\ IsBool(b.expr)
        /\ Grown(q, b.quads, {}) /\ NextQuad(b.quads) <= NextQuad(q) + 2
        /\ t \subseteq u /\ f \subseteq g
        /\ \A i \in u \cup g : i \in t \cup f \/ i \notin DOMAIN q
        /\ \A i \in OpenIn(b.quads) : i = 0 \/ i \in u \cup g \/ i \in OpenIn(q)
  BY ToBool
<1>2. PICK p : p = b.quads
  OBVIOUS
<1>3. Numbered(p)
  BY <1>1, <1>2 DEF Grown
<1>4. \A i \in S \cup Z : i \in DOMAIN q /\ i \notin u /\ i \notin g /\ i \in DOMAIN p /\ p[i].label = q[i].label
  BY <1>1, <1>2 DEF Grown, JumpsOf
<1>5. Listed(p, pass, S) /\ Listed(p, stop, Z)
  BY <1>4, ListedStays
<1>6. PICK l : l = b.expr.truelist
  OBVIOUS
<1>7. l \in Nat /\ l <= NextQuad(p)
  BY <1>1, <1>2, <1>6 DEF Waits, IsExpr, Exprs
<1>8. r = PatchList(p, pass, l)
  BY <1>2, <1>6 DEF PatchToRight
<1>9. /\ Grown(p, r, S) /\ NextQuad(r) = NextQuad(p) /\ DOMAIN r = DOMAIN p
      /\ \A i \in S : r[i].label = l
      /\ \A i \in DOMAIN p : i \notin S => r[i] = p[i]
  BY <1>3, <1>5, <1>7, <1>8, PatchFacts
<1>10. Waits(r, b.expr, u, g)
  <2>1. \A i \in S : i \notin u /\ i \notin g
    BY <1>4
  <2>2. QED BY <1>1, <1>2, <1>3, <1>9, <2>1, WaitsStays
<1>11. Listed(r, stop, Z)
  BY <1>4, <1>5, <1>9, ListedStays
<1>12. Grown(q, r, S)
  BY <1>1, <1>2, <1>9, GrownTwice
<1>13. ASSUME l # 0, NEW i \in OpenIn(r)
       PROVE  i = 0 \/ i \in u \cup g \/ (i \in OpenIn(q) /\ i \notin S)
  <2>1. i \in DOMAIN p /\ r[i].label = 0 /\ r[i].op \in Tests
    BY <1>9 DEF OpenIn, JumpsOf
  <2>2. i \notin S
    BY <1>9, <1>13, <2>1
  <2>3. i \in OpenIn(p)
    BY <1>3, <1>9, <2>1, <2>2, OpenGrown
  <2>4. QED BY <1>1, <1>2, <2>2, <2>3
<1>14. QED BY <1>1, <1>2, <1>6, <1>9, <1>10, <1>11, <1>12, <1>13
(* The test of a left operand that is a value stands behind the quads of the*)
(* right one; one of its jumps goes to what is emitted next.                *)
LEMMA TestBehind ==
  ASSUME NEW q, Numbered(q), NEW n, n = NextQuad(q), NEW l, IsExpr(l),
         NEW e, NEW t, NEW f, Waits(q, e, t, f), NEW isAnd \in BOOLEAN,
         NEW pass, pass = (IF isAnd THEN n ELSE n + 1), NEW stop, stop = (IF isAnd THEN n + 1 ELSE n),
         NEW q1, q1 = WithTest(q, IfTrue(l.place)), NEW p, p = PatchLabel(q1, pass, NextQuad(q1)),
         NEW b, b = ConvertToBool(p, e), NEW r, r = NewList(b.quads, stop)
  PROVE  /\ n \in Nat /\ Grown(q, p, {}) /\ NextQuad(p) = n + 2
         /\ n \in DOMAIN p /\ Alike(IfTrue(l.place), p[n]) /\ n + 1 \in DOMAIN p /\ Alike(Goto, p[n + 1])
         /\ p[pass].label = n + 2 /\ Waits(p, e, t, f)
         /\ \A i \in DOMAIN p : i \in DOMAIN q \/ i = n \/ i = n + 1
         /\ \A i \in DOMAIN q : i < n
         /\ DOMAIN r = DOMAIN b.quads /\ \A i \in DOMAIN r : r[i] = b.quads[i]
         /\ \E u, g : /\ Waits(r, b.expr, u, g) /\ IsBool(b.expr)
                      /\ Grown(q, r, {}) /\ NextQuad(r) <= n + 4 /\ NextQuad(r) = NextQuad(b.quads)
                      /\ Listed(r, stop, Alone(stop)) /\ Alone(stop) \subseteq JumpsOf(r)
                      /\ \A i \in Alone(stop) : i \notin u /\ i \notin g /\ i \notin DOMAIN q
                      /\ t \subseteq u /\ f \subseteq g
                      /\ \A i \in u \cup g : i \in t \cup f \/ i \notin DOMAIN q
                      /\ \A i \in OpenIn(r) : i = 0 \/ i \in u \cup g \/ i \in Alone(stop)
                                              \/ i \in OpenIn(q)
<1>1. IsQuad(IfTrue(l.place)) /\ IfTrue(l.place).label = 0 /\ IfTrue(l.place).op \in Tests
  BY QuadsEmitted DEF IsExpr, Exprs, IfTrue, Test, Tests
<1>2. PICK x : x = IfTrue(l.place)
  OBVIOUS
<1>3. /\ Grown(q, q1, {}) /\ n \in Nat /\ NextQuad(q1) = n + 2
      /\ n \in DOMAIN q1 /\ n + 1 \in DOMAIN q1 /\ q1[n] = x /\ q1[n + 1] = Goto
      /\ \A i \in DOMAIN q : i \in DOMAIN q1 /\ q1[i] = q[i] /\ i # n /\ i # n + 1
      /\ \A i \in DOMAIN q1 : i \in DOMAIN q \/ i = n \/ i = n + 1
  BY <1>1, <1>2, WithTestFacts
<1>4. Numbered(q1) /\ pass \in {n, n + 1} /\ stop \in {n, n + 1} /\ pass # stop
  BY <1>3 DEF Grown
<1>5. /\ Grown(q1, p, {pass}) /\ NextQuad(p) = n + 2 /\ DOMAIN p = DOMAIN q1
      /\ p[pass].label = n + 2
      /\ \A i \in DOMAIN q1 : i # pass => p[i] = q1[i]
  <2>1. p = Labelled(q1, {pass}, NextQuad(q1)) /\ NextQuad(q1) \in Nat /\ NextQuad(q1) <= NextQuad(q1)
    BY <1>3 DEF PatchLabel
  <2>2. pass \in DOMAIN q1
    BY <1>3, <1>4
  <2>3. QED BY <1>3, <1>4, <2>1, <2>2, LabelledFacts
<1>6. Numbered(p)
  BY <1>5 DEF Grown
<1>7. Grown(q, p, {})
  <2>1. \A i \in DOMAIN q : i \in {} \cup {pass} => i \in {}
    BY <1>3, <1>4
  <2>2. QED BY <1>3, <1>5, <2>1, GrownTwice
<1>8. Alike(x, p[n]) /\ Alike(Goto, p[n + 1])
  BY <1>3, <1>5 DEF Grown
<1>9. Waits(p, e, t, f)
  BY <1>7, WaitsStays
<1>10. PICK u, g :
        /\ Waits(b.quads, b.expr, u, g) /\ IsBool(b.expr)
        /\ Grown(p, b.quads, {}) /\ NextQuad(b.quads) <= NextQuad(p) + 2
        /\ t \subseteq u /\ f \subseteq g
        /\ \A i \in u \cup g : i \in t \cup f \/ i \notin DOMAIN p
        /\ \A i \in OpenIn(b.quads) : i = 0 \/ i \in u \cup g \/ i \in OpenIn(p)
  BY <1>6, <1>9, ToBool
<1>11. PICK c : c = b.quads
  OBVIOUS
<1>12. Numbered(c) /\ stop \in DOMAIN c /\ c[stop].label = 0 /\ stop \in JumpsOf(c)
  <2>1. stop \in DOMAIN p /\ p[stop].label = 0 /\ p[stop].op \in Tests
    <3>1. stop \in DOMAIN q1 /\ q1[stop].label = 0 /\ q1[stop].op \in Tests
      BY <1>1, <1>2, <1>3, <1>4, QuadsEmitted DEF Tests
    <3>2. QED BY <1>4, <1>5, <3>1
  <2>2. Grown(p, c, {})
    BY <1>10, <1>11
  <2>3. /\ Numbered(c) /\ stop \in DOMAIN c
        /\ c[stop].label = p[stop].label /\ c[stop].op = p[stop].op
    BY ONLY <2>1, <2>2 DEF Grown, Alike
  <2>4. QED BY ONLY <2>1, <2>3 DEF JumpsOf
<1>13. /\ Grown(c, r, {stop}) /\ NextQuad(r) = NextQuad(c) /\ DOMAIN r = DOMAIN c
       /\ \A i \in DOMAIN c : r[i] = c[i]
  <2>1. r = Labelled(c, {stop}, 0) /\ 0 <= NextQuad(c)
    BY <1>11, <1>12 DEF NewList, Numbered
  <2>2. QED BY <1>12, <2>1, LabelledFacts
<1>14. Numbered(r) /\ stop \in DOMAIN r /\ r[stop].label = 0 /\ stop \in JumpsOf(r)
  BY <1>12, <1>13 DEF Grown, JumpsOf
<1>15. Grown(c, r, {})
  BY <1>13 DEF Grown
<1>16. Waits(r, b.expr, u, g)
  BY <1>10, <1>11, <1>12, <1>15, WaitsStays
<1>17. Listed(r, stop, Alone(stop)) /\ Alone(stop) \subseteq JumpsOf(r)
  BY <1>14, ListOfOne DEF Alone
<1>18. Grown(q, r, {}) /\ NextQuad(r) <= n + 4
  <2>1. Grown(q, c, {})
    BY <1>7, <1>10, <1>11, GrownTwice
  <2>2. Grown(q, r, {})
    BY <1>15, <2>1, GrownTwice
  <2>3. NextQuad(c) \in Nat
    BY <1>12 DEF Numbered
  <2>4. QED BY <1>3, <1>5, <1>10, <1>11, <1>13, <2>2, <2>3
<1>19. \A i \in Alone(stop) : i \notin u /\ i \notin g /\ i \notin DOMAIN q
  <2>1. stop \notin DOMAIN q /\ stop \in DOMAIN p
    BY <1>3, <1>4, <1>5
  <2>2. \A i \in t \cup f : i \in DOMAIN q
    BY WaitsFor
  <2>3. QED BY <1>10, <2>1, <2>2 DEF Alone
<1>20. \A i \in u \cup g : i \in t \cup f \/ i \notin DOMAIN q
  BY <1>3, <1>5, <1>10
<1>21. \A i \in OpenIn(r) : i = 0 \/ i \in u \cup g \/ i \in Alone(stop) \/ i \in OpenIn(q)
  <2>1. SUFFICES ASSUME NEW i \in OpenIn(r), i # 0, i \notin u \cup g, i # stop
                 PROVE  i \in OpenIn(q)
    BY DEF Alone
  <2>2. i \in OpenIn(c)
    BY <1>12, <1>13, <2>1 DEF OpenIn, JumpsOf
  <2>3. i \in OpenIn(p)
    BY <1>10, <1>11, <2>1, <2>2
  <2>4. i \in DOMAIN p /\ p[i].label = 0
    BY <2>3 DEF OpenIn, JumpsOf
  <2>5. i # pass
    BY <1>3, <1>5, <2>4
  <2>6. i \in DOMAIN q
    BY <1>3, <1>4, <1>5, <2>1, <2>4, <2>5
  <2>7. QED BY <1>7, <2>3, <2>6, OpenGrown
<1>22. \A i \in DOMAIN q : i < n
  BY DEF Numbered
<1>23. PICK al : al = Alone(stop)
  OBVIOUS
<1>24. \E y, z : /\ Waits(r, b.expr, y, z) /\ IsBool(b.expr)
                 /\ Grown(q, r, {}) /\ NextQuad(r) <= n + 4 /\ NextQuad(r) = NextQuad(b.quads)
                 /\ Listed(r, stop, Alone(stop)) /\ Alone(stop) \subseteq JumpsOf(r)
                 /\ \A i \in Alone(stop) : i \notin y /\ i \notin z /\ i \notin DOMAIN q
                 /\ t \subseteq y /\ f \subseteq z
                 /\ \A i \in y \cup z : i \in t \cup f \/ i \notin DOMAIN q
                 /\ \A i \in OpenIn(r) : i = 0 \/ i \in y \cup z \/ i \in Alone(stop)
                                         \/ i \in OpenIn(q)
  <2>1. Waits(r, b.expr, u, g) /\ IsBool(b.expr) /\ t \subseteq u /\ f \subseteq g
    BY <1>10, <1>11, <1>16
  <2>2. Grown(q, r, {}) /\ NextQuad(r) <= n + 4 /\ NextQuad(r) = NextQuad(b.quads)
    BY <1>10, <1>11, <1>13, <1>18
  <2>3. Listed(r, stop, Alone(stop)) /\ Alone(stop) \subseteq JumpsOf(r)
    BY <1>17
  <2>4. QED BY ONLY <1>19, <1>20, <1>21, <2>1, <2>2, <2>3
<1>25. DOMAIN r = DOMAIN b.quads /\ \A i \in DOMAIN r : r[i] = b.quads[i]
  BY <1>11, <1>13
<1>26. \A i \in DOMAIN p : i \in DOMAIN q \/ i = n \/ i = n + 1
  BY <1>3, <1>5
<1>27. n \in DOMAIN p /\ n + 1 \in DOMAIN p
  BY <1>3, <1>5
<1>28. QED BY <1>2, <1>3, <1>5, <1>7, <1>8, <1>9, <1>22, <1>24, <1>25, <1>26, <1>27
-----------------------------------------------------------------------------
(* The actions. *)
LEMMA Values3 ==
  /\ \A b : Truth(b) \in {T, F, U}
  /\ "jump" \in Tests /\ "if_eq" \in Tests /\ "if_noteq" \in Tests /\ "if_less" \in Tests
BY DEF Truth, Tests

(* The operands on the stack. *)
LEMMA Operands ==
  ASSUME BoolExprInv, mode = "parse", Depth >= 2
  PROVE  \E P, N, Old :
           /\ StackAt(quads, exprs, P, N) /\ (~lost => Covered(quads, exprs, P, N))
           /\ Old = (P[Depth - 1] \cup N[Depth - 1]) \cup (P[Depth] \cup N[Depth])
           /\ IsUpper(exprs, P, N, Depth - 2, Old)
           /\ Waits(quads, Below, P[Depth - 1], N[Depth - 1]) /\ Waits(quads, Top, P[Depth], N[Depth])
           /\ \A i \in P[Depth - 1] \cup N[Depth - 1] : i \notin P[Depth] /\ i \notin N[Depth]
<1>1. exprs \in Seq(Exprs) /\ Depth = Len(exprs)
  BY DEF BoolExprInv, TypeInv, Depth
<1>2. PICK P, N : StackAt(quads, exprs, P, N) /\ (~lost => Covered(quads, exprs, P, N))
  BY DEF BoolExprInv, ListsInv
<1>3. PICK k : k = Len(exprs)
  OBVIOUS
<1>4. PICK Old : Old = (P[k - 1] \cup N[k - 1]) \cup (P[k] \cup N[k])
  OBVIOUS
<1>5. IsUpper(exprs, P, N, k - 2, Old) /\ k \in DOMAIN exprs /\ k - 1 \in DOMAIN exprs /\ k # k - 1
  BY <1>1, <1>3, <1>4, UpperTwo
<1>6. Waits(quads, exprs[k - 1], P[k - 1], N[k - 1]) /\ Waits(quads, exprs[k], P[k], N[k])
  BY <1>2, <1>5 DEF StackAt
<1>7. (P[k - 1] \cup N[k - 1]) \cap (P[k] \cup N[k]) = {}
  BY <1>2, <1>5 DEF StackAt
<1>8. \A i \in P[k - 1] \cup N[k - 1] : i \notin P[k] /\ i \notin N[k]
  BY <1>7
<1>9. Depth = k
  BY <1>1, <1>3
<1>10. QED BY <1>2, <1>4, <1>5, <1>6, <1>8, <1>9 DEF Below, Top

LEMMA ClobberKeeps ==
  ASSUME BoolExprInv, Clobber
  PROVE  BoolExprInv'
<1>1. TypeInv'
  BY DEF BoolExprInv, TypeInv, Clobber
<1>2. ListsInv'
  BY DEF Clobber, ListsInv
<1>3. QED BY <1>1, <1>2 DEF BoolExprInv

LEMMA RoomFor ==
  ASSUME BoolExprInv, NEW n \in Nat, Room(n)
  PROVE  /\ mode = "parse" /\ NextQuad(quads) \in Nat /\ NextQuad(quads) + n <= MaxQuads
         /\ Numbered(quads) /\ MaxQuads \in Nat /\ lost \in BOOLEAN
BY Places DEF Room, BoolExprInv, TypeInv, Numbered

LEMMA NotKeeps ==
  ASSUME BoolExprInv, Not
  PROVE  BoolExprInv'
<1>1. /\ mode = "parse" /\ NextQuad(quads) \in Nat /\ NextQuad(quads) + 2 <= MaxQuads
      /\ Numbered(quads) /\ MaxQuads \in Nat /\ lost \in BOOLEAN
  BY RoomFor DEF Not
<1>2. CASE Top.kind = "nil"
  BY <1>2, ClobberKeeps DEF Not
<1>3. CASE Top.kind # "nil"
  <2>1. PICK b, e : b = ConvertToBool(quads, Top) /\ e = b.expr
    OBVIOUS
  <2>2. PICK x : x = Bool(Unwritten, e.falselist, e.truelist, e.start, Truth(e.val = F), e.sound)
    OBVIOUS
  <2>3. Depth >= 1 /\ Reduce(1, b.quads, x) /\ lost' = lost
    BY <1>3, <2>1, <2>2 DEF Not
  <2>4. exprs \in Seq(Exprs) /\ Depth = Len(exprs)
    BY DEF BoolExprInv, TypeInv, Depth
  <2>5. PICK P, N : StackAt(quads, exprs, P, N) /\ (~lost => Covered(quads, exprs, P, N))
    BY <1>1 DEF BoolExprInv, ListsInv
  <2>6. PICK k : k = Len(exprs)
    OBVIOUS
  <2>7. PICK Old : Old = P[k] \cup N[k]
    OBVIOUS
  <2>8. IsUpper(exprs, P, N, k - 1, Old) /\ k \in DOMAIN exprs
    BY <2>3, <2>4, <2>6, <2>7, UpperOne
  <2>9. Waits(quads, Top, P[k], N[k])
    BY <2>4, <2>5, <2>6, <2>8 DEF StackAt, Top
  <2>10. PICK u, g :
           /\ Waits(b.quads, b.expr, u, g) /\ IsBool(b.expr)
           /\ Grown(quads, b.quads, {}) /\ NextQuad(b.quads) <= NextQuad(quads) + 2
           /\ P[k] \subseteq u /\ N[k] \subseteq g
           /\ \A i \in u \cup g : i \in P[k] \cup N[k] \/ i \notin DOMAIN quads
           /\ \A i \in OpenIn(b.quads) : i = 0 \/ i \in u \cup g \/ i \in OpenIn(quads)
    BY <1>1, <2>1, <2>9, ToBool
  <2>11. PICK r : r = b.quads
    OBVIOUS
  <2>12. Numbered(r) /\ NextQuad(r) \in Nat
    BY <2>10, <2>11 DEF Grown, Numbered
  <2>13. Waits(r, x, g, u)
    <3>1. /\ Listed(r, e.truelist, u) /\ Listed(r, e.falselist, g) /\ u \cap g = {}
          /\ u \subseteq JumpsOf(r) /\ g \subseteq JumpsOf(r) /\ e.start \in Nat /\ e.sound \in BOOLEAN
      BY <2>1, <2>10, <2>11 DEF Waits, IsExpr, Exprs
    <3>2. g \cap u = {} /\ Truth(e.val = F) \in {T, F, U}
      BY <3>1, Values3
    <3>3. PICK v : v = Truth(e.val = F) /\ v \in {T, F, U}
      BY <3>2
    <3>4. x = Bool(Unwritten, e.falselist, e.truelist, e.start, v, e.sound)
      BY <2>2, <3>3
    <3>5. QED BY <2>12, <3>1, <3>2, <3>3, <3>4, BoolWaits
  <2>14. Grown(quads, r, Old) /\ NextQuad(r) <= MaxQuads
    BY <1>1, <2>10, <2>11, <2>12 DEF Grown
  <2>15. \A i \in g \cup u : i \in Old \/ i \notin DOMAIN quads
    BY <2>7, <2>10
  <2>16. \A i \in OpenIn(r) : i = 0 \/ i \in g \cup u \/ (i \in OpenIn(quads) /\ i \notin Old)
    BY <2>7, <2>10, <2>11
  <2>17. IsUpper(exprs, P, N, Depth - 1, Old) /\ Reduce(1, r, x)
    BY <2>3, <2>4, <2>6, <2>8, <2>11
  <2>18. QED
    <3>1. lost' \in BOOLEAN /\ (lost => lost') /\ 1 \in {1, 2}
      BY <1>1, <2>3
    <3>2. QED BY <1>1, <2>3, <2>5, <2>13, <2>14, <2>15, <2>16, <2>17, <3>1, ReduceKeeps
<1>4. QED BY <1>2, <1>3

LEMMA AfterBoolKeeps ==
  ASSUME BoolExprInv, Room(4), Depth >= 2, IsBool(Below), NEW val \in {T, F, U}, NEW isAnd \in BOOLEAN,
         NEW pass, pass = (IF isAnd THEN Below.truelist ELSE Below.falselist),
         NEW stop, stop = (IF isAnd THEN Below.falselist ELSE Below.truelist),
         AfterBool(Below, Top, val, pass, stop, isAnd)
  PROVE  BoolExprInv'
<1>1. /\ mode = "parse" /\ NextQuad(quads) \in Nat /\ NextQuad(quads) + 4 <= MaxQuads
      /\ Numbered(quads) /\ MaxQuads \in Nat /\ lost \in BOOLEAN
  BY RoomFor
<1>2. PICK P, N, Old :
        /\ StackAt(quads, exprs, P, N) /\ (~lost => Covered(quads, exprs, P, N))
        /\ Old = (P[Depth - 1] \cup N[Depth - 1]) \cup (P[Depth] \cup N[Depth])
        /\ IsUpper(exprs, P, N, Depth - 2, Old)
        /\ Waits(quads, Below, P[Depth - 1], N[Depth - 1]) /\ Waits(quads, Top, P[Depth], N[Depth])
        /\ \A i \in P[Depth - 1] \cup N[Depth - 1] : i \notin P[Depth] /\ i \notin N[Depth]
  BY <1>1, Operands
<1>3. PICK t, f, t1, f1 : t = P[Depth] /\ f = N[Depth] /\ t1 = P[Depth - 1] /\ f1 = N[Depth - 1]
  OBVIOUS
<1>4. PICK S, Z : S = (IF isAnd THEN t1 ELSE f1) /\ Z = (IF isAnd THEN f1 ELSE t1)
  OBVIOUS
<1>5. PICK l, e : l = Below /\ e = Top
  OBVIOUS
<1>6. /\ Listed(quads, l.truelist, t1) /\ Listed(quads, l.falselist, f1) /\ t1 \cap f1 = {}
      /\ t1 \subseteq JumpsOf(quads) /\ f1 \subseteq JumpsOf(quads)
      /\ l.start \in Nat /\ l.sound \in BOOLEAN
  BY <1>2, <1>3, <1>5 DEF Waits, IsExpr, Exprs
<1>7. /\ Listed(quads, pass, S) /\ Listed(quads, stop, Z) /\ S \cap Z = {}
      /\ \A i \in S \cup Z : i \notin t /\ i \notin f /\ i \in JumpsOf(quads)
  BY <1>2, <1>3, <1>4, <1>5, <1>6
<1>8. PICK b, c : b = ConvertToBool(quads, e) /\ c = b.expr
  OBVIOUS
<1>9. PICK q : q = PatchToRight(b.quads, pass, c)
  OBVIOUS
<1>10. PICK u, g :
         /\ Waits(b.quads, b.expr, u, g) /\ Waits(q, b.expr, u, g) /\ IsBool(b.expr)
         /\ Grown(quads, q, S) /\ NextQuad(q) <= NextQuad(quads) + 2 /\ DOMAIN q = DOMAIN b.quads
         /\ Listed(q, stop, Z) /\ t \subseteq u /\ f \subseteq g
         /\ \A i \in u \cup g : i \in t \cup f \/ i \notin DOMAIN quads
         /\ b.expr.truelist # 0 =>
              \A i \in OpenIn(q) : i = 0 \/ i \in u \cup g \/ (i \in OpenIn(quads) /\ i \notin S)
         /\ \A i \in S : q[i].label = b.expr.truelist
         /\ \A i \in DOMAIN b.quads : i \notin S => q[i] = b.quads[i]
  <2>1. Waits(quads, e, t, f) /\ q = PatchToRight(b.quads, pass, b.expr)
    BY <1>2, <1>3, <1>5, <1>8, <1>9
  <2>2. QED BY <1>1, <1>7, <1>8, <2>1, PassedOn
<1>11. Numbered(q)
  BY <1>10 DEF Grown
<1>12. Z \subseteq JumpsOf(q) /\ \A i \in Z : i \notin u /\ i \notin g
  BY <1>7, <1>10 DEF Grown, JumpsOf, Alike
<1>13. PICK m, tl, fl, sound :
         /\ m = (IF isAnd THEN c.falselist ELSE c.truelist)
         /\ tl = (IF isAnd THEN c.truelist ELSE Merged(stop, c.truelist))
         /\ fl = (IF isAnd THEN Merged(stop, c.falselist) ELSE c.falselist)
         /\ sound = (l.sound /\ c.sound /\ c.start = c.truelist)
  OBVIOUS
<1>14. PICK r, x : r = MergeLists(q, stop, m) /\ x = Bool(Unwritten, tl, fl, l.start, val, sound)
  OBVIOUS
<1>15. Reduce(2, r, x) /\ lost' = (lost \/ c.truelist = 0)
  BY <1>5, <1>8, <1>9, <1>13, <1>14 DEF AfterBool
<1>16. PICK su, sg, v, w : /\ su = Z \cup u /\ sg = Z \cup g
                           /\ v = (IF isAnd THEN u ELSE su) /\ w = (IF isAnd THEN sg ELSE g)
  OBVIOUS
<1>17. /\ Waits(r, x, v, w) /\ Grown(q, r, Z) /\ NextQuad(r) = NextQuad(q)
       /\ \A i \in OpenIn(r) : i \in OpenIn(q)
       /\ \A i : i \in v \cup w <=> i \in Z \/ i \in u \/ i \in g
       /\ \A i \in DOMAIN q : i \notin Z => r[i] = q[i]
  <2>1. sound \in BOOLEAN
    BY <1>6, <1>13
  <2>2. Waits(q, c, u, g) /\ IsBool(c) /\ Listed(q, stop, Z)
    BY <1>8, <1>10
  <2>3. PICK start \in Nat : start = l.start
    BY <1>6
  <2>4. /\ Numbered(q) /\ Waits(q, c, u, g) /\ IsBool(c) /\ Listed(q, stop, Z) /\ Z \subseteq JumpsOf(q)
        /\ \A i \in Z : i \notin u /\ i \notin g
        /\ m = Choice(isAnd, c.falselist, c.truelist)
        /\ r = MergeLists(q, stop, m)
        /\ tl = Choice(isAnd, c.truelist, Merged(stop, c.truelist))
        /\ fl = Choice(isAnd, Merged(stop, c.falselist), c.falselist)
        /\ IsOutcome(start, val, sound) /\ isAnd \in BOOLEAN
        /\ x = Bool(Unwritten, tl, fl, start, val, sound)
        /\ su = Z \cup u /\ sg = Z \cup g
        /\ v = Choice(isAnd, u, su) /\ w = Choice(isAnd, sg, g)
    BY <1>11, <1>12, <1>13, <1>14, <1>16, <2>1, <2>2, <2>3 DEF Choice, IsOutcome
  <2>5. QED BY ONLY <2>4, Joined
<1>18. \A i : i \in Old <=> i \in S \/ i \in Z \/ i \in t \/ i \in f
  BY <1>2, <1>3, <1>4
<1>19. Grown(quads, r, Old)
  <2>1. \A i \in DOMAIN quads : i \in S \cup Z => i \in Old
    BY <1>18
  <2>2. QED BY <1>1, <1>10, <1>17, <2>1, GrownTwice
<1>20. NextQuad(r) <= MaxQuads
  BY <1>1, <1>10, <1>11, <1>17 DEF Numbered
<1>21. \A i \in v \cup w : i \in Old \/ i \notin DOMAIN quads
  BY <1>10, <1>17, <1>18
<1>22. ~lost' => \A i \in OpenIn(r) : i = 0 \/ i \in v \cup w \/ (i \in OpenIn(quads) /\ i \notin Old)
  <2>1. SUFFICES ASSUME ~lost', NEW i \in OpenIn(r), i # 0, i \notin v \cup w
                 PROVE  i \in OpenIn(quads) /\ i \notin Old
    OBVIOUS
  <2>2. i \in OpenIn(q) /\ i \notin Z /\ i \notin u /\ i \notin g
    BY <1>17, <2>1
  <2>3. b.expr.truelist # 0
    BY <1>8, <1>15, <2>1
  <2>4. i \in OpenIn(quads) /\ i \notin S
    BY <1>10, <2>1, <2>2, <2>3
  <2>5. QED BY <1>10, <1>18, <2>2, <2>4
<1>23. lost' \in BOOLEAN /\ (lost => lost') /\ 2 \in {1, 2}
  BY <1>1, <1>15
<1>24. QED BY <1>1, <1>2, <1>15, <1>17, <1>19, <1>20, <1>21, <1>22, <1>23, ReduceKeeps

LEMMA AfterValueKeeps ==
  ASSUME BoolExprInv, Room(4), Depth >= 2, NEW val \in {T, F, U}, NEW isAnd \in BOOLEAN,
         ~IsBool(Below), AfterValue(Below, Top, val, isAnd)
  PROVE  BoolExprInv'
<1>1. /\ mode = "parse" /\ NextQuad(quads) \in Nat /\ NextQuad(quads) + 4 <= MaxQuads
      /\ Numbered(quads) /\ MaxQuads \in Nat /\ lost \in BOOLEAN
  BY RoomFor
<1>2. PICK P, N, Old :
        /\ StackAt(quads, exprs, P, N) /\ (~lost => Covered(quads, exprs, P, N))
        /\ Old = (P[Depth - 1] \cup N[Depth - 1]) \cup (P[Depth] \cup N[Depth])
        /\ IsUpper(exprs, P, N, Depth - 2, Old)
        /\ Waits(quads, Below, P[Depth - 1], N[Depth - 1]) /\ Waits(quads, Top, P[Depth], N[Depth])
        /\ \A i \in P[Depth - 1] \cup N[Depth - 1] : i \notin P[Depth] /\ i \notin N[Depth]
  BY <1>1, Operands
<1>3. PICK t, f : t = P[Depth] /\ f = N[Depth]
  OBVIOUS
<1>4. P[Depth - 1] = {} /\ N[Depth - 1] = {}
  BY <1>2 DEF Waits
<1>5. PICK l, e : l = Below /\ e = Top
  OBVIOUS
<1>6. IsExpr(l) /\ l.start \in Nat /\ l.sound \in BOOLEAN /\ Waits(quads, e, t, f)
  BY <1>2, <1>3, <1>5 DEF Waits, IsExpr, Exprs
<1>7. PICK n, pass, stop : /\ n = NextQuad(quads)
                           /\ pass = (IF isAnd THEN n ELSE n + 1) /\ stop = (IF isAnd THEN n + 1 ELSE n)
  OBVIOUS
<1>8. PICK q1, p : q1 = WithTest(quads, IfTrue(l.place)) /\ p = PatchLabel(q1, pass, NextQuad(q1))
  OBVIOUS
<1>9. PICK b, c : b = ConvertToBool(p, e) /\ c = b.expr
  OBVIOUS
<1>10. PICK q : q = NewList(b.quads, stop)
  OBVIOUS
<1>11. PICK u, g :
         /\ Waits(q, b.expr, u, g) /\ IsBool(b.expr)
         /\ Grown(quads, q, {}) /\ NextQuad(q) <= n + 4 /\ NextQuad(q) = NextQuad(b.quads)
         /\ Listed(q, stop, Alone(stop)) /\ Alone(stop) \subseteq JumpsOf(q)
         /\ \A i \in Alone(stop) : i \notin u /\ i \notin g /\ i \notin DOMAIN quads
         /\ t \subseteq u /\ f \subseteq g
         /\ \A i \in u \cup g : i \in t \cup f \/ i \notin DOMAIN quads
         /\ \A i \in OpenIn(q) : i = 0 \/ i \in u \cup g \/ i \in Alone(stop)
                                 \/ i \in OpenIn(quads)
  <2>1. PICK p0 : p0 = quads
    OBVIOUS
  <2>2. /\ Numbered(p0) /\ n = NextQuad(p0) /\ IsExpr(l) /\ Waits(p0, e, t, f) /\ isAnd \in BOOLEAN
        /\ pass = (IF isAnd THEN n ELSE n + 1) /\ stop = (IF isAnd THEN n + 1 ELSE n)
        /\ q1 = WithTest(p0, IfTrue(l.place)) /\ p = PatchLabel(q1, pass, NextQuad(q1))
        /\ b = ConvertToBool(p, e) /\ q = NewList(b.quads, stop)
    BY <1>1, <1>6, <1>7, <1>8, <1>9, <1>10, <2>1
  <2>3. \E u, g : /\ Waits(q, b.expr, u, g) /\ IsBool(b.expr)
                  /\ Grown(p0, q, {}) /\ NextQuad(q) <= n + 4 /\ NextQuad(q) = NextQuad(b.quads)
                  /\ Listed(q, stop, Alone(stop)) /\ Alone(stop) \subseteq JumpsOf(q)
                  /\ \A i \in Alone(stop) : i \notin u /\ i \notin g /\ i \notin DOMAIN p0
                  /\ t \subseteq u /\ f \subseteq g
                  /\ \A i \in u \cup g : i \in t \cup f \/ i \notin DOMAIN p0
                  /\ \A i \in OpenIn(q) : i = 0 \/ i \in u \cup g \/ i \in Alone(stop)
                                          \/ i \in OpenIn(p0)
    BY ONLY <2>2, TestBehind
  <2>4. QED BY <2>1, <2>3
<1>12. PICK Z : Z = Alone(stop)
  OBVIOUS
<1>13. Numbered(q)
  BY <1>11 DEF Grown
<1>14. PICK m, tl, fl, sound :
         /\ m = (IF isAnd THEN c.falselist ELSE c.truelist)
         /\ tl = (IF isAnd THEN c.truelist ELSE Merged(stop, c.truelist))
         /\ fl = (IF isAnd THEN Merged(stop, c.falselist) ELSE c.falselist)
         /\ sound = (l.sound /\ c.sound /\ ~IsBool(e) /\ n # 0)
  OBVIOUS
<1>15. PICK r, x : r = MergeLists(q, stop, m) /\ x = Bool(Unwritten, tl, fl, l.start, val, sound)
  OBVIOUS
<1>16. Reduce(2, r, x) /\ lost' = (lost \/ (n = 0 /\ ~isAnd))
  BY <1>5, <1>7, <1>8, <1>9, <1>10, <1>14, <1>15 DEF AfterValue
<1>17. PICK su, sg, v, w : /\ su = Z \cup u /\ sg = Z \cup g
                           /\ v = (IF isAnd THEN u ELSE su) /\ w = (IF isAnd THEN sg ELSE g)
  OBVIOUS
<1>18. /\ Waits(r, x, v, w) /\ Grown(q, r, Z) /\ NextQuad(r) = NextQuad(q)
       /\ \A i \in OpenIn(r) : i \in OpenIn(q)
       /\ \A i : i \in v \cup w <=> i \in Z \/ i \in u \/ i \in g
       /\ \A i \in DOMAIN q : i \notin Z => r[i] = q[i]
  <2>1. sound \in BOOLEAN
    BY <1>6, <1>14 DEF IsBool
  <2>2. Waits(q, c, u, g) /\ IsBool(c) /\ Listed(q, stop, Z) /\ Z \subseteq JumpsOf(q)
    BY <1>9, <1>11, <1>12
  <2>3. \A i \in Z : i \notin u /\ i \notin g
    BY <1>11, <1>12
  <2>4. PICK start \in Nat : start = l.start
    BY <1>6
  <2>5. /\ Numbered(q) /\ Waits(q, c, u, g) /\ IsBool(c) /\ Listed(q, stop, Z) /\ Z \subseteq JumpsOf(q)
        /\ \A i \in Z : i \notin u /\ i \notin g
        /\ m = Choice(isAnd, c.falselist, c.truelist)
        /\ r = MergeLists(q, stop, m)
        /\ tl = Choice(isAnd, c.truelist, Merged(stop, c.truelist))
        /\ fl = Choice(isAnd, Merged(stop, c.falselist), c.falselist)
        /\ IsOutcome(start, val, sound) /\ isAnd \in BOOLEAN
        /\ x = Bool(Unwritten, tl, fl, start, val, sound)
        /\ su = Z \cup u /\ sg = Z \cup g
        /\ v = Choice(isAnd, u, su) /\ w = Choice(isAnd, sg, g)
    BY <1>13, <1>14, <1>15, <1>17, <2>1, <2>2, <2>3, <2>4 DEF Choice, IsOutcome
  <2>6. QED BY ONLY <2>5, Joined
<1>19. \A i : i \in Old <=> i \in t \/ i \in f
  BY <1>2, <1>3, <1>4
<1>20. Grown(quads, r, Old)
  <2>1. \A i \in DOMAIN quads : i \in {} \cup Z => i \in Old
    BY <1>11, <1>12
  <2>2. QED BY <1>1, <1>11, <1>18, <2>1, GrownTwice
<1>21. NextQuad(r) <= MaxQuads
  BY <1>1, <1>7, <1>11, <1>13, <1>18 DEF Numbered
<1>22. \A i \in v \cup w : i \in Old \/ i \notin DOMAIN quads
  BY <1>11, <1>12, <1>18, <1>19
<1>23. \A i \in OpenIn(r) : i = 0 \/ i \in v \cup w \/ (i \in OpenIn(quads) /\ i \notin Old)
  BY <1>11, <1>12, <1>18, <1>19
<1>24. lost' \in BOOLEAN /\ (lost => lost') /\ 2 \in {1, 2}
  BY <1>1, <1>16
<1>25. QED BY <1>1, <1>2, <1>16, <1>18, <1>20, <1>21, <1>22, <1>23, <1>24, ReduceKeeps

LEMMA AndKeeps ==
  ASSUME BoolExprInv, And
  PROVE  BoolExprInv'
<1>1. PICK val : val = Truth(Below.val = T /\ Top.val = T)
  OBVIOUS
<1>2. val \in {T, F, U} /\ Room(4) /\ Depth >= 2
  BY <1>1, Values3 DEF And
<1>3. CASE "nil" \in {Below.kind, Top.kind}
  BY <1>3, ClobberKeeps DEF And
<1>4. CASE "nil" \notin {Below.kind, Top.kind} /\ IsBool(Below)
  <2>1. AfterBool(Below, Top, val, Below.truelist, Below.falselist, TRUE)
    BY <1>1, <1>4 DEF And
  <2>2. PICK pass, stop : pass = Below.truelist /\ stop = Below.falselist
    OBVIOUS
  <2>3. /\ TRUE \in BOOLEAN /\ pass = (IF TRUE THEN Below.truelist ELSE Below.falselist)
        /\ stop = (IF TRUE THEN Below.falselist ELSE Below.truelist)
    BY <2>2
  <2>4. AfterBool(Below, Top, val, pass, stop, TRUE)
    BY <2>1, <2>2
  <2>5. QED BY <1>2, <1>4, <2>3, <2>4, AfterBoolKeeps
<1>5. CASE "nil" \notin {Below.kind, Top.kind} /\ ~IsBool(Below)
  <2>1. AfterValue(Below, Top, val, TRUE)
    BY <1>1, <1>5 DEF And
  <2>2. QED BY <1>2, <1>5, <2>1, AfterValueKeeps
<1>6. QED BY <1>3, <1>4, <1>5

LEMMA OrKeeps ==
  ASSUME BoolExprInv, Or
  PROVE  BoolExprInv'
<1>1. PICK val : val = Truth(Below.val = T \/ Top.val = T)
  OBVIOUS
<1>2. val \in {T, F, U} /\ Room(4) /\ Depth >= 2
  BY <1>1, Values3 DEF Or
<1>3. CASE "nil" \in {Below.kind, Top.kind}
  BY <1>3, ClobberKeeps DEF Or
<1>4. CASE "nil" \notin {Below.kind, Top.kind} /\ IsBool(Below)
  <2>1. AfterBool(Below, Top, val, Below.falselist, Below.truelist, FALSE)
    BY <1>1, <1>4 DEF Or
  <2>2. PICK pass, stop : pass = Below.falselist /\ stop = Below.truelist
    OBVIOUS
  <2>3. /\ FALSE \in BOOLEAN /\ pass = (IF FALSE THEN Below.truelist ELSE Below.falselist)
        /\ stop = (IF FALSE THEN Below.falselist ELSE Below.truelist)
    BY <2>2
  <2>4. AfterBool(Below, Top, val, pass, stop, FALSE)
    BY <2>1, <2>2
  <2>5. QED BY <1>2, <1>4, <2>3, <2>4, AfterBoolKeeps
<1>5. CASE "nil" \notin {Below.kind, Top.kind} /\ ~IsBool(Below)
  <2>1. AfterValue(Below, Top, val, FALSE)
    BY <1>1, <1>5 DEF Or
  <2>2. QED BY <1>2, <1>5, <2>1, AfterValueKeeps
<1>6. QED BY <1>3, <1>4, <1>5

LEMMA EqualityKeeps ==
  ASSUME BoolExprInv, NEW op \in Tests, NEW val \in {T, F, U}, Equality(op, val)
  PROVE  BoolExprInv'
<1>1. /\ mode = "parse" /\ NextQuad(quads) \in Nat /\ NextQuad(quads) + 8 <= MaxQuads
      /\ Numbered(quads) /\ MaxQuads \in Nat /\ lost \in BOOLEAN
  BY RoomFor DEF Equality
<1>2. Depth >= 2 /\ lost' = lost
  BY DEF Equality
<1>3. PICK P, N, Old :
        /\ StackAt(quads, exprs, P, N) /\ (~lost => Covered(quads, exprs, P, N))
        /\ Old = (P[Depth - 1] \cup N[Depth - 1]) \cup (P[Depth] \cup N[Depth])
        /\ IsUpper(exprs, P, N, Depth - 2, Old)
        /\ Waits(quads, Below, P[Depth - 1], N[Depth - 1]) /\ Waits(quads, Top, P[Depth], N[Depth])
        /\ \A i \in P[Depth - 1] \cup N[Depth - 1] : i \notin P[Depth] /\ i \notin N[Depth]
  BY <1>1, <1>2, Operands
<1>4. PICK t, f, t1, f1 : t = P[Depth] /\ f = N[Depth] /\ t1 = P[Depth - 1] /\ f1 = N[Depth - 1]
  OBVIOUS
<1>5. PICK V1, V : V1 = t1 \cup f1 /\ V = t \cup f
  OBVIOUS
<1>6. PICK l : l = ConvertToValue(quads, Below)
  OBVIOUS
<1>7. PICK q1 : q1 = l.quads
  OBVIOUS
<1>8. /\ Waits(q1, l.expr, {}, {}) /\ Grown(quads, q1, V1) /\ NextQuad(q1) <= NextQuad(quads) + 3
      /\ \A i \in OpenIn(q1) : i \in OpenIn(quads) /\ i \notin V1
  <2>1. Waits(quads, Below, t1, f1) /\ NextQuad(quads) + 3 <= MaxQuads
    BY <1>1, <1>3, <1>4
  <2>2. /\ Waits(l.quads, l.expr, {}, {}) /\ ~IsBool(l.expr)
        /\ Grown(quads, l.quads, V1) /\ NextQuad(l.quads) <= NextQuad(quads) + 3
        /\ \A i \in OpenIn(l.quads) : i \in OpenIn(quads) /\ i \notin V1
    BY <1>1, <1>5, <1>6, <2>1, ToValue
  <2>3. QED BY <1>7, <2>2
<1>9. Numbered(q1) /\ NextQuad(q1) \in Nat
  BY <1>8 DEF Grown, Numbered
<1>10. Waits(q1, Top, t, f)
  BY <1>1, <1>3, <1>4, <1>5, <1>8, WaitsStays
<1>11. PICK r : r = ConvertToValue(q1, Top)
  OBVIOUS
<1>12. PICK q2 : q2 = r.quads
  OBVIOUS
<1>13. /\ Waits(q2, r.expr, {}, {}) /\ Grown(q1, q2, V) /\ NextQuad(q2) <= NextQuad(q1) + 3
       /\ \A i \in OpenIn(q2) : i \in OpenIn(q1) /\ i \notin V
  <2>1. NextQuad(q1) + 3 <= MaxQuads
    BY <1>1, <1>8, <1>9
  <2>2. /\ Waits(r.quads, r.expr, {}, {}) /\ ~IsBool(r.expr)
        /\ Grown(q1, r.quads, V) /\ NextQuad(r.quads) <= NextQuad(q1) + 3
        /\ \A i \in OpenIn(r.quads) : i \in OpenIn(q1) /\ i \notin V
    BY <1>5, <1>9, <1>10, <1>11, <2>1, ToValue
  <2>3. QED BY <1>12, <2>2
<1>14. Numbered(q2) /\ NextQuad(q2) \in Nat
  BY <1>13 DEF Grown, Numbered
<1>15. IsExpr(l.expr) /\ IsExpr(r.expr)
  BY <1>8, <1>13 DEF Waits
<1>16. PICK sound \in BOOLEAN :
         sound = (/\ Below.sound /\ Top.sound
                  /\ IsBool(Below) => Top.start = NextQuad(quads))
  BY <1>3 DEF Waits, IsExpr, Exprs
<1>17. PICK b : b = Compared(q2, op, l.expr, r.expr, val, sound)
  OBVIOUS
<1>18. Reduce(2, b.quads, b.expr)
  BY <1>6, <1>7, <1>11, <1>12, <1>16, <1>17 DEF Equality
<1>19. NextQuad(q2) + 2 <= MaxQuads
  BY <1>1, <1>8, <1>9, <1>13, <1>14
<1>20. PICK u, g : /\ Waits(b.quads, b.expr, u, g) /\ IsBool(b.expr)
                   /\ Grown(q2, b.quads, {}) /\ NextQuad(b.quads) <= NextQuad(q2) + 2
                   /\ \A i \in u \cup g : i \notin DOMAIN q2
                   /\ \A i \in OpenIn(b.quads) : i = 0 \/ i \in u \cup g \/ i \in OpenIn(q2)
  <2>1. PICK le, re : le = l.expr /\ re = r.expr /\ IsExpr(le) /\ IsExpr(re)
    BY <1>15
  <2>2. b = Compared(q2, op, le, re, val, sound)
    BY <1>17, <2>1
  <2>3. QED BY ONLY op \in Tests, val \in {T, F, U}, sound \in BOOLEAN, <1>14, <1>19, <2>1, <2>2, ComparedFacts
<1>21. PICK p, e : p = b.quads /\ e = b.expr
  OBVIOUS
<1>22. \A i : i \in Old <=> i \in V \/ i \in V1
  BY <1>3, <1>4, <1>5
<1>23. Grown(quads, q2, Old)
  <2>1. \A i \in DOMAIN quads : i \in V1 \cup V => i \in Old
    BY <1>22
  <2>2. QED BY <1>1, <1>8, <1>13, <2>1, GrownTwice
<1>24. Grown(quads, p, Old)
  <2>1. \A i \in DOMAIN quads : i \in Old \cup {} => i \in Old
    OBVIOUS
  <2>2. QED BY <1>1, <1>20, <1>21, <1>23, <2>1, GrownTwice
<1>25. NextQuad(p) <= MaxQuads
  <2>1. NextQuad(p) \in Nat
    BY <1>24 DEF Grown, Numbered
  <2>2. QED BY <1>1, <1>14, <1>19, <1>20, <1>21, <2>1
<1>26. \A i \in u \cup g : i \in Old \/ i \notin DOMAIN quads
  BY <1>20, <1>23 DEF Grown
<1>27. \A i \in OpenIn(p) : i = 0 \/ i \in u \cup g \/ (i \in OpenIn(quads) /\ i \notin Old)
  BY <1>8, <1>13, <1>20, <1>21, <1>22
<1>28. lost' \in BOOLEAN /\ (lost => lost') /\ 2 \in {1, 2}
  BY <1>1, <1>2
<1>29. Waits(p, e, u, g) /\ Reduce(2, p, e)
  BY <1>18, <1>20, <1>21
<1>30. QED BY <1>1, <1>2, <1>3, <1>24, <1>25, <1>26, <1>27, <1>28, <1>29, ReduceKeeps

LEMMA LessKeeps ==
  ASSUME BoolExprInv, Less
  PROVE  BoolExprInv'
<1>1. /\ mode = "parse" /\ NextQuad(quads) \in Nat /\ NextQuad(quads) + 2 <= MaxQuads
      /\ Numbered(quads) /\ MaxQuads \in Nat /\ lost \in BOOLEAN
  BY RoomFor DEF Less
<1>2. Depth >= 2 /\ lost' = (lost \/ IsBool(Below) \/ IsBool(Top))
  BY DEF Less
<1>3. PICK P, N, Old :
        /\ StackAt(quads, exprs, P, N) /\ (~lost => Covered(quads, exprs, P, N))
        /\ Old = (P[Depth - 1] \cup N[Depth - 1]) \cup (P[Depth] \cup N[Depth])
        /\ IsUpper(exprs, P, N, Depth - 2, Old)
        /\ Waits(quads, Below, P[Depth - 1], N[Depth - 1]) /\ Waits(quads, Top, P[Depth], N[Depth])
        /\ \A i \in P[Depth - 1] \cup N[Depth - 1] : i \notin P[Depth] /\ i \notin N[Depth]
  BY <1>1, <1>2, Operands
<1>4. PICK val \in {T, F, U} : val = Truth(Below.val < Top.val /\ Top.val # U)
  BY Values3
<1>5. PICK sound \in BOOLEAN : sound = (Below.sound /\ Top.sound /\ ~IsBool(Below) /\ ~IsBool(Top))
  BY <1>3 DEF Waits, IsExpr, Exprs
<1>6. PICK l, r, q : l = Below /\ r = Top /\ q = quads
  OBVIOUS
<1>7. PICK b : b = Compared(q, "if_less", l, r, val, sound)
  OBVIOUS
<1>8. Reduce(2, b.quads, b.expr)
  BY <1>4, <1>5, <1>6, <1>7 DEF Less
<1>9. IsExpr(l) /\ IsExpr(r) /\ Numbered(q) /\ NextQuad(q) + 2 <= MaxQuads /\ "if_less" \in Tests
  BY <1>1, <1>3, <1>6, Values3 DEF Waits
<1>10. PICK u, g : /\ Waits(b.quads, b.expr, u, g) /\ IsBool(b.expr)
                   /\ Grown(q, b.quads, {}) /\ NextQuad(b.quads) <= NextQuad(q) + 2
                   /\ \A i \in u \cup g : i \notin DOMAIN q
                   /\ \A i \in OpenIn(b.quads) : i = 0 \/ i \in u \cup g \/ i \in OpenIn(q)
  BY ONLY val \in {T, F, U}, sound \in BOOLEAN, <1>7, <1>9, ComparedFacts
<1>11. PICK p, e : p = b.quads /\ e = b.expr
  OBVIOUS
<1>12. Grown(quads, p, Old)
  <2>1. \A i \in DOMAIN quads : i \in {} \cup {} => i \in Old
    OBVIOUS
  <2>2. Grown(quads, quads, {})
    BY <1>1, GrownSame
  <2>3. QED BY <1>1, <1>6, <1>10, <1>11, <2>1, <2>2, GrownTwice
<1>13. NextQuad(p) <= MaxQuads
  <2>1. NextQuad(p) \in Nat
    BY <1>12 DEF Grown, Numbered
  <2>2. QED BY <1>1, <1>6, <1>10, <1>11, <2>1
<1>14. \A i \in u \cup g : i \in Old \/ i \notin DOMAIN quads
  BY <1>6, <1>10
<1>15. ~lost' => \A i \in OpenIn(p) : i = 0 \/ i \in u \cup g \/ (i \in OpenIn(quads) /\ i \notin Old)
  <2>1. ~lost' => \A i : i \notin Old
    BY <1>2, <1>3 DEF Waits
  <2>2. QED BY <1>6, <1>10, <1>11, <2>1
<1>16. lost' \in BOOLEAN /\ (lost => lost') /\ 2 \in {1, 2}
  BY <1>1, <1>2 DEF IsBool
<1>17. Waits(p, e, u, g) /\ Reduce(2, p, e)
  BY <1>8, <1>10, <1>11
<1>18. QED BY <1>1, <1>2, <1>3, <1>12, <1>13, <1>14, <1>15, <1>16, <1>17, ReduceKeeps

-----------------------------------------------------------------------------
(* Statements. *)

(* What is left on the stack at the end of an expression. *)
LEMMA LastOperand ==
  ASSUME BoolExprInv, mode = "parse", Depth = 1
  PROVE  \E t, f : Waits(quads, Top, t, f) /\ exprs = << Top >>
<1>1. exprs \in Seq(Exprs) /\ Len(exprs) = 1 /\ Depth = 1
  BY DEF BoolExprInv, TypeInv, Depth
<1>2. DOMAIN exprs = {1} /\ Top = exprs[1]
  BY <1>1, LenProperties DEF Top
<1>3. PICK P, N : StackAt(quads, exprs, P, N)
  BY DEF BoolExprInv, ListsInv
<1>4. Waits(quads, Top, P[1], N[1])
  BY <1>2, <1>3 DEF StackAt
<1>5. exprs = << Top >>
  BY <1>1, <1>2
<1>6. QED BY <1>4, <1>5

LEMMA FinishKeeps ==
  ASSUME BoolExprInv, NEW q, Numbered(q), NextQuad(quads) <= NextQuad(q), NextQuad(q) <= MaxQuads,
         NEW e, exprs = << e >>, NEW place \in 0 .. Result, Finish(q, e, place)
  PROVE  BoolExprInv'
<1>1. TypeInv /\ exprs' = exprs /\ quads' = q /\ mode' = "run" /\ pc' = 0 /\ answer' = place
      /\ read' = read /\ cell' = cell /\ lost' = lost
  BY DEF Finish, BoolExprInv
<1>2. NextQuad(q) \in Nat /\ NextQuad(quads) \in Nat
  BY <1>1 DEF Numbered, TypeInv
<1>3. exprs \in Seq(Exprs)
  BY <1>1 DEF TypeInv
<1>4. \A i \in DOMAIN exprs : exprs[i].truelist \in Nat /\ exprs[i].falselist \in Nat
  BY <1>3 DEF Exprs
<1>5. \A i \in DOMAIN exprs : exprs[i].truelist <= NextQuad(q) /\ exprs[i].falselist <= NextQuad(q)
  BY <1>1, <1>2, <1>4 DEF TypeInv
<1>6. TypeInv'
  BY <1>1, <1>2, <1>5 DEF TypeInv
<1>7. ListsInv'
  BY <1>1 DEF ListsInv
<1>8. QED BY <1>6, <1>7 DEF BoolExprInv

LEMMA FinishValueKeeps ==
  ASSUME BoolExprInv, FinishValue
  PROVE  BoolExprInv'
<1>1. /\ mode = "parse" /\ NextQuad(quads) \in Nat /\ NextQuad(quads) + 3 <= MaxQuads
      /\ Numbered(quads) /\ MaxQuads \in Nat /\ Depth = 1
  BY RoomFor DEF FinishValue
<1>2. PICK t, f : Waits(quads, Top, t, f) /\ exprs = << Top >>
  BY <1>1, LastOperand
<1>3. PICK v, W : v = ConvertToValue(quads, Top) /\ W = t \cup f
  OBVIOUS
<1>4. /\ Waits(v.quads, v.expr, {}, {}) /\ ~IsBool(v.expr)
      /\ Grown(quads, v.quads, W) /\ NextQuad(v.quads) <= NextQuad(quads) + 3
      /\ \A i \in OpenIn(v.quads) : i \in OpenIn(quads) /\ i \notin W
  BY <1>1, <1>2, <1>3, ToValue
<1>5. PICK q, place : q = v.quads /\ place = v.expr.place
  OBVIOUS
<1>6. Numbered(q) /\ NextQuad(q) \in Nat /\ NextQuad(quads) <= NextQuad(q) /\ place \in 0 .. Result
  BY <1>4, <1>5 DEF Grown, Numbered, Waits, IsExpr, Exprs
<1>7. NextQuad(q) <= MaxQuads
  BY <1>1, <1>4, <1>5, <1>6
<1>8. Finish(q, Top, place)
  BY <1>3, <1>5 DEF FinishValue
<1>9. QED BY <1>2, <1>6, <1>7, <1>8, FinishKeeps

(* ifprefix: the jumps taken when the condition holds get their target, and *)
(* so does a test that is emitted now.                                      *)
LEMMA Tested ==
  ASSUME NEW q, Numbered(q), NEW n, n = NextQuad(q), NEW e, NEW t, NEW f, Waits(q, e, t, f),
         NEW r, r = (CASE IsBool(e) -> PatchList(q, e.truelist, n)
                       [] e.kind = "nil" -> Emit(q, Goto)
                       [] OTHER -> PatchLabel(WithTest(q, IfTrue(e.place)), n, n + 2))
  PROVE  Numbered(r) /\ NextQuad(r) \in Nat /\ NextQuad(q) <= NextQuad(r) /\ NextQuad(r) <= n + 2
<1>1. n \in Nat /\ IsExpr(e)
  BY DEF Numbered, Waits
<1>2. CASE IsBool(e)
  <2>1. r = Labelled(q, On(q, e.truelist), n)
    BY <1>2 DEF PatchList, IsBool
  <2>2. PICK S : S = On(q, e.truelist)
    OBVIOUS
  <2>3. Grown(q, r, S) /\ NextQuad(r) = NextQuad(q)
    BY <1>1, <2>1, <2>2, LabelledFacts
  <2>4. QED BY <1>1, <2>3 DEF Grown
<1>3. CASE e.kind = "nil"
  <2>1. r = Emit(q, Goto)
    BY <1>3 DEF IsBool
  <2>2. PICK x : x = Goto
    OBVIOUS
  <2>3. Grown(q, r, {}) /\ NextQuad(r) = n + 1
    BY <2>1, <2>2, QuadsEmitted, EmitGrown
  <2>4. QED BY <1>1, <2>3 DEF Grown
<1>4. CASE ~IsBool(e) /\ e.kind # "nil"
  <2>1. PICK x, p : x = IfTrue(e.place) /\ p = WithTest(q, x)
    OBVIOUS
  <2>2. IsQuad(x) /\ x.label = 0 /\ x.op \in Tests
    BY <1>1, <2>1, QuadsEmitted DEF IsExpr, Exprs, IfTrue, Test, Tests
  <2>3. Grown(q, p, {}) /\ NextQuad(p) = n + 2
    BY <2>1, <2>2, WithTestFacts
  <2>4. PICK S : S = {n}
    OBVIOUS
  <2>5. r = Labelled(p, S, n + 2)
    BY <1>4, <2>1, <2>4 DEF PatchLabel
  <2>6. Numbered(p) /\ n + 2 \in Nat /\ n + 2 <= NextQuad(p)
    BY <1>1, <2>3 DEF Grown
  <2>7. Grown(p, r, S) /\ NextQuad(r) = NextQuad(p)
    BY <2>5, <2>6, LabelledFacts
  <2>8. QED BY <1>1, <2>3, <2>7 DEF Grown
<1>5. QED BY <1>2, <1>3, <1>4

LEMMA FinishIfKeeps ==
  ASSUME BoolExprInv, FinishIf
  PROVE  BoolExprInv'
<1>1. /\ mode = "parse" /\ NextQuad(quads) \in Nat /\ NextQuad(quads) + 3 <= MaxQuads
      /\ Numbered(quads) /\ MaxQuads \in Nat /\ Depth = 1
  BY RoomFor DEF FinishIf
<1>2. PICK t, f : Waits(quads, Top, t, f) /\ exprs = << Top >>
  BY <1>1, LastOperand
<1>3. PICK n, q : /\ n = NextQuad(quads)
                  /\ q = (CASE IsBool(Top) -> PatchList(quads, Top.truelist, n)
                            [] Top.kind = "nil" -> Emit(quads, Goto)
                            [] OTHER -> PatchLabel(WithTest(quads, IfTrue(Top.place)), n, n + 2))
  OBVIOUS
<1>4. Numbered(q) /\ NextQuad(q) \in Nat /\ NextQuad(quads) <= NextQuad(q) /\ NextQuad(q) <= n + 2
  <2>1. PICK p, e : p = quads /\ e = Top
    OBVIOUS
  <2>2. /\ Numbered(p) /\ n = NextQuad(p) /\ Waits(p, e, t, f)
        /\ q = (CASE IsBool(e) -> PatchList(p, e.truelist, n)
                  [] e.kind = "nil" -> Emit(p, Goto)
                  [] OTHER -> PatchLabel(WithTest(p, IfTrue(e.place)), n, n + 2))
    BY <1>1, <1>2, <1>3, <2>1
  <2>3. Numbered(q) /\ NextQuad(q) \in Nat /\ NextQuad(p) <= NextQuad(q) /\ NextQuad(q) <= n + 2
    BY ONLY <2>2, Tested
  <2>4. QED BY <2>1, <2>3
<1>5. PICK x, body : x = Set(Result, T) /\ body = Emit(q, x)
  OBVIOUS
<1>6. IsQuad(x) /\ x.label = 0
  BY <1>5, Places, QuadsEmitted
<1>7. Grown(q, body, {}) /\ NextQuad(body) = NextQuad(q) + 1
  BY <1>4, <1>5, <1>6, EmitGrown
<1>8. PICK list, S, r : /\ list = (IF IsBool(Top) THEN Top.falselist ELSE NextQuad(q) - 1)
                        /\ S = On(body, list) /\ r = PatchList(body, list, NextQuad(body))
  OBVIOUS
<1>9. Grown(body, r, S) /\ NextQuad(r) = NextQuad(body)
  <2>1. r = Labelled(body, S, NextQuad(body))
    BY <1>8 DEF PatchList
  <2>2. Numbered(body) /\ NextQuad(body) \in Nat /\ NextQuad(body) <= NextQuad(body)
    BY <1>4, <1>7 DEF Grown
  <2>3. QED BY <2>1, <2>2, LabelledFacts
<1>10. Finish(r, Top, Result)
  BY <1>3, <1>5, <1>8 DEF FinishIf
<1>11. Numbered(r) /\ NextQuad(quads) <= NextQuad(r) /\ NextQuad(r) <= MaxQuads
  <2>1. Numbered(r)
    BY <1>9 DEF Grown
  <2>2. QED BY <1>1, <1>3, <1>4, <1>7, <1>9, <2>1
<1>12. QED BY <1>2, <1>10, <1>11, Places, FinishKeeps

-----------------------------------------------------------------------------
(* The machine. *)
LEMMA RunKeeps ==
  ASSUME BoolExprInv, Run
  PROVE  BoolExprInv'
<1>1. TypeInv /\ pc \in DOMAIN quads
  BY DEF BoolExprInv, Run
<1>2. PICK n \in Nat : n = NextQuad(quads) /\ DOMAIN quads = 0 .. n - 1
  BY <1>1 DEF TypeInv, Numbered
<1>3. PICK t : t = quads[pc]
  OBVIOUS
<1>4. IsQuad(t) /\ t.label <= n
  BY <1>1, <1>2, <1>3 DEF TypeInv, Numbered
<1>5. t.label \in 0 .. n /\ pc + 1 \in 0 .. n
  BY <1>1, <1>2, <1>4 DEF IsQuad
<1>6. pc' \in 0 .. n /\ mode' \in {"run", "loop"}
  <2>1. CASE t.op \in Tests /\ Holds(t)
    BY <1>3, <1>5, <2>1 DEF Run
  <2>2. CASE ~(t.op \in Tests /\ Holds(t))
    BY <1>3, <1>5, <2>2 DEF Run
  <2>3. QED BY <2>1, <2>2
<1>7. cell' \in [0 .. Result -> {T, F, U}]
  <2>1. CASE t.op = "assign"
    <3>1. t.x \in 0 .. Result /\ t.y \in {T, F, U}
      BY <1>4, <2>1 DEF IsQuad
    <3>2. cell' = [cell EXCEPT ![t.x] = t.y] /\ cell \in [0 .. Result -> {T, F, U}]
      BY <1>1, <1>3, <2>1 DEF Run, TypeInv
    <3>3. QED BY <3>1, <3>2
  <2>2. CASE t.op # "assign"
    BY <1>1, <1>3, <2>2 DEF Run, TypeInv
  <2>3. QED BY <2>1, <2>2
<1>8. UNCHANGED <<quads, exprs, read, answer, lost>>
  BY DEF Run
<1>9. TypeInv'
  BY <1>1, <1>2, <1>6, <1>7, <1>8 DEF TypeInv
<1>10. ListsInv'
  BY <1>6 DEF ListsInv
<1>11. QED BY <1>9, <1>10 DEF BoolExprInv

LEMMA EndedKeeps ==
  ASSUME BoolExprInv, Ended
  PROVE  BoolExprInv'
<1>1. TypeInv'
  BY DEF BoolExprInv, TypeInv, Ended
<1>2. ListsInv'
  BY DEF Ended, ListsInv
<1>3. QED BY <1>1, <1>2 DEF BoolExprInv

LEMMA StepKeeps == BoolExprInv /\ [Next]_vars => BoolExprInv'
<1>1. SUFFICES ASSUME BoolExprInv, [Next]_vars PROVE BoolExprInv'
  OBVIOUS
<1>2. ASSUME NEW v \in {T, F}, ReadVariable(v) PROVE BoolExprInv'
  BY <1>1, <1>2, ReadVariableKeeps
<1>3. ASSUME NEW v \in {T, F}, ReadComputed(v) PROVE BoolExprInv'
  BY <1>1, <1>3, ReadComputedKeeps
<1>4. CASE ReadNil
  BY <1>1, <1>4, ReadNilKeeps
<1>5. CASE Not
  BY <1>1, <1>5, NotKeeps
<1>6. CASE And
  BY <1>1, <1>6, AndKeeps
<1>7. CASE Or
  BY <1>1, <1>7, OrKeeps
<1>8. CASE Equal
  <2>1. PICK val : val = Truth(Below.val = Top.val)
    OBVIOUS
  <2>2. val \in {T, F, U} /\ "if_eq" \in Tests /\ Equality("if_eq", val)
    BY <1>8, <2>1, Values3 DEF Equal
  <2>3. QED BY <1>1, <2>2, EqualityKeeps
<1>9. CASE NotEqual
  <2>1. PICK val : val = Truth(Below.val # Top.val)
    OBVIOUS
  <2>2. val \in {T, F, U} /\ "if_noteq" \in Tests /\ Equality("if_noteq", val)
    BY <1>9, <2>1, Values3 DEF NotEqual
  <2>3. QED BY <1>1, <2>2, EqualityKeeps
<1>10. CASE Less
  BY <1>1, <1>10, LessKeeps
<1>11. CASE FinishValue
  BY <1>1, <1>11, FinishValueKeeps
<1>12. CASE FinishIf
  BY <1>1, <1>12, FinishIfKeeps
<1>13. CASE Run
  BY <1>1, <1>13, RunKeeps
<1>14. CASE Ended
  BY <1>1, <1>14, EndedKeeps
<1>15. CASE UNCHANGED vars
  <2>1. TypeInv'
    BY <1>1, <1>15 DEF vars, BoolExprInv, TypeInv
  <2>2. ListsInv'
    BY <1>1, <1>15 DEF vars, BoolExprInv, ListsInv
  <2>3. QED BY <2>1, <2>2 DEF BoolExprInv
<1>16. QED
  BY <1>1, <1>2, <1>3, <1>4, <1>5, <1>6, <1>7, <1>8, <1>9, <1>10, <1>11, <1>12, <1>13, <1>14, <1>15
     DEF Next

LEMMA BoolExprKept == Spec => []BoolExprInv
<1>1. Init => BoolExprInv
  BY InitKeeps
<1>2. BoolExprInv /\ [Next]_vars => BoolExprInv'
  BY StepKeeps
<1>3. QED BY <1>1, <1>2, PTL DEF Spec

-----------------------------------------------------------------------------
(* Labels and list heads are numbers of quads that have been emitted, the   *)
(* operands of quads are cells, and cells hold values, whatever is parsed   *)
(* and at every step of the machine that runs it.                           *)
THEOREM BoolExprTypeCorrect == Spec => []TypeOK
<1>1. ASSUME BoolExprInv PROVE TypeOK
  <2>1. TypeInv
    BY <1>1 DEF BoolExprInv
  <2>2. PICK n \in Nat : n = NextQuad(quads) /\ Labels = 0 .. n
    BY <2>1 DEF TypeInv, Numbered, Labels
  <2>3. \A i \in DOMAIN quads : quads[i].label \in Labels /\ quads[i].x \in 0 .. Result
    BY <2>1, <2>2 DEF TypeInv, Numbered, IsQuad
  <2>4. \A i \in DOMAIN exprs : exprs[i] \in Exprs
    BY <2>1 DEF TypeInv
  <2>5. \A i \in DOMAIN exprs : /\ {exprs[i].truelist, exprs[i].falselist} \subseteq Labels
                                /\ exprs[i].place \in 0 .. Result
    BY <2>1, <2>2, <2>4 DEF TypeInv, Exprs
  <2>6. DOMAIN cell = 0 .. Result
    BY <2>1 DEF TypeInv
  <2>7. QED BY <2>1, <2>2, <2>3, <2>5, <2>6 DEF TypeInv, TypeOK
<1>2. QED BY <1>1, BoolExprKept, PTL

(* newlist, mergelist and the operators neither lose, share nor complete    *)
(* twice a jump that has no target yet: while an expression is parsed each  *)
(* is on one list of one expression, whatever the operands and operators    *)
(* and however many.                                                        *)
THEOREM JumpsKeptOnLists == Spec => []JumpsAreListed
<1>1. ASSUME BoolExprInv PROVE JumpsAreListed
  <2>1. SUFFICES ASSUME mode = "parse", ~lost, 0 \notin Open
                 PROVE  /\ Open \subseteq UNION {Members(l) : l \in Lists}
                        /\ \A l \in Lists : Members(l) \subseteq Jumps
                        /\ \A l1, l2 \in Lists : l1 # l2 => Members(l1) \cap Members(l2) = {}
    BY DEF JumpsAreListed
  <2>2. Numbered(quads)
    BY <1>1 DEF BoolExprInv, TypeInv
  <2>3. PICK P, N : StackAt(quads, exprs, P, N) /\ Covered(quads, exprs, P, N)
    BY <1>1, <2>1 DEF BoolExprInv, ListsInv
  <2>4. Jumps = JumpsOf(quads) /\ Open = OpenIn(quads)
    BY DEF Jumps, JumpsOf, Open, OpenIn
  <2>5. ASSUME NEW i \in DOMAIN exprs, IsBool(exprs[i])
        PROVE  /\ On(quads, exprs[i].truelist) = P[i] /\ On(quads, exprs[i].falselist) = N[i]
               /\ P[i] \cup N[i] \subseteq JumpsOf(quads) /\ P[i] \cap N[i] = {}
    <3>1. /\ Listed(quads, exprs[i].truelist, P[i]) /\ Listed(quads, exprs[i].falselist, N[i])
          /\ P[i] \cup N[i] \subseteq JumpsOf(quads) /\ P[i] \cap N[i] = {}
      BY <2>3, <2>5 DEF StackAt, Waits
    <3>2. QED BY <2>2, <3>1, ListedOn
  <2>6. ASSUME NEW l \in Lists
        PROVE  \E i \in DOMAIN exprs : /\ IsBool(exprs[i]) /\ i = l[1] /\ l[2] \in {"true", "false"}
                                       /\ l = <<i, l[2]>>
                                       /\ Members(l) = IF l[2] = "true" THEN P[i] ELSE N[i]
    <3>1. l[1] \in DOMAIN exprs /\ IsBool(exprs[l[1]]) /\ l[2] \in {"true", "false"} /\ l = <<l[1], l[2]>>
      BY DEF Lists
    <3>2. PICK i \in DOMAIN exprs : i = l[1] /\ IsBool(exprs[i])
      BY <3>1
    <3>3. Members(l) = IF l[2] = "true" THEN P[i] ELSE N[i]
      BY <2>5, <3>2 DEF Members
    <3>4. QED BY <3>1, <3>2, <3>3
  <2>7. \A l \in Lists : Members(l) \subseteq Jumps
    BY <2>4, <2>5, <2>6
  <2>8. ASSUME NEW l1 \in Lists, NEW l2 \in Lists, l1 # l2
        PROVE  Members(l1) \cap Members(l2) = {}
    <3>1. PICK i \in DOMAIN exprs :
            /\ IsBool(exprs[i]) /\ i = l1[1] /\ l1[2] \in {"true", "false"} /\ l1 = <<i, l1[2]>>
            /\ Members(l1) = IF l1[2] = "true" THEN P[i] ELSE N[i]
      BY <2>6
    <3>2. PICK j \in DOMAIN exprs :
            /\ IsBool(exprs[j]) /\ j = l2[1] /\ l2[2] \in {"true", "false"} /\ l2 = <<j, l2[2]>>
            /\ Members(l2) = IF l2[2] = "true" THEN P[j] ELSE N[j]
      BY <2>6
    <3>3. CASE i = j
      <4>1. l1[2] # l2[2] /\ P[i] \cap N[i] = {}
        BY <2>5, <2>8, <3>1, <3>2, <3>3
      <4>2. QED BY <3>1, <3>2, <3>3, <4>1
    <3>4. CASE i # j
      <4>1. (P[i] \cup N[i]) \cap (P[j] \cup N[j]) = {}
        BY <2>3, <3>4 DEF StackAt
      <4>2. Members(l1) \subseteq P[i] \cup N[i] /\ Members(l2) \subseteq P[j] \cup N[j]
        BY <3>1, <3>2
      <4>3. QED BY <4>1, <4>2
    <3>5. QED BY <3>3, <3>4
  <2>9. ASSUME NEW i \in Open
        PROVE  \E l \in Lists : i \in Members(l)
    <3>1. i # 0
      BY <2>1, <2>9
    <3>2. PICK j \in DOMAIN exprs : i \in P[j] \/ i \in N[j]
      BY <2>3, <2>4, <2>9, <3>1 DEF Covered
    <3>3. IsBool(exprs[j])
      BY <2>3, <3>2 DEF StackAt, Waits
    <3>4. <<j, "true">> \in Lists /\ <<j, "false">> \in Lists
      BY <3>3 DEF Lists
    <3>5. Members(<<j, "true">>) = P[j] /\ Members(<<j, "false">>) = N[j]
      BY <2>5, <3>3 DEF Members
    <3>6. QED BY <3>2, <3>4, <3>5
  <2>10. QED BY <2>7, <2>8, <2>9
<1>2. QED BY <1>1, BoolExprKept, PTL

-----------------------------------------------------------------------------
(* The way through the quads.  W is what the cells hold when they are read: *)
(* a function over the cells that have been given a meaning so far.         *)

(* Cells that no quad has to write: variables, and the unwritten one. *)
Given == MaxQuads .. Unwritten

HoldsAt(W, t) ==
  LET x == W[t.x]
      y == W[t.y] IN
  CASE t.op = "if_true"  -> x = T
    [] t.op = "if_eq"    -> x = y /\ x # U
    [] t.op = "if_noteq" -> x # y \/ x = U
    [] t.op = "if_less"  -> x < y /\ y # U
    [] OTHER             -> TRUE
Takes(W, t) == t.op \in Tests /\ HoldsAt(W, t)
After(q, W, i) == IF Takes(W, q[i]) THEN q[i].label ELSE i + 1

(* The value of cell c is known at quad i: it is given, or written by a     *)
(* quad of the way P before i.                                              *)
Writes(x, c) == x.op = "assign" /\ x.x = c
Known(q, W, P, c, i) ==
  \/ c \in DOMAIN W /\ c \in Given
  \/ \E j \in P : j < i /\ Writes(q[j], c)

(* Quad i writes what W says, or reads what is known. *)
Works(q, W, P, i) ==
  IF q[i].op = "assign" THEN q[i].x \in DOMAIN W /\ W[q[i].x] = q[i].y
  ELSE q[i].op = "jump" \/ (Known(q, W, P, q[i].x, i) /\ Known(q, W, P, q[i].y, i))

(* The quads P, in their order, lead from a to b and never backwards. *)
Through(q, W, P, a, b) ==
  /\ P \subseteq DOMAIN q /\ a \in Nat /\ b \in Nat /\ a <= b
  /\ a \in P \/ a = b
  /\ \A i \in P : i \in Nat /\ a <= i /\ i < b
  /\ \A i \in P : /\ i < After(q, W, i)
                  /\ After(q, W, i) \in P \/ After(q, W, i) = b
                  /\ \A k \in P : k <= i \/ After(q, W, i) <= k
  /\ \A i \in P : Works(q, W, P, i)

(* V gives a meaning to more cells. *)
Extended(W, V) ==
  /\ DOMAIN W \subseteq DOMAIN V
  /\ \A c \in DOMAIN W : V[c] = W[c]

LEMMA ExtendedTwice ==
  ASSUME NEW W, NEW V, NEW X, Extended(W, V), Extended(V, X)
  PROVE  Extended(W, X)
BY DEF Extended

LEMMA ExtendedSame == ASSUME NEW W PROVE Extended(W, W)
BY DEF Extended

(* V gives a meaning to c as well: v. *)
Adds(W, V, c, v) ==
  /\ Extended(W, V) /\ c \in DOMAIN V /\ V[c] = v
  /\ \A d \in DOMAIN V : d = c \/ (d \in DOMAIN W /\ V[d] = W[d])

LEMMA OneWritten ==
  ASSUME NEW W, NEW c, c \notin DOMAIN W, NEW v, NEW t, t = Set(c, v)
  PROVE  \E V : Adds(W, V, c, v)
<1>1. PICK D : \A d : d \in D <=> d = c \/ d \in DOMAIN W
  <2>1. \A d : d \in DOMAIN W \cup {c} <=> d = c \/ d \in DOMAIN W
    OBVIOUS
  <2>2. QED BY <2>1
<1>2. PICK V : V = [d \in D |-> IF d = c THEN v ELSE W[d]]
  OBVIOUS
<1>3. DOMAIN V = D /\ \A d \in D : V[d] = IF d = c THEN v ELSE W[d]
  BY <1>2
<1>4. QED BY <1>1, <1>3 DEF Adds, Extended

(* A test is as it was when the cells it reads are. *)
LEMMA TakesSame ==
  ASSUME NEW W, NEW V, NEW t, NEW s, Alike(t, s),
         t.op = "jump" \/ (V[t.x] = W[t.x] /\ V[t.y] = W[t.y])
  PROVE  Takes(V, s) <=> Takes(W, t)
<1>1. s.op = t.op /\ s.x = t.x /\ s.y = t.y
  BY DEF Alike
<1>2. CASE t.op = "jump"
  BY <1>1, <1>2 DEF Takes, HoldsAt
<1>3. CASE V[t.x] = W[t.x] /\ V[t.y] = W[t.y]
  BY <1>1, <1>3 DEF Takes, HoldsAt
<1>4. QED BY <1>2, <1>3

(* What is known has a meaning. *)
LEMMA KnownMeant ==
  ASSUME NEW q, NEW W, NEW P, NEW a, NEW b, Through(q, W, P, a, b), NEW c, NEW i, Known(q, W, P, c, i)
  PROVE  c \in DOMAIN W
BY DEF Through, Known, Works, Writes

(* What is known stays known, behind more quads and with more meanings. *)
LEMMA KnownStays ==
  ASSUME NEW q, NEW W, NEW P, NEW c, NEW i \in Nat, Known(q, W, P, c, i),
         NEW r, NEW V, NEW Q, NEW j \in Nat, Extended(W, V), P \subseteq Q, i <= j,
         \A k \in P : k \in Nat /\ Alike(q[k], r[k])
  PROVE  Known(r, V, Q, c, j)
<1>1. CASE c \in DOMAIN W /\ c \in Given
  BY <1>1 DEF Known, Extended
<1>2. CASE \E k \in P : k < i /\ Writes(q[k], c)
  <2>1. PICK k \in P : k < i /\ Writes(q[k], c)
    BY <1>2
  <2>2. k \in Q /\ k < j /\ Writes(r[k], c)
    BY <2>1 DEF Writes, Alike
  <2>3. QED BY <2>2 DEF Known
<1>3. QED BY <1>1, <1>2 DEF Known

LEMMA WorksStays ==
  ASSUME NEW q, NEW W, NEW P, NEW i \in Nat, Works(q, W, P, i),
         NEW r, NEW V, NEW Q, Extended(W, V), P \subseteq Q,
         Alike(q[i], r[i]), \A k \in P : k \in Nat /\ Alike(q[k], r[k])
  PROVE  Works(r, V, Q, i)
<1>1. r[i].op = q[i].op /\ r[i].x = q[i].x /\ r[i].y = q[i].y
  BY DEF Alike
<1>2. CASE q[i].op = "assign"
  BY <1>1, <1>2 DEF Works, Extended
<1>3. CASE q[i].op # "assign" /\ q[i].op # "jump"
  <2>1. Known(q, W, P, q[i].x, i) /\ Known(q, W, P, q[i].y, i)
    BY <1>3 DEF Works
  <2>2. i <= i
    OBVIOUS
  <2>3. Known(r, V, Q, q[i].x, i) /\ Known(r, V, Q, q[i].y, i)
    BY <2>1, <2>2, KnownStays
  <2>4. QED BY <1>1, <1>3, <2>3 DEF Works
<1>4. CASE q[i].op = "jump"
  BY <1>1, <1>4 DEF Works
<1>5. QED BY <1>2, <1>3, <1>4

(* A quad that works goes the same way with more meanings. *)
LEMMA TakesStays ==
  ASSUME NEW q, NEW W, NEW P, NEW a, NEW b, Through(q, W, P, a, b), NEW i, Works(q, W, P, i),
         NEW V, Extended(W, V), NEW s, Alike(q[i], s)
  PROVE  Takes(V, s) <=> Takes(W, q[i])
<1>1. CASE q[i].op = "assign"
  BY <1>1 DEF Takes, Tests, Alike
<1>2. CASE q[i].op = "jump"
  BY <1>2, TakesSame
<1>3. CASE q[i].op # "assign" /\ q[i].op # "jump"
  <2>1. q[i].x \in DOMAIN W /\ q[i].y \in DOMAIN W
    BY <1>3, KnownMeant DEF Works
  <2>2. QED BY <2>1, TakesSame DEF Extended
<1>4. QED BY <1>1, <1>2, <1>3

(* The way stays as long as the labels of the jumps it takes do. *)
LEMMA ThroughStays ==
  ASSUME NEW q, NEW W, NEW P, NEW a, NEW b, Through(q, W, P, a, b), NEW r, NEW V, Extended(W, V),
         \A i \in P : i \in DOMAIN r /\ Alike(q[i], r[i]),
         \A i \in P : Takes(W, q[i]) => r[i].label = q[i].label
  PROVE  Through(r, V, P, a, b)
<1>1. \A i \in P : Takes(V, r[i]) <=> Takes(W, q[i])
  BY TakesStays DEF Through
<1>2. \A i \in P : After(r, V, i) = After(q, W, i)
  BY <1>1 DEF After
<1>3. \A i \in P : Works(r, V, P, i)
  BY WorksStays DEF Through
<1>4. QED BY <1>2, <1>3 DEF Through

(* No quads lead nowhere. *)
LEMMA ThroughNone ==
  ASSUME NEW q, NEW W, NEW a \in Nat
  PROVE  Through(q, W, {}, a, a)
BY DEF Through

(* One quad more. *)
LEMMA ThroughMore ==
  ASSUME NEW q, NEW W, NEW P, NEW a, NEW i, Through(q, W, P, a, i), i \in DOMAIN q, Works(q, W, P, i),
         NEW j \in Nat, j = After(q, W, i), i < j, NEW Q, Q = P \cup {i}
  PROVE  Through(q, W, Q, a, j)
<1>1. \A k : k \in Q <=> k \in P \/ k = i
  OBVIOUS
<1>2. a \in Nat /\ i \in Nat /\ a <= i /\ (a \in P \/ a = i) /\ P \subseteq DOMAIN q
      /\ \A k \in P : k \in Nat /\ a <= k /\ k < i
  BY DEF Through
<1>3. \A k \in Q : Works(q, W, Q, k)
  <2>1. \A k \in Q : Works(q, W, P, k)
    BY <1>1 DEF Through
  <2>2. \A k \in Q : k \in Nat /\ Alike(q[k], q[k])
    BY <1>1, <1>2 DEF Alike
  <2>3. P \subseteq Q /\ Extended(W, W)
    BY ExtendedSame
  <2>4. QED BY <2>1, <2>2, <2>3, WorksStays
<1>4. ASSUME NEW k \in Q
      PROVE  /\ k < After(q, W, k)
             /\ After(q, W, k) \in Q \/ After(q, W, k) = j
             /\ \A m \in Q : m <= k \/ After(q, W, k) <= m
  <2>1. CASE k = i
    BY <1>1, <1>2, <2>1
  <2>2. CASE k \in P
    <3>1. /\ k < After(q, W, k)
          /\ After(q, W, k) \in P \/ After(q, W, k) = i
          /\ \A m \in P : m <= k \/ After(q, W, k) <= m
      BY <2>2 DEF Through
    <3>2. After(q, W, k) <= i
      BY <1>2, <3>1
    <3>3. QED BY <1>1, <3>1, <3>2
  <2>3. QED BY <1>1, <2>1, <2>2
<1>5. Q \subseteq DOMAIN q /\ a <= j /\ (a \in Q \/ a = j) /\ \A k \in Q : k \in Nat /\ a <= k /\ k < j
  BY <1>1, <1>2
<1>6. QED BY <1>2, <1>3, <1>4, <1>5 DEF Through

(* Two ways, one behind the other. *)
LEMMA ThroughTwice ==
  ASSUME NEW q, NEW W, NEW P, NEW a, NEW b, Through(q, W, P, a, b),
         NEW R, NEW c, Through(q, W, R, b, c), NEW Q, Q = P \cup R
  PROVE  Through(q, W, Q, a, c)
<1>1. \A k : k \in Q <=> k \in P \/ k \in R
  OBVIOUS
<1>2. /\ a \in Nat /\ b \in Nat /\ c \in Nat /\ a <= b /\ b <= c
      /\ (a \in P \/ a = b) /\ (b \in R \/ b = c) /\ Q \subseteq DOMAIN q
      /\ \A k \in P : k \in Nat /\ a <= k /\ k < b
      /\ \A k \in R : k \in Nat /\ b <= k /\ k < c
  BY <1>1 DEF Through
<1>3. \A k \in Q : Works(q, W, Q, k)
  <2>1. Extended(W, W) /\ P \subseteq Q /\ R \subseteq Q
    BY ExtendedSame
  <2>2. \A k \in Q : k \in Nat /\ Alike(q[k], q[k])
    BY <1>1, <1>2 DEF Alike
  <2>3. \A k \in P : Works(q, W, P, k)
    BY DEF Through
  <2>4. \A k \in R : Works(q, W, R, k)
    BY DEF Through
  <2>5. QED BY <1>1, <2>1, <2>2, <2>3, <2>4, WorksStays
<1>4. ASSUME NEW k \in Q
      PROVE  /\ k < After(q, W, k)
             /\ After(q, W, k) \in Q \/ After(q, W, k) = c
             /\ \A m \in Q : m <= k \/ After(q, W, k) <= m
  <2>1. CASE k \in P
    <3>1. /\ k < After(q, W, k)
          /\ After(q, W, k) \in P \/ After(q, W, k) = b
          /\ \A m \in P : m <= k \/ After(q, W, k) <= m
      BY <2>1 DEF Through
    <3>2. After(q, W, k) <= b
      BY <1>2, <3>1
    <3>3. QED BY <1>1, <1>2, <3>1, <3>2
  <2>2. CASE k \in R
    <3>1. /\ k < After(q, W, k)
          /\ After(q, W, k) \in R \/ After(q, W, k) = c
          /\ \A m \in R : m <= k \/ After(q, W, k) <= m
      BY <2>2 DEF Through
    <3>2. QED BY <1>1, <1>2, <2>2, <3>1
  <2>3. QED BY <1>1, <2>1, <2>2
<1>5. a <= c /\ (a \in Q \/ a = c) /\ \A k \in Q : k \in Nat /\ a <= k /\ k < c
  BY <1>1, <1>2
<1>6. QED BY <1>2, <1>3, <1>4, <1>5 DEF Through
-----------------------------------------------------------------------------
(* An expression that is not a value yet is left by a jump on one of its    *)
(* lists, the one its truth value names; no jump on the way there is on a   *)
(* list.                                                                    *)
Leaves(q, W, P, x, a, b, t, f, val) ==
  /\ Through(q, W, P, a, x) /\ x \in DOMAIN q /\ x < b
  /\ Works(q, W, P, x) /\ Takes(W, q[x])
  /\ val \in {T, F} /\ (val = T => x \in t) /\ (val = F => x \in f)
  /\ \A i \in P : Takes(W, q[i]) => i \notin t /\ i \notin f

LEMMA LeavesStays ==
  ASSUME NEW q, NEW W, NEW P, NEW x, NEW a, NEW b, NEW t, NEW f, NEW val,
         Leaves(q, W, P, x, a, b, t, f, val), NEW r, NEW V, Extended(W, V),
         \A i \in P : i \in DOMAIN r /\ Alike(q[i], r[i]), x \in DOMAIN r, Alike(q[x], r[x]),
         \A i \in P : Takes(W, q[i]) => r[i].label = q[i].label
  PROVE  Leaves(r, V, P, x, a, b, t, f, val)
<1>1. Through(q, W, P, a, x) /\ Works(q, W, P, x) /\ x \in Nat /\ \A i \in P : i \in Nat
  BY DEF Leaves, Through
<1>2. Through(r, V, P, a, x)
  BY <1>1, ThroughStays
<1>3. \A i \in P : Takes(V, r[i]) <=> Takes(W, q[i])
  <2>1. \A i \in P : Works(q, W, P, i)
    BY <1>1 DEF Through
  <2>2. QED BY <1>1, <2>1, TakesStays
<1>4. Takes(V, r[x])
  BY <1>1, TakesStays DEF Leaves
<1>5. Works(r, V, P, x)
  BY <1>1, WorksStays
<1>6. QED BY <1>2, <1>3, <1>4, <1>5 DEF Leaves

(* A test and the jump behind it. *)
LEMMA TestLeaves ==
  ASSUME NEW q, NEW W, NEW P, NEW a, NEW n \in Nat, Through(q, W, P, a, n),
         n \in DOMAIN q, q[n].op \in Tests, q[n].op # "jump", n + 1 \in DOMAIN q, q[n + 1].op = "jump",
         Known(q, W, P, q[n].x, n), Known(q, W, P, q[n].y, n),
         NEW val \in {T, F}, HoldsAt(W, q[n]) <=> val = T,
         NEW t, NEW f, n \in t, n + 1 \in f, \A i \in t : i = n, \A i \in f : i = n + 1,
         NEW b, b = n + 2
  PROVE  \E Q, x : /\ Leaves(q, W, Q, x, a, b, t, f, val)
                   /\ P \subseteq Q /\ \A i : i \in Q => i \in P \/ i = n
<1>1. Works(q, W, P, n) /\ a \in Nat /\ n < n + 1 /\ n < n + 2 /\ n + 1 < n + 2
      /\ \A i \in P : i \in Nat /\ i < n
  BY DEF Works, Tests, Through
<1>2. CASE val = T
  <2>1. Takes(W, q[n])
    BY <1>2 DEF Takes
  <2>2. Leaves(q, W, P, n, a, b, t, f, val)
    BY <1>1, <1>2, <2>1 DEF Leaves, T, F
  <2>3. PICK Q : Q = P
    OBVIOUS
  <2>4. QED BY <2>2, <2>3
<1>3. CASE val = F
  <2>1. After(q, W, n) = n + 1 /\ ~Takes(W, q[n])
    BY <1>3 DEF Takes, After, T, F
  <2>21. PICK Q : Q = P \cup {n}
    OBVIOUS
  <2>2. Q = P \cup {n} /\ \A i : i \in Q <=> i \in P \/ i = n
    BY <2>21
  <2>3. Through(q, W, Q, a, n + 1)
    BY <1>1, <2>1, <2>2, ThroughMore
  <2>4. Takes(W, q[n + 1]) /\ Works(q, W, Q, n + 1)
    BY DEF Takes, HoldsAt, Tests, Works
  <2>5. Leaves(q, W, Q, n + 1, a, b, t, f, val)
    BY <1>1, <1>3, <2>1, <2>2, <2>3, <2>4 DEF Leaves, T, F
  <2>6. QED BY <2>2, <2>5
<1>4. QED BY <1>2, <1>3

(* A jump that got its target goes on. *)
LEMMA Passes ==
  ASSUME NEW q, NEW W, NEW P, NEW x, NEW a, NEW b, NEW t, NEW f, NEW val,
         Leaves(q, W, P, x, a, b, t, f, val), NEW c \in Nat, q[x].label = c, x < c, NEW Q, Q = P \cup {x}
  PROVE  Through(q, W, Q, a, c)
<1>1. Through(q, W, P, a, x) /\ x \in DOMAIN q /\ Works(q, W, P, x) /\ c = After(q, W, x)
  BY DEF Leaves, After
<1>2. QED BY <1>1, ThroughMore

(* What leaves does so behind a way that leads to it. *)
LEMMA LeavesBehind ==
  ASSUME NEW q, NEW W, NEW R, NEW a, NEW m, Through(q, W, R, a, m),
         NEW P, NEW x, NEW b, NEW t, NEW f, NEW val, Leaves(q, W, P, x, m, b, t, f, val),
         \A i \in R : Takes(W, q[i]) => i \notin t /\ i \notin f, NEW Q, Q = R \cup P
  PROVE  Leaves(q, W, Q, x, a, b, t, f, val)
<1>1. Through(q, W, P, m, x) /\ x \in Nat /\ Works(q, W, P, x) /\ \A k \in P : k \in Nat
  BY DEF Leaves, Through
<1>2. Through(q, W, Q, a, x)
  BY <1>1, ThroughTwice
<1>3. Works(q, W, Q, x)
  <2>1. Extended(W, W) /\ P \subseteq Q /\ \A y : Alike(y, y)
    BY ExtendedSame DEF Alike
  <2>2. QED BY <1>1, <2>1, WorksStays
<1>4. QED BY <1>2, <1>3 DEF Leaves

-----------------------------------------------------------------------------
(* What the quads of an expression do: those from its start to b give it    *)
(* the value it should have.                                                *)
Within(t, f, a, b) == \A i : i \in t \/ i \in f => i \in Nat /\ a <= i /\ i < b
Means(q, W, e, b) ==
  /\ IsExpr(e) /\ e.kind # "nil" /\ e.val \in {T, F}
  /\ IsBool(e) => \E P, x, t, f : /\ Waits(q, e, t, f) /\ Within(t, f, e.start, b)
                                  /\ Leaves(q, W, P, x, e.start, b, t, f, e.val)
  /\ ~IsBool(e) => \E P : /\ Waits(q, e, {}, {}) /\ Through(q, W, P, e.start, b)
                          /\ Known(q, W, P, e.place, b) /\ W[e.place] = e.val

(* Quads and jumps behind an expression are not its affair. *)
LEMMA MeansStays ==
  ASSUME NEW q, Numbered(q), NEW W, NEW e, NEW b \in Nat, Means(q, W, e, b),
         NEW r, NEW S, Grown(q, r, S), \A i \in S : i \in Nat /\ b <= i, NEW V, Extended(W, V)
  PROVE  Means(r, V, e, b)
<1>1. \A i \in DOMAIN q : i \in Nat /\ i \in DOMAIN r /\ Alike(q[i], r[i])
                          /\ (i \notin S => r[i].label = q[i].label)
  BY DEF Grown, Numbered
<1>2. CASE IsBool(e)
  <2>1. PICK P, x, t, f : /\ Waits(q, e, t, f) /\ Within(t, f, e.start, b)
                          /\ Leaves(q, W, P, x, e.start, b, t, f, e.val)
    BY <1>2 DEF Means
  <2>2. P \subseteq DOMAIN q /\ x \in DOMAIN q /\ x < b /\ \A i \in P : i \in Nat /\ i < x
    BY <2>1 DEF Leaves, Through
  <2>3. \A i : i \in P \/ i = x \/ i \in t \/ i \in f => i \notin S
    <3>1. \A i \in P : i \in Nat /\ ~(b <= i)
      BY <1>1, <2>1, <2>2 DEF Leaves, Through
    <3>2. x \in Nat /\ ~(b <= x) /\ \A i : i \in t \/ i \in f => i \in Nat /\ ~(b <= i)
      BY <1>1, <2>1, <2>2 DEF Within
    <3>3. QED BY <3>1, <3>2
  <2>4. Waits(r, e, t, f)
    BY <2>1, <2>3, WaitsStays
  <2>5. Leaves(r, V, P, x, e.start, b, t, f, e.val)
    BY <1>1, <2>1, <2>2, <2>3, LeavesStays
  <2>6. QED BY <1>2, <2>1, <2>4, <2>5 DEF Means
<1>3. CASE ~IsBool(e)
  <2>1. PICK P : /\ Waits(q, e, {}, {}) /\ Through(q, W, P, e.start, b)
                 /\ Known(q, W, P, e.place, b) /\ W[e.place] = e.val
    BY <1>3 DEF Means
  <2>2. P \subseteq DOMAIN q /\ b \in Nat /\ \A i \in P : i \in Nat /\ i < b
    BY <2>1 DEF Through
  <2>3. \A i \in P : i \notin S
    BY <2>2
  <2>4. Through(r, V, P, e.start, b)
    BY <1>1, <2>1, <2>2, <2>3, ThroughStays
  <2>5. Known(r, V, P, e.place, b)
    <3>1. b <= b /\ P \subseteq P
      BY <2>2
    <3>2. QED BY <1>1, <2>1, <2>2, <3>1, KnownStays
  <2>6. V[e.place] = e.val
    BY <2>1, KnownMeant DEF Extended
  <2>7. Waits(r, e, {}, {})
    <3>1. \A i \in S : i \notin {} /\ i \notin {}
      OBVIOUS
    <3>2. QED BY <2>1, <3>1, WaitsStays
  <2>8. QED BY <1>3, <2>4, <2>5, <2>6, <2>7 DEF Means
<1>4. QED BY <1>2, <1>3

(* Grown quads, on a way that does not touch what has changed. *)
LEMMA ThroughGrown ==
  ASSUME NEW q, Numbered(q), NEW W, NEW P, NEW a, NEW b, Through(q, W, P, a, b),
         NEW r, NEW S, Grown(q, r, S), \A i \in S : i \in Nat /\ b <= i, NEW V, Extended(W, V)
  PROVE  Through(r, V, P, a, b)
<1>1. \A i \in DOMAIN q : i \in DOMAIN r /\ Alike(q[i], r[i]) /\ (i \notin S => r[i].label = q[i].label)
  BY DEF Grown
<1>2. P \subseteq DOMAIN q /\ b \in Nat /\ \A i \in P : i \in Nat /\ i < b
  BY DEF Through
<1>3. \A i \in P : i \notin S
  BY <1>2
<1>4. QED BY <1>1, <1>2, <1>3, ThroughStays

(* convert_to_bool *)
LEMMA ToBoolMeans ==
  ASSUME NEW q, Numbered(q), NEW n, n = NextQuad(q), NEW W, NEW e, Means(q, W, e, n),
         NEW b, b = ConvertToBool(q, e), NEW r, r = b.quads, NEW c, c = b.expr, c.sound
  PROVE  /\ Means(r, W, c, NextQuad(r)) /\ IsBool(c) /\ c.start = e.start /\ c.val = e.val /\ e.sound
         /\ Grown(q, r, {}) /\ NextQuad(r) <= n + 2
         /\ ~IsBool(e) => n # 0 /\ c.truelist = n
         /\ IsBool(e) => r = q /\ c = e
<1>0. n \in Nat
  BY DEF Numbered
<1>1. CASE IsBool(e)
  <2>1. r = q /\ c = e
    BY <1>1 DEF ConvertToBool, Both
  <2>2. QED BY <1>0, <1>1, <2>1, GrownSame
<1>2. CASE ~IsBool(e)
  <2>1. IsExpr(e) /\ e.val \in {T, F}
    BY DEF Means
  <2>2. PICK P : Through(q, W, P, e.start, n) /\ Known(q, W, P, e.place, n) /\ W[e.place] = e.val
    BY <1>2 DEF Means
  <2>3. /\ Grown(q, r, {}) /\ NextQuad(r) = n + 2
        /\ n \in DOMAIN r /\ n + 1 \in DOMAIN r
        /\ r[n] = IfTrue(e.place) /\ r[n + 1] = Goto
        /\ \A i \in DOMAIN q : i \in DOMAIN r /\ r[i] = q[i] /\ i # n /\ i # n + 1
        /\ \A i \in DOMAIN r : i \in DOMAIN q \/ i = n \/ i = n + 1
        /\ Waits(r, c, Alone(n), Alone(n + 1)) /\ IsBool(c)
        /\ c = Bool(Unwritten, n, n + 1, e.start, e.val, e.sound /\ n # 0)
    BY ONLY Numbered(q), n = NextQuad(q), b = ConvertToBool(q, e), r = b.quads, c = b.expr, <1>2, <2>1, TestedFacts
  <2>4. c.start = e.start /\ c.val = e.val /\ e.sound /\ n # 0 /\ c.kind = "bool" /\ c.truelist = n
    <3>1. PICK s \in BOOLEAN : s <=> (e.sound /\ n # 0)
      OBVIOUS
    <3>2. c = Bool(Unwritten, n, n + 1, e.start, e.val, s)
      BY <2>3, <3>1
    <3>3. c.sound = s
      BY <3>2 DEF Bool
    <3>4. e.sound /\ n # 0
      BY <3>1, <3>3
    <3>5. QED BY <3>2, <3>4 DEF Bool
  <2>5. n \in Alone(n) /\ n + 1 \in Alone(n + 1) /\ (\A i \in Alone(n) : i = n) /\ (\A i \in Alone(n + 1) : i = n + 1)
    BY <1>0, <2>4 DEF Alone
  <2>6. PICK t, f : t = Alone(n) /\ f = Alone(n + 1)
    OBVIOUS
  <2>7. P \subseteq DOMAIN q /\ (\A i \in P : i \in Nat) /\ e.start <= n /\ e.start \in Nat
    BY <2>2 DEF Through
  <2>8. \A i \in {} : i \in Nat /\ n <= i
    OBVIOUS
  <2>9. Through(r, W, P, e.start, n)
    BY <2>2, <2>3, <2>8, ExtendedSame, ThroughGrown
  <2>10. Known(r, W, P, e.place, n)
    <3>1. \A k \in P : k \in Nat /\ Alike(q[k], r[k])
      BY <2>3, <2>7 DEF Alike
    <3>2. Extended(W, W) /\ P \subseteq P /\ n <= n
      BY <1>0, ExtendedSame
    <3>3. QED BY <1>0, <2>2, <3>1, <3>2, KnownStays
  <2>11. r[n].op = "if_true" /\ r[n].x = e.place /\ r[n].y = e.place /\ r[n + 1].op = "jump"
    BY <2>3 DEF IfTrue, Test, Goto
  <2>12. HoldsAt(W, r[n]) <=> e.val = T
    BY <2>2, <2>11 DEF HoldsAt
  <2>13. "if_true" \in Tests
    BY DEF Tests
  <2>14. PICK b2 : b2 = n + 2
    OBVIOUS
  <2>15. PICK Q, x : Leaves(r, W, Q, x, e.start, b2, t, f, e.val)
    BY <1>0, <2>1, <2>3, <2>5, <2>6, <2>9, <2>10, <2>11, <2>12, <2>13, <2>14, TestLeaves
  <2>16. Within(t, f, e.start, b2)
    BY <1>0, <2>5, <2>6, <2>7, <2>14 DEF Within
  <2>17. IsExpr(c) /\ c.kind # "nil"
    BY <2>3, <2>4 DEF Waits
  <2>18. Means(r, W, c, b2)
    BY <2>1, <2>3, <2>4, <2>6, <2>15, <2>16, <2>17 DEF Means
  <2>19. QED BY <1>0, <1>2, <2>3, <2>4, <2>14, <2>18
<1>3. QED BY <1>1, <1>2

(* convert_to_value: the temporary gets the value. *)
LEMMA ToValueMeans ==
  ASSUME NEW q, Numbered(q), NEW n, n = NextQuad(q), n + 3 <= MaxQuads,
         NEW W, n \notin DOMAIN W, NEW e, Means(q, W, e, n),
         NEW b, b = ConvertToValue(q, e), NEW r, r = b.quads, NEW c, c = b.expr
  PROVE  \E V, S : /\ Extended(W, V)
                   /\ \A d \in DOMAIN V : d = n \/ (d \in DOMAIN W /\ V[d] = W[d])
                   /\ Means(r, V, c, NextQuad(r)) /\ ~IsBool(c) /\ c.start = e.start /\ c.val = e.val
                   /\ Grown(q, r, S) /\ \A i \in S : i \in Nat /\ e.start <= i
                   /\ NextQuad(r) <= n + 3 /\ (~IsBool(e) => r = q /\ V = W /\ c = e)
                   /\ IsBool(e) => NextQuad(r) = n + 3
<1>0. n \in Nat
  BY DEF Numbered
<1>1. CASE ~IsBool(e)
  <2>1. r = q /\ c = e
    BY <1>1 DEF ConvertToValue, Both
  <2>2. Grown(q, r, {}) /\ \A i \in {} : i \in Nat /\ e.start <= i
    BY <2>1, GrownSame
  <2>3. Extended(W, W) /\ \A d \in DOMAIN W : d = n \/ (d \in DOMAIN W /\ W[d] = W[d])
    BY ExtendedSame
  <2>4. NextQuad(r) <= n + 3 /\ Means(r, W, c, NextQuad(r))
    BY <1>0, <2>1
  <2>5. QED BY <1>1, <2>1, <2>2, <2>3, <2>4
<1>2. CASE IsBool(e)
  <2>1. PICK P, x, t, f : /\ Waits(q, e, t, f) /\ Within(t, f, e.start, n)
                          /\ Leaves(q, W, P, x, e.start, n, t, f, e.val)
    BY <1>2 DEF Means
  <2>2. PICK S : S = t \cup f
    OBVIOUS
  <2>3. /\ Grown(q, r, S) /\ NextQuad(r) = n + 3
        /\ n \in DOMAIN r /\ n + 1 \in DOMAIN r /\ n + 2 \in DOMAIN r
        /\ r[n] = Set(n, T) /\ r[n + 2] = Set(n, F)
        /\ Alike(Goto, r[n + 1]) /\ r[n + 1].label = n + 3
        /\ \A i \in t : r[i].label = n
        /\ \A i \in f : r[i].label = n + 2
        /\ c = Value(n, e.start, e.val, e.sound)
        /\ Waits(r, c, {}, {}) /\ ~IsBool(c) /\ c.kind # "nil"
    BY ONLY Numbered(q), n = NextQuad(q), n + 3 <= MaxQuads, b = ConvertToValue(q, e), r = b.quads, c = b.expr,
            <1>2, <2>1, <2>2, AssignedFacts
  <2>40. PICK V : Adds(W, V, n, e.val)
    <3>1. PICK y, v : v = e.val /\ y = Set(n, v)
      OBVIOUS
    <3>2. PICK V : Adds(W, V, n, v)
      BY ONLY n \notin DOMAIN W, <3>1, OneWritten
    <3>3. QED BY <3>1, <3>2
  <2>4. /\ Extended(W, V) /\ n \in DOMAIN V /\ V[n] = e.val
        /\ \A d \in DOMAIN V : d = n \/ (d \in DOMAIN W /\ V[d] = W[d])
    BY <2>40 DEF Adds
  <2>51. \A i \in DOMAIN q : i \in Nat
    BY DEF Numbered
  <2>5. \A i \in DOMAIN q : i \in Nat /\ i \in DOMAIN r /\ Alike(q[i], r[i])
                            /\ (i \notin S => r[i].label = q[i].label)
    BY <2>3, <2>51 DEF Grown
  <2>6. /\ P \subseteq DOMAIN q /\ x \in DOMAIN q /\ x \in Nat /\ x < n /\ e.start \in Nat
        /\ \A i \in P : Takes(W, q[i]) => i \notin S
        /\ (e.val = T => x \in t) /\ (e.val = F => x \in f) /\ e.val \in {T, F}
    BY <2>1, <2>2, <2>5 DEF Leaves, Through
  <2>7. Leaves(r, V, P, x, e.start, n, t, f, e.val)
    BY <2>1, <2>4, <2>5, <2>6, LeavesStays
  <2>8. PICK Q : Q = P \cup {x}
    OBVIOUS
  <2>9. /\ Set(n, T).op = "assign" /\ Set(n, T).x = n /\ Set(n, T).y = T
        /\ Set(n, F).op = "assign" /\ Set(n, F).x = n /\ Set(n, F).y = F
        /\ "assign" \notin Tests /\ Goto.op = "jump" /\ "jump" \in Tests
    BY DEF Set, Goto, Test, Tests
  <2>10. \E R : Through(r, V, R, e.start, n + 3) /\ Known(r, V, R, n, n + 3)
    <3>1. CASE e.val = T
      <4>1. Through(r, V, Q, e.start, n)
        BY <1>0, <2>3, <2>6, <2>7, <2>8, <3>1, Passes
      <4>2. PICK Q1 : Q1 = Q \cup {n}
        OBVIOUS
      <4>3. Works(r, V, Q, n) /\ After(r, V, n) = n + 1
        BY <2>3, <2>4, <2>9, <3>1 DEF Works, After, Takes
      <4>4. Through(r, V, Q1, e.start, n + 1)
        BY <1>0, <2>3, <4>1, <4>2, <4>3, ThroughMore
      <4>5. PICK Q2 : Q2 = Q1 \cup {n + 1}
        OBVIOUS
      <4>6. r[n + 1].op = "jump"
        BY <2>3, <2>9 DEF Alike
      <4>7. Works(r, V, Q1, n + 1) /\ After(r, V, n + 1) = n + 3
        BY <2>3, <2>9, <4>6 DEF Works, After, Takes, HoldsAt
      <4>8. Through(r, V, Q2, e.start, n + 3)
        BY <1>0, <2>3, <4>4, <4>5, <4>7, ThroughMore
      <4>9. Known(r, V, Q2, n, n + 3)
        BY <1>0, <2>3, <2>9, <4>2, <4>5 DEF Known, Writes
      <4>10. QED BY <4>8, <4>9
    <3>2. CASE e.val = F
      <4>1. Through(r, V, Q, e.start, n + 2)
        BY <1>0, <2>3, <2>6, <2>7, <2>8, <3>2, Passes
      <4>2. PICK Q1 : Q1 = Q \cup {n + 2}
        OBVIOUS
      <4>3. Works(r, V, Q, n + 2) /\ After(r, V, n + 2) = n + 3
        <5>1. After(r, V, n + 2) = (n + 2) + 1
          BY <2>3, <2>9 DEF After, Takes
        <5>2. QED BY <1>0, <2>3, <2>4, <2>9, <3>2, <5>1 DEF Works
      <4>4. Through(r, V, Q1, e.start, n + 3)
        BY <1>0, <2>3, <4>1, <4>2, <4>3, ThroughMore
      <4>5. Known(r, V, Q1, n, n + 3)
        BY <1>0, <2>3, <2>9, <4>2 DEF Known, Writes
      <4>6. QED BY <4>4, <4>5
    <3>3. QED BY <2>6, <3>1, <3>2
  <2>11. c.place = n /\ c.start = e.start /\ c.val = e.val
    BY <2>3 DEF Value
  <2>12. Means(r, V, c, n + 3)
    <3>1. IsExpr(c)
      BY <2>3 DEF Waits
    <3>2. QED BY <2>3, <2>4, <2>6, <2>10, <2>11, <3>1 DEF Means
  <2>13. \A i \in S : i \in Nat /\ e.start <= i
    BY <2>1, <2>2 DEF Within
  <2>14. NextQuad(r) <= n + 3 /\ Means(r, V, c, NextQuad(r))
    BY <1>0, <2>3, <2>12
  <2>15. QED BY <1>2, <2>3, <2>4, <2>11, <2>13, <2>14
<1>3. QED BY <1>1, <1>2

(* A comparison of values that are known. *)
LEMMA ComparedMeans ==
  ASSUME NEW q, Numbered(q), NEW n, n = NextQuad(q), NEW W, NEW P, NEW a \in Nat,
         Through(q, W, P, a, n), NEW l, IsExpr(l), NEW r, IsExpr(r), l.start = a,
         Known(q, W, P, l.place, n), Known(q, W, P, r.place, n),
         NEW op \in Tests, op # "jump", NEW val \in {T, F}, HoldsAt(W, Test(op, l.place, r.place)) <=> val = T,
         NEW sound \in BOOLEAN, NEW b, b = Compared(q, op, l, r, val, sound),
         NEW p, p = b.quads, NEW e, e = b.expr, e.sound
  PROVE  /\ Means(p, W, e, NextQuad(p)) /\ e.start = a
         /\ Grown(q, p, {}) /\ n < NextQuad(p)
<1>0. n \in Nat
  BY DEF Numbered
<1>1. "nil" \notin {l.kind, r.kind}
  <2>1. SUFFICES ASSUME "nil" \in {l.kind, r.kind} PROVE FALSE
    OBVIOUS
  <2>2. e = Bool(n, 0, 0, l.start, val, FALSE)
    BY <2>1 DEF Compared, Both
  <2>3. e.sound = FALSE
    BY <2>2 DEF Bool
  <2>4. QED BY <2>3
<1>2. PICK x : x = Test(op, l.place, r.place)
  OBVIOUS
<1>3. PICK s \in BOOLEAN : s <=> (sound /\ n # 0)
  OBVIOUS
<1>4. p = WithTest(q, x) /\ e = Bool(Unwritten, n, n + 1, a, val, s)
  BY <1>1, <1>2, <1>3 DEF Compared, Both
<1>5. IsQuad(x) /\ x.label = 0 /\ x.op = op /\ x.op \in Tests /\ x.x = l.place /\ x.y = r.place
  BY <1>2, QuadsEmitted DEF IsExpr, Exprs, Test
<1>6. e.start = a /\ e.val = val /\ e.kind = "bool" /\ s
  BY <1>4 DEF Bool
<1>7. /\ Grown(q, p, {}) /\ NextQuad(p) = n + 2
      /\ n \in DOMAIN p /\ n + 1 \in DOMAIN p /\ p[n] = x /\ p[n + 1] = Goto
      /\ \A i \in DOMAIN q : i \in DOMAIN p /\ p[i] = q[i]
      /\ Listed(p, n, Alone(n)) /\ Listed(p, n + 1, Alone(n + 1))
  BY ONLY Numbered(q), n = NextQuad(q), <1>4, <1>5, WithTestFacts
<1>8. n \in Alone(n) /\ n + 1 \in Alone(n + 1) /\ (\A i \in Alone(n) : i = n) /\ (\A i \in Alone(n + 1) : i = n + 1)
  BY <1>0, <1>3, <1>6 DEF Alone
<1>9. PICK t, f : t = Alone(n) /\ f = Alone(n + 1)
  OBVIOUS
<1>10. Goto.op = "jump" /\ "jump" \in Tests
  BY DEF Goto, Test, Tests
<1>11. Waits(p, e, t, f)
  <2>1. t \cap f = {} /\ t \subseteq JumpsOf(p) /\ f \subseteq JumpsOf(p)
    BY <1>0, <1>5, <1>7, <1>8, <1>9, <1>10 DEF JumpsOf
  <2>2. Numbered(p) /\ val \in {T, F, U}
    BY <1>7 DEF Grown
  <2>3. Listed(p, n, t) /\ Listed(p, n + 1, f)
    BY <1>7, <1>9
  <2>4. QED BY <1>4, <2>1, <2>2, <2>3, BoolWaits
<1>12. P \subseteq DOMAIN q /\ (\A i \in P : i \in Nat) /\ a <= n
  BY DEF Through
<1>13. Through(p, W, P, a, n)
  <2>1. \A i \in {} : i \in Nat /\ n <= i
    OBVIOUS
  <2>2. QED BY <1>7, <2>1, ExtendedSame, ThroughGrown
<1>14. Known(p, W, P, x.x, n) /\ Known(p, W, P, x.y, n)
  <2>1. \A k \in P : k \in Nat /\ Alike(q[k], p[k])
    BY <1>7, <1>12 DEF Alike
  <2>2. Extended(W, W) /\ P \subseteq P /\ n <= n
    BY <1>0, ExtendedSame
  <2>3. QED BY <1>0, <1>5, <2>1, <2>2, KnownStays
<1>15. PICK b2 : b2 = n + 2
  OBVIOUS
<1>16. PICK Q, y : Leaves(p, W, Q, y, a, b2, t, f, val)
  BY <1>0, <1>2, <1>5, <1>7, <1>8, <1>9, <1>10, <1>13, <1>14, <1>15, TestLeaves
<1>17. Within(t, f, a, b2)
  BY <1>0, <1>8, <1>9, <1>12, <1>15 DEF Within
<1>18. Means(p, W, e, b2)
  BY <1>6, <1>11, <1>16, <1>17 DEF Means, Waits, IsBool
<1>19. n < NextQuad(p)
  BY ONLY <1>0, <1>7
<1>20. QED BY <1>6, <1>7, <1>15, <1>18, <1>19

-----------------------------------------------------------------------------
(* and, or.  The left operand either goes on to the right one or decides.   *)
GoesOn(isAnd, val) == Choice(isAnd, val = T, val = F)
Combined(isAnd, x, y) == Choice(isAnd, Truth(x = T /\ y = T), Truth(x = T \/ y = T))

LEMMA WaitsOnce ==
  ASSUME NEW q, Numbered(q), NEW e, IsBool(e), NEW t, NEW f, Waits(q, e, t, f),
         NEW u, NEW g, Waits(q, e, u, g)
  PROVE  t = u /\ f = g
<1>1. /\ Listed(q, e.truelist, t) /\ Listed(q, e.falselist, f)
      /\ Listed(q, e.truelist, u) /\ Listed(q, e.falselist, g)
  BY DEF Waits
<1>2. On(q, e.truelist) = t /\ On(q, e.falselist) = f /\ On(q, e.truelist) = u /\ On(q, e.falselist) = g
  BY <1>1, ListedOn
<1>3. QED BY <1>2

(* The left operand decides. *)
LEMMA StopLeaves ==
  ASSUME NEW r, NEW W, NEW P, NEW x, NEW a, NEW m \in Nat, NEW t, NEW f, NEW lval,
         Leaves(r, W, P, x, a, m, t, f, lval), NEW isAnd \in BOOLEAN, ~GoesOn(isAnd, lval),
         NEW n \in Nat, m <= n, NEW u, NEW g, \A i : i \in u \/ i \in g => i \in Nat /\ m <= i,
         NEW Z, Z = Choice(isAnd, f, t), NEW zu, zu = Z \cup u, NEW zg, zg = Z \cup g,
         NEW v, v = Choice(isAnd, u, zu), NEW w, w = Choice(isAnd, zg, g),
         NEW val, NEW rval \in {T, F}, val = Combined(isAnd, lval, rval)
  PROVE  Leaves(r, W, P, x, a, n, v, w, val)
<1>1. /\ Through(r, W, P, a, x) /\ x \in DOMAIN r /\ x < m /\ x \in Nat
      /\ Works(r, W, P, x) /\ Takes(W, r[x])
      /\ lval \in {T, F} /\ (lval = T => x \in t) /\ (lval = F => x \in f)
      /\ \A i \in P : Takes(W, r[i]) => i \notin t /\ i \notin f
  BY DEF Leaves, Through
<1>2. \A i \in P : i \notin u /\ i \notin g
  <2>1. \A i \in P : i \in Nat /\ i < x
    BY <1>1 DEF Through
  <2>2. QED BY <1>1, <2>1
<1>3. \A i \in P : Takes(W, r[i]) => i \notin v /\ i \notin w
  BY <1>1, <1>2 DEF Choice
<1>4. x < n
  BY <1>1
<1>5. val \in {T, F} /\ (val = T => x \in v) /\ (val = F => x \in w)
  BY <1>1 DEF Choice, GoesOn, Combined, Truth, T, F
<1>6. QED BY <1>1, <1>3, <1>4, <1>5 DEF Leaves

(* The left operand goes on, and the right one decides. *)
LEMMA GoLeaves ==
  ASSUME NEW r, NEW W, NEW P, NEW x, NEW a, NEW m \in Nat, NEW t, NEW f, NEW lval,
         Leaves(r, W, P, x, a, m, t, f, lval), \A i : ~(i \in t /\ i \in f),
         \A i : i \in t \/ i \in f => i \in Nat /\ i < m,
         NEW isAnd \in BOOLEAN, GoesOn(isAnd, lval),
         NEW u, NEW g, NEW Q, NEW y, NEW n, NEW rval, Leaves(r, W, Q, y, a, n, u, g, rval),
         \A i \in Q : i \in P \/ i = x \/ (i \in Nat /\ m <= i),
         NEW Z, Z = Choice(isAnd, f, t), NEW zu, zu = Z \cup u, NEW zg, zg = Z \cup g,
         NEW v, v = Choice(isAnd, u, zu), NEW w, w = Choice(isAnd, zg, g),
         NEW val, val = Combined(isAnd, lval, rval)
  PROVE  Leaves(r, W, Q, y, a, n, v, w, val)
<1>1. /\ lval \in {T, F} /\ (lval = T => x \in t) /\ (lval = F => x \in f)
      /\ \A i \in P : Takes(W, r[i]) => i \notin t /\ i \notin f
  BY DEF Leaves
<1>2. /\ rval \in {T, F} /\ (rval = T => y \in u) /\ (rval = F => y \in g)
      /\ \A i \in Q : Takes(W, r[i]) => i \notin u /\ i \notin g
  BY DEF Leaves
<1>3. x \notin Z
  BY <1>1 DEF Choice, GoesOn, T, F
<1>4. \A i \in Z : i \in t \/ i \in f
  BY DEF Choice
<1>5. \A i \in Q : Takes(W, r[i]) => i \notin Z
  BY <1>1, <1>3, <1>4
<1>6. \A i \in Q : Takes(W, r[i]) => i \notin v /\ i \notin w
  BY <1>2, <1>5 DEF Choice
<1>7. val \in {T, F} /\ (val = T => y \in v) /\ (val = F => y \in w)
  BY <1>1, <1>2 DEF Choice, GoesOn, Combined, Truth, T, F
<1>8. QED BY <1>6, <1>7 DEF Leaves

LEMMA AfterBoolMeans ==
  ASSUME NEW q, Numbered(q), NEW n, n = NextQuad(q), NEW W, NEW m \in Nat, m <= n,
         NEW l, Means(q, W, l, m), IsBool(l), NEW e, Means(q, W, e, n), e.start = m, NEW isAnd \in BOOLEAN,
         NEW pass, pass = Choice(isAnd, l.truelist, l.falselist),
         NEW stop, stop = Choice(isAnd, l.falselist, l.truelist),
         NEW b, b = ConvertToBool(q, e), NEW c, c = b.expr, c.sound, c.start = c.truelist,
         NEW p, p = PatchToRight(b.quads, pass, c),
         NEW k, k = Choice(isAnd, c.falselist, c.truelist), NEW r, r = MergeLists(p, stop, k),
         NEW tl, tl = Choice(isAnd, c.truelist, Merged(stop, c.truelist)),
         NEW fl, fl = Choice(isAnd, Merged(stop, c.falselist), c.falselist),
         NEW val, val = Combined(isAnd, l.val, e.val), NEW sound \in BOOLEAN,
         NEW x, x = Bool(Unwritten, tl, fl, l.start, val, sound)
  PROVE  \E S : /\ Means(r, W, x, NextQuad(r)) /\ Grown(q, r, S)
                /\ \A i \in S : i \in Nat /\ l.start <= i
<1>0. n \in Nat
  BY DEF Numbered
<1>1. PICK P1, x1, t1, f1 : /\ Waits(q, l, t1, f1) /\ Within(t1, f1, l.start, m)
                            /\ Leaves(q, W, P1, x1, l.start, m, t1, f1, l.val)
  BY DEF Means
<1>2. PICK q2 : q2 = b.quads
  OBVIOUS
<1>3. /\ Means(q2, W, c, NextQuad(q2)) /\ IsBool(c) /\ c.start = m /\ c.val = e.val
      /\ Grown(q, q2, {}) /\ NextQuad(q2) <= n + 2
  BY <1>2, ToBoolMeans
<1>4. Numbered(q2) /\ NextQuad(q2) \in Nat /\ n <= NextQuad(q2)
  BY <1>3 DEF Grown, Numbered
<1>5. PICK P2, x2, u, g : /\ Waits(q2, c, u, g) /\ Within(u, g, m, NextQuad(q2))
                          /\ Leaves(q2, W, P2, x2, m, NextQuad(q2), u, g, c.val)
  BY <1>3 DEF Means
<1>6. PICK S, Z : S = Choice(isAnd, t1, f1) /\ Z = Choice(isAnd, f1, t1)
  OBVIOUS
<1>7. /\ Listed(q, l.truelist, t1) /\ Listed(q, l.falselist, f1) /\ t1 \cap f1 = {}
      /\ t1 \subseteq JumpsOf(q) /\ f1 \subseteq JumpsOf(q)
      /\ IsExpr(l) /\ l.start \in Nat
  BY <1>1 DEF Waits, IsExpr, Exprs
<1>8. /\ Listed(q, pass, S) /\ Listed(q, stop, Z) /\ S \cap Z = {}
      /\ \A i : i \in S \/ i \in Z <=> i \in t1 \/ i \in f1
  BY <1>6, <1>7 DEF Choice
<1>9. \E t, f : Waits(q, e, t, f) /\ \A i \in S \cup Z : i \notin t /\ i \notin f /\ i \in JumpsOf(q)
  <2>1. CASE IsBool(e)
    <3>1. q2 = q /\ c = e
      BY <1>2, <2>1 DEF ConvertToBool, Both
    <3>2. \A i \in S \cup Z : i \notin u /\ i \notin g /\ i \in JumpsOf(q)
      BY <1>1, <1>5, <1>7, <1>8 DEF Within
    <3>3. QED BY <1>5, <3>1, <3>2
  <2>2. CASE ~IsBool(e)
    <3>1. Waits(q, e, {}, {})
      BY <2>2 DEF Means
    <3>2. QED BY <1>7, <1>8, <3>1
  <2>3. QED BY <2>1, <2>2
<1>10. PICK t, f : Waits(q, e, t, f) /\ \A i \in S \cup Z : i \notin t /\ i \notin f /\ i \in JumpsOf(q)
  BY <1>9
<1>11. /\ Waits(p, c, u, g) /\ Grown(q, p, S) /\ DOMAIN p = DOMAIN q2 /\ Listed(p, stop, Z)
       /\ \A i \in S : p[i].label = m
       /\ \A i \in DOMAIN q2 : i \notin S => p[i] = q2[i]
  <2>1. p = PatchToRight(b.quads, pass, b.expr)
    OBVIOUS
  <2>2. PICK u2, g2 :
          /\ Waits(b.quads, b.expr, u2, g2) /\ Waits(p, b.expr, u2, g2)
          /\ Grown(q, p, S) /\ DOMAIN p = DOMAIN b.quads
          /\ Listed(p, stop, Z)
          /\ \A i \in S : p[i].label = b.expr.truelist
          /\ \A i \in DOMAIN b.quads : i \notin S => p[i] = b.quads[i]
    BY <1>8, <1>10, <2>1, PassedOn
  <2>3. u2 = u /\ g2 = g
    BY <1>2, <1>3, <1>4, <1>5, <2>2, WaitsOnce
  <2>4. QED BY <1>2, <1>3, <2>2, <2>3
<1>12. Numbered(p) /\ NextQuad(p) = NextQuad(q2) /\ NextQuad(p) \in Nat
  <2>1. DOMAIN p = DOMAIN q2 /\ Numbered(p)
    BY ONLY <1>11 DEF Grown
  <2>2. NextQuad(p) = NextQuad(q2)
    BY ONLY <2>1 DEF NextQuad
  <2>3. QED BY ONLY <1>4, <2>1, <2>2
<1>13. \A i \in Z : i \in JumpsOf(p) /\ i \notin u /\ i \notin g /\ i \in Nat
  <2>1. \A i \in Z : i \in t1 \/ i \in f1
    BY ONLY <1>8
  <2>2. \A i \in Z : i \in JumpsOf(q)
    BY ONLY <1>10
  <2>3. \A i \in Z : i \in JumpsOf(p)
    BY ONLY <1>11, <2>2 DEF Grown, JumpsOf, Alike
  <2>4. \A i \in Z : i \in Nat /\ i < m
    BY ONLY <1>1, <2>1 DEF Within
  <2>5. (\A i \in u : m <= i) /\ \A i \in g : m <= i
    BY ONLY <1>5 DEF Within
  <2>6. m \in Nat
    OBVIOUS
  <2>7. \A i \in Z : i \notin u /\ i \notin g
    BY ONLY <2>4, <2>5, <2>6
  <2>8. QED BY ONLY <2>3, <2>4, <2>7
<1>14. PICK zu, zg, v, w : /\ zu = Z \cup u /\ zg = Z \cup g
                           /\ v = Choice(isAnd, u, zu) /\ w = Choice(isAnd, zg, g)
  OBVIOUS
<1>15. e.val \in {T, F} /\ val \in {T, F} /\ val \in {T, F, U}
  BY DEF Means, Combined, Choice, Truth
<1>16. /\ Waits(r, x, v, w) /\ Grown(p, r, Z) /\ NextQuad(r) = NextQuad(p)
       /\ \A i : i \in v \cup w <=> i \in Z \/ i \in u \/ i \in g
       /\ \A i \in DOMAIN p : i \notin Z => r[i] = p[i]
  <2>1. PICK start \in Nat : start = l.start
    BY <1>7
  <2>2. /\ Numbered(p) /\ Waits(p, c, u, g) /\ IsBool(c) /\ Listed(p, stop, Z) /\ Z \subseteq JumpsOf(p)
        /\ \A i \in Z : i \notin u /\ i \notin g
        /\ k = Choice(isAnd, c.falselist, c.truelist)
        /\ r = MergeLists(p, stop, k)
        /\ tl = Choice(isAnd, c.truelist, Merged(stop, c.truelist))
        /\ fl = Choice(isAnd, Merged(stop, c.falselist), c.falselist)
        /\ IsOutcome(start, val, sound) /\ isAnd \in BOOLEAN
        /\ x = Bool(Unwritten, tl, fl, start, val, sound)
        /\ zu = Z \cup u /\ zg = Z \cup g
        /\ v = Choice(isAnd, u, zu) /\ w = Choice(isAnd, zg, g)
    BY <1>3, <1>11, <1>12, <1>13, <1>14, <1>15, <2>1 DEF IsOutcome
  <2>3. QED BY ONLY <2>2, Joined
<1>17. PICK SZ : SZ = S \cup Z /\ \A i : i \in SZ <=> i \in t1 \/ i \in f1
  <2>1. PICK SZ : SZ = S \cup Z
    OBVIOUS
  <2>2. \A i : i \in SZ <=> i \in t1 \/ i \in f1
    BY ONLY <1>8, <2>1
  <2>3. QED BY ONLY <2>1, <2>2
<1>18. Grown(q, r, SZ)
  <2>1. \A i \in DOMAIN q : i \in S \cup Z => i \in SZ
    BY ONLY <1>17
  <2>2. QED BY ONLY Numbered(q), <1>11, <1>16, <2>1, GrownTwice
<1>19. \A i \in SZ : i \in Nat /\ l.start <= i /\ i < m
  BY <1>1, <1>17 DEF Within
<1>20. Leaves(r, W, P1, x1, l.start, m, t1, f1, l.val)
  <2>1. P1 \subseteq DOMAIN q /\ x1 \in DOMAIN q /\ \A i \in P1 : Takes(W, q[i]) => i \notin SZ
    BY <1>1, <1>17 DEF Leaves, Through
  <2>2. \A i \in DOMAIN q : i \in DOMAIN r /\ Alike(q[i], r[i]) /\ (i \notin SZ => r[i].label = q[i].label)
    BY <1>18 DEF Grown
  <2>3. QED BY <1>1, <2>1, <2>2, ExtendedSame, LeavesStays
<1>21. DOMAIN r = DOMAIN q2
  BY <1>11, <1>12, <1>16 DEF Grown, Numbered
<1>22. Leaves(r, W, P2, x2, m, NextQuad(r), u, g, c.val)
  <2>1. P2 \subseteq DOMAIN q2 /\ x2 \in DOMAIN q2 /\ x2 \in Nat /\ m <= x2 /\ \A i \in P2 : i \in Nat /\ m <= i
    BY <1>5 DEF Leaves, Through
  <2>2. \A i : i \in P2 \/ i = x2 => i \notin S /\ i \notin Z
    BY <1>17, <1>19, <2>1
  <2>3. \A i : i \in P2 \/ i = x2 => i \in DOMAIN r /\ r[i] = q2[i]
    BY <1>11, <1>16, <1>21, <2>1, <2>2
  <2>4. \A y : Alike(y, y)
    BY DEF Alike
  <2>5. Leaves(r, W, P2, x2, m, NextQuad(q2), u, g, c.val)
    BY <1>5, <2>3, <2>4, ExtendedSame, LeavesStays
  <2>6. QED BY <1>12, <1>16, <2>5
<1>23. m <= NextQuad(r) /\ NextQuad(r) \in Nat
  BY <1>0, <1>4, <1>12, <1>16
<1>24. \E P, y : Leaves(r, W, P, y, l.start, NextQuad(r), v, w, val)
  <2>1. PICK n3, lv, rv, a : n3 = NextQuad(r) /\ lv = l.val /\ rv = e.val /\ a = l.start
    OBVIOUS
  <2>2. CASE ~GoesOn(isAnd, lv)
    <3>1. \A i : i \in u \/ i \in g => i \in Nat /\ m <= i
      BY <1>5 DEF Within
    <3>2. /\ Leaves(r, W, P1, x1, a, m, t1, f1, lv) /\ n3 \in Nat /\ m <= n3 /\ m \in Nat
          /\ Z = Choice(isAnd, f1, t1) /\ zu = Z \cup u /\ zg = Z \cup g
          /\ v = Choice(isAnd, u, zu) /\ w = Choice(isAnd, zg, g) /\ isAnd \in BOOLEAN
          /\ rv \in {T, F} /\ val = Combined(isAnd, lv, rv)
      BY <1>6, <1>14, <1>15, <1>20, <1>23, <2>1
    <3>3. Leaves(r, W, P1, x1, a, n3, v, w, val)
      BY ONLY <2>2, <3>1, <3>2, StopLeaves
    <3>4. QED BY <2>1, <3>3
  <2>3. CASE GoesOn(isAnd, lv)
    <3>1. x1 \in S
      BY <1>1, <1>6, <2>1, <2>3 DEF Leaves, GoesOn, Choice
    <3>2. r[x1].label = m /\ x1 \in Nat /\ x1 < m
      <4>1. x1 \in DOMAIN p /\ x1 \notin Z
        BY <1>1, <1>8, <1>11, <3>1 DEF Grown, Leaves
      <4>2. r[x1].label = m
        BY <1>11, <1>16, <3>1, <4>1
      <4>3. x1 \in SZ
        BY ONLY <1>17, <3>1
      <4>4. QED BY ONLY <1>19, <4>2, <4>3
    <3>3. PICK Q1 : Q1 = P1 \cup {x1}
      OBVIOUS
    <3>4. Through(r, W, Q1, a, m)
      BY <1>20, <2>1, <3>2, <3>3, Passes
    <3>5. PICK Q : Q = Q1 \cup P2
      OBVIOUS
    <3>6. Leaves(r, W, Q, x2, a, n3, u, g, rv)
      <4>1. \A i \in Q1 : i \in Nat /\ i < m
        BY <3>4 DEF Through
      <4>2. \A i \in Q1 : i \notin u /\ i \notin g
        BY <1>5, <4>1 DEF Within
      <4>3. Leaves(r, W, P2, x2, m, n3, u, g, rv)
        BY <1>3, <1>22, <2>1
      <4>4. QED BY ONLY <3>4, <3>5, <4>2, <4>3, LeavesBehind
    <3>7. \A i \in Q : i \in P1 \/ i = x1 \/ (i \in Nat /\ m <= i)
      BY <1>22, <3>3, <3>5 DEF Leaves, Through
    <3>8. (\A i : ~(i \in t1 /\ i \in f1)) /\ \A i : i \in t1 \/ i \in f1 => i \in Nat /\ i < m
      BY <1>1, <1>7 DEF Within
    <3>9. /\ Leaves(r, W, P1, x1, a, m, t1, f1, lv) /\ m \in Nat /\ isAnd \in BOOLEAN
          /\ Z = Choice(isAnd, f1, t1) /\ zu = Z \cup u /\ zg = Z \cup g
          /\ v = Choice(isAnd, u, zu) /\ w = Choice(isAnd, zg, g)
          /\ val = Combined(isAnd, lv, rv)
      BY <1>6, <1>14, <1>20, <2>1
    <3>10. Leaves(r, W, Q, x2, a, n3, v, w, val)
      BY ONLY <2>3, <3>6, <3>7, <3>8, <3>9, GoLeaves
    <3>11. QED BY <2>1, <3>10
  <2>4. QED BY <2>2, <2>3
<1>25. Means(r, W, x, NextQuad(r))
  <2>1. x.start = l.start /\ x.val = val /\ x.kind = "bool"
    BY DEF Bool
  <2>2. Within(v, w, l.start, NextQuad(r))
    <3>1. /\ \A i : i \in Z => i \in Nat /\ l.start <= i /\ i < m
          /\ \A i : i \in u \/ i \in g => i \in Nat /\ m <= i /\ i < NextQuad(r)
      BY <1>5, <1>12, <1>16, <1>17, <1>19 DEF Within
    <3>2. l.start <= m /\ l.start \in Nat
      BY <1>20 DEF Leaves, Through
    <3>3. QED BY <1>16, <1>23, <3>1, <3>2 DEF Within
  <2>3. IsExpr(x)
    BY <1>16 DEF Waits
  <2>4. x.kind = "bool" /\ x.val = val /\ Waits(r, x, v, w) /\ Within(v, w, x.start, NextQuad(r))
        /\ \E P, y : Leaves(r, W, P, y, x.start, NextQuad(r), v, w, x.val)
    <3>1. Waits(r, x, v, w)
      BY ONLY <1>16
    <3>2. PICK a : a = l.start
      OBVIOUS
    <3>3. x.start = a /\ Within(v, w, a, NextQuad(r)) /\ \E P, y : Leaves(r, W, P, y, a, NextQuad(r), v, w, val)
      BY ONLY <1>24, <2>1, <2>2, <3>2
    <3>4. QED BY ONLY <2>1, <3>1, <3>3
  <2>5. QED BY ONLY <1>14, <1>15, <2>1, <2>3, <2>4 DEF Means, IsBool
<1>26. QED BY <1>18, <1>19, <1>25

(* The left operand is a value, and so is the right one: their tests stand  *)
(* behind the quads of both.                                                *)
LEMMA AfterValueMeans ==
  ASSUME NEW q, Numbered(q), NEW n, n = NextQuad(q), n # 0, NEW W, NEW m \in Nat, m <= n,
         NEW l, Means(q, W, l, m), ~IsBool(l), NEW e, Means(q, W, e, n), ~IsBool(e), e.start = m,
         NEW isAnd \in BOOLEAN,
         NEW pass, pass = (IF isAnd THEN n ELSE n + 1), NEW stop, stop = (IF isAnd THEN n + 1 ELSE n),
         NEW q1, q1 = WithTest(q, IfTrue(l.place)), NEW p, p = PatchLabel(q1, pass, NextQuad(q1)),
         NEW b, b = ConvertToBool(p, e), NEW c, c = b.expr, NEW d, d = NewList(b.quads, stop),
         NEW k, k = Choice(isAnd, c.falselist, c.truelist), NEW r, r = MergeLists(d, stop, k),
         NEW tl, tl = Choice(isAnd, c.truelist, Merged(stop, c.truelist)),
         NEW fl, fl = Choice(isAnd, Merged(stop, c.falselist), c.falselist),
         NEW val, val = Combined(isAnd, l.val, e.val), NEW sound \in BOOLEAN,
         NEW x, x = Bool(Unwritten, tl, fl, l.start, val, sound)
  PROVE  Means(r, W, x, NextQuad(r)) /\ Grown(q, r, {})
<1>0. n \in Nat
  BY DEF Numbered
<1>1. PICK P1 : /\ Through(q, W, P1, l.start, m) /\ Known(q, W, P1, l.place, m) /\ W[l.place] = l.val
                /\ IsExpr(l) /\ l.start \in Nat /\ l.start <= m /\ l.val \in {T, F}
  BY DEF Means, Through
<1>2. PICK P2 : /\ Through(q, W, P2, m, n) /\ Known(q, W, P2, e.place, n) /\ W[e.place] = e.val
                /\ IsExpr(e) /\ e.val \in {T, F} /\ Waits(q, e, {}, {})
  BY DEF Means
<1>3. PICK P0 : P0 = P1 \cup P2
  OBVIOUS
<1>4. Through(q, W, P0, l.start, n) /\ Known(q, W, P0, l.place, n) /\ Known(q, W, P0, e.place, n)
  <2>1. P1 \subseteq P0 /\ P2 \subseteq P0 /\ Extended(W, W) /\ n <= n /\ \A y : Alike(y, y)
    <3>1. P1 \subseteq P0 /\ P2 \subseteq P0
      BY ONLY <1>3
    <3>2. n <= n /\ Extended(W, W)
      BY ONLY <1>0, ExtendedSame
    <3>3. \A y : Alike(y, y)
      BY ONLY TRUE DEF Alike
    <3>4. QED BY ONLY <3>1, <3>2, <3>3
  <2>2. (\A j \in P1 : j \in Nat) /\ (\A j \in P2 : j \in Nat)
    BY <1>1, <1>2 DEF Through
  <2>3. Through(q, W, P0, l.start, n)
    BY <1>1, <1>2, <1>3, ThroughTwice
  <2>4. Known(q, W, P0, l.place, n)
    BY <1>0, <1>1, <2>1, <2>2, KnownStays
  <2>5. Known(q, W, P0, e.place, n)
    BY <1>0, <1>2, <2>1, <2>2, KnownStays
  <2>6. QED BY <2>3, <2>4, <2>5
<1>5. PICK u, g, Z : u = Alone(n + 2) /\ g = Alone(n + 3) /\ Z = Alone(stop)
  OBVIOUS
<1>6. stop \in Nat /\ stop # 0 /\ pass \in Nat /\ (\A i : i \in Z <=> i = stop)
      /\ (\A i : i \in u <=> i = n + 2) /\ (\A i : i \in g <=> i = n + 3)
  <2>1. /\ stop = (IF isAnd THEN n + 1 ELSE n) /\ pass = (IF isAnd THEN n ELSE n + 1)
        /\ isAnd \in BOOLEAN /\ n # 0
    OBVIOUS
  <2>2. stop \in Nat /\ stop # 0 /\ pass \in Nat
    BY ONLY <1>0, <2>1
  <2>3. (\A i : i \in Z <=> i = stop) /\ (\A i : i \in u <=> i = n + 2) /\ (\A i : i \in g <=> i = n + 3)
    <3>1. n + 2 # 0 /\ n + 3 # 0
      BY ONLY <1>0
    <3>2. QED BY ONLY <1>5, <2>2, <3>1 DEF Alone
  <2>4. QED BY <2>2, <2>3
<1>7. /\ Grown(q, p, {}) /\ NextQuad(p) = n + 2
      /\ n \in DOMAIN p /\ Alike(IfTrue(l.place), p[n]) /\ n + 1 \in DOMAIN p /\ Alike(Goto, p[n + 1])
      /\ p[pass].label = n + 2
      /\ DOMAIN d = DOMAIN b.quads /\ (\A i \in DOMAIN d : d[i] = b.quads[i])
      /\ \E u2, g2 : /\ Waits(d, c, u2, g2) /\ Grown(q, d, {}) /\ NextQuad(d) = NextQuad(b.quads)
                     /\ Listed(d, stop, Alone(stop)) /\ Alone(stop) \subseteq JumpsOf(d)
                     /\ \A i \in Alone(stop) : i \notin u2 /\ i \notin g2
  <2>1. PICK t, f : t = {} /\ f = {}
    OBVIOUS
  <2>2. /\ Numbered(q) /\ n = NextQuad(q) /\ IsExpr(l) /\ Waits(q, e, t, f) /\ isAnd \in BOOLEAN
        /\ pass = (IF isAnd THEN n ELSE n + 1) /\ stop = (IF isAnd THEN n + 1 ELSE n)
        /\ q1 = WithTest(q, IfTrue(l.place)) /\ p = PatchLabel(q1, pass, NextQuad(q1))
        /\ b = ConvertToBool(p, e) /\ d = NewList(b.quads, stop) /\ c = b.expr
    BY <1>1, <1>2, <2>1
  <2>3. /\ Grown(q, p, {}) /\ NextQuad(p) = n + 2
        /\ n \in DOMAIN p /\ Alike(IfTrue(l.place), p[n]) /\ n + 1 \in DOMAIN p /\ Alike(Goto, p[n + 1])
        /\ p[pass].label = n + 2
        /\ DOMAIN d = DOMAIN b.quads /\ (\A i \in DOMAIN d : d[i] = b.quads[i])
    BY ONLY <2>2, TestBehind
  <2>4. \E u2, g2 : /\ Waits(d, b.expr, u2, g2) /\ IsBool(b.expr)
                    /\ Grown(q, d, {}) /\ NextQuad(d) <= n + 4 /\ NextQuad(d) = NextQuad(b.quads)
                    /\ Listed(d, stop, Alone(stop)) /\ Alone(stop) \subseteq JumpsOf(d)
                    /\ \A i \in Alone(stop) : i \notin u2 /\ i \notin g2 /\ i \notin DOMAIN q
                    /\ t \subseteq u2 /\ f \subseteq g2
                    /\ \A i \in u2 \cup g2 : i \in t \cup f \/ i \notin DOMAIN q
                    /\ \A i \in OpenIn(d) : i = 0 \/ i \in u2 \cup g2 \/ i \in Alone(stop)
                                            \/ i \in OpenIn(q)
    BY ONLY <2>2, TestBehind
  <2>5. PICK u2, g2 : /\ Waits(d, b.expr, u2, g2)
                      /\ Grown(q, d, {}) /\ NextQuad(d) = NextQuad(b.quads)
                      /\ Listed(d, stop, Alone(stop)) /\ Alone(stop) \subseteq JumpsOf(d)
                      /\ \A i \in Alone(stop) : i \notin u2 /\ i \notin g2
    BY <2>4
  <2>6. Waits(d, c, u2, g2)
    BY <2>2, <2>5
  <2>7. QED BY <2>3, <2>5, <2>6
<1>8. PICK q2 : q2 = b.quads
  OBVIOUS
<1>9. PICK n2 : n2 = n + 2
  OBVIOUS
<1>10. Numbered(p) /\ n2 = NextQuad(p) /\ n2 + 1 = n + 3 /\ n2 \in Nat
  BY ONLY <1>0, <1>7, <1>9 DEF Grown
<1>11. /\ Grown(p, q2, {}) /\ NextQuad(q2) = n2 + 2
       /\ n2 \in DOMAIN q2 /\ n2 + 1 \in DOMAIN q2
       /\ q2[n2] = IfTrue(e.place) /\ q2[n2 + 1] = Goto
       /\ \A i \in DOMAIN p : i \in DOMAIN q2 /\ q2[i] = p[i]
       /\ Waits(q2, c, Alone(n2), Alone(n2 + 1)) /\ IsBool(c)
       /\ c = Bool(Unwritten, n2, n2 + 1, e.start, e.val, e.sound /\ n2 # 0)
  BY ONLY <1>2, <1>8, <1>10, b = ConvertToBool(p, e), c = b.expr, ~IsBool(e), TestedFacts
<1>12. /\ Waits(d, c, u, g) /\ Grown(q, d, {}) /\ NextQuad(d) = n + 4 /\ Numbered(d)
       /\ Listed(d, stop, Z) /\ Z \subseteq JumpsOf(d) /\ \A i \in Z : i \notin u /\ i \notin g
  <2>1. PICK u2, g2 : /\ Waits(d, c, u2, g2) /\ Grown(q, d, {}) /\ NextQuad(d) = NextQuad(b.quads)
                      /\ Listed(d, stop, Alone(stop)) /\ Alone(stop) \subseteq JumpsOf(d)
                      /\ \A i \in Alone(stop) : i \notin u2 /\ i \notin g2
    BY <1>7
  <2>2. Numbered(q2) /\ Numbered(d)
    BY <1>11, <2>1 DEF Grown
  <2>3. Listed(q2, c.truelist, Alone(n2)) /\ Listed(q2, c.falselist, Alone(n2 + 1))
    BY <1>11 DEF Waits
  <2>4. \A i \in DOMAIN q2 : i \in DOMAIN d /\ d[i].label = q2[i].label
    BY ONLY <1>7, <1>8
  <2>5. Listed(d, c.truelist, Alone(n2)) /\ Listed(d, c.falselist, Alone(n2 + 1))
    <3>1. \A i \in Alone(n2) : d[i].label = q2[i].label
      BY ONLY <2>3, <2>4 DEF Listed
    <3>2. \A i \in Alone(n2 + 1) : d[i].label = q2[i].label
      BY ONLY <2>3, <2>4 DEF Listed
    <3>3. DOMAIN d = DOMAIN q2
      BY ONLY <1>7, <1>8
    <3>4. QED BY ONLY <2>3, <2>4, <3>1, <3>2, <3>3, ListedStays DEF Listed
  <2>6. On(d, c.truelist) = Alone(n2) /\ On(d, c.falselist) = Alone(n2 + 1)
    BY <2>2, <2>5, ListedOn
  <2>7. On(d, c.truelist) = u2 /\ On(d, c.falselist) = g2
    BY <1>11, <2>1, <2>2, ListedOn DEF Waits
  <2>8. u2 = u /\ g2 = g
    BY <1>5, <1>9, <1>10, <2>6, <2>7
  <2>9. NextQuad(d) = n + 4
    BY ONLY <1>0, <1>8, <1>9, <1>11, <2>1
  <2>10. QED BY <1>5, <2>1, <2>2, <2>8, <2>9
<1>13. PICK zu, zg, v, w : /\ zu = Z \cup u /\ zg = Z \cup g
                           /\ v = Choice(isAnd, u, zu) /\ w = Choice(isAnd, zg, g)
  OBVIOUS
<1>14. val \in {T, F} /\ val \in {T, F, U}
  BY DEF Combined, Choice, Truth
<1>15. /\ Waits(r, x, v, w) /\ Grown(d, r, Z) /\ NextQuad(r) = NextQuad(d)
       /\ \A i : i \in v \cup w <=> i \in Z \/ i \in u \/ i \in g
       /\ \A i \in DOMAIN d : i \notin Z => r[i] = d[i]
  <2>1. PICK start \in Nat : start = l.start
    BY <1>1
  <2>2. /\ Numbered(d) /\ Waits(d, c, u, g) /\ IsBool(c) /\ Listed(d, stop, Z) /\ Z \subseteq JumpsOf(d)
        /\ \A i \in Z : i \notin u /\ i \notin g
        /\ k = Choice(isAnd, c.falselist, c.truelist)
        /\ r = MergeLists(d, stop, k)
        /\ tl = Choice(isAnd, c.truelist, Merged(stop, c.truelist))
        /\ fl = Choice(isAnd, Merged(stop, c.falselist), c.falselist)
        /\ IsOutcome(start, val, sound) /\ isAnd \in BOOLEAN
        /\ x = Bool(Unwritten, tl, fl, start, val, sound)
        /\ zu = Z \cup u /\ zg = Z \cup g
        /\ v = Choice(isAnd, u, zu) /\ w = Choice(isAnd, zg, g)
    BY <1>11, <1>12, <1>13, <1>14, <2>1 DEF IsOutcome
  <2>3. QED BY ONLY <2>2, Joined
<1>16. Grown(q, r, {})
  <2>1. stop \in {n, n + 1} /\ DOMAIN q = 0 .. n - 1
    BY DEF Numbered
  <2>2. \A i \in Z : i \notin DOMAIN q
    BY ONLY <1>0, <1>6, <2>1
  <2>3. \A i \in DOMAIN q : i \in {} \cup Z => i \in {}
    BY ONLY <2>2
  <2>4. QED BY ONLY Numbered(q), <1>12, <1>15, <2>3, GrownTwice
<1>17. PICK n4 : n4 = NextQuad(r) /\ n4 = n + 4
  BY <1>12, <1>15
(* The tests in the finished quads. *)
<1>18. /\ n \in DOMAIN r /\ r[n].op = "if_true" /\ r[n].x = l.place /\ r[n].y = l.place
       /\ n + 1 \in DOMAIN r /\ r[n + 1].op = "jump" /\ r[pass].label = n + 2
       /\ n + 2 \in DOMAIN r /\ r[n + 2].op = "if_true" /\ r[n + 2].x = e.place /\ r[n + 2].y = e.place
       /\ n + 3 \in DOMAIN r /\ r[n + 3].op = "jump"
  <2>1. \A i \in DOMAIN d : i \in DOMAIN r /\ Alike(d[i], r[i])
    BY <1>15 DEF Grown
  <2>2. /\ n \in DOMAIN d /\ d[n] = p[n] /\ n + 1 \in DOMAIN d /\ d[n + 1] = p[n + 1]
        /\ n + 2 \in DOMAIN d /\ d[n + 2] = IfTrue(e.place) /\ n + 3 \in DOMAIN d /\ d[n + 3] = Goto
    BY ONLY <1>0, <1>7, <1>8, <1>9, <1>10, <1>11
  <2>3. r[pass] = p[pass] /\ pass \in {n, n + 1}
    <3>1. /\ stop = (IF isAnd THEN n + 1 ELSE n) /\ pass = (IF isAnd THEN n ELSE n + 1)
          /\ isAnd \in BOOLEAN
      OBVIOUS
    <3>2. pass \in {n, n + 1} /\ pass # stop
      BY ONLY <1>0, <3>1
    <3>3. pass \notin Z /\ pass \in DOMAIN d
      BY ONLY <1>6, <2>2, <3>2
    <3>4. r[pass] = d[pass] /\ d[pass] = p[pass]
      BY ONLY <1>15, <2>2, <3>2, <3>3
    <3>5. QED BY ONLY <3>2, <3>4
  <2>4. IfTrue(l.place).op = "if_true" /\ IfTrue(l.place).x = l.place /\ IfTrue(l.place).y = l.place
        /\ IfTrue(e.place).op = "if_true" /\ IfTrue(e.place).x = e.place /\ IfTrue(e.place).y = e.place
        /\ Goto.op = "jump"
    BY ONLY TRUE DEF IfTrue, Test, Goto
  <2>5. QED BY ONLY <1>7, <2>1, <2>2, <2>3, <2>4 DEF Alike
<1>19. Through(r, W, P0, l.start, n) /\ Known(r, W, P0, l.place, n) /\ Known(r, W, P0, e.place, n)
  <2>1. \A i \in {} : i \in Nat /\ n <= i
    OBVIOUS
  <2>2. Through(r, W, P0, l.start, n)
    <3>1. Numbered(q) /\ Extended(W, W)
      BY ExtendedSame
    <3>2. QED BY ONLY <1>4, <1>16, <2>1, <3>1, ThroughGrown
  <2>3. \A j \in P0 : j \in Nat /\ Alike(q[j], r[j])
    <3>1. P0 \subseteq DOMAIN q /\ \A j \in P0 : j \in Nat
      BY ONLY <1>4 DEF Through
    <3>2. \A j \in DOMAIN q : Alike(q[j], r[j])
      BY ONLY <1>16 DEF Grown
    <3>3. QED BY ONLY <3>1, <3>2
  <2>4. Extended(W, W) /\ P0 \subseteq P0 /\ n <= n
    BY ONLY <1>0, ExtendedSame
  <2>5. Known(r, W, P0, l.place, n)
    BY ONLY <1>0, <1>4, <2>3, <2>4, KnownStays
  <2>6. Known(r, W, P0, e.place, n)
    BY ONLY <1>0, <1>4, <2>3, <2>4, KnownStays
  <2>7. QED BY <2>2, <2>5, <2>6
<1>20. PICK lv, rv, a, t1, f1 : lv = l.val /\ rv = e.val /\ a = l.start /\ t1 = {n} /\ f1 = {n + 1}
  OBVIOUS
<1>21. n \in t1 /\ n + 1 \in f1 /\ (\A i \in t1 : i = n) /\ (\A i \in f1 : i = n + 1)
  BY <1>20
<1>22. "if_true" \in Tests /\ "if_true" # "jump"
  BY DEF Tests
<1>23. PICK Q1, x1 : Leaves(r, W, Q1, x1, a, n2, t1, f1, lv) /\ P0 \subseteq Q1 /\ \A i : i \in Q1 => i \in P0 \/ i = n
  <2>1. HoldsAt(W, r[n]) <=> lv = T
    BY ONLY <1>1, <1>18, <1>20 DEF HoldsAt
  <2>2. Known(r, W, P0, r[n].x, n) /\ Known(r, W, P0, r[n].y, n)
    BY ONLY <1>18, <1>19
  <2>3. lv \in {T, F} /\ r[n].op \in Tests /\ r[n].op # "jump"
    BY ONLY <1>1, <1>18, <1>20, <1>22
  <2>4. n \in DOMAIN r /\ n + 1 \in DOMAIN r /\ r[n + 1].op = "jump"
    BY ONLY <1>18
  <2>5. n \in Nat /\ Through(r, W, P0, a, n)
    BY ONLY <1>0, <1>19, <1>20
  <2>6. QED BY ONLY <1>9, <1>21, <2>1, <2>2, <2>3, <2>4, <2>5, TestLeaves
<1>24. \A i : i \in u \/ i \in g => i \in Nat /\ n2 <= i
  BY ONLY <1>0, <1>6, <1>9
<1>25. Z = Choice(isAnd, f1, t1)
  BY <1>6, <1>20 DEF Choice
<1>26. \E P, y : Leaves(r, W, P, y, a, n4, v, w, val)
  <2>1. CASE ~GoesOn(isAnd, lv)
    <3>1. /\ Leaves(r, W, Q1, x1, a, n2, t1, f1, lv) /\ n2 \in Nat /\ n4 \in Nat /\ n2 <= n4
          /\ zu = Z \cup u /\ zg = Z \cup g
          /\ v = Choice(isAnd, u, zu) /\ w = Choice(isAnd, zg, g) /\ isAnd \in BOOLEAN
          /\ rv \in {T, F} /\ val = Combined(isAnd, lv, rv)
      <4>1. isAnd \in BOOLEAN /\ val = Combined(isAnd, lv, rv) /\ n4 = n + 4
        BY <1>17, <1>20
      <4>2. QED BY ONLY <4>1, <1>0, <1>2, <1>9, <1>13, <1>20, <1>23
    <3>2. Leaves(r, W, Q1, x1, a, n4, v, w, val)
      BY ONLY <1>24, <1>25, <2>1, <3>1, StopLeaves
    <3>3. QED BY <3>2
  <2>2. CASE GoesOn(isAnd, lv)
    <3>1. x1 = pass
      BY <1>21, <1>23, <2>2 DEF Leaves, GoesOn, Choice
    <3>2. r[x1].label = n2 /\ x1 \in Nat /\ x1 < n2 /\ n2 \in Nat
      <4>1. pass \in {n, n + 1}
        OBVIOUS
      <4>2. QED BY ONLY <1>0, <1>6, <1>9, <1>18, <3>1, <4>1
    <3>3. PICK R : R = Q1 \cup {x1}
      OBVIOUS
    <3>4. Through(r, W, R, a, n2)
      BY ONLY <1>23, <3>2, <3>3, Passes
    <3>5. Known(r, W, R, e.place, n2)
      <4>1. P0 \subseteq R /\ (\A j \in P0 : j \in Nat) /\ n <= n2 /\ Extended(W, W)
            /\ \A j : Alike(r[j], r[j])
        BY ONLY <1>0, <1>9, <1>19, <1>23, <3>3, ExtendedSame DEF Through, Alike
      <4>2. QED BY ONLY <1>0, <1>19, <3>2, <4>1, KnownStays
    <3>6. PICK Q, y : Leaves(r, W, Q, y, a, n4, u, g, rv) /\ R \subseteq Q /\ \A i : i \in Q => i \in R \/ i = n2
      <4>1. /\ n2 \in DOMAIN r /\ r[n2].op = "if_true" /\ r[n2].x = e.place /\ r[n2].y = e.place
            /\ n2 + 1 \in DOMAIN r /\ r[n2 + 1].op = "jump"
        BY ONLY <1>9, <1>10, <1>18
      <4>2. HoldsAt(W, r[n2]) <=> rv = T
        BY ONLY <1>2, <1>20, <4>1 DEF HoldsAt
      <4>3. r[n2].op \in Tests /\ r[n2].op # "jump" /\ rv \in {T, F}
        BY ONLY <1>2, <1>20, <1>22, <4>1
      <4>4. Known(r, W, R, r[n2].x, n2) /\ Known(r, W, R, r[n2].y, n2)
        BY ONLY <3>5, <4>1
      <4>5. n4 = n2 + 2
        BY ONLY <1>0, <1>9, <1>17
      <4>6. n2 \in u /\ n2 + 1 \in g /\ (\A i \in u : i = n2) /\ (\A i \in g : i = n2 + 1)
        BY ONLY <1>6, <1>9, <1>10
      <4>7. n2 \in Nat /\ Through(r, W, R, a, n2)
        BY ONLY <3>2, <3>4
      <4>8. QED BY ONLY <4>1, <4>2, <4>3, <4>4, <4>5, <4>6, <4>7, TestLeaves
    <3>7. \A i \in Q : i \in Q1 \/ i = x1 \/ (i \in Nat /\ n2 <= i)
      BY ONLY <3>2, <3>3, <3>6
    <3>8. (\A i : ~(i \in t1 /\ i \in f1)) /\ \A i : i \in t1 \/ i \in f1 => i \in Nat /\ i < n2
      <4>1. \A i \in t1 : i = n
        BY ONLY <1>21
      <4>2. \A i \in f1 : i = n + 1
        BY ONLY <1>21
      <4>3. n # n + 1 /\ n < n2 /\ n + 1 < n2 /\ n + 1 \in Nat
        BY ONLY <1>0, <1>9
      <4>4. \A i : ~(i \in t1 /\ i \in f1)
        BY ONLY <4>1, <4>2, <4>3
      <4>5. QED BY ONLY <1>0, <4>1, <4>2, <4>3, <4>4
    <3>9. /\ Leaves(r, W, Q1, x1, a, n2, t1, f1, lv) /\ n2 \in Nat /\ isAnd \in BOOLEAN
          /\ Z = Choice(isAnd, f1, t1) /\ zu = Z \cup u /\ zg = Z \cup g
          /\ v = Choice(isAnd, u, zu) /\ w = Choice(isAnd, zg, g)
          /\ val = Combined(isAnd, lv, rv)
      <4>1. isAnd \in BOOLEAN /\ val = Combined(isAnd, lv, rv)
        BY <1>20
      <4>2. QED BY ONLY <1>10, <1>13, <1>23, <1>25, <4>1
    <3>10. Leaves(r, W, Q, y, a, n4, v, w, val)
      BY ONLY <2>2, <3>6, <3>7, <3>8, <3>9, GoLeaves
    <3>11. QED BY <3>10
  <2>3. QED BY <2>1, <2>2
<1>27. Means(r, W, x, n4)
  <2>1. x.start = a /\ x.val = val /\ x.kind = "bool"
    BY <1>20 DEF Bool
  <2>2. Within(v, w, a, n4)
    <3>1. a \in Nat /\ a <= n
      BY ONLY <1>19, <1>20 DEF Through
    <3>2. stop \in {n, n + 1}
      OBVIOUS
    <3>3. \A i : i \in v \/ i \in w => i \in {n, n + 1, n + 2, n + 3}
      BY ONLY <1>6, <1>15, <3>2
    <3>4. QED BY ONLY <1>0, <1>17, <3>1, <3>3 DEF Within
  <2>3. IsExpr(x)
    BY <1>15 DEF Waits
  <2>4. QED BY ONLY <1>14, <1>15, <1>26, <2>1, <2>2, <2>3 DEF Means, IsBool
<1>28. QED BY <1>16, <1>17, <1>27

-----------------------------------------------------------------------------
(* Comparisons. *)
Outcome(op, x, y) ==
  CASE op = "if_eq"    -> Truth(x = y)
    [] op = "if_noteq" -> Truth(x # y)
    [] OTHER           -> Truth(x < y)
Comparisons == {"if_eq", "if_noteq", "if_less"}

LEMMA ComparisonHolds ==
  ASSUME NEW W, NEW op \in Comparisons, NEW x, NEW y, NEW lv \in {T, F}, NEW rv \in {T, F},
         W[x] = lv, W[y] = rv
  PROVE  /\ Outcome(op, lv, rv) \in {T, F}
         /\ HoldsAt(W, Test(op, x, y)) <=> Outcome(op, lv, rv) = T
<1>1. Test(op, x, y).op = op /\ Test(op, x, y).x = x /\ Test(op, x, y).y = y
  BY DEF Test
<1>2. PICK t : t = Test(op, x, y)
  OBVIOUS
<1>3. CASE op = "if_eq"
  BY <1>1, <1>2, <1>3 DEF HoldsAt, Outcome, Truth, T, F, U
<1>4. CASE op = "if_noteq"
  BY <1>1, <1>2, <1>4 DEF HoldsAt, Outcome, Truth, T, F, U
<1>5. CASE op = "if_less"
  BY <1>1, <1>2, <1>5 DEF HoldsAt, Outcome, Truth, T, F, U
<1>6. QED BY <1>3, <1>4, <1>5 DEF Comparisons

(* Two values, one behind the other. *)
LEMMA BothKnown ==
  ASSUME NEW q, Numbered(q), NEW n \in Nat, NEW W, NEW m, NEW l, Means(q, W, l, m), ~IsBool(l),
         NEW e, Means(q, W, e, n), ~IsBool(e), e.start = m
  PROVE  \E P : /\ Through(q, W, P, l.start, n)
                /\ Known(q, W, P, l.place, n) /\ Known(q, W, P, e.place, n)
                /\ W[l.place] = l.val /\ W[e.place] = e.val
<1>1. PICK P1 : Through(q, W, P1, l.start, m) /\ Known(q, W, P1, l.place, m) /\ W[l.place] = l.val
  BY DEF Means
<1>2. PICK P2 : Through(q, W, P2, m, n) /\ Known(q, W, P2, e.place, n) /\ W[e.place] = e.val
  BY DEF Means
<1>3. PICK P0 : P0 = P1 \cup P2
  OBVIOUS
<1>4. Through(q, W, P0, l.start, n)
  BY <1>1, <1>2, <1>3, ThroughTwice
<1>5. P1 \subseteq P0 /\ P2 \subseteq P0 /\ Extended(W, W) /\ n <= n /\ \A y : Alike(y, y)
  BY <1>3, ExtendedSame DEF Alike
<1>6. (\A j \in P1 : j \in Nat) /\ (\A j \in P2 : j \in Nat) /\ m \in Nat /\ m <= n
  BY <1>1, <1>2 DEF Through
<1>7. Known(q, W, P0, l.place, n)
  BY <1>1, <1>5, <1>6, KnownStays
<1>8. Known(q, W, P0, e.place, n)
  BY <1>2, <1>5, <1>6, KnownStays
<1>9. QED BY <1>1, <1>2, <1>4, <1>7, <1>8

LEMMA ComparesMeans ==
  ASSUME NEW q, Numbered(q), NEW n, n = NextQuad(q), NEW W, NEW P,
         NEW l, IsExpr(l), l.val \in {T, F}, NEW r, IsExpr(r), r.val \in {T, F},
         Through(q, W, P, l.start, n), Known(q, W, P, l.place, n), Known(q, W, P, r.place, n),
         W[l.place] = l.val, W[r.place] = r.val,
         NEW op \in Comparisons, NEW val, val = Outcome(op, l.val, r.val),
         NEW sound \in BOOLEAN, NEW b, b = Compared(q, op, l, r, val, sound),
         NEW p, p = b.quads, NEW e, e = b.expr, e.sound
  PROVE  Means(p, W, e, NextQuad(p)) /\ e.start = l.start /\ Grown(q, p, {}) /\ n < NextQuad(p)
<1>1. val \in {T, F} /\ (HoldsAt(W, Test(op, l.place, r.place)) <=> val = T)
  BY ComparisonHolds
<1>2. op \in Tests /\ op # "jump"
  BY DEF Tests, Comparisons
<1>3. PICK a \in Nat : a = l.start
  BY DEF Through
<1>4. Through(q, W, P, a, n)
  BY <1>3
<1>5. QED BY <1>1, <1>2, <1>3, <1>4, ComparedMeans

-----------------------------------------------------------------------------
(* An expression without quads is a value known before. *)
LEMMA NoQuadsMeans ==
  ASSUME NEW q, NEW W, NEW n \in Nat, NEW e, Means(q, W, e, n), e.start = n
  PROVE  ~IsBool(e) /\ Known(q, W, {}, e.place, n) /\ W[e.place] = e.val
<1>1. ~IsBool(e)
  <2>1. SUFFICES ASSUME IsBool(e) PROVE FALSE
    OBVIOUS
  <2>2. PICK P, x, t, f : Leaves(q, W, P, x, e.start, n, t, f, e.val)
    BY <2>1 DEF Means
  <2>3. n <= x /\ x < n /\ x \in Nat
    BY <2>2 DEF Leaves, Through
  <2>4. QED BY <2>3
<1>2. PICK P : Through(q, W, P, e.start, n) /\ Known(q, W, P, e.place, n) /\ W[e.place] = e.val
  BY <1>1 DEF Means
<1>3. \A i \in P : i \in Nat /\ n <= i /\ i < n
  BY <1>2 DEF Through
<1>4. \A i : i \notin P
  BY <1>3
<1>5. Known(q, W, {}, e.place, n)
  BY <1>2, <1>4 DEF Known
<1>6. QED BY <1>1, <1>2, <1>5

(* make_eq_neq *)
LEMMA EqualityMeans ==
  ASSUME NEW q, Numbered(q), NEW n, n = NextQuad(q), n + 3 <= MaxQuads, NEW W, n \notin DOMAIN W,
         NEW m \in Nat, NEW l, Means(q, W, l, m), NEW e, Means(q, W, e, n), e.start = m, IsBool(l) => m = n,
         NEW op \in Comparisons, NEW val, val = Outcome(op, l.val, e.val),
         NEW b1, b1 = ConvertToValue(q, l), NEW q1, q1 = b1.quads, NEW c1, c1 = b1.expr,
         NEW b2, b2 = ConvertToValue(q1, e), NEW q2, q2 = b2.quads, NEW c2, c2 = b2.expr,
         NEW sound \in BOOLEAN, NEW b, b = Compared(q2, op, c1, c2, val, sound),
         NEW r, r = b.quads, NEW x, x = b.expr, x.sound
  PROVE  \E V, S : /\ Extended(W, V) /\ \A d \in DOMAIN V : d = n \/ d \in DOMAIN W
                   /\ Means(r, V, x, NextQuad(r)) /\ x.start = l.start /\ n < NextQuad(r)
                   /\ Grown(q, r, S) /\ \A i \in S : i \in Nat /\ l.start <= i
<1>0. n \in Nat /\ l.start \in Nat /\ l.start <= m /\ m <= n
  <2>1. n \in Nat
    BY DEF Numbered
  <2>2. ASSUME NEW y, NEW k \in Nat, Means(q, W, y, k)
        PROVE  y.start \in Nat /\ y.start <= k
    <3>1. CASE IsBool(y)
      <4>1. PICK P, z, t, f : Leaves(q, W, P, z, y.start, k, t, f, y.val)
        BY <2>2, <3>1 DEF Means
      <4>2. y.start \in Nat /\ z \in Nat /\ y.start <= z /\ z < k
        BY <4>1 DEF Leaves, Through
      <4>3. QED BY <4>2
    <3>2. CASE ~IsBool(y)
      BY <2>2, <3>2 DEF Means, Through
    <3>3. QED BY <3>1, <3>2
  <2>3. QED BY <2>1, <2>2
<1>1. \E V, S, P :
        /\ Extended(W, V) /\ \A d \in DOMAIN V : d = n \/ d \in DOMAIN W
        /\ Grown(q, q2, S) /\ \A i \in S : i \in Nat /\ l.start <= i
        /\ IsExpr(c1) /\ c1.val = l.val /\ c1.val \in {T, F} /\ c1.start = l.start
        /\ IsExpr(c2) /\ c2.val = e.val /\ c2.val \in {T, F}
        /\ Through(q2, V, P, l.start, NextQuad(q2))
        /\ Known(q2, V, P, c1.place, NextQuad(q2)) /\ Known(q2, V, P, c2.place, NextQuad(q2))
        /\ V[c1.place] = c1.val /\ V[c2.place] = c2.val
  <2>1. CASE ~IsBool(l)
    <3>1. q1 = q /\ c1 = l
      BY <2>1 DEF ConvertToValue, Both
    <3>2. PICK V, S : /\ Extended(W, V) /\ \A d \in DOMAIN V : d = n \/ (d \in DOMAIN W /\ V[d] = W[d])
                      /\ Means(q2, V, c2, NextQuad(q2)) /\ ~IsBool(c2) /\ c2.start = e.start /\ c2.val = e.val
                      /\ Grown(q, q2, S) /\ \A i \in S : i \in Nat /\ e.start <= i
      <4>1. b2 = ConvertToValue(q, e)
        BY <3>1
      <4>2. QED BY ONLY <4>1, Numbered(q), n = NextQuad(q), n + 3 <= MaxQuads, n \notin DOMAIN W,
                        Means(q, W, e, n), q2 = b2.quads, c2 = b2.expr, ToValueMeans
    <3>3. Means(q2, V, l, m)
      <4>1. \A i \in S : i \in Nat /\ m <= i
        BY <3>2
      <4>2. QED BY <3>2, <4>1, MeansStays
    <3>4. Numbered(q2) /\ NextQuad(q2) \in Nat
      BY <3>2 DEF Grown, Numbered
    <3>5. PICK P : /\ Through(q2, V, P, l.start, NextQuad(q2))
                   /\ Known(q2, V, P, l.place, NextQuad(q2)) /\ Known(q2, V, P, c2.place, NextQuad(q2))
                   /\ V[l.place] = l.val /\ V[c2.place] = c2.val
      BY <2>1, <3>2, <3>3, <3>4, BothKnown
    <3>6. \A i \in S : i \in Nat /\ l.start <= i
      BY <1>0, <3>2
    <3>7. IsExpr(c1) /\ c1.val = l.val /\ c1.val \in {T, F} /\ c1.start = l.start
          /\ IsExpr(c2) /\ c2.val \in {T, F}
      BY <3>1, <3>2 DEF Means
    <3>8. \A d \in DOMAIN V : d = n \/ d \in DOMAIN W
      BY <3>2
    <3>9. QED BY <3>1, <3>2, <3>5, <3>6, <3>7, <3>8
  <2>2. CASE IsBool(l)
    <3>1. m = n
      BY <2>2
    <3>2. ~IsBool(e) /\ Known(q, W, {}, e.place, n) /\ W[e.place] = e.val
      BY <1>0, <3>1, NoQuadsMeans
    <3>3. q2 = q1 /\ c2 = e
      BY <3>2 DEF ConvertToValue, Both
    <3>4. PICK V, S : /\ Extended(W, V) /\ \A d \in DOMAIN V : d = n \/ (d \in DOMAIN W /\ V[d] = W[d])
                      /\ Means(q1, V, c1, NextQuad(q1)) /\ ~IsBool(c1) /\ c1.start = l.start /\ c1.val = l.val
                      /\ Grown(q, q1, S) /\ \A i \in S : i \in Nat /\ l.start <= i
      <4>1. Means(q, W, l, n)
        BY <3>1
      <4>2. QED BY ONLY <4>1, Numbered(q), n = NextQuad(q), n + 3 <= MaxQuads, n \notin DOMAIN W,
                        b1 = ConvertToValue(q, l), q1 = b1.quads, c1 = b1.expr, ToValueMeans
    <3>5. PICK P : /\ Through(q1, V, P, l.start, NextQuad(q1)) /\ Known(q1, V, P, c1.place, NextQuad(q1))
                   /\ V[c1.place] = c1.val
      BY <3>4 DEF Means
    <3>6. NextQuad(q1) \in Nat /\ n <= NextQuad(q1)
      BY <3>4 DEF Grown, Numbered
    <3>7. Known(q1, V, P, e.place, NextQuad(q1))
      <4>1. \A k \in {} : k \in Nat /\ Alike(q[k], q1[k])
        OBVIOUS
      <4>2. {} \subseteq P
        OBVIOUS
      <4>3. QED BY ONLY <1>0, <3>2, <3>4, <3>6, <4>1, <4>2, KnownStays
    <3>8. V[e.place] = e.val
      <4>1. e.place \in DOMAIN W
        BY <3>2 DEF Known
      <4>2. QED BY <3>2, <3>4, <4>1 DEF Extended
    <3>9. IsExpr(c1) /\ c1.val \in {T, F} /\ IsExpr(e) /\ e.val \in {T, F}
      BY <3>4 DEF Means
    <3>10. \A d \in DOMAIN V : d = n \/ d \in DOMAIN W
      BY <3>4
    <3>11. QED BY <3>3, <3>4, <3>5, <3>7, <3>8, <3>9, <3>10
  <2>3. QED BY <2>1, <2>2
<1>2. PICK V, S, P :
        /\ Extended(W, V) /\ \A d \in DOMAIN V : d = n \/ d \in DOMAIN W
        /\ Grown(q, q2, S) /\ \A i \in S : i \in Nat /\ l.start <= i
        /\ IsExpr(c1) /\ c1.val = l.val /\ c1.val \in {T, F} /\ c1.start = l.start
        /\ IsExpr(c2) /\ c2.val = e.val /\ c2.val \in {T, F}
        /\ Through(q2, V, P, l.start, NextQuad(q2))
        /\ Known(q2, V, P, c1.place, NextQuad(q2)) /\ Known(q2, V, P, c2.place, NextQuad(q2))
        /\ V[c1.place] = c1.val /\ V[c2.place] = c2.val
  BY <1>1
<1>3. PICK n2 : n2 = NextQuad(q2)
  OBVIOUS
<1>4. /\ Numbered(q2) /\ val = Outcome(op, c1.val, c2.val)
      /\ Through(q2, V, P, c1.start, n2) /\ Known(q2, V, P, c1.place, n2) /\ Known(q2, V, P, c2.place, n2)
  BY <1>2, <1>3 DEF Grown
<1>5. Means(r, V, x, NextQuad(r)) /\ x.start = c1.start /\ Grown(q2, r, {}) /\ n2 < NextQuad(r)
  <2>1. sound \in BOOLEAN /\ op \in Comparisons /\ b = Compared(q2, op, c1, c2, val, sound)
        /\ r = b.quads /\ x = b.expr /\ x.sound
    OBVIOUS
  <2>2. n2 = NextQuad(q2) /\ IsExpr(c1) /\ c1.val \in {T, F} /\ IsExpr(c2) /\ c2.val \in {T, F}
        /\ V[c1.place] = c1.val /\ V[c2.place] = c2.val
    BY ONLY <1>2, <1>3
  <2>3. QED BY ONLY <1>4, <2>1, <2>2, ComparesMeans
<1>6. Grown(q, r, S)
  <2>1. \A i \in DOMAIN q : i \in S \cup {} => i \in S
    OBVIOUS
  <2>2. QED BY ONLY Numbered(q), <1>2, <1>5, <2>1, GrownTwice
<1>7. n < NextQuad(r)
  <2>1. n2 \in Nat /\ NextQuad(r) \in Nat /\ n <= n2
    BY ONLY <1>2, <1>3, <1>5, n = NextQuad(q) DEF Grown, Numbered
  <2>2. QED BY ONLY <1>0, <1>5, <2>1
<1>8. QED BY ONLY <1>2, <1>5, <1>6, <1>7

-----------------------------------------------------------------------------
(* The expressions on the stack lie one behind the other, the first behind  *)
(* what was emitted before the statement.                                   *)
StartOf(q, es, i) == IF i = Len(es) + 1 THEN NextQuad(q) ELSE es[i].start

Laid(q, W, es) ==
  /\ \A i \in 1 .. Len(es) : Means(q, W, es[i], StartOf(q, es, i + 1))
  /\ \A i \in 1 .. Len(es) + 1 : StartOf(q, es, i) \in Nat
  /\ \A i, j \in 1 .. Len(es) + 1 : i <= j => StartOf(q, es, i) <= StartOf(q, es, j)
  /\ \E P : Through(q, W, P, 0, StartOf(q, es, 1))

LEMMA LaidReplaced ==
  ASSUME NEW q, Numbered(q), NEW W, NEW es \in Seq(Exprs), Laid(q, W, es),
         NEW d \in Nat, d <= Len(es), NEW s, s = StartOf(q, es, d + 1),
         NEW r, NEW S, Grown(q, r, S), \A i \in S : i \in Nat /\ s <= i, NEW V, Extended(W, V),
         NEW e, Means(r, V, e, NextQuad(r)), e.start = s, NEW fs, fs = Replaced(es, d, e)
  PROVE  Laid(r, V, fs)
<1>1. /\ Len(fs) = d + 1 /\ fs[d + 1] = e
      /\ \A i \in 1 .. d : i \in DOMAIN es /\ fs[i] = es[i] /\ i # d + 1
      /\ \A i \in 1 .. d + 1 : i \in 1 .. d \/ i = d + 1
  BY ReplacedFacts DEF Means
<1>2. PICK k \in Nat : k = Len(es) /\ d <= k
  BY LenProperties
<1>3. StartOf(r, fs, d + 2) = NextQuad(r)
  BY <1>1 DEF StartOf
<1>4. StartOf(r, fs, d + 1) = s
  BY <1>1 DEF StartOf
<1>5. \A i \in 1 .. d + 1 : StartOf(r, fs, i) = StartOf(q, es, i)
  <2>1. \A i \in 1 .. d : i # d + 2 /\ i # k + 1
    BY <1>2
  <2>2. \A i \in 1 .. d : StartOf(r, fs, i) = StartOf(q, es, i)
    <3>1. SUFFICES ASSUME NEW i \in 1 .. d PROVE StartOf(r, fs, i) = StartOf(q, es, i)
      OBVIOUS
    <3>2. i # Len(fs) + 1 /\ i # Len(es) + 1 /\ fs[i] = es[i]
      BY <1>1, <1>2, <2>1
    <3>3. QED BY <3>2 DEF StartOf
  <2>3. QED BY <1>1, <1>4, <2>2
<1>6. s \in Nat /\ s <= NextQuad(q) /\ \A i \in 1 .. d + 1 : StartOf(q, es, i) \in Nat /\ StartOf(q, es, i) <= s
  <2>1. d + 1 \in 1 .. Len(es) + 1 /\ Len(es) + 1 \in 1 .. Len(es) + 1
    BY <1>2
  <2>2. \A i \in 1 .. d + 1 : i \in 1 .. Len(es) + 1 /\ i <= d + 1 /\ d + 1 <= Len(es) + 1
    BY <1>2
  <2>3. StartOf(q, es, Len(es) + 1) = NextQuad(q)
    BY DEF StartOf
  <2>4. QED BY <2>1, <2>2, <2>3 DEF Laid
<1>7. NextQuad(q) \in Nat /\ NextQuad(r) \in Nat /\ NextQuad(q) <= NextQuad(r)
  BY DEF Grown, Numbered
<1>8. ASSUME NEW i \in 1 .. Len(fs) PROVE Means(r, V, fs[i], StartOf(r, fs, i + 1))
  <2>1. CASE i = d + 1
    <3>1. i + 1 = d + 2
      BY <2>1
    <3>2. QED BY <1>1, <1>3, <2>1, <3>1
  <2>2. CASE i \in 1 .. d
    <3>1. i \in 1 .. Len(es) /\ i + 1 \in 1 .. d + 1
      BY <1>2, <2>2
    <3>2. PICK b : b = StartOf(q, es, i + 1)
      OBVIOUS
    <3>3. Means(q, W, es[i], b)
      BY <3>1, <3>2 DEF Laid
    <3>4. b \in Nat /\ b <= s /\ StartOf(r, fs, i + 1) = b /\ fs[i] = es[i]
      BY <1>1, <1>5, <1>6, <2>2, <3>1, <3>2
    <3>5. \A j \in S : j \in Nat /\ b <= j
      BY <1>6, <3>4
    <3>6. Means(r, V, es[i], b)
      BY <3>3, <3>4, <3>5, MeansStays
    <3>7. QED BY <3>4, <3>6
  <2>3. QED BY <1>1, <2>1, <2>2
<1>9. \A i \in 1 .. Len(fs) + 1 : i \in 1 .. d + 1 \/ i = d + 2
  BY <1>1
<1>10. \A i \in 1 .. Len(fs) + 1 : StartOf(r, fs, i) \in Nat
  BY <1>3, <1>5, <1>6, <1>7, <1>9
<1>11. ASSUME NEW i \in 1 .. Len(fs) + 1, NEW j \in 1 .. Len(fs) + 1, i <= j
       PROVE  StartOf(r, fs, i) <= StartOf(r, fs, j)
  <2>1. CASE j \in 1 .. d + 1
    <3>1. i \in 1 .. d + 1 /\ i \in 1 .. Len(es) + 1 /\ j \in 1 .. Len(es) + 1
      BY <1>2, <1>11, <2>1
    <3>2. StartOf(q, es, i) <= StartOf(q, es, j)
      BY <1>11, <3>1 DEF Laid
    <3>3. QED BY <1>5, <2>1, <3>1, <3>2
  <2>2. CASE j = d + 2 /\ i = d + 2
    BY <1>3, <1>7, <2>2
  <2>3. CASE j = d + 2 /\ i \in 1 .. d + 1
    <3>1. StartOf(r, fs, i) \in Nat /\ StartOf(r, fs, i) <= s
      BY <1>5, <1>6, <2>3
    <3>2. QED BY <1>3, <1>6, <1>7, <2>3, <3>1
  <2>4. QED BY <1>9, <2>1, <2>2, <2>3
<1>12. \E P : Through(r, V, P, 0, StartOf(r, fs, 1))
  <2>1. 1 \in 1 .. d + 1
    OBVIOUS
  <2>2. PICK b : b = StartOf(q, es, 1)
    OBVIOUS
  <2>3. PICK P : Through(q, W, P, 0, b)
    BY <2>2 DEF Laid
  <2>4. b \in Nat /\ b <= s /\ StartOf(r, fs, 1) = b
    BY <1>5, <1>6, <2>1, <2>2
  <2>5. \A j \in S : j \in Nat /\ b <= j
    BY <1>6, <2>4
  <2>6. Through(r, V, P, 0, b)
    BY <2>3, <2>5, ThroughGrown
  <2>7. QED BY <2>4, <2>6
<1>13. QED BY <1>8, <1>10, <1>11, <1>12 DEF Laid

(* The last operands on the stack. *)
LEMMA LaidLast ==
  ASSUME NEW q, NEW W, NEW es \in Seq(Exprs), Laid(q, W, es), NEW k, k = Len(es), k >= 1
  PROVE  /\ k \in Nat /\ k \in DOMAIN es /\ Means(q, W, es[k], NextQuad(q))
         /\ StartOf(q, es, k) = es[k].start /\ es[k].start \in Nat /\ es[k].start <= NextQuad(q)
<1>1. k \in Nat /\ k \in 1 .. k /\ k \in 1 .. k + 1 /\ k + 1 \in 1 .. k + 1 /\ k <= k + 1 /\ k # k + 1 /\ k \in DOMAIN es
  BY LenProperties
<1>2. StartOf(q, es, k) = es[k].start /\ StartOf(q, es, k + 1) = NextQuad(q)
  BY <1>1 DEF StartOf
<1>3. QED BY <1>1, <1>2 DEF Laid

LEMMA LaidBelow ==
  ASSUME NEW q, NEW W, NEW es \in Seq(Exprs), Laid(q, W, es), NEW k, k = Len(es), k >= 2
  PROVE  /\ k - 1 \in DOMAIN es /\ Means(q, W, es[k - 1], es[k].start)
         /\ StartOf(q, es, k - 1) = es[k - 1].start
<1>1. k \in Nat /\ k - 1 \in 1 .. k /\ (k - 1) + 1 = k /\ k # k + 1 /\ k - 1 # k + 1 /\ k - 1 \in DOMAIN es
  BY LenProperties
<1>2. StartOf(q, es, k - 1) = es[k - 1].start /\ StartOf(q, es, k) = es[k].start
  BY <1>1 DEF StartOf
<1>3. Means(q, W, es[k - 1], StartOf(q, es, (k - 1) + 1))
  BY <1>1 DEF Laid
<1>4. QED BY <1>1, <1>2, <1>3

-----------------------------------------------------------------------------
(* What the cells will hold: variables what they hold now, temporaries of   *)
(* the quads emitted what those will write.                                 *)
WorldAt(W) ==
  /\ Unwritten \in DOMAIN W
  /\ \A c \in DOMAIN W : \/ c \in Nat /\ c < NextQuad(quads)
                         \/ c \in Given /\ (c < Variable(read) \/ c = Unwritten) /\ W[c] = cell[c]

SoundStack == \A i \in DOMAIN exprs : exprs[i].sound
SoundInv ==
  mode = "parse" => /\ cell[Result] = F /\ cell[Unwritten] = U
                    /\ SoundStack => \E W : WorldAt(W) /\ Laid(quads, W, exprs)

(* The machine is on a way to the end that gives the answer, and so far has *)
(* written what it should.                                                  *)
OnWay(W, P) ==
  /\ Through(quads, W, P, 0, NextQuad(quads))
  /\ pc \in P \/ pc = NextQuad(quads)
  /\ \A c : Known(quads, W, P, c, pc) => cell[c] = W[c]
  /\ \/ Known(quads, W, P, answer, NextQuad(quads)) /\ W[answer] = exprs[1].val
     \/ answer \notin DOMAIN W /\ cell[answer] = exprs[1].val
RunInv ==
  mode = "run" /\ exprs[1].sound => \E W, P : OnWay(W, P)

RightInv == BoolExprInv /\ SoundInv /\ RunInv /\ SoundExpressionsAreRight

LEMMA LastIsExpr ==
  ASSUME NEW s \in Seq(Exprs), NEW e, Append(s, e) \in Seq(Exprs)
  PROVE  IsExpr(e)
<1>1. PICK S : S = Exprs \cup {e}
  OBVIOUS
<1>2. s \in Seq(S) /\ e \in S
  BY <1>1
<1>3. Append(s, e)[Len(s) + 1] = e /\ Len(Append(s, e)) = Len(s) + 1 /\ Len(s) \in Nat
  BY <1>2, AppendProperties, LenProperties
<1>4. Len(s) + 1 \in 1 .. Len(Append(s, e))
  BY <1>3
<1>5. QED BY <1>3, <1>4 DEF IsExpr

(* What an operator has to show. *)
LEMMA ReduceSound ==
  ASSUME RightInv, mode = "parse", NEW n \in {1, 2}, Depth >= n,
         NEW r, NEW e, Reduce(n, r, e),
         e.sound => \A i \in DOMAIN exprs : i > Depth - n => exprs[i].sound,
         ASSUME e.sound, NEW W, WorldAt(W), Laid(quads, W, exprs)
         PROVE  \E V, S : /\ Extended(W, V)
                          /\ \A c \in DOMAIN V : c \in DOMAIN W \/ (c \in Nat /\ c < NextQuad(r))
                          /\ Means(r, V, e, NextQuad(r)) /\ Grown(quads, r, S)
                          /\ e.start = StartOf(quads, exprs, Depth - n + 1)
                          /\ \A i \in S : i \in Nat /\ e.start <= i,
         BoolExprInv'
  PROVE  RightInv'
<1>1. TypeInv /\ exprs \in Seq(Exprs) /\ Depth = Len(exprs) /\ Len(exprs) \in Nat /\ Numbered(quads)
  BY LenProperties DEF RightInv, BoolExprInv, TypeInv, Depth
<1>2. PICK d \in Nat : d = Depth - n /\ d <= Len(exprs)
  <2>1. n \in Nat /\ Depth \in Nat /\ Depth >= n
    BY <1>1
  <2>2. Depth - n \in Nat /\ Depth - n <= Depth
    BY ONLY <2>1
  <2>3. QED BY <1>1, <2>2
<1>3. quads' = r /\ exprs' = Replaced(exprs, d, e) /\ UNCHANGED <<read, mode, pc, cell, answer>>
  BY <1>2 DEF Reduce, Replaced
<1>31. IsExpr(e)
  <2>1. exprs' \in Seq(Exprs)
    BY DEF BoolExprInv, TypeInv
  <2>2. PICK s : s = SubSeq(exprs, 1, d)
    OBVIOUS
  <2>3. s \in Seq(Exprs)
    BY <1>1, <1>2, <2>2
  <2>4. Append(s, e) \in Seq(Exprs)
    BY <1>3, <2>1, <2>2 DEF Replaced
  <2>5. QED BY <2>3, <2>4, LastIsExpr
<1>4. PICK fs : fs = Replaced(exprs, d, e)
  OBVIOUS
<1>5. /\ DOMAIN fs = 1 .. d + 1 /\ fs[d + 1] = e
      /\ \A i \in 1 .. d : i \in DOMAIN exprs /\ fs[i] = exprs[i]
  <2>1. exprs \in Seq(Exprs) /\ d \in Nat /\ d <= Len(exprs) /\ IsExpr(e) /\ fs = Replaced(exprs, d, e)
    BY <1>1, <1>2, <1>31, <1>4
  <2>2. QED BY ONLY <2>1, ReplacedFacts
<1>6. ASSUME SoundStack' PROVE SoundStack /\ e.sound
  <2>1. \A i \in DOMAIN fs : fs[i].sound
    BY <1>3, <1>4, <1>6 DEF SoundStack
  <2>2. d + 1 \in DOMAIN fs
    BY <1>5
  <2>3. e.sound
    BY <1>5, <2>1, <2>2
  <2>4. \A i \in DOMAIN exprs : i \in 1 .. d \/ i > Depth - n
    BY <1>1, <1>2, LenProperties
  <2>5. \A i \in 1 .. d : exprs[i].sound
    BY <1>5, <2>1
  <2>6. QED BY <2>3, <2>4, <2>5 DEF SoundStack
<1>7. ASSUME SoundStack' PROVE \E W : WorldAt(W)' /\ Laid(r, W, fs)
  <2>1. PICK W : WorldAt(W) /\ Laid(quads, W, exprs)
    BY <1>6, <1>7 DEF RightInv, SoundInv
  <2>2. PICK V, S : /\ Extended(W, V)
                    /\ \A c \in DOMAIN V : c \in DOMAIN W \/ (c \in Nat /\ c < NextQuad(r))
                    /\ Means(r, V, e, NextQuad(r)) /\ Grown(quads, r, S)
                    /\ e.start = StartOf(quads, exprs, Depth - n + 1)
                    /\ \A i \in S : i \in Nat /\ e.start <= i
    BY <1>6, <1>7, <2>1
  <2>3. Laid(r, V, fs)
    BY <1>1, <1>2, <1>4, <2>1, <2>2, LaidReplaced
  <2>4. WorldAt(V)'
    <3>1. NextQuad(quads) \in Nat /\ NextQuad(r) \in Nat /\ NextQuad(quads) <= NextQuad(r)
      BY ONLY <1>1, <2>2 DEF Grown, Numbered
    <3>2. \A c \in DOMAIN V : \/ c \in Nat /\ c < NextQuad(r)
                              \/ c \in Given /\ (c < Variable(read) \/ c = Unwritten) /\ V[c] = cell[c]
      BY <2>1, <2>2, <3>1 DEF WorldAt, Extended
    <3>3. Unwritten \in DOMAIN V
      BY <2>1, <2>2 DEF WorldAt, Extended
    <3>4. QED BY <1>3, <3>2, <3>3 DEF WorldAt
  <2>5. QED BY <2>3, <2>4
<1>8. SoundInv'
  <2>1. cell'[Result] = F /\ cell'[Unwritten] = U
    BY <1>3 DEF RightInv, SoundInv
  <2>2. SoundStack' => \E W : WorldAt(W)' /\ Laid(quads, W, exprs)'
    BY <1>3, <1>4, <1>7
  <2>3. QED BY <2>1, <2>2 DEF SoundInv
<1>9. RunInv' /\ SoundExpressionsAreRight'
  BY <1>3 DEF RunInv, SoundExpressionsAreRight
<1>10. QED BY <1>8, <1>9 DEF RightInv

(* The operands on the stack. *)
LEMMA LastOne ==
  ASSUME RightInv, Depth >= 1
  PROVE  /\ \A i \in DOMAIN exprs : i > Depth - 1 => exprs[i] = Top
         /\ \A W : Laid(quads, W, exprs) =>
              /\ Means(quads, W, Top, NextQuad(quads)) /\ StartOf(quads, exprs, Depth - 1 + 1) = Top.start
              /\ Top.start \in Nat /\ Top.start <= NextQuad(quads)
<1>1. exprs \in Seq(Exprs) /\ Depth = Len(exprs) /\ Len(exprs) \in Nat
  BY LenProperties DEF RightInv, BoolExprInv, TypeInv, Depth
<1>2. PICK k \in Nat : k = Len(exprs)
  BY <1>1
<1>3. Top = exprs[k] /\ Depth = k /\ k - 1 + 1 = k
  BY <1>1, <1>2 DEF Top
<1>4. \A i \in DOMAIN exprs : i > k - 1 => i = k
  BY <1>1, <1>2, LenProperties
<1>5. \A W : Laid(quads, W, exprs) =>
        /\ Means(quads, W, exprs[k], NextQuad(quads)) /\ StartOf(quads, exprs, k) = exprs[k].start
        /\ exprs[k].start \in Nat /\ exprs[k].start <= NextQuad(quads)
  BY <1>1, <1>2, LaidLast
<1>6. QED BY <1>3, <1>4, <1>5

LEMMA LastTwo ==
  ASSUME RightInv, Depth >= 2
  PROVE  /\ \A i \in DOMAIN exprs : i > Depth - 2 => exprs[i] = Top \/ exprs[i] = Below
         /\ IsExpr(Below) /\ IsExpr(Top)
         /\ \A W : Laid(quads, W, exprs) =>
              /\ Means(quads, W, Below, Top.start) /\ StartOf(quads, exprs, Depth - 2 + 1) = Below.start
              /\ Means(quads, W, Top, NextQuad(quads))
              /\ Top.start \in Nat /\ Top.start <= NextQuad(quads)
<1>1. exprs \in Seq(Exprs) /\ Depth = Len(exprs) /\ Len(exprs) \in Nat
  BY LenProperties DEF RightInv, BoolExprInv, TypeInv, Depth
<1>2. PICK k \in Nat : k = Len(exprs)
  BY <1>1
<1>3. Top = exprs[k] /\ Below = exprs[k - 1] /\ Depth = k /\ k - 2 + 1 = k - 1
  BY <1>1, <1>2 DEF Top, Below
<1>4. \A i \in DOMAIN exprs : i > k - 2 => i = k \/ i = k - 1
  BY <1>1, <1>2, LenProperties
<1>5. \A W : Laid(quads, W, exprs) =>
        /\ Means(quads, W, exprs[k], NextQuad(quads))
        /\ exprs[k].start \in Nat /\ exprs[k].start <= NextQuad(quads)
  BY <1>1, <1>2, LaidLast
<1>6. \A W : Laid(quads, W, exprs) =>
        /\ Means(quads, W, exprs[k - 1], exprs[k].start) /\ StartOf(quads, exprs, k - 1) = exprs[k - 1].start
  BY <1>1, <1>2, <1>3, LaidBelow
<1>7. k \in DOMAIN exprs /\ k - 1 \in DOMAIN exprs
  BY <1>1, <1>2, <1>3, LenProperties
<1>8. IsExpr(exprs[k]) /\ IsExpr(exprs[k - 1])
  BY <1>1, <1>7 DEF IsExpr
<1>9. QED BY <1>3, <1>4, <1>5, <1>6, <1>8

-----------------------------------------------------------------------------
(* The operators. *)

(* An expression that is converted is right only if it was. *)
LEMMA BoolSoundOnly ==
  ASSUME NEW q, NEW e, NEW c, c = ConvertToBool(q, e).expr, e.sound \in BOOLEAN, c.sound
  PROVE  e.sound
<1>1. CASE IsBool(e)
  BY <1>1 DEF ConvertToBool, Both
<1>2. CASE ~IsBool(e)
  <2>1. PICK n, s : n = NextQuad(q) /\ s = (e.sound /\ n # 0)
    OBVIOUS
  <2>2. c = Bool(Unwritten, n, n + 1, e.start, e.val, s)
    BY <1>2, <2>1 DEF ConvertToBool, Both
  <2>3. c.sound = s
    BY <2>2 DEF Bool
  <2>4. QED BY <2>1, <2>3
<1>3. QED BY <1>1, <1>2

LEMMA ClobberSound ==
  ASSUME RightInv, Clobber, BoolExprInv'
  PROVE  RightInv'
BY DEF Clobber, RightInv, SoundInv, RunInv, SoundExpressionsAreRight

LEMMA NotSound ==
  ASSUME RightInv, Not
  PROVE  RightInv'
<1>1. BoolExprInv /\ BoolExprInv'
  BY NotKeeps DEF RightInv
<1>2. Numbered(quads) /\ mode = "parse" /\ Depth >= 1
  BY <1>1, RoomFor DEF Not
<1>3. CASE Top.kind = "nil"
  BY <1>1, <1>3, ClobberSound DEF Not
<1>4. CASE Top.kind # "nil"
  <2>1. PICK q, n, b, r, c : q = quads /\ n = NextQuad(q) /\ b = ConvertToBool(q, Top) /\ r = b.quads /\ c = b.expr
    OBVIOUS
  <2>2. PICK val : val = Truth(c.val = F)
    OBVIOUS
  <2>3. PICK x : x = Bool(Unwritten, c.falselist, c.truelist, c.start, val, c.sound)
    OBVIOUS
  <2>4. Reduce(1, r, x)
    BY <1>4, <2>1, <2>2, <2>3 DEF Not
  <2>5. x.sound = c.sound /\ x.start = c.start /\ x.val = val /\ x.kind = "bool" /\ IsBool(x)
        /\ x.truelist = c.falselist /\ x.falselist = c.truelist
    BY <2>3 DEF Bool, IsBool
  <2>6. Top.sound \in BOOLEAN
    <3>1. PICK k \in Nat : k = Len(exprs) /\ k >= 1 /\ exprs \in Seq(Exprs) /\ Top = exprs[k]
      BY <1>1, <1>2, LenProperties DEF BoolExprInv, TypeInv, Depth, Top
    <3>2. exprs[k] \in Exprs
      BY <3>1
    <3>3. QED BY <3>1, <3>2 DEF Exprs
  <2>7. x.sound => \A i \in DOMAIN exprs : i > Depth - 1 => exprs[i].sound
    BY <1>2, <2>1, <2>5, <2>6, BoolSoundOnly, LastOne
  <2>8. ASSUME x.sound, NEW W, WorldAt(W), Laid(quads, W, exprs)
        PROVE  \E V, S : /\ Extended(W, V)
                         /\ \A d \in DOMAIN V : d \in DOMAIN W \/ (d \in Nat /\ d < NextQuad(r))
                         /\ Means(r, V, x, NextQuad(r)) /\ Grown(quads, r, S)
                         /\ x.start = StartOf(quads, exprs, Depth - 1 + 1)
                         /\ \A i \in S : i \in Nat /\ x.start <= i
    <3>1. Means(q, W, Top, n) /\ StartOf(quads, exprs, Depth - 1 + 1) = Top.start
      BY <1>2, <2>1, <2>8, LastOne
    <3>2. Means(r, W, c, NextQuad(r)) /\ IsBool(c) /\ c.start = Top.start /\ Grown(q, r, {})
      <4>1. Numbered(q) /\ n = NextQuad(q) /\ Means(q, W, Top, n) /\ b = ConvertToBool(q, Top)
            /\ r = b.quads /\ c = b.expr /\ c.sound
        BY <1>2, <2>1, <2>5, <2>8, <3>1
      <4>2. QED BY ONLY <4>1, ToBoolMeans
    <3>3. PICK P, y, t, f : /\ Waits(r, c, t, f) /\ Within(t, f, c.start, NextQuad(r))
                            /\ Leaves(r, W, P, y, c.start, NextQuad(r), t, f, c.val)
      BY <3>2 DEF Means
    <3>4. Leaves(r, W, P, y, c.start, NextQuad(r), f, t, val) /\ val \in {T, F}
      BY <2>2, <3>3 DEF Leaves, Truth, T, F
    <3>5. Within(f, t, c.start, NextQuad(r))
      BY <3>3 DEF Within
    <3>6. Waits(r, x, f, t)
      <4>1. /\ Listed(r, c.truelist, t) /\ Listed(r, c.falselist, f) /\ f \cap t = {}
            /\ t \subseteq JumpsOf(r) /\ f \subseteq JumpsOf(r) /\ c.start \in Nat /\ c.sound \in BOOLEAN
        BY <3>2, <3>3 DEF Waits, IsExpr, Exprs
      <4>2. val \in {T, F, U} /\ Numbered(r)
        BY <3>2, <3>4 DEF Grown
      <4>3. PICK s \in BOOLEAN : s = c.sound
        BY <4>1
      <4>4. x = Bool(Unwritten, c.falselist, c.truelist, c.start, val, s)
        BY <2>3, <4>3
      <4>5. QED BY <4>1, <4>2, <4>4, BoolWaits
    <3>7. IsExpr(x)
      BY <3>6 DEF Waits
    <3>8. Means(r, W, x, NextQuad(r))
      BY <2>5, <3>4, <3>5, <3>6, <3>7 DEF Means
    <3>9. Extended(W, W) /\ \A d \in DOMAIN W : d \in DOMAIN W \/ (d \in Nat /\ d < NextQuad(r))
      BY ExtendedSame
    <3>10. \A i \in {} : i \in Nat /\ x.start <= i
      OBVIOUS
    <3>11. x.start = StartOf(quads, exprs, Depth - 1 + 1) /\ Grown(quads, r, {})
      BY <2>1, <2>5, <3>1, <3>2
    <3>12. QED BY <3>8, <3>9, <3>10, <3>11
  <2>9. 1 \in {1, 2}
    OBVIOUS
  <2>10. QED BY <1>1, <1>2, <2>4, <2>7, <2>8, <2>9, ReduceSound
<1>5. QED BY <1>3, <1>4

(* The operands of an operator on two. *)
LEMMA TwoSound ==
  ASSUME RightInv, Depth >= 2, Below.sound, Top.sound
  PROVE  \A i \in DOMAIN exprs : i > Depth - 2 => exprs[i].sound
BY LastTwo

LEMMA AfterBoolSound ==
  ASSUME RightInv, Room(4), Depth >= 2, IsBool(Below), NEW isAnd \in BOOLEAN, BoolExprInv',
         NEW pass, pass = Choice(isAnd, Below.truelist, Below.falselist),
         NEW stop, stop = Choice(isAnd, Below.falselist, Below.truelist),
         NEW val, val = Combined(isAnd, Below.val, Top.val),
         AfterBool(Below, Top, val, pass, stop, isAnd)
  PROVE  RightInv'
<1>1. BoolExprInv /\ Numbered(quads) /\ mode = "parse"
  BY RoomFor DEF RightInv
<1>2. PICK q, n, l, e, b, c : /\ q = quads /\ n = NextQuad(q) /\ l = Below /\ e = Top
                              /\ b = ConvertToBool(q, e) /\ c = b.expr
  OBVIOUS
<1>3. PICK p, k : p = PatchToRight(b.quads, pass, c) /\ k = Choice(isAnd, c.falselist, c.truelist)
  OBVIOUS
<1>4. PICK r, tl, fl : /\ r = MergeLists(p, stop, k)
                       /\ tl = Choice(isAnd, c.truelist, Merged(stop, c.truelist))
                       /\ fl = Choice(isAnd, Merged(stop, c.falselist), c.falselist)
  OBVIOUS
<1>5. IsExpr(l) /\ IsExpr(e) /\ l.sound \in BOOLEAN /\ e.sound \in BOOLEAN
  BY <1>2, LastTwo DEF IsExpr, Exprs
<1>6. PICK sound \in BOOLEAN : sound = (l.sound /\ c.sound /\ c.start = c.truelist)
  BY <1>5
<1>7. PICK x : x = Bool(Unwritten, tl, fl, l.start, val, sound)
  OBVIOUS
<1>8. Reduce(2, r, x)
  BY <1>2, <1>3, <1>4, <1>6, <1>7 DEF AfterBool, Choice
<1>9. x.sound = sound /\ x.start = l.start
  BY <1>7 DEF Bool
<1>10. x.sound => l.sound /\ c.sound /\ c.start = c.truelist
  BY <1>6, <1>9
<1>11. x.sound => \A i \in DOMAIN exprs : i > Depth - 2 => exprs[i].sound
  BY <1>2, <1>5, <1>10, BoolSoundOnly, TwoSound
<1>12. ASSUME x.sound, NEW W, WorldAt(W), Laid(quads, W, exprs)
       PROVE  \E V, S : /\ Extended(W, V)
                        /\ \A d \in DOMAIN V : d \in DOMAIN W \/ (d \in Nat /\ d < NextQuad(r))
                        /\ Means(r, V, x, NextQuad(r)) /\ Grown(quads, r, S)
                        /\ x.start = StartOf(quads, exprs, Depth - 2 + 1)
                        /\ \A i \in S : i \in Nat /\ x.start <= i
  <2>1. PICK m \in Nat : m = e.start
    BY <1>2, <1>12, LastTwo
  <2>2. /\ Means(q, W, l, m) /\ Means(q, W, e, n) /\ m <= n
        /\ StartOf(quads, exprs, Depth - 2 + 1) = l.start
    BY <1>2, <1>12, <2>1, LastTwo
  <2>3. PICK S : /\ Means(r, W, x, NextQuad(r)) /\ Grown(q, r, S)
                 /\ \A i \in S : i \in Nat /\ l.start <= i
    <3>1. /\ Numbered(q) /\ n = NextQuad(q) /\ m \in Nat /\ m <= n
          /\ Means(q, W, l, m) /\ IsBool(l) /\ Means(q, W, e, n) /\ e.start = m /\ isAnd \in BOOLEAN
          /\ pass = Choice(isAnd, l.truelist, l.falselist)
          /\ stop = Choice(isAnd, l.falselist, l.truelist)
          /\ b = ConvertToBool(q, e) /\ c = b.expr /\ c.sound /\ c.start = c.truelist
          /\ p = PatchToRight(b.quads, pass, c)
          /\ k = Choice(isAnd, c.falselist, c.truelist) /\ r = MergeLists(p, stop, k)
          /\ tl = Choice(isAnd, c.truelist, Merged(stop, c.truelist))
          /\ fl = Choice(isAnd, Merged(stop, c.falselist), c.falselist)
          /\ val = Combined(isAnd, l.val, e.val) /\ sound \in BOOLEAN
          /\ x = Bool(Unwritten, tl, fl, l.start, val, sound)
      BY <1>1, <1>2, <1>3, <1>4, <1>7, <1>10, <1>12, <2>1, <2>2
    <3>2. QED BY ONLY <3>1, AfterBoolMeans
  <2>4. Extended(W, W) /\ \A d \in DOMAIN W : d \in DOMAIN W \/ (d \in Nat /\ d < NextQuad(r))
    BY ExtendedSame
  <2>5. Grown(quads, r, S) /\ x.start = StartOf(quads, exprs, Depth - 2 + 1)
        /\ \A i \in S : i \in Nat /\ x.start <= i
    BY <1>2, <1>9, <2>2, <2>3
  <2>6. QED BY <2>3, <2>4, <2>5
<1>13. 2 \in {1, 2}
  OBVIOUS
<1>14. QED BY ONLY RightInv, Depth >= 2, BoolExprInv', <1>1, <1>8, <1>11, <1>12, <1>13, ReduceSound

LEMMA AfterValueSound ==
  ASSUME RightInv, Room(4), Depth >= 2, ~IsBool(Below), NEW isAnd \in BOOLEAN, BoolExprInv',
         NEW val, val = Combined(isAnd, Below.val, Top.val),
         AfterValue(Below, Top, val, isAnd)
  PROVE  RightInv'
<1>1. BoolExprInv /\ Numbered(quads) /\ mode = "parse"
  BY RoomFor DEF RightInv
<1>2. PICK q, n, l, e : q = quads /\ n = NextQuad(q) /\ l = Below /\ e = Top
  OBVIOUS
<1>3. PICK pass, stop : pass = (IF isAnd THEN n ELSE n + 1) /\ stop = (IF isAnd THEN n + 1 ELSE n)
  OBVIOUS
<1>4. PICK q1, p, b, c, d, k :
        /\ q1 = WithTest(q, IfTrue(l.place)) /\ p = PatchLabel(q1, pass, NextQuad(q1))
        /\ b = ConvertToBool(p, e) /\ c = b.expr /\ d = NewList(b.quads, stop)
        /\ k = Choice(isAnd, c.falselist, c.truelist)
  OBVIOUS
<1>5. PICK r, tl, fl : /\ r = MergeLists(d, stop, k)
                       /\ tl = Choice(isAnd, c.truelist, Merged(stop, c.truelist))
                       /\ fl = Choice(isAnd, Merged(stop, c.falselist), c.falselist)
  OBVIOUS
<1>6. IsExpr(l) /\ IsExpr(e) /\ l.sound \in BOOLEAN /\ e.sound \in BOOLEAN
  BY <1>2, LastTwo DEF IsExpr, Exprs
<1>7. PICK sound \in BOOLEAN : sound = (l.sound /\ c.sound /\ ~IsBool(e) /\ n # 0)
  BY <1>6
<1>8. PICK x : x = Bool(Unwritten, tl, fl, l.start, val, sound)
  OBVIOUS
<1>9. Reduce(2, r, x)
  BY <1>2, <1>3, <1>4, <1>5, <1>7, <1>8 DEF AfterValue, Choice
<1>10. x.sound = sound /\ x.start = l.start
  BY <1>8 DEF Bool
<1>11. x.sound => l.sound /\ c.sound /\ ~IsBool(e) /\ n # 0
  BY <1>7, <1>10
<1>12. x.sound => \A i \in DOMAIN exprs : i > Depth - 2 => exprs[i].sound
  <2>1. x.sound => e.sound
    BY ONLY <1>4, <1>6, <1>11, BoolSoundOnly
  <2>2. QED BY <1>2, <1>11, <2>1, TwoSound
<1>13. ASSUME x.sound, NEW W, WorldAt(W), Laid(quads, W, exprs)
       PROVE  \E V, S : /\ Extended(W, V)
                        /\ \A j \in DOMAIN V : j \in DOMAIN W \/ (j \in Nat /\ j < NextQuad(r))
                        /\ Means(r, V, x, NextQuad(r)) /\ Grown(quads, r, S)
                        /\ x.start = StartOf(quads, exprs, Depth - 2 + 1)
                        /\ \A i \in S : i \in Nat /\ x.start <= i
  <2>1. PICK m \in Nat : m = e.start
    BY <1>2, <1>13, LastTwo
  <2>2. /\ Means(q, W, l, m) /\ Means(q, W, e, n) /\ m <= n
        /\ StartOf(quads, exprs, Depth - 2 + 1) = l.start
    BY <1>2, <1>13, <2>1, LastTwo
  <2>3. Means(r, W, x, NextQuad(r)) /\ Grown(q, r, {})
    <3>1. /\ Numbered(q) /\ n = NextQuad(q) /\ n # 0 /\ m \in Nat /\ m <= n
          /\ Means(q, W, l, m) /\ ~IsBool(l) /\ Means(q, W, e, n) /\ ~IsBool(e) /\ e.start = m
          /\ isAnd \in BOOLEAN
      BY <1>1, <1>2, <1>11, <1>13, <2>1, <2>2
    <3>2. val = Combined(isAnd, l.val, e.val) /\ sound \in BOOLEAN
      BY <1>2
    <3>3. /\ pass = (IF isAnd THEN n ELSE n + 1) /\ stop = (IF isAnd THEN n + 1 ELSE n)
          /\ q1 = WithTest(q, IfTrue(l.place)) /\ p = PatchLabel(q1, pass, NextQuad(q1))
          /\ b = ConvertToBool(p, e) /\ c = b.expr /\ d = NewList(b.quads, stop)
          /\ k = Choice(isAnd, c.falselist, c.truelist) /\ r = MergeLists(d, stop, k)
          /\ tl = Choice(isAnd, c.truelist, Merged(stop, c.truelist))
          /\ fl = Choice(isAnd, Merged(stop, c.falselist), c.falselist)
          /\ x = Bool(Unwritten, tl, fl, l.start, val, sound)
      BY ONLY <1>3, <1>4, <1>5, <1>8
    <3>4. QED BY ONLY <3>1, <3>2, <3>3, AfterValueMeans, SMTT(20)
  <2>4. Extended(W, W) /\ \A j \in DOMAIN W : j \in DOMAIN W \/ (j \in Nat /\ j < NextQuad(r))
    BY ExtendedSame
  <2>5. Grown(quads, r, {}) /\ x.start = StartOf(quads, exprs, Depth - 2 + 1)
        /\ \A i \in {} : i \in Nat /\ x.start <= i
    BY <1>2, <1>10, <2>2, <2>3
  <2>6. QED BY <2>3, <2>4, <2>5
<1>14. 2 \in {1, 2}
  OBVIOUS
<1>15. QED BY ONLY RightInv, Depth >= 2, BoolExprInv', <1>1, <1>9, <1>12, <1>13, <1>14, ReduceSound

LEMMA AndSound ==
  ASSUME RightInv, And
  PROVE  RightInv'
<1>1. BoolExprInv' /\ Room(4) /\ Depth >= 2
  BY AndKeeps DEF RightInv, And
<1>2. PICK val : val = Truth(Below.val = T /\ Top.val = T)
  OBVIOUS
<1>3. val = Combined(TRUE, Below.val, Top.val) /\ TRUE \in BOOLEAN
  BY <1>2 DEF Combined, Choice
<1>4. CASE "nil" \in {Below.kind, Top.kind}
  BY <1>1, <1>4, ClobberSound DEF And
<1>5. CASE "nil" \notin {Below.kind, Top.kind} /\ IsBool(Below)
  <2>1. PICK pass, stop : pass = Below.truelist /\ stop = Below.falselist
    OBVIOUS
  <2>2. pass = Choice(TRUE, Below.truelist, Below.falselist) /\ stop = Choice(TRUE, Below.falselist, Below.truelist)
    BY <2>1 DEF Choice
  <2>3. AfterBool(Below, Top, val, pass, stop, TRUE)
    BY <1>2, <1>5, <2>1 DEF And
  <2>4. QED BY <1>1, <1>3, <1>5, <2>2, <2>3, AfterBoolSound
<1>6. CASE "nil" \notin {Below.kind, Top.kind} /\ ~IsBool(Below)
  <2>1. AfterValue(Below, Top, val, TRUE)
    BY <1>2, <1>6 DEF And
  <2>2. QED BY <1>1, <1>3, <1>6, <2>1, AfterValueSound
<1>7. QED BY <1>4, <1>5, <1>6

LEMMA OrSound ==
  ASSUME RightInv, Or
  PROVE  RightInv'
<1>1. BoolExprInv' /\ Room(4) /\ Depth >= 2
  BY OrKeeps DEF RightInv, Or
<1>2. PICK val : val = Truth(Below.val = T \/ Top.val = T)
  OBVIOUS
<1>3. val = Combined(FALSE, Below.val, Top.val) /\ FALSE \in BOOLEAN
  BY <1>2 DEF Combined, Choice
<1>4. CASE "nil" \in {Below.kind, Top.kind}
  BY <1>1, <1>4, ClobberSound DEF Or
<1>5. CASE "nil" \notin {Below.kind, Top.kind} /\ IsBool(Below)
  <2>1. PICK pass, stop : pass = Below.falselist /\ stop = Below.truelist
    OBVIOUS
  <2>2. pass = Choice(FALSE, Below.truelist, Below.falselist) /\ stop = Choice(FALSE, Below.falselist, Below.truelist)
    BY <2>1 DEF Choice
  <2>3. AfterBool(Below, Top, val, pass, stop, FALSE)
    BY <1>2, <1>5, <2>1 DEF Or
  <2>4. QED BY <1>1, <1>3, <1>5, <2>2, <2>3, AfterBoolSound
<1>6. CASE "nil" \notin {Below.kind, Top.kind} /\ ~IsBool(Below)
  <2>1. AfterValue(Below, Top, val, FALSE)
    BY <1>2, <1>6 DEF Or
  <2>2. QED BY <1>1, <1>3, <1>6, <2>1, AfterValueSound
<1>7. QED BY <1>4, <1>5, <1>6

(* The temporary that is written next has no meaning yet. *)
LEMMA NextIsNew ==
  ASSUME RightInv, NEW W, WorldAt(W)
  PROVE  NextQuad(quads) < MaxQuads => NextQuad(quads) \notin DOMAIN W
<1>1. NextQuad(quads) \in Nat /\ MaxQuads \in Nat /\ MaxQuads <= Unwritten /\ Unwritten \in Nat
  BY Places DEF RightInv, BoolExprInv, TypeInv, Numbered
<1>2. \A c : c \in Given => c \in Nat /\ MaxQuads <= c
  BY <1>1 DEF Given
<1>3. QED BY <1>1, <1>2 DEF WorldAt

LEMMA EqualitySound ==
  ASSUME RightInv, BoolExprInv', NEW op \in Comparisons, NEW val, val = Outcome(op, Below.val, Top.val),
         Equality(op, val)
  PROVE  RightInv'
<1>1. BoolExprInv /\ Numbered(quads) /\ mode = "parse" /\ Depth >= 2
      /\ NextQuad(quads) \in Nat /\ NextQuad(quads) + 8 <= MaxQuads /\ MaxQuads \in Nat
  BY RoomFor DEF RightInv, Equality
<1>2. PICK q, n, l, e : q = quads /\ n = NextQuad(q) /\ l = Below /\ e = Top
  OBVIOUS
<1>3. PICK b1, q1, c1, b2, q2, c2 :
        /\ b1 = ConvertToValue(q, l) /\ q1 = b1.quads /\ c1 = b1.expr
        /\ b2 = ConvertToValue(q1, e) /\ q2 = b2.quads /\ c2 = b2.expr
  OBVIOUS
<1>4. IsExpr(l) /\ IsExpr(e) /\ l.sound \in BOOLEAN /\ e.sound \in BOOLEAN
  BY <1>1, <1>2, LastTwo DEF IsExpr, Exprs
<1>5. PICK sound \in BOOLEAN : sound = (l.sound /\ e.sound /\ (IsBool(l) => e.start = n))
  BY <1>4
<1>6. PICK b, r, x : b = Compared(q2, op, c1, c2, val, sound) /\ r = b.quads /\ x = b.expr
  OBVIOUS
<1>7. Reduce(2, r, x)
  BY <1>2, <1>3, <1>5, <1>6 DEF Equality
<1>8. x.sound => sound
  <2>1. CASE "nil" \in {c1.kind, c2.kind}
    <3>1. x = Bool(NextQuad(q2), 0, 0, c1.start, val, FALSE)
      BY <1>6, <2>1 DEF Compared, Both
    <3>2. x.sound = FALSE
      BY <3>1 DEF Bool
    <3>3. QED BY <3>2
  <2>2. CASE "nil" \notin {c1.kind, c2.kind}
    <3>1. PICK k, s : k = NextQuad(q2) /\ s = (sound /\ k # 0)
      OBVIOUS
    <3>2. x = Bool(Unwritten, k, k + 1, c1.start, val, s)
      BY <1>6, <2>2, <3>1 DEF Compared, Both
    <3>3. x.sound = s
      BY <3>2 DEF Bool
    <3>4. QED BY <3>1, <3>3
  <2>3. QED BY <2>1, <2>2
<1>9. x.sound => l.sound /\ e.sound /\ (IsBool(l) => e.start = n)
  BY <1>5, <1>8
<1>10. x.sound => \A i \in DOMAIN exprs : i > Depth - 2 => exprs[i].sound
  BY <1>1, <1>2, <1>9, TwoSound
<1>11. ASSUME x.sound, NEW W, WorldAt(W), Laid(quads, W, exprs)
       PROVE  \E V, S : /\ Extended(W, V)
                        /\ \A d \in DOMAIN V : d \in DOMAIN W \/ (d \in Nat /\ d < NextQuad(r))
                        /\ Means(r, V, x, NextQuad(r)) /\ Grown(quads, r, S)
                        /\ x.start = StartOf(quads, exprs, Depth - 2 + 1)
                        /\ \A i \in S : i \in Nat /\ x.start <= i
  <2>1. PICK m \in Nat : m = e.start
    BY <1>1, <1>2, <1>11, LastTwo
  <2>2. /\ Means(q, W, l, m) /\ Means(q, W, e, n)
        /\ StartOf(quads, exprs, Depth - 2 + 1) = l.start
    BY <1>1, <1>2, <1>11, <2>1, LastTwo
  <2>3. n \notin DOMAIN W /\ n + 3 <= MaxQuads
    <3>1. NextQuad(quads) < MaxQuads /\ NextQuad(quads) + 3 <= MaxQuads
      BY ONLY <1>1
    <3>2. QED BY <1>2, <1>11, <3>1, NextIsNew
  <2>4. PICK V, S : /\ Extended(W, V) /\ \A d \in DOMAIN V : d = n \/ d \in DOMAIN W
                    /\ Means(r, V, x, NextQuad(r)) /\ x.start = l.start /\ n < NextQuad(r)
                    /\ Grown(q, r, S) /\ \A i \in S : i \in Nat /\ l.start <= i
    <3>1. /\ Numbered(q) /\ n = NextQuad(q) /\ m \in Nat /\ e.start = m /\ (IsBool(l) => m = n)
          /\ val = Outcome(op, l.val, e.val) /\ sound \in BOOLEAN /\ op \in Comparisons /\ x.sound
      BY <1>1, <1>2, <1>9, <1>11, <2>1
    <3>2. QED BY ONLY <1>3, <1>6, <2>2, <2>3, <3>1, EqualityMeans
  <2>5. n \in Nat /\ n < NextQuad(r)
    BY ONLY <1>1, <1>2, <2>4
  <2>6. \A d \in DOMAIN V : d \in DOMAIN W \/ (d \in Nat /\ d < NextQuad(r))
    BY <2>4, <2>5
  <2>7. Grown(quads, r, S) /\ x.start = StartOf(quads, exprs, Depth - 2 + 1)
        /\ \A i \in S : i \in Nat /\ x.start <= i
    BY <1>2, <2>2, <2>4
  <2>8. QED BY <2>4, <2>6, <2>7
<1>12. 2 \in {1, 2}
  OBVIOUS
<1>13. QED BY ONLY RightInv, <1>1, BoolExprInv', <1>7, <1>10, <1>11, <1>12, ReduceSound

LEMMA EqualSound ==
  ASSUME RightInv, Equal
  PROVE  RightInv'
<1>1. PICK val, op : val = Truth(Below.val = Top.val) /\ op = "if_eq"
  OBVIOUS
<1>2. /\ val \in {T, F, U} /\ op \in Tests /\ Equality(op, val)
      /\ op \in Comparisons /\ val = Outcome(op, Below.val, Top.val)
  BY <1>1, Values3 DEF Equal, Comparisons, Outcome
<1>3. BoolExprInv'
  BY <1>2, EqualityKeeps DEF RightInv
<1>4. QED BY <1>2, <1>3, EqualitySound

LEMMA NotEqualSound ==
  ASSUME RightInv, NotEqual
  PROVE  RightInv'
<1>1. PICK val, op : val = Truth(Below.val # Top.val) /\ op = "if_noteq"
  OBVIOUS
<1>2. /\ val \in {T, F, U} /\ op \in Tests /\ Equality(op, val)
      /\ op \in Comparisons /\ val = Outcome(op, Below.val, Top.val)
  BY <1>1, Values3 DEF NotEqual, Comparisons, Outcome
<1>3. BoolExprInv'
  BY <1>2, EqualityKeeps DEF RightInv
<1>4. QED BY <1>2, <1>3, EqualitySound

(* Two values that are known, compared. *)
Comparable(q, W, P, l, r, n) ==
  /\ Numbered(q) /\ n = NextQuad(q)
  /\ IsExpr(l) /\ l.val \in {T, F} /\ IsExpr(r) /\ r.val \in {T, F}
  /\ Through(q, W, P, l.start, n) /\ Known(q, W, P, l.place, n) /\ Known(q, W, P, r.place, n)
  /\ W[l.place] = l.val /\ W[r.place] = r.val

LEMMA LessMeans ==
  ASSUME NEW q, NEW W, NEW P, NEW l, NEW r, NEW n, Comparable(q, W, P, l, r, n),
         NEW val, val = Outcome("if_less", l.val, r.val), NEW sound \in BOOLEAN,
         NEW b, b = Compared(q, "if_less", l, r, val, sound), b.expr.sound
  PROVE  /\ Means(b.quads, W, b.expr, NextQuad(b.quads)) /\ b.expr.start = l.start
         /\ Grown(q, b.quads, {}) /\ n < NextQuad(b.quads)
<1>1. /\ Numbered(q) /\ n = NextQuad(q)
      /\ IsExpr(l) /\ l.val \in {T, F} /\ IsExpr(r) /\ r.val \in {T, F}
      /\ Through(q, W, P, l.start, n) /\ Known(q, W, P, l.place, n) /\ Known(q, W, P, r.place, n)
      /\ W[l.place] = l.val /\ W[r.place] = r.val
  BY DEF Comparable
<1>2. PICK op \in Comparisons : op = "if_less"
  BY DEF Comparisons
<1>3. PICK p, e : p = b.quads /\ e = b.expr
  OBVIOUS
<1>4. /\ op \in Tests /\ op # "jump" /\ val \in {T, F}
      /\ (HoldsAt(W, Test(op, l.place, r.place)) <=> val = T)
  <2>1. val = Outcome(op, l.val, r.val)
    BY <1>2
  <2>2. val \in {T, F} /\ (HoldsAt(W, Test(op, l.place, r.place)) <=> val = T)
    BY ONLY op \in Comparisons, <1>1, <2>1, ComparisonHolds
  <2>3. QED BY <1>2, <2>2 DEF Tests
<1>5. PICK a \in Nat : a = l.start
  BY <1>1 DEF Through
<1>6. /\ Through(q, W, P, a, n) /\ l.start = a /\ b = Compared(q, op, l, r, val, sound)
      /\ sound \in BOOLEAN /\ p = b.quads /\ e = b.expr /\ e.sound /\ a \in Nat
  BY <1>1, <1>2, <1>3, <1>5
<1>7. /\ Means(p, W, e, NextQuad(p)) /\ e.start = a
      /\ Grown(q, p, {}) /\ n < NextQuad(p)
  BY ONLY <1>1, <1>4, <1>6, ComparedMeans
<1>8. QED BY <1>3, <1>5, <1>7

LEMMA LessSound ==
  ASSUME RightInv, Less
  PROVE  RightInv'
<1>1. BoolExprInv /\ BoolExprInv' /\ Numbered(quads) /\ mode = "parse" /\ Depth >= 2
  BY LessKeeps, RoomFor DEF RightInv, Less
<1>2. PICK q, n, l, e : q = quads /\ n = NextQuad(q) /\ l = Below /\ e = Top
  OBVIOUS
<1>3. IsExpr(l) /\ IsExpr(e) /\ l.sound \in BOOLEAN /\ e.sound \in BOOLEAN
  BY <1>1, <1>2, LastTwo DEF IsExpr, Exprs
<1>4. PICK sound \in BOOLEAN : sound = (l.sound /\ e.sound /\ ~IsBool(l) /\ ~IsBool(e))
  BY <1>3
<1>5. PICK val : val = Truth(l.val < e.val /\ e.val # U)
  OBVIOUS
<1>6. PICK b, r, x : b = Compared(q, "if_less", l, e, val, sound) /\ r = b.quads /\ x = b.expr
  OBVIOUS
<1>7. Reduce(2, r, x)
  BY <1>2, <1>4, <1>5, <1>6 DEF Less
<1>8. x.sound => sound
  <2>1. CASE "nil" \in {l.kind, e.kind}
    <3>1. x = Bool(n, 0, 0, l.start, val, FALSE)
      BY <1>2, <1>6, <2>1 DEF Compared, Both
    <3>2. x.sound = FALSE
      BY <3>1 DEF Bool
    <3>3. QED BY <3>2
  <2>2. CASE "nil" \notin {l.kind, e.kind}
    <3>1. PICK s : s = (sound /\ n # 0)
      OBVIOUS
    <3>2. x = Bool(Unwritten, n, n + 1, l.start, val, s)
      BY <1>2, <1>6, <2>2, <3>1 DEF Compared, Both
    <3>3. x.sound = s
      BY <3>2 DEF Bool
    <3>4. QED BY <3>1, <3>3
  <2>3. QED BY <2>1, <2>2
<1>9. x.sound => l.sound /\ e.sound /\ ~IsBool(l) /\ ~IsBool(e)
  BY <1>4, <1>8
<1>10. x.sound => \A i \in DOMAIN exprs : i > Depth - 2 => exprs[i].sound
  BY <1>1, <1>2, <1>9, TwoSound
<1>11. ASSUME x.sound, NEW W, WorldAt(W), Laid(quads, W, exprs)
       PROVE  \E V, S : /\ Extended(W, V)
                        /\ \A d \in DOMAIN V : d \in DOMAIN W \/ (d \in Nat /\ d < NextQuad(r))
                        /\ Means(r, V, x, NextQuad(r)) /\ Grown(quads, r, S)
                        /\ x.start = StartOf(quads, exprs, Depth - 2 + 1)
                        /\ \A i \in S : i \in Nat /\ x.start <= i
  <2>1. PICK m : m = e.start
    OBVIOUS
  <2>2. /\ Means(q, W, l, m) /\ Means(q, W, e, n) /\ e.start = m
        /\ StartOf(quads, exprs, Depth - 2 + 1) = l.start
    BY <1>1, <1>2, <1>11, <2>1, LastTwo
  <2>3. n \in Nat /\ Numbered(q) /\ n = NextQuad(q) /\ ~IsBool(l) /\ ~IsBool(e)
    BY <1>1, <1>2, <1>9, <1>11 DEF Numbered
  <2>4. PICK P : /\ Through(q, W, P, l.start, n)
                 /\ Known(q, W, P, l.place, n) /\ Known(q, W, P, e.place, n)
                 /\ W[l.place] = l.val /\ W[e.place] = e.val
    BY ONLY <2>2, <2>3, BothKnown
  <2>5. l.val \in {T, F} /\ e.val \in {T, F}
    BY <2>2 DEF Means
  <2>6. PICK op \in Comparisons : op = "if_less"
    BY DEF Comparisons
  <2>7. val = Outcome(op, l.val, e.val)
    BY <1>5, <2>5, <2>6 DEF Outcome, Truth, T, F, U
  <2>8. b = Compared(q, op, l, e, val, sound) /\ r = b.quads /\ x = b.expr /\ x.sound /\ sound \in BOOLEAN
        /\ op \in Comparisons
    BY <1>6, <1>11, <2>6
  <2>9. Means(r, W, x, NextQuad(r)) /\ x.start = l.start /\ Grown(q, r, {}) /\ n < NextQuad(r)
    <3>1. Comparable(q, W, P, l, e, n)
      BY ONLY <1>3, <2>3, <2>4, <2>5 DEF Comparable
    <3>2. /\ val = Outcome("if_less", l.val, e.val) /\ sound \in BOOLEAN
          /\ b = Compared(q, "if_less", l, e, val, sound) /\ b.expr.sound
      BY <2>6, <2>7, <2>8
    <3>3. /\ Means(b.quads, W, b.expr, NextQuad(b.quads)) /\ b.expr.start = l.start
          /\ Grown(q, b.quads, {}) /\ n < NextQuad(b.quads)
      BY ONLY <3>1, <3>2, LessMeans
    <3>4. QED BY ONLY <2>8, <3>3
  <2>10. Extended(W, W) /\ \A d \in DOMAIN W : d \in DOMAIN W \/ (d \in Nat /\ d < NextQuad(r))
    BY ExtendedSame
  <2>11. Grown(quads, r, {}) /\ x.start = StartOf(quads, exprs, Depth - 2 + 1)
         /\ \A i \in {} : i \in Nat /\ x.start <= i
    BY <1>2, <2>2, <2>9
  <2>12. QED BY <2>9, <2>10, <2>11
<1>12. 2 \in {1, 2}
  OBVIOUS
<1>13. QED BY ONLY RightInv, <1>1, <1>7, <1>10, <1>11, <1>12, ReduceSound

(* What an operand has to show. *)
LEMMA ReadSound ==
  ASSUME RightInv, Reading, BoolExprInv', NEW r, Grown(quads, r, {}), quads' = r,
         NEW e, exprs' = Append(exprs, e), cell'[Result] = F, cell'[Unwritten] = U,
         ASSUME e.sound, NEW W, WorldAt(W), Laid(quads, W, exprs)
         PROVE  \E V : /\ Extended(W, V) /\ WorldAt(V)'
                       /\ Means(r, V, e, NextQuad(r)) /\ e.start = NextQuad(quads)
  PROVE  RightInv'
<1>1. /\ exprs \in Seq(Exprs) /\ Len(exprs) \in Nat /\ Numbered(quads)
      /\ mode = "parse" /\ mode' = mode
  BY LenProperties DEF RightInv, BoolExprInv, TypeInv, Reading
<1>2. PICK d \in Nat : d = Len(exprs) /\ d <= Len(exprs)
  BY <1>1
<1>3. exprs' = Replaced(exprs, d, e)
  <2>1. SubSeq(exprs, 1, d) = exprs
    BY <1>1, <1>2
  <2>2. QED BY <2>1 DEF Replaced
<1>4. IsExpr(e)
  <2>1. Append(exprs, e) \in Seq(Exprs)
    BY DEF BoolExprInv, TypeInv
  <2>2. QED BY <1>1, <2>1, LastIsExpr
<1>5. PICK fs : fs = Replaced(exprs, d, e)
  OBVIOUS
<1>6. /\ DOMAIN fs = 1 .. d + 1 /\ fs[d + 1] = e
      /\ \A i \in 1 .. d : i \in DOMAIN exprs /\ fs[i] = exprs[i]
  <2>1. exprs \in Seq(Exprs) /\ d \in Nat /\ d <= Len(exprs) /\ IsExpr(e) /\ fs = Replaced(exprs, d, e)
    BY <1>1, <1>2, <1>4, <1>5
  <2>2. QED BY ONLY <2>1, ReplacedFacts
<1>7. ASSUME SoundStack' PROVE \E W : WorldAt(W)' /\ Laid(r, W, fs)
  <2>1. \A i \in DOMAIN fs : fs[i].sound
    BY <1>3, <1>5, <1>7 DEF SoundStack
  <2>2. e.sound
    <3>1. d + 1 \in DOMAIN fs
      BY <1>6
    <3>2. QED BY <1>6, <2>1, <3>1
  <2>3. SoundStack
    <3>1. \A i \in DOMAIN exprs : i \in 1 .. d /\ i \in DOMAIN fs
      BY <1>1, <1>2, <1>6, LenProperties
    <3>2. QED BY <1>6, <2>1, <3>1 DEF SoundStack
  <2>4. PICK W : WorldAt(W) /\ Laid(quads, W, exprs)
    BY <1>1, <2>3 DEF RightInv, SoundInv
  <2>5. PICK V : /\ Extended(W, V) /\ WorldAt(V)'
                 /\ Means(r, V, e, NextQuad(r)) /\ e.start = NextQuad(quads)
    BY <2>2, <2>4
  <2>6. PICK s : s = NextQuad(quads)
    OBVIOUS
  <2>7. s = StartOf(quads, exprs, d + 1)
    BY <1>2, <2>6 DEF StartOf
  <2>8. \A i \in {} : i \in Nat /\ s <= i
    OBVIOUS
  <2>9. Laid(r, V, fs)
    BY <1>1, <1>2, <1>5, <2>4, <2>5, <2>6, <2>7, <2>8, LaidReplaced
  <2>10. QED BY <2>5, <2>9
<1>8. SoundInv'
  <2>1. SoundStack' => \E W : WorldAt(W)' /\ Laid(quads, W, exprs)'
    BY <1>3, <1>5, <1>7
  <2>2. QED BY <2>1 DEF SoundInv
<1>9. RunInv' /\ SoundExpressionsAreRight'
  BY <1>1 DEF RunInv, SoundExpressionsAreRight
<1>10. QED BY <1>8, <1>9 DEF RightInv

(* What is given so far. *)
LEMMA ReadFacts ==
  ASSUME RightInv, Reading
  PROVE  /\ Numbered(quads) /\ NextQuad(quads) \in Nat /\ NextQuad(quads) <= MaxQuads
         /\ read \in Nat /\ read < MaxOperands /\ read' = read + 1
         /\ MaxQuads \in Nat /\ MaxOperands \in Nat
         /\ Variable(read) \in Given /\ Variable(read) < Unwritten /\ Variable(read) < Result
         /\ Variable(read) \in 0 .. Result
         /\ Unwritten \in Nat /\ Result \in Nat /\ Unwritten # Result /\ MaxQuads <= Unwritten
         /\ cell \in [0 .. Result -> {T, F, U}] /\ cell[Result] = F /\ cell[Unwritten] = U
         /\ \A c \in Given : c \in Nat /\ MaxQuads <= c /\ c <= Unwritten /\ c \in 0 .. Result
         /\ \A c \in Given : c < Variable(read) => c < Variable(read') /\ c # Variable(read)
<1>1. /\ Numbered(quads) /\ NextQuad(quads) \in Nat /\ NextQuad(quads) <= MaxQuads
      /\ read \in Nat /\ read < MaxOperands /\ read' = read + 1
      /\ cell \in [0 .. Result -> {T, F, U}] /\ cell[Result] = F /\ cell[Unwritten] = U
  BY DEF RightInv, BoolExprInv, TypeInv, Numbered, SoundInv, Reading
<1>2. MaxQuads \in Nat /\ MaxOperands \in Nat
  BY BoolExprAssumption
<1>3. /\ Unwritten = MaxQuads + MaxOperands /\ Result = Unwritten + 1
      /\ Variable(read) = MaxQuads + read /\ Variable(read') = MaxQuads + (read + 1)
  BY <1>1 DEF Unwritten, Result, Variable
<1>4. \A c : c \in Given <=> c \in MaxQuads .. Unwritten
  BY DEF Given
<1>5. QED BY <1>1, <1>2, <1>3, <1>4

LEMMA ReadVariableSound ==
  ASSUME RightInv, NEW v \in {T, F}, ReadVariable(v)
  PROVE  RightInv'
<1>1. BoolExprInv' /\ Reading
  BY ReadVariableKeeps DEF RightInv, ReadVariable
<1>2. PICK n, x : n = NextQuad(quads) /\ x = Variable(read)
  OBVIOUS
<1>3. PICK e : e = Value(x, n, v, TRUE)
  OBVIOUS
<1>4. cell' = [cell EXCEPT ![x] = v] /\ exprs' = Append(exprs, e) /\ quads' = quads
  BY <1>2, <1>3 DEF ReadVariable
<1>5. /\ e.kind = "value" /\ e.place = x /\ e.start = n /\ e.val = v
      /\ e.truelist = 0 /\ e.falselist = 0 /\ e.sound = TRUE
  BY <1>3 DEF Value
<1>6. /\ Numbered(quads) /\ n \in Nat /\ n <= MaxQuads
      /\ x \in Given /\ x \in 0 .. Result /\ x # Unwritten /\ x # Result
      /\ cell \in [0 .. Result -> {T, F, U}] /\ cell[Result] = F /\ cell[Unwritten] = U
      /\ Result \in 0 .. Result /\ Unwritten \in 0 .. Result
  BY <1>1, <1>2, ReadFacts, Places
<1>7. /\ cell'[x] = v /\ \A c \in 0 .. Result : c # x => cell'[c] = cell[c]
  BY <1>4, <1>6
<1>8. cell'[Result] = F /\ cell'[Unwritten] = U
  BY <1>6, <1>7
<1>9. Grown(quads, quads, {})
  BY <1>6, GrownSame
<1>10. ASSUME e.sound, NEW W, WorldAt(W), Laid(quads, W, exprs)
       PROVE  \E V : /\ Extended(W, V) /\ WorldAt(V)'
                     /\ Means(quads, V, e, NextQuad(quads)) /\ e.start = NextQuad(quads)
  <2>1. x \notin DOMAIN W
    BY <1>1, <1>2, <1>6, <1>10, ReadFacts DEF WorldAt
  <2>20. PICK V : Adds(W, V, x, v)
    <3>1. PICK t : t = Set(x, v)
      OBVIOUS
    <3>2. QED BY ONLY <2>1, <3>1, OneWritten
  <2>2. /\ Extended(W, V) /\ x \in DOMAIN V /\ V[x] = v
        /\ \A d \in DOMAIN V : d = x \/ (d \in DOMAIN W /\ V[d] = W[d])
    BY <2>20 DEF Adds
  <2>3. WorldAt(V)'
    <3>1. Unwritten \in DOMAIN V
      BY <1>10, <2>2 DEF WorldAt, Extended
    <3>2. ASSUME NEW c \in DOMAIN V
          PROVE  \/ c \in Nat /\ c < NextQuad(quads)
                 \/ c \in Given /\ (c < Variable(read') \/ c = Unwritten) /\ V[c] = cell'[c]
      <4>1. CASE c = x
        <5>1. x < Variable(read')
          BY <1>1, <1>2, ReadFacts DEF Variable
        <5>2. QED BY <1>6, <1>7, <2>2, <4>1, <5>1
      <4>2. CASE c # x
        <5>1. c \in DOMAIN W /\ V[c] = W[c]
          BY <2>2, <4>2
        <5>2. \/ c \in Nat /\ c < NextQuad(quads)
              \/ c \in Given /\ (c < Variable(read) \/ c = Unwritten) /\ W[c] = cell[c]
          BY <1>10, <5>1 DEF WorldAt
        <5>3. c \in Given => c \in 0 .. Result /\ (c < Variable(read) => c < Variable(read'))
          BY <1>1, ReadFacts
        <5>4. QED BY <1>7, <4>2, <5>1, <5>2, <5>3
      <4>3. QED BY <4>1, <4>2
    <3>3. QED BY <1>4, <3>1, <3>2 DEF WorldAt
  <2>4. Means(quads, V, e, n)
    <3>1. PICK P : P = {}
      OBVIOUS
    <3>2. Through(quads, V, P, n, n)
      BY <1>6, <3>1, ThroughNone
    <3>3. Known(quads, V, P, x, n)
      BY <1>6, <2>2 DEF Known
    <3>4. ~IsBool(e) /\ e.kind # "nil" /\ IsExpr(e)
      BY <1>5, <1>1, <1>4, <1>6, <1>3 DEF IsBool, IsExpr, Exprs, Value
    <3>5. Waits(quads, e, {}, {})
      <4>1. e.truelist <= n /\ e.falselist <= n
        BY ONLY <1>5, <1>6
      <4>2. QED BY ONLY <1>2, <3>4, <4>1 DEF Waits
    <3>6. QED BY <1>5, <2>2, <3>2, <3>3, <3>4, <3>5 DEF Means
  <2>5. QED BY <1>2, <1>5, <2>2, <2>3, <2>4
<1>11. QED BY ONLY RightInv, <1>1, <1>4, <1>8, <1>9, <1>10, ReadSound

LEMMA ReadComputedSound ==
  ASSUME RightInv, NEW v \in {T, F}, ReadComputed(v)
  PROVE  RightInv'
<1>1. BoolExprInv' /\ Reading
  BY ReadComputedKeeps DEF RightInv, ReadComputed
<1>2. PICK n, x : n = NextQuad(quads) /\ x = Set(n, v)
  OBVIOUS
<1>3. PICK e, r : e = Value(n, n, v, TRUE) /\ r = Emit(quads, x)
  OBVIOUS
<1>4. cell' = cell /\ exprs' = Append(exprs, e) /\ quads' = r /\ n < MaxQuads
  BY <1>2, <1>3 DEF ReadComputed
<1>5. /\ e.kind = "value" /\ e.place = n /\ e.start = n /\ e.val = v
      /\ e.truelist = 0 /\ e.falselist = 0 /\ e.sound = TRUE
  BY <1>3 DEF Value
<1>6. /\ Numbered(quads) /\ n \in Nat /\ n \in 0 .. Result
      /\ cell[Result] = F /\ cell[Unwritten] = U
  BY <1>1, <1>2, <1>4, ReadFacts, Places
<1>7. IsQuad(x) /\ x.label = 0 /\ x.op = "assign" /\ x.x = n /\ x.y = v
  BY <1>2, <1>6, QuadsEmitted DEF Set
<1>8. /\ Grown(quads, r, {}) /\ NextQuad(r) = n + 1 /\ r[n] = x /\ n \in DOMAIN r
  BY <1>2, <1>3, <1>6, <1>7, EmitGrown
<1>9. cell'[Result] = F /\ cell'[Unwritten] = U
  BY <1>4, <1>6
<1>10. ASSUME e.sound, NEW W, WorldAt(W), Laid(quads, W, exprs)
       PROVE  \E V : /\ Extended(W, V) /\ WorldAt(V)'
                     /\ Means(r, V, e, NextQuad(r)) /\ e.start = NextQuad(quads)
  <2>1. n \notin DOMAIN W
    BY <1>2, <1>4, <1>10, NextIsNew
  <2>20. PICK V : Adds(W, V, n, v)
    <3>1. PICK t : t = Set(n, v)
      OBVIOUS
    <3>2. QED BY ONLY <2>1, <3>1, OneWritten
  <2>2. /\ Extended(W, V) /\ n \in DOMAIN V /\ V[n] = v
        /\ \A d \in DOMAIN V : d = n \/ (d \in DOMAIN W /\ V[d] = W[d])
    BY <2>20 DEF Adds
  <2>3. WorldAt(V)'
    <3>1. Unwritten \in DOMAIN V
      BY <1>10, <2>2 DEF WorldAt, Extended
    <3>2. ASSUME NEW c \in DOMAIN V
          PROVE  \/ c \in Nat /\ c < NextQuad(r)
                 \/ c \in Given /\ (c < Variable(read') \/ c = Unwritten) /\ V[c] = cell[c]
      <4>1. CASE c = n
        BY <1>6, <1>8, <4>1
      <4>2. CASE c # n
        <5>1. c \in DOMAIN W /\ V[c] = W[c]
          BY <2>2, <4>2
        <5>2. \/ c \in Nat /\ c < n
              \/ c \in Given /\ (c < Variable(read) \/ c = Unwritten) /\ W[c] = cell[c]
          BY <1>2, <1>10, <5>1 DEF WorldAt
        <5>3. c \in Given => (c < Variable(read) => c < Variable(read'))
          BY <1>1, ReadFacts
        <5>4. c \in Nat /\ c < n => c < n + 1
          BY <1>6
        <5>5. QED BY <1>8, <5>1, <5>2, <5>3, <5>4
      <4>3. QED BY <4>1, <4>2
    <3>3. QED BY <1>4, <3>1, <3>2 DEF WorldAt
  <2>4. Means(r, V, e, n + 1)
    <3>1. PICK P, Q : P = {} /\ Q = P \cup {n}
      OBVIOUS
    <3>2. Through(r, V, P, n, n)
      BY <1>6, <3>1, ThroughNone
    <3>3. Works(r, V, P, n) /\ After(r, V, n) = n + 1
      BY <1>7, <1>8, <2>2 DEF Works, After, Takes, Tests
    <3>4. Through(r, V, Q, n, n + 1)
      BY <1>6, <1>8, <3>1, <3>2, <3>3, ThroughMore
    <3>5. Known(r, V, Q, n, n + 1)
      BY <1>6, <1>7, <1>8, <3>1 DEF Known, Writes
    <3>6. ~IsBool(e) /\ e.kind # "nil" /\ IsExpr(e)
      BY <1>3, <1>5, <1>6 DEF IsBool, IsExpr, Exprs, Value
    <3>7. Waits(r, e, {}, {})
      BY <1>5, <1>6, <1>8, <3>6 DEF Waits
    <3>8. QED BY <1>5, <2>2, <3>4, <3>5, <3>6, <3>7 DEF Means
  <2>5. QED BY <1>2, <1>5, <1>8, <2>2, <2>3, <2>4
<1>11. QED BY ONLY RightInv, <1>1, <1>4, <1>8, <1>9, <1>10, ReadSound

LEMMA ReadNilSound ==
  ASSUME RightInv, ReadNil
  PROVE  RightInv'
<1>1. BoolExprInv' /\ Reading
  BY ReadNilKeeps DEF RightInv, ReadNil
<1>2. PICK e : e = Nil
  OBVIOUS
<1>3. cell' = cell /\ exprs' = Append(exprs, e) /\ quads' = quads
  BY <1>2 DEF ReadNil
<1>4. ~e.sound
  BY <1>2 DEF Nil, Value
<1>5. cell'[Result] = F /\ cell'[Unwritten] = U /\ Numbered(quads)
  BY <1>1, <1>3, ReadFacts
<1>6. Grown(quads, quads, {})
  BY <1>5, GrownSame
<1>7. QED BY <1>1, <1>3, <1>4, <1>5, <1>6, ReadSound

-----------------------------------------------------------------------------
(* Statements. *)

(* What the quads of an if do when the condition is a boolean expression... *)
LEMMA IfBoolFacts ==
  ASSUME NEW q, Numbered(q), NEW n, n = NextQuad(q), NEW e, IsBool(e), NEW t, NEW f, Waits(q, e, t, f),
         NEW p, p = PatchList(q, e.truelist, n), NEW body, body = Emit(p, Set(Result, T)),
         NEW r, r = PatchList(body, e.falselist, NextQuad(body)), NEW S, S = t \cup f
  PROVE  /\ Grown(q, r, S) /\ NextQuad(r) = n + 1 /\ n \in DOMAIN r /\ r[n] = Set(Result, T)
         /\ \A i \in t : r[i].label = n
         /\ \A i \in f : r[i].label = n + 1
<1>1. n \in Nat /\ n <= n
  BY DEF Numbered
<1>2. /\ Listed(q, e.truelist, t) /\ Listed(q, e.falselist, f)
      /\ \A i : ~(i \in t /\ i \in f)
      /\ \A i : i \in t \/ i \in f => i \in DOMAIN q /\ i # n
  <2>1. Listed(q, e.truelist, t) /\ Listed(q, e.falselist, f) /\ t \cap f = {}
    BY DEF Waits
  <2>2. \A i : i \in t \/ i \in f => i \in DOMAIN q /\ i < n
    BY WaitsFor
  <2>3. QED BY <1>1, <2>1, <2>2
<1>3. /\ Grown(q, p, t) /\ NextQuad(p) = n /\ DOMAIN p = DOMAIN q
      /\ \A i \in t : p[i].label = n
      /\ \A i \in DOMAIN q : i \notin t => p[i] = q[i]
  BY <1>1, <1>2, PatchFacts
<1>4. PICK x : x = Set(Result, T) /\ IsQuad(x) /\ x.label = 0
  BY Places, QuadsEmitted
<1>5. Numbered(p)
  BY <1>3 DEF Grown
<1>6. /\ Grown(p, body, {}) /\ NextQuad(body) = n + 1 /\ body[n] = x /\ n \in DOMAIN body
      /\ \A i \in DOMAIN p : i \in DOMAIN body /\ body[i] = p[i]
  BY <1>3, <1>4, <1>5, EmitGrown
<1>7. Listed(body, e.falselist, f)
  BY <1>2, <1>3, <1>6, ListedStays
<1>8. Numbered(body) /\ NextQuad(body) \in Nat /\ NextQuad(body) <= NextQuad(body)
  BY <1>1, <1>6 DEF Grown
<1>9. /\ Grown(body, r, f) /\ NextQuad(r) = n + 1 /\ DOMAIN r = DOMAIN body
      /\ \A i \in f : r[i].label = n + 1
      /\ \A i \in DOMAIN body : i \notin f => r[i] = body[i]
  BY <1>6, <1>7, <1>8, PatchFacts
<1>10. r[n] = x /\ n \in DOMAIN r
  BY <1>2, <1>6, <1>9
<1>11. \A i \in t : r[i].label = n
  BY <1>2, <1>3, <1>6, <1>9
<1>12. Grown(q, body, t)
  BY <1>3, <1>6, GrownTwice
<1>13. \A i \in DOMAIN q : i \in t \cup f => i \in S
  OBVIOUS
<1>14. Grown(q, r, S)
  BY <1>9, <1>12, <1>13, GrownTwice
<1>15. QED BY <1>4, <1>9, <1>10, <1>11, <1>14

(* ... and when it is any other. *)
LEMMA IfValueFacts ==
  ASSUME NEW q, Numbered(q), NEW n, n = NextQuad(q), NEW e, IsExpr(e),
         NEW p, p = PatchLabel(WithTest(q, IfTrue(e.place)), n, n + 2),
         NEW body, body = Emit(p, Set(Result, T)),
         NEW r, r = PatchList(body, NextQuad(p) - 1, NextQuad(body))
  PROVE  /\ Grown(q, r, {}) /\ NextQuad(r) = n + 3
         /\ n \in DOMAIN r /\ Alike(IfTrue(e.place), r[n]) /\ r[n].label = n + 2
         /\ n + 1 \in DOMAIN r /\ Alike(Goto, r[n + 1]) /\ r[n + 1].label = n + 3
         /\ n + 2 \in DOMAIN r /\ r[n + 2] = Set(Result, T)
<1>1. n \in Nat /\ n + 1 \in Nat /\ n + 2 \in Nat /\ n + 1 # 0 /\ n # n + 1 /\ n # n + 2 /\ n + 1 # n + 2
      /\ (n + 2) - 1 = n + 1 /\ (n + 2) + 1 = n + 3 /\ n + 3 \in Nat /\ \A i \in DOMAIN q : i # n /\ i # n + 1
  BY DEF Numbered
<1>2. PICK x, w : x = IfTrue(e.place) /\ w = WithTest(q, x)
  OBVIOUS
<1>3. IsQuad(x) /\ x.label = 0 /\ x.op \in Tests
  BY <1>2, QuadsEmitted DEF IsExpr, Exprs, IfTrue, Test, Tests
<1>4. /\ Grown(q, w, {}) /\ NextQuad(w) = n + 2
      /\ n \in DOMAIN w /\ n + 1 \in DOMAIN w /\ w[n] = x /\ w[n + 1] = Goto
  BY <1>2, <1>3, WithTestFacts
<1>51. PICK S : S = {n}
  OBVIOUS
<1>5. S = {n} /\ \A i : i \in S <=> i = n
  BY <1>51
<1>6. p = Labelled(w, S, n + 2)
  BY <1>2, <1>5 DEF PatchLabel
<1>7. Numbered(w) /\ n + 2 <= NextQuad(w)
  BY <1>1, <1>4 DEF Grown
<1>8. /\ Grown(w, p, S) /\ NextQuad(p) = n + 2 /\ DOMAIN p = DOMAIN w
      /\ p[n].label = n + 2 /\ p[n + 1] = w[n + 1]
  BY <1>1, <1>4, <1>5, <1>6, <1>7, LabelledFacts
<1>9. Alike(x, p[n])
  BY <1>4, <1>8 DEF Grown
<1>10. PICK y : y = Set(Result, T) /\ IsQuad(y) /\ y.label = 0
  BY Places, QuadsEmitted
<1>11. Numbered(p)
  BY <1>8 DEF Grown
<1>12. /\ Grown(p, body, {}) /\ NextQuad(body) = n + 3 /\ body[n + 2] = y /\ n + 2 \in DOMAIN body
       /\ \A i \in DOMAIN p : i \in DOMAIN body /\ body[i] = p[i]
  <2>1. body = Emit(p, y)
    BY <1>10
  <2>2. /\ Grown(p, body, {}) /\ NextQuad(body) = (n + 2) + 1 /\ body[n + 2] = y /\ n + 2 \in DOMAIN body
        /\ \A i \in DOMAIN p : i \in DOMAIN body /\ body[i] = p[i]
    BY ONLY <1>8, <1>10, <1>11, <2>1, EmitGrown
  <2>3. QED BY <1>1, <2>2
<1>13. Numbered(body) /\ n + 3 <= NextQuad(body)
  BY <1>1, <1>12 DEF Grown
<1>14. PICK k : k = n + 1
  OBVIOUS
<1>15. k \in DOMAIN body /\ body[k] = Goto /\ body[k].label = 0 /\ k # 0 /\ k # n /\ k # n + 2
  BY <1>1, <1>4, <1>8, <1>12, <1>14, QuadsEmitted
<1>16. Listed(body, k, Alone(k)) /\ \A i : i \in Alone(k) <=> i = k
  <2>1. Listed(body, k, Alone(k))
    BY <1>13, <1>15, ListOfOne
  <2>2. QED BY <1>15, <2>1 DEF Alone
<1>17. r = PatchList(body, k, n + 3)
  BY <1>1, <1>8, <1>12, <1>14
<1>18. PICK A : A = Alone(k)
  OBVIOUS
<1>19. /\ Grown(body, r, A) /\ NextQuad(r) = n + 3 /\ DOMAIN r = DOMAIN body
       /\ \A i \in A : r[i].label = n + 3
       /\ \A i \in DOMAIN body : i \notin A => r[i] = body[i]
  <2>1. Listed(body, k, A) /\ n + 3 \in Nat
    BY <1>1, <1>16, <1>18
  <2>2. QED BY ONLY <1>12, <1>13, <1>17, <2>1, PatchFacts
<1>20. /\ r[n] = p[n] /\ r[n + 2] = y /\ r[k].label = n + 3 /\ Alike(Goto, r[k])
       /\ n \in DOMAIN r /\ k \in DOMAIN r /\ n + 2 \in DOMAIN r
  <2>1. n \notin A /\ n + 2 \notin A /\ k \in A
    BY <1>15, <1>16, <1>18
  <2>2. r[n] = p[n] /\ r[n + 2] = y /\ r[k].label = n + 3 /\ n \in DOMAIN r /\ k \in DOMAIN r /\ n + 2 \in DOMAIN r
    BY <1>4, <1>8, <1>12, <1>15, <1>19, <2>1
  <2>3. Alike(body[k], r[k])
    BY <1>15, <1>19 DEF Grown
  <2>4. QED BY <1>15, <2>2, <2>3
<1>21. Grown(q, r, {})
  <2>1. \A i \in DOMAIN q : i \notin S /\ i \notin A
    BY <1>1, <1>5, <1>14, <1>16, <1>18
  <2>2. Grown(q, p, {})
    <3>1. \A i \in DOMAIN q : i \in {} \cup S => i \in {}
      BY <2>1
    <3>2. QED BY <1>4, <1>8, <3>1, GrownTwice
  <2>3. Grown(q, body, {})
    <3>1. \A i \in DOMAIN q : i \in {} \cup {} => i \in {}
      OBVIOUS
    <3>2. QED BY <1>12, <2>2, <3>1, GrownTwice
  <2>4. \A i \in DOMAIN q : i \in {} \cup A => i \in {}
    BY <2>1
  <2>5. QED BY <1>19, <2>3, <2>4, GrownTwice
<1>22. QED BY <1>2, <1>8, <1>9, <1>10, <1>14, <1>19, <1>20, <1>21

(* V says what an if of value val does: it is Result that tells, and W says *)
(* nothing of it.                                                           *)
Tells(W, V, r, P, n, val) ==
  /\ Through(r, V, P, 0, n) /\ Extended(W, V)
  /\ \A d \in DOMAIN V : d = Result \/ (d \in DOMAIN W /\ V[d] = W[d])
  /\ \/ Known(r, V, P, Result, n) /\ V[Result] = val
     \/ Result \notin DOMAIN V /\ val = F

(* The way goes on to the quad that writes Result, or past it. *)
LEMMA Told ==
  ASSUME NEW r, NEW W, Result \notin DOMAIN W, NEW V, Adds(W, V, Result, T),
         NEW P, NEW m \in Nat, Through(r, V, P, 0, m), m \in DOMAIN r, r[m] = Set(Result, T),
         NEW n \in Nat, n = m + 1
  PROVE  \E Q : Tells(W, V, r, Q, n, T)
<1>1. PICK Q : Q = P \cup {m}
  OBVIOUS
<1>2. r[m].op = "assign" /\ r[m].x = Result /\ r[m].y = T /\ m < n
  BY DEF Set
<1>3. /\ Extended(W, V) /\ Result \in DOMAIN V /\ V[Result] = T
      /\ \A d \in DOMAIN V : d = Result \/ (d \in DOMAIN W /\ V[d] = W[d])
  BY DEF Adds
<1>4. Works(r, V, P, m) /\ After(r, V, m) = m + 1
  BY <1>2, <1>3 DEF Works, After, Takes, Tests
<1>5. Through(r, V, Q, 0, n)
  BY <1>1, <1>2, <1>4, ThroughMore
<1>6. m \in Q
  BY <1>1
<1>7. Known(r, V, Q, Result, n)
  BY <1>2, <1>6 DEF Known, Writes
<1>8. QED BY <1>3, <1>5, <1>7 DEF Tells

LEMMA Untold ==
  ASSUME NEW r, NEW W, Result \notin DOMAIN W, NEW P, NEW n, Through(r, W, P, 0, n)
  PROVE  Tells(W, W, r, P, n, F)
BY ExtendedSame DEF Tells

LEMMA IfBoolRight ==
  ASSUME NEW q, Numbered(q), NEW n, n = NextQuad(q), NEW W, Result \notin DOMAIN W,
         NEW e, Means(q, W, e, n), IsBool(e), NEW a, a = e.start, NEW P0, Through(q, W, P0, 0, a),
         NEW p, p = PatchList(q, e.truelist, n), NEW body, body = Emit(p, Set(Result, T)),
         NEW r, r = PatchList(body, e.falselist, NextQuad(body)),
         NEW val, val = e.val
  PROVE  \E V, P : Tells(W, V, r, P, NextQuad(r), val)
<1>1. PICK P1, x, t, f : /\ Waits(q, e, t, f) /\ Within(t, f, a, n)
                         /\ Leaves(q, W, P1, x, a, n, t, f, val)
  BY DEF Means
<1>2. PICK S : S = t \cup f
  OBVIOUS
<1>3. /\ Grown(q, r, S) /\ NextQuad(r) = n + 1 /\ n \in DOMAIN r /\ r[n] = Set(Result, T)
      /\ \A i \in t : r[i].label = n
      /\ \A i \in f : r[i].label = n + 1
  BY <1>1, <1>2, IfBoolFacts
<1>4. n \in Nat /\ n + 1 \in Nat /\ a \in Nat /\ x \in Nat /\ x < n /\ x < n + 1
  BY <1>1 DEF Numbered, Leaves, Through
<1>5. /\ \A i \in P1 : i \in DOMAIN r /\ Alike(q[i], r[i])
      /\ x \in DOMAIN r /\ Alike(q[x], r[x])
      /\ \A i \in P1 : Takes(W, q[i]) => r[i].label = q[i].label
  BY <1>1, <1>2, <1>3 DEF Leaves, Through, Grown
<1>6. \A i \in S : i \in Nat /\ a <= i
  BY <1>1, <1>2 DEF Within
<1>7. /\ val \in {T, F} /\ (val = T => x \in t) /\ (val = F => x \in f)
  BY <1>1 DEF Leaves
<1>8. PICK Q : Q = P1 \cup {x}
  OBVIOUS
<1>9. PICK R : R = P0 \cup Q
  OBVIOUS
<1>10. CASE val = T
  <2>1. PICK V : Adds(W, V, Result, T)
    <3>1. PICK y : y = Set(Result, T)
      OBVIOUS
    <3>2. QED BY ONLY Result \notin DOMAIN W, <3>1, OneWritten
  <2>2. Extended(W, V)
    BY <2>1 DEF Adds
  <2>3. Leaves(r, V, P1, x, a, n, t, f, val)
    BY <1>1, <1>5, <2>2, LeavesStays
  <2>4. Through(r, V, Q, a, n)
    BY <1>3, <1>4, <1>7, <1>8, <1>10, <2>3, Passes
  <2>5. Through(r, V, P0, 0, a)
    BY <1>3, <1>6, <2>2, ThroughGrown
  <2>6. Through(r, V, R, 0, n)
    BY <1>9, <2>4, <2>5, ThroughTwice
  <2>7. PICK m : m = n + 1
    OBVIOUS
  <2>8. PICK Z : Tells(W, V, r, Z, m, T)
    BY <1>3, <1>4, <2>1, <2>6, <2>7, Told
  <2>9. QED BY <1>3, <1>10, <2>7, <2>8
<1>11. CASE val = F
  <2>1. Leaves(r, W, P1, x, a, n, t, f, val)
    BY <1>1, <1>5, ExtendedSame, LeavesStays
  <2>2. PICK m : m = n + 1
    OBVIOUS
  <2>3. Through(r, W, Q, a, m)
    BY <1>3, <1>4, <1>7, <1>8, <1>11, <2>1, <2>2, Passes
  <2>4. Through(r, W, P0, 0, a)
    BY <1>3, <1>6, ExtendedSame, ThroughGrown
  <2>5. Through(r, W, R, 0, m)
    BY <1>9, <2>3, <2>4, ThroughTwice
  <2>6. Tells(W, W, r, R, m, F)
    BY <2>5, Untold
  <2>7. QED BY <1>3, <1>11, <2>2, <2>6
<1>12. QED BY <1>7, <1>10, <1>11

LEMMA IfValueRight ==
  ASSUME NEW q, Numbered(q), NEW n, n = NextQuad(q), NEW W, Result \notin DOMAIN W,
         NEW e, Means(q, W, e, n), ~IsBool(e), NEW a, a = e.start, NEW P0, Through(q, W, P0, 0, a),
         NEW p, p = PatchLabel(WithTest(q, IfTrue(e.place)), n, n + 2),
         NEW body, body = Emit(p, Set(Result, T)),
         NEW r, r = PatchList(body, NextQuad(p) - 1, NextQuad(body)),
         NEW val, val = e.val
  PROVE  \E V, P : Tells(W, V, r, P, NextQuad(r), val)
<1>1. IsExpr(e) /\ val \in {T, F}
  BY DEF Means
<1>2. PICK P1 : Through(q, W, P1, a, n) /\ Known(q, W, P1, e.place, n) /\ W[e.place] = val
  BY DEF Means
<1>3. /\ Grown(q, r, {}) /\ NextQuad(r) = n + 3
      /\ n \in DOMAIN r /\ Alike(IfTrue(e.place), r[n]) /\ r[n].label = n + 2
      /\ n + 1 \in DOMAIN r /\ Alike(Goto, r[n + 1]) /\ r[n + 1].label = n + 3
      /\ n + 2 \in DOMAIN r /\ r[n + 2] = Set(Result, T)
  BY <1>1, IfValueFacts
<1>4. n \in Nat /\ n + 1 \in Nat /\ n + 2 \in Nat /\ n + 3 \in Nat /\ n < n + 1 /\ n < n + 2 /\ n + 1 < n + 3
  BY DEF Numbered
<1>5. r[n].op = "if_true" /\ r[n].x = e.place /\ r[n].y = e.place /\ r[n + 1].op = "jump"
  BY <1>3 DEF Alike, IfTrue, Goto, Test
<1>6. PICK R : R = P0 \cup P1
  OBVIOUS
<1>7. Through(q, W, R, 0, n)
  BY <1>2, <1>6, ThroughTwice
<1>8. \A i \in {} : i \in Nat /\ n <= i
  OBVIOUS
<1>9. (\A k \in P1 : k \in Nat /\ Alike(q[k], r[k])) /\ P1 \subseteq R /\ n <= n
  BY <1>2, <1>3, <1>4, <1>6 DEF Through, Grown
<1>10. e.place \in DOMAIN W
  BY <1>2, KnownMeant
<1>11. ASSUME NEW V, Extended(W, V)
       PROVE  /\ Through(r, V, R, 0, n) /\ Works(r, V, R, n)
              /\ Takes(V, r[n]) <=> val = T
  <2>1. Through(r, V, R, 0, n)
    BY <1>3, <1>7, <1>8, <1>11, ThroughGrown
  <2>2. Known(r, V, R, e.place, n)
    BY <1>2, <1>4, <1>9, <1>11, KnownStays
  <2>3. V[e.place] = val
    BY <1>2, <1>10, <1>11 DEF Extended
  <2>4. Works(r, V, R, n)
    BY <1>5, <2>2 DEF Works
  <2>5. Takes(V, r[n]) <=> val = T
    <3>1. r[n].op = "if_true" /\ r[n].x = e.place /\ V[r[n].x] = val
      BY ONLY <1>5, <2>3
    <3>2. HoldsAt(V, r[n]) <=> val = T
      BY ONLY <3>1 DEF HoldsAt
    <3>3. r[n].op \in Tests
      BY ONLY <3>1 DEF Tests
    <3>4. QED BY ONLY <3>2, <3>3 DEF Takes
  <2>6. QED BY <2>1, <2>4, <2>5
<1>12. PICK Q : Q = R \cup {n}
  OBVIOUS
<1>13. CASE val = T
  <2>1. PICK V : Adds(W, V, Result, T)
    <3>1. PICK y : y = Set(Result, T)
      OBVIOUS
    <3>2. QED BY ONLY Result \notin DOMAIN W, <3>1, OneWritten
  <2>2. Extended(W, V)
    BY <2>1 DEF Adds
  <2>3. PICK m \in Nat : m = n + 2
    BY <1>4
  <2>4. After(r, V, n) = m
    BY <1>3, <1>11, <1>13, <2>2, <2>3 DEF After
  <2>5. n < m
    BY <1>4, <2>3
  <2>6. Through(r, V, Q, 0, m)
    BY <1>3, <1>11, <1>12, <2>2, <2>4, <2>5, ThroughMore
  <2>7. PICK k \in Nat : k = m + 1 /\ k = n + 3
    BY <1>4, <2>3
  <2>8. m \in DOMAIN r /\ r[m] = Set(Result, T)
    BY <1>3, <2>3
  <2>9. PICK Z : Tells(W, V, r, Z, k, T)
    BY <2>1, <2>6, <2>7, <2>8, Told
  <2>10. QED BY <1>3, <1>13, <2>7, <2>9
<1>14. CASE val = F
  <2>1. After(r, W, n) = n + 1
    BY <1>11, <1>14, ExtendedSame DEF After, T, F
  <2>2. PICK m \in Nat : m = n + 1
    BY <1>4
  <2>3. Through(r, W, Q, 0, m)
    BY <1>3, <1>4, <1>11, <1>12, <2>1, <2>2, ExtendedSame, ThroughMore
  <2>4. PICK k \in Nat : k = n + 3 /\ m < k
    BY <1>4, <2>2
  <2>5. m \in DOMAIN r /\ r[m].op = "jump" /\ r[m].label = k
    BY <1>3, <1>5, <2>2, <2>4
  <2>6. Works(r, W, Q, m) /\ After(r, W, m) = k
    BY <2>5 DEF Works, After, Takes, Tests, HoldsAt
  <2>7. PICK Z : Z = Q \cup {m}
    OBVIOUS
  <2>8. Through(r, W, Z, 0, k)
    BY <2>3, <2>4, <2>5, <2>6, <2>7, ThroughMore
  <2>9. Tells(W, W, r, Z, k, F)
    BY <2>8, Untold
  <2>10. QED BY <1>3, <1>14, <2>4, <2>9
<1>15. QED BY <1>1, <1>13, <1>14

GivenAt(W) == \A c \in DOMAIN W : c \in Given => W[c] = cell[c]

(* What the end of an expression has to show. *)
LEMMA FinishSound ==
  ASSUME RightInv, BoolExprInv', NEW q, NEW n, n = NextQuad(q), NEW e, exprs = << e >>,
         NEW place, Finish(q, e, place),
         e.sound => \E W, P : /\ Through(q, W, P, 0, n) /\ GivenAt(W)
                              /\ \/ Known(q, W, P, place, n) /\ W[place] = e.val
                                 \/ place \notin DOMAIN W /\ cell[place] = e.val
  PROVE  RightInv'
<1>1. /\ exprs' = << e >> /\ quads' = q /\ mode' = "run" /\ pc' = 0 /\ answer' = place /\ cell' = cell
      /\ exprs'[1] = e
  BY DEF Finish
<1>2. ASSUME e.sound PROVE \E W, P : OnWay(W, P)'
  <2>1. PICK W, P : /\ Through(q, W, P, 0, n) /\ GivenAt(W)
                    /\ \/ Known(q, W, P, place, n) /\ W[place] = e.val
                       \/ place \notin DOMAIN W /\ cell[place] = e.val
    BY <1>2
  <2>2. 0 \in P \/ 0 = n
    BY <2>1 DEF Through
  <2>3. ASSUME NEW c, Known(q, W, P, c, 0) PROVE cell[c] = W[c]
    <3>1. \A j \in P : j \in Nat /\ ~(j < 0)
      BY <2>1 DEF Through
    <3>2. c \in DOMAIN W /\ c \in Given
      BY <2>3, <3>1 DEF Known
    <3>3. QED BY <2>1, <3>2 DEF GivenAt
  <2>4. OnWay(W, P)'
    BY <1>1, <2>1, <2>2, <2>3 DEF OnWay
  <2>5. QED BY <2>4
<1>3. RunInv'
  BY <1>1, <1>2 DEF RunInv
<1>4. SoundInv' /\ SoundExpressionsAreRight'
  BY <1>1 DEF SoundInv, SoundExpressionsAreRight
<1>5. QED BY <1>3, <1>4 DEF RightInv

(* What is on the stack at the end of a sound expression. *)
LEMMA FinishGround ==
  ASSUME RightInv, mode = "parse", Depth = 1, NEW n, n = NextQuad(quads)
  PROVE  /\ exprs = << Top >> /\ cell[Result] = F
         /\ Top.sound => \E W, P, a : /\ WorldAt(W) /\ GivenAt(W) /\ Result \notin DOMAIN W
                                      /\ Means(quads, W, Top, n) /\ a = Top.start
                                      /\ Through(quads, W, P, 0, a)
<1>1. exprs = << Top >>
  BY LastOperand DEF RightInv
<1>2. Numbered(quads) /\ n \in Nat /\ n <= MaxQuads /\ MaxQuads \in Nat /\ exprs \in Seq(Exprs)
  BY BoolExprAssumption DEF RightInv, BoolExprInv, TypeInv, Numbered
<1>3. ASSUME Top.sound
      PROVE  \E W, P, a : /\ WorldAt(W) /\ GivenAt(W) /\ Result \notin DOMAIN W
                          /\ Means(quads, W, Top, n) /\ a = Top.start
                          /\ Through(quads, W, P, 0, a)
  <2>1. SoundStack
    <3>1. PICK e : e = Top
      OBVIOUS
    <3>2. exprs = << e >> /\ e.sound
      BY <1>1, <1>3, <3>1
    <3>3. QED BY ONLY <3>2 DEF SoundStack
  <2>2. PICK W : WorldAt(W) /\ Laid(quads, W, exprs)
    BY <2>1 DEF RightInv, SoundInv
  <2>3. Depth >= 1
    OBVIOUS
  <2>4. PICK a : a = Top.start
    OBVIOUS
  <2>5. Means(quads, W, Top, n) /\ StartOf(quads, exprs, 1) = a
    <3>1. Depth - 1 + 1 = 1
      OBVIOUS
    <3>2. Means(quads, W, Top, n) /\ StartOf(quads, exprs, Depth - 1 + 1) = a
      BY <2>2, <2>3, <2>4, LastOne
    <3>3. QED BY <3>1, <3>2
  <2>6. PICK P : Through(quads, W, P, 0, a)
    BY <2>2, <2>5 DEF Laid
  <2>7. \A c \in DOMAIN W : \/ c \in Nat /\ c < n
                            \/ c \in Given /\ W[c] = cell[c]
    BY <2>2 DEF WorldAt
  <2>8. \A c \in Given : c \in Nat /\ MaxQuads <= c /\ c < Result
    <3>1. Unwritten \in Nat /\ Unwritten < Result /\ Result \in Nat
      BY Places
    <3>2. QED BY <1>2, <3>1 DEF Given
  <2>9. GivenAt(W)
    BY <1>2, <2>7, <2>8 DEF GivenAt
  <2>10. Result \notin DOMAIN W
    <3>1. Result \in Nat /\ MaxQuads < Result
      BY Places
    <3>2. QED BY <1>2, <2>7, <2>8, <3>1
  <2>11. QED BY <2>2, <2>4, <2>5, <2>6, <2>9, <2>10
<1>4. QED BY <1>1, <1>3 DEF RightInv, SoundInv

LEMMA FinishValueSound ==
  ASSUME RightInv, FinishValue
  PROVE  RightInv'
<1>1. BoolExprInv' /\ Numbered(quads) /\ mode = "parse" /\ Depth = 1
      /\ NextQuad(quads) \in Nat /\ NextQuad(quads) + 3 <= MaxQuads /\ MaxQuads \in Nat
  BY FinishValueKeeps, RoomFor DEF FinishValue, RightInv
<1>2. PICK n, e : n = NextQuad(quads) /\ e = Top
  OBVIOUS
<1>3. PICK b, r, c : b = ConvertToValue(quads, e) /\ r = b.quads /\ c = b.expr
  OBVIOUS
<1>4. PICK N, place : N = NextQuad(r) /\ place = c.place
  OBVIOUS
<1>5. Finish(r, e, place)
  BY <1>2, <1>3, <1>4 DEF FinishValue
<1>6. exprs = << e >>
  BY <1>1, <1>2, FinishGround
<1>7. ASSUME e.sound
      PROVE  \E W, P : /\ Through(r, W, P, 0, N) /\ GivenAt(W)
                       /\ \/ Known(r, W, P, place, N) /\ W[place] = e.val
                          \/ place \notin DOMAIN W /\ cell[place] = e.val
  <2>1. PICK W, P0, a : /\ WorldAt(W) /\ GivenAt(W)
                        /\ Means(quads, W, e, n) /\ a = e.start
                        /\ Through(quads, W, P0, 0, a)
    BY <1>1, <1>2, <1>7, FinishGround
  <2>2. n \notin DOMAIN W /\ n + 3 <= MaxQuads /\ n < MaxQuads /\ n \in Nat
    <3>1. NextQuad(quads) < MaxQuads
      BY <1>1
    <3>2. QED BY <1>1, <1>2, <2>1, <3>1, NextIsNew
  <2>3. PICK V, S : /\ Extended(W, V)
                    /\ \A d \in DOMAIN V : d = n \/ (d \in DOMAIN W /\ V[d] = W[d])
                    /\ Means(r, V, c, NextQuad(r)) /\ ~IsBool(c) /\ c.start = e.start /\ c.val = e.val
                    /\ Grown(quads, r, S) /\ \A i \in S : i \in Nat /\ e.start <= i
    <3>1. /\ Numbered(quads) /\ n = NextQuad(quads) /\ n + 3 <= MaxQuads /\ n \notin DOMAIN W
          /\ Means(quads, W, e, n) /\ b = ConvertToValue(quads, e) /\ r = b.quads /\ c = b.expr
      BY <1>1, <1>2, <1>3, <2>1, <2>2
    <3>2. QED BY ONLY <3>1, ToValueMeans
  <2>4. PICK P1 : /\ Through(r, V, P1, a, N) /\ Known(r, V, P1, place, N)
                  /\ V[place] = e.val
    BY <1>4, <2>1, <2>3 DEF Means
  <2>5. \A i \in S : i \in Nat /\ a <= i
    BY <2>1, <2>3
  <2>6. Through(r, V, P0, 0, a)
    BY <1>1, <2>1, <2>3, <2>5, ThroughGrown
  <2>7. PICK P : P = P0 \cup P1
    OBVIOUS
  <2>8. Through(r, V, P, 0, N)
    BY <2>4, <2>6, <2>7, ThroughTwice
  <2>9. Known(r, V, P, place, N)
    BY <2>4, <2>7 DEF Known
  <2>10. GivenAt(V)
    <3>1. n \notin Given
      BY <1>1, <2>2 DEF Given
    <3>2. QED BY <2>1, <2>3, <3>1 DEF GivenAt
  <2>11. QED BY <2>4, <2>8, <2>9, <2>10
<1>8. QED BY ONLY RightInv, <1>1, <1>4, <1>5, <1>6, <1>7, FinishSound

LEMMA FinishIfSound ==
  ASSUME RightInv, FinishIf
  PROVE  RightInv'
<1>1. BoolExprInv' /\ Numbered(quads) /\ mode = "parse" /\ Depth = 1
  BY FinishIfKeeps, RoomFor DEF FinishIf, RightInv
<1>2. PICK q, n, e : q = quads /\ n = NextQuad(q) /\ e = Top
  OBVIOUS
<1>3. PICK p : p = (CASE IsBool(e) -> PatchList(q, e.truelist, n)
                      [] e.kind = "nil" -> Emit(q, Goto)
                      [] OTHER -> PatchLabel(WithTest(q, IfTrue(e.place)), n, n + 2))
  OBVIOUS
<1>4. PICK list, body : /\ list = (IF IsBool(e) THEN e.falselist ELSE NextQuad(p) - 1)
                        /\ body = Emit(p, Set(Result, T))
  OBVIOUS
<1>5. PICK r, N, place : r = PatchList(body, list, NextQuad(body)) /\ N = NextQuad(r) /\ place = Result
  OBVIOUS
<1>6. Finish(r, e, place)
  BY <1>2, <1>3, <1>4, <1>5 DEF FinishIf
<1>7. exprs = << e >> /\ cell[Result] = F
  BY <1>1, <1>2, FinishGround
<1>8. ASSUME e.sound
      PROVE  \E W, P : /\ Through(r, W, P, 0, N) /\ GivenAt(W)
                       /\ \/ Known(r, W, P, place, N) /\ W[place] = e.val
                          \/ place \notin DOMAIN W /\ cell[place] = e.val
  <2>1. PICK W, P0, a : /\ GivenAt(W) /\ Result \notin DOMAIN W
                        /\ Means(q, W, e, n) /\ a = e.start
                        /\ Through(q, W, P0, 0, a)
    BY <1>1, <1>2, <1>8, FinishGround
  <2>2. PICK val : val = e.val
    OBVIOUS
  <2>3. \E V, P : Tells(W, V, r, P, NextQuad(r), val)
    <3>1. CASE IsBool(e)
      <4>1. p = PatchList(q, e.truelist, n) /\ list = e.falselist
        BY <1>3, <1>4, <3>1 DEF IsBool
      <4>2. /\ Numbered(q) /\ n = NextQuad(q) /\ Result \notin DOMAIN W /\ Means(q, W, e, n) /\ IsBool(e)
            /\ a = e.start /\ Through(q, W, P0, 0, a)
            /\ p = PatchList(q, e.truelist, n) /\ body = Emit(p, Set(Result, T))
            /\ r = PatchList(body, e.falselist, NextQuad(body)) /\ val = e.val
        BY <1>1, <1>2, <1>4, <1>5, <2>1, <2>2, <3>1, <4>1
      <4>3. QED BY ONLY <4>2, IfBoolRight
    <3>2. CASE ~IsBool(e)
      <4>1. e.kind # "nil"
        BY <2>1 DEF Means
      <4>2. p = PatchLabel(WithTest(q, IfTrue(e.place)), n, n + 2) /\ list = NextQuad(p) - 1
        BY <1>3, <1>4, <3>2, <4>1
      <4>3. /\ Numbered(q) /\ n = NextQuad(q) /\ Result \notin DOMAIN W /\ Means(q, W, e, n) /\ ~IsBool(e)
            /\ a = e.start /\ Through(q, W, P0, 0, a)
            /\ p = PatchLabel(WithTest(q, IfTrue(e.place)), n, n + 2) /\ body = Emit(p, Set(Result, T))
            /\ r = PatchList(body, NextQuad(p) - 1, NextQuad(body)) /\ val = e.val
        BY <1>1, <1>2, <1>4, <1>5, <2>1, <2>2, <3>2, <4>2
      <4>4. QED BY ONLY <4>3, IfValueRight
    <3>3. QED BY <3>1, <3>2
  <2>4. PICK V, P : Tells(W, V, r, P, N, val)
    BY <1>5, <2>3
  <2>5. GivenAt(V)
    <3>1. Result \notin Given
      BY Places DEF Given
    <3>2. QED BY <2>1, <2>4, <3>1 DEF GivenAt, Tells
  <2>6. QED BY <1>5, <1>7, <2>2, <2>4, <2>5 DEF Tells
<1>9. QED BY ONLY RightInv, <1>1, <1>5, <1>6, <1>7, <1>8, FinishSound

-----------------------------------------------------------------------------
(* The machine. *)

(* Quads before the statement do nothing of interest. *)
LEMMA InitSound == Init => RightInv
<1>1. ASSUME Init PROVE RightInv
  <2>1. PICK n \in 0 .. FirstQuad : quads = [i \in 0 .. n - 1 |-> Set(Unwritten, U)]
    BY <1>1 DEF Init
  <2>2. n \in Nat
    BY BoolExprAssumption
  <2>3. BoolExprInv
    BY <1>1, InitKeeps
  <2>4. DOMAIN quads = 0 .. n - 1
    BY <2>1
  <2>5. NextQuad(quads) = n
    BY <2>2, <2>4, Numbers0
  <2>6. \A i \in DOMAIN quads : /\ quads[i].op = "assign" /\ quads[i].x = Unwritten /\ quads[i].y = U
                                /\ quads[i].op \notin Tests
    <3>1. Set(Unwritten, U).op = "assign" /\ Set(Unwritten, U).x = Unwritten /\ Set(Unwritten, U).y = U
          /\ "assign" \notin Tests
      BY DEF Set, Tests
    <3>2. \A i \in DOMAIN quads : quads[i] = Set(Unwritten, U)
      BY <2>1, <2>4
    <3>3. QED BY <3>1, <3>2
  <2>7. /\ exprs = << >> /\ mode = "parse"
        /\ cell = [i \in 0 .. Result |-> IF i = Result THEN F ELSE U]
    BY <1>1 DEF Init
  <2>8. cell[Result] = F /\ cell[Unwritten] = U
    BY <2>7, Places
  <2>9. PICK W : W = [c \in {Unwritten} |-> U]
    OBVIOUS
  <2>10. DOMAIN W = {Unwritten} /\ W[Unwritten] = U
    BY <2>9
  <2>11. Unwritten \in Given
    BY Places DEF Given
  <2>12. WorldAt(W)
    BY <2>8, <2>10, <2>11 DEF WorldAt
  <2>13. PICK P : P = DOMAIN quads
    OBVIOUS
  <2>14. Through(quads, W, P, 0, n)
    <3>1. \A i \in P : After(quads, W, i) = i + 1
      BY <2>6, <2>13 DEF After, Takes
    <3>2. \A i \in P : Works(quads, W, P, i)
      BY <2>6, <2>10, <2>13 DEF Works
    <3>3. (\A i : i \in P <=> i \in Nat /\ 0 <= i /\ i < n) /\ P \subseteq DOMAIN quads
      BY <2>2, <2>4, <2>13
    <3>4. 0 <= n /\ (0 \in P \/ 0 = n)
      BY <2>2, <3>3
    <3>5. \A i \in P : /\ i < i + 1 /\ (i + 1 \in P \/ i + 1 = n)
                       /\ \A k \in P : k <= i \/ i + 1 <= k
      BY <2>2, <3>3
    <3>6. \A i \in P : i \in Nat /\ 0 <= i /\ i < n
      BY <3>3
    <3>7. QED BY <2>2, <3>1, <3>2, <3>3, <3>4, <3>5, <3>6 DEF Through
  <2>15. Laid(quads, W, exprs)
    <3>1. Len(exprs) = 0
      BY <2>7
    <3>2. StartOf(quads, exprs, 1) = n
      BY <2>5, <3>1 DEF StartOf
    <3>3. \A i \in 1 .. 0 + 1 : i = 1
      OBVIOUS
    <3>4. \A i \in 1 .. 0 : FALSE
      OBVIOUS
    <3>5. QED BY <2>2, <2>14, <3>1, <3>2, <3>3, <3>4 DEF Laid
  <2>16. SoundInv
    BY <2>8, <2>12, <2>15 DEF SoundInv
  <2>17. RunInv /\ SoundExpressionsAreRight
    BY <2>7 DEF RunInv, SoundExpressionsAreRight
  <2>18. QED BY <2>3, <2>16, <2>17 DEF RightInv
<1>2. QED BY <1>1

(* Cells that are known are cells. *)
LEMMA KnownCells ==
  ASSUME RightInv, NEW W, NEW P, P \subseteq DOMAIN quads, NEW c, NEW i, Known(quads, W, P, c, i)
  PROVE  c \in 0 .. Result
<1>1. CASE c \in Given
  <2>1. Unwritten < Result /\ Unwritten \in Nat /\ Result \in Nat /\ MaxQuads \in Nat
    BY Places
  <2>2. QED BY <1>1, <2>1 DEF Given
<1>2. CASE \E j \in P : Writes(quads[j], c)
  <2>1. PICK j \in DOMAIN quads : quads[j].x = c
    BY <1>2 DEF Writes
  <2>2. IsQuad(quads[j])
    BY <2>1 DEF RightInv, BoolExprInv, TypeInv, Numbered
  <2>3. QED BY <2>1, <2>2 DEF IsQuad
<1>3. QED BY <1>1, <1>2 DEF Known

(* A step of the machine is a step on the way. *)
LEMMA RunOnWay ==
  ASSUME RightInv, Run, NEW W, NEW P, OnWay(W, P)
  PROVE  mode' = "run" /\ OnWay(W, P)'
<1>1. PICK t, N : t = quads[pc] /\ N = NextQuad(quads)
  OBVIOUS
<1>2. /\ pc \in DOMAIN quads /\ N \in Nat /\ \A i \in DOMAIN quads : i \in Nat /\ i < N /\ IsQuad(quads[i])
      /\ cell \in [0 .. Result -> {T, F, U}] /\ answer \in 0 .. Result
  BY <1>1 DEF Run, RightInv, BoolExprInv, TypeInv, Numbered
<1>3. /\ Through(quads, W, P, 0, N) /\ pc \in P
      /\ \A c : Known(quads, W, P, c, pc) => cell[c] = W[c]
  BY <1>1, <1>2 DEF OnWay
<1>4. PICK a : a = After(quads, W, pc)
  OBVIOUS
<1>5. /\ P \subseteq DOMAIN quads /\ pc < a /\ (a \in P \/ a = N) /\ Works(quads, W, P, pc)
      /\ \A k \in P : k <= pc \/ a <= k
  BY <1>3, <1>4 DEF Through
<1>6. ASSUME t.op \in Tests PROVE Holds(t) <=> HoldsAt(W, t)
  <2>1. CASE t.op = "jump"
    BY <2>1 DEF Holds, HoldsAt
  <2>2. CASE t.op # "jump"
    <3>1. t.op # "assign"
      BY <1>6 DEF Tests
    <3>2. cell[t.x] = W[t.x] /\ cell[t.y] = W[t.y]
      BY <1>1, <1>3, <1>5, <2>2, <3>1 DEF Works
    <3>3. QED BY <3>2 DEF Holds, HoldsAt
  <2>3. QED BY <2>1, <2>2
<1>7. a = IF t.op \in Tests /\ Holds(t) THEN t.label ELSE pc + 1
  BY <1>1, <1>4, <1>6 DEF After, Takes
<1>8. pc' = a /\ mode' = "run"
  <2>1. CASE t.op \in Tests /\ Holds(t)
    <3>1. t.label > pc
      BY <1>2, <1>5, <1>7, <2>1
    <3>2. QED BY <1>1, <1>7, <2>1, <3>1 DEF Run
  <2>2. CASE ~(t.op \in Tests /\ Holds(t))
    BY <1>1, <1>7, <2>2 DEF Run
  <2>3. QED BY <2>1, <2>2
<1>9. /\ cell' = IF t.op = "assign" THEN [cell EXCEPT ![t.x] = t.y] ELSE cell
      /\ UNCHANGED <<quads, exprs, read, answer, lost>>
  BY <1>1 DEF Run
<1>10. t.x \in 0 .. Result /\ (t.op = "assign" => t.x \in DOMAIN W /\ W[t.x] = t.y)
  BY <1>1, <1>2, <1>5 DEF Works, IsQuad
<1>11. /\ \A c \in 0 .. Result : ~(t.op = "assign" /\ c = t.x) => cell'[c] = cell[c]
       /\ t.op = "assign" => cell'[t.x] = t.y
  <2>1. CASE t.op = "assign"
    BY <1>2, <1>9, <1>10, <2>1
  <2>2. CASE t.op # "assign"
    BY <1>9, <2>2
  <2>3. QED BY <2>1, <2>2
<1>12. ASSUME NEW c, Known(quads, W, P, c, a) PROVE cell'[c] = W[c]
  <2>1. c \in 0 .. Result
    BY <1>5, <1>12, KnownCells
  <2>2. CASE t.op = "assign" /\ c = t.x
    BY <1>10, <1>11, <2>2
  <2>3. CASE ~(t.op = "assign" /\ c = t.x)
    <3>1. Known(quads, W, P, c, pc)
      <4>1. CASE c \in DOMAIN W /\ c \in Given
        BY <4>1 DEF Known
      <4>2. CASE \E j \in P : j < a /\ Writes(quads[j], c)
        <5>1. PICK j \in P : j < a /\ Writes(quads[j], c)
          BY <4>2
        <5>2. j # pc
          BY <1>1, <2>3, <5>1 DEF Writes
        <5>3. j \in Nat /\ pc \in Nat /\ a \in Nat
          BY <1>2, <1>5
        <5>4. j < pc
          BY <1>5, <5>1, <5>2, <5>3
        <5>5. QED BY <5>1, <5>4 DEF Known
      <4>3. QED BY <1>12, <4>1, <4>2 DEF Known
    <3>2. QED BY <1>3, <1>11, <2>1, <2>3, <3>1
  <2>4. QED BY <2>2, <2>3
<1>13. \/ Known(quads, W, P, answer, N) /\ W[answer] = exprs[1].val
       \/ answer \notin DOMAIN W /\ cell'[answer] = exprs[1].val
  <2>1. CASE Known(quads, W, P, answer, N) /\ W[answer] = exprs[1].val
    BY <2>1
  <2>2. CASE answer \notin DOMAIN W /\ cell[answer] = exprs[1].val
    <3>1. cell'[answer] = cell[answer]
      BY <1>2, <1>10, <1>11, <2>2
    <3>2. QED BY <2>2, <3>1
  <2>3. QED BY <1>1, <2>1, <2>2 DEF OnWay
<1>14. OnWay(W, P)'
  BY <1>1, <1>3, <1>5, <1>8, <1>9, <1>12, <1>13 DEF OnWay
<1>15. QED BY <1>8, <1>14

LEMMA RunSound ==
  ASSUME RightInv, Run
  PROVE  RightInv'
<1>1. BoolExprInv'
  BY RunKeeps DEF RightInv
<1>2. mode = "run" /\ exprs' = exprs /\ mode' \in {"run", "loop"}
  BY DEF Run
<1>3. ASSUME exprs[1].sound PROVE mode' = "run" /\ \E W, P : OnWay(W, P)'
  <2>1. PICK W, P : OnWay(W, P)
    BY <1>2, <1>3 DEF RightInv, RunInv
  <2>2. QED BY <2>1, RunOnWay
<1>4. SoundInv'
  BY <1>2 DEF SoundInv
<1>5. RunInv'
  BY <1>2, <1>3 DEF RunInv
<1>6. SoundExpressionsAreRight'
  BY <1>2, <1>3 DEF SoundExpressionsAreRight
<1>7. QED BY <1>1, <1>4, <1>5, <1>6 DEF RightInv

LEMMA EndedSound ==
  ASSUME RightInv, Ended
  PROVE  RightInv'
<1>1. BoolExprInv'
  BY EndedKeeps DEF RightInv
<1>2. mode = "run" /\ mode' = "done" /\ pc \notin DOMAIN quads
      /\ UNCHANGED <<quads, exprs, read, pc, cell, answer, lost>>
  BY DEF Ended
<1>3. ASSUME exprs[1].sound PROVE cell[answer] = exprs[1].val
  <2>1. PICK W, P : OnWay(W, P)
    BY <1>2, <1>3 DEF RightInv, RunInv
  <2>2. pc = NextQuad(quads)
    BY <1>2, <2>1 DEF OnWay, Through
  <2>3. QED BY <2>1, <2>2 DEF OnWay
<1>4. SoundInv' /\ RunInv'
  BY <1>2 DEF SoundInv, RunInv
<1>5. SoundExpressionsAreRight'
  BY <1>2, <1>3 DEF SoundExpressionsAreRight
<1>6. QED BY <1>1, <1>4, <1>5 DEF RightInv

LEMMA StepSound == RightInv /\ [Next]_vars => RightInv'
<1>1. SUFFICES ASSUME RightInv, [Next]_vars PROVE RightInv'
  OBVIOUS
<1>2. ASSUME NEW v \in {T, F}, ReadVariable(v) PROVE RightInv'
  BY <1>1, <1>2, ReadVariableSound
<1>3. ASSUME NEW v \in {T, F}, ReadComputed(v) PROVE RightInv'
  BY <1>1, <1>3, ReadComputedSound
<1>4. CASE ReadNil
  BY <1>1, <1>4, ReadNilSound
<1>5. CASE Not
  BY <1>1, <1>5, NotSound
<1>6. CASE And
  BY <1>1, <1>6, AndSound
<1>7. CASE Or
  BY <1>1, <1>7, OrSound
<1>8. CASE Equal
  BY <1>1, <1>8, EqualSound
<1>9. CASE NotEqual
  BY <1>1, <1>9, NotEqualSound
<1>10. CASE Less
  BY <1>1, <1>10, LessSound
<1>11. CASE FinishValue
  BY <1>1, <1>11, FinishValueSound
<1>12. CASE FinishIf
  BY <1>1, <1>12, FinishIfSound
<1>13. CASE Run
  BY <1>1, <1>13, RunSound
<1>14. CASE Ended
  BY <1>1, <1>14, EndedSound
<1>15. CASE UNCHANGED vars
  <2>1. BoolExprInv'
    BY <1>1, StepKeeps DEF RightInv
  <2>2. UNCHANGED <<quads, exprs, read, mode, pc, cell, answer>>
    BY <1>15 DEF vars
  <2>3. SoundInv'
    BY <1>1, <2>2 DEF RightInv, SoundInv, SoundStack, WorldAt
  <2>4. RunInv'
    BY <1>1, <2>2 DEF RightInv, RunInv, OnWay
  <2>5. SoundExpressionsAreRight'
    BY <1>1, <2>2 DEF RightInv, SoundExpressionsAreRight
  <2>6. QED BY <2>1, <2>3, <2>4, <2>5 DEF RightInv
<1>16. QED
  BY <1>1, <1>2, <1>3, <1>4, <1>5, <1>6, <1>7, <1>8, <1>9, <1>10, <1>11, <1>12, <1>13, <1>14, <1>15
     DEF Next

(* A sound expression has the value Alpha's semantics give it when the      *)
(* machine has run the quads the operators emitted, patched and merged, and *)
(* the machine never jumps backwards on the way: for any operands, operators*)
(* and nesting, wherever the statement stands in a program.                 *)
THEOREM ExpressionsEvaluateRight == Spec => []SoundExpressionsAreRight
<1>1. Init => RightInv
  BY InitSound
<1>2. RightInv /\ [Next]_vars => RightInv'
  BY StepSound
<1>3. RightInv => SoundExpressionsAreRight
  BY DEF RightInv
<1>4. QED BY <1>1, <1>2, <1>3, PTL DEF Spec
=============================================================================
