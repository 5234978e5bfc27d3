-------------------------- MODULE StatementsProofs -------------------------
(***************************************************************************)
(* Proofs about the statements of the parser: every jump out of a construct*)
(* that no function definition cuts off arrives, no jump crosses the border*)
(* of a function, frames hold the variables of functions that define no    *)
(* other, and `break' is refused only where it should be; for programs of  *)
(* any length and nesting.                                                 *)
(***************************************************************************)
EXTENDS StatementsProps, QuadListsProofs, SequenceTheorems

-----------------------------------------------------------------------------
(* Numbers. *)

(* A set of numbers up to n has a greatest one. *)
LEMMA GreatestExists ==
  ASSUME NEW n \in Nat, NEW S \in SUBSET (1 .. n), S # {}
  PROVE  \E m \in S : \A x \in S : x <= m
<1> DEFINE U == {d \in Nat : \A T \in SUBSET (1 .. d) : T # {} => \E m \in T : \A x \in T : x <= m}
<1>1. 0 \in U
  <2>1. 1 .. 0 = {}
    OBVIOUS
  <2>2. QED BY <2>1
<1>2. ASSUME NEW d \in U
      PROVE  d + 1 \in U
  <2>1. SUFFICES ASSUME NEW T \in SUBSET (1 .. d + 1), T # {}
                 PROVE  \E m \in T : \A x \in T : x <= m
    OBVIOUS
  <2>2. CASE d + 1 \in T
    BY <2>2
  <2>3. CASE d + 1 \notin T
    <3>1. \A x \in 1 .. d + 1 : x # d + 1 => x \in 1 .. d
      OBVIOUS
    <3>2. T \in SUBSET (1 .. d)
      BY <2>3, <3>1
    <3>3. QED BY <2>1, <3>2
  <2>4. QED BY <2>2, <2>3
<1>3. U = Nat
  BY <1>1, <1>2, Induction
<1>4. n \in U
  BY <1>3
<1>5. QED BY <1>4

-----------------------------------------------------------------------------
(* Quads. *)
Ops == {"jump", "if", "funcstart", "funcend", "ret"}
IsQuad(x) == x \in [op : Ops, label : Nat, locals : Nat]

(* The quads of q are numbered from 0. *)
Numbered(q) ==
  /\ NextQuad(q) \in Nat /\ DOMAIN q = 0 .. NextQuad(q) - 1
  /\ \A i \in DOMAIN q : IsQuad(q[i])

(* r is q with more quads behind, and other labels on some of T. *)
Grown(q, r, T) ==
  /\ Numbered(r) /\ NextQuad(q) <= NextQuad(r)
  /\ \A i \in DOMAIN q : i \in DOMAIN r /\ r[i].op = q[i].op /\ r[i].locals = q[i].locals
  /\ \A i \in DOMAIN q : i \notin T => r[i].label = q[i].label

(* emit: one more quad, the others as they were. *)
LEMMA EmitFacts ==
  ASSUME NEW q, Numbered(q), NEW x, IsQuad(x)
  PROVE  /\ Numbered(Emit(q, x)) /\ NextQuad(Emit(q, x)) = NextQuad(q) + 1
         /\ \A i \in DOMAIN q : i \in DOMAIN Emit(q, x) /\ Emit(q, x)[i] = q[i]
         /\ Emit(q, x)[NextQuad(q)] = x
         /\ \A i \in DOMAIN Emit(q, x) : i \in DOMAIN q \/ i = NextQuad(q)
<1> DEFINE e == Emit(q, x)
<1>1. PICK n \in Nat : n = NextQuad(q) /\ DOMAIN q = 0 .. n - 1
  BY DEF Numbered
<1>2. /\ NextQuad(e) = n + 1 /\ DOMAIN e = 0 .. n
      /\ \A i \in 0 .. n - 1 : i \in 0 .. n /\ e[i] = q[i]
      /\ e[n] = x
      /\ \A i \in 0 .. n : i \in 0 .. n - 1 \/ i = n
  BY <1>1, Emitted
<1> HIDE DEF e
<1>3. \A i \in 0 .. n : IsQuad(e[i])
  BY <1>1, <1>2 DEF Numbered
<1>4. (n + 1) - 1 = n /\ n + 1 \in Nat
  OBVIOUS
<1>5. Numbered(e)
  BY <1>2, <1>3, <1>4 DEF Numbered
<1>6. QED BY <1>1, <1>2, <1>5 DEF e

(* Labelled, the jumps that patchlabel completes: labels only are changed. *)
LEMMA LabelledFacts ==
  ASSUME NEW q, Numbered(q), NEW S, NEW l \in Nat
  PROVE  /\ Numbered(Labelled(q, S, l)) /\ NextQuad(Labelled(q, S, l)) = NextQuad(q)
         /\ DOMAIN Labelled(q, S, l) = DOMAIN q
         /\ \A i \in DOMAIN q : /\ Labelled(q, S, l)[i].op = q[i].op
                                /\ Labelled(q, S, l)[i].locals = q[i].locals
         /\ \A i \in DOMAIN q : i \in S => Labelled(q, S, l)[i].label = l
         /\ \A i \in DOMAIN q : i \notin S => Labelled(q, S, l)[i].label = q[i].label
<1> DEFINE r == Labelled(q, S, l)
<1>1. DOMAIN r = DOMAIN q
  BY Relabelled
<1>2. NextQuad(r) = NextQuad(q)
  BY Relabelled
<1>3. ASSUME NEW i \in DOMAIN q
      PROVE  /\ IsQuad(r[i]) /\ r[i].op = q[i].op /\ r[i].locals = q[i].locals
             /\ r[i].label = IF i \in S THEN l ELSE q[i].label
  <2>1. r[i] = IF i \in S THEN [q[i] EXCEPT !.label = l] ELSE q[i]
    BY Relabelled
  <2>2. PICK x : x = q[i] /\ IsQuad(x)
    BY DEF Numbered
  <2>3. PICK y : y = [x EXCEPT !.label = l]
    OBVIOUS
  <2>4. IsQuad(y) /\ y.op = x.op /\ y.locals = x.locals /\ y.label = l
    BY <2>2, <2>3 DEF IsQuad
  <2>5. QED BY <2>1, <2>2, <2>3, <2>4
<1> HIDE DEF r
<1>4. Numbered(r)
  BY <1>1, <1>2, <1>3 DEF Numbered
<1>5. QED BY <1>1, <1>2, <1>3, <1>4 DEF r

(* Quads that are emitted: the others stay. *)
LEMMA EmitGrown ==
  ASSUME NEW q, Numbered(q), NEW x, IsQuad(x), NEW r, r = Emit(q, x)
  PROVE  /\ Numbered(r) /\ Grown(q, r, {}) /\ NextQuad(q) \in Nat /\ NextQuad(r) = NextQuad(q) + 1
         /\ r[NextQuad(q)] = x /\ NextQuad(q) \in DOMAIN r
         /\ \A i \in DOMAIN q : i \in DOMAIN r /\ r[i] = q[i] /\ i \in Nat /\ i < NextQuad(q)
         /\ \A i \in DOMAIN r : i \in DOMAIN q \/ i = NextQuad(q)
<1>1. /\ Numbered(r) /\ NextQuad(r) = NextQuad(q) + 1
      /\ \A i \in DOMAIN q : i \in DOMAIN r /\ r[i] = q[i]
      /\ r[NextQuad(q)] = x
      /\ \A i \in DOMAIN r : i \in DOMAIN q \/ i = NextQuad(q)
  BY EmitFacts
<1>2. /\ NextQuad(q) \in Nat /\ \A i \in DOMAIN q : i \in Nat /\ i < NextQuad(q)
      /\ NextQuad(q) <= NextQuad(r) /\ NextQuad(q) \in DOMAIN r
  BY <1>1 DEF Numbered
<1>3. Grown(q, r, {})
  BY <1>1, <1>2 DEF Grown
<1>4. QED BY <1>1, <1>2, <1>3

-----------------------------------------------------------------------------
(* Lists of quads. *)

(* The list that begins at l is of the quads of S, in their order. *)
Listed(q, l, S) ==
  /\ S \subseteq DOMAIN q \ {0}
  /\ l = 0 <=> S = {}
  /\ l # 0 => l \in S
  /\ \A i \in S : q[i].label = 0 \/ (q[i].label \in S /\ i < q[i].label)
  /\ \A i \in S : i # l => \E j \in S : q[j].label = i
  /\ \A i, j \in S : q[i].label = 0 /\ q[j].label = 0 => i = j
  /\ S # {} => \E i \in S : q[i].label = 0

(* The quads of a list are found along its labels. *)
LEMMA ListedOn ==
  ASSUME NEW q, Numbered(q), NEW l, NEW S, Listed(q, l, S)
  PROVE  On(q, l) = S
<1>1. PICK m \in Nat : m = NextQuad(q) /\ DOMAIN q = 0 .. m - 1
  BY DEF Numbered
<1>2. S \subseteq DOMAIN q \ {0} /\ \A i \in S : i \in Nat /\ i <= m
  BY <1>1 DEF Listed
<1>3. PICK down : down = [i \in S |-> i]
  OBVIOUS
<1>4. \A i \in S : down[i] = i
  BY <1>3
<1>5. Leads(q, l, S, down)
  BY <1>2, <1>4 DEF Listed, Leads
<1>6. \A i \in S : down[i] <= m
  BY <1>2, <1>4
<1>7. QED BY <1>1, <1>2, <1>5, <1>6, Reached

(* A list is as long as the labels of its quads stay. *)
LEMMA ListedStays ==
  ASSUME NEW q, NEW r, NEW l, NEW S, Listed(q, l, S),
         \A i \in S : i \in DOMAIN r /\ r[i].label = q[i].label
  PROVE  Listed(r, l, S)
<1>1. S \subseteq DOMAIN r \ {0}
  BY DEF Listed
<1>2. QED BY <1>1 DEF Listed

(* newlist: a list of one quad. *)
LEMMA ListOfOne ==
  ASSUME NEW q, NEW i \in DOMAIN q, i # 0, q[i].label = 0
  PROVE  Listed(q, i, {i})
BY DEF Listed

(* A quad behind those of a list is put at its end. *)
LEMMA MergeFacts ==
  ASSUME NEW q, Numbered(q), NEW l, NEW S, Listed(q, l, S),
         NEW m \in DOMAIN q, m # 0, q[m].label = 0, \A i \in S : i < m
  PROVE  /\ Grown(q, MergeLists(q, l, m), S)
         /\ NextQuad(MergeLists(q, l, m)) = NextQuad(q)
         /\ Listed(MergeLists(q, l, m), Merged(l, m), S \cup {m})
         /\ MergeLists(q, l, m)[m] = q[m]
         /\ \A i \in S : MergeLists(q, l, m)[i].label \in {q[i].label, m}
<1>0. m \in Nat /\ m \notin S /\ S \subseteq DOMAIN q /\ DOMAIN q \subseteq Nat /\ NextQuad(q) \in Nat
  <2>1. DOMAIN q \subseteq Nat /\ NextQuad(q) \in Nat
    BY DEF Numbered
  <2>2. m \in Nat
    BY <2>1
  <2>3. m \notin S
    BY <2>2
  <2>4. QED BY <2>1, <2>2, <2>3 DEF Listed
<1>1. CASE l = 0
  <2>1. MergeLists(q, l, m) = q /\ Merged(l, m) = m /\ S = {}
    BY <1>1 DEF MergeLists, Merged, Listed
  <2>2. Grown(q, q, S)
    BY <1>0 DEF Grown
  <2>3. S \cup {m} = {m}
    BY <2>1
  <2>4. Listed(q, m, {m})
    BY ListOfOne
  <2>5. QED BY <2>1, <2>2, <2>3, <2>4
<1>2. CASE l # 0
  <2> DEFINE k == LastOn(q, l)
             r == Labelled(q, {k}, m)
  <2>1. MergeLists(q, l, m) = r /\ Merged(l, m) = l
    BY <1>0, <1>2 DEF MergeLists, Merged
  <2>2. k \in S /\ q[k].label = 0
    <3>1. On(q, l) = S
      BY ListedOn
    <3>2. \E i \in S : q[i].label = 0
      BY <1>2 DEF Listed
    <3>3. k = CHOOSE i \in S : q[i].label = 0
      BY <3>1 DEF LastOn
    <3>4. QED BY <3>2, <3>3
  <2> HIDE DEF k
  <2>3. /\ Numbered(r) /\ NextQuad(r) = NextQuad(q) /\ DOMAIN r = DOMAIN q
        /\ \A i \in DOMAIN q : r[i].op = q[i].op /\ r[i].locals = q[i].locals
        /\ \A i \in DOMAIN q : i \in {k} => r[i].label = m
        /\ \A i \in DOMAIN q : i \notin {k} => r[i].label = q[i].label
    BY <1>0, LabelledFacts
  <2>4. r[m] = q[m]
    <3>1. m # k
      BY <1>0, <2>2
    <3>2. QED BY <3>1 DEF Labelled
  <2> HIDE DEF r
  <2>5. Grown(q, r, S)
    BY <1>0, <2>2, <2>3 DEF Grown
  <2>6. \A i \in S : r[i].label \in {q[i].label, m}
    BY <1>0, <2>3
  <2>7. Listed(r, l, S \cup {m})
    <3>1. S \cup {m} \subseteq DOMAIN r \ {0}
      BY <1>0, <2>3 DEF Listed
    <3>2. l \in S /\ S # {}
      BY <1>2 DEF Listed
    <3>3. r[m].label = 0 /\ r[k].label = m /\ k \in DOMAIN q
      BY <1>0, <2>2, <2>3, <2>4
    <3>4. \A i \in S : i # k => r[i].label = q[i].label /\ q[i].label # 0
      <4>1. \A i \in S : q[i].label = 0 => i = k
        BY <2>2 DEF Listed
      <4>2. QED BY <1>0, <2>3, <4>1
    <3>5. \A i \in S \cup {m} : r[i].label = 0 => i = m
      BY <1>0, <2>2, <3>3, <3>4
    <3>6. ASSUME NEW i \in S \cup {m}
          PROVE  r[i].label = 0 \/ (r[i].label \in S \cup {m} /\ i < r[i].label)
      <4>1. CASE i = m
        BY <3>3, <4>1
      <4>2. CASE i = k
        BY <2>2, <3>3, <4>2
      <4>3. CASE i \in S /\ i # k
        BY <3>4, <4>3 DEF Listed
      <4>4. QED BY <4>1, <4>2, <4>3
    <3>7. ASSUME NEW i \in S \cup {m}, i # l
          PROVE  \E j \in S \cup {m} : r[j].label = i
      <4>1. CASE i = m
        BY <2>2, <3>3, <4>1
      <4>2. CASE i \in S
        <5>1. PICK j \in S : q[j].label = i
          BY <3>7, <4>2 DEF Listed
        <5>2. i # 0
          BY <4>2 DEF Listed
        <5>3. r[j].label = i
          BY <2>2, <3>4, <5>1, <5>2
        <5>4. QED BY <5>3
      <4>3. QED BY <4>1, <4>2
    <3>8. QED BY <1>2, <3>1, <3>2, <3>3, <3>5, <3>6, <3>7 DEF Listed
  <2>8. QED BY <2>1, <2>3, <2>4, <2>5, <2>6, <2>7
<1>3. QED BY <1>1, <1>2

(* patchlist: the quads of the list jump to the label. *)
LEMMA PatchFacts ==
  ASSUME NEW q, Numbered(q), NEW l, NEW S, Listed(q, l, S), NEW label \in Nat
  PROVE  /\ Grown(q, PatchList(q, l, label), S)
         /\ NextQuad(PatchList(q, l, label)) = NextQuad(q)
         /\ DOMAIN PatchList(q, l, label) = DOMAIN q
         /\ \A i \in S : PatchList(q, l, label)[i].label = label
<1>1. PatchList(q, l, label) = Labelled(q, S, label)
  BY ListedOn DEF PatchList
<1>2. S \subseteq DOMAIN q /\ NextQuad(q) \in Nat
  BY DEF Listed, Numbered
<1> DEFINE r == Labelled(q, S, label)
<1>3. /\ Numbered(r) /\ NextQuad(r) = NextQuad(q) /\ DOMAIN r = DOMAIN q
      /\ \A i \in DOMAIN q : r[i].op = q[i].op /\ r[i].locals = q[i].locals
      /\ \A i \in DOMAIN q : i \in S => r[i].label = label
      /\ \A i \in DOMAIN q : i \notin S => r[i].label = q[i].label
  BY LabelledFacts
<1> HIDE DEF r
<1>4. Grown(q, r, S)
  BY <1>2, <1>3 DEF Grown
<1>5. QED BY <1>1, <1>2, <1>3, <1>4 DEF r

(* What grows twice has grown. *)
LEMMA GrownTwice ==
  ASSUME NEW p, NEW q, NEW r, NEW S, NEW T, NextQuad(p) \in Nat, NextQuad(q) \in Nat,
         NextQuad(r) \in Nat, Grown(p, q, S), Grown(q, r, T)
  PROVE  Grown(p, r, S \cup T)
<1>1. NextQuad(p) <= NextQuad(r)
  BY DEF Grown
<1>2. QED BY <1>1 DEF Grown

-----------------------------------------------------------------------------
(* Constructs.  Each has all of its quads so far from its first to the one  *)
(* before After.                                                            *)
Constructs ==
  [kind : {"function"}, id : Nat]
  \cup [kind : {"while", "for"}, id : Nat, test : Nat, next : Nat, body : Nat]
  \cup [kind : {"if"}, id : Nat, list : Nat]
  \cup [kind : {"else"}, id : Nat, list : Nat, jump : Nat]

After(c) ==
  IF c.kind = "while" THEN c.id + 2
  ELSE IF c.kind = "for" THEN c.id + 3
  ELSE IF c.kind = "if" THEN c.id + 2
  ELSE IF c.kind = "else" THEN c.jump + 1
  ELSE c.id + 1

IsConstruct(c) ==
  /\ c \in Constructs
  /\ c.kind \in {"while", "for"} => c.test = c.id
  /\ c.kind = "while" => c.next = c.id /\ c.body = c.id + 2
  /\ c.kind = "for" => c.next = c.id + 2 /\ c.body = c.id + 3
  /\ c.kind \in {"if", "else"} => c.list = c.id + 1
  /\ c.kind = "else" => c.jump >= c.id + 2

(* The jumps of a construct that are completed at its end or its middle,    *)
(* and the quads that its jumps go to.                                      *)
Incomplete(c) ==
  IF c.kind \in {"while", "for"} THEN {c.test, c.test + 1}
  ELSE IF c.kind = "if" THEN {c.list}
  ELSE IF c.kind = "else" THEN {c.list, c.jump}
  ELSE {}
Points(c) ==
  IF c.kind \in {"while", "for"} THEN {c.test, c.test + 1, c.next, c.body}
  ELSE IF c.kind = "if" THEN {c.list}
  ELSE IF c.kind = "else" THEN {c.list, c.jump, c.jump + 1}
  ELSE {}

(* The incomplete jumps of a construct are its quads, and it jumps to its   *)
(* quads or right behind them.                                              *)
LEMMA ConstructFacts ==
  ASSUME NEW c, IsConstruct(c)
  PROVE  /\ c.kind \in {"function", "while", "for", "if", "else"}
         /\ c.id \in Nat /\ After(c) \in Nat /\ c.id < After(c)
         /\ \A i \in Incomplete(c) : i \in Nat /\ c.id <= i /\ i < After(c)
         /\ \A p \in Points(c) : p \in Nat /\ c.id <= p /\ p <= After(c)
<1>1. CASE c.kind = "function"
  BY <1>1 DEF IsConstruct, Constructs, After, Incomplete, Points
<1>2. CASE c.kind = "while"
  BY <1>2 DEF IsConstruct, Constructs, After, Incomplete, Points
<1>3. CASE c.kind = "for"
  BY <1>3 DEF IsConstruct, Constructs, After, Incomplete, Points
<1>4. CASE c.kind = "if"
  BY <1>4 DEF IsConstruct, Constructs, After, Incomplete, Points
<1>5. CASE c.kind = "else"
  BY <1>5 DEF IsConstruct, Constructs, After, Incomplete, Points
<1>6. c.kind \in {"function", "while", "for", "if", "else"}
  BY DEF IsConstruct, Constructs
<1>7. QED BY <1>1, <1>2, <1>3, <1>4, <1>5, <1>6

-----------------------------------------------------------------------------
(* The state: functions, finished and open; jumps that wait.                *)
Here == NextQuad(quads)
Funs == {f \in DOMAIN quads : quads[f].op = "funcstart"}
Ids == {open[k].id : k \in 1 .. Depth}
OpenFuns == {open[k].id : k \in Functions}
Below(k) == {open[j].id : j \in {i \in Functions : i < k}}

(* The functions that quad p is part of, those that are not finished too.   *)
Around(funs, ends, p) ==
  {f \in funs : f < p /\ (f \in DOMAIN ends => p <= ends[f].exit)}

(* The loops that no function was defined in since they began. *)
Current == {k \in Loops : \A f \in Funs : f < open[k].id}

(* The exits that wait for the end of their construct. *)
Live == {e \in exits : e.quad \notin cut /\ e.owner \in Ids}
ExitsOf(live, kind, owner) == {e.quad : e \in {x \in live : x.kind = kind /\ x.owner = owner}}
Returns == {e.quad : e \in {x \in Live : x.kind = "return"}}
Waits(i) ==
  (\E e \in Live : e.quad = i) \/ (\E k \in 1 .. Depth : i \in Incomplete(open[k]))

(* The inductive invariant.                                                 *)
QuadsInv == Numbered(quads) /\ \A i \in DOMAIN quads : quads[i].label <= Here

(* Constructs are nested in the order of their quads. *)
OpenInv ==
  /\ open \in Seq(Constructs)
  /\ \A k \in 1 .. Depth : IsConstruct(open[k]) /\ After(open[k]) <= Here
  /\ \A j, k \in 1 .. Depth : j < k => After(open[j]) <= open[k].id
  /\ \A k \in 1 .. Depth : open[k].kind = "function" <=> open[k].id \in Funs

(* A function is finished or open, and the last funcstart is known. *)
FunsInv ==
  /\ OpenFuns = Funs \ DOMAIN closed
  /\ DOMAIN closed \subseteq DOMAIN quads /\ DOMAIN closed \cap Ids = {}
  /\ \A c \in DOMAIN closed : /\ closed[c].exit \in Nat /\ closed[c].next \in Nat
                              /\ c < closed[c].exit /\ closed[c].exit <= Here
                              /\ closed[c].next <= Here
                              /\ c \in Funs => closed[c].exit < Here
  /\ funcstart_quad \in Nat /\ funcstart_quad <= Here
  /\ Funs # {} => funcstart_quad \in Funs
  /\ \A f \in Funs : f <= funcstart_quad
  /\ IsFiniteSet(Functions) /\ inside_function_depth = Cardinality(Functions)

(* A function that defines no other counts its own variables. *)
FramesInv ==
  /\ local_offset \in Nat /\ DOMAIN locals = Funs
  /\ \A f \in Funs : locals[f] \in Seq(Nat)
  /\ \A f \in OpenFuns : \A g \in Funs : f < g => f \in hosts
  /\ \A f \in Funs \ hosts : \A i \in DOMAIN locals[f] : locals[f][i] = i - 1
  /\ \A f \in Funs \ hosts : f \in DOMAIN closed => Len(locals[f]) <= quads[f].locals
  /\ \A f \in Funs \ hosts : f = funcstart_quad => Len(locals[f]) <= local_offset
  /\ \A f \in OpenFuns \ hosts : Len(locals[f]) = local_offset

(* The stack of loops is that of the current ones, and their lists are the  *)
(* exits that wait for their ends.                                          *)
LoopsAt(at) ==
  /\ \A i, j \in 1 .. Len(loops) : i < j => at[j] < at[i]
  /\ \A i \in 1 .. Len(loops) : at[i] \in Current
  /\ \A k \in Current : \E i \in 1 .. Len(loops) : at[i] = k
  /\ \A i \in 1 .. Len(loops) :
       /\ Listed(quads, loops[i].breaklist, ExitsOf(Live, "break", open[at[i]].id))
       /\ Listed(quads, loops[i].contlist, ExitsOf(Live, "continue", open[at[i]].id))
LoopsInv ==
  /\ loops \in Seq([breaklist : Nat, contlist : Nat])
  /\ \E at \in [1 .. Len(loops) -> 1 .. Depth] : LoopsAt(at)

ReturnsInv == Listed(quads, returnlist, Returns)

ExitsInv ==
  /\ \A e \in exits : /\ e.quad \in DOMAIN quads /\ quads[e.quad].op = "jump"
                      /\ e.quad # 0
                      /\ e.owner \in DOMAIN closed \cup Ids
                      /\ e.kind \in {"break", "continue", "return"}
                      /\ e.kind = "return" <=> e.owner \in Funs
  /\ \A k \in 1 .. Depth : open[k].kind \in {"if", "else"} =>
       \A e \in exits : e.owner # open[k].id
  /\ \A d, e \in exits : d.quad = e.quad => d = e
  /\ \A e \in Live : e.kind # "return" => \E k \in Current : e.owner = open[k].id
  /\ \A e \in Live : e.kind = "return" => Functions # {} /\ e.owner = open[Function].id
  /\ cut \subseteq {e.quad : e \in exits}

(* The incomplete jumps of constructs are no exits, and that of a branch is *)
(* a list of its own.                                                       *)
ApartInv ==
  /\ \A k \in 1 .. Depth : \A i \in Incomplete(open[k]) : \A e \in exits : e.quad # i
  /\ \A k \in 1 .. Depth : open[k].kind \in {"if", "else"} => quads[open[k].list].label = 0

(* Jumps and where they go are parts of the same functions. *)
NestInv ==
  /\ \A k \in 1 .. Depth : \A p \in Points(open[k]) : Around(Funs, closed, p) = Below(k)
  /\ \A e \in Live : Around(Funs, closed, e.quad) = OpenFuns
JumpsInv ==
  \A i \in DOMAIN quads : quads[i].op \in {"jump", "if"} /\ i \notin cut /\ ~Waits(i)
                          => Around(Funs, closed, quads[i].label) = Around(Funs, closed, i)

ModeInv ==
  /\ mode \in {"parse", "accepted", "no_loop", "no_function"}
  /\ mode = "accepted" => open = << >>
  /\ mode = "no_loop" => loops = << >>

StatementsInv ==
  /\ QuadsInv /\ OpenInv /\ FunsInv /\ FramesInv /\ LoopsInv /\ ReturnsInv
  /\ ExitsInv /\ ApartInv /\ NestInv /\ JumpsInv /\ ExitsArrive /\ ModeInv

(* The numbers of quads. *)
LEMMA HereFacts ==
  ASSUME Numbered(quads)
  PROVE  /\ Here \in Nat
         /\ \A i \in DOMAIN quads : i \in Nat /\ i < Here
         /\ \A i \in Nat : i < Here => i \in DOMAIN quads
BY DEF Numbered, Here

-----------------------------------------------------------------------------
(* What opening and closing a construct does to the sets above.             *)

(* One more construct. *)
LEMMA OpenedSets ==
  ASSUME open \in Seq(Constructs), NEW c \in Constructs, open' = Append(open, c)
  PROVE  /\ open' \in Seq(Constructs) /\ Depth \in Nat /\ Depth' = Depth + 1
         /\ \A k \in 1 .. Depth : k \in 1 .. Depth' /\ open'[k] = open[k]
         /\ \A k \in 1 .. Depth' : k \in 1 .. Depth \/ k = Depth + 1
         /\ Depth + 1 \in 1 .. Depth' /\ open'[Depth + 1] = c
         /\ \A k \in 1 .. Depth : k < Depth + 1
<1>1. Depth \in Nat /\ open' \in Seq(Constructs) /\ Depth' = Depth + 1
  BY AppendProperties DEF Depth
<1>2. \A k \in 1 .. Depth : open'[k] = open[k]
  BY AppendProperties DEF Depth
<1>3. open'[Depth + 1] = c
  BY AppendProperties DEF Depth
<1>4. \A d \in Nat :
        /\ \A k \in 1 .. d : k \in 1 .. d + 1 /\ k < d + 1
        /\ \A k \in 1 .. d + 1 : k \in 1 .. d \/ k = d + 1
        /\ d + 1 \in 1 .. d + 1
  OBVIOUS
<1>5. PICK d \in Nat : d = Depth
  BY <1>1
<1>6. QED BY <1>1, <1>2, <1>3, <1>4, <1>5

LEMMA OpenedIds ==
  ASSUME open \in Seq(Constructs), NEW c \in Constructs, open' = Append(open, c)
  PROVE  /\ Ids' = Ids \cup {c.id}
         /\ c.kind # "function" => Functions' = Functions /\ OpenFuns' = OpenFuns
         /\ c.kind = "function" => /\ Functions' = Functions \cup {Depth + 1}
                                   /\ OpenFuns' = OpenFuns \cup {c.id}
         /\ c.kind \notin {"while", "for"} => Loops' = Loops
         /\ c.kind \in {"while", "for"} => Loops' = Loops \cup {Depth + 1}
<1> USE OpenedSets
<1>1. Ids' = Ids \cup {c.id}
  <2>1. Ids' \subseteq Ids \cup {c.id}
    BY DEF Ids
  <2>2. Ids \cup {c.id} \subseteq Ids'
    BY DEF Ids
  <2>3. QED BY <2>1, <2>2
<1>2. Functions' = {k \in 1 .. Depth' : open'[k].kind = "function"}
  BY DEF Functions
<1>3. Loops' = {k \in 1 .. Depth' : open'[k].kind \in {"while", "for"}}
  BY DEF Loops
<1>4. c.kind # "function" => Functions' = Functions
  BY <1>2 DEF Functions
<1>5. c.kind = "function" => Functions' = Functions \cup {Depth + 1}
  BY <1>2 DEF Functions
<1>6. c.kind # "function" => OpenFuns' = OpenFuns
  <2>1. \A k \in Functions : open'[k] = open[k]
    BY DEF Functions
  <2>2. QED BY <1>4, <2>1 DEF OpenFuns
<1>7. c.kind = "function" => OpenFuns' = OpenFuns \cup {c.id}
  <2>1. \A k \in Functions : open'[k] = open[k]
    BY DEF Functions
  <2>2. SUFFICES ASSUME c.kind = "function" PROVE OpenFuns' = OpenFuns \cup {c.id}
    OBVIOUS
  <2>3. Functions' = Functions \cup {Depth + 1} /\ open'[Depth + 1] = c
    BY <1>5, <2>2
  <2>4. OpenFuns' = {open'[k].id : k \in Functions'} /\ OpenFuns = {open[k].id : k \in Functions}
    BY DEF OpenFuns
  <2>5. QED BY ONLY <2>1, <2>3, <2>4
<1>8. c.kind \notin {"while", "for"} => Loops' = Loops
  BY <1>3 DEF Loops
<1>9. c.kind \in {"while", "for"} => Loops' = Loops \cup {Depth + 1}
  BY <1>3 DEF Loops
<1>10. QED BY <1>1, <1>4, <1>5, <1>6, <1>7, <1>8, <1>9

(* What is below a construct stays, and all open functions are below a new  *)
(* one.                                                                     *)
LEMMA OpenedBelow ==
  ASSUME open \in Seq(Constructs), NEW c \in Constructs, open' = Append(open, c)
  PROVE  /\ \A k \in 1 .. Depth : Below(k)' = Below(k)
         /\ \A k \in 1 .. Depth' : k = Depth + 1 => Below(k)' = OpenFuns
<1>1. ASSUME NEW k \in Nat, k <= Depth + 1
      PROVE  {open'[j].id : j \in {i \in Functions' : i < k}} = {open[j].id : j \in {i \in Functions : i < k}}
  <2>1. {i \in Functions' : i < k} = {i \in Functions : i < k}
    <3>1. Functions' \subseteq Functions \cup {Depth + 1} /\ Functions \subseteq Functions' /\ Depth \in Nat
      BY OpenedSets, OpenedIds
    <3>2. ~(Depth + 1 < k)
      BY <1>1, <3>1
    <3>3. QED BY <3>1, <3>2
  <2>2. \A j \in Functions : open'[j] = open[j]
    BY OpenedSets DEF Functions
  <2>3. QED BY <2>1, <2>2
<1>2. ASSUME NEW k \in 1 .. Depth
      PROVE  Below(k)' = Below(k)
  <2>1. k \in Nat /\ k <= Depth + 1
    BY OpenedSets
  <2>2. QED BY <1>1, <2>1 DEF Below
<1>3. ASSUME NEW k \in 1 .. Depth', k = Depth + 1
      PROVE  Below(k)' = OpenFuns
  <2>1. k \in Nat /\ k <= Depth + 1
    BY <1>3, OpenedSets
  <2>2. {i \in Functions : i < k} = Functions
    BY <1>3, OpenedSets DEF Functions
  <2>3. Below(k)' = {open'[j].id : j \in {i \in Functions' : i < k}}
    BY DEF Below
  <2>4. QED BY <1>1, <2>1, <2>2, <2>3 DEF OpenFuns
<1>4. QED BY <1>2, <1>3

(* A construct less. *)
LEMMA ClosedSets ==
  ASSUME open \in Seq(Constructs), Depth > 0, Close
  PROVE  /\ open' \in Seq(Constructs) /\ Depth \in Nat /\ Depth' = Depth - 1
         /\ \A k \in 1 .. Depth' : k \in 1 .. Depth /\ k < Depth /\ open'[k] = open[k]
         /\ \A k \in 1 .. Depth : k \in 1 .. Depth' \/ k = Depth
         /\ Depth \in 1 .. Depth /\ \A k \in 1 .. Depth : k <= Depth
<1>1. PICK d \in Nat : d = Depth
  BY DEF Depth
<1>2. d - 1 \in Nat /\ open' = SubSeq(open, 1, d - 1)
  BY <1>1 DEF Close
<1>3. Len(open') = d - 1 /\ open' \in Seq(Constructs) /\ \A k \in 1 .. d - 1 : open'[k] = open[k]
  <2>1. PICK e \in Nat : e = d - 1
    BY <1>2
  <2>2. open' = SubSeq(open, 1, e) /\ e <= Len(open) /\ \A k \in 1 .. e : k \in 1 .. Len(open)
    BY <1>1, <1>2, <2>1 DEF Depth
  <2>3. open' = [k \in 1 .. e |-> open[k]]
    BY <2>1, <2>2
  <2>4. \A k \in 1 .. e : open[k] \in Constructs
    BY <2>2
  <2>5. QED BY <2>1, <2>3, <2>4
<1>4. /\ \A k \in 1 .. d - 1 : k \in 1 .. d /\ k < d
      /\ \A k \in 1 .. d : k \in 1 .. d - 1 \/ k = d
      /\ d \in 1 .. d /\ \A k \in 1 .. d : k <= d
  BY <1>2
<1>5. Depth' = d - 1
  BY <1>3 DEF Depth
<1>6. QED BY <1>1, <1>3, <1>4, <1>5

(* No two constructs have the same number. *)
LEMMA IdsDistinct ==
  ASSUME QuadsInv, OpenInv, NEW j \in 1 .. Depth, NEW k \in 1 .. Depth
  PROVE  /\ open[j].id \in Nat /\ open[j].id < Here
         /\ j < k => open[j].id < open[k].id /\ After(open[j]) <= open[k].id
         /\ open[j].id = open[k].id => j = k
<1>1. \A i \in 1 .. Depth : open[i].id \in Nat /\ After(open[i]) \in Nat /\ open[i].id < After(open[i])
  BY ConstructFacts DEF OpenInv
<1>2. j \in Nat /\ k \in Nat /\ Here \in Nat /\ After(open[j]) <= Here
  BY HereFacts DEF OpenInv, QuadsInv
<1>3. \A i, m \in 1 .. Depth : i < m => open[i].id < open[m].id /\ After(open[i]) <= open[m].id
  BY <1>1 DEF OpenInv
<1>4. QED BY <1>1, <1>2, <1>3

LEMMA ClosedIds ==
  ASSUME QuadsInv, OpenInv, Depth > 0, Close
  PROVE  /\ Ids' = Ids \ {Top.id} /\ Top.id \in Ids
         /\ Functions' = Functions \ {Depth} /\ Loops' = Loops \ {Depth}
         /\ OpenFuns' = OpenFuns \ {Top.id}
         /\ Top.kind # "function" => OpenFuns' = OpenFuns /\ Functions' = Functions
         /\ Top.kind = "function" => Top.id \in OpenFuns
<1>1. /\ Depth' = Depth - 1
      /\ \A k \in 1 .. Depth' : k \in 1 .. Depth /\ k < Depth /\ open'[k] = open[k]
      /\ \A k \in 1 .. Depth : k \in 1 .. Depth' \/ k = Depth
      /\ Depth \in 1 .. Depth /\ \A k \in 1 .. Depth' : k # Depth
  BY ClosedSets DEF OpenInv
<1>2. \A j, k \in 1 .. Depth : open[j].id = open[k].id => j = k
  BY IdsDistinct
<1>3. Ids' = Ids \ {Top.id} /\ Top.id \in Ids
  BY <1>1, <1>2 DEF Ids, Top
<1>4. Functions' = Functions \ {Depth} /\ Loops' = Loops \ {Depth}
  <2>1. Functions' = {k \in 1 .. Depth' : open'[k].kind = "function"}
    BY DEF Functions
  <2>2. Loops' = {k \in 1 .. Depth' : open'[k].kind \in {"while", "for"}}
    BY DEF Loops
  <2>3. QED BY <1>1, <2>1, <2>2 DEF Functions, Loops
<1>5. OpenFuns' = {open'[k].id : k \in Functions'} /\ OpenFuns = {open[k].id : k \in Functions}
  BY DEF OpenFuns
<1>6. Functions \subseteq 1 .. Depth /\ \A k \in Functions' : open'[k] = open[k]
  BY <1>1 DEF Functions
<1>7. OpenFuns' = OpenFuns \ {Top.id}
  <2>1. \A k \in Functions : open[k].id = Top.id <=> k = Depth
    BY <1>1, <1>2, <1>6 DEF Top
  <2>2. QED BY ONLY <1>4, <1>5, <1>6, <2>1
<1>8. Top.kind # "function" => Depth \notin Functions
  BY DEF Functions, Top
<1>9. Top.kind # "function" => OpenFuns' = OpenFuns /\ Functions' = Functions
  BY <1>4, <1>5, <1>6, <1>8
<1>10. Top.kind = "function" => Top.id \in OpenFuns
  BY <1>1 DEF OpenFuns, Functions, Top
<1>11. QED BY <1>3, <1>4, <1>7, <1>9, <1>10

(* What is below a construct stays, and all functions that stay open were   *)
(* below the last construct.                                                *)
LEMMA ClosedBelow ==
  ASSUME QuadsInv, OpenInv, Depth > 0, Close
  PROVE  /\ \A k \in 1 .. Depth' : Below(k)' = Below(k)
         /\ Below(Depth) = OpenFuns'
<1>1. /\ Depth \in Nat /\ Depth' = Depth - 1
      /\ \A k \in 1 .. Depth' : k \in 1 .. Depth /\ k < Depth /\ open'[k] = open[k]
      /\ \A k \in 1 .. Depth : k \in 1 .. Depth' \/ k = Depth
      /\ \A k \in 1 .. Depth : k <= Depth
  BY ClosedSets DEF OpenInv
<1>2. Functions' = Functions \ {Depth}
  BY ClosedIds
<1>3. Functions \subseteq 1 .. Depth /\ \A k \in Functions' : open'[k] = open[k]
  BY <1>1 DEF Functions
<1>4. ASSUME NEW k \in 1 .. Depth, NEW F, F = {i \in Functions' : i < k}
      PROVE  {open'[j].id : j \in F} = Below(k)
  <2>1. F = {i \in Functions : i < k}
    BY <1>1, <1>2, <1>4
  <2>2. \A j \in F : open'[j] = open[j]
    BY <1>3, <1>4
  <2>3. QED BY <2>1, <2>2 DEF Below
<1>5. ASSUME NEW k \in 1 .. Depth'
      PROVE  Below(k)' = Below(k)
  BY <1>1, <1>4 DEF Below
<1>6. Below(Depth) = OpenFuns'
  <2>1. Functions' = {i \in Functions' : i < Depth}
    BY <1>1, <1>2, <1>3
  <2>2. Depth \in 1 .. Depth
    BY <1>1
  <2>3. {open'[j].id : j \in Functions'} = Below(Depth)
    BY <1>4, <2>1, <2>2
  <2>4. QED BY <2>3 DEF OpenFuns
<1>7. QED BY <1>5, <1>6

-----------------------------------------------------------------------------
(* The parts of the invariant that most steps leave alone.                  *)

(* No function begins. *)
LEMMA FunsStay ==
  ASSUME NEW T, Grown(quads, quads', T),
         \A i \in DOMAIN quads' : i \in DOMAIN quads \/ quads'[i].op # "funcstart"
  PROVE  Funs' = Funs
BY DEF Funs, Grown

(* The constructs are nested still, with one more, one less, or the same.   *)
LEMMA OpenedNested ==
  ASSUME QuadsInv, OpenInv, NEW c, IsConstruct(c), open' = Append(open, c), c.id = Here,
         Here' \in Nat, After(c) <= Here', \A i \in DOMAIN quads : i \in Funs' <=> i \in Funs,
         c.kind = "function" <=> c.id \in Funs'
  PROVE  OpenInv'
<1>1. c \in Constructs /\ open \in Seq(Constructs)
  BY DEF IsConstruct, OpenInv
<1>2. /\ open' \in Seq(Constructs)
      /\ \A k \in 1 .. Depth : k \in 1 .. Depth' /\ open'[k] = open[k] /\ k < Depth + 1
      /\ \A k \in 1 .. Depth' : k \in 1 .. Depth \/ k = Depth + 1
      /\ open'[Depth + 1] = c /\ Depth \in Nat
  BY <1>1, OpenedSets
<1>3. \A k \in 1 .. Depth : /\ open[k].id \in DOMAIN quads /\ After(open[k]) \in Nat
                            /\ After(open[k]) <= Here
  BY IdsDistinct, HereFacts, ConstructFacts DEF OpenInv, QuadsInv
<1>4. Here \in Nat /\ Here < After(c) /\ After(c) \in Nat
  BY HereFacts, ConstructFacts DEF QuadsInv
<1>5. ASSUME NEW k \in 1 .. Depth'
      PROVE  /\ IsConstruct(open'[k]) /\ After(open'[k]) <= Here'
             /\ open'[k].kind = "function" <=> open'[k].id \in Funs'
  <2>1. CASE k = Depth + 1
    BY <1>2, <2>1
  <2>2. CASE k \in 1 .. Depth
    <3>1. After(open[k]) <= Here'
      BY <1>3, <1>4, <2>2
    <3>2. QED BY <1>2, <1>3, <2>2, <3>1 DEF OpenInv
  <2>3. QED BY <1>2, <2>1, <2>2
<1>6. ASSUME NEW j \in 1 .. Depth', NEW k \in 1 .. Depth', j < k
      PROVE  After(open'[j]) <= open'[k].id
  <2>1. j \in 1 .. Depth
    BY <1>2, <1>6
  <2>2. CASE k = Depth + 1
    BY <1>2, <1>3, <2>1, <2>2
  <2>3. CASE k \in 1 .. Depth
    BY <1>2, <1>6, <2>1, <2>3 DEF OpenInv
  <2>4. QED BY <1>2, <2>2, <2>3
<1>7. QED BY <1>2, <1>5, <1>6 DEF OpenInv

LEMMA ClosedNested ==
  ASSUME QuadsInv, OpenInv, Depth > 0, Close, Here' \in Nat, Here <= Here', Funs' = Funs
  PROVE  OpenInv'
<1>1. /\ open' \in Seq(Constructs)
      /\ \A k \in 1 .. Depth' : k \in 1 .. Depth /\ open'[k] = open[k]
  BY ClosedSets DEF OpenInv
<1>2. \A k \in 1 .. Depth : After(open[k]) <= Here'
  BY HereFacts, ConstructFacts DEF OpenInv, QuadsInv
<1>3. QED BY <1>1, <1>2 DEF OpenInv

LEMMA SameNested ==
  ASSUME QuadsInv, OpenInv, open' = open, Here' \in Nat, Here <= Here', Funs' = Funs
  PROVE  OpenInv'
<1>1. Depth' = Depth
  BY DEF Depth
<1>2. \A k \in 1 .. Depth : After(open[k]) <= Here'
  BY HereFacts, ConstructFacts DEF OpenInv, QuadsInv
<1>3. QED BY <1>1, <1>2 DEF OpenInv

(* No function begins or ends. *)
LEMMA FunsKept ==
  ASSUME FunsInv, Funs' = Funs, OpenFuns' = OpenFuns, Functions' = Functions,
         Here \in Nat, Here' \in Nat, Here <= Here', DOMAIN quads \subseteq DOMAIN quads',
         closed' = closed, DOMAIN closed \cap Ids' = {},
         UNCHANGED <<funcstart_quad, inside_function_depth>>
  PROVE  FunsInv'
<1>1. \A c \in DOMAIN closed : closed[c].exit <= Here' /\ closed[c].next <= Here'
  BY DEF FunsInv
<1>2. \A c \in DOMAIN closed : c \in Funs => closed[c].exit < Here'
  BY DEF FunsInv
<1>3. funcstart_quad <= Here'
  BY DEF FunsInv
<1>4. QED BY <1>1, <1>2, <1>3 DEF FunsInv

LEMMA FramesKept ==
  ASSUME FramesInv, Funs' = Funs, OpenFuns' = OpenFuns,
         \A f \in Funs : f \in DOMAIN closed' <=> f \in DOMAIN closed,
         \A f \in Funs : quads'[f].locals = quads[f].locals,
         UNCHANGED <<local_offset, locals, hosts, funcstart_quad>>
  PROVE  FramesInv'
BY DEF FramesInv

(* The quads that are yet to come are part of all functions that are open.  *)
LEMMA AroundHere ==
  ASSUME QuadsInv, FunsInv, NEW p \in Nat, p >= Here
  PROVE  Around(Funs, closed, p) = OpenFuns
<1>1. \A f \in Funs : f \in Nat /\ f < p
  BY HereFacts DEF Funs, QuadsInv
<1>2. \A f \in Funs : f \in DOMAIN closed => ~(p <= closed[f].exit)
  BY HereFacts DEF FunsInv, QuadsInv
<1>3. QED BY <1>1, <1>2 DEF Around, FunsInv

(* The current loops. *)
LEMMA CurrentOpened ==
  ASSUME QuadsInv, OpenInv, NEW c \in Constructs, open' = Append(open, c), Funs' = Funs,
         c.id = Here
  PROVE  /\ c.kind \notin {"while", "for"} => Current' = Current
         /\ c.kind \in {"while", "for"} => Current' = Current \cup {Depth + 1}
<1>1. /\ \A k \in 1 .. Depth : open'[k] = open[k]
      /\ open'[Depth + 1] = c
  BY OpenedSets DEF OpenInv
<1>2. Loops \subseteq 1 .. Depth
  BY DEF Loops
<1>3. \A f \in Funs : f < Here
  BY HereFacts DEF Funs, QuadsInv
<1>4. Current' = {k \in Loops' : \A f \in Funs : f < open'[k].id}
  BY DEF Current
<1>5. \A k \in Loops : open'[k] = open[k]
  BY <1>1, <1>2
<1>6. c.kind \notin {"while", "for"} => Current' = Current
  <2>1. c.kind \notin {"while", "for"} => Loops' = Loops
    BY OpenedIds DEF OpenInv
  <2>2. QED BY <1>4, <1>5, <2>1 DEF Current
<1>7. c.kind \in {"while", "for"} => Current' = Current \cup {Depth + 1}
  <2>1. c.kind \in {"while", "for"} => Loops' = Loops \cup {Depth + 1}
    BY OpenedIds DEF OpenInv
  <2>2. \A f \in Funs : f < open'[Depth + 1].id
    BY <1>1, <1>3
  <2>3. QED BY <1>4, <1>5, <2>1, <2>2 DEF Current
<1>8. QED BY <1>6, <1>7

LEMMA CurrentClosed ==
  ASSUME QuadsInv, OpenInv, Depth > 0, Close, Funs' = Funs
  PROVE  Current' = Current \ {Depth}
<1>1. \A k \in 1 .. Depth : k # Depth => open'[k] = open[k]
  BY ClosedSets DEF OpenInv
<1>2. Loops \subseteq 1 .. Depth /\ Loops' = Loops \ {Depth}
  BY ClosedIds DEF Loops
<1>3. Current' = {k \in Loops' : \A f \in Funs : f < open'[k].id}
  BY DEF Current
<1>4. \A k \in Loops' : open'[k] = open[k]
  BY <1>1, <1>2
<1>5. QED BY <1>2, <1>3, <1>4 DEF Current

(* The innermost function. *)
LEMMA InnermostFunction ==
  ASSUME OpenInv, Functions # {}
  PROVE  Function \in Functions /\ \A j \in Functions : j <= Function
<1>1. Functions \subseteq 1 .. Depth /\ Depth \in Nat
  BY DEF Functions, OpenInv, Depth
<1>2. \E i \in Functions : \A j \in Functions : j <= i
  BY <1>1, GreatestExists
<1>3. QED BY <1>2 DEF Function

LEMMA InnermostLoopIs ==
  ASSUME OpenInv, Loops # {}
  PROVE  InnermostLoop \in Loops /\ \A j \in Loops : j <= InnermostLoop
<1>1. Loops \subseteq 1 .. Depth /\ Depth \in Nat
  BY DEF Loops, OpenInv, Depth
<1>2. \E i \in Loops : \A j \in Loops : j <= i
  BY <1>1, GreatestExists
<1>3. QED BY <1>2 DEF InnermostLoop

(* The last construct is a current loop if any is.                          *)
LEMMA TopIsCurrent ==
  ASSUME QuadsInv, OpenInv, Current # {}, Top.kind \in {"while", "for", "function"}
  PROVE  Depth \in Current
<1>1. PICK k \in Current : k \in 1 .. Depth /\ \A f \in Funs : f < open[k].id
  BY DEF Current, Loops
<1>2. Depth \in 1 .. Depth /\ k <= Depth
  BY <1>1 DEF Depth
<1>3. open[k].id <= open[Depth].id
  BY <1>1, <1>2, IdsDistinct
<1>4. \A f \in Funs : f \in Nat
  BY HereFacts DEF Funs, QuadsInv
<1>5. open[k].id \in Nat /\ open[Depth].id \in Nat
  BY <1>1, <1>2, IdsDistinct
<1>6. \A f \in Funs : f < open[Depth].id
  BY <1>1, <1>3, <1>4, <1>5
<1>7. Top.kind # "function"
  BY <1>2, <1>5, <1>6 DEF OpenInv, Top
<1>8. QED BY <1>2, <1>6, <1>7 DEF Current, Loops, Top

(* A number that is no construct yet has no exits.                          *)
LEMMA HereIsNew ==
  ASSUME QuadsInv, OpenInv, FunsInv
  PROVE  Here \notin Ids /\ Here \notin DOMAIN closed /\ Here \notin Funs
<1>1. \A k \in 1 .. Depth : open[k].id < Here /\ open[k].id \in Nat
  BY IdsDistinct
<1>2. \A i \in DOMAIN quads : i < Here /\ i \in Nat
  BY HereFacts DEF QuadsInv
<1>3. Here \in Nat
  BY HereFacts DEF QuadsInv
<1>4. QED BY <1>1, <1>2, <1>3 DEF Ids, FunsInv, Funs

LEMMA LiveOpened ==
  ASSUME QuadsInv, OpenInv, FunsInv, ExitsInv, UNCHANGED <<exits, cut>>, Ids' = Ids \cup {Here}
  PROVE  Live' = Live
<1>1. Here \notin Ids /\ Here \notin DOMAIN closed
  BY HereIsNew
<1>2. \A e \in exits : e.owner \in DOMAIN closed \cup Ids
  BY DEF ExitsInv
<1>3. \A e \in exits : e.owner \in Ids' <=> e.owner \in Ids
  BY <1>1, <1>2
<1>4. Live' = {e \in exits : e.quad \notin cut /\ e.owner \in Ids'}
  BY DEF Live
<1>5. QED BY <1>3, <1>4 DEF Live

(* The end of a branch is waited for by no exit.                            *)
LEMMA LiveClosed ==
  ASSUME QuadsInv, OpenInv, ExitsInv, UNCHANGED <<exits, cut>>,
         Depth > 0, Close, Top.kind \in {"if", "else"}
  PROVE  Live' = Live
<1>1. Ids' = Ids \ {Top.id}
  BY ClosedIds
<1>2. Depth \in 1 .. Depth
  BY ClosedSets DEF OpenInv
<1>4. ASSUME NEW e \in exits
      PROVE  e.owner # Top.id
  BY <1>2 DEF ExitsInv, Top
<1>5. Live' = {e \in exits : e.quad \notin cut /\ e.owner \in Ids'}
  BY DEF Live
<1>6. QED BY <1>1, <1>4, <1>5 DEF Live

(* The lists of the loops are those they were. *)
LEMMA LoopsKept ==
  ASSUME LoopsInv, loops' = loops, Current' = Current, Live' = Live,
         \A k \in Current : open'[k].id = open[k].id,
         Depth' \in Nat, Current \subseteq 1 .. Depth',
         \A e \in Live : e.quad \in DOMAIN quads' /\ quads'[e.quad].label = quads[e.quad].label
  PROVE  LoopsInv'
<1>1. PICK at \in [1 .. Len(loops) -> 1 .. Depth] : LoopsAt(at)
  BY DEF LoopsInv
<1>2. \A i \in 1 .. Len(loops) : at[i] \in Current /\ open'[at[i]].id = open[at[i]].id
  BY <1>1 DEF LoopsAt
<1>3. ASSUME NEW kind, NEW owner, NEW l, Listed(quads, l, ExitsOf(Live, kind, owner))
      PROVE  Listed(quads', l, ExitsOf(Live', kind, owner))
  <2>1. \A i \in ExitsOf(Live, kind, owner) : i \in DOMAIN quads' /\ quads'[i].label = quads[i].label
    BY DEF ExitsOf
  <2>2. QED BY <1>3, <2>1, ListedStays
<1>4. ASSUME NEW i \in 1 .. Len(loops)
      PROVE  /\ Listed(quads', loops'[i].breaklist, ExitsOf(Live', "break", open'[at[i]].id))
             /\ Listed(quads', loops'[i].contlist, ExitsOf(Live', "continue", open'[at[i]].id))
  <2>1. PICK owner : owner = open[at[i]].id /\ owner = open'[at[i]].id
    BY <1>2
  <2>2. /\ Listed(quads, loops[i].breaklist, ExitsOf(Live, "break", owner))
        /\ Listed(quads, loops[i].contlist, ExitsOf(Live, "continue", owner))
    BY <1>1, <2>1 DEF LoopsAt
  <2>3. QED BY <1>3, <2>1, <2>2
<1>5. /\ \A i, j \in 1 .. Len(loops) : i < j => at[j] < at[i]
      /\ \A i \in 1 .. Len(loops) : at[i] \in Current
      /\ \A k \in Current : \E i \in 1 .. Len(loops) : at[i] = k
  BY <1>1 DEF LoopsAt
<1>6. LoopsAt(at)'
  BY <1>4, <1>5 DEF LoopsAt
<1>7. at \in [1 .. Len(loops') -> 1 .. Depth']
  BY <1>1, <1>2
<1>8. QED BY <1>6, <1>7 DEF LoopsInv

LEMMA ReturnsKept ==
  ASSUME ReturnsInv, returnlist' = returnlist, Live' = Live,
         \A e \in Live : e.quad \in DOMAIN quads' /\ quads'[e.quad].label = quads[e.quad].label
  PROVE  ReturnsInv'
<1>1. Returns' = Returns
  BY DEF Returns
<1>2. \A i \in Returns : i \in DOMAIN quads' /\ quads'[i].label = quads[i].label
  BY DEF Returns
<1>3. Listed(quads', returnlist, Returns)
  BY <1>2, ListedStays DEF ReturnsInv
<1>4. QED BY <1>1, <1>3 DEF ReturnsInv

(* No exit is added, and none arrives. *)
LEMMA ExitsKept ==
  ASSUME ExitsInv, NEW T, Grown(quads, quads', T), UNCHANGED <<exits, cut>>,
         Funs' = Funs, Functions' = Functions, Live' = Live, Current \subseteq Current',
         \A k \in Current \cup Functions : open'[k].id = open[k].id, OpenInv,
         \A e \in exits : e.owner \in DOMAIN closed' \cup Ids',
         \A k \in 1 .. Depth' : open'[k].kind \in {"if", "else"} =>
           \A e \in exits : e.owner # open'[k].id
  PROVE  ExitsInv'
<1>1. \A e \in exits : e.quad \in DOMAIN quads' /\ quads'[e.quad].op = "jump"
  BY DEF ExitsInv, Grown
<1>2. \A e \in Live : e.kind # "return" => \E k \in Current' : e.owner = open'[k].id
  BY DEF ExitsInv
<1>3. ASSUME NEW e \in Live, e.kind = "return"
      PROVE  Functions' # {} /\ e.owner = open'[Function'].id
  <2>1. Functions # {} /\ e.owner = open[Function].id
    BY <1>3 DEF ExitsInv
  <2>2. Function' = Function
    BY DEF Function
  <2>3. Function \in Functions
    BY <2>1, InnermostFunction
  <2>4. QED BY <2>1, <2>2, <2>3
<1>4. QED BY <1>1, <1>2, <1>3 DEF ExitsInv

(* An exit that has arrived waits for nothing. *)
LEMMA ArrivedWaitsNot ==
  ASSUME ExitsInv, ApartInv, FunsInv, NEW e \in exits, e.owner \in DOMAIN closed
  PROVE  ~Waits(e.quad)
<1>1. e.owner \notin Ids
  BY DEF FunsInv
<1>2. ASSUME NEW d \in Live, d.quad = e.quad
      PROVE  FALSE
  <2>1. d = e
    BY <1>2 DEF ExitsInv, Live
  <2>2. QED BY <1>1, <1>2, <2>1 DEF Live
<1>3. \A k \in 1 .. Depth : e.quad \notin Incomplete(open[k])
  BY DEF ApartInv
<1>4. QED BY <1>2, <1>3 DEF Waits

LEMMA ArriveKept ==
  ASSUME ExitsArrive, ExitsInv, ApartInv, FunsInv, UNCHANGED <<exits, cut, closed>>,
         \A i \in DOMAIN quads : ~Waits(i) => quads'[i].label = quads[i].label
  PROVE  ExitsArrive'
<1>1. ASSUME NEW e \in exits, e.quad \notin cut, e.owner \in DOMAIN closed
      PROVE  quads'[e.quad].label = IF e.kind = "continue" THEN closed[e.owner].next
                                    ELSE closed[e.owner].exit
  <2>1. quads[e.quad].label = IF e.kind = "continue" THEN closed[e.owner].next
                              ELSE closed[e.owner].exit
    BY <1>1 DEF ExitsArrive, Arrives, Due
  <2>2. ~Waits(e.quad) /\ e.quad \in DOMAIN quads
    BY <1>1, ArrivedWaitsNot DEF ExitsInv
  <2>3. QED BY <2>1, <2>2
<1>2. QED BY <1>1 DEF ExitsArrive, Arrives, Due

(* Jumps that were complete stay in their function; jumps that are new or   *)
(* are completed now have to.                                               *)
LEMMA JumpsKept ==
  ASSUME QuadsInv, JumpsInv, NEW T, Grown(quads, quads', T),
         \A p \in Nat : p <= Here => Around(Funs', closed', p) = Around(Funs, closed, p),
         \A i \in DOMAIN quads : i \notin cut' /\ ~Waits(i)' /\ i \notin T => i \notin cut /\ ~Waits(i),
         \A i \in T : Waits(i)' \/ Around(Funs', closed', quads'[i].label) = Around(Funs', closed', i),
         \A i \in DOMAIN quads' : quads'[i].op \in {"jump", "if"} =>
           i \in DOMAIN quads \/ Waits(i)' \/ Around(Funs', closed', quads'[i].label) = Around(Funs', closed', i)
  PROVE  JumpsInv'
<1>1. ASSUME NEW i \in DOMAIN quads', quads'[i].op \in {"jump", "if"}, i \notin cut', ~Waits(i)'
      PROVE  Around(Funs', closed', quads'[i].label) = Around(Funs', closed', i)
  <2>1. CASE i \in DOMAIN quads /\ i \notin T
    <3>1. i \in Nat /\ i <= Here /\ quads[i].label \in Nat /\ quads[i].label <= Here
      BY <2>1, HereFacts DEF QuadsInv, Numbered, IsQuad
    <3>2. quads'[i].label = quads[i].label /\ quads'[i].op = quads[i].op
      BY <2>1 DEF Grown
    <3>3. Around(Funs, closed, quads[i].label) = Around(Funs, closed, i)
      BY <1>1, <2>1, <3>2 DEF JumpsInv
    <3>4. QED BY <3>1, <3>2, <3>3
  <2>2. CASE i \in T
    BY <1>1, <2>2
  <2>3. CASE i \notin DOMAIN quads
    BY <1>1, <2>3
  <2>4. QED BY <2>1, <2>2, <2>3
<1>2. QED BY <1>1 DEF JumpsInv

(* A loop in front of others. *)
LEMMA PushFacts ==
  ASSUME NEW S, NEW s \in Seq(S), NEW x \in S, NEW t, t = <<x>> \o s
  PROVE  /\ t \in Seq(S) /\ Len(t) = Len(s) + 1 /\ t[1] = x /\ Len(s) \in Nat
         /\ \A i \in 1 .. Len(t) : i = 1 \/ (i - 1 \in 1 .. Len(s) /\ t[i] = s[i - 1])
         /\ \A i \in 1 .. Len(s) : i + 1 \in 1 .. Len(t) /\ (i + 1) - 1 = i /\ i + 1 # 1
<1>1. <<x>> \in Seq(S) /\ Len(<<x>>) = 1 /\ <<x>>[1] = x
  OBVIOUS
<1>02. PICK u : u = <<x>>
  OBVIOUS
<1>2. PICK n \in Nat : n = Len(s)
  OBVIOUS
<1>3. u \in Seq(S) /\ Len(u) = 1 /\ u[1] = x /\ t = u \o s
  BY <1>1, <1>02
<1>4. t \in Seq(S) /\ Len(t) = n + 1
  BY <1>2, <1>3
<1>5. \A i \in 1 .. n + 1 : t[i] = IF i <= 1 THEN u[i] ELSE s[i - 1]
  BY <1>2, <1>3
<1>6. /\ \A i \in 1 .. n + 1 : i = 1 \/ (i - 1 \in 1 .. n /\ ~(i <= 1))
      /\ 1 \in 1 .. n + 1
      /\ \A i \in 1 .. n : i + 1 \in 1 .. n + 1 /\ (i + 1) - 1 = i /\ i + 1 # 1
  BY <1>2
<1>7. t[1] = x
  BY <1>3, <1>5, <1>6
<1>8. QED BY <1>2, <1>4, <1>5, <1>6, <1>7

(* A new loop is the current one. *)
LEMMA LoopPushed ==
  ASSUME QuadsInv, OpenInv, LoopsInv, NEW c \in Constructs, open' = Append(open, c),
         loops' = <<Loop>> \o loops, Current' = Current \cup {Depth + 1}, Live' = Live,
         \A e \in Live : e.owner # c.id,
         \A e \in Live : e.quad \in DOMAIN quads' /\ quads'[e.quad].label = quads[e.quad].label
  PROVE  LoopsInv'
<1>1. PICK at \in [1 .. Len(loops) -> 1 .. Depth] : LoopsAt(at)
  BY DEF LoopsInv
<1>2. loops \in Seq([breaklist : Nat, contlist : Nat]) /\ Loop \in [breaklist : Nat, contlist : Nat]
      /\ Loop.breaklist = 0 /\ Loop.contlist = 0
  BY DEF LoopsInv, Loop
<1>3. /\ loops' \in Seq([breaklist : Nat, contlist : Nat]) /\ Len(loops') = Len(loops) + 1
      /\ loops'[1] = Loop /\ Len(loops) \in Nat
      /\ \A i \in 1 .. Len(loops') : i = 1 \/ (i - 1 \in 1 .. Len(loops) /\ loops'[i] = loops[i - 1])
      /\ \A i \in 1 .. Len(loops) : i + 1 \in 1 .. Len(loops') /\ (i + 1) - 1 = i /\ i + 1 # 1
  BY <1>2, PushFacts
<1>4. /\ Depth \in Nat
      /\ \A k \in 1 .. Depth : k \in 1 .. Depth' /\ open'[k] = open[k] /\ k < Depth + 1
      /\ Depth + 1 \in 1 .. Depth' /\ open'[Depth + 1] = c
  BY OpenedSets DEF OpenInv
<1>5. PICK m \in [1 .. Len(loops') -> 1 .. Depth'] :
        /\ m[1] = Depth + 1
        /\ \A i \in 1 .. Len(loops') : i # 1 => m[i] = at[i - 1]
  <2>1. PICK n \in Nat, d \in Nat : n = Len(loops) /\ d = Depth /\ n + 1 = Len(loops') /\ d + 1 = Depth'
    BY <1>3, <1>4, OpenedSets DEF OpenInv
  <2>2. at \in [1 .. n -> 1 .. d]
    BY <1>1, <2>1
  <2> DEFINE f == [i \in 1 .. n + 1 |-> IF i = 1 THEN d + 1 ELSE at[i - 1]]
  <2>3. /\ \A i \in 1 .. n + 1 : i = 1 \/ i - 1 \in 1 .. n
        /\ \A k \in 1 .. d : k \in 1 .. d + 1
        /\ 1 \in 1 .. n + 1 /\ d + 1 \in 1 .. d + 1
    BY <2>1
  <2>4. f \in [1 .. n + 1 -> 1 .. d + 1]
    BY <2>2, <2>3
  <2>5. f[1] = d + 1 /\ \A i \in 1 .. n + 1 : i # 1 => f[i] = at[i - 1]
    BY <2>3
  <2> HIDE DEF f
  <2>6. f \in [1 .. Len(loops') -> 1 .. Depth']
    BY <2>1, <2>4
  <2>7. f[1] = Depth + 1 /\ \A i \in 1 .. Len(loops') : i # 1 => f[i] = at[i - 1]
    BY <2>1, <2>5
  <2>8. QED BY <2>6, <2>7
<1>6. \A i \in 1 .. Len(loops') : i # 1 => i - 1 \in 1 .. Len(loops) /\ at[i - 1] \in 1 .. Depth
  BY <1>1, <1>3
<1>7. ASSUME NEW i \in 1 .. Len(loops'), NEW j \in 1 .. Len(loops'), i < j
      PROVE  m[j] < m[i]
  <2>1. j # 1 /\ m[j] = at[j - 1] /\ j - 1 \in 1 .. Len(loops)
    <3>1. i \in Nat /\ j \in Nat /\ 1 <= i
      BY <1>3
    <3>2. j # 1
      BY <1>7, <3>1
    <3>3. QED BY <1>5, <1>6, <3>2
  <2>2. CASE i = 1
    <3>1. at[j - 1] < Depth + 1
      BY <1>4, <1>6, <2>1
    <3>2. QED BY <1>5, <2>1, <2>2, <3>1
  <2>3. CASE i # 1
    <3>1. m[i] = at[i - 1] /\ i - 1 \in 1 .. Len(loops) /\ i - 1 < j - 1
      BY <1>3, <1>5, <1>6, <1>7, <2>3
    <3>2. QED BY <1>1, <2>1, <3>1 DEF LoopsAt
  <2>4. QED BY <2>2, <2>3
<1>8. \A i \in 1 .. Len(loops') : m[i] \in Current'
  <2>1. \A i \in 1 .. Len(loops) : at[i] \in Current
    BY <1>1 DEF LoopsAt
  <2>2. QED BY <1>3, <1>5, <2>1
<1>9. ASSUME NEW k \in Current'
      PROVE  \E i \in 1 .. Len(loops') : m[i] = k
  <2>1. CASE k = Depth + 1
    <3>1. 1 \in 1 .. Len(loops')
      BY <1>3
    <3>2. QED BY <1>5, <2>1, <3>1
  <2>2. CASE k \in Current
    <3>1. PICK i \in 1 .. Len(loops) : at[i] = k
      BY <1>1, <2>2 DEF LoopsAt
    <3>2. PICK j \in 1 .. Len(loops') : j # 1 /\ j - 1 = i
      BY <1>3
    <3>3. m[j] = k
      BY <1>5, <3>1, <3>2
    <3>4. QED BY <3>3
  <2>3. QED BY <2>1, <2>2
<1>10. ASSUME NEW kind, NEW owner, NEW l, Listed(quads, l, ExitsOf(Live, kind, owner))
       PROVE  Listed(quads', l, ExitsOf(Live', kind, owner))
  <2>1. \A i \in ExitsOf(Live, kind, owner) : i \in DOMAIN quads' /\ quads'[i].label = quads[i].label
    BY DEF ExitsOf
  <2>2. QED BY <1>10, <2>1, ListedStays
<1>11. ASSUME NEW i \in 1 .. Len(loops')
       PROVE  /\ Listed(quads', loops'[i].breaklist, ExitsOf(Live', "break", open'[m[i]].id))
              /\ Listed(quads', loops'[i].contlist, ExitsOf(Live', "continue", open'[m[i]].id))
  <2>1. CASE i = 1
    <3>1. open'[m[i]].id = c.id /\ loops'[i] = Loop
      BY <1>3, <1>4, <1>5, <2>1
    <3>2. ExitsOf(Live', "break", c.id) = {} /\ ExitsOf(Live', "continue", c.id) = {}
      BY DEF ExitsOf
    <3>3. Listed(quads', 0, {})
      BY DEF Listed
    <3>4. QED BY <1>2, <3>1, <3>2, <3>3
  <2>2. CASE i # 1
    <3>1. PICK j \in 1 .. Len(loops) : j = i - 1 /\ loops'[i] = loops[j] /\ m[i] = at[j]
      BY <1>3, <1>5, <2>2
    <3>2. PICK owner : owner = open[at[j]].id /\ owner = open'[at[j]].id
      BY <1>1, <1>4
    <3>3. /\ Listed(quads, loops[j].breaklist, ExitsOf(Live, "break", owner))
          /\ Listed(quads, loops[j].contlist, ExitsOf(Live, "continue", owner))
      BY <1>1, <3>2 DEF LoopsAt
    <3>4. QED BY <1>10, <3>1, <3>2, <3>3
  <2>3. QED BY <2>1, <2>2
<1>12. LoopsAt(m)'
  BY <1>7, <1>8, <1>9, <1>11 DEF LoopsAt
<1>13. QED BY <1>3, <1>5, <1>12 DEF LoopsInv

-----------------------------------------------------------------------------
(* Steps that open a loop or a branch. *)

(* No exit is added, no label changes: the lists stay. *)
LEMMA LiveLabels ==
  ASSUME ExitsInv, NEW T, Grown(quads, quads', T), \A e \in Live : e.quad \notin T
  PROVE  \A e \in Live : e.quad \in DOMAIN quads' /\ quads'[e.quad].label = quads[e.quad].label
BY DEF ExitsInv, Live, Grown

LEMMA OpensKeeps ==
  ASSUME StatementsInv, NEW c, IsConstruct(c), c.kind \in {"while", "for", "if"}, c.id = Here,
         open' = Append(open, c), After(c) = Here', Grown(quads, quads', {}),
         \A i \in DOMAIN quads' : \/ i \in DOMAIN quads
                                 \/ /\ Here <= i /\ quads'[i].op # "funcstart"
                                    /\ quads'[i].label <= Here'
                                    /\ i \in Incomplete(c) \/ quads'[i].label >= Here,
         c.kind = "if" => quads'[c.list].label = 0,
         loops' = IF c.kind = "if" THEN loops ELSE <<Loop>> \o loops,
         mode = "parse",
         UNCHANGED <<returnlist, funcstart_quad, local_offset, inside_function_depth, mode,
                     exits, closed, cut, hosts, locals>>
  PROVE  StatementsInv'
<1> USE DEF StatementsInv
<1>1. /\ Here \in Nat /\ Here' \in Nat /\ Here < Here' /\ Numbered(quads')
      /\ \A i \in DOMAIN quads : i \in DOMAIN quads' /\ i \in Nat /\ i < Here
      /\ \A i \in DOMAIN quads' : i \in Nat /\ i < Here'
  <2>1. Numbered(quads) /\ Numbered(quads')
    BY DEF QuadsInv, Grown
  <2>2. Here' \in Nat /\ \A i \in DOMAIN quads' : i \in Nat /\ i < Here'
    BY <2>1 DEF Numbered, Here
  <2>3. Here < Here'
    BY ConstructFacts
  <2>4. QED BY <2>1, <2>2, <2>3, HereFacts DEF Grown
<1>2. Funs' = Funs
  BY FunsStay
<1>3. QuadsInv'
  <2>1. ASSUME NEW i \in DOMAIN quads'
        PROVE  quads'[i].label <= Here'
    <3>1. CASE i \in DOMAIN quads
      <4>1. quads'[i].label = quads[i].label /\ quads[i].label <= Here /\ quads[i].label \in Nat
        BY <3>1 DEF Grown, QuadsInv, Numbered, IsQuad
      <4>2. QED BY <1>1, <4>1
    <3>2. QED BY <3>1
  <2>2. QED BY <1>1, <2>1 DEF QuadsInv
<1>4. Here \notin Ids /\ Here \notin DOMAIN closed /\ Here \notin Funs
  BY HereIsNew
<1>5. OpenInv'
  BY <1>1, <1>2, <1>4, OpenedNested
<1>6. /\ c \in Constructs /\ open \in Seq(Constructs)
      /\ Ids' = Ids \cup {Here} /\ Functions' = Functions /\ OpenFuns' = OpenFuns
      /\ \A k \in 1 .. Depth : k \in 1 .. Depth' /\ open'[k] = open[k]
      /\ \A k \in 1 .. Depth' : k \in 1 .. Depth \/ k = Depth + 1
      /\ Depth + 1 \in 1 .. Depth' /\ open'[Depth + 1] = c
  BY OpenedIds, OpenedSets DEF OpenInv, IsConstruct
<1>7. FunsInv'
  <2>1. DOMAIN closed \cap Ids' = {}
    BY <1>4, <1>6 DEF FunsInv
  <2>2. DOMAIN quads \subseteq DOMAIN quads'
    BY <1>1
  <2>3. QED BY <1>1, <1>2, <1>6, <2>1, <2>2, FunsKept
<1>8. FramesInv'
  <2>1. \A f \in Funs : quads'[f].locals = quads[f].locals
    BY DEF Grown, Funs
  <2>2. QED BY <1>2, <1>6, <2>1, FramesKept
<1>9. Live' = Live
  BY <1>6, LiveOpened
<1>10. \A e \in Live : e.quad \in DOMAIN quads' /\ quads'[e.quad].label = quads[e.quad].label
  BY LiveLabels
<1>11. /\ c.kind = "if" => Current' = Current
       /\ c.kind # "if" => Current' = Current \cup {Depth + 1}
  BY <1>2, <1>6, CurrentOpened
<1>12. \A k \in Current \cup Functions : k \in 1 .. Depth' /\ open'[k].id = open[k].id
  BY <1>6 DEF Current, Loops, Functions
<1>13. \A e \in exits : e.owner \in DOMAIN closed \cup Ids /\ e.owner # Here
  BY <1>4 DEF ExitsInv
<1>14. LoopsInv'
  <2>1. CASE c.kind = "if"
    <3>1. Depth' \in Nat
      BY <1>6, OpenedSets
    <3>2. Current \subseteq 1 .. Depth'
      BY <1>12
    <3>3. loops' = loops /\ Current' = Current
      BY <1>11, <2>1
    <3>4. QED BY <1>9, <1>10, <1>12, <3>1, <3>2, <3>3, LoopsKept
  <2>2. CASE c.kind # "if"
    <3>1. loops' = <<Loop>> \o loops /\ Current' = Current \cup {Depth + 1}
      BY <1>11, <2>2
    <3>2. \A e \in Live : e.owner # c.id
      BY <1>13 DEF Live
    <3>3. QED BY <1>6, <1>9, <1>10, <3>1, <3>2, LoopPushed
  <2>3. QED BY <2>1, <2>2
<1>15. ReturnsInv'
  BY <1>9, <1>10, ReturnsKept
<1>16. ExitsInv'
  <2>1. \A e \in exits : e.owner \in DOMAIN closed' \cup Ids'
    BY <1>6, <1>13
  <2>2. \A k \in 1 .. Depth' : open'[k].kind \in {"if", "else"} =>
          \A e \in exits : e.owner # open'[k].id
    <3>1. \A k \in 1 .. Depth : open[k].kind \in {"if", "else"} =>
            \A e \in exits : e.owner # open[k].id
      BY DEF ExitsInv
    <3>2. QED BY <1>6, <1>13, <3>1
  <2>3. Current \subseteq Current'
    BY <1>11
  <2>4. QED BY <1>2, <1>6, <1>9, <1>12, <2>1, <2>2, <2>3, ExitsKept
<1>17. ApartInv'
  <2>1. ASSUME NEW k \in 1 .. Depth', NEW i \in Incomplete(open'[k]), NEW e \in exits
        PROVE  e.quad # i
    <3>1. CASE k = Depth + 1
      <4>1. e.quad \in Nat /\ e.quad < Here
        BY <1>1 DEF ExitsInv
      <4>2. i \in Nat /\ Here <= i
        BY <1>6, <3>1, ConstructFacts
      <4>3. QED BY <1>1, <4>1, <4>2
    <3>2. CASE k \in 1 .. Depth
      BY <1>6, <3>2 DEF ApartInv
    <3>3. QED BY <1>6, <3>1, <3>2
  <2>2. ASSUME NEW k \in 1 .. Depth', open'[k].kind \in {"if", "else"}
        PROVE  quads'[open'[k].list].label = 0
    <3>1. CASE k = Depth + 1
      BY <1>6, <2>2, <3>1
    <3>2. CASE k \in 1 .. Depth
      <4>1. PICK b : b = open[k] /\ b = open'[k]
        BY <1>6, <3>2
      <4>2. IsConstruct(b) /\ After(b) <= Here /\ quads[b.list].label = 0
        BY <2>2, <3>2, <4>1 DEF OpenInv, ApartInv
      <4>3. b.list \in Incomplete(b)
        BY <2>2, <4>1 DEF Incomplete
      <4>4. b.list \in Nat /\ b.list < Here
        BY <1>1, <4>2, <4>3, ConstructFacts
      <4>5. b.list \in DOMAIN quads
        BY <4>4, HereFacts DEF QuadsInv
      <4>6. QED BY <4>1, <4>2, <4>5 DEF Grown
    <3>3. QED BY <1>6, <3>1, <3>2
  <2>3. QED BY <2>1, <2>2 DEF ApartInv
<1>18. NestInv'
  <2>1. ASSUME NEW k \in 1 .. Depth', NEW p \in Points(open'[k])
        PROVE  Around(Funs, closed, p) = Below(k)'
    <3>1. CASE k = Depth + 1
      <4>1. p \in Nat /\ Here <= p
        BY <1>6, <3>1, ConstructFacts
      <4>2. Below(k)' = OpenFuns
        BY <1>6, <3>1, OpenedBelow
      <4>3. QED BY <4>1, <4>2, AroundHere
    <3>2. CASE k \in 1 .. Depth
      <4>1. Below(k)' = Below(k)
        BY <1>6, <3>2, OpenedBelow
      <4>2. QED BY <1>6, <3>2, <4>1 DEF NestInv
    <3>3. QED BY <1>6, <3>1, <3>2
  <2>2. \A e \in Live : Around(Funs, closed, e.quad) = OpenFuns
    BY DEF NestInv
  <2>3. QED BY <1>2, <1>6, <1>9, <2>1, <2>2 DEF NestInv
<1>19. JumpsInv'
  <2>1. ASSUME NEW i, Waits(i)
        PROVE  Waits(i)'
    <3>1. (\E e \in Live : e.quad = i) \/ (\E k \in 1 .. Depth : i \in Incomplete(open[k]))
      BY <2>1 DEF Waits
    <3>2. (\E e \in Live : e.quad = i) \/ (\E k \in 1 .. Depth' : i \in Incomplete(open'[k]))
      BY <1>6, <3>1
    <3>3. QED BY <1>9, <3>2 DEF Waits
  <2>2. \A i \in Incomplete(c) : Waits(i)'
    BY <1>6 DEF Waits
  <2>3. ASSUME NEW i \in DOMAIN quads', i \notin DOMAIN quads
        PROVE  Waits(i)' \/ Around(Funs', closed', quads'[i].label) = Around(Funs', closed', i)
    <3>1. CASE i \in Incomplete(c)
      BY <2>2, <3>1
    <3>2. CASE quads'[i].label >= Here
      <4>1. quads'[i].label \in Nat /\ i \in Nat /\ i >= Here
        BY <1>1, <2>3 DEF Numbered, IsQuad
      <4>2. Around(Funs, closed, quads'[i].label) = OpenFuns /\ Around(Funs, closed, i) = OpenFuns
        BY <3>2, <4>1, AroundHere
      <4>3. QED BY <1>2, <4>2
    <3>3. QED BY <2>3, <3>1, <3>2
  <2>4. \A i \in DOMAIN quads : i \notin cut' /\ ~Waits(i)' /\ i \notin {} => i \notin cut /\ ~Waits(i)
    BY <2>1
  <2>5. QED BY <1>2, <2>3, <2>4, JumpsKept
<1>20. ExitsArrive'
  BY ArriveKept DEF Grown
<1>21. ModeInv'
  <2>1. CASE c.kind = "if"
    BY <2>1 DEF ModeInv
  <2>2. QED BY DEF ModeInv
<1>22. QED BY <1>3, <1>5, <1>7, <1>8, <1>14, <1>15, <1>16, <1>17, <1>18, <1>19, <1>20, <1>21

(* whilestmt: the test and the jump out of the loop are completed later.    *)
LEMMA WhileKeeps ==
  ASSUME StatementsInv, While
  PROVE  StatementsInv'
<1>1. PICK n : n = Here
  OBVIOUS
<1>2. PICK c : c = [kind |-> "while", id |-> n, test |-> n, next |-> n, body |-> n + 2]
  OBVIOUS
<1>3. PICK x : x = Quad("if", 0)
  OBVIOUS
<1>3a. IsQuad(x) /\ x.op = "if" /\ x.label = 0
  BY <1>3 DEF IsQuad, Ops, Quad
<1>03. PICK y : y = Goto(0)
  OBVIOUS
<1>03a. IsQuad(y) /\ y.op = "jump" /\ y.label = 0
  BY <1>03 DEF IsQuad, Ops, Quad, Goto
<1>4. PICK q : q = Emit(quads, x)
  OBVIOUS
<1>5. /\ mode = "parse" /\ quads' = Emit(q, y) /\ open' = Append(open, c)
      /\ loops' = <<Loop>> \o loops
      /\ UNCHANGED <<returnlist, funcstart_quad, local_offset, inside_function_depth, mode,
                     exits, closed, cut, hosts, locals>>
  BY <1>1, <1>2, <1>3, <1>3a, <1>03, <1>03a, <1>4 DEF While, Room, Here, PushLoop, Open, Functional, History
<1>6. Numbered(quads)
  BY DEF StatementsInv, QuadsInv
<1>7. /\ Numbered(q) /\ n \in Nat /\ NextQuad(q) = n + 1 /\ q[n] = x
      /\ \A i \in DOMAIN quads : i \in DOMAIN q
      /\ \A i \in DOMAIN q : i \in DOMAIN quads \/ i = n
      /\ Grown(quads, q, {}) /\ n \in DOMAIN q
  BY <1>1, <1>3, <1>3a, <1>03, <1>03a, <1>4, <1>6, EmitGrown DEF Here
<1>8. /\ NextQuad(quads') = n + 2 /\ quads'[n] = x /\ quads'[n + 1] = y
      /\ \A i \in DOMAIN quads' : i \in DOMAIN quads \/ i = n \/ i = n + 1
      /\ Grown(q, quads', {}) /\ NextQuad(quads') \in Nat
  BY <1>3, <1>3a, <1>03, <1>03a, <1>5, <1>7, EmitGrown
<1>9. Grown(quads, quads', {})
  <2>1. Grown(quads, quads', {} \cup {})
    BY <1>1, <1>7, <1>8, GrownTwice DEF Here
  <2>2. QED BY <2>1
<1>10. /\ c \in Constructs /\ IsConstruct(c) /\ c.kind = "while" /\ c.id = n /\ After(c) = n + 2
       /\ Incomplete(c) = {n, n + 1}
  BY <1>2, <1>7 DEF Constructs, IsConstruct, After, Incomplete
<1>11. Here' = n + 2
  BY <1>8 DEF Here
<1>12. \A i \in DOMAIN quads' : \/ i \in DOMAIN quads
                                \/ /\ Here <= i /\ quads'[i].op # "funcstart"
                                   /\ quads'[i].label <= Here'
                                   /\ i \in Incomplete(c) \/ quads'[i].label >= Here
  BY <1>1, <1>3, <1>3a, <1>03, <1>03a, <1>7, <1>8, <1>10, <1>11
<1>13. QED BY <1>1, <1>5, <1>9, <1>10, <1>11, <1>12, OpensKeeps

(* forstmt: the elist behind the test ends with a jump to it.               *)
LEMMA ForKeeps ==
  ASSUME StatementsInv, For
  PROVE  StatementsInv'
<1>1. PICK n \in Nat : n = Here
  BY HereFacts DEF StatementsInv, QuadsInv
<1>2. PICK c : c = [kind |-> "for", id |-> n, test |-> n, next |-> n + 2, body |-> n + 3]
  OBVIOUS
<1>3. PICK x : x = Quad("if", 0)
  OBVIOUS
<1>3a. IsQuad(x) /\ x.op = "if" /\ x.label = 0
  BY <1>3 DEF IsQuad, Ops, Quad
<1>03. PICK y : y = Goto(0)
  OBVIOUS
<1>03a. IsQuad(y) /\ y.op = "jump" /\ y.label = 0
  BY <1>03 DEF IsQuad, Ops, Quad, Goto
<1>04. PICK z : z = Goto(n)
  OBVIOUS
<1>04a. IsQuad(z) /\ z.op = "jump" /\ z.label = n
  BY <1>1, <1>04 DEF IsQuad, Ops, Quad, Goto
<1>4. PICK q, r : q = Emit(quads, x) /\ r = Emit(q, y)
  OBVIOUS
<1>5. /\ mode = "parse" /\ quads' = Emit(r, z) /\ open' = Append(open, c)
      /\ loops' = <<Loop>> \o loops
      /\ UNCHANGED <<returnlist, funcstart_quad, local_offset, inside_function_depth, mode,
                     exits, closed, cut, hosts, locals>>
  BY <1>1, <1>2, <1>3, <1>3a, <1>03, <1>03a, <1>04, <1>04a, <1>4 DEF For, Room, Here, PushLoop, Open, Functional, History
<1>6. Numbered(quads)
  BY DEF StatementsInv, QuadsInv
<1>7. /\ Numbered(q) /\ NextQuad(q) = n + 1 /\ q[n] = x
      /\ \A i \in DOMAIN q : i \in DOMAIN quads \/ i = n
      /\ Grown(quads, q, {}) /\ n \in DOMAIN q
  BY <1>1, <1>3, <1>3a, <1>03, <1>03a, <1>04, <1>04a, <1>4, <1>6, EmitGrown DEF Here
<1>8. /\ Numbered(r) /\ NextQuad(r) = n + 2 /\ r[n] = x /\ r[n + 1] = y
      /\ \A i \in DOMAIN r : i \in DOMAIN quads \/ i = n \/ i = n + 1
      /\ Grown(q, r, {}) /\ n \in DOMAIN r /\ n + 1 \in DOMAIN r
  BY <1>3, <1>3a, <1>03, <1>03a, <1>04, <1>04a, <1>4, <1>7, EmitGrown
<1>9. /\ NextQuad(quads') = n + 3 /\ quads'[n] = x /\ quads'[n + 1] = y /\ quads'[n + 2] = z
      /\ \A i \in DOMAIN quads' : i \in DOMAIN quads \/ i = n \/ i = n + 1 \/ i = n + 2
      /\ Grown(r, quads', {})
  BY <1>3, <1>3a, <1>03, <1>03a, <1>04, <1>04a, <1>5, <1>8, EmitGrown
<1>10. Grown(quads, quads', {})
  <2>1. /\ NextQuad(quads) \in Nat /\ NextQuad(q) \in Nat /\ NextQuad(r) \in Nat
        /\ NextQuad(quads') \in Nat
    BY <1>1, <1>7, <1>8, <1>9 DEF Here
  <2>2. Grown(quads, r, {} \cup {})
    BY <1>7, <1>8, <2>1, GrownTwice
  <2>3. Grown(quads, quads', ({} \cup {}) \cup {})
    BY <1>9, <2>1, <2>2, GrownTwice
  <2>4. QED BY <2>3
<1>11. /\ c \in Constructs /\ IsConstruct(c) /\ c.kind = "for" /\ c.id = n /\ After(c) = n + 3
       /\ Incomplete(c) = {n, n + 1}
  BY <1>1, <1>2 DEF Constructs, IsConstruct, After, Incomplete
<1>12. Here' = n + 3
  BY <1>9 DEF Here
<1>13. \A i \in DOMAIN quads' : \/ i \in DOMAIN quads
                                \/ /\ Here <= i /\ quads'[i].op # "funcstart"
                                   /\ quads'[i].label <= Here'
                                   /\ i \in Incomplete(c) \/ quads'[i].label >= Here
  BY <1>1, <1>3, <1>3a, <1>03, <1>03a, <1>04, <1>04a, <1>9, <1>11, <1>12
<1>14. QED BY <1>1, <1>5, <1>10, <1>11, <1>12, <1>13, OpensKeeps

(* ifprefix: the jump over the statement is a list of its own.              *)
LEMMA IfKeeps ==
  ASSUME StatementsInv, If
  PROVE  StatementsInv'
<1>1. PICK n \in Nat : n = Here
  BY HereFacts DEF StatementsInv, QuadsInv
<1>2. PICK c : c = [kind |-> "if", id |-> n, list |-> n + 1]
  OBVIOUS
<1>02. n + 2 \in Nat
  BY <1>1
<1>3. PICK x : x = Quad("if", n + 2)
  OBVIOUS
<1>3a. IsQuad(x) /\ x.op = "if" /\ x.label = n + 2
  BY <1>02, <1>3 DEF IsQuad, Ops, Quad
<1>03. PICK y : y = Goto(0)
  OBVIOUS
<1>03a. IsQuad(y) /\ y.op = "jump" /\ y.label = 0
  BY <1>03 DEF IsQuad, Ops, Quad, Goto
<1>4. PICK q : q = Emit(quads, x)
  OBVIOUS
<1>5. /\ mode = "parse" /\ quads' = Emit(q, y) /\ open' = Append(open, c) /\ loops' = loops
      /\ UNCHANGED <<returnlist, funcstart_quad, local_offset, inside_function_depth, mode,
                     exits, closed, cut, hosts, locals>>
  BY <1>1, <1>2, <1>3, <1>3a, <1>03, <1>03a, <1>4 DEF If, Room, Here, Open, Functional, History
<1>6. Numbered(quads)
  BY DEF StatementsInv, QuadsInv
<1>7. /\ Numbered(q) /\ NextQuad(q) = n + 1 /\ q[n] = x
      /\ \A i \in DOMAIN q : i \in DOMAIN quads \/ i = n
      /\ Grown(quads, q, {}) /\ n \in DOMAIN q
  BY <1>1, <1>3, <1>3a, <1>03, <1>03a, <1>4, <1>6, EmitGrown DEF Here
<1>8. /\ NextQuad(quads') = n + 2 /\ quads'[n] = x /\ quads'[n + 1] = y
      /\ \A i \in DOMAIN quads' : i \in DOMAIN quads \/ i = n \/ i = n + 1
      /\ Grown(q, quads', {}) /\ NextQuad(quads') \in Nat
  BY <1>3, <1>3a, <1>03, <1>03a, <1>5, <1>7, EmitGrown
<1>9. Grown(quads, quads', {})
  <2>1. Grown(quads, quads', {} \cup {})
    BY <1>1, <1>7, <1>8, GrownTwice DEF Here
  <2>2. QED BY <2>1
<1>10. /\ c \in Constructs /\ IsConstruct(c) /\ c.kind = "if" /\ c.id = n /\ After(c) = n + 2
       /\ Incomplete(c) = {n + 1} /\ c.list = n + 1
  BY <1>2 DEF Constructs, IsConstruct, After, Incomplete
<1>11. Here' = n + 2
  BY <1>8 DEF Here
<1>12. \A i \in DOMAIN quads' : \/ i \in DOMAIN quads
                                \/ /\ Here <= i /\ quads'[i].op # "funcstart"
                                   /\ quads'[i].label <= Here'
                                   /\ i \in Incomplete(c) \/ quads'[i].label >= Here
  BY <1>1, <1>3, <1>3a, <1>03, <1>03a, <1>8, <1>10, <1>11
<1>13. QED BY <1>1, <1>3, <1>3a, <1>03, <1>03a, <1>5, <1>8, <1>9, <1>10, <1>11, <1>12, OpensKeeps

-----------------------------------------------------------------------------
(* The end of a branch, and its second half. *)

LEMMA ClosesKeeps ==
  ASSUME StatementsInv, mode = "parse", Depth > 0, Top.kind \in {"if", "else"}, Close,
         Grown(quads, quads', Incomplete(Top)), Here' = Here,
         \A i \in Incomplete(Top) : /\ quads'[i].label <= Here
                                   /\ Around(Funs, closed, quads'[i].label) = OpenFuns,
         UNCHANGED <<loops, returnlist, funcstart_quad, local_offset, inside_function_depth,
                     mode, exits, closed, cut, hosts, locals>>
  PROVE  StatementsInv'
<1> USE DEF StatementsInv
<1>1. /\ Here \in Nat /\ Numbered(quads') /\ DOMAIN quads' = DOMAIN quads
      /\ \A i \in DOMAIN quads : i \in Nat /\ i < Here
  <2>1. Numbered(quads) /\ Numbered(quads')
    BY DEF QuadsInv, Grown
  <2>2. DOMAIN quads' = DOMAIN quads
    BY <2>1 DEF Numbered, Here
  <2>3. QED BY <2>1, <2>2, HereFacts
<1>2. Funs' = Funs
  BY <1>1, FunsStay
<1> DEFINE T == Incomplete(Top)
<1>3. QuadsInv'
  <2>1. ASSUME NEW i \in DOMAIN quads'
        PROVE  quads'[i].label <= Here'
    <3>1. CASE i \in T
      BY <3>1
    <3>2. CASE i \notin T
      BY <1>1, <3>2 DEF Grown, QuadsInv
    <3>3. QED BY <3>1, <3>2
  <2>2. QED BY <1>1, <2>1 DEF QuadsInv
<1>4. OpenInv'
  BY <1>1, <1>2, ClosedNested
<1>5. /\ Ids' = Ids \ {Top.id} /\ Functions' = Functions /\ OpenFuns' = OpenFuns
      /\ Loops' = Loops \ {Depth} /\ Depth' \in Nat /\ Depth' = Depth - 1
      /\ \A k \in 1 .. Depth' : k \in 1 .. Depth /\ k < Depth /\ open'[k] = open[k]
      /\ \A k \in 1 .. Depth : k \in 1 .. Depth' \/ k = Depth
      /\ Depth \in 1 .. Depth /\ Top = open[Depth]
  BY ClosedIds, ClosedSets DEF OpenInv, Top
<1>6. FunsInv'
  <2>1. DOMAIN closed \cap Ids' = {}
    BY <1>5 DEF FunsInv
  <2>2. QED BY <1>1, <1>2, <1>5, <2>1, FunsKept
<1>7. FramesInv'
  <2>1. \A f \in Funs : quads'[f].locals = quads[f].locals
    BY DEF Grown, Funs
  <2>2. QED BY <1>2, <1>5, <2>1, FramesKept
<1>8. Live' = Live
  BY LiveClosed
<1>9. \A e \in exits : e.quad \notin T /\ e.owner # Top.id
  BY <1>5 DEF ApartInv, ExitsInv
<1>10. \A e \in Live : e.quad \in DOMAIN quads' /\ quads'[e.quad].label = quads[e.quad].label
  <2>1. \A e \in Live : e.quad \notin T
    BY <1>9 DEF Live
  <2>2. QED BY <2>1, LiveLabels
<1>11. Current' = Current /\ Current \subseteq 1 .. Depth'
  <2>1. Depth \notin Loops
    BY <1>5 DEF Loops
  <2>2. QED BY <1>2, <1>5, <2>1, CurrentClosed DEF Current, Loops
<1>12. \A k \in Current \cup Functions : open'[k].id = open[k].id
  <2>1. Functions \subseteq 1 .. Depth'
    BY <1>5 DEF Functions
  <2>2. QED BY <1>5, <1>11, <2>1
<1>13. LoopsInv'
  BY <1>5, <1>8, <1>10, <1>11, <1>12, LoopsKept
<1>14. ReturnsInv'
  BY <1>8, <1>10, ReturnsKept
<1>15. ExitsInv'
  <2>1. \A e \in exits : e.owner \in DOMAIN closed' \cup Ids'
    BY <1>5, <1>9 DEF ExitsInv
  <2>2. \A k \in 1 .. Depth' : open'[k].kind \in {"if", "else"} =>
          \A e \in exits : e.owner # open'[k].id
    BY <1>5 DEF ExitsInv
  <2>3. Current \subseteq Current'
    BY <1>11
  <2>4. QED BY <1>2, <1>5, <1>8, <1>12, <2>1, <2>2, <2>3, ExitsKept
<1>16. ApartInv'
  <2>1. ASSUME NEW k \in 1 .. Depth', NEW i \in Incomplete(open'[k]), NEW e \in exits
        PROVE  e.quad # i
    BY <1>5 DEF ApartInv
  <2>2. ASSUME NEW k \in 1 .. Depth', open'[k].kind \in {"if", "else"}
        PROVE  quads'[open'[k].list].label = 0
    <3>1. PICK b : b = open[k] /\ b = open'[k]
      BY <1>5
    <3>2. /\ IsConstruct(b) /\ After(b) <= Here /\ quads[b.list].label = 0
          /\ After(b) <= Top.id
      BY <1>5, <2>2, <3>1 DEF OpenInv, ApartInv
    <3>3. b.list \in Incomplete(b)
      BY <2>2, <3>1 DEF Incomplete
    <3>4. b.list \in Nat /\ b.list < Here /\ b.list < Top.id /\ Top.id \in Nat
      <4>1. b.list \in Nat /\ b.list < After(b) /\ After(b) \in Nat
        BY <3>2, <3>3, ConstructFacts
      <4>2. Top.id \in Nat
        BY <1>5, ConstructFacts DEF OpenInv
      <4>3. QED BY <1>1, <3>2, <4>1, <4>2
    <3>5. b.list \in DOMAIN quads
      BY <3>4, HereFacts DEF QuadsInv
    <3>6. b.list \notin T
      <4>1. \A i \in T : i \in Nat /\ Top.id <= i
        BY <1>5, ConstructFacts DEF OpenInv
      <4>2. QED BY <3>4, <4>1
    <3>7. QED BY <3>1, <3>2, <3>5, <3>6 DEF Grown
  <2>3. QED BY <2>1, <2>2 DEF ApartInv
<1>17. NestInv'
  <2>1. ASSUME NEW k \in 1 .. Depth', NEW p \in Points(open'[k])
        PROVE  Around(Funs, closed, p) = Below(k)'
    <3>1. Below(k)' = Below(k)
      BY ClosedBelow
    <3>2. QED BY <1>5, <3>1 DEF NestInv
  <2>2. \A e \in Live : Around(Funs, closed, e.quad) = OpenFuns
    BY DEF NestInv
  <2>3. QED BY <1>2, <1>5, <1>8, <2>1, <2>2 DEF NestInv
<1>18. JumpsInv'
  <2>1. ASSUME NEW i \in T
        PROVE  Around(Funs', closed', quads'[i].label) = Around(Funs', closed', i)
    <3>1. i \in Points(Top)
      BY <1>5 DEF Incomplete, Points
    <3>2. Around(Funs, closed, i) = Below(Depth)
      BY <1>5, <3>1 DEF NestInv
    <3>3. Below(Depth) = OpenFuns
      BY <1>5, ClosedBelow
    <3>4. QED BY <1>2, <3>2, <3>3
  <2>2. ASSUME NEW i, i \notin T, Waits(i)
        PROVE  Waits(i)'
    <3>1. (\E e \in Live : e.quad = i) \/ (\E k \in 1 .. Depth : i \in Incomplete(open[k]))
      BY <2>2 DEF Waits
    <3>2. (\E e \in Live : e.quad = i) \/ (\E k \in 1 .. Depth' : i \in Incomplete(open'[k]))
      BY <1>5, <2>2, <3>1
    <3>3. QED BY <1>8, <3>2 DEF Waits
  <2>3. \A i \in DOMAIN quads : i \notin cut' /\ ~Waits(i)' /\ i \notin T => i \notin cut /\ ~Waits(i)
    BY <2>2
  <2> HIDE DEF T
  <2>4. Grown(quads, quads', T)
    BY DEF T
  <2>5. QED BY <1>1, <1>2, <2>1, <2>3, <2>4, JumpsKept
<1>19. ExitsArrive'
  <2>1. \A i \in T : Waits(i)
    BY <1>5 DEF Waits
  <2>2. QED BY <2>1, ArriveKept DEF Grown
<1>20. ModeInv'
  BY DEF ModeInv
<1>21. QED BY <1>3, <1>4, <1>6, <1>7, <1>13, <1>14, <1>15, <1>16, <1>17, <1>18, <1>19, <1>20

(* The jump over a branch is a list of its own. *)
LEMMA BranchList ==
  ASSUME StatementsInv, Depth > 0, Top.kind \in {"if", "else"}
  PROVE  /\ IsConstruct(Top) /\ Depth \in 1 .. Depth /\ Top = open[Depth] /\ Top.id \in Nat
         /\ After(Top) <= Here /\ Top.list = Top.id + 1 /\ Top.list \in DOMAIN quads
         /\ Listed(quads, Top.list, {Top.list}) /\ Numbered(quads) /\ Here \in Nat
<1>1. Depth \in 1 .. Depth /\ Top = open[Depth]
  BY DEF StatementsInv, OpenInv, Depth, Top
<1>2. IsConstruct(Top) /\ After(Top) <= Here /\ quads[Top.list].label = 0
  BY <1>1 DEF StatementsInv, OpenInv, ApartInv
<1>3. Top.list = Top.id + 1 /\ Top.id \in Nat
  BY <1>2, ConstructFacts DEF IsConstruct
<1>4. Top.list \in Nat /\ Top.list < After(Top) /\ After(Top) \in Nat
  BY <1>2, ConstructFacts DEF Incomplete
<1>5. Numbered(quads) /\ Here \in Nat
  BY HereFacts DEF StatementsInv, QuadsInv
<1>6. Top.list \in DOMAIN quads
  BY <1>2, <1>4, <1>5, HereFacts
<1>7. Listed(quads, Top.list, {Top.list})
  BY <1>2, <1>3, <1>6, ListOfOne
<1>8. QED BY <1>1, <1>2, <1>3, <1>5, <1>6, <1>7

(* ifstmt: the test jumps behind the statement. *)
LEMMA EndIfKeeps ==
  ASSUME StatementsInv, EndIf
  PROVE  StatementsInv'
<1>1. /\ mode = "parse" /\ Depth > 0 /\ Top.kind = "if" /\ Close
      /\ quads' = PatchList(quads, Top.list, Here)
      /\ UNCHANGED <<loops, returnlist, funcstart_quad, local_offset, inside_function_depth,
                     mode, exits, closed, cut, hosts, locals>>
  BY DEF EndIf, Here, Functional, History
<1>2. PICK l : l = Top.list /\ Listed(quads, l, {l}) /\ Numbered(quads) /\ Here \in Nat
  BY <1>1, BranchList
<1>3. /\ Grown(quads, quads', {l}) /\ NextQuad(quads') = NextQuad(quads)
      /\ \A i \in {l} : quads'[i].label = Here
  BY <1>1, <1>2, PatchFacts
<1>4. Incomplete(Top) = {l}
  BY <1>1, <1>2 DEF Incomplete
<1>5. Here' = Here
  BY <1>3 DEF Here
<1>6. Around(Funs, closed, Here) = OpenFuns
  BY <1>2, AroundHere DEF StatementsInv
<1>7. QED BY <1>1, <1>2, <1>3, <1>4, <1>5, <1>6, ClosesKeeps

(* The end of an if with an else: the test jumps to the second branch, the  *)
(* first one behind it.                                                     *)
LEMMA EndElseKeeps ==
  ASSUME StatementsInv, EndElse
  PROVE  StatementsInv'
<1>1. /\ mode = "parse" /\ Depth > 0 /\ Top.kind = "else" /\ Close
      /\ quads' = PatchLabel(PatchList(quads, Top.list, Top.jump + 1), Top.jump, Here)
      /\ UNCHANGED <<loops, returnlist, funcstart_quad, local_offset, inside_function_depth,
                     mode, exits, closed, cut, hosts, locals>>
  BY DEF EndElse, Here, Functional, History
<1>2. /\ IsConstruct(Top) /\ Depth \in 1 .. Depth /\ Top = open[Depth] /\ Top.id \in Nat
      /\ After(Top) <= Here /\ Top.list = Top.id + 1
  BY <1>1, BranchList
<1>3. PICK l : l = Top.list /\ Listed(quads, l, {l}) /\ Numbered(quads) /\ Here \in Nat
  BY <1>1, BranchList
<1>4. PICK j \in Nat : j = Top.jump /\ j + 1 <= Here /\ l < j
  BY <1>1, <1>2, <1>3 DEF IsConstruct, Constructs, After
<1>5. PICK q : q = PatchList(quads, l, j + 1)
  OBVIOUS
<1>6. quads' = Labelled(q, {j}, Here)
  BY <1>1, <1>3, <1>4, <1>5 DEF PatchLabel
<1>7. /\ Grown(quads, q, {l}) /\ NextQuad(q) = NextQuad(quads) /\ DOMAIN q = DOMAIN quads
      /\ \A i \in {l} : q[i].label = j + 1
  BY <1>3, <1>4, <1>5, PatchFacts
<1>8. Numbered(q)
  BY <1>7 DEF Grown
<1>9. /\ Numbered(quads') /\ NextQuad(quads') = NextQuad(q) /\ DOMAIN quads' = DOMAIN q
      /\ \A i \in DOMAIN q : quads'[i].op = q[i].op /\ quads'[i].locals = q[i].locals
      /\ \A i \in DOMAIN q : i \in {j} => quads'[i].label = Here
      /\ \A i \in DOMAIN q : i \notin {j} => quads'[i].label = q[i].label
  BY <1>3, <1>6, <1>8, LabelledFacts
<1>10. l \in DOMAIN q /\ j \in DOMAIN q /\ l # j
  <2>1. l \in DOMAIN quads /\ l \in Nat
    BY <1>3, HereFacts DEF Listed
  <2>2. j \in DOMAIN quads
    BY <1>3, <1>4, HereFacts
  <2>3. QED BY <1>4, <1>7, <2>1, <2>2
<1>11. quads'[l].label = j + 1 /\ quads'[j].label = Here
  BY <1>7, <1>9, <1>10
<1>12. Grown(quads, quads', {l, j})
  BY <1>7, <1>9 DEF Grown
<1>13. Incomplete(Top) = {l, j} /\ j + 1 \in Points(Top)
  BY <1>1, <1>3, <1>4 DEF Incomplete, Points
<1>14. Here' = Here
  BY <1>7, <1>9 DEF Here
<1>15. Around(Funs, closed, Here) = OpenFuns
  BY <1>3, AroundHere DEF StatementsInv
<1>16. Around(Funs, closed, j + 1) = OpenFuns
  <2>1. Around(Funs, closed, j + 1) = Below(Depth)
    BY <1>2, <1>13 DEF StatementsInv, NestInv
  <2>2. Below(Depth) = OpenFuns' /\ OpenFuns' = OpenFuns
    BY <1>1, ClosedBelow, ClosedIds DEF StatementsInv
  <2>3. QED BY <2>1, <2>2
<1>17. QED BY <1>1, <1>3, <1>4, <1>11, <1>12, <1>13, <1>14, <1>15, <1>16, ClosesKeeps

(* The last construct becomes another one. *)
LEMMA ReplacedSets ==
  ASSUME open \in Seq(Constructs), Depth > 0, NEW c \in Constructs,
         open' = [open EXCEPT ![Depth] = c], c.id = Top.id,
         c.kind \in {"if", "else"}, Top.kind \in {"if", "else"}
  PROVE  /\ open' \in Seq(Constructs) /\ Depth' = Depth /\ Depth \in Nat /\ Depth \in 1 .. Depth
         /\ \A k \in 1 .. Depth : k # Depth => open'[k] = open[k] /\ k < Depth
         /\ open'[Depth] = c /\ Top = open[Depth]
         /\ \A k \in 1 .. Depth : open'[k].id = open[k].id
         /\ Ids' = Ids /\ Functions' = Functions /\ Loops' = Loops /\ OpenFuns' = OpenFuns
         /\ \A k : Below(k)' = Below(k)
         /\ Below(Depth) = OpenFuns
<1>1. /\ open' \in Seq(Constructs) /\ Depth' = Depth /\ Depth \in Nat /\ Depth \in 1 .. Depth
      /\ \A k \in 1 .. Depth : k # Depth => open'[k] = open[k] /\ k < Depth
      /\ open'[Depth] = c /\ Top = open[Depth]
  BY DEF Depth, Top
<1>2. \A k \in 1 .. Depth : open'[k].id = open[k].id
  BY <1>1
<1>3. Ids' = Ids
  <2>1. Ids' = {open'[k].id : k \in 1 .. Depth}
    BY <1>1 DEF Ids
  <2>2. QED BY <1>2, <2>1 DEF Ids
<1>4. Functions' = Functions /\ Loops' = Loops
  <2>1. /\ Functions' = {k \in 1 .. Depth : open'[k].kind = "function"}
        /\ Loops' = {k \in 1 .. Depth : open'[k].kind \in {"while", "for"}}
    BY <1>1 DEF Functions, Loops
  <2>2. \A k \in 1 .. Depth : /\ open'[k].kind = "function" <=> open[k].kind = "function"
                              /\ open'[k].kind \in {"while", "for"} <=> open[k].kind \in {"while", "for"}
    BY <1>1
  <2>3. QED BY <2>1, <2>2 DEF Functions, Loops
<1>5. \A k \in Functions : open'[k].id = open[k].id
  BY <1>2 DEF Functions
<1>6. OpenFuns' = OpenFuns
  BY <1>4, <1>5 DEF OpenFuns
<1>7. ASSUME NEW k
      PROVE  Below(k)' = Below(k)
  <2>1. Below(k)' = {open'[j].id : j \in {i \in Functions : i < k}}
    BY <1>4 DEF Below
  <2>2. QED BY <1>5, <2>1 DEF Below
<1>8. Below(Depth) = OpenFuns
  <2>1. \A k \in Functions : k < Depth
    BY <1>1 DEF Functions
  <2>2. {i \in Functions : i < Depth} = Functions
    BY <2>1
  <2>3. QED BY <2>2 DEF Below, OpenFuns
<1>9. QED BY <1>1, <1>2, <1>3, <1>4, <1>6, <1>7, <1>8

(* elseprefix: the jump from the first branch is completed later.           *)
LEMMA ElseKeeps ==
  ASSUME StatementsInv, Else
  PROVE  StatementsInv'
<1> USE DEF StatementsInv
<1>1. PICK n \in Nat : n = Here
  BY HereFacts DEF QuadsInv
<1>2. PICK c : c = [kind |-> "else", id |-> Top.id, list |-> Top.list, jump |-> n]
  OBVIOUS
<1>3. PICK x : x = Goto(0)
  OBVIOUS
<1>3a. IsQuad(x) /\ x.op = "jump" /\ x.label = 0
  BY <1>3 DEF IsQuad, Ops, Quad, Goto
<1>4. /\ mode = "parse" /\ Depth > 0 /\ Top.kind = "if" /\ quads' = Emit(quads, x)
      /\ open' = [open EXCEPT ![Depth] = c]
      /\ UNCHANGED <<loops, returnlist, funcstart_quad, local_offset, inside_function_depth,
                     mode, exits, closed, cut, hosts, locals>>
  BY <1>1, <1>2, <1>3 DEF Else, Room, Here, Functional, History
<1>5. /\ IsConstruct(Top) /\ Top.id \in Nat /\ After(Top) <= n
      /\ Top.list = Top.id + 1 /\ Top.list \in DOMAIN quads /\ Numbered(quads)
  BY <1>1, <1>4, BranchList
<1>6. /\ Numbered(quads') /\ Grown(quads, quads', {}) /\ NextQuad(quads') = n + 1
      /\ quads'[n] = x /\ n \in DOMAIN quads'
      /\ \A i \in DOMAIN quads : i \in DOMAIN quads' /\ quads'[i] = quads[i] /\ i \in Nat /\ i < n
      /\ \A i \in DOMAIN quads' : i \in DOMAIN quads \/ i = n
  BY <1>1, <1>3a, <1>4, <1>5, EmitGrown DEF Here
<1>7. Here' = n + 1 /\ Here' \in Nat /\ Here <= Here'
  BY <1>1, <1>6 DEF Here
<1>8. /\ c \in Constructs /\ IsConstruct(c) /\ c.kind = "else" /\ c.id = Top.id
      /\ After(c) = n + 1 /\ Incomplete(c) = {Top.list, n} /\ Points(c) = {Top.list, n, n + 1}
      /\ Incomplete(Top) = {Top.list} /\ Points(Top) = {Top.list} /\ c.list = Top.list
  <2>1. After(Top) = Top.id + 2
    BY <1>4 DEF After
  <2>2. n >= Top.id + 2
    BY <1>5, <2>1
  <2>3. QED BY <1>1, <1>2, <1>4, <1>5, <2>2
            DEF Constructs, IsConstruct, After, Incomplete, Points
<1>9. /\ open' \in Seq(Constructs) /\ Depth' = Depth /\ Depth \in Nat /\ Depth \in 1 .. Depth
      /\ \A k \in 1 .. Depth : k # Depth => open'[k] = open[k] /\ k < Depth
      /\ open'[Depth] = c /\ Top = open[Depth]
      /\ \A k \in 1 .. Depth : open'[k].id = open[k].id
      /\ Ids' = Ids /\ Functions' = Functions /\ Loops' = Loops /\ OpenFuns' = OpenFuns
      /\ \A k : Below(k)' = Below(k)
      /\ Below(Depth) = OpenFuns
  BY <1>4, <1>8, ReplacedSets DEF OpenInv
<1>10. Funs' = Funs
  BY <1>3a, <1>6, FunsStay
<1>11. QuadsInv'
  <2>1. ASSUME NEW i \in DOMAIN quads'
        PROVE  quads'[i].label <= Here'
    <3>1. CASE i \in DOMAIN quads
      <4>1. quads'[i] = quads[i] /\ quads[i].label <= n /\ quads[i].label \in Nat
        BY <1>1, <1>6, <3>1 DEF QuadsInv, Numbered, IsQuad
      <4>2. QED BY <1>1, <1>7, <4>1
    <3>2. QED BY <1>3a, <1>6, <1>7, <3>1
  <2>2. QED BY <1>6, <2>1 DEF QuadsInv
<1>12. OpenInv'
  <2>1. \A k \in 1 .. Depth : IsConstruct(open'[k]) /\ After(open'[k]) <= Here'
    <3>1. \A k \in 1 .. Depth : k # Depth => After(open[k]) <= Here'
      BY <1>1, <1>7, ConstructFacts DEF OpenInv
    <3>2. QED BY <1>7, <1>8, <1>9, <3>1 DEF OpenInv
  <2>2. ASSUME NEW j \in 1 .. Depth, NEW k \in 1 .. Depth, j < k
        PROVE  After(open'[j]) <= open'[k].id
    <3>1. j # Depth
      BY <1>9, <2>2
    <3>2. QED BY <1>9, <2>2, <3>1 DEF OpenInv
  <2>3. \A k \in 1 .. Depth : open'[k].kind = "function" <=> open'[k].id \in Funs'
    BY <1>4, <1>8, <1>9, <1>10 DEF OpenInv
  <2>4. QED BY <1>9, <2>1, <2>2, <2>3 DEF OpenInv
<1>13. FunsInv'
  <2>1. DOMAIN closed \cap Ids' = {}
    BY <1>9 DEF FunsInv
  <2>2. DOMAIN quads \subseteq DOMAIN quads'
    BY <1>6
  <2>3. QED BY <1>1, <1>4, <1>7, <1>9, <1>10, <2>1, <2>2, FunsKept
<1>14. FramesInv'
  <2>1. \A f \in Funs : quads'[f].locals = quads[f].locals
    BY <1>6 DEF Funs
  <2>2. QED BY <1>4, <1>9, <1>10, <2>1, FramesKept
<1>15. Live' = Live
  <2>1. Live' = {e \in exits : e.quad \notin cut /\ e.owner \in Ids}
    BY <1>4, <1>9 DEF Live
  <2>2. QED BY <2>1 DEF Live
<1>16. \A e \in Live : e.quad \in DOMAIN quads' /\ quads'[e.quad].label = quads[e.quad].label
  BY <1>6, LiveLabels
<1>17. Current' = Current
  <2>1. Current' = {k \in Loops : \A f \in Funs : f < open'[k].id}
    BY <1>9, <1>10 DEF Current
  <2>2. \A k \in Loops : open'[k].id = open[k].id
    BY <1>9 DEF Loops
  <2>3. QED BY <2>1, <2>2 DEF Current
<1>18. \A k \in Current \cup Functions : k \in 1 .. Depth /\ open'[k].id = open[k].id
  BY <1>9 DEF Current, Loops, Functions
<1>19. LoopsInv'
  <2>1. loops' = loops /\ Depth' \in Nat /\ Current \subseteq 1 .. Depth'
    BY <1>4, <1>9, <1>18
  <2>2. QED BY <1>15, <1>16, <1>17, <1>18, <2>1, LoopsKept
<1>20. ReturnsInv'
  BY <1>4, <1>15, <1>16, ReturnsKept
<1>21. ExitsInv'
  <2>1. \A e \in exits : e.owner \in DOMAIN closed' \cup Ids'
    BY <1>4, <1>9 DEF ExitsInv
  <2>2. \A k \in 1 .. Depth' : open'[k].kind \in {"if", "else"} =>
          \A e \in exits : e.owner # open'[k].id
    BY <1>4, <1>9 DEF ExitsInv
  <2>3. Current \subseteq Current'
    BY <1>17
  <2>4. QED BY <1>4, <1>6, <1>9, <1>10, <1>15, <1>18, <2>1, <2>2, <2>3, ExitsKept
<1>22. ApartInv'
  <2>1. ASSUME NEW k \in 1 .. Depth', NEW i \in Incomplete(open'[k]), NEW e \in exits
        PROVE  e.quad # i
    <3>1. CASE i \in Incomplete(open[k])
      BY <1>9, <3>1 DEF ApartInv
    <3>2. CASE i \notin Incomplete(open[k])
      <4>1. i = n
        BY <1>8, <1>9, <3>2
      <4>2. e.quad \in Nat /\ e.quad < n
        BY <1>6 DEF ExitsInv
      <4>3. QED BY <4>1, <4>2
    <3>3. QED BY <3>1, <3>2
  <2>2. ASSUME NEW k \in 1 .. Depth', open'[k].kind \in {"if", "else"}
        PROVE  quads'[open'[k].list].label = 0
    <3>1. PICK b : b = open[k]
      OBVIOUS
    <3>2. IsConstruct(b) /\ After(b) <= n /\ b.kind \in {"if", "else"} /\ open'[k].list = b.list
      BY <1>1, <1>4, <1>8, <1>9, <2>2, <3>1 DEF OpenInv
    <3>3. quads[b.list].label = 0
      BY <1>9, <3>1, <3>2 DEF ApartInv
    <3>4. b.list \in Incomplete(b)
      BY <3>2 DEF Incomplete
    <3>5. b.list \in Nat /\ b.list < n
      BY <3>2, <3>4, ConstructFacts
    <3>6. b.list \in DOMAIN quads
      BY <1>1, <1>5, <3>5, HereFacts
    <3>7. QED BY <1>6, <3>2, <3>3, <3>6
  <2>3. QED BY <1>4, <2>1, <2>2 DEF ApartInv
<1>23. NestInv'
  <2>1. ASSUME NEW k \in 1 .. Depth', NEW p \in Points(open'[k])
        PROVE  Around(Funs, closed, p) = Below(k)'
    <3>1. CASE p \in Points(open[k])
      BY <1>9, <3>1 DEF NestInv
    <3>2. CASE p \notin Points(open[k])
      <4>0. k = Depth
        BY <1>9, <3>2
      <4>1. p \in Nat /\ p >= n /\ k = Depth
        <5>1. p \in {Top.list, n, n + 1} /\ p # Top.list
          BY <1>8, <1>9, <3>2, <4>0
        <5>2. QED BY <4>0, <5>1
      <4>2. Around(Funs, closed, p) = OpenFuns
        BY <1>1, <4>1, AroundHere
      <4>3. QED BY <1>9, <4>1, <4>2
    <3>3. QED BY <3>1, <3>2
  <2>2. \A e \in Live : Around(Funs, closed, e.quad) = OpenFuns
    BY DEF NestInv
  <2>3. QED BY <1>4, <1>9, <1>10, <1>15, <2>1, <2>2 DEF NestInv
<1>24. JumpsInv'
  <2>1. ASSUME NEW i, Waits(i)
        PROVE  Waits(i)'
    <3>1. (\E e \in Live : e.quad = i) \/ (\E k \in 1 .. Depth : i \in Incomplete(open[k]))
      BY <2>1 DEF Waits
    <3>2. (\E e \in Live : e.quad = i) \/ (\E k \in 1 .. Depth : i \in Incomplete(open'[k]))
      BY <1>8, <1>9, <3>1
    <3>3. QED BY <1>9, <1>15, <3>2 DEF Waits
  <2>2. Waits(n)'
    <3>1. \E k \in 1 .. Depth : n \in Incomplete(open'[k])
      BY <1>8, <1>9
    <3>2. QED BY <1>9, <3>1 DEF Waits
  <2>3. \A i \in DOMAIN quads' : i \in DOMAIN quads \/ Waits(i)'
    BY <1>6, <2>2
  <2>4. \A i \in DOMAIN quads : i \notin cut' /\ ~Waits(i)' /\ i \notin {} => i \notin cut /\ ~Waits(i)
    BY <1>4, <2>1
  <2>5. QED BY <1>4, <1>6, <1>10, <2>3, <2>4, JumpsKept
<1>25. ExitsArrive'
  BY <1>4, <1>6, ArriveKept
<1>26. ModeInv'
  BY <1>4 DEF ModeInv
<1>27. QED BY <1>11, <1>12, <1>13, <1>14, <1>19, <1>20, <1>21, <1>22, <1>23, <1>24, <1>25, <1>26

-----------------------------------------------------------------------------
(* Steps that emit nothing. *)

(* No quad is emitted and no construct opened or closed. *)
LEMMA SamePlace ==
  ASSUME StatementsInv, FramesInv', ModeInv',
         UNCHANGED <<quads, open, loops, returnlist, funcstart_quad, inside_function_depth,
                     exits, closed, cut>>
  PROVE  StatementsInv'
<1> USE DEF StatementsInv
<1>1. /\ Here \in Nat /\ Numbered(quads) /\ Here' = Here /\ quads' = quads
  BY HereFacts DEF QuadsInv, Here
<1>2. Grown(quads, quads', {})
  BY <1>1 DEF Grown, Here
<1>3. /\ Depth' = Depth /\ Depth \in Nat /\ Functions' = Functions /\ Loops' = Loops
      /\ Ids' = Ids /\ open' = open
  BY DEF Depth, Functions, Loops, Ids, OpenInv
<1>4. Funs' = Funs /\ OpenFuns' = OpenFuns
  BY <1>3 DEF Funs, OpenFuns
<1>5. Live' = Live /\ Current' = Current
  BY <1>3, <1>4 DEF Live, Current
<1>6. QuadsInv'
  BY <1>1 DEF QuadsInv
<1>7. OpenInv'
  BY <1>1, <1>4, SameNested
<1>8. FunsInv'
  <2>1. DOMAIN closed \cap Ids' = {}
    BY <1>3 DEF FunsInv
  <2>2. QED BY <1>1, <1>3, <1>4, <2>1, FunsKept
<1>9. \A e \in Live : e.quad \in DOMAIN quads' /\ quads'[e.quad].label = quads[e.quad].label
  BY <1>1 DEF ExitsInv, Live
<1>10. Current \subseteq 1 .. Depth'
  BY <1>3 DEF Current, Loops
<1>11. LoopsInv'
  BY <1>3, <1>5, <1>9, <1>10, LoopsKept
<1>12. ReturnsInv'
  BY <1>5, <1>9, ReturnsKept
<1>13. ExitsInv'
  <2>1. \A e \in exits : e.owner \in DOMAIN closed' \cup Ids'
    BY <1>3 DEF ExitsInv
  <2>2. \A k \in 1 .. Depth' : open'[k].kind \in {"if", "else"} =>
          \A e \in exits : e.owner # open'[k].id
    BY <1>3 DEF ExitsInv
  <2>3. QED BY <1>2, <1>3, <1>4, <1>5, <2>1, <2>2, ExitsKept
<1>14. ApartInv'
  BY <1>1, <1>3 DEF ApartInv
<1>15. \A k : Below(k)' = Below(k)
  BY <1>3 DEF Below
<1>16. NestInv'
  BY <1>1, <1>3, <1>4, <1>5, <1>15 DEF NestInv
<1>17. JumpsInv'
  <2>1. \A i : Waits(i)' <=> Waits(i)
    BY <1>3, <1>5 DEF Waits
  <2>2. QED BY <1>1, <1>4, <2>1 DEF JumpsInv
<1>18. ExitsArrive'
  BY <1>1, ArriveKept
<1>19. QED BY <1>6, <1>7, <1>8, <1>11, <1>12, <1>13, <1>14, <1>16, <1>17, <1>18

(* The program is accepted or rejected. *)
LEMMA ModeKeeps ==
  ASSUME StatementsInv, ModeInv',
         UNCHANGED <<quads, open, loops, Functional, History>>
  PROVE  StatementsInv'
<1>1. /\ UNCHANGED <<quads, open, loops, returnlist, funcstart_quad, inside_function_depth,
                     exits, closed, cut>>
      /\ UNCHANGED <<local_offset, locals, hosts, funcstart_quad>>
  BY DEF Functional, History
<1>2. Funs' = Funs /\ OpenFuns' = OpenFuns
  <2>1. Functions' = Functions
    BY <1>1 DEF Functions, Depth
  <2>2. QED BY <1>1, <2>1 DEF Funs, OpenFuns
<1>3. FramesInv'
  BY <1>1, <1>2, FramesKept DEF StatementsInv
<1>4. QED BY <1>1, <1>3, SamePlace

LEMMA AcceptKeeps ==
  ASSUME StatementsInv, Accept
  PROVE  StatementsInv'
<1>1. ModeInv'
  BY DEF Accept, ModeInv
<1>2. QED BY <1>1, ModeKeeps DEF Accept

(* A variable of the innermost function, behind the others. *)
LEMMA LocalKeeps ==
  ASSUME StatementsInv, Local
  PROVE  StatementsInv'
<1> USE DEF StatementsInv
<1>1. PICK f : f = open[Function].id
  OBVIOUS
<1>2. /\ mode = "parse" /\ inside_function_depth > 0 /\ local_offset' = local_offset + 1
      /\ locals' = [locals EXCEPT ![f] = Append(@, local_offset)]
      /\ UNCHANGED <<quads, open, loops, returnlist, funcstart_quad,
                     inside_function_depth, mode, exits, closed, cut, hosts>>
  BY <1>1 DEF Local
<1>3. Functions # {}
  <2>1. Cardinality(Functions) # 0
    BY <1>2 DEF FunsInv
  <2>2. QED BY <2>1, FS_EmptySet
<1>4. f \in OpenFuns /\ f \in Funs
  BY <1>1, <1>3, InnermostFunction DEF OpenFuns, FunsInv
<1>5. Funs' = Funs /\ OpenFuns' = OpenFuns
  <2>1. Functions' = Functions
    BY <1>2 DEF Functions, Depth
  <2>2. QED BY <1>2, <2>1 DEF Funs, OpenFuns
<1>6. PICK n \in Nat : n = local_offset
  BY DEF FramesInv
<1>7. PICK s \in Seq(Nat) : s = locals[f]
  BY <1>4 DEF FramesInv
<1>8. PICK t : t = Append(s, n)
  OBVIOUS
<1>9. /\ t \in Seq(Nat) /\ Len(t) = Len(s) + 1 /\ Len(s) \in Nat
      /\ \A i \in DOMAIN t : t[i] = IF i = Len(s) + 1 THEN n ELSE s[i]
      /\ \A i \in DOMAIN t : i \in DOMAIN s \/ i = Len(s) + 1
  BY <1>6, <1>7, <1>8
<1>10. DOMAIN locals' = Funs /\ locals'[f] = t /\ \A g \in Funs : g # f => locals'[g] = locals[g]
  BY <1>2, <1>4, <1>6, <1>7, <1>8 DEF FramesInv
<1>11. f \notin hosts => f = funcstart_quad /\ Len(s) = n
  <2>1. funcstart_quad \in Funs /\ f <= funcstart_quad /\ f \in Nat /\ funcstart_quad \in Nat
    BY <1>4, HereFacts DEF FunsInv, Funs, QuadsInv
  <2>2. f < funcstart_quad => f \in hosts
    BY <1>4, <2>1 DEF FramesInv
  <2>3. QED BY <1>4, <1>6, <1>7, <2>1, <2>2 DEF FramesInv
<1>12. f \notin DOMAIN closed
  BY <1>4 DEF FunsInv
<1>14. FramesInv'
  <2>1. n + 1 \in Nat /\ local_offset' = n + 1 /\ hosts' = hosts /\ funcstart_quad' = funcstart_quad
    BY <1>2, <1>6
  <2>2. \A g \in Funs : locals'[g] \in Seq(Nat)
    BY <1>9, <1>10 DEF FramesInv
  <2>3. ASSUME NEW g \in Funs \ hosts, NEW i \in DOMAIN locals'[g]
        PROVE  locals'[g][i] = i - 1
    <3>1. CASE g = f
      <4>1. Len(s) = n /\ \A j \in DOMAIN s : s[j] = j - 1
        BY <1>7, <1>11, <3>1 DEF FramesInv
      <4>2. i \in DOMAIN t /\ locals'[g][i] = t[i]
        BY <1>10, <3>1
      <4>3. CASE i = n + 1
        BY <1>6, <1>9, <4>1, <4>2, <4>3
      <4>4. CASE i # n + 1
        BY <1>9, <4>1, <4>2, <4>4
      <4>5. QED BY <4>3, <4>4
    <3>2. CASE g # f
      BY <1>10, <3>2 DEF FramesInv
    <3>3. QED BY <3>1, <3>2
  <2>4. ASSUME NEW g \in Funs \ hosts, g \in DOMAIN closed
        PROVE  Len(locals'[g]) <= quads[g].locals
    BY <1>10, <1>12, <2>4 DEF FramesInv
  <2>5. ASSUME NEW g \in Funs \ hosts, g = funcstart_quad
        PROVE  Len(locals'[g]) <= n + 1
    <3>1. CASE g = f
      BY <1>6, <1>9, <1>10, <1>11, <3>1
    <3>2. CASE g # f
      <4>1. Len(locals[g]) <= n
        BY <1>6, <2>5 DEF FramesInv
      <4>2. locals'[g] = locals[g] /\ Len(locals[g]) \in Nat
        BY <1>10, <3>2 DEF FramesInv
      <4>3. QED BY <1>6, <4>1, <4>2
    <3>3. QED BY <3>1, <3>2
  <2>6. ASSUME NEW g \in OpenFuns \ hosts
        PROVE  Len(locals'[g]) = n + 1
    <3>1. g = f
      <4>0. g \in Funs
        BY DEF FunsInv
      <4>1. g \in Nat /\ f \in Nat
        BY <1>4, <4>0, HereFacts DEF Funs, QuadsInv
      <4>2. ~(g < f)
        BY <1>4 DEF FramesInv
      <4>3. g <= f
        <5>1. PICK k \in Functions : g = open[k].id
          BY DEF OpenFuns
        <5>2. k <= Function /\ Function \in Functions
          BY <1>3, InnermostFunction
        <5>3. k \in 1 .. Depth /\ Function \in 1 .. Depth
          BY <5>2 DEF Functions
        <5>4. CASE k = Function
          BY <1>1, <4>1, <5>1, <5>4
        <5>5. CASE k # Function
          <6>1. k < Function
            BY <5>2, <5>3, <5>5 DEF OpenInv
          <6>2. QED BY <1>1, <4>1, <5>1, <5>3, <6>1, IdsDistinct
        <5>6. QED BY <5>4, <5>5
      <4>4. QED BY <4>1, <4>2, <4>3
    <3>2. QED BY <1>9, <1>10, <1>11, <1>6, <3>1, <1>4
  <2>7. \A g \in OpenFuns : \A h \in Funs : g < h => g \in hosts
    BY DEF FramesInv
  <2>8. QED BY <1>2, <1>5, <1>10, <2>1, <2>2, <2>3, <2>4, <2>5, <2>6, <2>7 DEF FramesInv
<1>15. ModeInv'
  BY <1>2 DEF ModeInv
<1>16. QED BY <1>2, <1>14, <1>15, SamePlace

-----------------------------------------------------------------------------
(* Steps that add an exit: break, continue and return. *)

(* A jump that is emitted and put at the end of a list. *)
LEMMA JumpMerged ==
  ASSUME NEW q, Numbered(q), NEW l, NEW S, Listed(q, l, S), NEW n, n = NextQuad(q), n # 0,
         NEW r, r = MergeLists(NewList(Emit(q, Goto(0)), n), l, n)
  PROVE  /\ Numbered(r) /\ Grown(q, r, S) /\ n \in Nat /\ NextQuad(r) = n + 1
         /\ n \in DOMAIN r /\ r[n].op = "jump" /\ r[n].label = 0
         /\ Listed(r, Merged(l, n), S \cup {n})
         /\ \A i \in S : r[i].label \in {q[i].label, n}
         /\ \A i \in DOMAIN r : i \in DOMAIN q \/ i = n
<1>1. PICK x : x = Goto(0)
  OBVIOUS
<1>2. IsQuad(x) /\ x.op = "jump" /\ x.label = 0
  BY <1>1 DEF IsQuad, Ops, Quad, Goto
<1>3. PICK p : p = Emit(q, x)
  OBVIOUS
<1>4. /\ Numbered(p) /\ Grown(q, p, {}) /\ n \in Nat /\ NextQuad(p) = n + 1
      /\ p[n] = x /\ n \in DOMAIN p
      /\ \A i \in DOMAIN q : i \in DOMAIN p /\ p[i] = q[i] /\ i \in Nat /\ i < n
      /\ \A i \in DOMAIN p : i \in DOMAIN q \/ i = n
  BY <1>2, <1>3, EmitGrown
<1>5. PICK s : s = Labelled(p, {n}, 0)
  OBVIOUS
<1>6. r = MergeLists(s, l, n)
  BY <1>1, <1>3, <1>5 DEF NewList
<1>7. /\ Numbered(s) /\ NextQuad(s) = NextQuad(p) /\ DOMAIN s = DOMAIN p
      /\ \A i \in DOMAIN p : s[i].op = p[i].op /\ s[i].locals = p[i].locals
      /\ \A i \in DOMAIN p : i \in {n} => s[i].label = 0
      /\ \A i \in DOMAIN p : i \notin {n} => s[i].label = p[i].label
  BY <1>4, <1>5, LabelledFacts
<1>8. \A i \in S : i \in DOMAIN q /\ i \in DOMAIN s /\ s[i].label = q[i].label /\ i < n
  BY <1>4, <1>7 DEF Listed
<1>9. Listed(s, l, S)
  BY <1>8, ListedStays
<1>10. n \in DOMAIN s /\ s[n].label = 0 /\ \A i \in S : i < n
  BY <1>4, <1>7, <1>8
<1>11. /\ Grown(s, r, S) /\ NextQuad(r) = NextQuad(s)
       /\ Listed(r, Merged(l, n), S \cup {n})
       /\ r[n] = s[n]
       /\ \A i \in S : r[i].label \in {s[i].label, n}
  BY <1>6, <1>7, <1>9, <1>10, MergeFacts
<1>12. Grown(q, s, {})
  BY <1>4, <1>7 DEF Grown
<1>13. Grown(q, r, S)
  <2>1. NextQuad(q) \in Nat /\ NextQuad(s) \in Nat /\ NextQuad(r) \in Nat
    BY <1>4, <1>7, <1>11
  <2>2. Grown(q, r, {} \cup S)
    BY <1>11, <1>12, <2>1, GrownTwice
  <2>3. {} \cup S = S
    OBVIOUS
  <2>4. QED BY <2>2, <2>3
<1>14. Numbered(r) /\ DOMAIN r = DOMAIN s
  <2>1. Numbered(r)
    BY <1>11 DEF Grown
  <2>2. QED BY <1>7, <1>11, <2>1 DEF Numbered
<1>15. r[n].op = "jump" /\ r[n].label = 0
  BY <1>2, <1>4, <1>7, <1>10, <1>11
<1>16. \A i \in S : r[i].label \in {q[i].label, n}
  BY <1>8, <1>11
<1>17. QED BY <1>4, <1>7, <1>11, <1>13, <1>14, <1>15, <1>16

(* The top of the stack of loops is the innermost loop. *)
LEMMA InnermostIsCurrent ==
  ASSUME QuadsInv, OpenInv, LoopsInv, loops # << >>,
         NEW at \in [1 .. Len(loops) -> 1 .. Depth], LoopsAt(at)
  PROVE  /\ 1 \in 1 .. Len(loops) /\ at[1] = InnermostLoop /\ InnermostLoop \in Current
         /\ Loops # {} /\ InnermostLoop \in 1 .. Depth
<1>1. Len(loops) \in Nat /\ Len(loops) # 0 /\ Depth \in Nat
  BY DEF LoopsInv, OpenInv, Depth
<1>2. 1 \in 1 .. Len(loops)
  BY <1>1
<1>3. at[1] \in Current /\ at[1] \in Loops /\ Loops \subseteq 1 .. Depth
  BY <1>2 DEF LoopsAt, Current, Loops
<1>4. InnermostLoop \in Loops /\ at[1] <= InnermostLoop /\ InnermostLoop \in 1 .. Depth
  BY <1>3, InnermostLoopIs
<1>5. InnermostLoop \in Current
  <2>1. CASE at[1] = InnermostLoop
    BY <1>3, <2>1
  <2>2. CASE at[1] # InnermostLoop
    <3>1. at[1] < InnermostLoop
      BY <1>3, <1>4, <2>2
    <3>2. PICK a \in Nat, b \in Nat : a = open[at[1]].id /\ b = open[InnermostLoop].id /\ a < b
      BY <1>3, <1>4, <3>1, IdsDistinct
    <3>3. \A f \in Funs : f \in Nat /\ f < a
      BY <1>3, <3>2, HereFacts DEF Current, Funs, QuadsInv
    <3>4. \A f \in Funs : f < b
      BY <3>2, <3>3
    <3>5. QED BY <1>4, <3>2, <3>4 DEF Current
  <2>3. QED BY <2>1, <2>2
<1>6. PICK i \in 1 .. Len(loops) : at[i] = InnermostLoop
  BY <1>5 DEF LoopsAt
<1>7. i = 1
  <2>1. SUFFICES ASSUME i # 1 PROVE FALSE
    OBVIOUS
  <2>2. 1 < i
    BY <1>1, <2>1
  <2>3. at[i] < at[1]
    BY <1>2, <2>2 DEF LoopsAt
  <2>4. QED BY <1>3, <1>4, <1>6, <2>3
<1>8. QED BY <1>2, <1>3, <1>4, <1>5, <1>6, <1>7

(* The lists of the innermost loop are other ones. *)
OnTop(s, r) == [s EXCEPT ![1] = r]
LEMMA LoopChanged ==
  ASSUME QuadsInv, OpenInv, LoopsInv, loops # << >>,
         NEW r \in [breaklist : Nat, contlist : Nat],
         loops' = OnTop(loops, r), open' = open, Current' = Current,
         NEW owner, owner = open[InnermostLoop].id,
         Listed(quads', r.breaklist, ExitsOf(Live', "break", owner)),
         Listed(quads', r.contlist, ExitsOf(Live', "continue", owner)),
         \A kind \in {"break", "continue"} : \A o : o # owner =>
           /\ ExitsOf(Live', kind, o) = ExitsOf(Live, kind, o)
           /\ \A i \in ExitsOf(Live, kind, o) : i \in DOMAIN quads' /\ quads'[i].label = quads[i].label
  PROVE  LoopsInv'
<1>1. PICK at \in [1 .. Len(loops) -> 1 .. Depth] : LoopsAt(at)
  BY DEF LoopsInv
<1>2. /\ 1 \in 1 .. Len(loops) /\ at[1] = InnermostLoop /\ InnermostLoop \in 1 .. Depth
  BY <1>1, InnermostIsCurrent
<1>3. /\ loops' \in Seq([breaklist : Nat, contlist : Nat]) /\ Len(loops') = Len(loops)
      /\ Len(loops) \in Nat /\ loops'[1] = r
      /\ \A i \in 1 .. Len(loops) : i # 1 => loops'[i] = loops[i]
  BY <1>2 DEF LoopsInv, OnTop
<1>4. Depth' = Depth
  BY DEF Depth
<1>5. ASSUME NEW i \in 1 .. Len(loops)
      PROVE  /\ Listed(quads', loops'[i].breaklist, ExitsOf(Live', "break", open[at[i]].id))
             /\ Listed(quads', loops'[i].contlist, ExitsOf(Live', "continue", open[at[i]].id))
  <2>1. CASE i = 1
    BY <1>2, <1>3, <2>1
  <2>2. CASE i # 1
    <3>1. PICK o : o = open[at[i]].id
      OBVIOUS
    <3>2. o # owner
      <4>1. at[i] < at[1]
        <5>1. 1 < i
          BY <1>3, <2>2
        <5>2. QED BY <1>1, <1>2, <5>1 DEF LoopsAt
      <4>2. at[i] \in 1 .. Depth /\ at[1] \in 1 .. Depth
        BY <1>1, <1>2
      <4>3. at[i] # at[1]
        BY <4>1, <4>2
      <4>4. QED BY <1>2, <3>1, <4>2, <4>3, IdsDistinct
    <3>3. /\ Listed(quads, loops[i].breaklist, ExitsOf(Live, "break", o))
          /\ Listed(quads, loops[i].contlist, ExitsOf(Live, "continue", o))
      BY <1>1, <3>1 DEF LoopsAt
    <3>4. /\ Listed(quads', loops[i].breaklist, ExitsOf(Live, "break", o))
          /\ Listed(quads', loops[i].contlist, ExitsOf(Live, "continue", o))
      BY <3>2, <3>3, ListedStays
    <3>5. /\ ExitsOf(Live', "break", o) = ExitsOf(Live, "break", o)
          /\ ExitsOf(Live', "continue", o) = ExitsOf(Live, "continue", o)
      BY <3>2
    <3>6. QED BY <1>3, <2>2, <3>1, <3>4, <3>5
  <2>3. QED BY <2>1, <2>2
<1>6. LoopsAt(at)'
  <2>1. \A i, j \in 1 .. Len(loops) : i < j => at[j] < at[i]
    BY <1>1 DEF LoopsAt
  <2>2. \A i \in 1 .. Len(loops) : at[i] \in Current
    BY <1>1 DEF LoopsAt
  <2>3. \A k \in Current : \E i \in 1 .. Len(loops) : at[i] = k
    BY <1>1 DEF LoopsAt
  <2>4. QED BY <1>3, <1>5, <2>1, <2>2, <2>3 DEF LoopsAt
<1>7. QED BY <1>1, <1>3, <1>4, <1>6 DEF LoopsInv

(* The lists of loops are not those of other exits. *)
LEMMA LoopsAlike ==
  ASSUME LoopsInv, loops' = loops, open' = open, Current' = Current,
         \A kind \in {"break", "continue"} : \A o :
           /\ ExitsOf(Live', kind, o) = ExitsOf(Live, kind, o)
           /\ \A i \in ExitsOf(Live, kind, o) : i \in DOMAIN quads' /\ quads'[i].label = quads[i].label
  PROVE  LoopsInv'
<1>1. PICK at \in [1 .. Len(loops) -> 1 .. Depth] : LoopsAt(at)
  BY DEF LoopsInv
<1>2. Depth' = Depth
  BY DEF Depth
<1>3. ASSUME NEW i \in 1 .. Len(loops)
      PROVE  /\ Listed(quads', loops[i].breaklist, ExitsOf(Live', "break", open[at[i]].id))
             /\ Listed(quads', loops[i].contlist, ExitsOf(Live', "continue", open[at[i]].id))
  <2>1. PICK o : o = open[at[i]].id
    OBVIOUS
  <2>2. /\ Listed(quads, loops[i].breaklist, ExitsOf(Live, "break", o))
        /\ Listed(quads, loops[i].contlist, ExitsOf(Live, "continue", o))
    BY <1>1, <2>1 DEF LoopsAt
  <2>3. /\ Listed(quads', loops[i].breaklist, ExitsOf(Live, "break", o))
        /\ Listed(quads', loops[i].contlist, ExitsOf(Live, "continue", o))
    BY <2>2, ListedStays
  <2>4. QED BY <2>1, <2>3
<1>4. LoopsAt(at)'
  BY <1>1, <1>3 DEF LoopsAt
<1>5. QED BY <1>1, <1>2, <1>4 DEF LoopsInv

(* One more exit, put at the end of the list of others of its construct.    *)
Plus(S, e) == S \cup {e}
LEMMA ExitKeeps ==
  ASSUME StatementsInv, mode = "parse", NEW n \in Nat, n # 0, n >= Here, Here' = n + 1,
         NEW e, e.quad = n,
         e.kind \in {"break", "continue", "return"}, e.owner \in Ids,
         exits' = Plus(exits, e),
         NEW S, Grown(quads, quads', S),
         \A i \in S : quads'[i].label <= n /\ \E d \in Live : d.quad = i,
         quads'[n].op = "jump", quads'[n].label = 0, n \in DOMAIN quads',
         \A i \in DOMAIN quads' : i \in DOMAIN quads \/ i = n \/ (quads'[i].op = "ret" /\ quads'[i].label = 0),
         e.kind = "return" => Functions # {} /\ e.owner = open[Function].id,
         e.kind # "return" => \E k \in Current : e.owner = open[k].id,
         Live' = Plus(Live, e) => LoopsInv' /\ ReturnsInv',
         UNCHANGED <<open, funcstart_quad, local_offset, inside_function_depth, mode, closed,
                     cut, hosts, locals>>
  PROVE  StatementsInv'
<1> USE DEF StatementsInv, Plus
<1>1. /\ Here \in Nat /\ Here' \in Nat /\ Here <= Here' /\ Numbered(quads')
      /\ \A i \in DOMAIN quads : i \in Nat /\ i < Here /\ i < n /\ i \in DOMAIN quads'
  BY HereFacts DEF QuadsInv, Grown
<1>2. Funs' = Funs
  <2>1. \A i \in DOMAIN quads' : i \in DOMAIN quads \/ quads'[i].op # "funcstart"
    OBVIOUS
  <2>2. QED BY <2>1, FunsStay
<1>3. /\ Depth' = Depth /\ Depth \in Nat /\ Functions' = Functions /\ Loops' = Loops
      /\ Ids' = Ids /\ open' = open
  BY DEF Depth, Functions, Loops, Ids, OpenInv
<1>4. OpenFuns' = OpenFuns /\ Current' = Current /\ \A k : Below(k)' = Below(k)
  BY <1>2, <1>3 DEF OpenFuns, Current, Below
<1>5. \A d \in exits : d.quad # n
  BY <1>1 DEF ExitsInv
<1>6. n \notin cut
  BY <1>5 DEF ExitsInv
<1>7. Live' = Live \cup {e}
  <2>1. Live' = {d \in exits \cup {e} : d.quad \notin cut /\ d.owner \in Ids}
    BY <1>3 DEF Live
  <2>2. e.quad = n
    OBVIOUS
  <2>3. QED BY <1>6, <2>1, <2>2 DEF Live
<1>8. QuadsInv'
  <2>1. ASSUME NEW i \in DOMAIN quads'
        PROVE  quads'[i].label <= Here'
    <3>1. CASE i \in S
      <4>1. quads'[i].label \in Nat /\ quads'[i].label <= n
        BY <1>1, <3>1 DEF Numbered, IsQuad
      <4>2. QED BY <4>1
    <3>2. CASE i \notin S /\ i \in DOMAIN quads
      <4>1. quads'[i].label = quads[i].label /\ quads[i].label <= Here /\ quads[i].label \in Nat
        BY <3>2 DEF Grown, QuadsInv, Numbered, IsQuad
      <4>2. QED BY <1>1, <4>1
    <3>3. CASE i \notin DOMAIN quads
      <4>1. quads'[i].label = 0
        BY <3>3
      <4>2. QED BY <1>1, <4>1
    <3>4. QED BY <3>1, <3>2, <3>3
  <2>2. QED BY <1>1, <2>1 DEF QuadsInv
<1>9. OpenInv'
  BY <1>1, <1>2, SameNested
<1>10. FunsInv'
  <2>1. DOMAIN closed \cap Ids' = {}
    BY <1>3 DEF FunsInv
  <2>2. QED BY <1>1, <1>2, <1>3, <1>4, <2>1, FunsKept
<1>11. FramesInv'
  <2>1. \A f \in Funs : quads'[f].locals = quads[f].locals
    BY DEF Grown, Funs
  <2>2. QED BY <1>2, <1>4, <2>1, FramesKept
<1>12. LoopsInv' /\ ReturnsInv'
  BY <1>7
<1>13. ExitsInv'
  <2>1. PICK c \in 1 .. Depth : /\ open[c].id = e.owner /\ open[c].kind \in {"while", "for", "function"}
                                /\ open[c].kind = "function" <=> e.kind = "return"
    <3>1. CASE e.kind = "return"
      BY <3>1, InnermostFunction DEF Functions
    <3>2. CASE e.kind # "return"
      BY <3>2 DEF Current, Loops
    <3>3. QED BY <3>1, <3>2
  <2>2. e.kind = "return" <=> e.owner \in Funs
    BY <2>1 DEF OpenInv
  <2>3. \A d \in exits : /\ d.quad \in DOMAIN quads' /\ quads'[d.quad].op = "jump" /\ d.quad # 0
                         /\ d.owner \in DOMAIN closed \cup Ids
                         /\ d.kind \in {"break", "continue", "return"}
                         /\ d.kind = "return" <=> d.owner \in Funs
    BY DEF ExitsInv, Grown
  <2>4. ASSUME NEW k \in 1 .. Depth, open[k].kind \in {"if", "else"}
        PROVE  \A d \in exits \cup {e} : d.owner # open[k].id
    <3>1. k # c
      BY <2>1, <2>4
    <3>2. open[k].id # open[c].id
      BY <3>1, IdsDistinct
    <3>3. QED BY <2>1, <2>4, <3>2 DEF ExitsInv
  <2>5. \A d, g \in exits \cup {e} : d.quad = g.quad => d = g
    BY <1>5 DEF ExitsInv
  <2>6. Function' = Function
    BY <1>3 DEF Function
  <2>7. \A d \in Live \cup {e} : d.kind # "return" => \E k \in Current : d.owner = open[k].id
    BY DEF ExitsInv
  <2>8. \A d \in Live \cup {e} : d.kind = "return" => Functions # {} /\ d.owner = open[Function].id
    BY DEF ExitsInv
  <2>9. cut \subseteq {d.quad : d \in exits \cup {e}}
    BY DEF ExitsInv
  <2>10. \A d \in exits \cup {e} :
                         /\ d.quad \in DOMAIN quads' /\ quads'[d.quad].op = "jump" /\ d.quad # 0
                         /\ d.owner \in DOMAIN closed \cup Ids
                         /\ d.kind \in {"break", "continue", "return"}
                         /\ d.kind = "return" <=> d.owner \in Funs
    BY <2>2, <2>3
  <2>11. QED BY <1>2, <1>3, <1>4, <1>7, <2>4, <2>5, <2>6, <2>7, <2>8, <2>9, <2>10 DEF ExitsInv
<1>14. \A k \in 1 .. Depth : \A i \in Incomplete(open[k]) : i \in DOMAIN quads
  BY <1>1, ConstructFacts, HereFacts DEF OpenInv, QuadsInv
<1>15. \A i \in S : \E d \in exits : d.quad = i
  BY DEF Live
<1>16. ApartInv'
  <2>1. \A k \in 1 .. Depth : \A i \in Incomplete(open[k]) : \A d \in exits \cup {e} : d.quad # i
    BY <1>1, <1>14 DEF ApartInv
  <2>2. ASSUME NEW k \in 1 .. Depth, open[k].kind \in {"if", "else"}
        PROVE  quads'[open[k].list].label = 0
    <3>1. open[k].list \in Incomplete(open[k])
      BY <2>2 DEF Incomplete
    <3>2. open[k].list \in DOMAIN quads /\ open[k].list \notin S
      BY <1>14, <1>15, <3>1 DEF ApartInv
    <3>3. QED BY <2>2, <3>2 DEF ApartInv, Grown
  <2>3. QED BY <1>3, <2>1, <2>2 DEF ApartInv
<1>17. Around(Funs, closed, n) = OpenFuns /\ Around(Funs, closed, n + 1) = OpenFuns
  BY AroundHere, <1>1
<1>18. NestInv'
  <2>1. \A k \in 1 .. Depth : \A p \in Points(open[k]) : Around(Funs, closed, p) = Below(k)
    BY DEF NestInv
  <2>2. \A d \in Live \cup {e} : Around(Funs, closed, d.quad) = OpenFuns
    BY <1>17 DEF NestInv
  <2>3. QED BY <1>2, <1>3, <1>4, <1>7, <2>1, <2>2 DEF NestInv
<1>19. JumpsInv'
  <2>1. ASSUME NEW i, Waits(i)
        PROVE  Waits(i)'
    BY <1>3, <1>7, <2>1 DEF Waits
  <2>2. Waits(n)'
    <3>1. e.quad = n /\ e \in Live'
      BY <1>7
    <3>2. QED BY <3>1 DEF Waits
  <2>3. \A i \in DOMAIN quads : i \notin cut' /\ ~Waits(i)' /\ i \notin S => i \notin cut /\ ~Waits(i)
    BY <2>1
  <2>4. \A i \in S : Waits(i)'
    <3>1. \A i \in S : Waits(i)
      BY DEF Waits
    <3>2. QED BY <2>1, <3>1
  <2>5. \A i \in DOMAIN quads' : quads'[i].op \in {"jump", "if"} => i \in DOMAIN quads \/ Waits(i)'
    BY <2>2
  <2>6. QED BY <1>2, <2>3, <2>4, <2>5, JumpsKept
<1>20. ExitsArrive'
  <2>1. ASSUME NEW d \in exits, d.quad \notin cut, d.owner \in DOMAIN closed
        PROVE  quads'[d.quad].label = Due(d)'
    <3>1. quads[d.quad].label = Due(d)
      BY <2>1 DEF ExitsArrive, Arrives
    <3>2. ~Waits(d.quad)
      BY <2>1, ArrivedWaitsNot
    <3>3. d.quad \notin S /\ d.quad \in DOMAIN quads
      BY <3>2 DEF Waits, ExitsInv
    <3>4. quads'[d.quad].label = quads[d.quad].label
      BY <3>3 DEF Grown
    <3>5. QED BY <3>1, <3>4 DEF Due
  <2>2. e.owner \notin DOMAIN closed
    BY DEF FunsInv
  <2>3. QED BY <2>1, <2>2 DEF ExitsArrive, Arrives
<1>21. ModeInv'
  BY DEF ModeInv
<1>22. QED BY <1>8, <1>9, <1>10, <1>11, <1>12, <1>13, <1>16, <1>18, <1>19, <1>20, <1>21

(* Exits of different kinds or owners are different quads.                  *)
LEMMA ExitsApart ==
  ASSUME ExitsInv, NEW kind, NEW owner, NEW other, NEW k, ~(other = kind /\ k = owner)
  PROVE  \A i \in ExitsOf(Live, other, k) : i \notin ExitsOf(Live, kind, owner) /\ i \in DOMAIN quads
<1>1. SUFFICES ASSUME NEW d \in Live, d.kind = other, d.owner = k
               PROVE  d.quad \notin ExitsOf(Live, kind, owner) /\ d.quad \in DOMAIN quads
  BY DEF ExitsOf
<1>2. \A e \in Live : e.kind = kind /\ e.owner = owner => e.quad # d.quad
  BY <1>1 DEF ExitsInv, Live
<1>3. d.quad \in DOMAIN quads
  BY DEF ExitsInv, Live
<1>4. QED BY <1>2, <1>3 DEF ExitsOf

(* A break or a continue of the innermost loop.                             *)
LEMMA LoopExitKeeps ==
  ASSUME StatementsInv, mode = "parse", loops # << >>, NEW kind \in {"break", "continue"},
         NEW n, n = Here, NEW owner, owner = open[InnermostLoop].id,
         NEW l, l = IF kind = "break" THEN loops[1].breaklist ELSE loops[1].contlist,
         quads' = MergeLists(NewList(Emit(quads, Goto(0)), n), l, n),
         exits' = exits \cup {[quad |-> n, kind |-> kind, owner |-> owner]},
         NEW r, loops' = OnTop(loops, r),
         kind = "break" => r = [breaklist |-> Merged(l, n), contlist |-> loops[1].contlist],
         kind = "continue" => r = [breaklist |-> loops[1].breaklist, contlist |-> Merged(l, n)],
         UNCHANGED <<open, returnlist, funcstart_quad, local_offset, inside_function_depth, mode,
                     closed, cut, hosts, locals>>
  PROVE  StatementsInv'
<1> USE DEF StatementsInv
<1>1. PICK at \in [1 .. Len(loops) -> 1 .. Depth] : LoopsAt(at)
  BY DEF LoopsInv
<1>2. /\ 1 \in 1 .. Len(loops) /\ at[1] = InnermostLoop /\ InnermostLoop \in Current
      /\ InnermostLoop \in 1 .. Depth
  BY <1>1, InnermostIsCurrent
<1>3. loops[1] \in [breaklist : Nat, contlist : Nat]
  BY <1>2, ElementOfSeq DEF LoopsInv
<1>4. PICK S : S = ExitsOf(Live, kind, owner)
  OBVIOUS
<1>5. /\ Listed(quads, loops[1].breaklist, ExitsOf(Live, "break", owner))
      /\ Listed(quads, loops[1].contlist, ExitsOf(Live, "continue", owner))
  BY <1>1, <1>2 DEF LoopsAt
<1>6. Listed(quads, l, S)
  BY <1>4, <1>5
<1>7. Numbered(quads) /\ n \in Nat /\ n = NextQuad(quads) /\ n # 0
  <2>1. Numbered(quads) /\ n \in Nat
    BY HereFacts DEF QuadsInv
  <2>2. PICK c : c = open[InnermostLoop] /\ IsConstruct(c) /\ After(c) <= Here
    BY <1>2 DEF OpenInv
  <2>3. c.id \in Nat /\ After(c) \in Nat /\ c.id < After(c)
    BY <2>2, ConstructFacts
  <2>4. n # 0
    BY <2>1, <2>2, <2>3
  <2>5. QED BY <2>1, <2>4 DEF Here
<1>8. /\ Numbered(quads') /\ Grown(quads, quads', S) /\ NextQuad(quads') = n + 1
      /\ n \in DOMAIN quads' /\ quads'[n].op = "jump" /\ quads'[n].label = 0
      /\ Listed(quads', Merged(l, n), S \cup {n})
      /\ \A i \in S : quads'[i].label \in {quads[i].label, n}
      /\ \A i \in DOMAIN quads' : i \in DOMAIN quads \/ i = n
  BY <1>6, <1>7, JumpMerged
<1>9. Here' = n + 1
  BY <1>8 DEF Here
<1>10. PICK e : e = [quad |-> n, kind |-> kind, owner |-> owner]
  OBVIOUS
<1>11. /\ e.quad = n /\ e.kind = kind /\ e.owner = owner /\ exits' = Plus(exits, e)
  BY <1>10 DEF Plus
<1>12. \A i \in S : quads'[i].label <= n /\ \E d \in Live : d.quad = i
  <2>1. \A i \in S : i \in DOMAIN quads /\ \E d \in Live : d.quad = i
    BY <1>4, <1>6 DEF ExitsOf, Listed
  <2>2. \A i \in DOMAIN quads : quads[i].label <= n
    BY DEF QuadsInv
  <2>3. QED BY <1>7, <1>8, <2>1, <2>2
<1>13. owner \in Ids
  BY <1>2 DEF Ids
<1>14. Funs' = Funs /\ Current' = Current
  <2>1. \A i \in DOMAIN quads' : i \in DOMAIN quads \/ quads'[i].op # "funcstart"
    BY <1>8
  <2>2. Funs' = Funs
    BY <1>8, <2>1, FunsStay
  <2>3. QED BY <2>2 DEF Current, Loops, Depth
<1>15. ASSUME Live' = Plus(Live, e), NEW other, NEW k, ~(other = kind /\ k = owner)
       PROVE  /\ ExitsOf(Live', other, k) = ExitsOf(Live, other, k)
              /\ \A i \in ExitsOf(Live, other, k) : i \in DOMAIN quads' /\ quads'[i].label = quads[i].label
  <2>1. ExitsOf(Live', other, k) = ExitsOf(Live, other, k)
    BY <1>11, <1>15 DEF ExitsOf, Plus
  <2>2. \A i \in ExitsOf(Live, other, k) : i \notin S /\ i \in DOMAIN quads
    BY <1>4, <1>15, ExitsApart
  <2>3. QED BY <1>8, <1>15, <2>1, <2>2 DEF Grown
<1>16. ASSUME Live' = Plus(Live, e)
       PROVE  LoopsInv'
  <2>1. ExitsOf(Live', kind, owner) = S \cup {n}
    BY <1>4, <1>11, <1>16 DEF ExitsOf, Plus
  <2>2. Listed(quads', Merged(l, n), ExitsOf(Live', kind, owner))
    BY <1>8, <2>1
  <2>3. ASSUME NEW other \in {"break", "continue"}, other # kind, NEW m, Listed(quads, m, ExitsOf(Live, other, owner))
        PROVE  Listed(quads', m, ExitsOf(Live', other, owner))
    <3>1. /\ ExitsOf(Live', other, owner) = ExitsOf(Live, other, owner)
          /\ \A i \in ExitsOf(Live, other, owner) : i \in DOMAIN quads' /\ quads'[i].label = quads[i].label
      BY <1>15, <1>16, <2>3
    <3>2. QED BY <2>3, <3>1, ListedStays
  <2>5. /\ Listed(quads', r.breaklist, ExitsOf(Live', "break", owner))
        /\ Listed(quads', r.contlist, ExitsOf(Live', "continue", owner))
    <3>0. kind = "break" \/ kind = "continue"
      OBVIOUS
    <3>1. CASE kind = "break"
      BY <1>5, <2>2, <2>3, <3>1
    <3>2. CASE kind = "continue"
      BY <1>5, <2>2, <2>3, <3>2
    <3>3. QED BY <3>0, <3>1, <3>2
  <2>6. r \in [breaklist : Nat, contlist : Nat]
    <3>1. Merged(l, n) \in Nat
      BY <1>3, <1>7 DEF Merged
    <3>2. QED BY <1>3, <3>1
  <2>7. \A other \in {"break", "continue"} : \A o : o # owner =>
           /\ ExitsOf(Live', other, o) = ExitsOf(Live, other, o)
           /\ \A i \in ExitsOf(Live, other, o) : i \in DOMAIN quads' /\ quads'[i].label = quads[i].label
    BY <1>15, <1>16
  <2>8. open' = open
    OBVIOUS
  <2>9. QED BY <1>14, <2>5, <2>6, <2>7, <2>8, LoopChanged
<1>17. ASSUME Live' = Plus(Live, e)
       PROVE  ReturnsInv'
  <2>1. Returns' = Returns
    BY <1>11, <1>17 DEF Returns, Plus
  <2>2. \A i \in Returns : i \in DOMAIN quads' /\ quads'[i].label = quads[i].label
    <3>1. ASSUME NEW d \in Live, d.kind = "return"
          PROVE  d.quad \in DOMAIN quads' /\ quads'[d.quad].label = quads[d.quad].label
      <4>1. d.quad \in ExitsOf(Live, "return", d.owner)
        BY <3>1 DEF ExitsOf
      <4>2. ~("return" = kind /\ d.owner = owner)
        OBVIOUS
      <4>3. QED BY <1>15, <1>17, <4>1, <4>2
    <3>2. QED BY <3>1 DEF Returns
  <2>3. Listed(quads', returnlist, Returns)
    BY <2>2, ListedStays DEF ReturnsInv
  <2>4. QED BY <2>1, <2>3 DEF ReturnsInv
<1>18. \E k \in Current : e.owner = open[k].id
  BY <1>2, <1>11
<1>19. /\ e.kind \in {"break", "continue", "return"} /\ e.kind # "return" /\ e.owner \in Ids
       /\ n >= Here /\ n \in Nat
  BY <1>7, <1>11, <1>13
<1>20. \A i \in DOMAIN quads' : i \in DOMAIN quads \/ i = n \/ (quads'[i].op = "ret" /\ quads'[i].label = 0)
  BY <1>8
<1>21. /\ StatementsInv /\ mode = "parse"
       /\ UNCHANGED <<open, funcstart_quad, local_offset, inside_function_depth, mode, closed,
                      cut, hosts, locals>>
  OBVIOUS
<1>22. Live' = Plus(Live, e) => LoopsInv' /\ ReturnsInv'
  BY <1>16, <1>17
<1> HIDE DEF StatementsInv
<1>23. QED BY ONLY <1>7, <1>8, <1>9, <1>11, <1>12, <1>18, <1>19, <1>20, <1>21, <1>22, ExitKeeps

LEMMA BreakKeeps ==
  ASSUME StatementsInv, Break
  PROVE  StatementsInv'
<1>1. loops \in Seq([breaklist : Nat, contlist : Nat]) /\ mode = "parse"
  BY DEF Break, Room, StatementsInv, LoopsInv
<1>2. CASE LoopCounter = 0
  <2>1. mode' = "no_loop" /\ UNCHANGED <<quads, open, loops, Functional, History>> /\ loops = << >>
    BY <1>1, <1>2 DEF Break, LoopCounter, Reject
  <2>2. ModeInv'
    BY <2>1 DEF ModeInv
  <2>3. QED BY <2>1, <2>2, ModeKeeps
<1>3. CASE LoopCounter # 0
  <2>1. PICK n : n = Here
    OBVIOUS
  <2>2. PICK l : l = loops[1].breaklist
    OBVIOUS
  <2>3. /\ quads' = MergeLists(NewList(Emit(quads, Goto(0)), n), l, n)
        /\ loops' = [loops EXCEPT ![1].breaklist = Merged(@, n)]
        /\ exits' = exits \cup {[quad |-> n, kind |-> "break", owner |-> open[InnermostLoop].id]}
        /\ UNCHANGED <<open, returnlist, funcstart_quad, local_offset, inside_function_depth, mode,
                       closed, cut, hosts, locals>>
    BY <1>3, <2>1, <2>2 DEF Break, WithJump, Here, Exit, Functional
  <2>4. loops # << >> /\ 1 \in 1 .. Len(loops)
    BY <1>1, <1>3 DEF LoopCounter
  <2>5. PICK r : r = [breaklist |-> Merged(l, n), contlist |-> loops[1].contlist]
    OBVIOUS
  <2>6. loops' = OnTop(loops, r)
    <3>1. loops[1] \in [breaklist : Nat, contlist : Nat]
      BY <1>1, <2>4, ElementOfSeq
    <3>2. [loops[1] EXCEPT !.breaklist = Merged(@, n)] = r
      BY <2>2, <2>5, <3>1
    <3>3. QED BY <1>1, <2>3, <2>4, <3>2 DEF OnTop
  <2>7. QED BY <1>1, <2>1, <2>2, <2>3, <2>4, <2>5, <2>6, LoopExitKeeps
<1>4. QED BY <1>2, <1>3

LEMMA ContinueKeeps ==
  ASSUME StatementsInv, Continue
  PROVE  StatementsInv'
<1>1. loops \in Seq([breaklist : Nat, contlist : Nat]) /\ mode = "parse"
  BY DEF Continue, Room, StatementsInv, LoopsInv
<1>2. CASE LoopCounter = 0
  <2>1. mode' = "no_loop" /\ UNCHANGED <<quads, open, loops, Functional, History>> /\ loops = << >>
    BY <1>1, <1>2 DEF Continue, LoopCounter, Reject
  <2>2. ModeInv'
    BY <2>1 DEF ModeInv
  <2>3. QED BY <2>1, <2>2, ModeKeeps
<1>3. CASE LoopCounter # 0
  <2>1. PICK n : n = Here
    OBVIOUS
  <2>2. PICK l : l = loops[1].contlist
    OBVIOUS
  <2>3. /\ quads' = MergeLists(NewList(Emit(quads, Goto(0)), n), l, n)
        /\ loops' = [loops EXCEPT ![1].contlist = Merged(@, n)]
        /\ exits' = exits \cup {[quad |-> n, kind |-> "continue", owner |-> open[InnermostLoop].id]}
        /\ UNCHANGED <<open, returnlist, funcstart_quad, local_offset, inside_function_depth, mode,
                       closed, cut, hosts, locals>>
    BY <1>3, <2>1, <2>2 DEF Continue, WithJump, Here, Exit, Functional
  <2>4. loops # << >> /\ 1 \in 1 .. Len(loops)
    BY <1>1, <1>3 DEF LoopCounter
  <2>5. PICK r : r = [breaklist |-> loops[1].breaklist, contlist |-> Merged(l, n)]
    OBVIOUS
  <2>6. loops' = OnTop(loops, r)
    <3>1. loops[1] \in [breaklist : Nat, contlist : Nat]
      BY <1>1, <2>4, ElementOfSeq
    <3>2. [loops[1] EXCEPT !.contlist = Merged(@, n)] = r
      BY <2>2, <2>5, <3>1
    <3>3. QED BY <1>1, <2>3, <2>4, <3>2 DEF OnTop
  <2>7. QED BY <1>1, <2>1, <2>2, <2>3, <2>4, <2>5, <2>6, LoopExitKeeps
<1>4. QED BY <1>2, <1>3

(* A return: the value, and a jump to funcend.                              *)
LEMMA ReturnKeeps ==
  ASSUME StatementsInv, Return
  PROVE  StatementsInv'
<1> USE DEF StatementsInv
<1>1. /\ mode = "parse" /\ Here \in Nat /\ Numbered(quads)
      /\ \A i \in DOMAIN quads : i \in Nat /\ i < Here
  BY HereFacts DEF Return, Room, QuadsInv
<1>2. inside_function_depth = Cardinality(Functions) /\ IsFiniteSet(Functions)
  BY DEF FunsInv
<1>3. CASE inside_function_depth < 1
  <2>1. mode' = "no_function" /\ UNCHANGED <<quads, open, loops, Functional, History>>
    BY <1>3 DEF Return, Reject
  <2>2. ModeInv'
    BY <2>1 DEF ModeInv
  <2>3. QED BY <2>1, <2>2, ModeKeeps
<1>4. CASE ~(inside_function_depth < 1)
  <2>1. PICK x : x = Quad("ret", 0)
    OBVIOUS
  <2>2. IsQuad(x) /\ x.op = "ret" /\ x.label = 0
    BY <2>1 DEF IsQuad, Ops, Quad
  <2>3. PICK q : q = Emit(quads, x)
    OBVIOUS
  <2>4. PICK n \in Nat : n = Here + 1
    BY <1>1
  <2>5. PICK owner : owner = open[Function].id
    OBVIOUS
  <2>6. /\ quads' = MergeLists(NewList(Emit(q, Goto(0)), n), returnlist, n)
        /\ returnlist' = Merged(returnlist, n)
        /\ exits' = exits \cup {[quad |-> n, kind |-> "return", owner |-> owner]}
        /\ UNCHANGED <<open, loops, funcstart_quad, local_offset, inside_function_depth, mode,
                       closed, cut, hosts, locals>>
    BY <1>4, <2>1, <2>3, <2>4, <2>5 DEF Return, Here
  <2>7. /\ Numbered(q) /\ Grown(quads, q, {}) /\ NextQuad(q) = n /\ q[Here] = x
        /\ \A i \in DOMAIN quads : i \in DOMAIN q /\ q[i] = quads[i]
        /\ \A i \in DOMAIN q : i \in DOMAIN quads \/ i = Here
        /\ Here \in DOMAIN q
    BY <1>1, <2>2, <2>3, <2>4, EmitGrown DEF Here
  <2>8. PICK S : S = Returns
    OBVIOUS
  <2>9. Listed(quads, returnlist, S)
    BY <2>8 DEF ReturnsInv
  <2>10. Listed(q, returnlist, S)
    <3>1. \A i \in S : i \in DOMAIN quads
      BY <2>9 DEF Listed
    <3>2. QED BY <2>7, <2>9, <3>1, ListedStays
  <2>11. n # 0
    BY <1>1, <2>4
  <2>12. /\ Numbered(quads') /\ Grown(q, quads', S) /\ NextQuad(quads') = n + 1
         /\ n \in DOMAIN quads' /\ quads'[n].op = "jump" /\ quads'[n].label = 0
         /\ Listed(quads', Merged(returnlist, n), S \cup {n})
         /\ \A i \in S : quads'[i].label \in {q[i].label, n}
         /\ \A i \in DOMAIN quads' : i \in DOMAIN q \/ i = n
    BY <2>6, <2>7, <2>10, <2>11, JumpMerged
  <2>13. Here' = n + 1 /\ n >= Here
    BY <1>1, <2>4, <2>12 DEF Here
  <2>14. Grown(quads, quads', S)
    <3>1. NextQuad(quads) \in Nat /\ NextQuad(q) \in Nat /\ NextQuad(quads') \in Nat
      BY <1>1, <2>7, <2>12 DEF Here
    <3>2. Grown(quads, quads', {} \cup S)
      BY <2>7, <2>12, <3>1, GrownTwice
    <3>3. {} \cup S = S
      OBVIOUS
    <3>4. QED BY <3>2, <3>3
  <2>15. \A i \in S : quads'[i].label <= n /\ \E d \in Live : d.quad = i
    <3>1. \A i \in S : i \in DOMAIN quads /\ \E d \in Live : d.quad = i
      BY <2>8, <2>9 DEF Returns, Listed
    <3>2. \A i \in DOMAIN quads : quads[i].label <= n
      <4>1. \A i \in DOMAIN quads : quads[i].label <= Here /\ quads[i].label \in Nat
        BY DEF QuadsInv, Numbered, IsQuad
      <4>2. QED BY <1>1, <2>4, <4>1
    <3>3. QED BY <2>4, <2>7, <2>12, <3>1, <3>2
  <2>16. \A i \in DOMAIN quads' : i \in DOMAIN quads \/ i = n \/ (quads'[i].op = "ret" /\ quads'[i].label = 0)
    <3>1. Here \notin S
      BY <1>1, <2>9 DEF Listed
    <3>2. quads'[Here].op = "ret" /\ quads'[Here].label = 0
      BY <2>2, <2>7, <2>12, <3>1 DEF Grown
    <3>3. QED BY <2>7, <2>12, <3>2
  <2>17. Functions # {} /\ owner \in Ids
    <3>1. Functions # {}
      <4>1. Cardinality(Functions) # 0
        BY <1>2, <1>4
      <4>2. QED BY <4>1, FS_EmptySet
    <3>2. Function \in Functions
      BY <3>1, InnermostFunction
    <3>3. QED BY <2>5, <3>1, <3>2 DEF Ids, Functions
  <2>18. PICK e : e = [quad |-> n, kind |-> "return", owner |-> owner]
    OBVIOUS
  <2>19. /\ e.quad = n /\ e.kind = "return" /\ e.owner = owner /\ exits' = Plus(exits, e)
      BY <2>6, <2>18 DEF Plus
  <2>20. Current' = Current
    <3>1. \A i \in DOMAIN quads' : i \in DOMAIN quads \/ quads'[i].op # "funcstart"
      BY <2>12, <2>16
    <3>2. Funs' = Funs
      BY <2>14, <3>1, FunsStay
    <3>3. QED BY <2>6, <3>2 DEF Current, Loops, Depth
  <2>21. ASSUME Live' = Plus(Live, e)
         PROVE  LoopsInv'
    <3>1. ASSUME NEW kind \in {"break", "continue"}, NEW o
          PROVE  /\ ExitsOf(Live', kind, o) = ExitsOf(Live, kind, o)
                 /\ \A i \in ExitsOf(Live, kind, o) : i \in DOMAIN quads' /\ quads'[i].label = quads[i].label
      <4>1. ExitsOf(Live', kind, o) = ExitsOf(Live, kind, o)
        BY <2>19, <2>21 DEF ExitsOf, Plus
      <4>2. \A i \in ExitsOf(Live, kind, o) : i \in DOMAIN quads /\ i \notin S
        BY <2>8 DEF ExitsOf, Returns, Live, ExitsInv
      <4>3. QED BY <2>14, <2>21, <4>1, <4>2 DEF Grown
    <3>2. QED BY <2>6, <2>20, <3>1, LoopsAlike
  <2>22. ASSUME Live' = Plus(Live, e)
         PROVE  ReturnsInv'
    <3>1. Returns' = S \cup {n}
      BY <2>8, <2>19, <2>22 DEF Returns, Plus
    <3>2. QED BY <2>6, <2>12, <3>1 DEF ReturnsInv
  <2>23. QED BY <1>1, <2>5, <2>6, <2>11, <2>12, <2>13, <2>14, <2>15, <2>16, <2>17, <2>19, <2>21, <2>22, ExitKeeps
<1>5. QED BY <1>3, <1>4

-----------------------------------------------------------------------------
(* The end of a loop. *)

(* No exit waits for a loop that is not current, and the lists of the one   *)
(* that ends are on the top of the stack.                                   *)
LEMMA LoopEnds ==
  ASSUME StatementsInv, Depth > 0, Top.kind \in {"while", "for"}
  PROVE  /\ loops = << >> => /\ Current = {}
                             /\ ExitsOf(Live, "break", Top.id) = {}
                             /\ ExitsOf(Live, "continue", Top.id) = {}
         /\ loops # << >> =>
              /\ Depth \in Current
              /\ Listed(quads, loops[1].breaklist, ExitsOf(Live, "break", Top.id))
              /\ Listed(quads, loops[1].contlist, ExitsOf(Live, "continue", Top.id))
<1> USE DEF StatementsInv
<1>1. PICK at \in [1 .. Len(loops) -> 1 .. Depth] : LoopsAt(at)
  BY DEF LoopsInv
<1>2. CASE loops = << >>
  <2>1. Current = {}
    BY <1>1, <1>2 DEF LoopsAt
  <2>2. \A e \in Live : e.kind \notin {"break", "continue"}
    BY <2>1 DEF ExitsInv
  <2>3. QED BY <1>2, <2>1, <2>2 DEF ExitsOf
<1>3. CASE loops # << >>
  <2>1. /\ 1 \in 1 .. Len(loops) /\ at[1] = InnermostLoop /\ InnermostLoop \in Current
        /\ InnermostLoop \in 1 .. Depth /\ Loops # {}
    BY <1>1, <1>3, InnermostIsCurrent
  <2>2. Depth \in Current
    BY <2>1, TopIsCurrent
  <2>3. InnermostLoop = Depth
    <3>1. Depth \in Loops /\ Depth \in 1 .. Depth
      BY <2>2 DEF Current, Loops
    <3>2. Depth <= InnermostLoop
      BY <2>1, <3>1, InnermostLoopIs
    <3>3. QED BY <2>1, <3>1, <3>2
  <2>4. at[1] = Depth /\ open[at[1]].id = Top.id
    BY <2>1, <2>3 DEF Top
  <2>5. /\ Listed(quads, loops[1].breaklist, ExitsOf(Live, "break", open[at[1]].id))
        /\ Listed(quads, loops[1].contlist, ExitsOf(Live, "continue", open[at[1]].id))
    BY <1>1, <2>1 DEF LoopsAt
  <2>6. QED BY <1>3, <2>2, <2>4, <2>5
<1>4. QED BY <1>2, <1>3

(* The last construct, when it is a loop. *)
LEMMA TopIsLoop ==
  ASSUME StatementsInv, Depth > 0, Top.kind \in {"while", "for"}
  PROVE  /\ Depth \in 1 .. Depth /\ Depth \in Loops /\ Top = open[Depth] /\ IsConstruct(Top)
         /\ Top.id \in Nat /\ Top.test = Top.id /\ Top.next \in Nat /\ Top.body \in Nat
         /\ Top.id + 1 < Here /\ Top.next < Here /\ Top.body <= Here
         /\ Top.id \notin Funs
         /\ Incomplete(Top) = {Top.id, Top.id + 1}
         /\ {Top.id, Top.id + 1, Top.next, Top.body} \subseteq Points(Top)
<1> USE DEF StatementsInv
<1>1. Depth \in 1 .. Depth /\ Top = open[Depth] /\ Depth \in Loops
  BY DEF OpenInv, Depth, Top, Loops
<1>2. PICK c : c = Top /\ IsConstruct(c) /\ After(c) <= Here /\ c.kind \in {"while", "for"}
               /\ c.id \notin Funs
  BY <1>1 DEF OpenInv
<1>3. c.id \in Nat /\ c.test = c.id /\ c.next \in Nat /\ c.body \in Nat
  BY <1>2 DEF IsConstruct, Constructs
<1>4. Here \in Nat
  BY HereFacts DEF QuadsInv
<1>5. c.id + 1 < Here /\ c.next < Here /\ c.body <= Here
  <2>1. CASE c.kind = "while"
    BY <1>2, <1>3, <1>4, <2>1 DEF IsConstruct, After
  <2>2. CASE c.kind = "for"
    BY <1>2, <1>3, <1>4, <2>2 DEF IsConstruct, After
  <2>3. QED BY <1>2, <2>1, <2>2
<1>6. Incomplete(c) = {c.id, c.id + 1} /\ {c.id, c.id + 1, c.next, c.body} \subseteq Points(c)
  BY <1>2, <1>3 DEF Incomplete, Points
<1>7. QED BY <1>1, <1>2, <1>3, <1>5, <1>6

(* The jump back is emitted, and the test and the exits are completed.      *)
LEMMA EndLoopQuads ==
  ASSUME StatementsInv, EndLoop,
         NEW B, B = ExitsOf(Live, "break", Top.id), NEW C, C = ExitsOf(Live, "continue", Top.id)
  PROVE  /\ Numbered(quads') /\ Here' = Here + 1 /\ Here \in Nat
         /\ Grown(quads, quads', {Top.id, Top.id + 1} \cup B \cup C)
         /\ quads'[Here].op = "jump" /\ quads'[Here].label = Top.next
         /\ quads'[Top.id].label = Top.body /\ quads'[Top.id + 1].label = Here + 1
         /\ \A i \in B : quads'[i].label = Here + 1
         /\ \A i \in C : quads'[i].label = Top.next
         /\ \A i \in DOMAIN quads' : i \in DOMAIN quads \/ i = Here
<1>1. PICK n \in Nat : n = Here /\ Numbered(quads)
  BY HereFacts DEF StatementsInv, QuadsInv
<1>2. Depth > 0 /\ Top.kind \in {"while", "for"}
  BY DEF EndLoop
<1>3. PICK id \in Nat : id = Top.id /\ id = Top.test /\ id + 1 < n
  BY <1>1, <1>2, TopIsLoop
<1>4. PICK next \in Nat, body \in Nat : next = Top.next /\ body = Top.body
  BY <1>2, TopIsLoop
<1>5. PICK x : x = Goto(next)
  OBVIOUS
<1>6. IsQuad(x) /\ x.op = "jump" /\ x.label = next
  BY <1>4, <1>5 DEF IsQuad, Ops, Quad, Goto
<1>7. PICK q1 : q1 = Emit(quads, x)
  OBVIOUS
<1>8. PICK p : p = Labelled(q1, {id}, body)
  OBVIOUS
<1>9. PICK q2 : q2 = Labelled(p, {id + 1}, n + 1)
  OBVIOUS
<1>10. /\ Numbered(q1) /\ Grown(quads, q1, {}) /\ NextQuad(q1) = n + 1 /\ q1[n] = x /\ n \in DOMAIN q1
       /\ \A i \in DOMAIN quads : i \in DOMAIN q1 /\ q1[i] = quads[i] /\ i \in Nat /\ i < n
       /\ \A i \in DOMAIN q1 : i \in DOMAIN quads \/ i = n
  BY <1>1, <1>6, <1>7, EmitGrown DEF Here
<1>11. /\ Numbered(p) /\ NextQuad(p) = NextQuad(q1) /\ DOMAIN p = DOMAIN q1
       /\ \A i \in DOMAIN q1 : p[i].op = q1[i].op /\ p[i].locals = q1[i].locals
       /\ \A i \in DOMAIN q1 : i \in {id} => p[i].label = body
       /\ \A i \in DOMAIN q1 : i \notin {id} => p[i].label = q1[i].label
  BY <1>8, <1>10, LabelledFacts
<1>12. /\ Numbered(q2) /\ NextQuad(q2) = NextQuad(p) /\ DOMAIN q2 = DOMAIN p
       /\ \A i \in DOMAIN p : q2[i].op = p[i].op /\ q2[i].locals = p[i].locals
       /\ \A i \in DOMAIN p : i \in {id + 1} => q2[i].label = n + 1
       /\ \A i \in DOMAIN p : i \notin {id + 1} => q2[i].label = p[i].label
  <2>1. n + 1 \in Nat
    OBVIOUS
  <2>2. QED BY <1>9, <1>11, <2>1, LabelledFacts
<1>13. id \in DOMAIN quads /\ id + 1 \in DOMAIN quads /\ id # id + 1
  BY <1>1, <1>3, HereFacts
<1>14. /\ Numbered(q2) /\ NextQuad(q2) = n + 1 /\ DOMAIN q2 = DOMAIN q1
       /\ q2[n].op = "jump" /\ q2[n].label = next
       /\ q2[id].label = body /\ q2[id + 1].label = n + 1
       /\ \A i \in DOMAIN quads : q2[i].op = quads[i].op /\ q2[i].locals = quads[i].locals
       /\ \A i \in DOMAIN quads : i # id /\ i # id + 1 => q2[i].label = quads[i].label
  <2>1. n # id /\ n # id + 1
    BY <1>3
  <2>2. QED BY <1>6, <1>10, <1>11, <1>12, <1>13, <2>1
<1>15. \A i \in B \cup C : i \in DOMAIN quads /\ i # id /\ i # id + 1 /\ i # n
  <2>1. \A i \in B \cup C : \E e \in exits : e.quad = i
    BY DEF ExitsOf, Live
  <2>2. \A e \in exits : e.quad # id /\ e.quad # id + 1 /\ e.quad \in DOMAIN quads
    <3>1. id \in Incomplete(open[Depth]) /\ id + 1 \in Incomplete(open[Depth]) /\ Depth \in 1 .. Depth
      BY <1>2, <1>3, TopIsLoop
    <3>2. QED BY <3>1 DEF StatementsInv, ApartInv, ExitsInv
  <2>3. QED BY <1>10, <2>1, <2>2
<1>16. \A i \in B : i \notin C
  <2>1. ExitsInv
    BY DEF StatementsInv
  <2>2. QED BY <2>1, ExitsApart
<1> DEFINE T == {id, id + 1} \cup B \cup C
<1>17. /\ Numbered(quads') /\ NextQuad(quads') = n + 1 /\ DOMAIN quads' = DOMAIN q2
       /\ \A i \in DOMAIN q2 : quads'[i].op = q2[i].op /\ quads'[i].locals = q2[i].locals
       /\ \A i \in DOMAIN q2 : i \notin B \cup C => quads'[i].label = q2[i].label
       /\ \A i \in B : quads'[i].label = n + 1
       /\ \A i \in C : quads'[i].label = next
  <2>1. CASE loops = << >>
    <3>1. quads' = q2
      BY <1>1, <1>3, <1>4, <1>5, <1>7, <1>8, <1>9, <1>10, <2>1 DEF EndLoop, PatchLabel
    <3>2. B = {} /\ C = {}
      BY <1>2, <2>1, LoopEnds
    <3>3. QED BY <1>14, <3>1, <3>2
  <2>2. CASE loops # << >>
    <3>1. PICK b : b = loops[1].breaklist
      OBVIOUS
    <3>2. PICK c : c = loops[1].contlist
      OBVIOUS
    <3>3. Listed(quads, b, B) /\ Listed(quads, c, C)
      BY <1>2, <2>2, <3>1, <3>2, LoopEnds
    <3>4. PICK q3 : q3 = PatchList(q2, b, n + 1)
      OBVIOUS
    <3>5. quads' = PatchList(q3, c, next)
      BY <1>1, <1>3, <1>4, <1>5, <1>7, <1>8, <1>9, <1>10, <2>2, <3>1, <3>2, <3>4 DEF EndLoop, PatchLabel
    <3>6. \A i \in B \cup C : i \in DOMAIN q2 /\ q2[i].label = quads[i].label
      BY <1>10, <1>14, <1>15
    <3>7. Listed(q2, b, B)
      BY <3>3, <3>6, ListedStays
    <3>8. Listed(q2, c, C)
      BY <3>3, <3>6, ListedStays
    <3>9. n + 1 \in Nat
      OBVIOUS
    <3>10. /\ Grown(q2, q3, B) /\ NextQuad(q3) = NextQuad(q2) /\ DOMAIN q3 = DOMAIN q2
           /\ \A i \in B : q3[i].label = n + 1
      BY <1>14, <3>4, <3>7, <3>9, PatchFacts
    <3>11. \A i \in C : i \in DOMAIN q3 /\ q3[i].label = q2[i].label
      BY <1>16, <3>6, <3>10 DEF Grown
    <3>12. Listed(q3, c, C) /\ Numbered(q3)
      BY <3>8, <3>10, <3>11, ListedStays DEF Grown
    <3>13. /\ Grown(q3, quads', C) /\ NextQuad(quads') = NextQuad(q3) /\ DOMAIN quads' = DOMAIN q3
           /\ \A i \in C : quads'[i].label = next
      BY <3>5, <3>12, PatchFacts
    <3>14. \A i \in B : i \in DOMAIN q3 /\ quads'[i].label = q3[i].label
      BY <1>16, <3>6, <3>10, <3>13 DEF Grown
    <3>15. Numbered(quads')
      BY <3>13 DEF Grown
    <3>16. \A i \in DOMAIN q2 : quads'[i].op = q2[i].op /\ quads'[i].locals = q2[i].locals
      BY <3>10, <3>13 DEF Grown
    <3>17. \A i \in DOMAIN q2 : i \notin B \cup C => quads'[i].label = q2[i].label
      BY <3>10, <3>13 DEF Grown
    <3>18. QED BY <1>14, <3>10, <3>13, <3>14, <3>15, <3>16, <3>17
  <2>3. QED BY <2>1, <2>2
<1>18. Grown(quads, quads', T)
  <2>1. \A i \in DOMAIN quads : i \in DOMAIN q2
    BY <1>10, <1>14
  <2>2. NextQuad(quads) <= NextQuad(quads')
    BY <1>1, <1>17 DEF Here
  <2>3. QED BY <1>14, <1>17, <2>1, <2>2 DEF Grown
<1>19. \A i \in DOMAIN quads' : i \in DOMAIN quads \/ i = n
  BY <1>10, <1>14, <1>17
<1>20. id \notin B \cup C /\ id + 1 \notin B \cup C /\ n \notin B \cup C
  BY <1>15
<1>21. /\ quads'[n].op = "jump" /\ quads'[n].label = next
       /\ quads'[id].label = body /\ quads'[id + 1].label = n + 1
  <2>1. n \in DOMAIN q2 /\ id \in DOMAIN q2 /\ id + 1 \in DOMAIN q2
    BY <1>10, <1>13, <1>14
  <2>2. QED BY <1>14, <1>17, <1>20, <2>1
<1>22. Here' = n + 1
  BY <1>17 DEF Here
<1>23. QED BY <1>1, <1>3, <1>4, <1>17, <1>18, <1>19, <1>21, <1>22

(* A sequence without its first element. *)
LEMMA PopFacts ==
  ASSUME NEW S, NEW s \in Seq(S), s # << >>, NEW t, t = Tail(s)
  PROVE  /\ t \in Seq(S) /\ Len(t) = Len(s) - 1 /\ Len(s) \in Nat /\ Len(t) \in Nat
         /\ \A i \in 1 .. Len(t) : i + 1 \in 1 .. Len(s) /\ t[i] = s[i + 1]
         /\ \A i \in 1 .. Len(s) : i # 1 => i - 1 \in 1 .. Len(t) /\ (i - 1) + 1 = i
<1>1. t \in Seq(S) /\ Len(t) = Len(s) - 1 /\ \A i \in 1 .. Len(t) : t[i] = s[i + 1]
  BY HeadTailProperties
<1>2. PICK n \in Nat : n = Len(s)
  OBVIOUS
<1>3. Len(t) = n - 1 /\ Len(t) \in Nat
  BY <1>1, <1>2
<1>4. \A i \in 1 .. n - 1 : i + 1 \in 1 .. n
  BY <1>2
<1>5. \A i \in 1 .. n : i # 1 => i - 1 \in 1 .. n - 1 /\ (i - 1) + 1 = i
  BY <1>2
<1>6. QED BY <1>1, <1>2, <1>3, <1>4, <1>5

(* The loop that ends is the top of the stack of loops, if it is current.   *)
LEMMA LoopPopped ==
  ASSUME StatementsInv, Depth > 0, Top.kind \in {"while", "for"}, Close, PopLoop,
         Current' = Current \ {Depth},
         \A kind \in {"break", "continue"} : \A o : o # Top.id =>
           /\ ExitsOf(Live', kind, o) = ExitsOf(Live, kind, o)
           /\ \A i \in ExitsOf(Live, kind, o) : i \in DOMAIN quads' /\ quads'[i].label = quads[i].label
  PROVE  LoopsInv'
<1> USE DEF StatementsInv
<1>1. /\ Depth' \in Nat /\ Depth \in 1 .. Depth /\ Top = open[Depth]
      /\ \A k \in 1 .. Depth' : k \in 1 .. Depth /\ k < Depth /\ open'[k] = open[k]
      /\ \A k \in 1 .. Depth : k \in 1 .. Depth' \/ k = Depth
  BY ClosedSets DEF OpenInv, Top
<1>2. CASE loops = << >>
  <2>1. Current = {} /\ loops' = << >>
    BY <1>2, LoopEnds DEF PopLoop
  <2>2. Current' = {} /\ Len(loops') = 0 /\ loops' \in Seq([breaklist : Nat, contlist : Nat])
    BY <2>1
  <2>3. PICK at : at = [i \in 1 .. 0 |-> i]
    OBVIOUS
  <2>4. 1 .. 0 = {}
    OBVIOUS
  <2>5. at \in [1 .. Len(loops') -> 1 .. Depth']
    BY <2>2, <2>3, <2>4
  <2>6. LoopsAt(at)'
    BY <2>2, <2>4 DEF LoopsAt
  <2>7. QED BY <2>2, <2>5, <2>6 DEF LoopsInv
<1>3. CASE loops # << >>
  <2>1. PICK at \in [1 .. Len(loops) -> 1 .. Depth] : LoopsAt(at)
    BY DEF LoopsInv
  <2>2. /\ 1 \in 1 .. Len(loops) /\ at[1] = InnermostLoop /\ InnermostLoop \in 1 .. Depth
        /\ Loops # {}
    BY <1>3, <2>1, InnermostIsCurrent
  <2>3. at[1] = Depth
    <3>1. Depth \in Loops
      BY TopIsLoop
    <3>2. Depth <= InnermostLoop
      BY <2>2, <3>1, InnermostLoopIs
    <3>3. QED BY <1>1, <2>2, <3>2
  <2>4. /\ loops' \in Seq([breaklist : Nat, contlist : Nat]) /\ Len(loops) \in Nat
        /\ \A i \in 1 .. Len(loops') : i + 1 \in 1 .. Len(loops) /\ loops'[i] = loops[i + 1]
        /\ \A i \in 1 .. Len(loops) : i # 1 => i - 1 \in 1 .. Len(loops') /\ (i - 1) + 1 = i
        /\ Len(loops') \in Nat
    <3>1. loops' = Tail(loops)
      BY <1>3 DEF PopLoop
    <3>2. QED BY <1>3, <3>1, PopFacts DEF LoopsInv
  <2>5. \A i \in 1 .. Len(loops) : i # 1 => at[i] < Depth /\ at[i] \in 1 .. Depth'
    <3>1. ASSUME NEW i \in 1 .. Len(loops), i # 1
          PROVE  at[i] < at[1]
      <4>1. 1 < i
        BY <2>4, <3>1
      <4>2. QED BY <2>1, <2>2, <4>1 DEF LoopsAt
    <3>2. \A i \in 1 .. Len(loops) : i # 1 => at[i] # Depth
      BY <1>1, <2>1, <2>3, <3>1
    <3>3. QED BY <1>1, <2>1, <2>3, <3>1, <3>2
  <2>6. PICK m : m = [i \in 1 .. Len(loops') |-> at[i + 1]]
    OBVIOUS
  <2>7. \A i \in 1 .. Len(loops') : i \in Nat /\ i + 1 # 1
    BY <2>4
  <2>8. m \in [1 .. Len(loops') -> 1 .. Depth'] /\ \A i \in 1 .. Len(loops') : m[i] = at[i + 1]
    BY <2>4, <2>5, <2>6, <2>7
  <2>9. \A i, j \in 1 .. Len(loops') : i < j => m[j] < m[i]
    <3>1. \A i, j \in 1 .. Len(loops') : i < j => i + 1 < j + 1
      BY <2>4
    <3>2. QED BY <2>1, <2>4, <2>8, <3>1 DEF LoopsAt
  <2>10. \A i \in 1 .. Len(loops') : m[i] \in Current'
    <3>1. \A i \in 1 .. Len(loops) : i # 1 => at[i] \in Current /\ at[i] # Depth
      BY <1>1, <2>1, <2>5 DEF LoopsAt
    <3>2. QED BY <2>4, <2>7, <2>8, <3>1
  <2>11. ASSUME NEW k \in Current'
         PROVE  \E i \in 1 .. Len(loops') : m[i] = k
    <3>1. PICK i \in 1 .. Len(loops) : at[i] = k
      BY <2>1 DEF LoopsAt
    <3>2. i # 1
      BY <2>3, <3>1
    <3>3. PICK j \in 1 .. Len(loops') : j + 1 = i
      BY <2>4, <3>2
    <3>4. QED BY <2>8, <3>1, <3>3
  <2>12. ASSUME NEW i \in 1 .. Len(loops')
         PROVE  /\ Listed(quads', loops'[i].breaklist, ExitsOf(Live', "break", open'[m[i]].id))
                /\ Listed(quads', loops'[i].contlist, ExitsOf(Live', "continue", open'[m[i]].id))
    <3>1. PICK j \in 1 .. Len(loops) : j = i + 1 /\ j # 1 /\ loops'[i] = loops[j] /\ m[i] = at[j]
      BY <2>4, <2>7, <2>8
    <3>2. PICK o : o = open[at[j]].id /\ o = open'[at[j]].id
      BY <1>1, <2>5, <3>1
    <3>3. o # Top.id
      <4>1. at[j] # Depth /\ at[j] \in 1 .. Depth
        BY <1>1, <2>1, <2>5, <3>1
      <4>2. QED BY <1>1, <3>2, <4>1, IdsDistinct
    <3>4. /\ Listed(quads, loops[j].breaklist, ExitsOf(Live, "break", o))
          /\ Listed(quads, loops[j].contlist, ExitsOf(Live, "continue", o))
      BY <2>1, <3>2 DEF LoopsAt
    <3>5. /\ Listed(quads', loops[j].breaklist, ExitsOf(Live, "break", o))
          /\ Listed(quads', loops[j].contlist, ExitsOf(Live, "continue", o))
      BY <3>3, <3>4, ListedStays
    <3>6. QED BY <3>1, <3>2, <3>3, <3>5
  <2>13. LoopsAt(m)'
    BY <2>9, <2>10, <2>11, <2>12 DEF LoopsAt
  <2>14. QED BY <2>4, <2>8, <2>13 DEF LoopsInv
<1>4. QED BY <1>2, <1>3

(* The end of a loop: the exits that waited for it arrive.                  *)
LEMMA EndLoopKeeps ==
  ASSUME StatementsInv, EndLoop
  PROVE  StatementsInv'
<1> USE DEF StatementsInv
<1>1. /\ mode = "parse" /\ Depth > 0 /\ Top.kind \in {"while", "for"} /\ PopLoop /\ Close
      /\ UNCHANGED <<returnlist, funcstart_quad, local_offset, inside_function_depth, mode,
                     exits, cut, hosts, locals>>
  BY DEF EndLoop, Functional, Room
<1>2. PICK n \in Nat, id \in Nat, next \in Nat, body \in Nat :
        /\ n = Here /\ id = Top.id /\ next = Top.next /\ body = Top.body
        /\ id + 1 < n /\ next < n /\ body <= n
  BY <1>1, HereFacts, TopIsLoop DEF QuadsInv
<1>3. /\ Depth \in 1 .. Depth /\ Depth \in Loops /\ Top = open[Depth] /\ IsConstruct(Top)
      /\ id \notin Funs /\ Incomplete(Top) = {id, id + 1}
      /\ {id, id + 1, next, body} \subseteq Points(Top)
  BY <1>1, <1>2, TopIsLoop
<1>4. PICK B : B = ExitsOf(Live, "break", id)
  OBVIOUS
<1>5. PICK C : C = ExitsOf(Live, "continue", id)
  OBVIOUS
<1>6. PICK T : T = {id, id + 1} \cup B \cup C
  OBVIOUS
<1>7. /\ Numbered(quads') /\ Here' = n + 1 /\ Grown(quads, quads', T)
      /\ quads'[n].op = "jump" /\ quads'[n].label = next
      /\ quads'[id].label = body /\ quads'[id + 1].label = n + 1
      /\ \A i \in B : quads'[i].label = n + 1
      /\ \A i \in C : quads'[i].label = next
      /\ \A i \in DOMAIN quads' : i \in DOMAIN quads \/ i = n
  BY <1>2, <1>4, <1>5, <1>6, EndLoopQuads
<1>8. Here' \in Nat /\ Here <= Here' /\ \A i \in DOMAIN quads : i \in Nat /\ i < n /\ i \in DOMAIN quads'
  BY <1>2, <1>7, HereFacts DEF QuadsInv, Grown
<1>9. /\ DOMAIN closed' = DOMAIN closed \cup {id}
      /\ closed'[id] = [exit |-> n + 1, next |-> next]
      /\ \A c \in DOMAIN closed : c # id => closed'[c] = closed[c]
  <2>1. PICK q1 : q1 = Emit(quads, Goto(next))
    OBVIOUS
  <2>2. NextQuad(q1) = n + 1
    <3>1. PICK x : x = Goto(next)
      OBVIOUS
    <3>2. IsQuad(x)
      BY <3>1 DEF IsQuad, Ops, Quad, Goto
    <3>3. q1 = Emit(quads, x) /\ Numbered(quads)
      BY <2>1, <3>1 DEF QuadsInv
    <3>4. QED BY <1>2, <3>2, <3>3, EmitGrown DEF Here
  <2>3. ClosedAt(id, NextQuad(q1), next)
    BY <1>2, <2>1 DEF EndLoop
  <2>4. QED BY <2>2, <2>3 DEF ClosedAt
<1>10. id \in Ids /\ id \notin DOMAIN closed
  BY <1>2, <1>3 DEF Ids, FunsInv
<1>11. Funs' = Funs
  <2>1. \A i \in DOMAIN quads' : i \in DOMAIN quads \/ quads'[i].op # "funcstart"
    BY <1>7
  <2>2. QED BY <1>7, <2>1, FunsStay
<1>12. /\ Ids' = Ids \ {id} /\ Functions' = Functions /\ OpenFuns' = OpenFuns
       /\ Loops' = Loops \ {Depth} /\ Depth' \in Nat
       /\ \A k \in 1 .. Depth' : k \in 1 .. Depth /\ k < Depth /\ open'[k] = open[k]
       /\ \A k \in 1 .. Depth : k \in 1 .. Depth' \/ k = Depth
  BY <1>1, <1>2, ClosedIds, ClosedSets DEF OpenInv
<1>13. Current' = Current \ {Depth}
  BY <1>1, <1>11, CurrentClosed
<1>14. Live' = {e \in Live : e.owner # id}
  <2>1. Live' = {e \in exits : e.quad \notin cut /\ e.owner \in Ids \ {id}}
    BY <1>1, <1>12 DEF Live
  <2>2. QED BY <2>1 DEF Live
<1>15. \A e \in Live : e.owner = id => e.quad \in B \cup C
  <2>1. ASSUME NEW e \in Live, e.owner = id
        PROVE  e.kind \in {"break", "continue"}
    BY <1>3, <2>1 DEF ExitsInv, Live
  <2>2. QED BY <1>4, <1>5, <2>1 DEF ExitsOf
<1>16. \A e \in Live : e.owner # id => e.quad \notin T /\ e.quad \in DOMAIN quads
  <2>1. ASSUME NEW e \in Live, e.owner # id
        PROVE  e.quad \notin B \cup C
    <3>1. \A d \in Live : d.owner = id => d.quad # e.quad
      BY <2>1 DEF ExitsInv, Live
    <3>2. QED BY <1>4, <1>5, <3>1 DEF ExitsOf
  <2>2. \A e \in Live : e.quad # id /\ e.quad # id + 1 /\ e.quad \in DOMAIN quads
    BY <1>3 DEF ApartInv, ExitsInv, Live
  <2>3. QED BY <1>6, <2>1, <2>2
<1>17. \A e \in Live : e.owner # id => e.quad \in DOMAIN quads' /\ quads'[e.quad].label = quads[e.quad].label
  BY <1>7, <1>16 DEF Grown
<1>18. \A i \in T : Waits(i)
  <2>1. \A i \in B \cup C : \E e \in Live : e.quad = i
    BY <1>4, <1>5 DEF ExitsOf
  <2>2. \A i \in {id, id + 1} : i \in Incomplete(open[Depth])
    BY <1>3
  <2>3. QED BY <1>3, <1>6, <2>1, <2>2 DEF Waits
<1>19. QuadsInv'
  <2>1. ASSUME NEW i \in DOMAIN quads'
        PROVE  quads'[i].label <= Here'
    <3>1. CASE i \in T
      BY <1>2, <1>6, <1>7, <3>1
    <3>2. CASE i \notin T /\ i \in DOMAIN quads
      <4>1. quads'[i].label = quads[i].label /\ quads[i].label <= n /\ quads[i].label \in Nat
        BY <1>2, <1>7, <3>2 DEF Grown, QuadsInv, Numbered, IsQuad
      <4>2. QED BY <1>2, <1>7, <4>1
    <3>3. CASE i = n
      BY <1>2, <1>7, <3>3
    <3>4. QED BY <1>7, <3>1, <3>2, <3>3
  <2>2. QED BY <1>7, <2>1 DEF QuadsInv
<1>20. OpenInv'
  BY <1>1, <1>8, <1>11, ClosedNested
<1>21. FunsInv'
  <2>1. OpenFuns = Funs \ DOMAIN closed'
    BY <1>3, <1>9 DEF FunsInv
  <2>2. DOMAIN closed' \subseteq DOMAIN quads' /\ DOMAIN closed' \cap Ids' = {}
    <3>1. id \in DOMAIN quads
      BY <1>2, HereFacts DEF QuadsInv
    <3>2. QED BY <1>8, <1>9, <1>12, <3>1 DEF FunsInv
  <2>3. ASSUME NEW c \in DOMAIN closed'
        PROVE  /\ closed'[c].exit \in Nat /\ closed'[c].next \in Nat
               /\ c < closed'[c].exit /\ closed'[c].exit <= Here'
               /\ closed'[c].next <= Here'
               /\ c \in Funs => closed'[c].exit < Here'
    <3>1. CASE c = id
      BY <1>2, <1>3, <1>7, <1>9, <3>1
    <3>2. CASE c # id
      <4>1. /\ closed[c].exit \in Nat /\ closed[c].next \in Nat
            /\ c < closed[c].exit /\ closed[c].exit <= n /\ closed[c].next <= n
            /\ closed'[c] = closed[c]
        BY <1>2, <1>9, <3>2 DEF FunsInv
      <4>2. QED BY <1>2, <1>7, <4>1
    <3>3. QED BY <3>1, <3>2
  <2>4. /\ funcstart_quad \in Nat /\ funcstart_quad <= Here'
        /\ Funs # {} => funcstart_quad \in Funs
        /\ \A f \in Funs : f <= funcstart_quad
        /\ IsFiniteSet(Functions) /\ inside_function_depth = Cardinality(Functions)
    BY <1>2, <1>7 DEF FunsInv
  <2>5. QED BY <1>1, <1>11, <1>12, <2>1, <2>2, <2>3, <2>4 DEF FunsInv
<1>22. FramesInv'
  <2>1. \A f \in Funs : quads'[f].locals = quads[f].locals
    BY <1>7 DEF Grown, Funs
  <2>2. \A f \in Funs : f \in DOMAIN closed' <=> f \in DOMAIN closed
    BY <1>3, <1>9
  <2>3. QED BY <1>1, <1>11, <1>12, <2>1, <2>2, FramesKept
<1>23. LoopsInv'
  <2>1. ASSUME NEW kind \in {"break", "continue"}, NEW o, o # id
        PROVE  /\ ExitsOf(Live', kind, o) = ExitsOf(Live, kind, o)
               /\ \A i \in ExitsOf(Live, kind, o) : i \in DOMAIN quads' /\ quads'[i].label = quads[i].label
    BY <1>14, <1>17, <2>1 DEF ExitsOf
  <2>2. QED BY <1>1, <1>2, <1>13, <2>1, LoopPopped
<1>24. ReturnsInv'
  <2>1. \A e \in Live : e.kind = "return" => e.owner # id
    BY <1>3 DEF ExitsInv, Live
  <2>2. Returns' = Returns
    BY <1>14, <2>1 DEF Returns
  <2>3. \A i \in Returns : i \in DOMAIN quads' /\ quads'[i].label = quads[i].label
    BY <1>17, <2>1 DEF Returns
  <2>4. Listed(quads', returnlist, Returns)
    BY <2>3, ListedStays DEF ReturnsInv
  <2>5. QED BY <1>1, <2>2, <2>4 DEF ReturnsInv
<1>25. ExitsInv'
  <2>1. \A e \in exits : /\ e.quad \in DOMAIN quads' /\ quads'[e.quad].op = "jump"
                         /\ e.quad # 0
                         /\ e.owner \in DOMAIN closed' \cup Ids'
                         /\ e.kind \in {"break", "continue", "return"}
                         /\ e.kind = "return" <=> e.owner \in Funs
    BY <1>7, <1>9, <1>12 DEF ExitsInv, Grown
  <2>2. \A k \in 1 .. Depth' : open'[k].kind \in {"if", "else"} =>
          \A e \in exits : e.owner # open'[k].id
    BY <1>12 DEF ExitsInv
  <2>3. \A e \in Live' : e.kind # "return" => \E k \in Current' : e.owner = open'[k].id
    <3>1. ASSUME NEW e \in Live, e.owner # id, e.kind # "return"
          PROVE  \E k \in Current' : e.owner = open'[k].id
      <4>1. PICK k \in Current : e.owner = open[k].id
        BY <3>1 DEF ExitsInv
      <4>2. k # Depth /\ k \in 1 .. Depth
        BY <1>2, <1>3, <3>1, <4>1 DEF Current, Loops
      <4>3. QED BY <1>12, <1>13, <4>1, <4>2
    <3>2. QED BY <1>14, <3>1
  <2>4. \A e \in Live' : e.kind = "return" => Functions' # {} /\ e.owner = open'[Function'].id
    <3>1. Function' = Function
      BY <1>12 DEF Function
    <3>2. ASSUME NEW e \in Live, e.kind = "return"
          PROVE  Functions # {} /\ e.owner = open'[Function].id
      <4>1. Functions # {} /\ e.owner = open[Function].id
        BY <3>2 DEF ExitsInv
      <4>2. Function \in Functions' /\ Functions' \subseteq 1 .. Depth'
        BY <1>12, <4>1, InnermostFunction DEF Functions
      <4>3. QED BY <1>12, <4>1, <4>2
    <3>3. QED BY <1>12, <1>14, <3>1, <3>2
  <2>5. /\ \A d, e \in exits : d.quad = e.quad => d = e
        /\ cut \subseteq {e.quad : e \in exits}
    BY DEF ExitsInv
  <2>6. QED BY <1>1, <1>11, <2>1, <2>2, <2>3, <2>4, <2>5 DEF ExitsInv
<1>26. ApartInv'
  <2>1. \A k \in 1 .. Depth' : \A i \in Incomplete(open'[k]) : \A e \in exits : e.quad # i
    BY <1>12 DEF ApartInv
  <2>2. ASSUME NEW k \in 1 .. Depth', open'[k].kind \in {"if", "else"}
        PROVE  quads'[open'[k].list].label = 0
    <3>1. PICK b : b = open[k] /\ b = open'[k]
      BY <1>12
    <3>2. /\ IsConstruct(b) /\ After(b) <= n /\ quads[b.list].label = 0 /\ After(b) <= id
      BY <1>2, <1>3, <1>12, <2>2, <3>1 DEF OpenInv, ApartInv
    <3>3. b.list \in Incomplete(b)
      BY <2>2, <3>1 DEF Incomplete
    <3>4. b.list \in Nat /\ b.list < n /\ b.list < id
      BY <1>2, <3>2, <3>3, ConstructFacts
    <3>5. b.list \in DOMAIN quads
      BY <1>2, <3>4, HereFacts DEF QuadsInv
    <3>6. b.list \notin B \cup C
      <4>1. \A e \in exits : e.quad # b.list
        BY <1>12, <3>1, <3>3 DEF ApartInv
      <4>2. QED BY <1>4, <1>5, <4>1 DEF ExitsOf, Live
    <3>7. b.list \notin T
      BY <1>2, <1>6, <3>4, <3>6
    <3>8. QED BY <1>7, <3>1, <3>2, <3>5, <3>7 DEF Grown
  <2>3. QED BY <1>1, <2>1, <2>2 DEF ApartInv
<1>27. \A p : Around(Funs, closed', p) = Around(Funs, closed, p)
  BY <1>3, <1>9 DEF Around
<1>28. Below(Depth) = OpenFuns /\ \A k \in 1 .. Depth' : Below(k)' = Below(k)
  BY <1>1, <1>12, ClosedBelow
<1>29. NestInv'
  <2>1. \A k \in 1 .. Depth' : \A p \in Points(open'[k]) : Around(Funs, closed', p) = Below(k)'
    BY <1>12, <1>27, <1>28 DEF NestInv
  <2>2. \A e \in Live' : Around(Funs, closed', e.quad) = OpenFuns
    BY <1>14, <1>27 DEF NestInv
  <2>3. QED BY <1>11, <1>12, <2>1, <2>2 DEF NestInv
<1>30. Around(Funs, closed, n) = OpenFuns /\ Around(Funs, closed, n + 1) = OpenFuns
  BY <1>2, AroundHere
<1>31. JumpsInv'
  <2>1. \A p \in {id, id + 1, next, body} : Around(Funs, closed, p) = OpenFuns
    BY <1>3, <1>28 DEF NestInv
  <2>2. \A i \in B \cup C : Around(Funs, closed, i) = OpenFuns
    BY <1>4, <1>5 DEF NestInv, ExitsOf
  <2>3. \A i \in T : Around(Funs', closed', quads'[i].label) = Around(Funs', closed', i)
    BY <1>6, <1>7, <1>11, <1>27, <1>30, <2>1, <2>2
  <2>4. Around(Funs', closed', quads'[n].label) = Around(Funs', closed', n)
    BY <1>7, <1>11, <1>27, <1>30, <2>1
  <2>5. ASSUME NEW i, i \notin T, Waits(i)
        PROVE  Waits(i)'
    <3>1. (\E e \in Live : e.quad = i) \/ (\E k \in 1 .. Depth : i \in Incomplete(open[k]))
      BY <2>5 DEF Waits
    <3>2. (\E e \in Live' : e.quad = i) \/ (\E k \in 1 .. Depth' : i \in Incomplete(open'[k]))
      <4>1. CASE \E e \in Live : e.quad = i
        BY <1>6, <1>14, <1>15, <2>5, <4>1
      <4>2. CASE \E k \in 1 .. Depth : i \in Incomplete(open[k])
        BY <1>3, <1>6, <1>12, <2>5, <4>2
      <4>3. QED BY <3>1, <4>1, <4>2
    <3>3. QED BY <3>2 DEF Waits
  <2>6. \A i \in DOMAIN quads : i \notin cut' /\ ~Waits(i)' /\ i \notin T => i \notin cut /\ ~Waits(i)
    BY <1>1, <2>5
  <2>7. \A p \in Nat : p <= Here => Around(Funs', closed', p) = Around(Funs, closed, p)
    BY <1>11, <1>27
  <2>8. \A i \in DOMAIN quads' : quads'[i].op \in {"jump", "if"} =>
          i \in DOMAIN quads \/ Waits(i)' \/ Around(Funs', closed', quads'[i].label) = Around(Funs', closed', i)
    BY <1>7, <2>4
  <2>9. QED BY <1>7, <2>3, <2>6, <2>7, <2>8, JumpsKept
<1>32. ExitsArrive'
  <2>1. ASSUME NEW e \in exits, e.quad \notin cut, e.owner \in DOMAIN closed'
        PROVE  quads'[e.quad].label = Due(e)'
    <3>1. CASE e.owner = id
      <4>1. e \in Live /\ e.kind \in {"break", "continue"}
        BY <1>3, <1>10, <2>1, <3>1 DEF Live, ExitsInv
      <4>2. CASE e.kind = "break"
        <5>1. e.quad \in B
          BY <1>4, <3>1, <4>1, <4>2 DEF ExitsOf
        <5>2. quads'[e.quad].label = n + 1
          BY <1>7, <5>1
        <5>3. QED BY <1>9, <3>1, <4>2, <5>2 DEF Due
      <4>3. CASE e.kind = "continue"
        <5>1. e.quad \in C
          BY <1>5, <3>1, <4>1, <4>3 DEF ExitsOf
        <5>2. quads'[e.quad].label = next
          BY <1>7, <5>1
        <5>3. QED BY <1>9, <3>1, <4>3, <5>2 DEF Due
      <4>4. QED BY <4>1, <4>2, <4>3
    <3>2. CASE e.owner # id
      <4>1. e.owner \in DOMAIN closed
        BY <1>9, <2>1, <3>2
      <4>2. quads[e.quad].label = Due(e)
        BY <2>1, <4>1 DEF ExitsArrive, Arrives
      <4>3. e.quad \notin T /\ e.quad \in DOMAIN quads
        BY <1>18, <4>1, ArrivedWaitsNot DEF ExitsInv
      <4>4. quads'[e.quad].label = quads[e.quad].label
        BY <1>7, <4>3 DEF Grown
      <4>5. QED BY <1>9, <3>2, <4>1, <4>2, <4>4 DEF Due
    <3>3. QED BY <3>1, <3>2
  <2>2. QED BY <1>1, <2>1 DEF ExitsArrive, Arrives
<1>33. ModeInv'
  BY <1>1 DEF ModeInv
<1>34. QED BY <1>19, <1>20, <1>21, <1>22, <1>23, <1>24, <1>25, <1>26, <1>29, <1>31, <1>32, <1>33

-----------------------------------------------------------------------------
(* Functions. *)

(* A function begins: no loop is current in it, and what was pending is cut.*)
LEMMA FunctionStartKeeps ==
  ASSUME StatementsInv, FunctionStart
  PROVE  StatementsInv'
<1> USE DEF StatementsInv
<1>1. PICK n \in Nat : n = Here
  BY HereFacts DEF QuadsInv
<1>2. PICK c : c = [kind |-> "function", id |-> n]
  OBVIOUS
<1>3. PICK x : x = Quad("funcstart", 0)
  OBVIOUS
<1>4. IsQuad(x) /\ x.op = "funcstart" /\ x.label = 0
  BY <1>3 DEF IsQuad, Ops, Quad
<1>5. /\ mode = "parse" /\ quads' = Emit(quads, x) /\ funcstart_quad' = n /\ returnlist' = 0
      /\ local_offset' = 0 /\ inside_function_depth' = inside_function_depth + 1
      /\ loops' = << >> /\ open' = Append(open, c)
      /\ locals' = [i \in DOMAIN locals \cup {n} |-> IF i = n THEN << >> ELSE locals[i]]
      /\ hosts' = hosts \cup OpenFuns /\ cut' = cut \cup Pending
      /\ UNCHANGED <<mode, exits, closed>>
  BY <1>1, <1>2, <1>3 DEF FunctionStart, Room, Here, Open, OpenFuns
<1>6. /\ Numbered(quads') /\ Grown(quads, quads', {}) /\ NextQuad(quads') = n + 1
      /\ quads'[n] = x /\ n \in DOMAIN quads'
      /\ \A i \in DOMAIN quads : i \in DOMAIN quads' /\ quads'[i] = quads[i] /\ i \in Nat /\ i < n
      /\ \A i \in DOMAIN quads' : i \in DOMAIN quads \/ i = n
  <2>1. Numbered(quads) /\ n = NextQuad(quads)
    BY <1>1 DEF QuadsInv, Here
  <2>2. QED BY <1>4, <1>5, <2>1, EmitGrown
<1>7. Here' = n + 1 /\ Here' \in Nat /\ Here <= Here'
  BY <1>1, <1>6 DEF Here
<1>8. /\ c \in Constructs /\ IsConstruct(c) /\ c.kind = "function" /\ c.id = n
      /\ After(c) = n + 1 /\ Incomplete(c) = {} /\ Points(c) = {}
  BY <1>2 DEF Constructs, IsConstruct, After, Incomplete, Points
<1>9. n \notin Ids /\ n \notin DOMAIN closed /\ n \notin Funs
  BY <1>1, HereIsNew
<1>10. Funs' = Funs \cup {n}
  BY <1>4, <1>6 DEF Funs
<1>11. /\ open' \in Seq(Constructs) /\ Depth \in Nat /\ Depth' = Depth + 1
       /\ \A k \in 1 .. Depth : k \in 1 .. Depth' /\ open'[k] = open[k] /\ k < Depth + 1
       /\ \A k \in 1 .. Depth' : k \in 1 .. Depth \/ k = Depth + 1
       /\ Depth + 1 \in 1 .. Depth' /\ open'[Depth + 1] = c
  BY <1>5, <1>8, OpenedSets DEF OpenInv
<1>12. /\ Ids' = Ids \cup {n} /\ Loops' = Loops
       /\ Functions' = Functions \cup {Depth + 1} /\ OpenFuns' = OpenFuns \cup {n}
  BY <1>5, <1>8, OpenedIds DEF OpenInv
<1>13. \A e \in exits : e.owner # n /\ e.owner \in DOMAIN closed \cup Ids
  BY <1>9 DEF ExitsInv
<1>14. \A e \in exits : e.owner \in Ids => e.quad \in cut'
  BY <1>5 DEF Pending, Ids
<1>15. Live' = {}
  <2>1. ASSUME NEW e \in exits, e.quad \notin cut', e.owner \in Ids'
        PROVE  FALSE
    BY <1>12, <1>13, <1>14, <2>1
  <2>2. QED BY <1>5, <2>1 DEF Live
<1>16. \A k \in 1 .. Depth : open[k].id \in Nat /\ open[k].id < n
  BY <1>1, IdsDistinct
<1>17. Current' = {}
  <2>1. \A k \in Loops : k \in 1 .. Depth /\ open'[k].id = open[k].id
    BY <1>11 DEF Loops
  <2>2. \A k \in Loops : ~(n < open'[k].id)
    BY <1>16, <2>1
  <2>3. QED BY <1>10, <1>12, <2>2 DEF Current
<1>18. QuadsInv'
  <2>1. ASSUME NEW i \in DOMAIN quads'
        PROVE  quads'[i].label <= Here'
    <3>1. CASE i \in DOMAIN quads
      <4>1. quads'[i] = quads[i] /\ quads[i].label <= n /\ quads[i].label \in Nat
        BY <1>1, <1>6, <3>1 DEF QuadsInv, Numbered, IsQuad
      <4>2. QED BY <1>1, <1>7, <4>1
    <3>2. QED BY <1>4, <1>6, <1>7, <3>1
  <2>2. QED BY <1>6, <2>1 DEF QuadsInv
<1>19. OpenInv'
  <2>1. \A i \in DOMAIN quads : i \in Funs' <=> i \in Funs
    BY <1>6, <1>10
  <2>2. c.id = Here /\ After(c) <= Here' /\ (c.kind = "function" <=> c.id \in Funs')
    BY <1>1, <1>7, <1>8, <1>10
  <2>3. QED BY <1>5, <1>7, <1>8, <2>1, <2>2, OpenedNested
<1>20. FunsInv'
  <2>1. OpenFuns' = Funs' \ DOMAIN closed'
    BY <1>5, <1>9, <1>10, <1>12 DEF FunsInv
  <2>2. DOMAIN closed' \subseteq DOMAIN quads' /\ DOMAIN closed' \cap Ids' = {}
    BY <1>5, <1>6, <1>9, <1>12 DEF FunsInv
  <2>3. ASSUME NEW d \in DOMAIN closed
        PROVE  /\ closed[d].exit \in Nat /\ closed[d].next \in Nat
               /\ d < closed[d].exit /\ closed[d].exit <= Here'
               /\ closed[d].next <= Here'
               /\ closed[d].exit < Here'
    <3>1. /\ closed[d].exit \in Nat /\ closed[d].next \in Nat
          /\ d < closed[d].exit /\ closed[d].exit <= n /\ closed[d].next <= n
      BY <1>1 DEF FunsInv
    <3>2. QED BY <1>7, <3>1
  <2>4. funcstart_quad' \in Nat /\ funcstart_quad' <= Here' /\ funcstart_quad' \in Funs'
    BY <1>5, <1>7, <1>10
  <2>5. \A f \in Funs' : f <= funcstart_quad'
    <3>1. \A f \in Funs : f <= n
      BY <1>6 DEF Funs
    <3>2. QED BY <1>5, <1>10, <3>1
  <2>6. IsFiniteSet(Functions') /\ inside_function_depth' = Cardinality(Functions')
    <3>1. PICK d : d = Depth + 1 /\ d \notin Functions
      BY <1>11 DEF Functions
    <3>2. PICK S : S = Functions /\ IsFiniteSet(S) /\ inside_function_depth = Cardinality(S)
      BY DEF FunsInv
    <3>3. IsFiniteSet(S \cup {d}) /\ Cardinality(S \cup {d}) = Cardinality(S) + 1
      BY <3>1, <3>2, FS_AddElement
    <3>4. Functions' = S \cup {d}
      BY <1>12, <3>1, <3>2
    <3>5. QED BY <1>5, <3>2, <3>3, <3>4
  <2>7. QED BY <1>5, <2>1, <2>2, <2>3, <2>4, <2>5, <2>6 DEF FunsInv
<1>21. FramesInv'
  <2>1. /\ DOMAIN locals' = Funs' /\ locals'[n] = << >>
        /\ \A f \in Funs : locals'[f] = locals[f]
    BY <1>5, <1>9, <1>10 DEF FramesInv
  <2>2. PICK s : s = locals'[n] /\ s = << >>
    BY <2>1
  <2>3. s \in Seq(Nat) /\ Len(s) = 0 /\ DOMAIN s = {}
    BY <2>2
  <2>4. \A f \in Funs' : locals'[f] \in Seq(Nat)
    BY <1>10, <2>1, <2>2, <2>3 DEF FramesInv
  <2>5. \A f \in OpenFuns' : \A g \in Funs' : f < g => f \in hosts'
    <3>1. \A g \in Funs' : ~(n < g)
      BY <1>1, <1>6, <1>10 DEF Funs
    <3>2. QED BY <1>5, <1>12, <3>1
  <2>6. \A f \in Funs' \ hosts' : \A i \in DOMAIN locals'[f] : locals'[f][i] = i - 1
    BY <1>5, <1>10, <2>1, <2>2, <2>3 DEF FramesInv
  <2>7. \A f \in Funs' \ hosts' : f \in DOMAIN closed' => Len(locals'[f]) <= quads'[f].locals
    <3>1. \A f \in Funs : quads'[f] = quads[f]
      BY <1>6 DEF Funs
    <3>2. QED BY <1>5, <1>9, <1>10, <2>1, <3>1 DEF FramesInv
  <2>8. \A f \in Funs' \ hosts' : f = funcstart_quad' => Len(locals'[f]) <= local_offset'
    BY <1>5, <2>2, <2>3
  <2>9. \A f \in OpenFuns' \ hosts' : Len(locals'[f]) = local_offset'
    BY <1>5, <1>12, <2>2, <2>3
  <2>10. local_offset' \in Nat
    BY <1>5
  <2>11. QED BY <2>1, <2>4, <2>5, <2>6, <2>7, <2>8, <2>9, <2>10 DEF FramesInv
<1>22. LoopsInv'
  <2>1. Len(loops') = 0 /\ loops' \in Seq([breaklist : Nat, contlist : Nat])
    BY <1>5
  <2>2. PICK at : at = [i \in 1 .. 0 |-> i]
    OBVIOUS
  <2>3. 1 .. 0 = {}
    OBVIOUS
  <2>4. at \in [1 .. Len(loops') -> 1 .. Depth']
    BY <2>1, <2>2, <2>3
  <2>5. LoopsAt(at)'
    BY <1>17, <2>1, <2>3 DEF LoopsAt
  <2>6. QED BY <2>1, <2>4, <2>5 DEF LoopsInv
<1>23. ReturnsInv'
  <2>1. Returns' = {}
    BY <1>15 DEF Returns
  <2>2. Listed(quads', 0, {})
    BY DEF Listed
  <2>3. QED BY <1>5, <2>1, <2>2 DEF ReturnsInv
<1>24. ExitsInv'
  <2>1. \A e \in exits : /\ e.quad \in DOMAIN quads' /\ quads'[e.quad].op = "jump"
                         /\ e.quad # 0
                         /\ e.owner \in DOMAIN closed' \cup Ids'
                         /\ e.kind \in {"break", "continue", "return"}
                         /\ e.kind = "return" <=> e.owner \in Funs'
    BY <1>5, <1>6, <1>10, <1>12, <1>13 DEF ExitsInv
  <2>2. \A k \in 1 .. Depth' : open'[k].kind \in {"if", "else"} =>
          \A e \in exits : e.owner # open'[k].id
    BY <1>8, <1>11 DEF ExitsInv
  <2>3. cut' \subseteq {e.quad : e \in exits}
    BY <1>5 DEF ExitsInv, Pending
  <2>4. \A d, e \in exits : d.quad = e.quad => d = e
    BY DEF ExitsInv
  <2>5. QED BY <1>5, <1>15, <2>1, <2>2, <2>3, <2>4 DEF ExitsInv
<1>25. \A k \in 1 .. Depth : \A i \in Incomplete(open[k]) : i \in DOMAIN quads
  BY ConstructFacts, HereFacts DEF OpenInv, QuadsInv
<1>26. ApartInv'
  <2>1. \A k \in 1 .. Depth' : \A i \in Incomplete(open'[k]) : \A e \in exits : e.quad # i
    BY <1>8, <1>11 DEF ApartInv
  <2>2. ASSUME NEW k \in 1 .. Depth', open'[k].kind \in {"if", "else"}
        PROVE  quads'[open'[k].list].label = 0
    <3>1. k \in 1 .. Depth /\ open'[k] = open[k]
      BY <1>8, <1>11, <2>2
    <3>2. open[k].list \in Incomplete(open[k])
      BY <2>2, <3>1 DEF Incomplete
    <3>3. open[k].list \in DOMAIN quads
      BY <1>25, <3>1, <3>2
    <3>4. QED BY <1>6, <2>2, <3>1, <3>3 DEF ApartInv
  <2>3. QED BY <1>5, <2>1, <2>2 DEF ApartInv
<1>27. \A p \in Nat : p <= n => Around(Funs', closed', p) = Around(Funs, closed, p)
  <2>1. \A p \in Nat : p <= n => ~(n < p)
    OBVIOUS
  <2>2. QED BY <1>5, <1>10, <2>1 DEF Around
<1>28. NestInv'
  <2>1. ASSUME NEW k \in 1 .. Depth', NEW p \in Points(open'[k])
        PROVE  Around(Funs', closed', p) = Below(k)'
    <3>1. k \in 1 .. Depth /\ open'[k] = open[k]
      BY <1>8, <1>11
    <3>2. p \in Nat /\ p <= n
      <4>1. PICK b : b = open[k] /\ IsConstruct(b) /\ After(b) <= n
        BY <1>1, <3>1 DEF OpenInv
      <4>2. p \in Nat /\ p <= After(b) /\ After(b) \in Nat
        BY <3>1, <4>1, ConstructFacts
      <4>3. QED BY <4>1, <4>2
    <3>3. Below(k)' = Below(k)
      BY <1>5, <1>8, <3>1, OpenedBelow DEF OpenInv
    <3>4. QED BY <1>27, <3>1, <3>2, <3>3 DEF NestInv
  <2>2. QED BY <1>15, <2>1 DEF NestInv
<1>29. JumpsInv'
  <2>1. ASSUME NEW i, i \notin cut', Waits(i)
        PROVE  Waits(i)'
    <3>1. \A e \in Live : e.quad # i
      BY <1>14, <2>1 DEF Live
    <3>2. \E k \in 1 .. Depth : i \in Incomplete(open[k])
      BY <2>1, <3>1 DEF Waits
    <3>3. \E k \in 1 .. Depth' : i \in Incomplete(open'[k])
      BY <1>11, <3>2
    <3>4. QED BY <3>3 DEF Waits
  <2>2. \A i \in DOMAIN quads : i \notin cut' /\ ~Waits(i)' /\ i \notin {} => i \notin cut /\ ~Waits(i)
    BY <1>5, <2>1
  <2>3. \A i \in DOMAIN quads' : quads'[i].op \in {"jump", "if"} => i \in DOMAIN quads
    BY <1>4, <1>6
  <2>4. \A p \in Nat : p <= Here => Around(Funs', closed', p) = Around(Funs, closed, p)
    BY <1>1, <1>27
  <2>5. QED BY <1>6, <2>2, <2>3, <2>4, JumpsKept
<1>30. ExitsArrive'
  <2>1. ASSUME NEW e \in exits, e.quad \notin cut', e.owner \in DOMAIN closed
        PROVE  quads'[e.quad].label = Due(e)'
    <3>1. quads[e.quad].label = Due(e)
      BY <1>5, <2>1 DEF ExitsArrive, Arrives
    <3>2. quads'[e.quad] = quads[e.quad]
      BY <1>6 DEF ExitsInv
    <3>3. QED BY <1>5, <3>1, <3>2 DEF Due
  <2>2. QED BY <1>5, <2>1 DEF ExitsArrive, Arrives
<1>31. ModeInv'
  BY <1>5 DEF ModeInv
<1>32. QED BY <1>18, <1>19, <1>20, <1>21, <1>22, <1>23, <1>24, <1>26, <1>28, <1>29, <1>30, <1>31

(* The last construct, when it is a function: no loop is current, and all   *)
(* exits that wait are returns from it.                                     *)
LEMMA TopIsFunction ==
  ASSUME StatementsInv, Depth > 0, Top.kind = "function"
  PROVE  /\ Depth \in 1 .. Depth /\ Depth \in Functions /\ Top = open[Depth]
         /\ Top.id \in Nat /\ Top.id < Here /\ Top.id \in OpenFuns /\ Top.id \in Funs
         /\ Top.id \in Ids /\ Top.id \notin DOMAIN closed /\ Incomplete(Top) = {}
         /\ Current = {} /\ loops = << >>
         /\ \A e \in Live : e.kind = "return" /\ e.owner = Top.id
         /\ Top.id \notin hosts => Top.id = funcstart_quad
<1> USE DEF StatementsInv
<1>1. Depth \in 1 .. Depth /\ Top = open[Depth] /\ Depth \in Functions
  BY DEF OpenInv, Depth, Top, Functions
<1>2. Top.id \in Nat /\ Top.id < Here /\ Top.id \in OpenFuns /\ Top.id \in Ids
  BY <1>1, IdsDistinct DEF OpenFuns, Ids
<1>3. Top.id \in Funs /\ Top.id \notin DOMAIN closed
  BY <1>2 DEF FunsInv
<1>4. Current = {}
  <2>1. Depth \notin Current
    BY <1>1 DEF Current, Loops, Functions
  <2>2. QED BY <2>1, TopIsCurrent
<1>5. loops = << >>
  <2>1. SUFFICES ASSUME loops # << >> PROVE FALSE
    OBVIOUS
  <2>2. PICK at \in [1 .. Len(loops) -> 1 .. Depth] : LoopsAt(at)
    BY DEF LoopsInv
  <2>3. QED BY <1>4, <2>1, <2>2, InnermostIsCurrent
<1>6. Function = Depth
  <2>1. Function \in Functions /\ Depth <= Function
    BY <1>1, InnermostFunction
  <2>2. QED BY <1>1, <2>1 DEF Functions
<1>7. \A e \in Live : e.kind = "return" /\ e.owner = Top.id
  BY <1>1, <1>4, <1>6 DEF ExitsInv
<1>8. Top.id \notin hosts => Top.id = funcstart_quad
  <2>1. funcstart_quad \in Funs /\ Top.id <= funcstart_quad /\ funcstart_quad \in Nat
    BY <1>3 DEF FunsInv
  <2>2. Top.id < funcstart_quad => Top.id \in hosts
    BY <1>2, <2>1 DEF FramesInv
  <2>3. QED BY <1>2, <2>1, <2>2
<1>9. Incomplete(Top) = {}
  BY DEF Incomplete
<1>10. QED BY <1>1, <1>2, <1>3, <1>4, <1>5, <1>7, <1>8, <1>9

(* The cells of a function are counted, funcend is emitted, and the returns *)
(* go to it.                                                                *)
LEMMA FunctionEndQuads ==
  ASSUME StatementsInv, FunctionEnd
  PROVE  /\ Numbered(quads') /\ Here' = Here + 1 /\ Here \in Nat
         /\ \A i \in DOMAIN quads : i \in DOMAIN quads' /\ quads'[i].op = quads[i].op
         /\ \A i \in DOMAIN quads : i \notin Returns => quads'[i].label = quads[i].label
         /\ \A i \in Returns : i \in DOMAIN quads /\ quads'[i].label = Here
         /\ \A i \in DOMAIN quads : i # funcstart_quad => quads'[i].locals = quads[i].locals
         /\ quads'[funcstart_quad].locals = local_offset
         /\ quads'[Here].op = "funcend" /\ quads'[Here].label = 0
         /\ \A i \in DOMAIN quads' : i \in DOMAIN quads \/ i = Here
<1> USE DEF StatementsInv
<1>1. PICK n \in Nat : n = Here /\ Numbered(quads) /\ n = NextQuad(quads)
  BY HereFacts DEF QuadsInv, Here
<1>2. Depth > 0 /\ Top.kind = "function"
  BY DEF FunctionEnd
<1>3. PICK fs \in Nat : fs = funcstart_quad /\ fs \in DOMAIN quads
  BY <1>2, TopIsFunction DEF FunsInv, Funs
<1>4. PICK lo \in Nat : lo = local_offset
  BY DEF FramesInv
<1>5. PICK q1 : q1 = [quads EXCEPT ![fs].locals = lo]
  OBVIOUS
<1>6. PICK x : x = Quad("funcend", 0)
  OBVIOUS
<1>7. IsQuad(x) /\ x.op = "funcend" /\ x.label = 0
  BY <1>6 DEF IsQuad, Ops, Quad
<1>8. PICK q2 : q2 = Emit(q1, x)
  OBVIOUS
<1>9. quads' = PatchList(q2, returnlist, n)
  BY <1>1, <1>3, <1>4, <1>5, <1>6, <1>8 DEF FunctionEnd, Here
<1>10. /\ DOMAIN q1 = DOMAIN quads
       /\ \A i \in DOMAIN quads : i # fs => q1[i] = quads[i]
       /\ q1[fs] = [quads[fs] EXCEPT !.locals = lo]
  BY <1>3, <1>5
<1>11. /\ IsQuad(q1[fs]) /\ q1[fs].op = quads[fs].op /\ q1[fs].label = quads[fs].label
       /\ q1[fs].locals = lo
  <2>1. PICK y : y = quads[fs]
    OBVIOUS
  <2>2. IsQuad(y)
    BY <1>1, <1>3, <2>1 DEF Numbered
  <2>3. PICK z : z = [y EXCEPT !.locals = lo]
    OBVIOUS
  <2>4. IsQuad(z) /\ z.op = y.op /\ z.label = y.label /\ z.locals = lo
    BY <1>4, <2>2, <2>3 DEF IsQuad
  <2>5. QED BY <1>10, <2>1, <2>3, <2>4
<1>12. Numbered(q1) /\ NextQuad(q1) = n
  <2>1. NextQuad(q1) = NextQuad(quads)
    BY <1>10 DEF NextQuad
  <2>2. \A i \in DOMAIN q1 : IsQuad(q1[i])
    BY <1>1, <1>10, <1>11 DEF Numbered
  <2>3. QED BY <1>1, <1>10, <2>1, <2>2 DEF Numbered
<1>13. /\ Numbered(q2) /\ NextQuad(q2) = n + 1 /\ q2[n] = x /\ n \in DOMAIN q2
       /\ \A i \in DOMAIN q1 : i \in DOMAIN q2 /\ q2[i] = q1[i] /\ i \in Nat /\ i < n
       /\ \A i \in DOMAIN q2 : i \in DOMAIN q1 \/ i = n
  BY <1>7, <1>8, <1>12, EmitGrown
<1>14. PICK R : R = Returns
  OBVIOUS
<1>15. Listed(quads, returnlist, R)
  BY <1>14 DEF ReturnsInv
<1>16. \A i \in DOMAIN quads : i \in DOMAIN q2 /\ q2[i].label = quads[i].label /\ q2[i].op = quads[i].op
  BY <1>10, <1>11, <1>13
<1>17. \A i \in R : i \in DOMAIN quads /\ i < n /\ i \in Nat
  BY <1>10, <1>13, <1>15 DEF Listed
<1>18. Listed(q2, returnlist, R)
  BY <1>15, <1>16, <1>17, ListedStays
<1>19. /\ Grown(q2, quads', R) /\ NextQuad(quads') = NextQuad(q2) /\ DOMAIN quads' = DOMAIN q2
       /\ \A i \in R : quads'[i].label = n
  BY <1>9, <1>13, <1>18, PatchFacts
<1>20. /\ \A i \in DOMAIN q2 : quads'[i].op = q2[i].op /\ quads'[i].locals = q2[i].locals
       /\ \A i \in DOMAIN q2 : i \notin R => quads'[i].label = q2[i].label
       /\ Numbered(quads')
  BY <1>19 DEF Grown
<1>21. Here' = n + 1
  BY <1>13, <1>19 DEF Here
<1>22. /\ quads'[n].op = "funcend" /\ quads'[n].label = 0
  BY <1>7, <1>13, <1>17, <1>20
<1>23. /\ \A i \in DOMAIN quads : i # fs => quads'[i].locals = quads[i].locals
       /\ quads'[fs].locals = lo
  <2>1. \A i \in DOMAIN quads : i \in DOMAIN q2 /\ q2[i] = q1[i] /\ quads'[i].locals = q2[i].locals
    BY <1>10, <1>13, <1>20
  <2>2. \A i \in DOMAIN quads : i # fs => quads'[i].locals = quads[i].locals
    BY <1>10, <2>1
  <2>3. quads'[fs].locals = lo
    BY <1>3, <1>11, <2>1
  <2>4. QED BY <2>2, <2>3
<1>24. /\ \A i \in DOMAIN quads : i \in DOMAIN quads' /\ quads'[i].op = quads[i].op
       /\ \A i \in DOMAIN quads : i \notin R => quads'[i].label = quads[i].label
  BY <1>16, <1>19, <1>20
<1>25. \A i \in DOMAIN quads' : i \in DOMAIN quads \/ i = n
  BY <1>10, <1>13, <1>19
<1>26. QED BY <1>1, <1>3, <1>4, <1>14, <1>17, <1>19, <1>20, <1>21, <1>22, <1>23, <1>24, <1>25

(* A function ends: the state is that of the main program, or of the        *)
(* function around it, whose own is forgotten.                              *)
LEMMA FunctionEndKeeps ==
  ASSUME StatementsInv, FunctionEnd
  PROVE  StatementsInv'
<1> USE DEF StatementsInv
<1>1. /\ mode = "parse" /\ Depth > 0 /\ Top.kind = "function" /\ Close /\ returnlist' = 0
      /\ inside_function_depth' = inside_function_depth - 1
      /\ UNCHANGED <<loops, funcstart_quad, local_offset, mode, exits, cut, hosts, locals>>
  BY DEF FunctionEnd, Room
<1>2. PICK n \in Nat, id \in Nat : n = Here /\ id = Top.id /\ id < n
  BY <1>1, HereFacts, TopIsFunction DEF QuadsInv
<1>3. /\ Depth \in 1 .. Depth /\ Depth \in Functions /\ Top = open[Depth]
      /\ id \in OpenFuns /\ id \in Funs /\ id \in Ids /\ id \notin DOMAIN closed
      /\ Incomplete(Top) = {} /\ Current = {} /\ loops = << >>
      /\ \A e \in Live : e.kind = "return" /\ e.owner = id
      /\ id \notin hosts => id = funcstart_quad
  BY <1>1, <1>2, TopIsFunction
<1>4. PICK R : R = Returns
  OBVIOUS
<1>5. /\ Numbered(quads') /\ Here' = n + 1
      /\ \A i \in DOMAIN quads : i \in DOMAIN quads' /\ quads'[i].op = quads[i].op
      /\ \A i \in DOMAIN quads : i \notin R => quads'[i].label = quads[i].label
      /\ \A i \in R : i \in DOMAIN quads /\ quads'[i].label = n
      /\ \A i \in DOMAIN quads : i # funcstart_quad => quads'[i].locals = quads[i].locals
      /\ quads'[funcstart_quad].locals = local_offset
      /\ quads'[n].op = "funcend" /\ quads'[n].label = 0
      /\ \A i \in DOMAIN quads' : i \in DOMAIN quads \/ i = n
  BY <1>2, <1>4, FunctionEndQuads
<1>6. Here' \in Nat /\ Here <= Here' /\ \A i \in DOMAIN quads : i \in Nat /\ i < n
  BY <1>2, <1>5, HereFacts DEF QuadsInv
<1>7. /\ DOMAIN closed' = DOMAIN closed \cup {id}
      /\ closed'[id] = [exit |-> n, next |-> n]
      /\ \A c \in DOMAIN closed : c # id => closed'[c] = closed[c]
  <2>1. ClosedAt(id, n, n)
    BY <1>2 DEF FunctionEnd, Here
  <2>2. QED BY <2>1 DEF ClosedAt
<1>8. Funs' = Funs
  BY <1>5 DEF Funs
<1>9. /\ Ids' = Ids \ {id} /\ Functions' = Functions \ {Depth} /\ OpenFuns' = OpenFuns \ {id}
      /\ Loops' = Loops \ {Depth} /\ Depth' \in Nat
      /\ \A k \in 1 .. Depth' : k \in 1 .. Depth /\ k < Depth /\ open'[k] = open[k]
      /\ \A k \in 1 .. Depth : k \in 1 .. Depth' \/ k = Depth
  BY <1>1, <1>2, ClosedIds, ClosedSets DEF OpenInv
<1>10. Current' = {}
  BY <1>1, <1>3, <1>8, CurrentClosed
<1>11. Live' = {}
  <2>1. Live' = {e \in exits : e.quad \notin cut /\ e.owner \in Ids \ {id}}
    BY <1>1, <1>9 DEF Live
  <2>2. ASSUME NEW e \in exits, e.quad \notin cut, e.owner \in Ids
        PROVE  e.owner = id
    <3>1. e \in Live
      BY <2>2 DEF Live
    <3>2. QED BY <1>3, <3>1
  <2>3. QED BY <2>1, <2>2
<1>12. \A i \in R : Waits(i) /\ \E e \in Live : e.quad = i
  BY <1>4 DEF Returns, Waits
<1>13. \A e \in Live : e.quad \in R
  BY <1>3, <1>4 DEF Returns
<1>14. QuadsInv'
  <2>1. ASSUME NEW i \in DOMAIN quads'
        PROVE  quads'[i].label <= Here'
    <3>1. CASE i \in R
      BY <1>2, <1>5, <3>1
    <3>2. CASE i \notin R /\ i \in DOMAIN quads
      <4>1. quads'[i].label = quads[i].label /\ quads[i].label <= n /\ quads[i].label \in Nat
        BY <1>2, <1>5, <3>2 DEF QuadsInv, Numbered, IsQuad
      <4>2. QED BY <1>2, <1>5, <4>1
    <3>3. CASE i = n
      BY <1>5, <3>3
    <3>4. QED BY <1>5, <3>1, <3>2, <3>3
  <2>2. QED BY <1>5, <2>1 DEF QuadsInv
<1>15. OpenInv'
  BY <1>1, <1>6, <1>8, ClosedNested
<1>16. FunsInv'
  <2>1. OpenFuns' = Funs \ DOMAIN closed'
    BY <1>7, <1>9 DEF FunsInv
  <2>2. DOMAIN closed' \subseteq DOMAIN quads' /\ DOMAIN closed' \cap Ids' = {}
    <3>1. id \in DOMAIN quads
      BY <1>3 DEF Funs
    <3>2. QED BY <1>5, <1>7, <1>9, <3>1 DEF FunsInv
  <2>3. ASSUME NEW c \in DOMAIN closed'
        PROVE  /\ closed'[c].exit \in Nat /\ closed'[c].next \in Nat
               /\ c < closed'[c].exit /\ closed'[c].exit <= Here'
               /\ closed'[c].next <= Here'
               /\ closed'[c].exit < Here'
    <3>1. CASE c = id
      BY <1>2, <1>5, <1>7, <3>1
    <3>2. CASE c # id
      <4>1. /\ closed[c].exit \in Nat /\ closed[c].next \in Nat
            /\ c < closed[c].exit /\ closed[c].exit <= n /\ closed[c].next <= n
            /\ closed'[c] = closed[c]
        BY <1>2, <1>7, <3>2 DEF FunsInv
      <4>2. QED BY <1>2, <1>5, <4>1
    <3>3. QED BY <3>1, <3>2
  <2>4. /\ funcstart_quad \in Nat /\ funcstart_quad <= Here'
        /\ Funs # {} => funcstart_quad \in Funs
        /\ \A f \in Funs : f <= funcstart_quad
    BY <1>2, <1>5 DEF FunsInv
  <2>5. IsFiniteSet(Functions') /\ inside_function_depth' = Cardinality(Functions')
    <3>1. PICK S : S = Functions /\ IsFiniteSet(S) /\ inside_function_depth = Cardinality(S)
      BY DEF FunsInv
    <3>2. PICK d : d = Depth /\ d \in S
      BY <1>3, <3>1
    <3>3. IsFiniteSet(S \ {d}) /\ Cardinality(S \ {d}) = Cardinality(S) - 1
      BY <3>1, <3>2, FS_RemoveElement
    <3>4. Functions' = S \ {d}
      BY <1>9, <3>1, <3>2
    <3>5. QED BY <1>1, <3>1, <3>3, <3>4
  <2>6. QED BY <1>1, <1>8, <2>1, <2>2, <2>3, <2>4, <2>5 DEF FunsInv
<1>17. FramesInv'
  <2>1. OpenFuns' \subseteq OpenFuns
    BY <1>9
  <2>2. ASSUME NEW f \in Funs \ hosts, f \in DOMAIN closed'
        PROVE  Len(locals[f]) <= quads'[f].locals
    <3>1. CASE f = id
      <4>1. id = funcstart_quad /\ Len(locals[id]) = local_offset
        BY <1>3, <2>2, <3>1 DEF FramesInv
      <4>2. quads'[id].locals = local_offset /\ local_offset \in Nat
        BY <1>5, <4>1 DEF FramesInv
      <4>3. QED BY <3>1, <4>1, <4>2
    <3>2. CASE f = funcstart_quad
      <4>1. Len(locals[f]) <= local_offset
        BY <3>2 DEF FramesInv
      <4>2. QED BY <1>5, <3>2, <4>1
    <3>3. CASE f # id /\ f # funcstart_quad
      <4>1. f \in DOMAIN closed /\ f \in DOMAIN quads
        BY <1>7, <2>2, <3>3 DEF Funs
      <4>2. Len(locals[f]) <= quads[f].locals
        BY <2>2, <4>1 DEF FramesInv
      <4>3. QED BY <1>5, <3>3, <4>1, <4>2
    <3>4. QED BY <3>1, <3>2, <3>3
  <2>3. /\ local_offset \in Nat /\ DOMAIN locals = Funs
        /\ \A f \in Funs : locals[f] \in Seq(Nat)
        /\ \A f \in OpenFuns : \A g \in Funs : f < g => f \in hosts
        /\ \A f \in Funs \ hosts : \A i \in DOMAIN locals[f] : locals[f][i] = i - 1
        /\ \A f \in Funs \ hosts : f = funcstart_quad => Len(locals[f]) <= local_offset
        /\ \A f \in OpenFuns \ hosts : Len(locals[f]) = local_offset
    BY DEF FramesInv
  <2>4. \A f \in OpenFuns' : \A g \in Funs : f < g => f \in hosts
    BY <2>1, <2>3
  <2>5. \A f \in OpenFuns' \ hosts : Len(locals[f]) = local_offset
    BY <2>1, <2>3
  <2>6. QED BY <1>1, <1>8, <2>2, <2>3, <2>4, <2>5 DEF FramesInv
<1>18. LoopsInv'
  <2>1. Len(loops') = 0 /\ loops' \in Seq([breaklist : Nat, contlist : Nat])
    BY <1>1, <1>3
  <2>2. PICK at : at = [i \in 1 .. 0 |-> i]
    OBVIOUS
  <2>3. 1 .. 0 = {}
    OBVIOUS
  <2>4. at \in [1 .. Len(loops') -> 1 .. Depth']
    BY <2>1, <2>2, <2>3
  <2>5. LoopsAt(at)'
    BY <1>10, <2>1, <2>3 DEF LoopsAt
  <2>6. QED BY <2>1, <2>4, <2>5 DEF LoopsInv
<1>19. ReturnsInv'
  <2>1. Returns' = {}
    BY <1>11 DEF Returns
  <2>2. Listed(quads', 0, {})
    BY DEF Listed
  <2>3. QED BY <1>1, <2>1, <2>2 DEF ReturnsInv
<1>20. ExitsInv'
  <2>1. \A e \in exits : /\ e.quad \in DOMAIN quads' /\ quads'[e.quad].op = "jump"
                         /\ e.quad # 0
                         /\ e.owner \in DOMAIN closed' \cup Ids'
                         /\ e.kind \in {"break", "continue", "return"}
                         /\ e.kind = "return" <=> e.owner \in Funs
    BY <1>5, <1>7, <1>9 DEF ExitsInv
  <2>2. \A k \in 1 .. Depth' : open'[k].kind \in {"if", "else"} =>
          \A e \in exits : e.owner # open'[k].id
    BY <1>9 DEF ExitsInv
  <2>3. /\ \A d, e \in exits : d.quad = e.quad => d = e
        /\ cut \subseteq {e.quad : e \in exits}
    BY DEF ExitsInv
  <2>4. QED BY <1>1, <1>8, <1>11, <2>1, <2>2, <2>3 DEF ExitsInv
<1>21. \A k \in 1 .. Depth : \A i \in Incomplete(open[k]) : i \in DOMAIN quads
  BY ConstructFacts, HereFacts DEF OpenInv, QuadsInv
<1>22. ApartInv'
  <2>1. \A k \in 1 .. Depth' : \A i \in Incomplete(open'[k]) : \A e \in exits : e.quad # i
    BY <1>9 DEF ApartInv
  <2>2. ASSUME NEW k \in 1 .. Depth', open'[k].kind \in {"if", "else"}
        PROVE  quads'[open'[k].list].label = 0
    <3>1. PICK b : b = open[k] /\ b = open'[k] /\ k \in 1 .. Depth
      BY <1>9
    <3>2. b.list \in Incomplete(b) /\ quads[b.list].label = 0
      BY <2>2, <3>1 DEF Incomplete, ApartInv
    <3>3. b.list \in DOMAIN quads
      BY <1>21, <3>1, <3>2
    <3>4. b.list \notin R
      BY <1>12, <3>1, <3>2 DEF ApartInv, Live
    <3>5. QED BY <1>5, <3>1, <3>2, <3>3, <3>4
  <2>3. QED BY <1>1, <2>1, <2>2 DEF ApartInv
<1>23. \A p \in Nat : p <= n => Around(Funs', closed', p) = Around(Funs, closed, p)
  <2>1. ASSUME NEW p \in Nat, p <= n, NEW f \in Funs
        PROVE  (f \in DOMAIN closed' => p <= closed'[f].exit) <=> (f \in DOMAIN closed => p <= closed[f].exit)
    BY <1>3, <1>7, <2>1
  <2>2. QED BY <1>8, <2>1 DEF Around
<1>24. NestInv'
  <2>1. ASSUME NEW k \in 1 .. Depth', NEW p \in Points(open'[k])
        PROVE  Around(Funs', closed', p) = Below(k)'
    <3>1. PICK b : b = open[k] /\ b = open'[k] /\ k \in 1 .. Depth /\ IsConstruct(b) /\ After(b) <= n
      BY <1>2, <1>9 DEF OpenInv
    <3>2. p \in Nat /\ p <= n
      <4>1. p \in Nat /\ p <= After(b) /\ After(b) \in Nat
        BY <3>1, ConstructFacts
      <4>2. QED BY <3>1, <4>1
    <3>3. Below(k)' = Below(k)
      BY <1>1, ClosedBelow
    <3>4. QED BY <1>23, <3>1, <3>2, <3>3 DEF NestInv
  <2>2. QED BY <1>11, <2>1 DEF NestInv
<1>25. JumpsInv'
  <2>1. ASSUME NEW i \in DOMAIN quads', quads'[i].op \in {"jump", "if"}, i \notin cut, ~Waits(i)'
        PROVE  Around(Funs', closed', quads'[i].label) = Around(Funs', closed', i)
    <3>1. i \in DOMAIN quads /\ quads[i].op \in {"jump", "if"} /\ i \in Nat /\ i <= n
      <4>1. i \in DOMAIN quads
        BY <1>5, <2>1
      <4>2. QED BY <1>2, <1>5, <1>6, <2>1, <4>1
    <3>2. Around(Funs', closed', i) = Around(Funs, closed, i)
      BY <1>23, <3>1
    <3>3. CASE i \in R
      <4>1. Around(Funs, closed, i) = OpenFuns
        BY <1>12, <3>3 DEF NestInv
      <4>2. Around(Funs, closed, n) = OpenFuns
        BY <1>2, AroundHere
      <4>3. quads'[i].label = n
        BY <1>5, <3>3
      <4>4. QED BY <1>23, <3>2, <4>1, <4>2, <4>3
    <3>4. CASE i \notin R
      <4>1. ~Waits(i)
        <5>1. \A e \in Live : e.quad # i
          BY <1>13, <3>4
        <5>2. \A k \in 1 .. Depth' : i \notin Incomplete(open'[k])
          BY <2>1 DEF Waits
        <5>3. \A k \in 1 .. Depth : i \notin Incomplete(open[k])
          BY <1>3, <1>9, <5>2
        <5>4. QED BY <5>1, <5>3 DEF Waits
      <4>2. Around(Funs, closed, quads[i].label) = Around(Funs, closed, i)
        BY <2>1, <3>1, <4>1 DEF JumpsInv
      <4>3. quads'[i].label = quads[i].label /\ quads[i].label \in Nat /\ quads[i].label <= n
        BY <1>2, <1>5, <3>1, <3>4 DEF QuadsInv, Numbered, IsQuad
      <4>4. QED BY <1>23, <3>2, <4>2, <4>3
    <3>5. QED BY <3>3, <3>4
  <2>2. QED BY <1>1, <2>1 DEF JumpsInv
<1>26. ExitsArrive'
  <2>1. ASSUME NEW e \in exits, e.quad \notin cut, e.owner \in DOMAIN closed'
        PROVE  quads'[e.quad].label = Due(e)'
    <3>1. CASE e.owner = id
      <4>1. e \in Live
        BY <1>3, <2>1, <3>1 DEF Live
      <4>2. e.kind = "return" /\ e.quad \in R
        BY <1>3, <1>13, <4>1
      <4>3. quads'[e.quad].label = n
        BY <1>5, <4>2
      <4>4. QED BY <1>7, <3>1, <4>2, <4>3 DEF Due
    <3>2. CASE e.owner # id
      <4>1. e.owner \in DOMAIN closed
        BY <1>7, <2>1, <3>2
      <4>2. quads[e.quad].label = Due(e)
        BY <2>1, <4>1 DEF ExitsArrive, Arrives
      <4>3. e.quad \notin R /\ e.quad \in DOMAIN quads
        BY <1>12, <4>1, ArrivedWaitsNot DEF ExitsInv
      <4>4. quads'[e.quad].label = quads[e.quad].label
        BY <1>5, <4>3
      <4>5. QED BY <1>7, <3>2, <4>1, <4>2, <4>4 DEF Due
    <3>3. QED BY <3>1, <3>2
  <2>2. QED BY <1>1, <2>1 DEF ExitsArrive, Arrives
<1>27. ModeInv'
  BY <1>1 DEF ModeInv
<1>28. QED BY <1>14, <1>15, <1>16, <1>17, <1>18, <1>19, <1>20, <1>22, <1>24, <1>25, <1>26, <1>27

-----------------------------------------------------------------------------
(* The invariant holds. *)

LEMMA StatementsInitInv ==
  ASSUME Init
  PROVE  StatementsInv
<1>1. /\ quads = << >> /\ open = << >> /\ loops = << >>
      /\ returnlist = 0 /\ funcstart_quad = 0 /\ local_offset = 0
      /\ inside_function_depth = 0 /\ mode = "parse"
      /\ exits = {} /\ closed = << >> /\ cut = {} /\ hosts = {} /\ locals = << >>
  BY DEF Init
<1>2. DOMAIN quads = {} /\ DOMAIN closed = {} /\ DOMAIN locals = {}
  BY <1>1
<1>3. Here = 0
  BY <1>2, FS_EmptySet DEF Here, NextQuad
<1>4. Depth = 0 /\ 1 .. Depth = {} /\ Len(loops) = 0 /\ 1 .. Len(loops) = {}
  BY <1>1 DEF Depth
<1>5. QuadsInv
  <2>1. DOMAIN quads = 0 .. NextQuad(quads) - 1
    BY <1>2, <1>3 DEF Here
  <2>2. QED BY <1>2, <1>3, <2>1 DEF QuadsInv, Numbered, Here
<1>6. Functions = {} /\ Loops = {} /\ Funs = {} /\ Ids = {} /\ OpenFuns = {}
  BY <1>2, <1>4 DEF Functions, Loops, Funs, Ids, OpenFuns
<1>7. Current = {} /\ Live = {} /\ Returns = {}
  BY <1>1, <1>6 DEF Current, Live, Returns
<1>8. OpenInv
  BY <1>1, <1>4 DEF OpenInv
<1>9. FunsInv
  BY <1>1, <1>2, <1>3, <1>6, FS_EmptySet DEF FunsInv
<1>10. FramesInv
  BY <1>1, <1>2, <1>6 DEF FramesInv
<1>11. LoopsInv
  <2>1. PICK at : at = [i \in 1 .. 0 |-> i]
    OBVIOUS
  <2>2. at \in [1 .. Len(loops) -> 1 .. Depth]
    BY <1>4, <2>1
  <2>3. LoopsAt(at)
    BY <1>4, <1>7 DEF LoopsAt
  <2>4. loops \in Seq([breaklist : Nat, contlist : Nat])
    BY <1>1
  <2>5. QED BY <2>2, <2>3, <2>4 DEF LoopsInv
<1>12. ReturnsInv
  BY <1>1, <1>7 DEF ReturnsInv, Listed
<1>13. ExitsInv /\ ExitsArrive
  BY <1>1, <1>4, <1>7 DEF ExitsInv, ExitsArrive
<1>14. ApartInv /\ NestInv /\ JumpsInv /\ ModeInv
  BY <1>1, <1>2, <1>4, <1>7 DEF ApartInv, NestInv, JumpsInv, ModeInv
<1>15. QED BY <1>5, <1>8, <1>9, <1>10, <1>11, <1>12, <1>13, <1>14 DEF StatementsInv

LEMMA StatementsNextInv ==
  ASSUME StatementsInv, [Next]_vars
  PROVE  StatementsInv'
<1>1. CASE Next
  <2>1. CASE Local \/ Accept
    BY <2>1, LocalKeeps, AcceptKeeps
  <2>2. CASE While \/ For \/ EndLoop \/ Break \/ Continue
    BY <2>2, WhileKeeps, ForKeeps, EndLoopKeeps, BreakKeeps, ContinueKeeps
  <2>3. CASE If \/ EndIf \/ Else \/ EndElse
    BY <2>3, IfKeeps, EndIfKeeps, ElseKeeps, EndElseKeeps
  <2>4. CASE FunctionStart \/ FunctionEnd \/ Return
    BY <2>4, FunctionStartKeeps, FunctionEndKeeps, ReturnKeeps
  <2>5. QED BY <1>1, <2>1, <2>2, <2>3, <2>4 DEF Next
<1>2. CASE UNCHANGED vars
  <2>1. UNCHANGED <<quads, open, loops, Functional, History>> /\ mode' = mode
    BY <1>2 DEF vars, Functional, History
  <2>2. ModeInv'
    BY <2>1 DEF StatementsInv, ModeInv
  <2>3. QED BY <2>1, <2>2, ModeKeeps
<1>3. QED BY <1>1, <1>2

(* The inductive invariant holds in every state of every program.           *)
THEOREM StatementsInvariant == Spec => []StatementsInv
<1>1. Init => StatementsInv
  BY StatementsInitInv
<1>2. StatementsInv /\ [Next]_vars => StatementsInv'
  BY StatementsNextInv
<1>3. QED BY <1>1, <1>2, PTL DEF Spec

-----------------------------------------------------------------------------
(* What follows. *)

(* Labels, lists and constructs name quads that have been emitted or the    *)
(* next one, and inside_function_depth counts the functions being parsed.   *)
THEOREM StatementsTypeCorrect == Spec => []TypeOK
<1>1. ASSUME StatementsInv
      PROVE  TypeOK
  <2> USE <1>1 DEF StatementsInv
  <2>1. Here \in Nat /\ Numbers = 0 .. Here
    BY HereFacts DEF QuadsInv, Numbers, Here
  <2>2. \A i \in DOMAIN quads : quads[i].label \in Numbers /\ quads[i].locals \in Nat
    <3>1. \A i \in DOMAIN quads : /\ quads[i].label \in Nat /\ quads[i].label <= Here
                                  /\ quads[i].locals \in Nat
      BY DEF QuadsInv, Numbered, IsQuad
    <3>2. QED BY <2>1, <3>1
  <2>3. ASSUME NEW i \in DOMAIN loops
        PROVE  {loops[i].breaklist, loops[i].contlist} \subseteq DOMAIN quads
    <3>1. PICK at \in [1 .. Len(loops) -> 1 .. Depth] : LoopsAt(at)
      BY DEF LoopsInv
    <3>2. i \in 1 .. Len(loops) /\ at[i] \in 1 .. Depth
      BY <3>1 DEF LoopsInv
    <3>3. PICK c : c = open[at[i]] /\ IsConstruct(c) /\ After(c) <= Here
      BY <3>2 DEF OpenInv
    <3>4. c.id \in Nat /\ After(c) \in Nat /\ c.id < After(c)
      BY <3>3, ConstructFacts
    <3>5. Here > 0
      BY <2>1, <3>3, <3>4
    <3>6. 0 \in DOMAIN quads
      BY <2>1, <3>5, HereFacts DEF QuadsInv
    <3>7. /\ Listed(quads, loops[i].breaklist, ExitsOf(Live, "break", open[at[i]].id))
          /\ Listed(quads, loops[i].contlist, ExitsOf(Live, "continue", open[at[i]].id))
      BY <3>1, <3>2 DEF LoopsAt
    <3>8. QED BY <3>6, <3>7 DEF Listed
  <2>4. {returnlist, funcstart_quad} \subseteq Numbers
    <3>1. returnlist = 0 \/ returnlist \in DOMAIN quads
      BY DEF ReturnsInv, Listed
    <3>2. returnlist \in Numbers
      BY <2>1, <3>1, HereFacts DEF QuadsInv
    <3>3. funcstart_quad \in Numbers
      BY <2>1 DEF FunsInv
    <3>4. QED BY <3>2, <3>3
  <2>5. local_offset \in Nat /\ inside_function_depth = Cardinality(Functions)
    BY DEF FramesInv, FunsInv
  <2>6. mode \in {"parse", "accepted", "no_loop", "no_function"}
    BY DEF ModeInv
  <2>7. QED BY <2>2, <2>3, <2>4, <2>5, <2>6 DEF TypeOK
<1>2. QED BY <1>1, StatementsInvariant, PTL

(* In any nesting of loops, branches and functions, every break, continue   *)
(* and return that no function definition cuts off goes where its construct *)
(* ends or restarts: the lists that the parser threads through the quads    *)
(* lose none and mix none up.                                               *)
THEOREM ExitsReachTheirEnd == Spec => []ExitsArrive
<1>1. StatementsInv => ExitsArrive
  BY DEF StatementsInv
<1>2. QED BY <1>1, StatementsInvariant, PTL

(* In a program that is accepted no jump crosses the border of a function.  *)
THEOREM JumpsKeepToFunctions == Spec => []JumpsStayInFunction
<1>1. ASSUME StatementsInv
      PROVE  JumpsStayInFunction
  <2> USE <1>1 DEF StatementsInv
  <2>1. SUFFICES ASSUME mode = "accepted", NEW i \in DOMAIN quads,
                        quads[i].op \in {"jump", "if"}, i \notin cut
                 PROVE  CodeOf(quads[i].label) = CodeOf(i)
    BY DEF JumpsStayInFunction
  <2>2. open = << >>
    BY <2>1 DEF ModeInv
  <2>3. 1 .. Depth = {}
    BY <2>2 DEF Depth
  <2>4. Live = {} /\ OpenFuns = {}
    BY <2>3 DEF Live, Ids, OpenFuns, Functions
  <2>5. ~Waits(i)
    BY <2>3, <2>4 DEF Waits
  <2>6. Around(Funs, closed, quads[i].label) = Around(Funs, closed, i)
    BY <2>1, <2>5 DEF JumpsInv
  <2>7. ASSUME NEW p
        PROVE  Within(p) = Around(Funs, closed, p)
    <3>1. Funs \subseteq DOMAIN closed /\ DOMAIN closed \subseteq DOMAIN quads
      BY <2>4 DEF FunsInv
    <3>2. QED BY <3>1 DEF Within, Around, Funs
  <2>8. Within(quads[i].label) = Within(i)
    BY <2>6, <2>7
  <2> DEFINE Code(W) == IF W = {} THEN NextQuad(quads)
                        ELSE CHOOSE f \in W : \A g \in W : g <= f
  <2>9. \A p : CodeOf(p) = Code(Within(p))
    BY DEF CodeOf
  <2> HIDE DEF Code
  <2>10. QED BY <2>8, <2>9
<1>2. QED BY <1>1, StatementsInvariant, PTL

(* A function that defines no other reserves a cell for each of its         *)
(* variables, and no two of them share one.                                 *)
THEOREM FramesSuffice == Spec => []FramesHoldLocals
<1>1. ASSUME StatementsInv
      PROVE  FramesHoldLocals
  <2>1. SUFFICES ASSUME NEW f \in DOMAIN locals \ hosts, f \in DOMAIN closed
                 PROVE  /\ \A i \in DOMAIN locals[f] : locals[f][i] < quads[f].locals
                        /\ \A i, j \in DOMAIN locals[f] : i # j => locals[f][i] # locals[f][j]
    BY DEF FramesHoldLocals
  <2>2. /\ f \in Funs \ hosts /\ locals[f] \in Seq(Nat)
        /\ \A i \in DOMAIN locals[f] : locals[f][i] = i - 1
        /\ Len(locals[f]) <= quads[f].locals
    BY <1>1, <2>1 DEF StatementsInv, FramesInv
  <2>3. quads[f].locals \in Nat
    BY <1>1, <2>2 DEF StatementsInv, QuadsInv, Numbered, IsQuad, Funs
  <2>4. PICK s \in Seq(Nat) : s = locals[f]
    BY <2>2
  <2>5. \A i \in DOMAIN s : i \in Nat /\ 1 <= i /\ i <= Len(s)
    OBVIOUS
  <2>6. Len(s) \in Nat
    OBVIOUS
  <2>7. QED BY <2>2, <2>3, <2>4, <2>5, <2>6
<1>2. QED BY <1>1, StatementsInvariant, PTL

(* Where a break or continue is refused, every loop around it has a         *)
(* function, finished or not, that began later.                             *)
THEOREM RefusalsJustified == Spec => []RefusedRightly
<1>1. ASSUME StatementsInv
      PROVE  RefusedRightly
  <2> USE <1>1 DEF StatementsInv
  <2>1. SUFFICES ASSUME mode = "no_loop", NEW i \in Loops
                 PROVE  \/ \E j \in Functions : j > i
                        \/ \E f \in DOMAIN closed : quads[f].op = "funcstart" /\ f > open[i].id
    BY DEF RefusedRightly
  <2>2. loops = << >>
    BY <2>1 DEF ModeInv
  <2>3. Current = {}
    <3>1. PICK at \in [1 .. Len(loops) -> 1 .. Depth] : LoopsAt(at)
      BY DEF LoopsInv
    <3>2. 1 .. Len(loops) = {}
      BY <2>2
    <3>3. QED BY <3>1, <3>2 DEF LoopsAt
  <2>4. i \in 1 .. Depth /\ open[i].kind # "function" /\ open[i].id \in Nat
    BY IdsDistinct DEF Loops
  <2>5. PICK f \in Funs : ~(f < open[i].id)
    BY <2>3 DEF Current
  <2>6. f # open[i].id /\ f \in Nat
    BY <2>4, HereFacts DEF OpenInv, Funs, QuadsInv
  <2>7. f > open[i].id
    BY <2>4, <2>5, <2>6
  <2>8. CASE f \in DOMAIN closed
    BY <2>7, <2>8 DEF Funs
  <2>9. CASE f \notin DOMAIN closed
    <3>1. PICK j \in Functions : f = open[j].id
      BY <2>9 DEF FunsInv, OpenFuns
    <3>2. j \in 1 .. Depth /\ j \in Nat /\ i \in Nat
      BY <2>4 DEF Functions
    <3>3. j > i
      <4>1. CASE j < i
        BY <2>4, <2>6, <2>7, <3>1, <3>2, <4>1, IdsDistinct
      <4>2. CASE j = i
        BY <2>6, <3>1, <4>2
      <4>3. QED BY <3>2, <4>1, <4>2
    <3>4. QED BY <3>3
  <2>10. QED BY <2>8, <2>9
<1>2. QED BY <1>1, StatementsInvariant, PTL
=============================================================================
