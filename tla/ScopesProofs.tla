---------------------------- MODULE ScopesProofs ----------------------------
(***************************************************************************)
(* Proofs about names and cells, in all three states of the compiler: a    *)
(* name means its innermost declaration but for what the search overlooks  *)
(* and what stays behind a block, a function of Phase 2 reaches only what  *)
(* is its own, variables that are not to share a cell do not, and the      *)
(* final compiler's table is a stack of environments; for any names,       *)
(* formal arguments, lengths of the table and depths of nesting.           *)
(***************************************************************************)
EXTENDS ScopesProps, FunctionTheorems, FiniteSetTheorems, SequenceTheorems,
        WellFoundedInduction, TLAPS

-----------------------------------------------------------------------------
(* Numbers. *)

(* A set of natural numbers has a least element. *)
LEMMA LeastExists ==
  ASSUME NEW S \in SUBSET Nat, S # {}
  PROVE  \E m \in S : \A x \in S : m <= x
<1>1. PICK R : R = OpToRel(<, Nat) /\ IsWellFoundedOn(R, Nat)
  BY NatLessThanWellFounded
<1>2. \A x, y \in Nat : <<x, y>> \in R <=> x < y
  BY <1>1 DEF OpToRel
<1>3. PICK m \in S : \A y \in S : ~(<<y, m>> \in R)
  BY <1>1, WFMin
<1>4. ASSUME NEW x \in S
      PROVE  m <= x
  <2>1. m \in Nat /\ x \in Nat
    OBVIOUS
  <2>2. ~(x < m)
    BY <1>2, <1>3, <2>1
  <2>3. QED BY <2>1, <2>2
<1>5. QED BY <1>4

(* A set with 0, and with the next of each of its members, is Nat.        *)
LEMMA Induction ==
  ASSUME NEW S \in SUBSET Nat, 0 \in S, \A n \in S : n + 1 \in S
  PROVE  S = Nat
<1>1. SUFFICES ASSUME Nat \ S # {} PROVE FALSE
  OBVIOUS
<1>2. PICK m \in Nat \ S : \A x \in Nat \ S : m <= x
  BY <1>1, LeastExists
<1>3. m - 1 \in Nat /\ m - 1 < m
  OBVIOUS
<1>4. m - 1 \in S
  BY <1>2, <1>3
<1>5. QED BY <1>3, <1>4

(* The least member of a set of numbers is the least one.                 *)
LEMMA MinIs ==
  ASSUME NEW S \in SUBSET Nat, S # {}
  PROVE  Min(S) \in S /\ \A x \in S : Min(S) <= x
BY LeastExists DEF Min

(* A bounded set of natural numbers has a greatest element.               *)
LEMMA GreatestExists ==
  ASSUME NEW S \in SUBSET Nat, S # {}, NEW n \in Nat, \A x \in S : x <= n
  PROVE  \E m \in S : \A x \in S : x <= m
<1> DEFINE D == {n - x : x \in S}
<1>1. D \in SUBSET Nat /\ D # {}
  <2>1. \A x \in S : n - x \in Nat
    OBVIOUS
  <2>2. QED BY <2>1
<1>2. PICK d \in D : \A x \in D : d <= x
  <2> HIDE DEF D
  <2>1. QED BY <1>1, LeastExists
<1>3. PICK m \in S : d = n - m
  OBVIOUS
<1>4. ASSUME NEW x \in S
      PROVE  x <= m
  <2>1. n - x \in D
    OBVIOUS
  <2>2. n - m <= n - x
    BY <1>2, <1>3, <2>1
  <2>3. QED BY <2>2
<1>5. QED BY <1>4

(* The greatest member of a bounded set of numbers is the greatest one.   *)
LEMMA MaxIs ==
  ASSUME NEW S \in SUBSET Nat, S # {}, NEW n \in Nat, \A x \in S : x <= n
  PROVE  Max(S) \in S /\ \A x \in S : x <= Max(S)
<1>1. \E m \in S : \A x \in S : m >= x
  BY GreatestExists
<1>2. QED BY <1>1 DEF Max

-----------------------------------------------------------------------------
(* Open blocks and functions, up to one of them. *)
OpenType == [kind : {"block", "function"}, hosts : BOOLEAN]

FunctionsIn(o, b) == {i \in 1 .. b : o[i].kind = "function"}
OwnerAt(o, b) == IF FunctionsIn(o, b) = {} THEN 0 ELSE Max(FunctionsIn(o, b))
DepthAt(o, b) == b + Cardinality(FunctionsIn(o, b)) * (FunctionScopes - 1)

(* funcdef: a function has one scope, or two.                             *)
LEMMA FunctionScopesIs == version \in Versions => FunctionScopes \in {1, 2}
BY DEF FunctionScopes

(* The functions among the open blocks are finitely many.                 *)
LEMMA FunctionsCounted ==
  ASSUME NEW o, NEW b \in Nat
  PROVE  /\ IsFiniteSet(FunctionsIn(o, b)) /\ Cardinality(FunctionsIn(o, b)) \in Nat
         /\ FunctionsIn(o, b) \in SUBSET Nat
         /\ \A i \in FunctionsIn(o, b) : i \in 1 .. b
<1>1. IsFiniteSet(1 .. b)
  BY FS_Interval
<1>2. FunctionsIn(o, b) \in SUBSET (1 .. b)
  BY DEF FunctionsIn
<1>3. IsFiniteSet(FunctionsIn(o, b))
  BY <1>1, <1>2, FS_Subset
<1>4. Cardinality(FunctionsIn(o, b)) \in Nat
  BY <1>3, FS_CardinalityType
<1>5. QED BY <1>2, <1>3, <1>4

(* Only the kinds count. *)
LEMMA SameFunctions ==
  ASSUME NEW o, NEW p, NEW b \in Nat, \A i \in 1 .. b : o[i].kind = p[i].kind
  PROVE  /\ FunctionsIn(o, b) = FunctionsIn(p, b)
         /\ OwnerAt(o, b) = OwnerAt(p, b) /\ DepthAt(o, b) = DepthAt(p, b)
<1>1. FunctionsIn(o, b) = FunctionsIn(p, b)
  BY DEF FunctionsIn
<1>2. QED BY <1>1 DEF OwnerAt, DepthAt

(* Outside of all blocks there is no function.                            *)
LEMMA NoFunctions ==
  ASSUME NEW o
  PROVE  FunctionsIn(o, 0) = {} /\ OwnerAt(o, 0) = 0 /\ DepthAt(o, 0) = 0
<1>1. FunctionsIn(o, 0) = {}
  BY DEF FunctionsIn
<1>2. Cardinality({}) = 0
  BY FS_EmptySet
<1>3. DepthAt(o, 0) = 0
  BY <1>1, <1>2 DEF DepthAt, FunctionScopes
<1>4. QED BY <1>1, <1>3 DEF OwnerAt

(* One more. *)
LEMMA OneMoreOpen ==
  ASSUME version \in Versions, NEW o, NEW b \in Nat, NEW c, c = b + 1
  PROVE  /\ FunctionsIn(o, c) = IF o[c].kind = "function" THEN FunctionsIn(o, b) \cup {c}
                                ELSE FunctionsIn(o, b)
         /\ OwnerAt(o, c) = IF o[c].kind = "function" THEN c ELSE OwnerAt(o, b)
         /\ DepthAt(o, c) = DepthAt(o, b) + IF o[c].kind = "function" THEN FunctionScopes ELSE 1
         /\ Cardinality(FunctionsIn(o, c)) =
              Cardinality(FunctionsIn(o, b)) + IF o[c].kind = "function" THEN 1 ELSE 0
<1>1. FunctionsIn(o, c) = IF o[c].kind = "function" THEN FunctionsIn(o, b) \cup {c}
                          ELSE FunctionsIn(o, b)
  BY DEF FunctionsIn
<1>2. /\ IsFiniteSet(FunctionsIn(o, b)) /\ Cardinality(FunctionsIn(o, b)) \in Nat
      /\ FunctionsIn(o, b) \in SUBSET Nat
      /\ \A i \in FunctionsIn(o, b) : i \in 1 .. b
  BY FunctionsCounted
<1>3. c \notin FunctionsIn(o, b)
  BY <1>2
<1>4. Cardinality(FunctionsIn(o, c)) =
        Cardinality(FunctionsIn(o, b)) + IF o[c].kind = "function" THEN 1 ELSE 0
  <2>1. CASE o[c].kind = "function"
    BY <1>1, <1>2, <1>3, <2>1, FS_AddElement
  <2>2. CASE o[c].kind # "function"
    BY <1>1, <1>2, <2>2
  <2>3. QED BY <2>1, <2>2
<1>5. DepthAt(o, c) = DepthAt(o, b) + IF o[c].kind = "function" THEN FunctionScopes ELSE 1
  <2>1. PICK n \in Nat, m \in Nat : n = Cardinality(FunctionsIn(o, b)) /\ m = Cardinality(FunctionsIn(o, c))
    BY <1>2, <1>4
  <2>2. FunctionScopes = 1 \/ FunctionScopes = 2
    BY FunctionScopesIs
  <2>3. DepthAt(o, b) = b + n * (FunctionScopes - 1) /\ DepthAt(o, c) = c + m * (FunctionScopes - 1)
    BY <2>1 DEF DepthAt
  <2>4. m = n + IF o[c].kind = "function" THEN 1 ELSE 0
    BY <1>4, <2>1
  <2>5. QED BY <2>2, <2>3, <2>4
<1>6. OwnerAt(o, c) = IF o[c].kind = "function" THEN c ELSE OwnerAt(o, b)
  <2>1. CASE o[c].kind = "function"
    <3>1. /\ FunctionsIn(o, c) \in SUBSET Nat /\ c \in FunctionsIn(o, c)
          /\ \A i \in FunctionsIn(o, c) : i <= c
      BY <1>1, <1>2, <2>1
    <3>2. Max(FunctionsIn(o, c)) \in FunctionsIn(o, c) /\ c <= Max(FunctionsIn(o, c))
      BY <3>1, MaxIs
    <3>3. Max(FunctionsIn(o, c)) = c
      BY <3>1, <3>2
    <3>4. QED BY <2>1, <3>1, <3>3 DEF OwnerAt
  <2>2. CASE o[c].kind # "function"
    BY <1>1, <2>2 DEF OwnerAt
  <2>3. QED BY <2>1, <2>2
<1>7. QED BY <1>1, <1>4, <1>5, <1>6

(* The owner is a function, the last there is. *)
LEMMA OwnerIs ==
  ASSUME NEW o, NEW b \in Nat
  PROVE  /\ OwnerAt(o, b) \in 0 .. b
         /\ OwnerAt(o, b) = 0 <=> FunctionsIn(o, b) = {}
         /\ OwnerAt(o, b) # 0 => OwnerAt(o, b) \in FunctionsIn(o, b)
         /\ \A i \in FunctionsIn(o, b) : i <= OwnerAt(o, b)
<1>1. /\ FunctionsIn(o, b) \in SUBSET Nat
      /\ \A i \in FunctionsIn(o, b) : i \in 1 .. b
  BY FunctionsCounted
<1>2. CASE FunctionsIn(o, b) = {}
  BY <1>2 DEF OwnerAt
<1>3. CASE FunctionsIn(o, b) # {}
  <2>1. OwnerAt(o, b) = Max(FunctionsIn(o, b))
    BY <1>3 DEF OwnerAt
  <2>2. /\ Max(FunctionsIn(o, b)) \in FunctionsIn(o, b)
        /\ \A i \in FunctionsIn(o, b) : i <= Max(FunctionsIn(o, b))
    <3>1. \A i \in FunctionsIn(o, b) : i <= b
      BY <1>1
    <3>2. QED BY <1>1, <1>3, <3>1, MaxIs
  <2>3. QED BY <1>1, <1>3, <2>1, <2>2
<1>4. QED BY <1>2, <1>3

(* Farther in is deeper. *)
LEMMA Deeper ==
  ASSUME version \in Versions, NEW o, NEW b \in Nat, NEW c \in Nat, b <= c
  PROVE  /\ DepthAt(o, b) \in Nat /\ DepthAt(o, c) \in Nat
         /\ DepthAt(o, b) <= DepthAt(o, c)
         /\ b < c => DepthAt(o, b) < DepthAt(o, c)
<1>1. PICK n \in Nat, m \in Nat : n = Cardinality(FunctionsIn(o, b)) /\ m = Cardinality(FunctionsIn(o, c))
  BY FunctionsCounted
<1>2. n <= m
  <2>1. FunctionsIn(o, b) \in SUBSET FunctionsIn(o, c)
    BY DEF FunctionsIn
  <2>2. IsFiniteSet(FunctionsIn(o, c))
    BY FunctionsCounted
  <2>3. QED BY <1>1, <2>1, <2>2, FS_Subset
<1>3. FunctionScopes = 1 \/ FunctionScopes = 2
  BY FunctionScopesIs
<1>4. DepthAt(o, b) = b + n * (FunctionScopes - 1) /\ DepthAt(o, c) = c + m * (FunctionScopes - 1)
  BY <1>1 DEF DepthAt
<1>5. QED BY <1>2, <1>3, <1>4

-----------------------------------------------------------------------------
(* The two loops. *)

(* Phase 3: what remains are entries of the table. *)
Walked(F, i, t, scope) ==
  IF i = 0 THEN << >>
  ELSE IF Stays("phase3", t[i], scope) THEN Append(F[i - 1], t[i])
  ELSE F[i - 1]
IsWalk(F, n, t, scope) == F = [i \in 0 .. n |-> Walked(F, i, t, scope)]

(* The walk over the table is a function: the recursion is well-founded.  *)
LEMMA WalkExists ==
  ASSUME NEW t, NEW scope, NEW n \in Nat
  PROVE  \E F : IsWalk(F, n, t, scope)
<1> DEFINE Step(F, i) == Walked(F, i, t, scope)
           S == {m \in Nat : \E F : F = [i \in 0 .. m |-> Step(F, i)]}
<1>0. \A F, i : Step(F, i) = IF i = 0 THEN << >>
                            ELSE IF Stays("phase3", t[i], scope) THEN Append(F[i - 1], t[i])
                            ELSE F[i - 1]
  BY DEF Walked
<1> HIDE DEF Step
<1>1. 0 \in S
  <2> DEFINE F == [i \in 0 .. 0 |-> << >>]
  <2>1. \A i \in 0 .. 0 : i = 0 /\ Step(F, i) = << >>
    BY <1>0
  <2>2. F = [i \in 0 .. 0 |-> Step(F, i)]
    BY <2>1
  <2>3. QED BY <2>2
<1>2. ASSUME NEW m \in S
      PROVE  m + 1 \in S
  <2>1. m \in Nat
    OBVIOUS
  <2>2. PICK F : F = [i \in 0 .. m |-> Step(F, i)]
    OBVIOUS
  <2> DEFINE G == [i \in 0 .. m + 1 |-> IF i = m + 1 THEN Step(F, i) ELSE F[i]]
  <2>3. G = [i \in 0 .. m + 1 |-> IF i = m + 1 THEN Step(F, i) ELSE F[i]]
    OBVIOUS
  <2> HIDE DEF G
  <2>4. ASSUME NEW i \in 0 .. m + 1
        PROVE  G[i] = Step(G, i)
    <3>1. Step(G, i) = Step(F, i)
      <4>1. CASE i = 0
        BY <1>0, <4>1
      <4>2. CASE i # 0
        <5>1. i - 1 \in 0 .. m + 1 /\ i - 1 # m + 1
          BY <2>1, <4>2
        <5>2. G[i - 1] = F[i - 1]
          BY <2>3, <5>1
        <5>3. QED BY <1>0, <4>2, <5>2
      <4>3. QED BY <4>1, <4>2
    <3>2. CASE i = m + 1
      BY <2>3, <3>1, <3>2
    <3>3. CASE i # m + 1
      <4>1. i \in 0 .. m
        BY <2>1, <3>3
      <4>2. F[i] = Step(F, i)
        BY <2>2, <4>1
      <4>3. QED BY <2>3, <3>1, <3>3, <4>2
    <3>4. QED BY <3>2, <3>3
  <2>5. G = [i \in 0 .. m + 1 |-> G[i]]
    BY <2>3
  <2>6. G = [i \in 0 .. m + 1 |-> Step(G, i)]
    BY <2>4, <2>5
  <2>7. \E H : H = [i \in 0 .. m + 1 |-> Step(H, i)]
    BY <2>6
  <2>8. QED BY <2>1, <2>7
<1>3. S = Nat
  <2> HIDE DEF S
  <2>1. S \in SUBSET Nat
    BY DEF S
  <2>2. QED BY <1>1, <1>2, <2>1, Induction
<1>4. QED BY <1>3 DEF Step, IsWalk

(* deactivate_entries_from_curr_scope of Phase 3: what is left are        *)
(* entries that were there.                                               *)
LEMMA RemainingAre ==
  ASSUME NEW T, NEW t \in Seq(T), NEW scope
  PROVE  Remaining(t, scope) \in Seq({t[i] : i \in 1 .. Len(t)})
<1> DEFINE W == CHOOSE F : F = [i \in 0 .. Len(t) |-> Walked(F, i, t, scope)]
           R == {t[i] : i \in 1 .. Len(t)}
           S == {m \in Nat : m <= Len(t) => W[m] \in Seq(R)}
<1>0. Len(t) \in Nat
  OBVIOUS
<1>1. W = [i \in 0 .. Len(t) |-> Walked(W, i, t, scope)]
  <2>1. \E F : F = [i \in 0 .. Len(t) |-> Walked(F, i, t, scope)]
    <3> HIDE DEF W, R, S
    <3>1. PICK n \in Nat : n = Len(t)
      BY <1>0
    <3>2. PICK F : IsWalk(F, n, t, scope)
      BY <3>1, WalkExists
    <3>3. F = [i \in 0 .. Len(t) |-> Walked(F, i, t, scope)]
      BY <3>1, <3>2 DEF IsWalk
    <3>4. QED BY <3>3
  <2>2. QED BY <2>1
<1>2. Remaining(t, scope) = W[Len(t)]
  BY DEF Remaining, Walked
<1> HIDE DEF W
<1>3. 0 \in S
  <2>1. W[0] = << >>
    BY <1>0, <1>1 DEF Walked
  <2> HIDE DEF R
  <2>2. << >> \in Seq(R)
    OBVIOUS
  <2>3. QED BY <2>1, <2>2
<1>4. ASSUME NEW m \in S
      PROVE  m + 1 \in S
  <2>1. SUFFICES ASSUME m + 1 <= Len(t) PROVE W[m + 1] \in Seq(R)
    OBVIOUS
  <2>2. m \in Nat /\ m + 1 \in 1 .. Len(t) /\ W[m] \in Seq(R)
    BY <1>0, <2>1
  <2>3. W[m + 1] = IF Stays("phase3", t[m + 1], scope) THEN Append(W[m], t[m + 1]) ELSE W[m]
    <3>1. W[m + 1] = Walked(W, m + 1, t, scope)
      BY <1>1, <2>2
    <3>2. m + 1 # 0 /\ m + 1 - 1 = m
      BY <2>2
    <3>3. QED BY <3>1, <3>2 DEF Walked
  <2>4. t[m + 1] \in R
    BY <2>2
  <2> HIDE DEF R
  <2>5. Append(W[m], t[m + 1]) \in Seq(R)
    BY <2>2, <2>4, AppendProperties
  <2>6. QED BY <2>2, <2>3, <2>5
<1>5. S = Nat
  <2> HIDE DEF S
  <2>1. S \in SUBSET Nat
    BY DEF S
  <2>2. QED BY <1>3, <1>4, <2>1, Induction
<1>6. Len(t) \in S
  BY <1>0, <1>5
<1>7. QED BY <1>0, <1>2, <1>6

(* Lines are numbers.                                                     *)
LEMMA LinesAre == Lines \subseteq Nat
BY ScopesAssumption DEF Lines

(* The entries that the loop over the formal arguments adds. *)
LEMMA ArgumentsExist ==
  ASSUME NEW t, NEW arguments, NEW line, NEW n \in Nat
  PROVE  \E F : F = [i \in 0 .. n |-> IF i = 0 THEN t ELSE WithArgument(F[i - 1], arguments[i], line)]
<1> DEFINE Step(F, i) == IF i = 0 THEN t ELSE WithArgument(F[i - 1], arguments[i], line)
           S == {m \in Nat : \E F : F = [i \in 0 .. m |-> Step(F, i)]}
<1>1. 0 \in S
  <2> DEFINE F == [i \in 0 .. 0 |-> t]
  <2>1. F = [i \in 0 .. 0 |-> Step(F, i)]
    OBVIOUS
  <2>2. QED BY <2>1
<1>2. ASSUME NEW m \in S
      PROVE  m + 1 \in S
  <2>1. m \in Nat
    OBVIOUS
  <2>2. PICK F : F = [i \in 0 .. m |-> Step(F, i)]
    OBVIOUS
  <2> DEFINE G == [i \in 0 .. m + 1 |-> IF i = m + 1 THEN Step(F, i) ELSE F[i]]
  <2>3. G = [i \in 0 .. m + 1 |-> IF i = m + 1 THEN Step(F, i) ELSE F[i]]
    OBVIOUS
  <2> HIDE DEF G
  <2>4. ASSUME NEW i \in 0 .. m + 1
        PROVE  G[i] = Step(G, i)
    <3>1. Step(G, i) = Step(F, i)
      <4>1. CASE i = 0
        BY <4>1
      <4>2. CASE i # 0
        <5>1. i - 1 \in 0 .. m + 1 /\ i - 1 # m + 1
          BY <2>1, <4>2
        <5>2. G[i - 1] = F[i - 1]
          BY <2>3, <5>1
        <5>3. QED BY <4>2, <5>2
      <4>3. QED BY <4>1, <4>2
    <3>2. CASE i = m + 1
      BY <2>3, <3>1, <3>2
    <3>3. CASE i # m + 1
      <4>1. i \in 0 .. m
        BY <2>1, <3>3
      <4>2. F[i] = Step(F, i)
        BY <2>2, <4>1
      <4>3. QED BY <2>3, <3>1, <3>3, <4>2
    <3>4. QED BY <3>2, <3>3
  <2> HIDE DEF Step
  <2>5. G = [i \in 0 .. m + 1 |-> G[i]]
    BY <2>3
  <2>6. G = [i \in 0 .. m + 1 |-> Step(G, i)]
    BY <2>4, <2>5
  <2>7. \E H : H = [i \in 0 .. m + 1 |-> Step(H, i)]
    BY <2>6
  <2>8. QED BY <2>1, <2>7
<1>3. S = Nat
  <2> HIDE DEF S
  <2>1. S \in SUBSET Nat
    BY DEF S
  <2>2. QED BY <1>1, <1>2, <2>1, Induction
<1>4. QED BY <1>3

-----------------------------------------------------------------------------
(* Entries. *)
AnyName == Names \cup {TempNames[i] : i \in DOMAIN TempNames} \cup {"$"}
Types == Variables \cup Functions \cup {"temp"}
Spaces == {"none", "programvar", "functionlocal", "formalarg"}
EntryType == [name : AnyName, type : Types, scope : Nat, is_active : BOOLEAN,
              space : Spaces, offset : Nat, block : Nat, owner : Nat, line : Nat]

(* The k-th formal argument that is accepted. *)
IsArgument(e, k) ==
  /\ e \in EntryType /\ e.type = "argument" /\ e.scope = checkScope + 1 /\ e.is_active
  /\ e.space = IF version = "phases4_5" THEN "formalarg" ELSE "none"
  /\ e.offset = IF version = "phases4_5" THEN k - 1 ELSE 0
  /\ e.block = Block + 1 /\ e.owner = Block + 1

(* A table with arguments behind it. *)
ArgumentsBehind(t, new) ==
  /\ new \in Seq(EntryType) /\ Len(t) <= Len(new)
  /\ \A i \in 1 .. Len(t) : new[i] = t[i]
  /\ \A i \in Len(t) + 1 .. Len(new) : IsArgument(new[i], i - Len(t))

(* One round of the loop over the formal arguments.                       *)
LEMMA OneArgumentMore ==
  ASSUME NEW t \in Seq(EntryType), \A i \in 1 .. Len(t) : t[i].owner # Block + 1,
         NEW new, ArgumentsBehind(t, new), NEW name \in Names,
         checkScope \in Nat, Block \in Nat, NEW line \in Nat,
         NEW more, more = WithArgument(new, name, line)
  PROVE  ArgumentsBehind(t, more) /\ Len(more) <= Len(new) + 1
<1>1. CASE ~Accepted(new, name, line)
  <2>1. more = new
    BY <1>1 DEF WithArgument
  <2>2. Len(new) \in Nat
    BY DEF ArgumentsBehind
  <2>3. QED BY <2>1, <2>2
<1>2. CASE Accepted(new, name, line)
  <2>1. PICK e : e = Argument(new, name, line)
    OBVIOUS
  <2>2. more = Append(new, e)
    BY <1>2, <2>1 DEF WithArgument
  <2>3. /\ new \in Seq(EntryType) /\ Len(t) <= Len(new)
        /\ \A i \in 1 .. Len(t) : new[i] = t[i]
        /\ \A i \in Len(t) + 1 .. Len(new) : IsArgument(new[i], i - Len(t))
    BY DEF ArgumentsBehind
  <2>4. PICK m \in Nat, n \in Nat : m = Len(t) /\ n = Len(new) /\ m <= n /\ DOMAIN new = 1 .. n
    BY <2>3
  <2>5. Cardinality({i \in DOMAIN new : new[i].owner = Block + 1}) = n - m
    <3>1. \A i \in 1 .. n : new[i].owner = Block + 1 <=> i \in m + 1 .. n
      <4>1. ASSUME NEW i \in 1 .. n, i <= m
            PROVE  new[i].owner # Block + 1
        BY <2>3, <2>4, <4>1
      <4>2. ASSUME NEW i \in 1 .. n, ~(i <= m)
            PROVE  new[i].owner = Block + 1
        BY <2>3, <2>4, <4>2 DEF IsArgument
      <4>3. QED BY <2>4, <4>1, <4>2
    <3>2. {i \in DOMAIN new : new[i].owner = Block + 1} = m + 1 .. n
      BY <2>4, <3>1
    <3>3. m + 1 \in Int /\ n \in Int
      BY <2>4
    <3>4. Cardinality(m + 1 .. n) = IF m + 1 > n THEN 0 ELSE n - (m + 1) + 1
      BY <3>3, FS_Interval
    <3>5. Cardinality(m + 1 .. n) = n - m
      BY <2>4, <3>4
    <3>6. QED BY <3>2, <3>5
  <2>6. e = [name |-> name, type |-> "argument", scope |-> checkScope + 1, is_active |-> TRUE,
             space |-> IF version = "phases4_5" THEN "formalarg" ELSE "none",
             offset |-> IF version # "phases4_5" THEN 0 ELSE n - m,
             block |-> Block + 1, owner |-> Block + 1, line |-> line]
    BY <2>1, <2>5 DEF Argument
  <2>7. IsArgument(e, n + 1 - m)
    <3>1. name \in AnyName /\ "argument" \in Types /\ n - m \in Nat
      BY <2>4 DEF AnyName, Types, Variables
    <3>2. e \in EntryType
      BY <2>6, <3>1 DEF EntryType, Spaces
    <3>3. QED BY <2>4, <2>6, <3>2 DEF IsArgument
  <2>8. /\ more \in Seq(EntryType) /\ Len(more) = n + 1
        /\ \A i \in 1 .. n : more[i] = new[i]
        /\ more[n + 1] = e
    <3>1. e \in EntryType
      BY <2>7 DEF IsArgument
    <3>2. QED BY <2>2, <2>3, <2>4, <3>1, AppendProperties
  <2>9. \A i \in 1 .. m : more[i] = t[i]
    BY <2>3, <2>4, <2>8
  <2>10. ASSUME NEW i \in m + 1 .. n + 1
         PROVE  IsArgument(more[i], i - m)
    <3>1. CASE i = n + 1
      BY <2>7, <2>8, <3>1
    <3>2. CASE i # n + 1
      <4>1. i \in m + 1 .. n /\ i \in 1 .. n
        BY <2>4, <3>2
      <4>2. QED BY <2>3, <2>4, <2>8, <4>1
    <3>3. QED BY <3>1, <3>2
  <2>11. QED BY <2>4, <2>8, <2>9, <2>10 DEF ArgumentsBehind
<1>3. QED BY <1>1, <1>2

(* funcdef: the arguments stand behind the entries there were, with       *)
(* offsets from 0.                                                        *)
LEMMA ArgumentsAdded ==
  ASSUME NEW t \in Seq(EntryType), \A i \in 1 .. Len(t) : t[i].owner # Block + 1,
         NEW arguments \in Seq(Names), NEW line \in Nat, checkScope \in Nat, Block \in Nat
  PROVE  ArgumentsBehind(t, WithArguments(t, arguments, line))
<1> DEFINE A == CHOOSE F : F = [i \in 0 .. Len(arguments) |->
                                  IF i = 0 THEN t ELSE WithArgument(F[i - 1], arguments[i], line)]
           S == {m \in Nat : m <= Len(arguments) => ArgumentsBehind(t, A[m])}
<1>0. Len(arguments) \in Nat
  OBVIOUS
<1>1. A = [i \in 0 .. Len(arguments) |->
             IF i = 0 THEN t ELSE WithArgument(A[i - 1], arguments[i], line)]
  BY ONLY <1>0, ArgumentsExist
<1>2. WithArguments(t, arguments, line) = A[Len(arguments)]
  BY DEF WithArguments
<1> HIDE DEF A
<1>3. 0 \in S
  <2>1. A[0] = t
    BY <1>0, <1>1
  <2>2. Len(t) \in Nat
    OBVIOUS
  <2>3. ArgumentsBehind(t, t)
    BY <2>2 DEF ArgumentsBehind
  <2>4. QED BY <2>1, <2>3
<1>4. ASSUME NEW m \in S
      PROVE  m + 1 \in S
  <2>1. SUFFICES ASSUME m + 1 <= Len(arguments) PROVE ArgumentsBehind(t, A[m + 1])
    OBVIOUS
  <2>2. m \in Nat /\ m + 1 \in 1 .. Len(arguments) /\ ArgumentsBehind(t, A[m])
    BY <1>0, <2>1
  <2>3. A[m + 1] = WithArgument(A[m], arguments[m + 1], line)
    BY <1>1, <2>2, SMTT(30)
  <2>4. arguments[m + 1] \in Names
    BY <2>2
  <2>5. QED BY <2>2, <2>3, <2>4, OneArgumentMore
<1>5. S = Nat
  <2> HIDE DEF S
  <2>1. S \in SUBSET Nat
    BY DEF S
  <2>2. QED BY <1>3, <1>4, <2>1, Induction
<1>6. Len(arguments) \in S
  BY <1>0, <1>5
<1>7. QED BY <1>0, <1>2, <1>6

(* What an entry says of the open blocks: its block and owner are open or   *)
(* over, and its scope is one of the numbers its block has.                 *)
PlacedAt(e, o) ==
  /\ e.block \in 0 .. Len(o) \cup {Over}
  /\ e.owner \in FunctionsIn(o, Len(o)) \cup {0, Over}
  /\ e.block # Over => /\ e.owner = OwnerAt(o, e.block)
                       /\ e.scope <= DepthAt(o, e.block)
                       /\ e.block = 0 => e.scope = 0
                       /\ e.block # 0 => DepthAt(o, e.block - 1) < e.scope
  /\ e.block = Over => e.scope # 0

(* What is switched off, and what it is that is not. *)
SwitchedRight(e) ==
  /\ e.block # Over => e.is_active
  /\ version = "phase2" /\ e.block = Over => ~e.is_active
  /\ version = "phases4_5" /\ e.block = Over /\ e.is_active => e.type = "userfunc"

KindRight(e) ==
  /\ e.type \in {"global", "libfunc"} => e.scope = 0
  /\ version = "phase2" => e.type # "temp"
  /\ version = "phases4_5" <=> e.space # "none"
  /\ e.space \in {"functionlocal", "formalarg"} => e.owner # 0

EntryAt(e, o) == e \in EntryType /\ PlacedAt(e, o) /\ SwitchedRight(e) /\ KindRight(e)

(* What is over has a place behind all open blocks.                       *)
LEMMA OverIs == MaxOpen \in Nat /\ Over \in Nat /\ Over = MaxOpen + 1
BY ScopesAssumption DEF Over

(* An entry stays where it is when a block or function opens. *)
LEMMA EntryKept ==
  ASSUME NEW o \in Seq(OpenType), NEW p \in Seq(OpenType), Len(o) <= Len(p),
         \A i \in 1 .. Len(o) : o[i].kind = p[i].kind,
         NEW e, EntryAt(e, o)
  PROVE  EntryAt(e, p)
<1>1. PICK m \in Nat, n \in Nat : m = Len(o) /\ n = Len(p) /\ m <= n
  OBVIOUS
<1>2. PlacedAt(e, o)
  BY DEF EntryAt
<1>3. FunctionsIn(o, m) \subseteq FunctionsIn(p, n)
  BY <1>1 DEF FunctionsIn
<1>4. ASSUME NEW b \in 0 .. m
      PROVE  OwnerAt(o, b) = OwnerAt(p, b) /\ DepthAt(o, b) = DepthAt(p, b)
  <2>1. b \in Nat /\ \A i \in 1 .. b : i \in 1 .. m
    BY <1>1
  <2>2. QED BY <1>1, <2>1, SameFunctions
<1>5. e.block \in 0 .. n \cup {Over} /\ e.owner \in FunctionsIn(p, n) \cup {0, Over}
  BY <1>1, <1>2, <1>3 DEF PlacedAt
<1>6. CASE e.block # Over
  <2>1. PICK b \in 0 .. m : e.block = b
    BY <1>1, <1>2, <1>6 DEF PlacedAt
  <2>2. /\ e.owner = OwnerAt(o, b) /\ e.scope <= DepthAt(o, b)
        /\ b = 0 => e.scope = 0
        /\ b # 0 => DepthAt(o, b - 1) < e.scope
    BY <1>2, <1>6, <2>1 DEF PlacedAt
  <2>3. OwnerAt(o, b) = OwnerAt(p, b) /\ DepthAt(o, b) = DepthAt(p, b)
    BY <1>4
  <2>4. b # 0 => DepthAt(o, b - 1) = DepthAt(p, b - 1)
    <3>1. b # 0 => b - 1 \in 0 .. m
      BY <1>1
    <3>2. QED BY <3>1, <1>4
  <2>5. PlacedAt(e, p)
    BY <1>1, <1>5, <1>6, <2>1, <2>2, <2>3, <2>4 DEF PlacedAt
  <2>6. QED BY <2>5 DEF EntryAt
<1>7. CASE e.block = Over
  <2>1. PlacedAt(e, p)
    BY <1>1, <1>2, <1>5, <1>7 DEF PlacedAt
  <2>2. QED BY <2>1 DEF EntryAt
<1>8. QED BY <1>6, <1>7

(* An entry when the innermost block or function ends. *)
With(e, active) == [e EXCEPT !.is_active = active]
Moved(e) == [e EXCEPT !.block = Ended(@), !.owner = Ended(@)]
AfterEnd(e, active) == Moved(With(e, active))

(* The places of an entry once the innermost block has ended.             *)
LEMMA AfterEndIs ==
  ASSUME NEW e \in EntryType, NEW a \in BOOLEAN, Block \in Nat, NEW f, f = AfterEnd(e, a)
  PROVE  /\ f \in EntryType
         /\ f.name = e.name /\ f.type = e.type /\ f.scope = e.scope /\ f.is_active = a
         /\ f.space = e.space /\ f.offset = e.offset
         /\ f.block = Ended(e.block) /\ f.owner = Ended(e.owner)
<1>1. PICK g : g = With(e, a)
  OBVIOUS
<1>2. /\ g \in EntryType
      /\ g.name = e.name /\ g.type = e.type /\ g.scope = e.scope /\ g.is_active = a
      /\ g.space = e.space /\ g.offset = e.offset /\ g.block = e.block /\ g.owner = e.owner
  BY <1>1 DEF With, EntryType
<1>3. PICK b \in Nat, w \in Nat : b = Ended(e.block) /\ w = Ended(e.owner)
  <2>1. e.block \in Nat /\ e.owner \in Nat
    BY DEF EntryType
  <2>2. QED BY <2>1, OverIs DEF Ended
<1>4. f = [g EXCEPT !.block = b, !.owner = w]
  BY <1>1, <1>2, <1>3 DEF AfterEnd, Moved
<1>5. /\ f.name = g.name /\ f.type = g.type /\ f.scope = g.scope /\ f.is_active = g.is_active
      /\ f.space = g.space /\ f.offset = g.offset /\ f.block = b /\ f.owner = w
  BY <1>2, <1>4 DEF EntryType
<1>6. f \in EntryType
  BY <1>2, <1>4 DEF EntryType
<1>7. QED BY <1>2, <1>3, <1>5, <1>6

(* An entry stays placed when the innermost block ends, if it is switched *)
(* off as it should be.                                                   *)
LEMMA EntryEnded ==
  ASSUME version \in Versions, open \in Seq(OpenType), NEW n, n = Len(open), n # 0, n <= MaxOpen,
         NEW p \in Seq(OpenType), Len(p) = n - 1, \A i \in 1 .. n - 1 : p[i] = open[i],
         NEW e, EntryAt(e, open), NEW a \in BOOLEAN,
         e.block # Over /\ e.block # n => a,
         e.block = n \/ e.block = Over =>
           /\ version = "phase2" => ~a
           /\ version = "phases4_5" /\ a => e.type = "userfunc",
         NEW f, f = AfterEnd(e, a)
  PROVE  EntryAt(f, p)
<1>1. n \in Nat /\ n >= 1 /\ Block = n /\ n # Over /\ n - 1 \in Nat /\ Over \in Nat
  BY OverIs DEF Block
<1>2. /\ e \in EntryType /\ PlacedAt(e, open) /\ SwitchedRight(e) /\ KindRight(e)
  BY DEF EntryAt
<1>3. /\ f \in EntryType
      /\ f.type = e.type /\ f.scope = e.scope /\ f.is_active = a /\ f.space = e.space
      /\ f.block = IF e.block = n THEN Over ELSE e.block
      /\ f.owner = IF e.owner = n THEN Over ELSE e.owner
  <2>1. f \in EntryType
    BY <1>1, <1>2, AfterEndIs
  <2>2. /\ f.type = e.type /\ f.scope = e.scope /\ f.is_active = a /\ f.space = e.space
        /\ f.block = Ended(e.block) /\ f.owner = Ended(e.owner)
    BY <1>1, <1>2, AfterEndIs
  <2>3. QED BY <1>1, <2>1, <2>2 DEF Ended
<1>4. /\ e.block \in 0 .. n \cup {Over} /\ e.owner \in FunctionsIn(open, n) \cup {0, Over}
      /\ e.scope \in Nat
  BY <1>2 DEF PlacedAt, EntryType
<1>5. ASSUME NEW b \in 0 .. n - 1
      PROVE  OwnerAt(open, b) = OwnerAt(p, b) /\ DepthAt(open, b) = DepthAt(p, b)
  <2>1. b \in Nat /\ \A i \in 1 .. b : i \in 1 .. n - 1
    BY <1>1
  <2>2. \A i \in 1 .. b : open[i].kind = p[i].kind
    BY <2>1
  <2>3. QED BY <2>1, <2>2, SameFunctions
<1>6. f.owner \in FunctionsIn(p, n - 1) \cup {0, Over}
  <2>1. \A i \in FunctionsIn(open, n) : i # n => i \in FunctionsIn(p, n - 1)
    BY <1>1 DEF FunctionsIn
  <2>2. QED BY <1>3, <1>4, <2>1
<1>7. f.block \in 0 .. n - 1 \cup {Over}
  BY <1>1, <1>3, <1>4
<1>8. PlacedAt(f, p)
  <2>1. CASE e.block = Over
    <3>1. f.block = Over /\ f.scope # 0
      BY <1>1, <1>2, <1>3, <2>1 DEF PlacedAt
    <3>2. QED BY <1>6, <1>7, <3>1 DEF PlacedAt
  <2>2. CASE e.block = n
    <3>1. DepthAt(open, n - 1) < e.scope
      BY <1>1, <1>2, <2>2 DEF PlacedAt
    <3>2. DepthAt(open, n - 1) \in Nat
      BY <1>1, Deeper
    <3>3. f.block = Over /\ f.scope # 0
      BY <1>3, <1>4, <2>2, <3>1, <3>2
    <3>4. QED BY <1>6, <1>7, <3>3 DEF PlacedAt
  <2>3. CASE e.block # n /\ e.block # Over
    <3>1. PICK b \in 0 .. n - 1 : e.block = b /\ f.block = b
      BY <1>1, <1>3, <1>4, <2>3
    <3>2. /\ e.owner = OwnerAt(open, b) /\ e.scope <= DepthAt(open, b)
          /\ b = 0 => e.scope = 0
          /\ b # 0 => DepthAt(open, b - 1) < e.scope
      BY <1>2, <2>3, <3>1 DEF PlacedAt
    <3>3. OwnerAt(open, b) = OwnerAt(p, b) /\ DepthAt(open, b) = DepthAt(p, b)
      BY <1>5
    <3>4. b # 0 => DepthAt(open, b - 1) = DepthAt(p, b - 1)
      <4>1. b # 0 => b - 1 \in 0 .. n - 1
        BY <1>1
      <4>2. QED BY <1>5, <4>1
    <3>5. f.owner = OwnerAt(p, b)
      <4>1. OwnerAt(open, b) \in 0 .. b
        BY <1>1, OwnerIs
      <4>2. e.owner # n
        BY <1>1, <3>2, <4>1
      <4>3. QED BY <1>3, <3>2, <3>3, <4>2
    <3>6. f.scope <= DepthAt(p, b) /\ (b = 0 => f.scope = 0) /\ (b # 0 => DepthAt(p, b - 1) < f.scope)
      BY <1>3, <3>2, <3>3, <3>4
    <3>7. b # Over
      BY <2>3, <3>1
    <3>8. QED BY <1>6, <1>7, <3>1, <3>5, <3>6, <3>7 DEF PlacedAt
  <2>4. QED BY <2>1, <2>2, <2>3
<1>9. SwitchedRight(f)
  <2>1. f.block # Over => e.block # Over /\ e.block # n
    BY <1>1, <1>3
  <2>2. f.block = Over => e.block = Over \/ e.block = n
    BY <1>1, <1>3
  <2>3. QED BY <1>3, <2>1, <2>2 DEF SwitchedRight
<1>10. KindRight(f)
  <2>1. Over # 0
    BY OverIs
  <2>2. QED BY <1>2, <1>3, <2>1 DEF KindRight
<1>11. QED BY <1>3, <1>8, <1>9, <1>10 DEF EntryAt

OpenInv ==
  /\ version \in Versions
  /\ open \in Seq(OpenType) /\ Len(open) <= MaxOpen
  /\ checkScope = DepthAt(open, Len(open))
  /\ inside_function_depth = Cardinality(FunctionsIn(open, Len(open)))
  /\ global_offset \in Nat /\ local_offset \in Nat /\ formal_offset \in Nat
  /\ tempcounter \in Nat

(* Here. *)
LEMMA HereIs ==
  ASSUME OpenInv
  PROVE  /\ Block \in Nat /\ Block = Len(open) /\ Block # Over /\ DOMAIN open = 1 .. Block
         /\ OpenFunctions = FunctionsIn(open, Block)
         /\ Owner = OwnerAt(open, Block)
         /\ Owner \in 0 .. Block /\ (Owner # 0 => Owner \in OpenFunctions)
         /\ Owner = 0 <=> OpenFunctions = {}
         /\ checkScope = DepthAt(open, Block) /\ checkScope \in Nat
         /\ inside_function_depth \in Nat
         /\ inside_function_depth = Cardinality(FunctionsIn(open, Block))
         /\ inside_function_depth > 0 <=> Owner # 0
<1>1. Block \in Nat /\ Block = Len(open) /\ Block # Over /\ DOMAIN open = 1 .. Block
  BY OverIs DEF OpenInv, Block
<1>2. OpenFunctions = FunctionsIn(open, Block)
  BY <1>1 DEF OpenFunctions, FunctionsIn
<1>3. Owner = OwnerAt(open, Block)
  BY <1>2 DEF Owner, OwnerAt
<1>4. /\ OwnerAt(open, Block) \in 0 .. Block
      /\ OwnerAt(open, Block) = 0 <=> FunctionsIn(open, Block) = {}
      /\ OwnerAt(open, Block) # 0 => OwnerAt(open, Block) \in FunctionsIn(open, Block)
  BY <1>1, OwnerIs
<1>5. checkScope = DepthAt(open, Block)
  BY <1>1 DEF OpenInv
<1>6. DepthAt(open, Block) \in Nat
  <2>1. version \in Versions /\ Block <= Block
    BY <1>1 DEF OpenInv
  <2>2. QED BY <1>1, <2>1, Deeper
<1>7. inside_function_depth = Cardinality(FunctionsIn(open, Block))
  BY <1>1 DEF OpenInv
<1>8. IsFiniteSet(FunctionsIn(open, Block)) /\ Cardinality(FunctionsIn(open, Block)) \in Nat
  BY <1>1, FunctionsCounted
<1>9. Cardinality(FunctionsIn(open, Block)) = 0 <=> FunctionsIn(open, Block) = {}
  BY <1>8, FS_EmptySet
<1>10. inside_function_depth \in Nat /\ (inside_function_depth > 0 <=> Owner # 0)
  BY <1>3, <1>4, <1>7, <1>8, <1>9
<1>11. QED BY <1>1, <1>2, <1>3, <1>4, <1>5, <1>6, <1>7, <1>10

(* What is declared here is an entry of the innermost block. *)
LEMMA SpaceIs ==
  ASSUME OpenInv, NEW type
  PROVE  /\ Space(type) \in Spaces
         /\ version = "phases4_5" <=> Space(type) # "none"
         /\ Space(type) \in {"functionlocal", "formalarg"} => Owner # 0
         /\ Offset(Space(type)) \in Nat
<1>1. inside_function_depth > 0 <=> Owner # 0
  BY HereIs
<1>2. /\ Space(type) \in Spaces
      /\ version = "phases4_5" <=> Space(type) # "none"
      /\ Space(type) \in {"functionlocal", "formalarg"} => Owner # 0
  <2>1. CASE version # "phases4_5"
    <3>1. Space(type) = "none"
      BY <2>1 DEF Space
    <3>2. QED BY <2>1, <3>1 DEF Spaces
  <2>2. CASE version = "phases4_5" /\ inside_function_depth > 0 /\ type = "argument"
    <3>1. Space(type) = "formalarg"
      BY <2>2 DEF Space
    <3>2. QED BY <1>1, <2>2, <3>1 DEF Spaces
  <2>3. CASE /\ version = "phases4_5" /\ inside_function_depth > 0
             /\ type \in {"local", "temp"} /\ type # "argument"
    <3>1. Space(type) = "functionlocal"
      BY <2>3 DEF Space
    <3>2. QED BY <1>1, <2>3, <3>1 DEF Spaces
  <2>4. CASE /\ version = "phases4_5" /\ ~(inside_function_depth > 0 /\ type = "argument")
             /\ ~(inside_function_depth > 0 /\ type \in {"local", "temp"})
    <3>1. Space(type) = "programvar"
      BY <2>4 DEF Space
    <3>2. QED BY <2>4, <3>1 DEF Spaces
  <2>5. QED BY <2>1, <2>2, <2>3, <2>4
<1>3. Offset(Space(type)) \in Nat
  BY DEF Offset, OpenInv
<1>4. QED BY <1>2, <1>3

(* A new entry is placed in the innermost block, and its cell is the next *)
(* one.                                                                   *)
LEMMA EntryNew ==
  ASSUME OpenInv, NEW name \in AnyName, NEW type \in Types,
         type \in {"global", "libfunc"} => checkScope = 0,
         version = "phase2" => type # "temp",
         NEW e, e = Entry(name, type)
  PROVE  /\ EntryAt(e, open)
         /\ e.name = name /\ e.type = type /\ e.scope = checkScope /\ e.is_active
         /\ e.space = Space(type) /\ e.offset = Offset(Space(type))
         /\ e.block = Block /\ e.owner = Owner
<1>1. /\ Block \in Nat /\ Block = Len(open) /\ Block # Over
      /\ OpenFunctions = FunctionsIn(open, Block)
      /\ Owner = OwnerAt(open, Block)
      /\ Owner \in 0 .. Block /\ (Owner # 0 => Owner \in OpenFunctions)
      /\ checkScope = DepthAt(open, Block) /\ checkScope \in Nat
  BY HereIs
<1>2. PICK s \in Spaces, k \in Nat :
        /\ s = Space(type) /\ k = Offset(Space(type))
        /\ version = "phases4_5" <=> s # "none"
        /\ s \in {"functionlocal", "formalarg"} => Owner # 0
  BY SpaceIs
<1>3. PICK w \in Nat, b \in Nat, c \in Nat : w = Owner /\ b = Block /\ c = checkScope
  BY <1>1, SMTT(30)
<1>4. e = [name |-> name, type |-> type, scope |-> c, is_active |-> TRUE,
           space |-> s, offset |-> k, block |-> b, owner |-> w, line |-> 0]
  BY <1>2, <1>3 DEF Entry
<1>5. e \in EntryType
  BY <1>4 DEF EntryType
<1>6. PlacedAt(e, open)
  <2>1. e.block \in 0 .. Len(open) \cup {Over} /\ e.block = Block
    BY <1>1, <1>3, <1>4
  <2>2. e.owner \in FunctionsIn(open, Len(open)) \cup {0, Over} /\ e.owner = OwnerAt(open, Block)
    BY <1>1, <1>3, <1>4
  <2>3. e.scope <= DepthAt(open, Block) /\ e.scope = DepthAt(open, Block)
    BY <1>1, <1>3, <1>4
  <2>4. Block = 0 => e.scope = 0
    BY <2>3, NoFunctions
  <2>5. Block # 0 => DepthAt(open, Block - 1) < e.scope
    <3>1. SUFFICES ASSUME Block # 0 PROVE DepthAt(open, Block - 1) < DepthAt(open, Block)
      BY <2>3
    <3>2. Block - 1 \in Nat /\ Block - 1 <= Block /\ Block - 1 < Block /\ version \in Versions
      BY <1>1, <3>1 DEF OpenInv
    <3>3. QED BY <1>1, <3>2, Deeper
  <2>6. e.block # Over
    BY <1>1, <2>1
  <2>7. QED BY <2>1, <2>2, <2>3, <2>4, <2>5, <2>6 DEF PlacedAt
<1>7. SwitchedRight(e)
  <2>1. e.is_active /\ e.block # Over
    BY <1>1, <1>3, <1>4
  <2>2. QED BY <2>1 DEF SwitchedRight
<1>8. KindRight(e)
  <2>1. e.type = type /\ e.scope = checkScope /\ e.space = s /\ e.owner = Owner
    BY <1>3, <1>4
  <2>2. QED BY <1>2, <2>1 DEF KindRight
<1>9. QED BY <1>2, <1>3, <1>4, <1>5, <1>6, <1>7, <1>8 DEF EntryAt

(* The formal arguments are entries of the new function. *)
LEMMA ArgumentAt ==
  ASSUME OpenInv, Block < MaxOpen, NEW p \in Seq(OpenType), Len(p) = Block + 1,
         \A i \in 1 .. Block : p[i].kind = open[i].kind, p[Block + 1].kind = "function",
         NEW e, NEW k, IsArgument(e, k)
  PROVE  EntryAt(e, p)
<1>1. /\ Block \in Nat /\ checkScope = DepthAt(open, Block) /\ checkScope \in Nat
      /\ Block + 1 # Over /\ Block + 1 # 0 /\ Over \in Nat
  BY HereIs, OverIs
<1>2. PICK n \in Nat, c \in Nat : n = Block /\ c = n + 1
  BY <1>1
<1>3. /\ e \in EntryType /\ e.type = "argument" /\ e.scope = checkScope + 1 /\ e.is_active
      /\ e.space = IF version = "phases4_5" THEN "formalarg" ELSE "none"
      /\ e.block = c /\ e.owner = c
  BY <1>2 DEF IsArgument
<1>4. /\ FunctionsIn(p, c) = FunctionsIn(p, n) \cup {c}
      /\ OwnerAt(p, c) = c
      /\ DepthAt(p, c) = DepthAt(p, n) + FunctionScopes
  <2>1. version \in Versions /\ p[c].kind = "function"
    BY <1>2 DEF OpenInv
  <2>2. /\ FunctionsIn(p, c) = IF p[c].kind = "function" THEN FunctionsIn(p, n) \cup {c}
                                ELSE FunctionsIn(p, n)
        /\ OwnerAt(p, c) = IF p[c].kind = "function" THEN c ELSE OwnerAt(p, n)
        /\ DepthAt(p, c) = DepthAt(p, n) + IF p[c].kind = "function" THEN FunctionScopes ELSE 1
    BY <1>2, <2>1, OneMoreOpen, ZenonT(60)
  <2>3. QED BY <2>1, <2>2
<1>5. DepthAt(p, n) = checkScope
  <2>1. \A i \in 1 .. n : p[i].kind = open[i].kind
    BY <1>2
  <2>2. DepthAt(p, n) = DepthAt(open, n)
    BY <2>1, SameFunctions
  <2>3. QED BY <1>1, <1>2, <2>2
<1>6. PlacedAt(e, p)
  <2>1. e.block \in 0 .. Len(p) \cup {Over} /\ e.owner \in FunctionsIn(p, Len(p)) \cup {0, Over}
    BY <1>2, <1>3, <1>4
  <2>2. FunctionScopes = 1 \/ FunctionScopes = 2
    BY FunctionScopesIs DEF OpenInv
  <2>3. e.scope <= DepthAt(p, c) /\ c - 1 = n /\ DepthAt(p, n) < e.scope
    BY <1>1, <1>2, <1>3, <1>4, <1>5, <2>2
  <2>4. e.block # Over /\ e.block # 0 /\ e.owner = OwnerAt(p, e.block)
    BY <1>1, <1>2, <1>3, <1>4
  <2>5. QED BY <1>3, <2>1, <2>3, <2>4 DEF PlacedAt
<1>7. SwitchedRight(e)
  BY <1>1, <1>2, <1>3 DEF SwitchedRight
<1>8. KindRight(e)
  <2>1. c # 0
    BY <1>2
  <2>2. QED BY <1>3, <2>1 DEF KindRight
<1>9. QED BY <1>3, <1>6, <1>7, <1>8 DEF EntryAt

(* The end of a scope leaves entries of the outer ones alone, and switches  *)
(* off what it should: in the final compiler all but functions.             *)
EndsRight(e, active) ==
  /\ e.block # Over /\ e.block # Block => active
  /\ e.block \in {Block, Over} => /\ version = "phase2" => ~active
                                  /\ version = "phases4_5" /\ active => e.type = "userfunc"

Off(e, scope) == With(e, e.is_active /\ Stays(version, e, scope))

(* What leaves the table as the innermost block or function ends. *)
Leaving(t) ==
  IF open[Block].kind = "block" \/ version = "phase2" THEN Left(t, checkScope)
  ELSE Left(Left(t, checkScope), checkScope - 1)

(* The parts of what is known of an entry.                                *)
LEMMA EntryIs ==
  ASSUME NEW e \in EntryType
  PROVE  e = [name |-> e.name, type |-> e.type, scope |-> e.scope, is_active |-> e.is_active,
              space |-> e.space, offset |-> e.offset, block |-> e.block, owner |-> e.owner,
              line |-> e.line]
BY DEF EntryType

(* What is switched off is so in all fields but one.                      *)
LEMMA ActiveIs ==
  ASSUME NEW e \in EntryType, NEW a \in BOOLEAN, NEW f, f = With(e, a)
  PROVE  /\ f \in EntryType /\ f.is_active = a /\ f.type = e.type /\ f.scope = e.scope
         /\ f.block = e.block /\ f.owner = e.owner
         /\ \A b \in BOOLEAN : With(f, b) = With(e, b)
         /\ Moved(f) = AfterEnd(e, a)
<1>1. e = [name |-> e.name, type |-> e.type, scope |-> e.scope, is_active |-> e.is_active,
           space |-> e.space, offset |-> e.offset, block |-> e.block, owner |-> e.owner,
           line |-> e.line]
  BY EntryIs
<1>2. f = [name |-> e.name, type |-> e.type, scope |-> e.scope, is_active |-> a,
           space |-> e.space, offset |-> e.offset, block |-> e.block, owner |-> e.owner,
           line |-> e.line]
  BY <1>1 DEF With
<1>3. f \in EntryType /\ f.is_active = a /\ f.type = e.type /\ f.scope = e.scope
      /\ f.block = e.block /\ f.owner = e.owner
  BY <1>2 DEF EntryType
<1>4. \A b \in BOOLEAN : With(f, b) = With(e, b)
  BY <1>1, <1>2 DEF With
<1>5. Moved(f) = AfterEnd(e, a)
  BY DEF AfterEnd
<1>6. QED BY <1>3, <1>4, <1>5

(* Its block says which scopes an entry may have. *)
LEMMA ScopeIs ==
  ASSUME OpenInv, Block # 0, NEW e, EntryAt(e, open)
  PROVE  /\ e.scope \in Nat
         /\ e.block # Over /\ e.block # Block =>
              e.scope <= checkScope - IF open[Block].kind = "function" THEN FunctionScopes ELSE 1
         /\ e.block = Block =>
              /\ e.scope # 0 /\ e.scope <= checkScope
              /\ e.scope = checkScope \/ (/\ open[Block].kind = "function" /\ version # "phase2"
                                          /\ e.scope = checkScope - 1)
<1>1. PICK n \in Nat, m \in Nat : n = Block /\ n = m + 1
  BY HereIs
<1>2. /\ version \in Versions /\ checkScope = DepthAt(open, n) /\ checkScope \in Nat
      /\ Block = Len(open) /\ n # Over
  BY <1>1, HereIs DEF OpenInv
<1>3. checkScope = DepthAt(open, m) + IF open[n].kind = "function" THEN FunctionScopes ELSE 1
  BY <1>1, <1>2, OneMoreOpen
<1>4. DepthAt(open, m) \in Nat
  <2>1. m <= m
    BY <1>1
  <2>2. QED BY <1>1, <1>2, <2>1, Deeper
<1>5. FunctionScopes = IF version = "phase2" THEN 1 ELSE 2
  BY DEF FunctionScopes
<1>6. e \in EntryType /\ PlacedAt(e, open) /\ e.scope \in Nat
  BY DEF EntryAt, EntryType
<1>7. ASSUME e.block # Over, e.block # n
      PROVE  e.scope <= DepthAt(open, m)
  <2>0. e.block \in 0 .. n /\ e.scope <= DepthAt(open, e.block)
    BY <1>1, <1>2, <1>6, <1>7 DEF PlacedAt
  <2>1. PICK b \in Nat : b = e.block /\ b <= m /\ e.scope <= DepthAt(open, b)
    BY <1>1, <1>7, <2>0
  <2>2. DepthAt(open, b) \in Nat /\ DepthAt(open, b) <= DepthAt(open, m)
    BY <1>1, <1>2, <2>1, Deeper
  <2>3. QED BY <1>4, <1>6, <2>1, <2>2
<1>8. ASSUME e.block = n
      PROVE  e.scope <= checkScope /\ DepthAt(open, m) < e.scope
  <2>1. n - 1 = m /\ n # 0
    BY <1>1
  <2>2. QED BY <1>1, <1>2, <1>6, <1>8, <2>1 DEF PlacedAt
<1>9. e.block # Over /\ e.block # Block =>
        e.scope <= checkScope - IF open[Block].kind = "function" THEN FunctionScopes ELSE 1
  BY <1>1, <1>3, <1>4, <1>5, <1>7
<1>10. ASSUME e.block = Block
       PROVE  /\ e.scope # 0 /\ e.scope <= checkScope
              /\ e.scope = checkScope \/ (/\ open[Block].kind = "function" /\ version # "phase2"
                                          /\ e.scope = checkScope - 1)
  <2>1. e.scope <= checkScope /\ DepthAt(open, m) < e.scope
    BY <1>1, <1>8, <1>10
  <2>2. PICK d \in Nat, c \in Nat, s \in Nat : d = DepthAt(open, m) /\ c = checkScope /\ s = e.scope
    BY <1>2, <1>4, <1>6
  <2>3. c = d + IF open[Block].kind = "function" THEN FunctionScopes ELSE 1
    BY <1>1, <1>3, <2>2
  <2>4. QED BY <1>5, <2>1, <2>2, <2>3
<1>11. QED BY <1>6, <1>9, <1>10

(* One entry. *)
LEMMA SwitchedOff ==
  ASSUME OpenInv, Block # 0, NEW e, EntryAt(e, open), version # "phase3",
         NEW f, f = IF open[Block].kind = "block" \/ version = "phase2" THEN Off(e, checkScope)
                    ELSE Off(Off(e, checkScope), checkScope - 1)
  PROVE  \E a \in BOOLEAN : EndsRight(e, a) /\ f = With(e, a)
<1>1. e \in EntryType /\ e.is_active \in BOOLEAN /\ SwitchedRight(e) /\ KindRight(e)
  BY DEF EntryAt, EntryType
<1>2. /\ e.scope \in Nat /\ checkScope \in Nat
      /\ e.block # Over /\ e.block # Block =>
           e.scope <= checkScope - IF open[Block].kind = "function" THEN FunctionScopes ELSE 1
      /\ e.block = Block =>
           /\ e.scope # 0 /\ e.scope <= checkScope
           /\ e.scope = checkScope \/ (/\ open[Block].kind = "function" /\ version # "phase2"
                                       /\ e.scope = checkScope - 1)
  BY ScopeIs, HereIs
<1>3. open[Block].kind = "function" \/ open[Block].kind = "block"
  <2>1. Block \in 1 .. Len(open) /\ open \in Seq(OpenType)
    BY HereIs DEF OpenInv
  <2>2. open[Block] \in OpenType
    BY <2>1
  <2>3. QED BY <2>2 DEF OpenType
<1>4. FunctionScopes = (IF version = "phase2" THEN 1 ELSE 2) /\ version \in {"phase2", "phases4_5"}
  BY DEF FunctionScopes, OpenInv, Versions
<1>5. Stays(version, e, checkScope) \in BOOLEAN /\ Stays(version, e, checkScope - 1) \in BOOLEAN
  BY DEF Stays
<1>6. PICK a1 \in BOOLEAN, a2 \in BOOLEAN :
        /\ a1 = (e.is_active /\ Stays(version, e, checkScope))
        /\ a2 = (a1 /\ Stays(version, e, checkScope - 1))
  BY <1>1, <1>5
<1>7. Kept(version, e) /\ e.block = Block => version = "phases4_5" /\ e.type = "userfunc"
  <2>1. ASSUME Kept(version, e), e.block = Block
        PROVE  version = "phases4_5" /\ e.type = "userfunc"
    <3>1. e.scope # 0 /\ e.type \notin {"global", "libfunc"}
      BY <1>1, <1>2, <2>1 DEF KindRight
    <3>2. CASE version = "phase2"
      BY <2>1, <3>1, <3>2 DEF Kept
    <3>3. CASE version = "phases4_5"
      BY <2>1, <3>1, <3>3 DEF Kept
    <3>4. QED BY <1>4, <3>2, <3>3
  <2>2. QED BY <2>1
<1>8. Off(e, checkScope) = With(e, a1)
  BY <1>6 DEF Off
<1>9. CASE open[Block].kind = "block" \/ version = "phase2"
  <2>1. f = With(e, a1)
    BY <1>8, <1>9
  <2>2. ASSUME e.block # Over, e.block # Block
        PROVE  a1
    <3>1. e.is_active /\ e.scope # checkScope
      BY <1>1, <1>2, <1>4, <1>9, <2>2 DEF SwitchedRight
    <3>2. QED BY <1>6, <3>1 DEF Stays
  <2>3. ASSUME e.block = Block, a1
        PROVE  version = "phases4_5" /\ e.type = "userfunc"
    <3>1. e.scope = checkScope
      BY <1>2, <1>9, <2>3
    <3>2. Kept(version, e)
      BY <1>6, <2>3, <3>1 DEF Stays
    <3>3. QED BY <1>7, <2>3, <3>2
  <2>4. ASSUME e.block = Over, a1
        PROVE  version = "phases4_5" /\ e.type = "userfunc"
    <3>1. e.is_active
      BY <1>6, <2>4
    <3>2. QED BY <1>1, <1>4, <2>4, <3>1 DEF SwitchedRight
  <2>5. EndsRight(e, a1)
    BY <2>2, <2>3, <2>4 DEF EndsRight
  <2>6. QED BY <2>1, <2>5
<1>10. CASE open[Block].kind = "function" /\ open[Block].kind # "block" /\ version # "phase2"
  <2>0. version = "phases4_5" /\ FunctionScopes = 2
    BY <1>4, <1>10
  <2>1. f = With(e, a2)
    <3>1. PICK g : g = Off(e, checkScope)
      OBVIOUS
    <3>2. g = With(e, a1)
      BY <1>8, <3>1
    <3>3. /\ g.is_active = a1 /\ g.type = e.type /\ g.scope = e.scope
          /\ \A b \in BOOLEAN : With(g, b) = With(e, b)
      BY <1>1, <3>2, ActiveIs
    <3>4. Stays(version, g, checkScope - 1) <=> Stays(version, e, checkScope - 1)
      BY <2>0, <3>3 DEF Stays, Kept
    <3>5. Off(g, checkScope - 1) = With(g, a2)
      <4>1. a2 = (g.is_active /\ Stays(version, g, checkScope - 1))
        BY <1>5, <1>6, <3>3, <3>4
      <4>2. QED BY <4>1 DEF Off
    <3>6. f = Off(g, checkScope - 1)
      BY <1>10, <3>1
    <3>7. QED BY <3>3, <3>5, <3>6
  <2>2. ASSUME e.block # Over, e.block # Block
        PROVE  a2
    <3>1. e.is_active /\ e.scope # checkScope /\ e.scope # checkScope - 1
      BY <1>1, <1>2, <1>10, <2>0, <2>2 DEF SwitchedRight
    <3>2. QED BY <1>6, <3>1 DEF Stays
  <2>3. ASSUME e.block = Block, a2
        PROVE  e.type = "userfunc"
    <3>1. e.scope = checkScope \/ e.scope = checkScope - 1
      BY <1>2, <2>3
    <3>2. Kept(version, e)
      BY <1>6, <2>3, <3>1 DEF Stays
    <3>3. QED BY <1>7, <2>3, <3>2
  <2>4. ASSUME e.block = Over, a2
        PROVE  e.type = "userfunc"
    <3>1. e.is_active
      BY <1>6, <2>4
    <3>2. QED BY <1>1, <2>0, <2>4, <3>1 DEF SwitchedRight
  <2>5. EndsRight(e, a2)
    BY <2>0, <2>2, <2>3, <2>4 DEF EndsRight
  <2>6. QED BY <2>1, <2>5
<1>11. QED BY <1>3, <1>9, <1>10

(* All of them. *)
Ending(t, new) ==
  /\ new \in Seq(EntryType)
  /\ version # "phase3" => Len(new) = Len(t)
  /\ \A i \in 1 .. Len(new) :
       \E j \in 1 .. Len(t), a \in BOOLEAN :
         /\ EndsRight(t[j], a) /\ new[i] = AfterEnd(t[j], a)
         /\ version # "phase3" => j = i

(* exit_scope, however often it runs: every entry is one of before,       *)
(* switched off or not.                                                   *)
LEMMA LeavingAre ==
  ASSUME OpenInv, Block # 0, NEW t \in Seq(EntryType), \A i \in 1 .. Len(t) : EntryAt(t[i], open),
         NEW left, left = Leaving(t)
  PROVE  /\ Len(left) \in Nat /\ DOMAIN left = 1 .. Len(left)
         /\ version # "phase3" => Len(left) = Len(t)
         /\ \A i \in 1 .. Len(left) :
              \E j \in 1 .. Len(t), a \in BOOLEAN :
                /\ EndsRight(t[j], a) /\ left[i] = With(t[j], a)
                /\ version # "phase3" => j = i
<1>0. Len(t) \in Nat /\ DOMAIN t = 1 .. Len(t)
  OBVIOUS
<1>1. CASE version = "phase3"
  <2>1. \A s, r : Left(r, s) = Remaining(r, s - 1)
    BY <1>1 DEF Left, Deactivate
  <2> DEFINE R == {t[i] : i \in 1 .. Len(t)}
  <2>2. \A s : Remaining(t, s) \in Seq(R)
    BY RemainingAre
  <2>3. \A r \in Seq(R) : \A s : Remaining(r, s) \in Seq(R)
    <3>1. ASSUME NEW r \in Seq(R), NEW s
          PROVE  Remaining(r, s) \in Seq(R)
      <4>1. \A i \in 1 .. Len(r) : r[i] \in R
        <5> HIDE DEF R
        <5>1. QED OBVIOUS
      <4>2. {r[i] : i \in 1 .. Len(r)} \subseteq R
        BY <4>1
      <4>3. Remaining(r, s) \in Seq({r[i] : i \in 1 .. Len(r)})
        <5> HIDE DEF R
        <5>1. QED BY RemainingAre
      <4>4. PICK Q : Q = {r[i] : i \in 1 .. Len(r)} /\ Q \subseteq R
        BY <4>2
      <4>5. Remaining(r, s) \in Seq(Q)
        BY <4>3, <4>4
      <4> HIDE DEF R
      <4>6. QED BY <4>4, <4>5
    <3>2. QED BY <3>1
  <2>4. left \in Seq(R)
    <3> HIDE DEF R
    <3>1. Left(t, checkScope) \in Seq(R)
      BY <2>1, <2>2
    <3>2. Left(Left(t, checkScope), checkScope - 1) \in Seq(R)
      BY <2>1, <2>3, <3>1
    <3>3. QED BY <3>1, <3>2 DEF Leaving
  <2>5. /\ Len(left) \in Nat /\ DOMAIN left = 1 .. Len(left)
        /\ \A i \in 1 .. Len(left) : left[i] \in R
    <3> HIDE DEF R
    <3>1. QED BY <2>4
  <2>6. ASSUME NEW i \in 1 .. Len(left)
        PROVE  \E j \in 1 .. Len(t), a \in BOOLEAN :
                 /\ EndsRight(t[j], a) /\ left[i] = With(t[j], a)
                 /\ version # "phase3" => j = i
    <3>1. PICK j \in 1 .. Len(t) : left[i] = t[j]
      BY <2>5
    <3>2. PICK e \in EntryType, a \in BOOLEAN : e = t[j] /\ a = e.is_active /\ EntryAt(e, open)
      <4>1. EntryAt(t[j], open) /\ t[j] \in EntryType
        OBVIOUS
      <4>2. t[j].is_active \in BOOLEAN
        BY <4>1 DEF EntryType
      <4>3. QED BY <4>1, <4>2
    <3>3. e = With(e, a)
      <4>1. e = [name |-> e.name, type |-> e.type, scope |-> e.scope, is_active |-> e.is_active,
                 space |-> e.space, offset |-> e.offset, block |-> e.block, owner |-> e.owner,
                 line |-> e.line]
        BY EntryIs
      <4>2. QED BY <3>2, <4>1 DEF With
    <3>4. EndsRight(e, a)
      BY <1>1, <3>2 DEF EndsRight, EntryAt, SwitchedRight
    <3>5. QED BY <1>1, <3>1, <3>2, <3>3, <3>4
  <2>7. QED BY <1>1, <2>5, <2>6
<1>2. CASE version # "phase3"
  <2>1. \A s, r : Left(r, s) = [i \in DOMAIN r |-> Off(r[i], s)]
    BY <1>2 DEF Left, Deactivate, Off, With
  <2>2. left = [i \in 1 .. Len(t) |->
                  IF open[Block].kind = "block" \/ version = "phase2" THEN Off(t[i], checkScope)
                  ELSE Off(Off(t[i], checkScope), checkScope - 1)]
    <3>1. Left(t, checkScope) = [i \in 1 .. Len(t) |-> Off(t[i], checkScope)]
      BY <1>0, <2>1
    <3>2. Left(Left(t, checkScope), checkScope - 1) =
            [i \in 1 .. Len(t) |-> Off(Off(t[i], checkScope), checkScope - 1)]
      BY <2>1, <3>1
    <3>3. QED BY <3>1, <3>2 DEF Leaving
  <2>3. Len(left) = Len(t) /\ DOMAIN left = 1 .. Len(t)
    BY <1>0, <2>2
  <2>4. ASSUME NEW i \in 1 .. Len(t)
        PROVE  \E a \in BOOLEAN : EndsRight(t[i], a) /\ left[i] = With(t[i], a)
    <3>1. PICK e : e = t[i] /\ EntryAt(e, open)
      OBVIOUS
    <3>2. PICK f : f = left[i]
      OBVIOUS
    <3>3. f = IF open[Block].kind = "block" \/ version = "phase2" THEN Off(e, checkScope)
              ELSE Off(Off(e, checkScope), checkScope - 1)
      BY <2>2, <3>1, <3>2
    <3>4. \E a \in BOOLEAN : EndsRight(e, a) /\ f = With(e, a)
      BY <1>2, <3>1, <3>3, SwitchedOff
    <3>5. QED BY <3>1, <3>2, <3>4
  <2>5. QED BY <1>0, <2>3, <2>4
<1>3. QED BY <1>1, <1>2

(* The end of a block leaves a table that is placed in the blocks around  *)
(* it.                                                                    *)
LEMMA EndsAre ==
  ASSUME OpenInv, Block # 0, NEW t \in Seq(EntryType), \A i \in 1 .. Len(t) : EntryAt(t[i], open)
  PROVE  Ending(t, Ends(Leaving(t)))
<1>1. PICK left : left = Leaving(t)
  OBVIOUS
<1>2. /\ Len(left) \in Nat /\ DOMAIN left = 1 .. Len(left)
      /\ version # "phase3" => Len(left) = Len(t)
      /\ \A i \in 1 .. Len(left) :
           \E j \in 1 .. Len(t), a \in BOOLEAN :
             /\ EndsRight(t[j], a) /\ left[i] = With(t[j], a)
             /\ version # "phase3" => j = i
  BY <1>1, LeavingAre
<1>3. PICK new : new = Ends(left)
  OBVIOUS
<1>4. new = [i \in 1 .. Len(left) |-> Moved(left[i])]
  BY <1>2, <1>3 DEF Ends, Moved
<1>5. DOMAIN new = 1 .. Len(left) /\ Len(new) = Len(left) /\ Len(left) \in Nat
  <2>1. DOMAIN new = 1 .. Len(left) /\ Len(left) \in Nat
    BY <1>2, <1>4
  <2>2. QED BY <2>1, LenProperties
<1>6. ASSUME NEW i \in 1 .. Len(new)
      PROVE  /\ new[i] \in EntryType
             /\ \E j \in 1 .. Len(t), a \in BOOLEAN :
                  /\ EndsRight(t[j], a) /\ new[i] = AfterEnd(t[j], a)
                  /\ version # "phase3" => j = i
  <2>1. PICK j \in 1 .. Len(t), a \in BOOLEAN :
          /\ EndsRight(t[j], a) /\ left[i] = With(t[j], a)
          /\ version # "phase3" => j = i
    BY <1>2, <1>5
  <2>2. PICK e \in EntryType : e = t[j]
    OBVIOUS
  <2>0. PICK f : f = left[i]
    OBVIOUS
  <2>3. f = With(e, a)
    BY <2>0, <2>1, <2>2
  <2>4. Moved(f) = AfterEnd(e, a)
    BY <2>3, ActiveIs
  <2>5. new[i] = AfterEnd(e, a)
    BY <1>4, <1>5, <2>0, <2>2, <2>4
  <2>6. AfterEnd(e, a) \in EntryType
    <3>1. Block \in Nat
      BY HereIs
    <3>2. QED BY <3>1, AfterEndIs
  <2>7. QED BY <2>1, <2>2, <2>5, <2>6
<1>7. new \in Seq(EntryType)
  <2>1. new \in [1 .. Len(left) -> EntryType]
    BY <1>4, <1>5, <1>6
  <2>2. QED BY <1>2, <2>1
<1>8. Ending(t, new)
  BY <1>2, <1>5, <1>6, <1>7 DEF Ending
<1>9. QED BY <1>1, <1>3, <1>8

-----------------------------------------------------------------------------
(* Cells. *)
Globals(t) == {i \in DOMAIN t : t[i].space = "programvar"}

(* Entries of the innermost function, as long as it has defined no other. *)
Counts(e, o) == e.owner = OwnerAt(o, Len(o)) /\ e.owner # 0 /\ ~o[e.owner].hosts

CellsAs(t, o, g, l, f) ==
  /\ \A i \in 1 .. Len(t) : t[i].space = "programvar" => t[i].offset < g
  /\ \A i, j \in 1 .. Len(t) :
       i # j /\ t[i].space = "programvar" /\ t[j].space = "programvar" => t[i].offset # t[j].offset
  /\ \A k \in FunctionsIn(o, Len(o)) : ~o[k].hosts => k = OwnerAt(o, Len(o))
  /\ \A i \in 1 .. Len(t) :
       Counts(t[i], o) => /\ t[i].space = "functionlocal" => t[i].offset < l
                          /\ t[i].space = "formalarg" => t[i].offset < f
  /\ \A i, j \in 1 .. Len(t) :
       /\ i # j /\ Counts(t[i], o) /\ Counts(t[j], o)
       /\ t[i].space = t[j].space /\ t[i].space # "programvar"
       => t[i].offset # t[j].offset

(* A cell is taken. *)
Takes(e, g, l, f, h, m, n) ==
  \/ e.space = "programvar" /\ e.offset = g /\ h = g + 1 /\ m = l /\ n = f
  \/ e.space = "functionlocal" /\ e.offset = l /\ h = g /\ m = l + 1 /\ n = f
  \/ e.space = "formalarg" /\ e.offset = f /\ h = g /\ m = l /\ n = f + 1

(* assign_space_and_offset: an entry takes the next cell, and no two      *)
(* share one.                                                             *)
LEMMA CellTaken ==
  ASSUME NEW t \in Seq(EntryType), NEW o, NEW g \in Nat, NEW l \in Nat, NEW f \in Nat,
         CellsAs(t, o, g, l, f), NEW e \in EntryType, e.owner = OwnerAt(o, Len(o)),
         NEW h \in Nat, NEW m \in Nat, NEW n \in Nat, Takes(e, g, l, f, h, m, n),
         NEW u, u = Append(t, e)
  PROVE  CellsAs(u, o, h, m, n)
<1>1. PICK z \in Nat : z = Len(t)
  OBVIOUS
<1>2. /\ u \in Seq(EntryType) /\ Len(u) = z + 1
      /\ \A i \in 1 .. z : u[i] = t[i]
      /\ u[z + 1] = e
  BY <1>1, AppendProperties
<1>3. /\ \A i \in 1 .. z : t[i].space = "programvar" => t[i].offset < g
      /\ \A i, j \in 1 .. z :
           i # j /\ t[i].space = "programvar" /\ t[j].space = "programvar" => t[i].offset # t[j].offset
      /\ \A k \in FunctionsIn(o, Len(o)) : ~o[k].hosts => k = OwnerAt(o, Len(o))
      /\ \A i \in 1 .. z :
           Counts(t[i], o) => /\ t[i].space = "functionlocal" => t[i].offset < l
                              /\ t[i].space = "formalarg" => t[i].offset < f
      /\ \A i, j \in 1 .. z :
           /\ i # j /\ Counts(t[i], o) /\ Counts(t[j], o)
           /\ t[i].space = t[j].space /\ t[i].space # "programvar"
           => t[i].offset # t[j].offset
  BY <1>1 DEF CellsAs
<1>4. \A i \in 1 .. z + 1 : i \in 1 .. z \/ i = z + 1
  BY <1>1
<1>5. \A i \in 1 .. z : t[i].offset \in Nat
  <2>1. \A i \in 1 .. z : t[i] \in EntryType
    BY <1>1
  <2>2. QED BY <2>1 DEF EntryType
<1>6. g <= h /\ l <= m /\ f <= n
  BY DEF Takes
<1>7. /\ e.space = "functionlocal" => e.offset = l /\ e.offset < m
      /\ e.space = "formalarg" => e.offset = f /\ e.offset < n
      /\ e.space \in {"programvar", "functionlocal", "formalarg"}
      /\ e.space = "programvar" => e.offset = g /\ e.offset < h
  BY DEF Takes
<1>8. \A i \in 1 .. z + 1 : u[i].space = "programvar" => u[i].offset < h
  <2>1. ASSUME NEW i \in 1 .. z, t[i].space = "programvar"
        PROVE  t[i].offset < h
    BY <1>3, <1>5, <1>6, <2>1
  <2>2. QED BY <1>2, <1>4, <1>7, <2>1
<1>9. \A i, j \in 1 .. z + 1 :
        i # j /\ u[i].space = "programvar" /\ u[j].space = "programvar" => u[i].offset # u[j].offset
  <2>1. \A i \in 1 .. z : t[i].space = "programvar" /\ e.space = "programvar" => t[i].offset # e.offset
    BY <1>3, <1>5, <1>7
  <2>2. QED BY <1>2, <1>3, <1>4, <2>1
<1>10. \A i \in 1 .. z + 1 :
         Counts(u[i], o) => /\ u[i].space = "functionlocal" => u[i].offset < m
                            /\ u[i].space = "formalarg" => u[i].offset < n
  <2>1. ASSUME NEW i \in 1 .. z, Counts(t[i], o)
        PROVE  /\ t[i].space = "functionlocal" => t[i].offset < m
               /\ t[i].space = "formalarg" => t[i].offset < n
    BY <1>3, <1>5, <1>6, <2>1
  <2>2. QED BY <1>2, <1>4, <1>7, <2>1
<1>11. \A i, j \in 1 .. z + 1 :
         /\ i # j /\ Counts(u[i], o) /\ Counts(u[j], o)
         /\ u[i].space = u[j].space /\ u[i].space # "programvar"
         => u[i].offset # u[j].offset
  <2>1. \A i \in 1 .. z : Counts(t[i], o) /\ t[i].space = e.space /\ e.space # "programvar" =>
          t[i].offset # e.offset
    BY <1>3, <1>5, <1>7, SMTT(20)
  <2>2. SUFFICES ASSUME NEW i \in 1 .. z + 1, NEW j \in 1 .. z + 1,
                        i # j, Counts(u[i], o), Counts(u[j], o),
                        u[i].space = u[j].space, u[i].space # "programvar"
                 PROVE  u[i].offset # u[j].offset
    OBVIOUS
  <2>3. CASE i \in 1 .. z /\ j \in 1 .. z
    <3>1. u[i] = t[i] /\ u[j] = t[j]
      BY <1>2, <2>3
    <3>2. QED BY <1>3, <2>2, <2>3, <3>1
  <2>4. CASE i = z + 1 /\ j \in 1 .. z
    <3>1. u[i] = e /\ u[j] = t[j]
      BY <1>2, <2>4
    <3>2. QED BY <2>1, <2>2, <2>4, <3>1
  <2>5. CASE i \in 1 .. z /\ j = z + 1
    <3>1. u[i] = t[i] /\ u[j] = e
      BY <1>2, <2>5
    <3>2. QED BY <2>1, <2>2, <2>5, <3>1
  <2>6. QED BY <1>4, <2>2, <2>3, <2>4, <2>5
<1>12. \A k \in FunctionsIn(o, Len(o)) : ~o[k].hosts => k = OwnerAt(o, Len(o))
  BY ONLY <1>3
<1>13. Len(u) = z + 1
  BY <1>2
<1>14. QED BY ONLY <1>8, <1>9, <1>10, <1>11, <1>12, <1>13 DEF CellsAs

(* One entry more is one cell of the program more, or none.               *)
LEMMA GlobalsTaken ==
  ASSUME NEW t \in Seq(EntryType), NEW e \in EntryType, NEW u, u = Append(t, e)
  PROVE  /\ IsFiniteSet(Globals(t)) /\ Cardinality(Globals(t)) \in Nat
         /\ Cardinality(Globals(u)) =
              Cardinality(Globals(t)) + IF e.space = "programvar" THEN 1 ELSE 0
<1>1. PICK z \in Nat : z = Len(t) /\ DOMAIN t = 1 .. z
  OBVIOUS
<1>2. /\ u \in Seq(EntryType) /\ Len(u) = z + 1 /\ DOMAIN u = 1 .. z + 1
      /\ \A i \in 1 .. z : u[i] = t[i]
      /\ u[z + 1] = e
  BY <1>1, AppendProperties
<1>3. IsFiniteSet(Globals(t)) /\ Cardinality(Globals(t)) \in Nat
  <2>1. IsFiniteSet(1 .. z)
    BY <1>1, FS_Interval
  <2>2. Globals(t) \in SUBSET (1 .. z)
    BY <1>1 DEF Globals
  <2>3. IsFiniteSet(Globals(t))
    BY <2>1, <2>2, FS_Subset
  <2>4. QED BY <2>3, FS_CardinalityType
<1>4. z + 1 \notin Globals(t)
  BY <1>1 DEF Globals
<1>5. Globals(u) = IF e.space = "programvar" THEN Globals(t) \cup {z + 1} ELSE Globals(t)
  BY <1>1, <1>2 DEF Globals
<1>6. CASE e.space = "programvar"
  BY <1>3, <1>4, <1>5, <1>6, FS_AddElement
<1>7. CASE e.space # "programvar"
  BY <1>3, <1>5, <1>7
<1>8. QED BY <1>3, <1>6, <1>7

(* A block opens. *)
LEMMA CellsInBlock ==
  ASSUME version \in Versions, NEW t, NEW o \in Seq(OpenType), NEW g, NEW l, NEW f,
         CellsAs(t, o, g, l, f),
         NEW p, p \in Seq(OpenType), Len(p) = Len(o) + 1, \A i \in 1 .. Len(o) : p[i] = o[i],
         p[Len(o) + 1].kind = "block"
  PROVE  CellsAs(t, p, g, l, f)
<1>1. PICK n \in Nat, c \in Nat : n = Len(o) /\ c = n + 1 /\ c = Len(p)
  OBVIOUS
<1>2. FunctionsIn(p, n) = FunctionsIn(o, n) /\ OwnerAt(p, n) = OwnerAt(o, n)
  <2>1. \A i \in 1 .. n : p[i].kind = o[i].kind
    BY <1>1
  <2>2. QED BY <2>1, SameFunctions
<1>3. FunctionsIn(p, c) = FunctionsIn(o, n) /\ OwnerAt(p, c) = OwnerAt(o, n)
  <2>1. p[c].kind # "function"
    BY <1>1
  <2>2. QED BY <1>1, <1>2, <2>1, OneMoreOpen
<1>4. FunctionsIn(o, n) \subseteq 1 .. n
  BY DEF FunctionsIn
<1>5. \A k \in FunctionsIn(o, n) : p[k] = o[k]
  BY <1>1, <1>4
<1>6. \A k : k = OwnerAt(o, n) /\ k # 0 => k \in FunctionsIn(o, n)
  BY <1>1, OwnerIs
<1>7. \A i \in 1 .. Len(t) : Counts(t[i], p) <=> Counts(t[i], o)
  BY <1>1, <1>3, <1>5, <1>6 DEF Counts
<1>8. \A k \in FunctionsIn(p, Len(p)) : ~p[k].hosts => k = OwnerAt(p, Len(p))
  <2>1. \A k \in FunctionsIn(o, Len(o)) : ~o[k].hosts => k = OwnerAt(o, Len(o))
    BY DEF CellsAs
  <2>2. QED BY <1>1, <1>3, <1>5, <2>1
<1>9. QED BY <1>7, <1>8 DEF CellsAs

(* The innermost block or function ends. *)
LEMMA CellsAfter ==
  ASSUME version \in Versions, NEW t \in Seq(EntryType), NEW g, NEW l, NEW f,
         open \in Seq(OpenType), NEW n, n = Len(open), n # 0, n <= MaxOpen,
         CellsAs(t, open, g, l, f),
         NEW p \in Seq(OpenType), Len(p) = n - 1, \A i \in 1 .. n - 1 : p[i] = open[i],
         NEW u, Len(u) = Len(t),
         \A i \in 1 .. Len(t) : \E a \in BOOLEAN : u[i] = AfterEnd(t[i], a),
         \A i \in 1 .. Len(t) : t[i].owner \in FunctionsIn(open, n) \cup {0, Over}
  PROVE  CellsAs(u, p, g, l, f)
<1>1. PICK m \in Nat : n = m + 1 /\ m = Len(p) /\ n \in Nat
  OBVIOUS
<1>2. /\ FunctionsIn(p, m) = FunctionsIn(open, m) /\ OwnerAt(p, m) = OwnerAt(open, m)
      /\ FunctionsIn(open, m) \subseteq 1 .. m /\ OwnerAt(open, m) \in 0 .. m
      /\ OwnerAt(open, m) # 0 => OwnerAt(open, m) \in FunctionsIn(open, m)
  <2>1. \A i \in 1 .. m : p[i].kind = open[i].kind
    BY <1>1
  <2>2. FunctionsIn(p, m) = FunctionsIn(open, m) /\ OwnerAt(p, m) = OwnerAt(open, m)
    BY <2>1, SameFunctions
  <2>3. FunctionsIn(open, m) \subseteq 1 .. m
    BY DEF FunctionsIn
  <2>4. OwnerAt(open, m) \in 0 .. m /\ (OwnerAt(open, m) # 0 => OwnerAt(open, m) \in FunctionsIn(open, m))
    BY OwnerIs
  <2>5. QED BY <2>2, <2>3, <2>4
<1>3. /\ FunctionsIn(open, n) = IF open[n].kind = "function" THEN FunctionsIn(open, m) \cup {n}
                                ELSE FunctionsIn(open, m)
      /\ OwnerAt(open, n) = IF open[n].kind = "function" THEN n ELSE OwnerAt(open, m)
  <2>1. version \in Versions /\ m \in Nat /\ n = m + 1
    BY <1>1
  <2>2. QED BY ONLY <2>1, OneMoreOpen
<1>4. Block = n /\ Over > n /\ n > m /\ m \in Nat /\ Over \in Nat
  BY <1>1, OverIs DEF Block
<1>5. ASSUME NEW i \in 1 .. Len(t)
      PROVE  /\ u[i].space = t[i].space /\ u[i].offset = t[i].offset
             /\ u[i].owner = IF t[i].owner = n THEN Over ELSE t[i].owner
  <2>0. PICK x : x = u[i]
    OBVIOUS
  <2>1. PICK a \in BOOLEAN, e \in EntryType : e = t[i] /\ x = AfterEnd(e, a)
    BY <2>0
  <2>2. x.space = e.space /\ x.offset = e.offset /\ x.owner = Ended(e.owner)
    <3>1. Block \in Nat
      BY <1>1, <1>4
    <3>2. QED BY <2>1, <3>1, AfterEndIs
  <2>3. QED BY <1>4, <2>0, <2>1, <2>2 DEF Ended
<1>6. /\ \A k \in FunctionsIn(open, n) : ~open[k].hosts => k = OwnerAt(open, n)
      /\ \A k \in 1 .. m : p[k] = open[k]
  BY <1>1 DEF CellsAs
<1>7. ASSUME NEW i \in 1 .. Len(t), Counts(u[i], p)
      PROVE  Counts(t[i], open)
  <2>1. u[i].owner = OwnerAt(open, m) /\ u[i].owner # 0 /\ ~p[u[i].owner].hosts
    BY <1>1, <1>2, <1>7 DEF Counts
  <2>2. PICK k \in FunctionsIn(open, m) : k = u[i].owner /\ k \in 1 .. m /\ ~open[k].hosts
    BY <1>2, <1>6, <2>1
  <2>3. t[i].owner = k
    BY <1>4, <1>5, <2>2
  <2>4. k \in FunctionsIn(open, n)
    BY <1>3
  <2>5. k = OwnerAt(open, n)
    BY <1>6, <2>2, <2>4
  <2>6. QED BY <2>1, <2>2, <2>3, <2>5 DEF Counts
<1>8. \A k \in FunctionsIn(p, m) : ~p[k].hosts => k = OwnerAt(p, m)
  <2>1. ASSUME NEW k \in FunctionsIn(open, m), ~open[k].hosts
        PROVE  k = OwnerAt(open, m)
    <3>1. k \in FunctionsIn(open, n) /\ k # n
      BY <1>2, <1>3, <1>4
    <3>2. k = OwnerAt(open, n)
      BY <1>6, <2>1, <3>1
    <3>3. QED BY <1>3, <3>1, <3>2
  <2>2. QED BY <1>2, <1>6, <2>1
<1>9. /\ \A i \in 1 .. Len(t) : t[i].space = "programvar" => t[i].offset < g
      /\ \A i, j \in 1 .. Len(t) :
           i # j /\ t[i].space = "programvar" /\ t[j].space = "programvar" => t[i].offset # t[j].offset
      /\ \A i \in 1 .. Len(t) :
           Counts(t[i], open) => /\ t[i].space = "functionlocal" => t[i].offset < l
                                 /\ t[i].space = "formalarg" => t[i].offset < f
      /\ \A i, j \in 1 .. Len(t) :
           /\ i # j /\ Counts(t[i], open) /\ Counts(t[j], open)
           /\ t[i].space = t[j].space /\ t[i].space # "programvar"
           => t[i].offset # t[j].offset
  BY DEF CellsAs
<1>10. /\ \A i \in 1 .. Len(u) : u[i].space = "programvar" => u[i].offset < g
       /\ \A i, j \in 1 .. Len(u) :
            i # j /\ u[i].space = "programvar" /\ u[j].space = "programvar" => u[i].offset # u[j].offset
  <2>1. ASSUME NEW i \in 1 .. Len(t), u[i].space = "programvar"
        PROVE  t[i].space = "programvar" /\ u[i].offset = t[i].offset
    BY <1>5, <2>1
  <2>2. PICK z : z = Len(t) /\ z = Len(u)
    OBVIOUS
  <2>3. \A i \in 1 .. z : u[i].space = "programvar" =>
          t[i].space = "programvar" /\ u[i].offset = t[i].offset
    BY <2>1, <2>2
  <2>4. /\ \A i \in 1 .. z : t[i].space = "programvar" => t[i].offset < g
        /\ \A i, j \in 1 .. z :
             i # j /\ t[i].space = "programvar" /\ t[j].space = "programvar" => t[i].offset # t[j].offset
    BY <1>9, <2>2
  <2>5. QED BY <2>2, <2>3, <2>4
<1>11. \A i \in 1 .. Len(u) :
         Counts(u[i], p) => /\ u[i].space = "functionlocal" => u[i].offset < l
                            /\ u[i].space = "formalarg" => u[i].offset < f
  BY <1>5, <1>7, <1>9
<1>12. \A i, j \in 1 .. Len(u) :
         /\ i # j /\ Counts(u[i], p) /\ Counts(u[j], p)
         /\ u[i].space = u[j].space /\ u[i].space # "programvar"
         => u[i].offset # u[j].offset
  BY <1>5, <1>7, <1>9
<1>13. QED BY <1>1, <1>8, <1>10, <1>11, <1>12 DEF CellsAs

(* A function starts: its arguments have the first cells. *)
LEMMA CellsInFunction ==
  ASSUME version = "phases4_5", NEW t \in Seq(EntryType), NEW o \in Seq(OpenType), Block = Len(o),
         NEW g, NEW l, NEW f, CellsAs(t, o, g, l, f),
         \A i \in 1 .. Len(t) : t[i].owner # Block + 1,
         NEW u, ArgumentsBehind(t, u),
         NEW p \in Seq(OpenType), Len(p) = Len(o) + 1,
         \A i \in 1 .. Len(o) : /\ p[i].kind = o[i].kind
                                /\ o[i].hosts \/ i = OwnerAt(o, Len(o)) => p[i].hosts,
         p[Len(o) + 1].kind = "function"
  PROVE  CellsAs(u, p, g, 0, Len(u) - Len(t))
<1>1. PICK n \in Nat, c \in Nat : n = Len(o) /\ c = n + 1 /\ c = Len(p) /\ Block + 1 = c
  OBVIOUS
<1>2. PICK y \in Nat, z \in Nat : y = Len(t) /\ z = Len(u) /\ y <= z
  BY DEF ArgumentsBehind
<1>3. /\ \A i \in 1 .. y : u[i] = t[i]
      /\ \A i \in y + 1 .. z : IsArgument(u[i], i - y)
  BY <1>2 DEF ArgumentsBehind
<1>4. \A i \in y + 1 .. z : u[i].space = "formalarg" /\ u[i].offset = i - y - 1 /\ u[i].owner = c
  BY <1>1, <1>3 DEF IsArgument
<1>5. version \in Versions
  BY DEF Versions
<1>6. /\ FunctionsIn(p, c) = FunctionsIn(o, n) \cup {c} /\ OwnerAt(p, c) = c
      /\ FunctionsIn(o, n) \subseteq 1 .. n
  <2>1. \A i \in 1 .. n : p[i].kind = o[i].kind
    BY <1>1
  <2>2. FunctionsIn(p, n) = FunctionsIn(o, n)
    BY <2>1, SameFunctions
  <2>3. p[c].kind = "function"
    BY <1>1
  <2>4. /\ FunctionsIn(p, c) = FunctionsIn(p, n) \cup {c} /\ OwnerAt(p, c) = c
    BY <1>1, <1>5, <2>3, OneMoreOpen
  <2>5. QED BY <2>2, <2>4 DEF FunctionsIn
<1>7. \A i \in 1 .. z : i \in 1 .. y \/ i \in y + 1 .. z
  BY <1>2
<1>8. \A i \in 1 .. y : ~Counts(u[i], p)
  BY <1>1, <1>2, <1>3, <1>6 DEF Counts
<1>9. \A k \in FunctionsIn(p, c) : ~p[k].hosts => k = OwnerAt(p, c)
  <2>1. ASSUME NEW k \in FunctionsIn(o, n)
        PROVE  p[k].hosts
    <3>1. ~o[k].hosts => k = OwnerAt(o, n)
      BY <1>1 DEF CellsAs
    <3>2. QED BY <1>1, <1>6, <3>1
  <2>2. QED BY <1>6, <2>1
<1>10. /\ \A i \in 1 .. y : t[i].space = "programvar" => t[i].offset < g
       /\ \A i, j \in 1 .. y :
            i # j /\ t[i].space = "programvar" /\ t[j].space = "programvar" => t[i].offset # t[j].offset
  BY <1>2 DEF CellsAs
<1>11. \A i \in 1 .. z : u[i].space = "programvar" => i \in 1 .. y
  BY <1>4, <1>7
<1>12. /\ \A i \in 1 .. z : u[i].space = "programvar" => u[i].offset < g
       /\ \A i, j \in 1 .. z :
            i # j /\ u[i].space = "programvar" /\ u[j].space = "programvar" => u[i].offset # u[j].offset
  BY <1>3, <1>10, <1>11, SMTT(30)
<1>13. \A i \in 1 .. z : Counts(u[i], p) => /\ i \in y + 1 .. z /\ u[i].space = "formalarg"
                                            /\ u[i].offset = i - y - 1 /\ u[i].offset < z - y
  BY <1>2, <1>4, <1>7, <1>8
<1>14. \A i \in 1 .. z :
         Counts(u[i], p) => /\ u[i].space = "functionlocal" => u[i].offset < 0
                            /\ u[i].space = "formalarg" => u[i].offset < z - y
  BY <1>13
<1>15. \A i, j \in 1 .. z :
         /\ i # j /\ Counts(u[i], p) /\ Counts(u[j], p)
         /\ u[i].space = u[j].space /\ u[i].space # "programvar"
         => u[i].offset # u[j].offset
  <2>1. \A i, j \in 1 .. z : i # j => i - y - 1 # j - y - 1
    BY <1>2
  <2>2. QED BY <1>13, <2>1
<1>16. QED BY <1>1, <1>2, <1>9, <1>12, <1>14, <1>15 DEF CellsAs

-----------------------------------------------------------------------------
(* Search. *)
TableAs(t, o) == t \in Seq(EntryType) /\ \A i \in 1 .. Len(t) : EntryAt(t[i], o)

Candidates(v, t, name, current, context) ==
  {i \in DOMAIN t : /\ t[i].name = name /\ t[i].scope <= current
                    /\ Active(v, t, i) /\ ~Passed(v, t, i, current, context)}

(* A search finds a candidate of the greatest scope, or nothing. *)
LEMMA LookupIs ==
  ASSUME NEW t \in Seq(EntryType), NEW v, NEW name, NEW current \in Nat, NEW context,
         NEW f, f = Lookup(v, t, name, current, context),
         NEW S, S = Candidates(v, t, name, current, context)
  PROVE  /\ f \in 0 .. Len(t)
         /\ f # 0 => f \in S /\ f \in DOMAIN t /\ \A j \in S : t[j].scope <= t[f].scope
<1>1. PICK z \in Nat : z = Len(t) /\ DOMAIN t = 1 .. z
  OBVIOUS
<1>2. /\ S \in SUBSET (1 .. z)
      /\ \A i \in S : t[i].scope <= current
      /\ \A i \in 1 .. z : t[i].scope \in Nat
  <2>1. \A i \in 1 .. z : t[i] \in EntryType
    BY <1>1
  <2>2. \A i \in 1 .. z : t[i].scope \in Nat
    BY <2>1 DEF EntryType
  <2>3. QED BY <1>1, <2>2 DEF Candidates
<1>3. f = IF \/ S = {}
             \/ v = "phase2" /\ Between(t, First(t, S), current) /\ Crosses(t, First(t, S), current)
          THEN 0 ELSE First(t, S)
  BY DEF Lookup, Candidates
<1>4. ASSUME S # {}
      PROVE  First(t, S) \in S /\ \A j \in S : t[j].scope <= t[First(t, S)].scope
  <2> DEFINE N == {t[i].scope : i \in S}
             M == {i \in S : \A j \in S : t[j].scope <= t[i].scope}
  <2>1. N \in SUBSET Nat /\ N # {} /\ \A n \in N : n <= current
    BY <1>2, <1>4
  <2>2. PICK n \in N : \A x \in N : x <= n
    <3> HIDE DEF N
    <3>1. QED BY <2>1, GreatestExists
  <2>3. PICK i \in S : t[i].scope = n
    OBVIOUS
  <2>4. \A j \in S : t[j].scope <= t[i].scope
    BY <2>2, <2>3
  <2>5. M \in SUBSET Nat /\ M # {}
    <3>1. i \in M
      BY <2>4
    <3>2. M \subseteq S
      OBVIOUS
    <3>3. S \subseteq Nat
      BY <1>1, <1>2
    <3> HIDE DEF M
    <3>4. QED BY <3>1, <3>2, <3>3
  <2>6. Min(M) \in M
    <3> HIDE DEF M
    <3>1. QED BY <2>5, MinIs
  <2>7. First(t, S) = Min(M)
    BY DEF First
  <2>8. QED BY <2>6, <2>7
<1>5. QED BY <1>1, <1>2, <1>3, <1>4

VisibleIn(t, name) == {i \in DOMAIN t : t[i].name = name /\ t[i].block # Over}
InnermostIn(t, name) ==
  {i \in VisibleIn(t, name) : \A j \in VisibleIn(t, name) : t[j].scope <= t[i].scope}
OverlookedIn(t, name) ==
  \E i \in VisibleIn(t, name) :
    /\ Between(t, i, checkScope)
    /\ \/ version = "phase3" /\ Crosses(t, i, checkScope)
       \/ version = "phase2" /\ Owner = 0

(* ResolvesToInnermost, of any table and any answer. *)
RightIn(t, name, f) ==
  \/ f \in InnermostIn(t, name) \/ OverlookedIn(t, name)
  \/ /\ t[f].block = Over
     /\ version = "phase3" \/ (version = "phases4_5" /\ t[f].type = "userfunc")

(* AcceptedAreOwn, likewise. *)
OwnIn(t, f) == t[f].type \in Functions \/ t[f].scope = 0 \/ t[f].owner = Owner

(* What can be seen here. *)
LEMMA VisibleIs ==
  ASSUME OpenInv, NEW t, TableAs(t, open), NEW i \in DOMAIN t, t[i].block # Over
  PROVE  /\ i \in 1 .. Len(t) /\ Active(version, t, i)
         /\ t[i].scope \in Nat /\ t[i].scope <= checkScope
<1>1. i \in 1 .. Len(t) /\ EntryAt(t[i], open)
  BY DEF TableAs
<1>2. PICK e : e = t[i] /\ EntryAt(e, open) /\ e.block # Over
  BY <1>1
<1>3. e.is_active /\ e.scope \in Nat /\ PlacedAt(e, open)
  BY <1>2 DEF EntryAt, SwitchedRight, EntryType
<1>4. e.block \in 0 .. Len(open) /\ e.scope <= DepthAt(open, e.block)
  BY <1>2, <1>3 DEF PlacedAt
<1>5. PICK b \in Nat, n \in Nat : b = e.block /\ n = Block /\ b <= n /\ e.scope <= DepthAt(open, b)
  BY <1>4, HereIs
<1>6. DepthAt(open, b) \in Nat /\ DepthAt(open, n) \in Nat /\ DepthAt(open, b) <= DepthAt(open, n)
  BY <1>5, Deeper DEF OpenInv
<1>7. checkScope = DepthAt(open, n)
  BY <1>5, HereIs
<1>8. e.scope <= checkScope
  BY <1>3, <1>5, <1>6, <1>7
<1>9. QED BY <1>1, <1>2, <1>3, <1>8 DEF Active

(* lookup_symbol finds the innermost, or something over, or something was *)
(* overlooked.                                                            *)
LEMMA FoundIsRight ==
  ASSUME OpenInv, version = "phase2" => (inside_function_scope <=> Owner # 0),
         NEW t, TableAs(t, open), NEW name,
         NEW f, f = Lookup(version, t, name, checkScope, inside_function_scope), f # 0
  PROVE  RightIn(t, name, f)
<1> DEFINE S == Candidates(version, t, name, checkScope, inside_function_scope)
<1>1. f \in S /\ f \in DOMAIN t /\ \A j \in S : t[j].scope <= t[f].scope
  <2>1. t \in Seq(EntryType) /\ checkScope \in Nat
    BY HereIs DEF TableAs
  <2> HIDE DEF S
  <2>2. QED BY <2>1, LookupIs DEF S
<1>2. t[f].name = name /\ Active(version, t, f) /\ t[f].scope <= checkScope
  BY <1>1 DEF Candidates
<1>3. CASE t[f].block = Over
  <2>1. EntryAt(t[f], open)
    BY <1>1 DEF TableAs
  <2>2. PICK e : e = t[f] /\ EntryAt(e, open) /\ e.block = Over
    BY <1>3, <2>1
  <2>3. version = "phase3" \/ e.is_active
    BY <1>2, <2>2 DEF Active
  <2>4. version = "phase3" \/ (version = "phases4_5" /\ e.type = "userfunc")
    BY <2>2, <2>3 DEF EntryAt, SwitchedRight, OpenInv, Versions
  <2>5. QED BY <1>3, <2>2, <2>4 DEF RightIn
<1>4. CASE t[f].block # Over
  <2>1. f \in VisibleIn(t, name)
    BY <1>1, <1>2, <1>4 DEF VisibleIn
  <2>2. CASE \A j \in VisibleIn(t, name) : t[j].scope <= t[f].scope
    <3>1. f \in InnermostIn(t, name)
      BY <2>1, <2>2 DEF InnermostIn
    <3>2. QED BY <3>1 DEF RightIn
  <2>3. ASSUME NEW j \in VisibleIn(t, name), ~(t[j].scope <= t[f].scope)
        PROVE  OverlookedIn(t, name)
    <3>1. j \in DOMAIN t /\ t[j].name = name /\ t[j].block # Over
      BY DEF VisibleIn
    <3>2. Active(version, t, j) /\ t[j].scope <= checkScope
      BY <3>1, VisibleIs
    <3>3. Passed(version, t, j, checkScope, inside_function_scope)
      BY <1>1, <2>3, <3>1, <3>2 DEF Candidates
    <3>4. version \in Versions
      BY DEF OpenInv
    <3>5. CASE version = "phase2"
      BY <3>3, <3>5 DEF Passed, OverlookedIn
    <3>6. CASE version = "phase3"
      BY <3>3, <3>6 DEF Passed, OverlookedIn
    <3>7. CASE version = "phases4_5"
      BY <3>3, <3>7 DEF Passed
    <3>8. QED BY <3>4, <3>5, <3>6, <3>7 DEF Versions
  <2>4. QED BY <2>2, <2>3 DEF RightIn
<1>5. QED BY <1>3, <1>4

-----------------------------------------------------------------------------
(* Phase 2: the stack of function scopes. *)
StackAs(s, o) ==
  /\ s \in Seq(Nat)
  /\ \A i \in 1 .. Len(s) : s[i] \in FunctionsIn(o, Len(o))
  /\ \A i, j \in 1 .. Len(s) : i < j => s[j] < s[i]
  /\ \A k \in FunctionsIn(o, Len(o)) : \E i \in 1 .. Len(s) : s[i] = k

(* The innermost function is at its head. *)
LEMMA HeadIs ==
  ASSUME NEW o \in Seq(OpenType), NEW s, StackAs(s, o), OwnerAt(o, Len(o)) # 0
  PROVE  s # << >> /\ Head(s) = OwnerAt(o, Len(o)) /\ 1 \in 1 .. Len(s) /\ s[1] = OwnerAt(o, Len(o))
<1>0. PICK n \in Nat : n = Len(o)
  OBVIOUS
<1>1. PICK w : n = Len(o) /\ w = OwnerAt(o, n)
  BY <1>0
<1>2. w \in 0 .. n /\ w \in FunctionsIn(o, n) /\ \A k \in FunctionsIn(o, n) : k <= w
  BY <1>1, OwnerIs
<1>3. PICK i \in 1 .. Len(s) : s[i] = w
  BY <1>1, <1>2 DEF StackAs
<1>4. /\ s \in Seq(Nat) /\ Len(s) \in Nat /\ 1 \in 1 .. Len(s) /\ s[1] \in Nat
      /\ s[1] <= w
  <2>1. s \in Seq(Nat)
    BY DEF StackAs
  <2>2. Len(s) \in Nat /\ 1 \in 1 .. Len(s)
    BY <1>3, <2>1
  <2>3. s[1] \in FunctionsIn(o, n)
    BY <1>1, <2>2 DEF StackAs
  <2>4. s[1] \in Nat
    BY <2>1, <2>2
  <2>5. QED BY <1>2, <2>1, <2>2, <2>3, <2>4
<1>5. 1 < i => w < s[1]
  BY <1>3, <1>4 DEF StackAs
<1>6. s[1] = w
  <2>1. i = 1 \/ 1 < i
    BY <1>4
  <2>2. QED BY <1>2, <1>3, <1>4, <1>5, <2>1
<1>7. s # << >> /\ Head(s) = s[1]
  BY <1>4
<1>8. QED BY <1>1, <1>4, <1>6, <1>7

(* The depth of a block of Phase 2 is its place. *)
LEMMA DepthOfPhase2 ==
  ASSUME version = "phase2", NEW o, NEW b \in Nat
  PROVE  DepthAt(o, b) = b
<1>1. PICK n \in Nat : n = Cardinality(FunctionsIn(o, b))
  BY FunctionsCounted
<1>2. DepthAt(o, b) = b + n * (1 - 1)
  BY <1>1 DEF DepthAt, FunctionScopes
<1>3. QED BY <1>2

(* What is found and accepted is of this function. *)
LEMMA FoundIsOwn ==
  ASSUME OpenInv, version = "phase2", inside_function_scope <=> Owner # 0,
         StackAs(function_scope_stack, open),
         NEW t, TableAs(t, open), NEW name,
         NEW f, f = Lookup(version, t, name, checkScope, inside_function_scope), f # 0,
         ~Foreign(t[f])
  PROVE  OwnIn(t, f)
<1>1. f \in DOMAIN t /\ Active(version, t, f)
  <2> DEFINE S == Candidates(version, t, name, checkScope, inside_function_scope)
  <2>1. t \in Seq(EntryType) /\ checkScope \in Nat
    BY HereIs DEF TableAs
  <2>2. f \in S /\ f \in DOMAIN t
    <3> HIDE DEF S
    <3>1. QED BY <2>1, LookupIs DEF S
  <2>3. QED BY <2>2 DEF Candidates
<1>2. PICK e : e = t[f] /\ EntryAt(e, open) /\ e.is_active /\ ~Foreign(e)
  <2>1. EntryAt(t[f], open) /\ t[f].is_active
    BY <1>1 DEF TableAs, Active
  <2>2. QED BY <2>1
<1>3. /\ e.block # Over /\ e.type \in Types /\ e.type # "temp"
      /\ PlacedAt(e, open) /\ e.scope \in Nat
  BY <1>2 DEF EntryAt, SwitchedRight, KindRight, EntryType
<1>4. SUFFICES ASSUME e.type \in Variables, e.scope # 0
               PROVE  e.owner = Owner
  BY <1>2, <1>3 DEF OwnIn, Types
<1>5. /\ e.block \in 0 .. Len(open) /\ e.owner = OwnerAt(open, e.block)
      /\ e.scope <= DepthAt(open, e.block)
  BY <1>3 DEF PlacedAt
<1>6. PICK b \in Nat, n \in Nat :
        /\ b = e.block /\ n = Block /\ n = Len(open) /\ b <= n /\ e.owner = OwnerAt(open, b) /\ e.scope <= b
        /\ Owner = OwnerAt(open, n)
  <2>1. Block \in Nat /\ Block = Len(open) /\ Owner = OwnerAt(open, Block)
    BY HereIs
  <2>2. e.block \in Nat /\ DepthAt(open, e.block) = e.block
    BY <1>5, <2>1, DepthOfPhase2
  <2>3. QED BY <1>5, <2>1, <2>2
<1>7. FunctionsIn(open, b) \subseteq FunctionsIn(open, n)
  BY <1>6 DEF FunctionsIn
<1>8. /\ OwnerAt(open, b) = 0 <=> FunctionsIn(open, b) = {}
      /\ OwnerAt(open, b) # 0 => OwnerAt(open, b) \in FunctionsIn(open, b)
      /\ \A i \in FunctionsIn(open, b) : i <= OwnerAt(open, b)
      /\ OwnerAt(open, b) \in 0 .. b
  BY OwnerIs
<1>9. /\ OwnerAt(open, n) = 0 <=> FunctionsIn(open, n) = {}
      /\ OwnerAt(open, n) # 0 => OwnerAt(open, n) \in FunctionsIn(open, n)
      /\ \A i \in FunctionsIn(open, n) : i <= OwnerAt(open, n)
      /\ OwnerAt(open, n) \in 0 .. n
  BY OwnerIs
<1>10. CASE Owner = 0
  <2>1. FunctionsIn(open, b) = {}
    BY <1>6, <1>7, <1>9, <1>10
  <2>2. QED BY <1>6, <1>8, <1>10, <2>1
<1>11. CASE Owner # 0
  <2>1. /\ function_scope_stack # << >> /\ Head(function_scope_stack) = Owner
    <3>1. open \in Seq(OpenType) /\ OwnerAt(open, Len(open)) # 0
      BY <1>6, <1>11 DEF OpenInv
    <3>2. QED BY <1>6, <3>1, HeadIs
  <2>2. inside_function_depth > 0
    BY <1>11, HereIs
  <2>3. ~(e.scope < Owner)
    BY <1>2, <1>4, <2>1, <2>2 DEF Foreign
  <2>4. PICK w \in Nat : w = Owner /\ w <= b /\ w # 0
    BY <1>3, <1>6, <1>9, <1>11, <2>3
  <2>5. w \in FunctionsIn(open, b)
    <3>1. w \in FunctionsIn(open, n)
      BY <1>6, <1>9, <2>4
    <3>2. QED BY <2>4, <3>1 DEF FunctionsIn
  <2>6. w <= OwnerAt(open, b) /\ OwnerAt(open, b) <= w
    <3>1. OwnerAt(open, b) \in FunctionsIn(open, n)
      BY <1>7, <1>8, <2>5
    <3>2. QED BY <1>6, <1>8, <1>9, <2>4, <2>5, <3>1
  <2>7. QED BY <1>6, <1>8, <2>4, <2>6
<1>12. QED BY <1>10, <1>11

(* What has just been declared is found. *)
LEMMA NewIsFound ==
  ASSUME OpenInv, version = "phase2", NEW t, TableAs(t, open),
         NEW e \in EntryType, e.is_active, e.scope = checkScope, Insertable(version, t, e),
         NEW u, u = Append(t, e), NEW context, NEW name, name = e.name,
         NEW f, f = Lookup(version, u, name, checkScope, context), f # 0
  PROVE  f = Len(u) /\ u[f] = e
<1> DEFINE S == Candidates(version, u, e.name, checkScope, context)
<1>1. PICK z \in Nat : z = Len(t) /\ DOMAIN t = 1 .. z
  BY DEF TableAs
<1>2. /\ u \in Seq(EntryType) /\ Len(u) = z + 1 /\ DOMAIN u = 1 .. z + 1
      /\ \A i \in 1 .. z : u[i] = t[i]
      /\ u[z + 1] = e
  <2>1. t \in Seq(EntryType)
    BY DEF TableAs
  <2>2. QED BY <1>1, <2>1, AppendProperties
<1>3. checkScope \in Nat
  BY HereIs
<1>4. f \in S /\ f \in DOMAIN u /\ \A j \in S : u[j].scope <= u[f].scope
  <2>1. PICK c \in Nat : c = checkScope
    BY <1>3
  <2>2. PICK x : x = e.name
    OBVIOUS
  <2>3. PICK T : T = Candidates(version, u, x, c, context) /\ T = S
    BY <2>1, <2>2
  <2>4. f = Lookup(version, u, x, c, context)
    BY <2>1, <2>2
  <2>5. /\ f \in 0 .. Len(u)
        /\ f # 0 => f \in T /\ f \in DOMAIN u /\ \A j \in T : u[j].scope <= u[f].scope
    <3>1. u \in Seq(EntryType) /\ T = Candidates(version, u, x, c, context)
      BY <1>2, <2>3
    <3> HIDE DEF S
    <3>2. QED BY <2>4, <3>1, LookupIs, ZenonT(60)
  <2>6. QED BY <2>3, <2>5
<1>5. z + 1 \in S
  <2>1. ~Passed(version, u, z + 1, checkScope, context)
    BY <1>2 DEF Passed, Between
  <2>2. Active(version, u, z + 1)
    BY <1>2 DEF Active
  <2>3. z + 1 \in DOMAIN u /\ u[z + 1].name = e.name /\ u[z + 1].scope <= checkScope
    BY <1>2, <1>3
  <2>4. QED BY <2>1, <2>2, <2>3 DEF Candidates
<1>6. u[f].scope = checkScope /\ u[f].name = e.name /\ Active(version, u, f)
  <2>1. u[f].scope <= checkScope /\ u[f].name = e.name /\ Active(version, u, f)
    BY <1>4 DEF Candidates
  <2>2. checkScope <= u[f].scope
    BY <1>2, <1>4, <1>5
  <2>3. u[f].scope \in Nat
    <3>1. u[f] \in EntryType
      BY <1>2, <1>4
    <3>2. QED BY <3>1 DEF EntryType
  <2> HIDE DEF S
  <2>4. u[f].scope = checkScope
    <3>1. ASSUME NEW x \in Nat, NEW y \in Nat, x <= y, y <= x
          PROVE  x = y
      BY ONLY <3>1
    <3>2. u[f].scope <= checkScope
      BY ONLY <2>1
    <3>3. QED BY ONLY <1>3, <2>2, <2>3, <3>1, <3>2
  <2>5. QED BY <2>1, <2>4
<1>7. ASSUME f # z + 1
      PROVE  FALSE
  <2>1. f \in 1 .. z /\ u[f] = t[f]
    BY <1>2, <1>4, <1>7
  <2>2. f \in SameScope(version, t, e)
    BY <1>1, <1>6, <2>1 DEF SameScope, Active
  <2>3. SameScope(version, t, e) = {}
    BY DEF Insertable
  <2>4. QED BY <2>2, <2>3
<1>8. QED BY <1>2, <1>7

-----------------------------------------------------------------------------
(* The inductive invariant. *)
TableInv == TableAs(table, open)
LastInv == last.found \in 0 .. Len(table)
GlobalsInv == global_offset = Cardinality(Globals(table))
StackInv ==
  version = "phase2" => /\ inside_function_scope <=> Owner # 0
                        /\ StackAs(function_scope_stack, open)
CellsInv ==
  version = "phases4_5" => CellsAs(table, open, global_offset, local_offset, formal_offset)

ScopesInv == OpenInv /\ TableInv /\ LastInv /\ GlobalsInv /\ StackInv /\ CellsInv

(* The version of the compiler never changes, and so what it says of depths *)
(* and of entries.                                                          *)
LEMMA OpenAfter ==
  ASSUME OpenInv, version' = version, open' \in Seq(OpenType), Len(open') <= MaxOpen,
         checkScope' = DepthAt(open', Len(open')),
         inside_function_depth' = Cardinality(FunctionsIn(open', Len(open'))),
         global_offset' \in Nat, local_offset' \in Nat, formal_offset' \in Nat,
         tempcounter' \in Nat
  PROVE  OpenInv'
<1>1. (checkScope = DepthAt(open, Len(open)))'
  BY DEF DepthAt, FunctionsIn, FunctionScopes
<1>2. (inside_function_depth = Cardinality(FunctionsIn(open, Len(open))))'
  BY DEF FunctionsIn
<1>3. QED BY <1>1, <1>2 DEF OpenInv

(* The same of the table.                                                 *)
LEMMA TableAfter ==
  ASSUME version' = version, TableAs(table', open')
  PROVE  TableInv'
<1>1. table' \in Seq(EntryType) /\ \A i \in 1 .. Len(table') : EntryAt(table'[i], open')
  BY DEF TableAs
<1>2. ASSUME NEW i \in 1 .. Len(table')
      PROVE  EntryAt(table[i], open)'
  <2>1. EntryAt(table'[i], open')
    BY <1>1
  <2>2. /\ table'[i] \in EntryType /\ PlacedAt(table'[i], open')
        /\ SwitchedRight(table'[i]) /\ KindRight(table'[i])
    BY <2>1 DEF EntryAt
  <2>3. PlacedAt(table[i], open)'
    BY <2>2 DEF PlacedAt, DepthAt, OwnerAt, FunctionsIn, FunctionScopes, Over
  <2>4. SwitchedRight(table[i])'
    BY <2>2 DEF SwitchedRight, Over
  <2>5. KindRight(table[i])'
    BY <2>2 DEF KindRight
  <2>6. QED BY <2>2, <2>3, <2>4, <2>5 DEF EntryAt
<1>3. QED BY <1>1, <1>2 DEF TableInv, TableAs

(* The same of the cells.                                                 *)
LEMMA CellsAfterwards ==
  ASSUME version' = version,
         version = "phases4_5" => CellsAs(table', open', global_offset', local_offset', formal_offset')
  PROVE  CellsInv'
BY DEF CellsInv, CellsAs, Counts, OwnerAt, FunctionsIn

(* The same of the stack of Phase 2.                                      *)
LEMMA StackAfter ==
  ASSUME version' = version,
         version = "phase2" => /\ inside_function_scope' <=> Owner' # 0
                               /\ StackAs(function_scope_stack', open')
  PROVE  StackInv'
BY DEF StackInv, StackAs, FunctionsIn

(* The same of the cells of the program.                                  *)
LEMMA GlobalsAfter ==
  ASSUME global_offset' = Cardinality(Globals(table'))
  PROVE  GlobalsInv'
BY DEF GlobalsInv, Globals

-----------------------------------------------------------------------------
(* Initially the table has the library functions. *)
LEMMA LibraryCounted ==
  /\ Cardinality(Library) \in Nat
  /\ SetToSeq(Library) \in [1 .. Cardinality(Library) -> Library]
<1>1. IsFiniteSet(Library)
  BY ScopesAssumption
<1>2. Cardinality(Library) \in Nat /\ ExistsBijection(1 .. Cardinality(Library), Library)
  BY <1>1, FS_CardinalityType
<1>3. PICK b \in [1 .. Cardinality(Library) -> Library] :
        \A i, j \in 1 .. Cardinality(Library) : b[i] = b[j] => i = j
  BY <1>2 DEF ExistsBijection, Bijection, Injection, IsInjective
<1>4. \E f \in [1 .. Cardinality(Library) -> Library] : IsInjective(f)
  BY <1>3 DEF IsInjective
<1>5. QED BY <1>2, <1>4 DEF SetToSeq

(* The compiler starts in the invariant.                                  *)
LEMMA InitInv == Init => ScopesInv
<1> SUFFICES ASSUME Init PROVE ScopesInv
  OBVIOUS
<1>0. PICK n \in Nat : n = Cardinality(Library)
  BY LibraryCounted
<1>1. PICK names \in [1 .. n -> Library] : n = Cardinality(Library) /\ names = SetToSeq(Library)
  BY <1>0, LibraryCounted
<1>2. /\ version \in Versions /\ open = << >> /\ checkScope = 0 /\ inside_function_depth = 0
      /\ inside_function_scope = FALSE /\ function_scope_stack = << >> /\ tempcounter = 0
      /\ local_offset = 0 /\ formal_offset = 0 /\ last = Nothing
      /\ global_offset = IF version = "phases4_5" THEN n ELSE 0
  BY <1>1 DEF Init
<1>3. table = [i \in 1 .. n |-> LibraryEntry(i, names[i])]
  BY <1>1 DEF Init
<1>4. Len(open) = 0 /\ open \in Seq(OpenType)
  BY <1>2
<1>5. FunctionsIn(open, 0) = {} /\ OwnerAt(open, 0) = 0 /\ DepthAt(open, 0) = 0
  BY NoFunctions
<1>6. OpenInv
  <2>1. Cardinality(FunctionsIn(open, 0)) = 0
    BY <1>5, FS_EmptySet
  <2>2. MaxOpen \in Nat
    BY OverIs
  <2>3. global_offset \in Nat
    BY <1>2
  <2>4. QED BY <1>2, <1>4, <1>5, <2>1, <2>2, <2>3 DEF OpenInv
<1>7. ASSUME NEW i \in 1 .. n
      PROVE  /\ table[i] \in EntryType /\ EntryAt(table[i], open)
             /\ table[i].space = IF version = "phases4_5" THEN "programvar" ELSE "none"
             /\ table[i].offset = IF version = "phases4_5" THEN i - 1 ELSE 0
             /\ table[i].owner = 0
  <2>0. PICK e : e = table[i]
    OBVIOUS
  <2>1. PICK name \in Names, s \in Spaces, k \in Nat :
          /\ name = names[i]
          /\ s = (IF version = "phases4_5" THEN "programvar" ELSE "none")
          /\ k = (IF version = "phases4_5" THEN i - 1 ELSE 0)
    <3>1. names[i] \in Names
      BY <1>1, ScopesAssumption
    <3>2. QED BY <3>1 DEF Spaces
  <2>2. e = [name |-> name, type |-> "libfunc", scope |-> 0, is_active |-> TRUE,
             space |-> s, offset |-> k, block |-> 0, owner |-> 0, line |-> 0]
    BY <1>3, <2>0, <2>1 DEF LibraryEntry
  <2>3. e \in EntryType
    <3>1. name \in AnyName /\ "libfunc" \in Types
      BY DEF AnyName, Types, Functions
    <3>2. QED BY <2>2, <3>1 DEF EntryType
  <2>4. 0 # Over
    BY OverIs
  <2>5. PlacedAt(e, open)
    BY <1>4, <1>5, <2>2, <2>4 DEF PlacedAt
  <2>6. SwitchedRight(e) /\ KindRight(e)
    BY <2>1, <2>2, <2>4 DEF SwitchedRight, KindRight
  <2>7. QED BY <2>0, <2>1, <2>2, <2>3, <2>5, <2>6 DEF EntryAt
<1>8. Len(table) = n /\ DOMAIN table = 1 .. n /\ table \in Seq(EntryType)
  <2>1. table \in [1 .. n -> EntryType]
    BY <1>3, <1>7
  <2>2. QED BY <2>1
<1>9. TableInv
  BY <1>7, <1>8 DEF TableInv, TableAs
<1>10. LastInv
  BY <1>2, <1>8 DEF LastInv, Nothing
<1>11. GlobalsInv
  <2>1. CASE version = "phases4_5"
    <3>1. Globals(table) = 1 .. n
      BY <1>7, <1>8, <2>1 DEF Globals
    <3>2. Cardinality(1 .. n) = n
      <4>1. 1 \in Int /\ n \in Int
        OBVIOUS
      <4>2. Cardinality(1 .. n) = IF 1 > n THEN 0 ELSE n - 1 + 1
        BY <4>1, FS_Interval
      <4>3. QED BY <4>2
    <3>3. QED BY <1>2, <2>1, <3>1, <3>2 DEF GlobalsInv
  <2>2. CASE version # "phases4_5"
    <3>1. Globals(table) = {}
      BY <1>7, <1>8, <2>2 DEF Globals
    <3>2. QED BY <1>2, <2>2, <3>1, FS_EmptySet DEF GlobalsInv
  <2>3. QED BY <2>1, <2>2
<1>12. StackInv
  <2>1. Owner = 0
    BY <1>4, <1>5, <1>6, HereIs
  <2>2. StackAs(function_scope_stack, open)
    BY <1>2, <1>4, <1>5 DEF StackAs
  <2>3. QED BY <1>2, <2>1, <2>2 DEF StackInv
<1>13. CellsInv
  <2>1. SUFFICES ASSUME version = "phases4_5"
                 PROVE  CellsAs(table, open, global_offset, local_offset, formal_offset)
    BY DEF CellsInv
  <2>2. \A i \in 1 .. n : ~Counts(table[i], open)
    BY <1>7 DEF Counts
  <2>3. \A i \in 1 .. n : table[i].space = "programvar" => table[i].offset < global_offset
    BY <1>2, <1>7, <2>1
  <2>4. \A i, j \in 1 .. n : i # j => table[i].offset # table[j].offset
    BY <1>7, <2>1
  <2>5. QED BY <1>4, <1>5, <1>8, <2>2, <2>3, <2>4 DEF CellsAs
<1>14. QED BY <1>6, <1>9, <1>10, <1>11, <1>12, <1>13 DEF ScopesInv

-----------------------------------------------------------------------------
(* Names are declared and referred to. *)

(* What such a step may do to the table: one entry more, or none. *)
Extends ==
  \/ UNCHANGED <<table, offsets>>
  \/ \E name \in AnyName, type \in Types :
       /\ type \in {"global", "libfunc"} => checkScope = 0
       /\ version = "phase2" => type # "temp"
       /\ table' = Append(table, Entry(name, type))
       /\ Took(Space(type))

(* Such a step keeps the invariant.                                       *)
LEMMA ExtendsKeeps ==
  ASSUME ScopesInv, version' = version, open' = open, scopes' = scopes,
         tempcounter' \in Nat, last'.found \in 0 .. Len(table'), Extends
  PROVE  ScopesInv'
<1>1. /\ OpenInv /\ TableInv /\ GlobalsInv /\ StackInv /\ CellsInv
  BY DEF ScopesInv
<1>2. /\ checkScope' = checkScope /\ inside_function_depth' = inside_function_depth
      /\ inside_function_scope' = inside_function_scope
      /\ function_scope_stack' = function_scope_stack
  BY DEF scopes
<1>3. Owner' = Owner
  BY DEF Owner, OpenFunctions
<1>4. StackInv'
  BY <1>1, <1>2, <1>3, StackAfter DEF StackInv
<1>5. LastInv'
  BY DEF LastInv
<1>6. /\ open' \in Seq(OpenType) /\ Len(open') <= MaxOpen
      /\ checkScope' = DepthAt(open', Len(open'))
      /\ inside_function_depth' = Cardinality(FunctionsIn(open', Len(open')))
  BY <1>1, <1>2 DEF OpenInv
<1>7. CASE UNCHANGED <<table, offsets>>
  <2>1. /\ table' = table /\ global_offset' = global_offset
        /\ local_offset' = local_offset /\ formal_offset' = formal_offset
    BY <1>7 DEF offsets
  <2>2. OpenInv'
    BY <1>1, <1>6, <2>1, OpenAfter DEF OpenInv
  <2>3. TableInv'
    BY <1>1, <2>1, TableAfter DEF TableInv
  <2>4. GlobalsInv'
    BY <1>1, <2>1, GlobalsAfter DEF GlobalsInv
  <2>5. CellsInv'
    BY <1>1, <2>1, CellsAfterwards DEF CellsInv
  <2>6. QED BY <1>4, <1>5, <2>2, <2>3, <2>4, <2>5 DEF ScopesInv
<1>8. ASSUME NEW name \in AnyName, NEW type \in Types,
             type \in {"global", "libfunc"} => checkScope = 0,
             version = "phase2" => type # "temp",
             table' = Append(table, Entry(name, type)), Took(Space(type))
      PROVE  ScopesInv'
  <2>1. PICK e : e = Entry(name, type)
    OBVIOUS
  <2>2. /\ EntryAt(e, open) /\ e.space = Space(type) /\ e.offset = Offset(Space(type))
        /\ e.owner = Owner
    BY <1>1, <1>8, <2>1, EntryNew
  <2>3. e \in EntryType
    BY <2>2 DEF EntryAt
  <2>4. PICK g \in Nat, l \in Nat, f \in Nat : g = global_offset /\ l = local_offset /\ f = formal_offset
    BY <1>1 DEF OpenInv
  <2>5. PICK s \in Spaces : s = Space(type) /\ (version = "phases4_5" <=> s # "none")
    BY <1>1, SpaceIs
  <2>6. PICK h \in Nat, m \in Nat, k \in Nat :
          /\ h = global_offset' /\ m = local_offset' /\ k = formal_offset'
          /\ h = (IF s = "programvar" THEN g + 1 ELSE g)
          /\ m = (IF s = "functionlocal" THEN l + 1 ELSE l)
          /\ k = (IF s = "formalarg" THEN f + 1 ELSE f)
    BY <1>8, <2>4, <2>5 DEF Took
  <2>7. PICK t \in Seq(EntryType) : t = table /\ TableAs(t, open) /\ table' = Append(t, e)
    BY <1>1, <1>8, <2>1 DEF TableInv, TableAs
  <2>8. PICK u : u = Append(t, e)
    OBVIOUS
  <2>9. u \in Seq(EntryType) /\ Len(t) \in Nat /\ Len(u) = Len(t) + 1
        /\ (\A i \in 1 .. Len(t) : u[i] = t[i]) /\ u[Len(t) + 1] = e
    BY <2>3, <2>8, AppendProperties
  <2>10. TableAs(u, open)
    <3>1. \A i \in 1 .. Len(t) + 1 : i \in 1 .. Len(t) \/ i = Len(t) + 1
      BY <2>9
    <3>2. \A i \in 1 .. Len(t) : EntryAt(t[i], open)
      BY <2>7 DEF TableAs
    <3>3. ASSUME NEW i \in 1 .. Len(u)
          PROVE  EntryAt(u[i], open)
      BY <2>2, <2>9, <3>1, <3>2
    <3>4. QED BY <2>9, <3>3 DEF TableAs
  <2>11. TableInv'
    BY <2>7, <2>8, <2>10, TableAfter
  <2>12. OpenInv'
    BY <1>1, <1>6, <2>6, OpenAfter
  <2>13. GlobalsInv'
    <3>1. Cardinality(Globals(u)) = Cardinality(Globals(t)) + IF e.space = "programvar" THEN 1 ELSE 0
      BY <2>3, <2>8, GlobalsTaken
    <3>2. g = Cardinality(Globals(t))
      BY <1>1, <2>4, <2>7 DEF GlobalsInv
    <3>3. h = Cardinality(Globals(u))
      BY <2>2, <2>5, <2>6, <3>1, <3>2
    <3>4. QED BY <2>6, <2>7, <2>8, <3>3, GlobalsAfter
  <2>14. CellsInv'
    <3>1. SUFFICES ASSUME version = "phases4_5" PROVE CellsAs(u, open, h, m, k)
      BY <2>6, <2>7, <2>8, CellsAfterwards
    <3>2. CellsAs(t, open, g, l, f)
      BY <1>1, <2>4, <2>7, <3>1 DEF CellsInv
    <3>3. e.owner = OwnerAt(open, Len(open))
      BY <1>1, <2>2, HereIs
    <3>4. Takes(e, g, l, f, h, m, k)
      <4>1. s = "programvar" \/ s = "functionlocal" \/ s = "formalarg"
        BY <2>5, <3>1 DEF Spaces
      <4>2. e.space = s /\ e.offset = Offset(s)
        BY <2>2, <2>5
      <4>3. e.offset = IF s = "formalarg" THEN f ELSE IF s = "functionlocal" THEN l ELSE g
        BY <2>4, <4>1, <4>2 DEF Offset
      <4>4. QED BY <2>6, <4>1, <4>2, <4>3 DEF Takes
    <3>5. QED BY <2>3, <2>8, <3>2, <3>3, <3>4, CellTaken
  <2>15. QED BY <1>4, <1>5, <2>11, <2>12, <2>13, <2>14 DEF ScopesInv
<1>9. QED BY <1>7, <1>8 DEF Extends

(* What a declaration does, whatever its entry is. *)
DeclaredAs(how, name, e) ==
  /\ \/ UNCHANGED <<table, offsets>>
     \/ Insertable(version, table, e) /\ table' = Append(table, e) /\ Took(e.space)
  /\ last'.how = how /\ last'.name = name
  /\ last'.found = IF version = "phase2"
                   THEN Lookup(version, table', name, checkScope, inside_function_scope)
                   ELSE IF table' = table THEN 0 ELSE Len(table')

(* insert_symbol, and what is found afterwards, field by field.           *)
LEMMA DeclareIs ==
  ASSUME NEW how, NEW e, NEW name, name = e.name, Declare(how, e)
  PROVE  DeclaredAs(how, name, e)
<1>1. last' = [how |-> how, name |-> name,
               found |-> CASE version = "phase2" ->
                                Lookup(version, table', name, checkScope, inside_function_scope)
                           [] OTHER -> IF table' = table THEN 0 ELSE Len(table')]
  BY DEF Declare, Said
<1>2. last'.found = CASE version = "phase2" ->
                           Lookup(version, table', name, checkScope, inside_function_scope)
                      [] OTHER -> IF table' = table THEN 0 ELSE Len(table')
  BY <1>1
<1>3. last'.found = IF version = "phase2"
                    THEN Lookup(version, table', name, checkScope, inside_function_scope)
                    ELSE IF table' = table THEN 0 ELSE Len(table')
  <2>1. CASE version = "phase2"
    BY <1>2, <2>1
  <2>2. CASE version # "phase2"
    BY <1>2, <2>2
  <2>3. QED BY <2>1, <2>2
<1>4. last'.how = how /\ last'.name = name
  BY <1>1
<1>5. \/ UNCHANGED <<table, offsets>>
      \/ Insertable(version, table, e) /\ table' = Append(table, e) /\ Took(e.space)
  BY DEF Declare
<1>6. QED BY <1>3, <1>4, <1>5 DEF DeclaredAs

(* A declaration extends the table and finds a place of it.               *)
LEMMA DeclaredExtends ==
  ASSUME OpenInv, TableInv, NEW how, NEW name \in AnyName, NEW type \in Types,
         type \in {"global", "libfunc"} => checkScope = 0, version = "phase2" => type # "temp",
         Declare(how, Entry(name, type))
  PROVE  /\ Extends /\ last'.found \in 0 .. Len(table')
         /\ DeclaredAs(how, name, Entry(name, type)) /\ TableAs(table', open)
<1>1. PICK e : e = Entry(name, type)
  OBVIOUS
<1>2. /\ EntryAt(e, open) /\ e.name = name /\ e.space = Space(type)
  BY <1>1, EntryNew
<1>3. DeclaredAs(how, name, e)
  BY <1>1, <1>2, DeclareIs
<1>4. Extends
  BY <1>1, <1>2, <1>3 DEF DeclaredAs, Extends
<1>5. TableAs(table', open) /\ Len(table') \in Nat
  <2>1. PICK t \in Seq(EntryType) : t = table /\ TableAs(t, open)
    BY DEF TableInv, TableAs
  <2>2. CASE table' = t
    BY <2>1, <2>2
  <2>3. CASE table' = Append(t, e)
    <3>1. e \in EntryType
      BY <1>2 DEF EntryAt
    <3>2. PICK u : u = Append(t, e)
      OBVIOUS
    <3>3. u \in Seq(EntryType) /\ Len(t) \in Nat /\ Len(u) = Len(t) + 1
          /\ (\A i \in 1 .. Len(t) : u[i] = t[i]) /\ u[Len(t) + 1] = e
      BY <3>1, <3>2, AppendProperties
    <3>4. \A i \in 1 .. Len(t) : EntryAt(t[i], open)
      BY <2>1 DEF TableAs
    <3>5. \A i \in 1 .. Len(t) + 1 : i \in 1 .. Len(t) \/ i = Len(t) + 1
      BY <3>3
    <3>6. ASSUME NEW i \in 1 .. Len(u)
          PROVE  EntryAt(u[i], open)
      BY <1>2, <3>3, <3>4, <3>5
    <3>7. TableAs(u, open)
      BY <3>3, <3>6 DEF TableAs
    <3>8. QED BY <2>3, <3>2, <3>3, <3>7
  <2>4. QED BY <1>3, <2>1, <2>2, <2>3 DEF DeclaredAs
<1>6. last'.found \in 0 .. Len(table')
  <2>1. CASE version = "phase2"
    <3>1. PICK u, f : u = table' /\ f = last'.found
      OBVIOUS
    <3>2. f = Lookup(version, u, name, checkScope, inside_function_scope)
      BY <1>3, <2>1, <3>1 DEF DeclaredAs
    <3>3. u \in Seq(EntryType) /\ checkScope \in Nat
      BY <1>5, <3>1, HereIs DEF TableAs
    <3>4. PICK S : S = Candidates(version, u, name, checkScope, inside_function_scope)
      OBVIOUS
    <3>5. f \in 0 .. Len(u)
      BY <3>2, <3>3, <3>4, LookupIs
    <3>6. QED BY <3>1, <3>5
  <2>2. CASE version # "phase2"
    BY <1>3, <1>5, <2>2 DEF DeclaredAs
  <2>3. QED BY <2>1, <2>2
<1>7. QED BY <1>1, <1>3, <1>4, <1>5, <1>6

(* What is found is in the table. *)
LEMMA FoundIn ==
  ASSUME OpenInv, TableInv, NEW v, NEW name, NEW current \in Nat, NEW context
  PROVE  Lookup(v, table, name, current, context) \in 0 .. Len(table)
<1>1. PICK t \in Seq(EntryType) : t = table
  BY DEF TableInv, TableAs
<1>2. PICK f : f = Lookup(v, t, name, current, context)
  OBVIOUS
<1>3. PICK S : S = Candidates(v, t, name, current, context)
  OBVIOUS
<1>4. f \in 0 .. Len(t)
  BY <1>2, <1>3, LookupIs
<1>5. QED BY <1>1, <1>2, <1>4

(* lvalue keeps the invariant.                                            *)
LEMMA ReferKeeps ==
  ASSUME ScopesInv, NEW name \in Names, Refer(name)
  PROVE  ScopesInv'
<1>1. OpenInv /\ TableInv
  BY DEF ScopesInv
<1>2. PICK found, type : /\ found = Find(name, checkScope, inside_function_scope)
                         /\ type = IF checkScope = 0 THEN "global" ELSE "local"
  OBVIOUS
<1>3. /\ IF found = 0 THEN Declare("refer", Entry(name, type))
         ELSE /\ Said("refer", name, IF version = "phase2" /\ Foreign(table[found]) THEN 0 ELSE found)
              /\ UNCHANGED <<table, offsets>>
      /\ UNCHANGED <<version, scopes, tempcounter, open>>
  BY <1>2 DEF Refer
<1>4. version' = version /\ open' = open /\ scopes' = scopes /\ tempcounter' \in Nat
  BY <1>1, <1>3 DEF OpenInv
<1>5. CASE found = 0
  <2>1. name \in AnyName /\ type \in Types /\ type # "temp"
        /\ (type \in {"global", "libfunc"} => checkScope = 0)
    BY <1>2 DEF AnyName, Types, Variables
  <2>2. Extends /\ last'.found \in 0 .. Len(table')
    BY <1>1, <1>3, <1>5, <2>1, DeclaredExtends
  <2>3. QED BY <1>4, <2>2, ExtendsKeeps
<1>6. CASE found # 0
  <2>1. found \in 0 .. Len(table) /\ Len(table) \in Nat
    <3>1. checkScope \in Nat
      BY <1>1, HereIs
    <3>2. table \in Seq(EntryType)
      BY <1>1 DEF TableInv, TableAs
    <3>3. QED BY <1>1, <1>2, <3>1, <3>2, FoundIn DEF Find
  <2>2. Extends /\ table' = table
    BY <1>3, <1>6 DEF Extends
  <2>3. last'.found \in {0, found}
    BY <1>3, <1>6 DEF Said
  <2>4. last'.found \in 0 .. Len(table')
    BY <2>1, <2>2, <2>3
  <2>5. QED BY <1>4, <2>2, <2>4, ExtendsKeeps
<1>7. QED BY <1>5, <1>6

(* local ID keeps the invariant.                                          *)
LEMMA DeclareLocalKeeps ==
  ASSUME ScopesInv, NEW name \in Names, DeclareLocal(name)
  PROVE  ScopesInv'
<1>1. OpenInv /\ TableInv
  BY DEF ScopesInv
<1>2. Declare("local", Entry(name, "local")) /\ UNCHANGED <<version, scopes, tempcounter, open>>
  BY DEF DeclareLocal
<1>3. version' = version /\ open' = open /\ scopes' = scopes /\ tempcounter' \in Nat
  BY <1>1, <1>2 DEF OpenInv
<1>4. name \in AnyName /\ "local" \in Types
  BY DEF AnyName, Types, Variables
<1>5. Extends /\ last'.found \in 0 .. Len(table')
  BY <1>1, <1>2, <1>4, DeclaredExtends
<1>6. QED BY <1>3, <1>5, ExtendsKeeps

(* :: ID keeps the invariant.                                             *)
LEMMA ReferGlobalKeeps ==
  ASSUME ScopesInv, NEW name \in Names, ReferGlobal(name)
  PROVE  ScopesInv'
<1>1. OpenInv /\ TableInv
  BY DEF ScopesInv
<1>2. Said("global", name, Find(name, 0, FALSE))
      /\ UNCHANGED <<version, table, scopes, tempcounter, offsets, open>>
  BY DEF ReferGlobal
<1>3. version' = version /\ open' = open /\ scopes' = scopes /\ tempcounter' \in Nat
  BY <1>1, <1>2 DEF OpenInv
<1>4. Extends /\ table' = table
  BY <1>2 DEF Extends
<1>5. last'.found \in 0 .. Len(table')
  <2>1. Find(name, 0, FALSE) \in 0 .. Len(table)
    BY <1>1, FoundIn DEF Find
  <2>2. QED BY <1>2, <1>4, <2>1 DEF Said
<1>6. QED BY <1>3, <1>4, <1>5, ExtendsKeeps

(* newtemp keeps the invariant.                                           *)
LEMMA NewTempKeeps ==
  ASSUME ScopesInv, NewTemp
  PROVE  ScopesInv'
<1>1. OpenInv /\ TableInv
  BY DEF ScopesInv
<1>2. PICK name, found :
        /\ name = TempNames[tempcounter + 1]
        /\ found = IF version = "phase3" THEN Find(name, checkScope, FALSE) ELSE 0
  OBVIOUS
<1>3. /\ version # "phase2" /\ tempcounter < Len(TempNames)
      /\ IF found = 0 THEN Declare("temp", Entry(name, "temp"))
         ELSE Said("temp", name, found) /\ UNCHANGED <<table, offsets>>
      /\ tempcounter' = tempcounter + 1
      /\ UNCHANGED <<version, scopes, open>>
  BY <1>2 DEF NewTemp
<1>4. version' = version /\ open' = open /\ scopes' = scopes /\ tempcounter' \in Nat
  BY <1>1, <1>3 DEF OpenInv
<1>5. name \in AnyName
  <2>1. tempcounter + 1 \in DOMAIN TempNames
    <3>1. tempcounter \in Nat /\ TempNames \in Seq(STRING)
      BY <1>1, ScopesAssumption DEF OpenInv
    <3>2. DOMAIN TempNames = 1 .. Len(TempNames) /\ Len(TempNames) \in Nat
      BY <3>1
    <3>3. QED BY <1>3, <3>1, <3>2
  <2>2. QED BY <1>2, <2>1 DEF AnyName
<1>6. CASE found = 0
  <2>1. "temp" \in Types
    BY DEF Types
  <2>2. Extends /\ last'.found \in 0 .. Len(table')
    BY <1>1, <1>3, <1>5, <1>6, <2>1, DeclaredExtends
  <2>3. QED BY <1>4, <2>2, ExtendsKeeps
<1>7. CASE found # 0
  <2>1. found \in 0 .. Len(table)
    <3>1. checkScope \in Nat
      BY <1>1, HereIs
    <3>2. found = Find(name, checkScope, FALSE)
      BY <1>2, <1>7
    <3>3. QED BY <1>1, <3>1, <3>2, FoundIn DEF Find
  <2>2. Extends /\ table' = table
    BY <1>3, <1>7 DEF Extends
  <2>3. last'.found \in 0 .. Len(table')
    BY <1>3, <1>7, <2>1, <2>2 DEF Said
  <2>4. QED BY <1>4, <2>2, <2>3, ExtendsKeeps
<1>8. QED BY <1>6, <1>7

(* resettemp keeps the invariant.                                         *)
LEMMA ResetTempKeeps ==
  ASSUME ScopesInv, ResetTemp
  PROVE  ScopesInv'
<1>1. OpenInv /\ TableInv /\ LastInv
  BY DEF ScopesInv
<1>2. tempcounter' = 0 /\ UNCHANGED <<version, table, scopes, offsets, open, last>>
  BY DEF ResetTemp
<1>3. version' = version /\ open' = open /\ scopes' = scopes /\ tempcounter' \in Nat
  BY <1>2
<1>4. Extends /\ last'.found \in 0 .. Len(table')
  BY <1>1, <1>2 DEF Extends, LastInv
<1>5. QED BY <1>3, <1>4, ExtendsKeeps

(* The innermost function after a step.                                   *)
LEMMA OwnerAfter ==
  ASSUME open' \in Seq(OpenType)
  PROVE  Owner' = OwnerAt(open', Len(open'))
<1>1. PICK p \in Seq(OpenType) : p = open'
  OBVIOUS
<1>2. OpenFunctions' = FunctionsIn(p, Len(p))
  BY <1>1 DEF OpenFunctions, FunctionsIn
<1>3. QED BY <1>1, <1>2 DEF Owner, OwnerAt

(* A block that opens keeps the invariant.                                *)
LEMMA OpenBlockKeeps ==
  ASSUME ScopesInv, OpenBlock
  PROVE  ScopesInv'
<1>1. /\ OpenInv /\ TableInv /\ GlobalsInv /\ StackInv /\ CellsInv
  BY DEF ScopesInv
<1>2. PICK o \in Seq(OpenType), n \in Nat : o = open /\ n = Len(o) /\ n < MaxOpen
  BY <1>1 DEF OpenInv, OpenBlock
<1>0. PICK p : p = Append(o, [kind |-> "block", hosts |-> FALSE])
  OBVIOUS
<1>3. PICK c \in Nat : p = Append(o, [kind |-> "block", hosts |-> FALSE]) /\ c = n + 1
  BY <1>0
<1>4. /\ open' = p /\ checkScope' = checkScope + 1 /\ last' = Nothing
      /\ UNCHANGED <<version, table, inside_function_depth, inside_function_scope,
                     function_scope_stack, tempcounter, offsets>>
  BY <1>2, <1>3 DEF OpenBlock
<1>5. /\ p \in Seq(OpenType) /\ Len(p) = c /\ (\A i \in 1 .. n : p[i] = o[i])
      /\ p[c].kind = "block"
  <2>1. PICK b \in OpenType : b = [kind |-> "block", hosts |-> FALSE]
    BY DEF OpenType
  <2>2. p = Append(o, b) /\ b.kind = "block"
    BY <1>3, <2>1
  <2>3. QED BY <1>2, <1>3, <2>2, AppendProperties
<1>6. /\ FunctionsIn(p, n) = FunctionsIn(o, n)
      /\ OwnerAt(p, n) = OwnerAt(o, n) /\ DepthAt(p, n) = DepthAt(o, n)
  <2>1. \A i \in 1 .. n : p[i].kind = o[i].kind
    BY <1>5
  <2>2. QED BY <2>1, SameFunctions
<1>7. /\ FunctionsIn(p, c) = FunctionsIn(o, n) /\ OwnerAt(p, c) = OwnerAt(o, n)
      /\ DepthAt(p, c) = DepthAt(o, n) + 1
  <2>1. version \in Versions /\ p[c].kind # "function"
    BY <1>1, <1>5 DEF OpenInv
  <2>2. /\ FunctionsIn(p, c) = FunctionsIn(p, n) /\ OwnerAt(p, c) = OwnerAt(p, n)
        /\ DepthAt(p, c) = DepthAt(p, n) + 1
    BY <1>3, <2>1, OneMoreOpen
  <2>3. QED BY <1>6, <2>2
<1>8. OpenInv'
  <2>1. /\ version' = version /\ open' \in Seq(OpenType) /\ Len(open') <= MaxOpen
    <3>1. MaxOpen \in Nat
      BY OverIs
    <3>2. QED BY <1>2, <1>3, <1>4, <1>5, <3>1
  <2>2. checkScope' = DepthAt(open', Len(open'))
    BY <1>1, <1>2, <1>4, <1>5, <1>7 DEF OpenInv
  <2>3. inside_function_depth' = Cardinality(FunctionsIn(open', Len(open')))
    BY <1>1, <1>2, <1>4, <1>5, <1>7 DEF OpenInv
  <2>4. /\ global_offset' \in Nat /\ local_offset' \in Nat /\ formal_offset' \in Nat
        /\ tempcounter' \in Nat
    BY <1>1, <1>4 DEF OpenInv, offsets
  <2>5. QED BY <1>1, <2>1, <2>2, <2>3, <2>4, OpenAfter
<1>9. TableInv'
  <2>1. PICK t : t = table /\ TableAs(t, o)
    BY <1>1, <1>2 DEF TableInv
  <2>2. ASSUME NEW i \in 1 .. Len(t)
        PROVE  EntryAt(t[i], p)
    <3>1. PICK e : e = t[i] /\ EntryAt(e, o)
      BY <2>1 DEF TableAs
    <3>2. Len(o) <= Len(p) /\ \A j \in 1 .. Len(o) : o[j].kind = p[j].kind
      BY <1>2, <1>3, <1>5
    <3>3. EntryAt(e, p)
      BY <1>5, <3>1, <3>2, EntryKept
    <3>4. QED BY <3>1, <3>3
  <2>3. TableAs(t, p)
    BY <2>1, <2>2 DEF TableAs
  <2>4. QED BY <1>4, <2>1, <2>3, TableAfter
<1>10. LastInv'
  <2>1. Len(table) \in Nat
    BY <1>1 DEF TableInv, TableAs
  <2>2. QED BY <1>4, <2>1 DEF LastInv, Nothing
<1>11. GlobalsInv'
  BY <1>1, <1>4, GlobalsAfter DEF GlobalsInv, offsets
<1>12. StackInv'
  <2>1. SUFFICES ASSUME version = "phase2"
                 PROVE  (inside_function_scope' <=> Owner' # 0) /\ StackAs(function_scope_stack', open')
    BY <1>4, StackAfter
  <2>2. (inside_function_scope <=> Owner # 0) /\ StackAs(function_scope_stack, o)
    BY <1>1, <1>2, <2>1 DEF StackInv
  <2>3. Owner' = Owner
    BY <1>1, <1>2, <1>4, <1>5, <1>7, HereIs, OwnerAfter
  <2>4. PICK s : s = function_scope_stack /\ StackAs(s, o)
    BY <2>2
  <2>5. StackAs(s, p)
    BY <1>2, <1>5, <1>7, <2>4 DEF StackAs
  <2>6. QED BY <1>4, <2>2, <2>3, <2>4, <2>5
<1>13. CellsInv'
  <2>1. SUFFICES ASSUME version = "phases4_5"
                 PROVE  CellsAs(table', open', global_offset', local_offset', formal_offset')
    BY <1>4, CellsAfterwards
  <2>2. PICK t, g, l, f : /\ t = table /\ g = global_offset /\ l = local_offset /\ f = formal_offset
                          /\ CellsAs(t, o, g, l, f)
    BY <1>1, <1>2, <2>1 DEF CellsInv
  <2>3. /\ version \in Versions /\ Len(p) = Len(o) + 1 /\ (\A i \in 1 .. Len(o) : p[i] = o[i])
        /\ p[Len(o) + 1].kind = "block"
    BY <1>1, <1>2, <1>3, <1>5 DEF OpenInv
  <2>4. CellsAs(t, p, g, l, f)
    BY <1>5, <2>2, <2>3, CellsInBlock
  <2>5. QED BY <1>4, <2>2, <2>4 DEF offsets
<1>14. QED BY <1>8, <1>9, <1>10, <1>11, <1>12, <1>13 DEF ScopesInv

-----------------------------------------------------------------------------
(* The innermost block or function ends. *)
Closes ==
  /\ open # << >>
  /\ version' = version
  /\ table' = Ends(Leaving(table))
  /\ open' = SubSeq(open, 1, Len(open) - 1)
  /\ checkScope' = checkScope - IF open[Block].kind = "function" THEN FunctionScopes ELSE 1
  /\ inside_function_depth' = inside_function_depth - IF open[Block].kind = "function" THEN 1 ELSE 0
  /\ version = "phase2" /\ open[Block].kind = "function" =>
       /\ inside_function_scope' <=> inside_function_depth' > 0
       /\ function_scope_stack' = Tail(function_scope_stack)
  /\ version = "phase2" /\ open[Block].kind # "function" =>
       /\ inside_function_scope' = inside_function_scope
       /\ function_scope_stack' = function_scope_stack
  /\ last' = Nothing
  /\ UNCHANGED <<tempcounter, offsets>>

(* The end of a block or a function keeps the invariant.                  *)
LEMMA ClosesKeeps ==
  ASSUME ScopesInv, Closes
  PROVE  ScopesInv'
<1>1. /\ OpenInv /\ TableInv /\ GlobalsInv /\ StackInv /\ CellsInv
  BY DEF ScopesInv
<1>2. PICK o \in Seq(OpenType), n \in Nat : o = open /\ n = Len(o) /\ n # 0 /\ n <= MaxOpen
  BY <1>1 DEF OpenInv, Closes
<1>0. PICK p : p = SubSeq(o, 1, n - 1)
  OBVIOUS
<1>24. n - 1 \in Nat
  BY <1>2
<1>3. PICK m \in Nat : p = SubSeq(o, 1, n - 1) /\ m = n - 1
  BY <1>0, <1>24
<1>4. Block = n /\ open' = p /\ version' = version /\ last' = Nothing
  BY <1>2, <1>3 DEF Closes, Block
<1>5. p \in Seq(OpenType) /\ Len(p) = m /\ (\A i \in 1 .. m : p[i] = o[i]) /\ n = m + 1
  BY <1>2, <1>3
<1>6. /\ FunctionsIn(p, m) = FunctionsIn(o, m)
      /\ OwnerAt(p, m) = OwnerAt(o, m) /\ DepthAt(p, m) = DepthAt(o, m)
  <2>1. \A i \in 1 .. m : p[i].kind = o[i].kind
    BY <1>5
  <2>2. QED BY <2>1, SameFunctions
<1>7. /\ FunctionsIn(o, n) = IF o[n].kind = "function" THEN FunctionsIn(o, m) \cup {n}
                             ELSE FunctionsIn(o, m)
      /\ OwnerAt(o, n) = IF o[n].kind = "function" THEN n ELSE OwnerAt(o, m)
      /\ DepthAt(o, n) = DepthAt(o, m) + IF o[n].kind = "function" THEN FunctionScopes ELSE 1
      /\ Cardinality(FunctionsIn(o, n)) =
           Cardinality(FunctionsIn(o, m)) + IF o[n].kind = "function" THEN 1 ELSE 0
  <2>1. version \in Versions
    BY <1>1 DEF OpenInv
  <2>2. QED BY <1>5, <2>1, OneMoreOpen, ZenonT(60)
<1>8. DepthAt(o, m) \in Nat /\ Cardinality(FunctionsIn(o, m)) \in Nat /\ FunctionScopes \in {1, 2}
  <2>1. version \in Versions /\ m <= m
    BY <1>1 DEF OpenInv
  <2>2. QED BY <2>1, Deeper, FunctionsCounted, FunctionScopesIs
<1>9. checkScope' = DepthAt(p, m)
  <2>1. checkScope = DepthAt(o, n)
    BY <1>1, <1>2 DEF OpenInv
  <2>2. checkScope' = checkScope - IF o[n].kind = "function" THEN FunctionScopes ELSE 1
    BY <1>2, <1>4 DEF Closes
  <2>3. PICK d \in Nat : d = DepthAt(o, m)
    BY <1>8
  <2>4. QED BY <1>6, <1>7, <1>8, <2>1, <2>2, <2>3
<1>10. inside_function_depth' = Cardinality(FunctionsIn(p, m))
  <2>1. inside_function_depth = Cardinality(FunctionsIn(o, n))
    BY <1>1, <1>2 DEF OpenInv
  <2>2. inside_function_depth' = inside_function_depth - IF o[n].kind = "function" THEN 1 ELSE 0
    BY <1>2, <1>4 DEF Closes
  <2>3. PICK d \in Nat : d = Cardinality(FunctionsIn(o, m))
    BY <1>8
  <2>4. QED BY <1>6, <1>7, <2>1, <2>2, <2>3
<1>11. /\ global_offset' = global_offset /\ local_offset' = local_offset
       /\ formal_offset' = formal_offset /\ tempcounter' = tempcounter
  BY DEF Closes, offsets
<1>12. OpenInv'
  <2>1. open' \in Seq(OpenType) /\ Len(open') = m /\ m <= MaxOpen
    <3>1. MaxOpen \in Nat
      BY OverIs
    <3>2. QED BY <1>2, <1>4, <1>5, <3>1
  <2>2. /\ global_offset' \in Nat /\ local_offset' \in Nat /\ formal_offset' \in Nat
        /\ tempcounter' \in Nat
    BY <1>1, <1>11 DEF OpenInv
  <2>3. QED BY <1>1, <1>4, <1>9, <1>10, <2>1, <2>2, OpenAfter
<1>23. PICK u : u = table'
  OBVIOUS
<1>13. PICK t \in Seq(EntryType) : t = table /\ TableAs(t, o) /\ u = table' /\ u = Ends(Leaving(t))
  BY <1>1, <1>2, <1>23 DEF TableInv, TableAs, Closes
<1>14. Ending(t, u)
  <2>1. Block # 0 /\ \A i \in 1 .. Len(t) : EntryAt(t[i], open)
    BY <1>2, <1>4, <1>13 DEF TableAs
  <2>2. QED BY <1>1, <1>13, <2>1, EndsAre
<1>15. /\ u \in Seq(EntryType) /\ (version # "phase3" => Len(u) = Len(t))
       /\ \A i \in 1 .. Len(u) :
            \E j \in 1 .. Len(t), a \in BOOLEAN :
              /\ EndsRight(t[j], a) /\ u[i] = AfterEnd(t[j], a)
              /\ version # "phase3" => j = i
  BY <1>14 DEF Ending
<1>16. TableInv'
  <2>1. ASSUME NEW i \in 1 .. Len(u)
        PROVE  EntryAt(u[i], p)
    <3>1. PICK j \in 1 .. Len(t), a \in BOOLEAN : EndsRight(t[j], a) /\ u[i] = AfterEnd(t[j], a)
      BY <1>15
    <3>2. PICK e : e = t[j] /\ EntryAt(e, open)
      BY <1>2, <1>13 DEF TableAs
    <3>3. PICK f : f = AfterEnd(e, a)
      OBVIOUS
    <3>4. /\ version \in Versions /\ open \in Seq(OpenType) /\ n = Len(open) /\ n # 0 /\ n <= MaxOpen
          /\ Len(p) = n - 1 /\ \A k \in 1 .. n - 1 : p[k] = open[k]
      BY <1>1, <1>2, <1>3, <1>5 DEF OpenInv
    <3>5. /\ e.block # Over /\ e.block # n => a
          /\ e.block = n \/ e.block = Over =>
               /\ version = "phase2" => ~a
               /\ version = "phases4_5" /\ a => e.type = "userfunc"
      BY <1>4, <3>1, <3>2 DEF EndsRight
    <3>6. EntryAt(f, p)
      BY <1>5, <3>2, <3>3, <3>4, <3>5, EntryEnded
    <3>7. QED BY <3>1, <3>2, <3>3, <3>6
  <2>2. TableAs(u, p)
    BY <1>15, <2>1 DEF TableAs
  <2>3. QED BY <1>4, <1>13, <2>2, TableAfter
<1>17. LastInv'
  <2>1. Len(u) \in Nat
    BY <1>15
  <2>2. QED BY <1>4, <1>13, <2>1 DEF LastInv, Nothing
<1>18. ASSUME NEW i \in 1 .. Len(u)
       PROVE  \E j \in 1 .. Len(t) : /\ u[i].space = t[j].space
                                     /\ version # "phase3" => j = i
  <2>1. PICK j \in 1 .. Len(t), a \in BOOLEAN : u[i] = AfterEnd(t[j], a) /\ (version # "phase3" => j = i)
    BY <1>15
  <2>2. PICK e \in EntryType : e = t[j]
    OBVIOUS
  <2>3. PICK f : f = u[i] /\ f = AfterEnd(e, a)
    BY <2>1, <2>2
  <2>4. f.space = e.space
    <3>1. Block \in Nat
      BY <1>4
    <3>2. QED BY <2>3, <3>1, AfterEndIs
  <2>5. QED BY <2>1, <2>2, <2>3, <2>4
<1>19. GlobalsInv'
  <2>1. Cardinality(Globals(u)) = Cardinality(Globals(t))
    <3>1. CASE version # "phase3"
      <4>1. DOMAIN u = DOMAIN t /\ DOMAIN u = 1 .. Len(u)
        BY <1>15, <3>1
      <4>2. \A i \in DOMAIN u : u[i].space = t[i].space
        BY <1>18, <3>1, <4>1
      <4>3. Globals(u) = Globals(t)
        BY <4>1, <4>2 DEF Globals
      <4>4. QED BY <4>3
    <3>2. CASE version = "phase3"
      <4>1. ASSUME NEW j \in 1 .. Len(t)
            PROVE  t[j].space = "none"
        <5>1. PICK e : e = t[j] /\ EntryAt(e, o)
          BY <1>13 DEF TableAs
        <5>2. QED BY <3>2, <5>1 DEF EntryAt, KindRight
      <4>2. \A i \in 1 .. Len(u) : u[i].space = "none"
        BY <1>18, <4>1
      <4>3. DOMAIN u = 1 .. Len(u) /\ DOMAIN t = 1 .. Len(t)
        BY <1>15
      <4>4. Globals(u) = {} /\ Globals(t) = {}
        BY <4>1, <4>2, <4>3 DEF Globals
      <4>5. QED BY <4>4
    <3>3. QED BY <3>1, <3>2
  <2>2. QED BY <1>1, <1>11, <1>13, <2>1, GlobalsAfter DEF GlobalsInv
<1>20. StackInv'
  <2>1. SUFFICES ASSUME version = "phase2"
                 PROVE  (inside_function_scope' <=> Owner' # 0) /\ StackAs(function_scope_stack', open')
    BY <1>4, StackAfter
  <2>2. PICK s : /\ s = function_scope_stack /\ StackAs(s, o)
                 /\ inside_function_scope <=> Owner # 0
    BY <1>1, <1>2, <2>1 DEF StackInv
  <2>3. Owner' = OwnerAt(p, m) /\ Owner = OwnerAt(o, n)
    BY <1>1, <1>2, <1>4, <1>5, HereIs, OwnerAfter
  <2>4. CASE o[n].kind = "function"
    <3>1. /\ inside_function_scope' <=> inside_function_depth' > 0
          /\ function_scope_stack' = Tail(s)
      BY <1>2, <1>4, <2>1, <2>2, <2>4 DEF Closes
    <3>2. inside_function_depth' > 0 <=> OwnerAt(p, m) # 0
      <4>1. IsFiniteSet(FunctionsIn(p, m)) /\ Cardinality(FunctionsIn(p, m)) \in Nat
        BY FunctionsCounted
      <4>2. Cardinality(FunctionsIn(p, m)) = 0 <=> FunctionsIn(p, m) = {}
        BY <4>1, FS_EmptySet
      <4>3. OwnerAt(p, m) = 0 <=> FunctionsIn(p, m) = {}
        BY OwnerIs
      <4>4. QED BY <1>10, <4>1, <4>2, <4>3
    <3>3. /\ s # << >> /\ 1 \in 1 .. Len(s) /\ s[1] = n
      <4>1. OwnerAt(o, Len(o)) = n /\ n # 0
        BY <1>2, <1>7, <2>4
      <4>2. QED BY <2>2, <4>1, HeadIs
    <3>4. PICK k \in Nat, r \in Seq(Nat) : /\ r = Tail(s) /\ r \in Seq(Nat) /\ Len(s) = k + 1 /\ Len(r) = k
                              /\ \A i \in 1 .. k : r[i] = s[i + 1]
      <4>1. s \in Seq(Nat)
        BY <2>2 DEF StackAs
      <4>2. Len(s) - 1 \in Nat /\ Len(s) = Len(s) - 1 + 1
        BY <3>3, <4>1
      <4>3. Tail(s) \in Seq(Nat) /\ Len(Tail(s)) = Len(s) - 1
            /\ \A i \in 1 .. Len(s) - 1 : Tail(s)[i] = s[i + 1]
        BY <3>3, <4>1
      <4>4. QED BY <4>2, <4>3
    <3>5. /\ \A i \in 1 .. k + 1 : s[i] \in FunctionsIn(o, n)
          /\ \A i, j \in 1 .. k + 1 : i < j => s[j] < s[i]
          /\ \A x \in FunctionsIn(o, n) : \E i \in 1 .. k + 1 : s[i] = x
          /\ FunctionsIn(o, n) = FunctionsIn(p, m) \cup {n}
          /\ n \notin FunctionsIn(p, m)
      <4>1. n \notin FunctionsIn(p, m)
        BY <1>5 DEF FunctionsIn
      <4>2. QED BY <1>2, <1>6, <1>7, <2>2, <2>4, <3>4, <4>1 DEF StackAs
    <3>6. \A i \in 1 .. k : r[i] \in FunctionsIn(p, m)
      <4>1. ASSUME NEW i \in 1 .. k
            PROVE  r[i] \in FunctionsIn(p, m)
        <5>1. i + 1 \in 1 .. k + 1 /\ 1 \in 1 .. k + 1 /\ 1 < i + 1
          OBVIOUS
        <5>2. s[i + 1] < s[1]
          BY <3>5, <5>1
        <5>3. s[i + 1] \in FunctionsIn(o, n) /\ s[i + 1] # n
          BY <1>2, <3>3, <3>5, <5>1, <5>2
        <5>4. QED BY <3>4, <3>5, <5>3
      <4>2. QED BY <4>1
    <3>7. \A i, j \in 1 .. k : i < j => r[j] < r[i]
      <4>1. ASSUME NEW i \in 1 .. k, NEW j \in 1 .. k, i < j
            PROVE  s[j + 1] < s[i + 1]
        <5>1. i + 1 \in 1 .. k + 1 /\ j + 1 \in 1 .. k + 1 /\ i + 1 < j + 1
          BY <4>1
        <5>2. QED BY <3>5, <5>1
      <4>2. QED BY <3>4, <4>1
    <3>8. \A x \in FunctionsIn(p, m) : \E i \in 1 .. k : r[i] = x
      <4>1. ASSUME NEW x \in FunctionsIn(p, m)
            PROVE  \E i \in 1 .. k : r[i] = x
        <5>1. PICK i \in 1 .. k + 1 : s[i] = x
          BY <3>5
        <5>2. i # 1
          BY <3>3, <3>5, <5>1
        <5>3. i - 1 \in 1 .. k /\ i - 1 + 1 = i
          BY <5>2
        <5>4. r[i - 1] = x
          BY <3>4, <5>1, <5>3
        <5>5. QED BY <5>3, <5>4
      <4>2. QED BY <4>1
    <3>9. StackAs(r, p)
      BY <1>5, <3>4, <3>6, <3>7, <3>8 DEF StackAs
    <3>10. QED BY <1>4, <2>3, <3>1, <3>2, <3>4, <3>9
  <2>5. CASE o[n].kind # "function"
    <3>1. inside_function_scope' = inside_function_scope /\ function_scope_stack' = s
      BY <1>2, <1>4, <2>1, <2>2, <2>5 DEF Closes
    <3>2. FunctionsIn(p, m) = FunctionsIn(o, n) /\ OwnerAt(p, m) = OwnerAt(o, n)
      BY <1>6, <1>7, <2>5
    <3>3. StackAs(s, p)
      BY <1>2, <1>5, <2>2, <3>2 DEF StackAs
    <3>4. QED BY <1>4, <2>2, <2>3, <3>1, <3>2, <3>3
  <2>6. QED BY <2>4, <2>5
<1>21. CellsInv'
  <2>1. SUFFICES ASSUME version = "phases4_5"
                 PROVE  CellsAs(table', open', global_offset', local_offset', formal_offset')
    BY <1>4, CellsAfterwards
  <2>2. PICK g, l, f : /\ g = global_offset /\ l = local_offset /\ f = formal_offset
                       /\ CellsAs(t, open, g, l, f)
    BY <1>1, <1>13, <2>1 DEF CellsInv
  <2>3. /\ version \in Versions /\ open \in Seq(OpenType) /\ n = Len(open) /\ n # 0 /\ n <= MaxOpen
        /\ Len(p) = n - 1 /\ (\A k \in 1 .. n - 1 : p[k] = open[k]) /\ Len(u) = Len(t)
    BY <1>1, <1>2, <1>3, <1>5, <1>15, <2>1 DEF OpenInv
  <2>4. \A i \in 1 .. Len(t) : \E a \in BOOLEAN : u[i] = AfterEnd(t[i], a)
    BY <1>15, <2>1, <2>3
  <2>5. \A i \in 1 .. Len(t) : t[i].owner \in FunctionsIn(open, n) \cup {0, Over}
    <3>1. ASSUME NEW i \in 1 .. Len(t)
          PROVE  t[i].owner \in FunctionsIn(open, n) \cup {0, Over}
      <4>1. PICK e : e = t[i] /\ EntryAt(e, o)
        BY <1>13 DEF TableAs
      <4>2. QED BY <1>2, <4>1 DEF EntryAt, PlacedAt
    <3>2. QED BY <3>1
  <2>6. CellsAs(u, p, g, l, f)
    BY <1>5, <2>2, <2>3, <2>4, <2>5, CellsAfter
  <2>7. QED BY <1>4, <1>11, <1>13, <2>2, <2>6
<1>22. QED BY <1>12, <1>16, <1>17, <1>19, <1>20, <1>21 DEF ScopesInv

(* The end of a block is such a step.                                     *)
LEMMA BlockEndKeeps ==
  ASSUME ScopesInv, CloseBlock
  PROVE  ScopesInv'
<1>1. Len(open) = Block /\ open[Block].kind = "block"
  BY DEF Block, CloseBlock
<1>2. Leaving(table) = Left(table, checkScope)
  BY <1>1 DEF Leaving
<1>3. inside_function_depth \in Nat
  BY HereIs DEF ScopesInv
<1>4. Closes
  BY <1>1, <1>2, <1>3 DEF CloseBlock, Closes
<1>5. QED BY <1>4, ClosesKeeps

(* The end of a function is such a step.                                  *)
LEMMA FunctionEndKeeps ==
  ASSUME ScopesInv, FunctionEnd
  PROVE  ScopesInv'
<1>1. Len(open) = Block /\ open[Block].kind = "function"
  BY DEF Block, FunctionEnd
<1>2. Leaving(table) = IF version = "phase2" THEN Left(table, checkScope)
                       ELSE Left(Left(table, checkScope), checkScope - 1)
  BY <1>1 DEF Leaving
<1>3. Closes
  BY <1>1, <1>2 DEF FunctionEnd, Closes
<1>4. QED BY <1>3, ClosesKeeps

-----------------------------------------------------------------------------
(* A function starts. *)
LEMMA FunctionSpace ==
  /\ version = "phases4_5" => Space("userfunc") = "programvar"
  /\ version # "phases4_5" => Space("userfunc") = "none"
BY DEF Space

(* The stack of open blocks, with the function on it. *)
LEMMA FunctionOnStack ==
  ASSUME OpenInv, NEW p, p = Append([i \in DOMAIN open |-> [open[i] EXCEPT !.hosts = @ \/ i = Owner]],
                                    [kind |-> "function", hosts |-> FALSE])
  PROVE  /\ p \in Seq(OpenType) /\ Len(p) = Block + 1
         /\ \A i \in 1 .. Block : /\ p[i].kind = open[i].kind
                                  /\ open[i].hosts \/ i = Owner => p[i].hosts
         /\ p[Block + 1].kind = "function"
         /\ FunctionsIn(p, Block + 1) = FunctionsIn(open, Block) \cup {Block + 1}
         /\ OwnerAt(p, Block + 1) = Block + 1
         /\ DepthAt(p, Block + 1) = DepthAt(open, Block) + FunctionScopes
         /\ Cardinality(FunctionsIn(p, Block + 1)) = Cardinality(FunctionsIn(open, Block)) + 1
<1>1. PICK n \in Nat : n = Block
  BY HereIs
<1>2. PICK o \in Seq(OpenType) : o = open /\ n = Len(o) /\ DOMAIN o = 1 .. n
  BY <1>1, HereIs DEF OpenInv
<1>3. PICK q : q = [i \in 1 .. n |-> [o[i] EXCEPT !.hosts = @ \/ i = Owner]]
  OBVIOUS
<1>4. ASSUME NEW i \in 1 .. n
      PROVE  /\ q[i] \in OpenType /\ q[i].kind = o[i].kind
             /\ o[i].hosts \/ i = Owner => q[i].hosts
  <2>1. PICK e \in OpenType : e = o[i]
    BY <1>2
  <2>2. PICK b \in BOOLEAN : b = (e.hosts \/ i = Owner)
    BY DEF OpenType
  <2>3. q[i] = [e EXCEPT !.hosts = b]
    BY <1>3, <2>1, <2>2
  <2>4. [e EXCEPT !.hosts = b] \in OpenType /\ [e EXCEPT !.hosts = b].kind = e.kind
        /\ [e EXCEPT !.hosts = b].hosts = b
    BY DEF OpenType
  <2>5. QED BY <2>1, <2>2, <2>3, <2>4
<1>5. q \in Seq(OpenType) /\ Len(q) = n
  <2>1. q \in [1 .. n -> OpenType]
    BY <1>3, <1>4
  <2>2. QED BY <2>1
<1>6. PICK r \in OpenType : r = [kind |-> "function", hosts |-> FALSE]
  BY DEF OpenType
<1>7. p = Append(q, r)
  BY <1>2, <1>3, <1>6
<1>8. /\ p \in Seq(OpenType) /\ Len(p) = n + 1
      /\ \A i \in 1 .. n : p[i] = q[i]
      /\ p[n + 1] = r
  <2>1. r \in OpenType
    BY <1>6
  <2>2. QED BY ONLY <1>5, <1>7, <2>1, AppendProperties
<1>9. \A i \in 1 .. n : p[i].kind = o[i].kind /\ (o[i].hosts \/ i = Owner => p[i].hosts)
  BY <1>4, <1>8
<1>10. FunctionsIn(p, n) = FunctionsIn(o, n) /\ DepthAt(p, n) = DepthAt(o, n)
  <2>1. \A i \in 1 .. n : p[i].kind = o[i].kind
    BY <1>9
  <2>2. QED BY <2>1, SameFunctions
<1>11. PICK c \in Nat : c = n + 1
  OBVIOUS
<1>12. /\ FunctionsIn(p, c) = FunctionsIn(p, n) \cup {c} /\ OwnerAt(p, c) = c
       /\ DepthAt(p, c) = DepthAt(p, n) + FunctionScopes
       /\ Cardinality(FunctionsIn(p, c)) = Cardinality(FunctionsIn(p, n)) + 1
  <2>1. version \in Versions /\ p[c].kind = "function"
    BY <1>6, <1>8, <1>11 DEF OpenInv
  <2>2. QED BY <1>11, <2>1, OneMoreOpen
<1>13. p[n + 1].kind = "function"
  BY <1>6, <1>8
<1>14. QED BY <1>1, <1>2, <1>8, <1>9, <1>10, <1>11, <1>12, <1>13

(* funcdef keeps the invariant: the function, its arguments and its       *)
(* scopes.                                                                *)
LEMMA FunctionStartKeeps ==
  ASSUME ScopesInv, NEW name \in Names \cup {"$"}, NEW arguments \in Formals,
         FunctionStart(name, arguments)
  PROVE  ScopesInv'
<1>1. /\ OpenInv /\ TableInv /\ GlobalsInv /\ StackInv /\ CellsInv
  BY DEF ScopesInv
<1>2. PICK n \in Nat, c \in Nat : n = Block /\ c = n + 1 /\ n < MaxOpen
  <2>1. Block \in Nat
    BY <1>1, HereIs
  <2>2. Block < MaxOpen
    BY DEF FunctionStart, Block
  <2>3. Block + 1 \in Nat
    BY <2>1
  <2>4. QED BY <2>1, <2>2, <2>3
<1>3. /\ n = Len(open) /\ checkScope \in Nat /\ checkScope = DepthAt(open, n)
      /\ inside_function_depth = Cardinality(FunctionsIn(open, n))
      /\ Owner = OwnerAt(open, n) /\ version \in Versions /\ open \in Seq(OpenType)
  BY <1>1, <1>2, HereIs DEF OpenInv
<1>4. PICK p : p = Append([i \in DOMAIN open |-> [open[i] EXCEPT !.hosts = @ \/ i = Owner]],
                          [kind |-> "function", hosts |-> FALSE])
  OBVIOUS
<1>5. /\ p \in Seq(OpenType) /\ Len(p) = c
      /\ \A i \in 1 .. n : p[i].kind = open[i].kind /\ (open[i].hosts \/ i = Owner => p[i].hosts)
      /\ p[c].kind = "function"
      /\ FunctionsIn(p, c) = FunctionsIn(open, n) \cup {c}
      /\ OwnerAt(p, c) = c
      /\ DepthAt(p, c) = DepthAt(open, n) + FunctionScopes
      /\ Cardinality(FunctionsIn(p, c)) = Cardinality(FunctionsIn(open, n)) + 1
  BY <1>1, <1>2, <1>4, FunctionOnStack
<1>6. PICK r \in Seq(EntryType) : r = table /\ TableAs(r, open) /\ \A i \in 1 .. Len(r) : EntryAt(r[i], open)
  BY <1>1 DEF TableInv, TableAs
<1>7. PICK t : t = WithFunction(name)
  OBVIOUS
<1>8. PICK line, u : line \in Nat /\ u = WithArguments(t, arguments, line) /\ table' = u
  BY <1>7, LinesAre DEF FunctionStart
<1>9. /\ table' = u /\ open' = p /\ version' = version /\ tempcounter' = tempcounter
      /\ checkScope' = checkScope + FunctionScopes
      /\ inside_function_depth' = inside_function_depth + 1
      /\ version = "phase2" => /\ inside_function_scope' <=> TRUE
                               /\ function_scope_stack' = <<checkScope + 1>> \o function_scope_stack
      /\ last'.found = IF t = r THEN 0 ELSE Len(t)
      /\ IF version = "phases4_5"
         THEN /\ global_offset' = global_offset + (Len(t) - Len(r))
              /\ local_offset' = 0 /\ formal_offset' = Len(u) - Len(t)
         ELSE UNCHANGED offsets
  BY <1>4, <1>6, <1>7, <1>8 DEF FunctionStart, Resets, Said
<1>10. PICK e : e = Entry(name, "userfunc")
  OBVIOUS
<1>11. /\ EntryAt(e, open) /\ e.space = Space("userfunc") /\ e.offset = Offset(Space("userfunc"))
       /\ e.owner = Owner
  <2>1. name \in AnyName /\ "userfunc" \in Types
    BY DEF AnyName, Types, Functions
  <2>2. QED BY <1>1, <1>10, <2>1, EntryNew
<1>12. t = r \/ t = Append(r, e)
  BY <1>6, <1>7, <1>10 DEF WithFunction
<1>13. e \in EntryType /\ Len(r) \in Nat
  BY <1>11 DEF EntryAt
<1>14. /\ t \in Seq(EntryType) /\ Len(t) \in Nat /\ Len(t) \in {Len(r), Len(r) + 1}
       /\ t = r \/ Len(t) = Len(r) + 1
       /\ \A i \in 1 .. Len(t) : EntryAt(t[i], open)
  <2>1. CASE t = r
    BY <1>6, <1>13, <2>1
  <2>2. CASE t = Append(r, e)
    <3>1. t \in Seq(EntryType) /\ Len(t) = Len(r) + 1
          /\ (\A i \in 1 .. Len(r) : t[i] = r[i]) /\ t[Len(r) + 1] = e
      BY <1>13, <2>2, AppendProperties
    <3>2. \A i \in 1 .. Len(r) + 1 : i \in 1 .. Len(r) \/ i = Len(r) + 1
      BY <1>13
    <3>3. \A i \in 1 .. Len(t) : EntryAt(t[i], open)
      BY <1>6, <1>11, <3>1, <3>2
    <3>4. QED BY <1>13, <3>1, <3>3
  <2>3. QED BY <1>12, <2>1, <2>2
<1>15. \A i \in 1 .. Len(t) : t[i].owner # Block + 1
  <2>1. ASSUME NEW i \in 1 .. Len(t)
        PROVE  t[i].owner # c
    <3>1. PICK x : x = t[i] /\ EntryAt(x, open)
      BY <1>14
    <3>2. x.owner \in FunctionsIn(open, n) \cup {0, Over}
      BY <1>3, <3>1 DEF EntryAt, PlacedAt
    <3>3. c \notin FunctionsIn(open, n) /\ c # 0
      BY <1>2 DEF FunctionsIn
    <3>4. c # Over
      BY <1>2, OverIs
    <3>5. QED BY <3>1, <3>2, <3>3, <3>4
  <2>2. QED BY <1>2, <2>1
<1>16. ArgumentsBehind(t, u)
  <2>1. arguments \in Seq(Names) /\ Block \in Nat
    BY <1>2, ScopesAssumption
  <2>2. QED BY <1>3, <1>8, <1>14, <1>15, <2>1, ArgumentsAdded
<1>17. /\ u \in Seq(EntryType) /\ Len(u) \in Nat /\ Len(t) <= Len(u)
       /\ \A i \in 1 .. Len(t) : u[i] = t[i]
       /\ \A i \in Len(t) + 1 .. Len(u) : IsArgument(u[i], i - Len(t))
       /\ \A i \in 1 .. Len(u) : i \in 1 .. Len(t) \/ i \in Len(t) + 1 .. Len(u)
  <2>1. /\ u \in Seq(EntryType) /\ Len(t) <= Len(u)
        /\ \A i \in 1 .. Len(t) : u[i] = t[i]
        /\ \A i \in Len(t) + 1 .. Len(u) : IsArgument(u[i], i - Len(t))
    BY <1>16 DEF ArgumentsBehind
  <2>2. Len(u) \in Nat
    BY <2>1
  <2>3. \A i \in 1 .. Len(u) : i \in 1 .. Len(t) \/ i \in Len(t) + 1 .. Len(u)
    BY <1>14, <2>2
  <2>4. QED BY <2>1, <2>2, <2>3
<1>18. TableInv'
  <2>1. ASSUME NEW i \in 1 .. Len(u)
        PROVE  EntryAt(u[i], p)
    <3>1. CASE i \in 1 .. Len(t)
      <4>1. PICK x : x = u[i] /\ EntryAt(x, open)
        BY <1>14, <1>17, <3>1
      <4>2. Len(open) <= Len(p) /\ \A j \in 1 .. Len(open) : open[j].kind = p[j].kind
        <5>1. Len(open) = n /\ Len(p) = n + 1
          BY <1>2, <1>3, <1>5
        <5>2. \A j \in 1 .. n : open[j].kind = p[j].kind
          BY <1>5
        <5>3. QED BY <5>1, <5>2
      <4>3. EntryAt(x, p)
        BY <1>3, <1>5, <4>1, <4>2, EntryKept
      <4>4. QED BY <4>1, <4>3
    <3>2. CASE i \in Len(t) + 1 .. Len(u)
      <4>1. PICK x : x = u[i]
        OBVIOUS
      <4>2. PICK k : k = i - Len(t)
        OBVIOUS
      <4>3. IsArgument(x, k)
        BY <1>17, <3>2, <4>1, <4>2
      <4>4. /\ Block < MaxOpen /\ Len(p) = Block + 1
            /\ (\A j \in 1 .. Block : p[j].kind = open[j].kind) /\ p[Block + 1].kind = "function"
        BY <1>2, <1>5
      <4>5. EntryAt(x, p)
        BY <1>1, <1>5, <4>3, <4>4, ArgumentAt
      <4>6. QED BY <4>1, <4>5
    <3>3. QED BY <1>17, <3>1, <3>2
  <2>2. TableAs(u, p)
    BY <1>17, <2>1 DEF TableAs
  <2>3. QED BY <1>9, <2>2, TableAfter
<1>19. PICK g \in Nat, l \in Nat, f \in Nat : g = global_offset /\ l = local_offset /\ f = formal_offset
  BY <1>1 DEF OpenInv
<1>20. OpenInv'
  <2>1. open' \in Seq(OpenType) /\ Len(open') <= MaxOpen
    <3>1. MaxOpen \in Nat
      BY OverIs
    <3>2. QED BY <1>2, <1>5, <1>9, <3>1
  <2>2. checkScope' = DepthAt(open', Len(open'))
    BY <1>3, <1>5, <1>9
  <2>3. inside_function_depth' = Cardinality(FunctionsIn(open', Len(open')))
    BY <1>3, <1>5, <1>9
  <2>4. global_offset' \in Nat /\ local_offset' \in Nat /\ formal_offset' \in Nat
    <3>1. CASE version = "phases4_5"
      <4>1. global_offset' = g + (Len(t) - Len(r)) /\ local_offset' = 0 /\ formal_offset' = Len(u) - Len(t)
        BY <1>9, <1>19, <3>1
      <4>2. Len(t) - Len(r) \in Nat /\ Len(u) - Len(t) \in Nat
        BY <1>13, <1>14, <1>17
      <4>3. QED BY <4>1, <4>2
    <3>2. CASE version # "phases4_5"
      BY <1>9, <1>19, <3>2 DEF offsets
    <3>3. QED BY <3>1, <3>2
  <2>5. tempcounter' \in Nat
    BY <1>1, <1>9 DEF OpenInv
  <2>6. QED BY <1>1, <1>9, <2>1, <2>2, <2>3, <2>4, <2>5, OpenAfter
<1>21. LastInv'
  <2>1. last'.found \in 0 .. Len(u)
    BY <1>9, <1>14, <1>17
  <2>2. QED BY <1>9, <2>1 DEF LastInv
<1>22. GlobalsInv'
  <2>1. Globals(u) = Globals(t)
    <3>1. \A i \in Len(t) + 1 .. Len(u) : u[i].space # "programvar"
      <4>1. ASSUME NEW i \in Len(t) + 1 .. Len(u)
            PROVE  u[i].space # "programvar"
        <5>1. u[i].space = IF version = "phases4_5" THEN "formalarg" ELSE "none"
          BY <1>17 DEF IsArgument
        <5>2. QED BY <5>1
      <4>2. QED BY <4>1
    <3>2. DOMAIN u = 1 .. Len(u) /\ DOMAIN t = 1 .. Len(t)
      BY <1>14, <1>17
    <3>3. \A i \in 1 .. Len(t) : i \in 1 .. Len(u)
      BY <1>14, <1>17
    <3>4. QED BY <1>17, <3>1, <3>2, <3>3 DEF Globals
  <2>2. PICK z \in Nat : z = Cardinality(Globals(r)) /\ z = g
    BY <1>1, <1>6, <1>19 DEF GlobalsInv
  <2>3. Cardinality(Globals(t)) = z + IF version = "phases4_5" THEN Len(t) - Len(r) ELSE 0
    <3>1. CASE t = r
      <4>1. Len(t) - Len(r) = 0
        BY <1>13, <3>1
      <4>2. Cardinality(Globals(t)) = z
        BY <2>2, <3>1
      <4>3. QED BY <4>1, <4>2
    <3>2. CASE t # r
      <4>1. t = Append(r, e) /\ Len(t) - Len(r) = 1
        BY <1>12, <1>13, <1>14, <3>2
      <4>2. Cardinality(Globals(t)) = Cardinality(Globals(r)) + IF e.space = "programvar" THEN 1 ELSE 0
        BY <1>13, <4>1, GlobalsTaken
      <4>3. e.space = "programvar" <=> version = "phases4_5"
        BY <1>11, FunctionSpace
      <4>4. QED BY <2>2, <4>1, <4>2, <4>3
    <3>3. QED BY <3>1, <3>2
  <2>4. global_offset' = z + IF version = "phases4_5" THEN Len(t) - Len(r) ELSE 0
    BY <1>9, <1>19, <2>2 DEF offsets
  <2>5. QED BY <1>9, <2>1, <2>3, <2>4, GlobalsAfter
<1>23. CellsInv'
  <2>1. SUFFICES ASSUME version = "phases4_5"
                 PROVE  CellsAs(table', open', global_offset', local_offset', formal_offset')
    BY <1>9, CellsAfterwards
  <2>2. PICK h \in Nat : h = global_offset' /\ h = g + (Len(t) - Len(r))
    <3>1. Len(t) - Len(r) \in Nat
      BY <1>13, <1>14
    <3>2. g + (Len(t) - Len(r)) \in Nat
      BY <3>1
    <3>3. global_offset' = g + (Len(t) - Len(r))
      BY <1>9, <1>19, <2>1
    <3>4. QED BY <3>2, <3>3
  <2>3. CellsAs(r, open, g, l, f)
    BY <1>1, <1>6, <1>19, <2>1 DEF CellsInv
  <2>4. CellsAs(t, open, h, l, f)
    <3>1. CASE t = r
      <4>1. h = g
        BY <1>13, <2>2, <3>1
      <4>2. QED BY <2>3, <3>1, <4>1
    <3>2. CASE t # r
      <4>1. t = Append(r, e) /\ h = g + 1
        BY <1>12, <1>13, <1>14, <2>2, <3>2
      <4>2. e.space = "programvar" /\ e.offset = g
        BY <1>11, <1>19, <2>1, FunctionSpace DEF Offset
      <4>3. Takes(e, g, l, f, h, l, f)
        BY <4>1, <4>2 DEF Takes
      <4>4. e.owner = OwnerAt(open, Len(open))
        BY <1>3, <1>11
      <4>5. QED BY <1>13, <2>3, <4>1, <4>3, <4>4, CellTaken
    <3>3. QED BY <3>1, <3>2
  <2>5. /\ Block = Len(open) /\ Len(p) = Len(open) + 1 /\ p[Len(open) + 1].kind = "function"
        /\ \A i \in 1 .. Len(open) : /\ p[i].kind = open[i].kind
                                     /\ open[i].hosts \/ i = OwnerAt(open, Len(open)) => p[i].hosts
    BY <1>2, <1>3, <1>5
  <2>6. PICK o \in Seq(OpenType) : o = open
    BY <1>3
  <2>7. CellsAs(u, p, h, 0, Len(u) - Len(t))
    <3>1. /\ Block = Len(o) /\ Len(p) = Len(o) + 1 /\ p[Len(o) + 1].kind = "function"
          /\ \A i \in 1 .. Len(o) : /\ p[i].kind = o[i].kind
                                    /\ o[i].hosts \/ i = OwnerAt(o, Len(o)) => p[i].hosts
      BY <2>5, <2>6
    <3>2. CellsAs(t, o, h, l, f)
      BY <2>4, <2>6
    <3>3. QED BY <1>5, <1>14, <1>15, <1>16, <2>1, <3>1, <3>2, CellsInFunction
  <2>8. local_offset' = 0 /\ formal_offset' = Len(u) - Len(t)
    BY <1>9, <2>1
  <2>9. QED BY <1>9, <2>2, <2>7, <2>8
<1>24. StackInv'
  <2>1. SUFFICES ASSUME version = "phase2"
                 PROVE  (inside_function_scope' <=> Owner' # 0) /\ StackAs(function_scope_stack', open')
    BY <1>9, StackAfter
  <2>2. PICK s \in Seq(Nat) : s = function_scope_stack /\ StackAs(s, open)
    BY <1>1, <2>1 DEF StackInv, StackAs
  <2>3. Owner' = c /\ c # 0
    BY <1>2, <1>5, <1>9, OwnerAfter
  <2>4. checkScope + 1 = c
    BY <1>2, <1>3, <2>1, DepthOfPhase2
  <2>5. PICK q : q = <<c>> \o s
    OBVIOUS
  <2>6. PICK k \in Nat : k = Len(s)
    OBVIOUS
  <2>7. /\ q \in Seq(Nat) /\ Len(q) = k + 1 /\ q[1] = c
        /\ \A i \in 1 .. k : q[i + 1] = s[i]
    <3>1. <<c>> \in Seq(Nat) /\ Len(<<c>>) = 1 /\ <<c>>[1] = c
      OBVIOUS
    <3>2. PICK d \in Seq(Nat) : d = <<c>> /\ Len(d) = 1 /\ d[1] = c
      BY <3>1
    <3>3. /\ q \in Seq(Nat) /\ Len(q) = Len(d) + Len(s)
          /\ \A i \in 1 .. Len(d) + Len(s) : q[i] = IF i <= Len(d) THEN d[i] ELSE s[i - Len(d)]
      BY <2>5, <3>2, ConcatProperties
    <3>4. QED BY <2>6, <3>2, <3>3
  <2>8. /\ \A i \in 1 .. k : s[i] \in FunctionsIn(open, n)
        /\ \A i, j \in 1 .. k : i < j => s[j] < s[i]
        /\ \A x \in FunctionsIn(open, n) : \E i \in 1 .. k : s[i] = x
        /\ \A x \in FunctionsIn(open, n) : x \in 1 .. n
    BY <1>3, <2>2, <2>6 DEF StackAs, FunctionsIn
  <2>9. \A i \in 1 .. k + 1 : i = 1 \/ \E j \in 1 .. k : i = j + 1 /\ q[i] = s[j]
    <3>1. ASSUME NEW i \in 1 .. k + 1, i # 1
          PROVE  \E j \in 1 .. k : i = j + 1 /\ q[i] = s[j]
      <4>1. i - 1 \in 1 .. k /\ i = i - 1 + 1
        BY <3>1
      <4>2. QED BY <2>7, <4>1
    <3>2. QED BY <3>1
  <2>10. \A i \in 1 .. k + 1 : q[i] \in FunctionsIn(p, c)
    BY <1>5, <2>7, <2>8, <2>9
  <2>11. ASSUME NEW i \in 1 .. k + 1, NEW j \in 1 .. k + 1, i < j
         PROVE  q[j] < q[i]
    <3>1. PICK y \in 1 .. k : j = y + 1 /\ q[j] = s[y]
      BY <2>9, <2>11
    <3>2. s[y] \in 1 .. n
      BY <2>8
    <3>3. CASE i = 1
      BY <1>2, <2>7, <3>1, <3>2, <3>3
    <3>4. CASE i # 1
      <4>1. PICK x \in 1 .. k : i = x + 1 /\ q[i] = s[x]
        BY <2>9, <3>4
      <4>2. QED BY <2>8, <2>11, <3>1, <4>1
    <3>5. QED BY <3>3, <3>4
  <2>12. ASSUME NEW x \in FunctionsIn(p, c)
         PROVE  \E i \in 1 .. k + 1 : q[i] = x
    <3>1. CASE x = c
      <4>1. 1 \in 1 .. k + 1
        OBVIOUS
      <4>2. QED BY <2>7, <3>1, <4>1
    <3>2. CASE x \in FunctionsIn(open, n)
      <4>1. PICK i \in 1 .. k : s[i] = x
        BY <2>8, <3>2
      <4>2. i + 1 \in 1 .. k + 1 /\ q[i + 1] = x
        BY <2>7, <4>1
      <4>3. QED BY <4>2
    <3>3. QED BY <1>5, <3>1, <3>2
  <2>13. StackAs(q, p)
    BY <1>5, <2>7, <2>10, <2>11, <2>12 DEF StackAs
  <2>14. function_scope_stack' = q
    BY <1>9, <2>1, <2>2, <2>4, <2>5
  <2>15. QED BY <1>9, <2>1, <2>3, <2>13, <2>14
<1>25. QED BY <1>18, <1>20, <1>21, <1>22, <1>23, <1>24 DEF ScopesInv

-----------------------------------------------------------------------------
(* What the invariant says. *)
LEMMA TypeFromInv == ScopesInv => TypeOK
<1> SUFFICES ASSUME ScopesInv PROVE TypeOK
  OBVIOUS
<1>1. OpenInv /\ TableInv /\ LastInv /\ GlobalsInv
  BY DEF ScopesInv
<1>2. checkScope = Cardinality(DOMAIN open) + Cardinality(OpenFunctions) * (FunctionScopes - 1)
  <2>1. Block \in Nat /\ DOMAIN open = 1 .. Block /\ OpenFunctions = FunctionsIn(open, Block)
    BY <1>1, HereIs
  <2>2. Cardinality(1 .. Block) = Block
    <3>1. Cardinality(1 .. Block) = IF 1 > Block THEN 0 ELSE Block - 1 + 1
      BY <2>1, FS_Interval
    <3>2. QED BY <2>1, <3>1
  <2>3. checkScope = DepthAt(open, Block)
    BY <1>1, HereIs
  <2>4. QED BY <2>1, <2>2, <2>3 DEF DepthAt
<1>3. inside_function_depth = Cardinality(OpenFunctions)
  BY <1>1, HereIs
<1>4. ASSUME NEW i \in DOMAIN table, table[i].block # Over
      PROVE  table[i].scope <= checkScope
  BY <1>1, <1>4, VisibleIs DEF TableInv
<1>5. global_offset = Cardinality({i \in DOMAIN table : table[i].space = "programvar"})
  BY <1>1 DEF GlobalsInv, Globals
<1>6. last.found \in 0 .. Len(table)
  BY <1>1 DEF LastInv
<1>7. QED BY <1>2, <1>3, <1>4, <1>5, <1>6 DEF TypeOK

(* Cells of one function are distinct, as CellsInv counts them.           *)
LEMMA CellsFromInv == ScopesInv => CellsAreDistinct
<1> SUFFICES ASSUME ScopesInv, version = "phases4_5",
                    NEW i \in DOMAIN table, NEW j \in DOMAIN table,
                    i # j, table[i].space = table[j].space, table[i].offset = table[j].offset,
                    table[i].space = "programvar" \/ table[i].owner = table[j].owner
             PROVE  /\ table[i].space # "programvar"
                    /\ table[i].owner = Over \/ open[table[i].owner].hosts
  BY DEF CellsAreDistinct
<1>1. CellsAs(table, open, global_offset, local_offset, formal_offset) /\ TableAs(table, open)
  BY DEF ScopesInv, CellsInv, TableInv
<1>2. i \in 1 .. Len(table) /\ j \in 1 .. Len(table)
  BY <1>1 DEF TableAs
<1>3. table[i].space # "programvar"
  BY <1>1, <1>2 DEF CellsAs
<1>4. ASSUME table[i].owner # Over, ~open[table[i].owner].hosts
      PROVE  FALSE
  <2>1. PICK x, y : x = table[i] /\ y = table[j] /\ EntryAt(x, open)
    BY <1>1, <1>2 DEF TableAs
  <2>2. x.space \in {"functionlocal", "formalarg"}
    BY <1>3, <2>1 DEF EntryAt, EntryType, Spaces, KindRight
  <2>3. x.owner \in FunctionsIn(open, Len(open)) /\ x.owner # 0
    BY <1>4, <2>1, <2>2 DEF EntryAt, KindRight, PlacedAt
  <2>4. x.owner = OwnerAt(open, Len(open))
    BY <1>1, <1>4, <2>1, <2>3 DEF CellsAs
  <2>5. x.owner = y.owner
    BY <1>3, <2>1
  <2>6. Counts(table[i], open) /\ Counts(table[j], open)
    BY <1>4, <2>1, <2>3, <2>4, <2>5 DEF Counts
  <2>7. table[i].offset # table[j].offset
    BY <1>1, <1>2, <1>3, <2>6 DEF CellsAs
  <2>8. QED BY <2>7
<1>5. QED BY <1>3, <1>4

-----------------------------------------------------------------------------
(* What is referred to. *)

(* The two properties, of the answer that has just been given. *)
Answered ==
  last.how = "refer" /\ last.found # 0 =>
    /\ RightIn(table, last.name, last.found)
    /\ version = "phase2" => OwnIn(table, last.found)

(* Answered is the conjunction of the two.                                *)
LEMMA AnsweredIs == Answered <=> ResolvesToInnermost /\ AcceptedAreOwn
<1>1. Innermost(last.name) = InnermostIn(table, last.name)
  BY DEF Innermost, InnermostIn, Visible, VisibleIn
<1>2. Overlooked <=> OverlookedIn(table, last.name)
  BY DEF Overlooked, OverlookedIn, Visible, VisibleIn
<1>3. ResolvesToInnermost <=> (last.how = "refer" /\ last.found # 0 => RightIn(table, last.name, last.found))
  BY <1>1, <1>2 DEF ResolvesToInnermost, RightIn, Found
<1>4. AcceptedAreOwn <=> (version = "phase2" /\ last.how = "refer" /\ last.found # 0 => OwnIn(table, last.found))
  BY DEF AcceptedAreOwn, OwnIn, Found
<1>5. QED BY <1>3, <1>4 DEF Answered

(* They hold after a step that leaves version, scope and blocks alone, if *)
(* its answer is right.                                                   *)
LEMMA AnsweredAfter ==
  ASSUME version' = version, checkScope' = checkScope, open' = open,
         last'.how = "refer" /\ last'.found # 0 =>
           /\ RightIn(table', last'.name, last'.found)
           /\ version = "phase2" => OwnIn(table', last'.found)
  PROVE  Answered'
<1>1. Owner' = Owner /\ Over' = Over
  BY DEF Owner, OpenFunctions, Over
<1>2. QED BY <1>1 DEF Answered, RightIn, OwnIn, InnermostIn, OverlookedIn, VisibleIn, Over

(* lvalue answers right, whether the name is found or declared.           *)
LEMMA ReferAnswers ==
  ASSUME ScopesInv, NEW name \in Names, Refer(name)
  PROVE  Answered'
<1>1. /\ OpenInv /\ TableInv
      /\ version = "phase2" => (inside_function_scope <=> Owner # 0) /\ StackAs(function_scope_stack, open)
  BY DEF ScopesInv, StackInv
<1>2. PICK found, type : /\ found = Find(name, checkScope, inside_function_scope)
                         /\ type = IF checkScope = 0 THEN "global" ELSE "local"
  OBVIOUS
<1>3. /\ IF found = 0 THEN Declare("refer", Entry(name, type))
         ELSE /\ Said("refer", name, IF version = "phase2" /\ Foreign(table[found]) THEN 0 ELSE found)
              /\ UNCHANGED <<table, offsets>>
      /\ UNCHANGED <<version, scopes, tempcounter, open>>
  BY <1>2 DEF Refer
<1>4. version' = version /\ open' = open /\ checkScope' = checkScope
  BY <1>3 DEF scopes
<1>5. PICK t, f, u, g : t = table /\ f = found /\ u = table' /\ g = last'.found
  OBVIOUS
<1>6. TableAs(t, open) /\ f = Lookup(version, t, name, checkScope, inside_function_scope)
  BY <1>1, <1>2, <1>5 DEF TableInv, Find
<1>7. CASE f # 0
  <2>1. u = t /\ last'.name = name /\ g = IF version = "phase2" /\ Foreign(t[f]) THEN 0 ELSE f
    BY <1>3, <1>5, <1>7 DEF Said
  <2>2. RightIn(t, name, f)
    BY <1>1, <1>6, <1>7, FoundIsRight
  <2>3. version = "phase2" /\ g # 0 => OwnIn(t, f)
    BY <1>1, <1>6, <1>7, <2>1, FoundIsOwn
  <2>4. g # 0 => RightIn(u, name, g) /\ (version = "phase2" => OwnIn(u, g))
    BY <2>1, <2>2, <2>3
  <2>5. QED BY <1>4, <1>5, <2>1, <2>4, AnsweredAfter
<1>8. CASE f = 0
  <2>1. PICK e : e = Entry(name, type)
    OBVIOUS
  <2>2. /\ name \in AnyName /\ type \in Types /\ type # "temp"
        /\ type \in {"global", "libfunc"} => checkScope = 0
    BY <1>2 DEF AnyName, Types, Variables
  <2>3. /\ EntryAt(e, open) /\ e.name = name /\ e.scope = checkScope /\ e.is_active
        /\ e.block = Block /\ e.owner = Owner
    BY <1>1, <2>1, <2>2, EntryNew
  <2>4. DeclaredAs("refer", name, e) /\ TableAs(u, open)
    BY <1>1, <1>3, <1>5, <1>8, <2>1, <2>2, DeclaredExtends
  <2>5. last'.name = name /\ (u = t \/ (Insertable(version, t, e) /\ u = Append(t, e)))
    BY <1>5, <2>4 DEF DeclaredAs
  <2>6. CASE version = "phase2"
    <3>1. g = Lookup(version, u, name, checkScope, inside_function_scope)
      BY <1>5, <2>4, <2>6 DEF DeclaredAs
    <3>2. g # 0 => RightIn(u, name, g)
      BY <1>1, <2>4, <3>1, FoundIsRight
    <3>3. ASSUME g # 0
          PROVE  OwnIn(u, g)
      <4>1. Insertable(version, t, e) /\ u = Append(t, e)
        BY <1>6, <1>8, <2>5, <3>1, <3>3
      <4>2. e \in EntryType
        BY <2>3 DEF EntryAt
      <4>4. u[g] = e
        <5>1. PICK b : b = inside_function_scope
          OBVIOUS
        <5>2. g = Lookup(version, u, name, checkScope, b) /\ name = e.name
          BY <2>3, <3>1, <5>1
        <5>3. Insertable(version, t, e) /\ e.is_active /\ e.scope = checkScope /\ TableAs(t, open)
          BY <1>6, <2>3, <4>1
        <5>4. u = Append(t, e)
          BY <4>1
        <5>5. QED BY <1>1, <2>6, <3>3, <4>2, <5>2, <5>3, <5>4, NewIsFound, ZenonT(60)
      <4>5. QED BY <2>3, <4>4 DEF OwnIn
    <3>4. QED BY <1>4, <1>5, <2>5, <3>2, <3>3, AnsweredAfter
  <2>7. CASE version # "phase2"
    <3>1. g = IF u = t THEN 0 ELSE Len(u)
      BY <1>5, <2>4, <2>7 DEF DeclaredAs
    <3>2. ASSUME g # 0
          PROVE  RightIn(u, name, g)
      <4>1. u = Append(t, e) /\ g = Len(u)
        BY <2>5, <3>1, <3>2
      <4>2. t \in Seq(EntryType) /\ e \in EntryType /\ u \in Seq(EntryType)
        BY <1>6, <2>3, <2>4 DEF EntryAt, TableAs
      <4>3. g \in DOMAIN u /\ u[g] = e
        <5>1. Len(u) = Len(t) + 1 /\ u[Len(t) + 1] = e
          BY <4>1, <4>2, AppendProperties
        <5>2. Len(t) \in Nat /\ DOMAIN u = 1 .. Len(u)
          BY <4>2
        <5>3. QED BY <4>1, <5>1, <5>2
      <4>4. g \in VisibleIn(u, name)
        <5>1. Block # Over
          BY <1>1, HereIs
        <5>2. QED BY <2>3, <4>3, <5>1 DEF VisibleIn
      <4>5. ASSUME NEW j \in VisibleIn(u, name)
            PROVE  u[j].scope <= u[g].scope
        <5>1. j \in DOMAIN u /\ u[j].block # Over
          BY DEF VisibleIn
        <5>2. u[j].scope <= checkScope
          BY <1>1, <2>4, <5>1, VisibleIs
        <5>3. QED BY <2>3, <4>3, <5>2
      <4>6. QED BY <4>4, <4>5 DEF RightIn, InnermostIn
    <3>3. QED BY <1>4, <1>5, <2>5, <2>7, <3>2, AnsweredAfter
  <2>8. QED BY <2>6, <2>7
<1>9. QED BY <1>7, <1>8

(* Other steps refer to nothing, or leave what has been answered. *)
LEMMA OthersAnswer ==
  ASSUME OpenInv, TableInv,
         \/ \E name \in Names : DeclareLocal(name) \/ ReferGlobal(name)
         \/ NewTemp \/ OpenBlock \/ CloseBlock
         \/ \E name \in Names \cup {"$"}, arguments \in Formals : FunctionStart(name, arguments)
         \/ FunctionEnd
  PROVE  last'.how # "refer"
<1>1. ASSUME NEW name \in Names, DeclareLocal(name)
      PROVE  last'.how = "local"
  BY <1>1 DEF DeclareLocal, Declare, Said
<1>2. ASSUME NEW name \in Names, ReferGlobal(name)
      PROVE  last'.how = "global"
  BY <1>2 DEF ReferGlobal, Said
<1>3. ASSUME NewTemp
      PROVE  last'.how = "temp"
  <2>1. \A e : Declare("temp", e) => last'.how = "temp"
    BY DEF Declare, Said
  <2>2. \A name, f : Said("temp", name, f) => last'.how = "temp"
    BY DEF Said
  <2>3. PICK name, f : IF f = 0 THEN Declare("temp", Entry(name, "temp"))
                       ELSE Said("temp", name, f) /\ UNCHANGED <<table, offsets>>
    BY <1>3 DEF NewTemp
  <2>4. QED BY <2>1, <2>2, <2>3
<1>4. OpenBlock \/ CloseBlock \/ FunctionEnd => last'.how = "none"
  BY DEF OpenBlock, CloseBlock, FunctionEnd, Nothing
<1>5. ASSUME NEW name \in Names \cup {"$"}, NEW arguments \in Formals, FunctionStart(name, arguments)
      PROVE  last'.how = "function"
  <2>1. \E f : last' = [how |-> "function", name |-> name, found |-> f]
    BY <1>5 DEF FunctionStart, Said
  <2>2. QED BY <2>1
<1>6. QED BY <1>1, <1>2, <1>3, <1>4, <1>5

(* An answer stays right as long as nothing changes.                      *)
LEMMA AnsweredStays ==
  ASSUME Answered, UNCHANGED <<version, table, scopes, open, last>>
  PROVE  Answered'
<1>1. table' = table /\ last' = last /\ version' = version /\ checkScope' = checkScope /\ open' = open
  BY DEF scopes
<1>2. QED BY <1>1, AnsweredAfter DEF Answered

-----------------------------------------------------------------------------
(* Every step keeps the invariant and the answers.                        *)
LEMMA StepKeeps ==
  ASSUME ScopesInv, Answered, [Next]_vars
  PROVE  ScopesInv' /\ Answered'
<1>1. OpenInv /\ TableInv /\ LastInv
  BY DEF ScopesInv
<1>2. ASSUME NEW name \in Names, Refer(name)
      PROVE  ScopesInv' /\ Answered'
  BY <1>2, ReferKeeps, ReferAnswers
<1>3. ASSUME NEW name \in Names, DeclareLocal(name) \/ ReferGlobal(name)
      PROVE  ScopesInv' /\ Answered'
  <2>1. last'.how # "refer"
    BY <1>1, <1>3, OthersAnswer
  <2>2. QED BY <1>3, <2>1, DeclareLocalKeeps, ReferGlobalKeeps DEF Answered
<1>4. CASE NewTemp \/ OpenBlock \/ CloseBlock \/ FunctionEnd
  <2>1. last'.how # "refer"
    BY <1>1, <1>4, OthersAnswer
  <2>2. ScopesInv'
    BY <1>4, NewTempKeeps, OpenBlockKeeps, BlockEndKeeps, FunctionEndKeeps
  <2>3. QED BY <2>1, <2>2 DEF Answered
<1>5. ASSUME NEW name \in Names \cup {"$"}, NEW arguments \in Formals, FunctionStart(name, arguments)
      PROVE  ScopesInv' /\ Answered'
  <2>1. last'.how # "refer"
    BY <1>1, <1>5, OthersAnswer
  <2>2. QED BY <1>5, <2>1, FunctionStartKeeps DEF Answered
<1>6. CASE ResetTemp
  <2>1. UNCHANGED <<version, table, scopes, open, last>>
    BY <1>6 DEF ResetTemp
  <2>2. QED BY <1>6, <2>1, ResetTempKeeps, AnsweredStays
<1>7. CASE UNCHANGED vars
  <2>1. UNCHANGED <<version, table, scopes, tempcounter, offsets, open, last>>
    BY <1>7 DEF vars
  <2>2. Extends /\ tempcounter' \in Nat /\ last'.found \in 0 .. Len(table')
    BY <1>1, <2>1 DEF Extends, OpenInv, LastInv
  <2>3. ScopesInv'
    BY <2>1, <2>2, ExtendsKeeps
  <2>4. QED BY <2>1, <2>3, AnsweredStays
<1>8. QED BY <1>2, <1>3, <1>4, <1>5, <1>6, <1>7 DEF Next

(* The inductive invariant holds.                                         *)
LEMMA InvHolds == Spec => [](ScopesInv /\ Answered)
<1>1. Init => ScopesInv /\ Answered
  <2>1. Init => Answered
    BY DEF Init, Nothing, Answered
  <2>2. QED BY <2>1, InitInv
<1>2. (ScopesInv /\ Answered) /\ [Next]_vars => (ScopesInv /\ Answered)'
  BY StepKeeps
<1>3. QED BY <1>1, <1>2, PTL DEF Spec

(* TypeOK: depths are depths, offsets count what they have been given to, *)
(* and all that can be seen is of a scope that is open.                   *)
THEOREM ScopesTypeCorrect == Spec => []TypeOK
BY InvHolds, TypeFromInv, PTL

(* assign_space_and_offset: variables of one function never share a cell, *)
(* unless the function defines another one.                               *)
THEOREM CellsDistinct == Spec => []CellsAreDistinct
BY InvHolds, CellsFromInv, PTL

(* lookup_symbol: a name means its innermost declaration, unless the      *)
(* search overlooks one or takes up what is over.                         *)
THEOREM NamesResolveToInnermost == Spec => []ResolvesToInnermost
<1>1. Answered => ResolvesToInnermost
  BY AnsweredIs
<1>2. QED BY <1>1, InvHolds, PTL

(* Phase 2: what lvalue accepts in a function is the function's own, or   *)
(* of scope 0, or a function.                                             *)
THEOREM AcceptedNamesAreOwn == Spec => []AcceptedAreOwn
<1>1. Answered => AcceptedAreOwn
  BY AnsweredIs
<1>2. QED BY <1>1, InvHolds, PTL

-----------------------------------------------------------------------------
(* The environments of a table. *)
DeclaredIn(t, scope, name) ==
  {i \in VisibleIn(t, name) : t[i].scope = scope}
MeantIn(t, scope, name) ==
  IF DeclaredIn(t, scope, name) = {} THEN 0 ELSE Min(DeclaredIn(t, scope, name))
EnvOf(t, c) == [s \in 1 .. c + 1 |-> [n \in Names |-> MeantIn(t, s - 1, n)]]

(* The mapping of ScopesProps is the environments of the table.           *)
LEMMA EnvIs == Env = EnvOf(table, checkScope) /\ Env' = EnvOf(table', checkScope')
<1>1. Env = EnvOf(table, checkScope)
  BY DEF Env, EnvOf, MeantIn, Declared, DeclaredIn, Visible, VisibleIn
<1>2. Env' = EnvOf(table', checkScope')
  BY DEF Env, EnvOf, MeantIn, Declared, DeclaredIn, Visible, VisibleIn
<1>3. QED BY <1>1, <1>2

(* What a name means in one scope: nothing, or its first declaration.     *)
LEMMA MeantIs ==
  ASSUME NEW t \in Seq(EntryType), NEW scope, NEW name, NEW m, m = MeantIn(t, scope, name)
  PROVE  /\ DeclaredIn(t, scope, name) \in SUBSET (1 .. Len(t))
         /\ m \in 0 .. Len(t)
         /\ m = 0 <=> DeclaredIn(t, scope, name) = {}
         /\ m # 0 => /\ m \in DeclaredIn(t, scope, name)
                     /\ \A i \in DeclaredIn(t, scope, name) : m <= i
<1>0. Len(t) \in Nat /\ DOMAIN t = 1 .. Len(t)
  OBVIOUS
<1>1. PICK S : S = DeclaredIn(t, scope, name)
  OBVIOUS
<1>2. S \in SUBSET (1 .. Len(t)) /\ S \in SUBSET Nat
  BY <1>0, <1>1 DEF DeclaredIn, VisibleIn
<1>3. m = IF S = {} THEN 0 ELSE Min(S)
  BY <1>1 DEF MeantIn
<1>4. S # {} => Min(S) \in S /\ \A i \in S : Min(S) <= i
  BY <1>2, MinIs
<1>5. QED BY <1>0, <1>1, <1>2, <1>3, <1>4

(* One environment for each open scope.                                   *)
LEMMA EnvType ==
  ASSUME NEW t \in Seq(EntryType), NEW c \in Nat
  PROVE  /\ EnvOf(t, c) \in [1 .. c + 1 -> [Names -> 0 .. Len(t)]]
         /\ EnvOf(t, c) \in [1 .. c + 1 -> [Names -> Nat]]
         /\ EnvOf(t, c) \in Seq([Names -> Nat])
         /\ Len(EnvOf(t, c)) = c + 1
<1>1. \A s, n : MeantIn(t, s, n) \in 0 .. Len(t) /\ MeantIn(t, s, n) \in Nat
  <2>1. ASSUME NEW s, NEW n PROVE MeantIn(t, s, n) \in 0 .. Len(t)
    BY MeantIs
  <2>2. Len(t) \in Nat
    OBVIOUS
  <2>3. QED BY <2>1, <2>2
<1>2. PICK E : E = EnvOf(t, c)
  OBVIOUS
<1>3. E = [s \in 1 .. c + 1 |-> [n \in Names |-> MeantIn(t, s - 1, n)]]
  BY <1>2 DEF EnvOf
<1>4. E \in [1 .. c + 1 -> [Names -> 0 .. Len(t)]] /\ E \in [1 .. c + 1 -> [Names -> Nat]]
  BY <1>1, <1>3
<1>5. E \in Seq([Names -> Nat]) /\ Len(E) = c + 1
  BY <1>4
<1>6. QED BY <1>2, <1>4, <1>5

(* Which says what its names mean.                                        *)
LEMMA EnvAt ==
  ASSUME NEW t, NEW c \in Nat, NEW s \in 1 .. c + 1, NEW n \in Names
  PROVE  EnvOf(t, c)[s][n] = MeantIn(t, s - 1, n)
BY DEF EnvOf

(* One entry more: which are declared. *)
LEMMA DeclaredAmong ==
  ASSUME NEW t \in Seq(EntryType), NEW e \in EntryType, e.block # Over, NEW scope, NEW name
  PROVE  DeclaredIn(Append(t, e), scope, name) =
           IF e.name = name /\ e.scope = scope THEN DeclaredIn(t, scope, name) \cup {Len(t) + 1}
           ELSE DeclaredIn(t, scope, name)
<1>0. PICK u : u = Append(t, e)
  OBVIOUS
<1>1. /\ Len(t) \in Nat /\ DOMAIN t = 1 .. Len(t)
      /\ DOMAIN u = 1 .. Len(t) + 1 /\ u[Len(t) + 1] = e
      /\ \A i \in 1 .. Len(t) : u[i] = t[i]
  BY <1>0, AppendProperties
<1>2. PICK n \in Nat : n = Len(t) /\ DOMAIN t = 1 .. n /\ DOMAIN u = 1 .. n + 1 /\ u[n + 1] = e
                       /\ \A i \in 1 .. n : u[i] = t[i]
  BY <1>1
<1>3. \A i \in 1 .. n + 1 : i \in 1 .. n \/ i = n + 1
  OBVIOUS
<1>4. n + 1 \notin 1 .. n /\ n + 1 \in 1 .. n + 1 /\ 1 .. n \subseteq 1 .. n + 1
  OBVIOUS
<1>5. \A i : i \in DeclaredIn(u, scope, name) <=>
              i \in 1 .. n + 1 /\ u[i].name = name /\ u[i].block # Over /\ u[i].scope = scope
  BY <1>2 DEF DeclaredIn, VisibleIn
<1>6. \A i : i \in DeclaredIn(t, scope, name) <=>
              i \in 1 .. n /\ t[i].name = name /\ t[i].block # Over /\ t[i].scope = scope
  BY <1>2 DEF DeclaredIn, VisibleIn
<1>7. CASE e.name = name /\ e.scope = scope
  <2>1. \A i : i \in DeclaredIn(u, scope, name) <=> i \in DeclaredIn(t, scope, name) \cup {n + 1}
    BY <1>2, <1>3, <1>4, <1>5, <1>6, <1>7
  <2>2. DeclaredIn(u, scope, name) = DeclaredIn(t, scope, name) \cup {n + 1}
    BY ONLY <2>1
  <2>3. QED BY <1>0, <1>2, <1>7, <2>2
<1>8. CASE ~(e.name = name /\ e.scope = scope)
  <2>1. \A i : i \in DeclaredIn(u, scope, name) <=> i \in DeclaredIn(t, scope, name)
    BY <1>2, <1>3, <1>4, <1>5, <1>6, <1>8
  <2>2. DeclaredIn(u, scope, name) = DeclaredIn(t, scope, name)
    BY ONLY <2>1 DEF DeclaredIn
  <2>3. QED BY <1>0, <1>8, <2>2
<1>9. QED BY <1>7, <1>8

(* An entry that can be seen declares its name in its scope.              *)
LEMMA DeclaredMore ==
  ASSUME NEW t \in Seq(EntryType), NEW e \in EntryType, e.block # Over
  PROVE  DeclaredIn(Append(t, e), e.scope, e.name) =
           DeclaredIn(t, e.scope, e.name) \cup {Len(t) + 1}
BY DeclaredAmong

(* It declares no other, and none elsewhere.                              *)
LEMMA DeclaredElse ==
  ASSUME NEW t \in Seq(EntryType), NEW e \in EntryType, e.block # Over,
         NEW scope, NEW name, e.name # name \/ e.scope # scope
  PROVE  DeclaredIn(Append(t, e), scope, name) = DeclaredIn(t, scope, name)
BY DeclaredAmong

(* A name that is not bound here is bound by an entry more.               *)
LEMMA BoundMore ==
  ASSUME NEW t \in Seq(EntryType), NEW e \in EntryType, e.block # Over,
         NEW c \in Nat, e.scope = c, e.name \in Names, DeclaredIn(t, c, e.name) = {}
  PROVE  EnvOf(Append(t, e), c) = [EnvOf(t, c) EXCEPT ![c + 1][e.name] = Len(t) + 1]
<1>0. PICK E : E = EnvOf(t, c)
  OBVIOUS
<1>1. PICK u : u = Append(t, e)
  OBVIOUS
<1>2. u \in Seq(EntryType) /\ Len(t) \in Nat
  BY <1>1
<1>3. PICK F : F = EnvOf(u, c)
  OBVIOUS
<1>4. /\ E \in [1 .. c + 1 -> [Names -> Nat]] /\ Len(E) = c + 1
      /\ \A s \in 1 .. c + 1 : \A n \in Names : E[s][n] = MeantIn(t, s - 1, n)
  <2>1. E \in [1 .. c + 1 -> [Names -> Nat]] /\ Len(E) = c + 1
    BY <1>0, EnvType
  <2>2. ASSUME NEW s \in 1 .. c + 1, NEW n \in Names
        PROVE  E[s][n] = MeantIn(t, s - 1, n)
    BY <1>0, EnvAt
  <2>3. QED BY <2>1, <2>2
<1>5. /\ F \in [1 .. c + 1 -> [Names -> Nat]]
      /\ \A s \in 1 .. c + 1 : \A n \in Names : F[s][n] = MeantIn(u, s - 1, n)
  <2>1. F \in [1 .. c + 1 -> [Names -> Nat]]
    BY <1>2, <1>3, EnvType
  <2>2. ASSUME NEW s \in 1 .. c + 1, NEW n \in Names
        PROVE  F[s][n] = MeantIn(u, s - 1, n)
    BY <1>3, EnvAt
  <2>3. QED BY <2>1, <2>2
<1>6. ASSUME NEW s \in 1 .. c + 1, NEW n \in Names, s # c + 1 \/ n # e.name
      PROVE  F[s][n] = E[s][n]
  <2>1. s - 1 # c \/ n # e.name
    BY <1>6
  <2>2. DeclaredIn(u, s - 1, n) = DeclaredIn(t, s - 1, n)
    BY <1>1, <2>1, DeclaredElse
  <2>3. MeantIn(u, s - 1, n) = MeantIn(t, s - 1, n)
    BY <2>2 DEF MeantIn
  <2>4. QED BY <1>4, <1>5, <2>3
<1>7. F[c + 1][e.name] = Len(t) + 1
  <2>1. DeclaredIn(u, c, e.name) = {Len(t) + 1}
    <3>1. DeclaredIn(Append(t, e), e.scope, e.name) =
            DeclaredIn(t, e.scope, e.name) \cup {Len(t) + 1}
      BY ONLY e.block # Over, DeclaredMore
    <3>2. QED BY <1>1, <3>1
  <2>2. MeantIn(u, c, e.name) = Len(t) + 1
    <3>1. PICK m : m = MeantIn(u, c, e.name)
      OBVIOUS
    <3>2. m # 0 /\ m \in DeclaredIn(u, c, e.name)
      BY <1>2, <2>1, <3>1, MeantIs
    <3>3. QED BY <2>1, <3>1, <3>2
  <2>3. c + 1 \in 1 .. c + 1 /\ (c + 1) - 1 = c
    OBVIOUS
  <2>4. QED BY <1>5, <2>2, <2>3
<1>8. PICK G : G = [E EXCEPT ![c + 1][e.name] = Len(t) + 1]
  OBVIOUS
<1>9. G \in [1 .. c + 1 -> [Names -> Nat]]
  BY <1>2, <1>4, <1>8
<1>10. ASSUME NEW s \in 1 .. c + 1, NEW n \in Names
       PROVE  G[s][n] = IF s = c + 1 /\ n = e.name THEN Len(t) + 1 ELSE E[s][n]
  BY <1>4, <1>8
<1>11. \A s \in 1 .. c + 1 : \A n \in Names : F[s][n] = G[s][n]
  BY <1>6, <1>7, <1>10
<1>12. \A s \in 1 .. c + 1 : F[s] = G[s]
  BY <1>5, <1>9, <1>11
<1>13. F = G
  BY <1>5, <1>9, <1>12
<1>14. QED BY <1>0, <1>1, <1>3, <1>8, <1>13

(* An entry whose name is not one of the program's binds nothing.         *)
LEMMA UnnamedMore ==
  ASSUME NEW t \in Seq(EntryType), NEW e \in EntryType, e.block # Over, e.name \notin Names,
         NEW c \in Nat
  PROVE  EnvOf(Append(t, e), c) = EnvOf(t, c)
<1>1. PICK u : u = Append(t, e)
  OBVIOUS
<1>2. ASSUME NEW s, NEW n \in Names
      PROVE  DeclaredIn(u, s, n) = DeclaredIn(t, s, n)
  <2>1. e.name # n
    OBVIOUS
  <2>2. QED BY <1>1, <2>1, DeclaredElse
<1>3. \A s : \A n \in Names : MeantIn(u, s, n) = MeantIn(t, s, n)
  BY <1>2 DEF MeantIn
<1>4. EnvOf(u, c) = EnvOf(t, c)
  BY <1>3 DEF EnvOf
<1>5. QED BY <1>1, <1>4

-----------------------------------------------------------------------------
(* What a search finds, and what may be inserted, in the final compiler, as *)
(* long as no function with a name has stayed behind its block.             *)
ScopedIn(t) ==
  \A i \in DOMAIN t : t[i].type = "userfunc" /\ t[i].block = Over => t[i].name = "$"

(* Library functions are entries from the start; a temporary has a name of  *)
(* its own.                                                                 *)
NamesAs(t, n) ==
  /\ \A name \in Library : \E i \in DOMAIN t : t[i].name = name /\ t[i].type = "libfunc"
  /\ \A i \in DOMAIN t : t[i].name \in Library <=> t[i].type = "libfunc"
  /\ \A i \in DOMAIN t : \A k \in DOMAIN TempNames : t[i].name = TempNames[k] => k <= n

(* The fields of an entry, as far as they matter here.                    *)
LEMMA EntryOf ==
  ASSUME version = "phases4_5", NEW t, NEW o, TableAs(t, o), NEW i \in DOMAIN t
  PROVE  /\ t[i] \in EntryType /\ i \in 1 .. Len(t) /\ t[i].scope \in Nat
         /\ t[i].block # Over => t[i].is_active
         /\ t[i].block = Over => t[i].scope # 0
         /\ t[i].block = Over /\ t[i].is_active => t[i].type = "userfunc"
         /\ t[i].type = "libfunc" => t[i].scope = 0
<1>1. i \in 1 .. Len(t) /\ EntryAt(t[i], o)
  BY DEF TableAs
<1>2. PICK e : e = t[i] /\ EntryAt(e, o)
  BY <1>1
<1>3. e \in EntryType /\ PlacedAt(e, o) /\ SwitchedRight(e) /\ KindRight(e)
  BY <1>2 DEF EntryAt
<1>4. e.scope \in Nat
  BY <1>3 DEF EntryType
<1>5. e.block = Over => e.scope # 0
  BY <1>3 DEF PlacedAt
<1>6. /\ e.block # Over => e.is_active
      /\ e.block = Over /\ e.is_active => e.type = "userfunc"
  BY <1>3 DEF SwitchedRight
<1>7. e.type = "libfunc" => e.scope = 0
  BY <1>3 DEF KindRight
<1>8. QED BY <1>1, <1>2, <1>3, <1>4, <1>5, <1>6, <1>7

(* What has not been switched off is what can be seen.                    *)
LEMMA SeenIs ==
  ASSUME version = "phases4_5", NEW t, NEW o, TableAs(t, o), ScopedIn(t),
         NEW i \in DOMAIN t, t[i].name # "$"
  PROVE  Active(version, t, i) <=> t[i].block # Over
<1>1. /\ t[i].block # Over => t[i].is_active
      /\ t[i].block = Over /\ t[i].is_active => t[i].type = "userfunc"
  BY EntryOf
<1>2. ~(t[i].type = "userfunc" /\ t[i].block = Over)
  BY DEF ScopedIn
<1>3. QED BY <1>1, <1>2 DEF Active

(* lookup_symbol_global: the first entry of scope 0 is a library function *)
(* if one has that name.                                                  *)
LEMMA LibraryIs ==
  ASSUME version = "phases4_5", NEW t, NEW o, TableAs(t, o), NEW n, NamesAs(t, n), NEW name
  PROVE  IsLibrary(t, name) <=> name \in Library
<1>1. PICK S : S = {i \in DOMAIN t : t[i].name = name /\ t[i].scope = 0}
  OBVIOUS
<1>2. IsLibrary(t, name) <=> S # {} /\ t[Min(S)].type = "libfunc"
  BY <1>1 DEF IsLibrary
<1>3. S \in SUBSET Nat /\ \A i \in S : i \in DOMAIN t /\ t[i].name = name
  BY <1>1 DEF TableAs
<1>4. S # {} => Min(S) \in S
  BY <1>3, MinIs
<1>5. ASSUME IsLibrary(t, name)
      PROVE  name \in Library
  BY <1>2, <1>3, <1>4, <1>5 DEF NamesAs
<1>6. ASSUME name \in Library
      PROVE  IsLibrary(t, name)
  <2>1. PICK i \in DOMAIN t : t[i].name = name /\ t[i].type = "libfunc"
    BY <1>6 DEF NamesAs
  <2>2. t[i].scope = 0
    BY <2>1, EntryOf
  <2>3. S # {}
    BY <1>1, <2>1, <2>2
  <2>4. Min(S) \in DOMAIN t /\ t[Min(S)].name \in Library
    BY <1>3, <1>4, <1>6, <2>3
  <2>5. QED BY <1>2, <2>3, <2>4 DEF NamesAs
<1>7. QED BY <1>5, <1>6

(* insert_symbol: a name that is not free here is refused, and no other.  *)
LEMMA InsertableIs ==
  ASSUME version = "phases4_5", NEW t, NEW o, TableAs(t, o), ScopedIn(t), NEW n, NamesAs(t, n),
         NEW e, e.type # "argument", e.name # "$"
  PROVE  Insertable(version, t, e) <=>
           /\ e.scope # 0 => e.name \notin Library
           /\ DeclaredIn(t, e.scope, e.name) = {}
<1>1. PICK S : S = SameScope(version, t, e)
  OBVIOUS
<1>2. S = DeclaredIn(t, e.scope, e.name)
  <2>1. \A i \in DOMAIN t : t[i].name = e.name => (Active(version, t, i) <=> t[i].block # Over)
    BY SeenIs
  <2>2. QED BY <1>1, <2>1 DEF SameScope, DeclaredIn, VisibleIn
<1>3. ~Repeatable(t, Min(S), e)
  BY DEF Repeatable
<1>4. IsLibrary(t, e.name) <=> e.name \in Library
  BY LibraryIs
<1>5. Insertable(version, t, e) <=> (e.scope # 0 => ~IsLibrary(t, e.name)) /\ S = {}
  BY <1>1, <1>3 DEF Insertable
<1>6. QED BY <1>2, <1>4, <1>5

(* A library function is never declared again.                            *)
LEMMA NotLibrary ==
  ASSUME version = "phases4_5", NEW t, NEW o, TableAs(t, o), NEW n, NamesAs(t, n),
         NEW e, Insertable(version, t, e)
  PROVE  e.name \notin Library
<1> SUFFICES ASSUME e.name \in Library PROVE FALSE
  OBVIOUS
<1>1. PICK S : S = SameScope(version, t, e)
  OBVIOUS
<1>2. /\ e.scope # 0 => ~IsLibrary(t, e.name)
      /\ S = {} \/ Repeatable(t, Min(S), e)
  BY <1>1 DEF Insertable
<1>3. e.scope = 0
  BY <1>2, LibraryIs
<1>4. PICK i \in DOMAIN t : t[i].name = e.name /\ t[i].type = "libfunc"
  BY DEF NamesAs
<1>5. t[i].scope = 0 /\ t[i].is_active
  BY <1>4, EntryOf
<1>6. S # {}
  BY <1>1, <1>3, <1>4, <1>5 DEF SameScope, Active
<1>7. S \in SUBSET Nat /\ \A j \in S : j \in DOMAIN t /\ t[j].name = e.name
  BY <1>1 DEF SameScope, TableAs
<1>8. Min(S) \in DOMAIN t /\ t[Min(S)].name = e.name
  BY <1>6, <1>7, MinIs
<1>9. t[Min(S)].type = "libfunc"
  BY <1>8 DEF NamesAs
<1>10. QED BY <1>2, <1>6, <1>9 DEF Repeatable

(* lookup_symbol: the first declaration in the greatest scope that has    *)
(* one.                                                                   *)
LEMMA FoundInnermost ==
  ASSUME version = "phases4_5", NEW t, NEW o, TableAs(t, o), ScopedIn(t),
         NEW name, name # "$", NEW current \in Nat, NEW context,
         NEW f, f = Lookup(version, t, name, current, context)
  PROVE  /\ f \in 0 .. Len(t)
         /\ f = 0 => \A s \in 0 .. current : DeclaredIn(t, s, name) = {}
         /\ f # 0 => \E s \in 0 .. current :
                       /\ f = MeantIn(t, s, name)
                       /\ \A r \in 0 .. current : r > s => DeclaredIn(t, r, name) = {}
<1>1. t \in Seq(EntryType)
  BY DEF TableAs
<1>2. PICK S : S = Candidates(version, t, name, current, context)
  OBVIOUS
<1>3. ASSUME NEW i
      PROVE  i \in S <=> /\ i \in DOMAIN t /\ t[i].name = name /\ t[i].block # Over
                         /\ t[i].scope \in 0 .. current
  <2>1. ~Passed(version, t, i, current, context)
    BY DEF Passed
  <2>2. i \in DOMAIN t => t[i].scope \in Nat
    BY EntryOf
  <2>3. i \in DOMAIN t /\ t[i].name = name => (Active(version, t, i) <=> t[i].block # Over)
    BY SeenIs
  <2>4. QED BY <1>2, <2>1, <2>2, <2>3 DEF Candidates
<1>4. /\ f \in 0 .. Len(t)
      /\ f # 0 => f \in S /\ f \in DOMAIN t /\ \A j \in S : t[j].scope <= t[f].scope
  BY <1>1, <1>2, LookupIs
<1>5. f = IF S = {} THEN 0 ELSE First(t, S)
  BY <1>2 DEF Lookup, Candidates
<1>6. S \in SUBSET Nat /\ 0 \notin S
  BY <1>1, <1>3
<1>7. CASE S = {}
  <2>1. ASSUME NEW s \in 0 .. current, NEW i \in DeclaredIn(t, s, name)
        PROVE  FALSE
    <3>1. i \in DOMAIN t /\ t[i].name = name /\ t[i].block # Over /\ t[i].scope = s
      BY <2>1 DEF DeclaredIn, VisibleIn
    <3>2. QED BY <1>3, <1>7, <3>1
  <2>2. f = 0
    BY <1>5, <1>7
  <2>3. QED BY <1>4, <2>1, <2>2
<1>8. CASE S # {}
  <2> DEFINE N == {t[i].scope : i \in S}
             M == {i \in S : \A j \in S : t[j].scope <= t[i].scope}
  <2>1. N \in SUBSET Nat /\ N # {} /\ \A x \in N : x <= current
    BY <1>3, <1>8
  <2>2. PICK s \in N : \A x \in N : x <= s
    <3> HIDE DEF N
    <3>1. QED BY <2>1, GreatestExists
  <2>3. PICK k \in S : t[k].scope = s
    OBVIOUS
  <2>4. s \in 0 .. current /\ \A j \in S : t[j].scope <= s
    BY <1>3, <2>2, <2>3
  <2>5. \A i : i \in M <=> i \in S /\ t[i].scope = s
    <3>1. ASSUME NEW i \in M
          PROVE  i \in S /\ t[i].scope = s
      <4>1. i \in S /\ t[k].scope <= t[i].scope /\ t[i].scope <= s
        BY <2>3, <2>4
      <4>2. t[i].scope \in Nat /\ s \in Nat
        BY <1>3, <2>4, <4>1
      <4>3. QED BY <2>3, <4>1, <4>2
    <3>2. ASSUME NEW i \in S, t[i].scope = s
          PROVE  i \in M
      BY <2>4, <3>2
    <3>3. QED BY <3>1, <3>2
  <2>6. \A i : i \in M <=> i \in DeclaredIn(t, s, name)
    <3> HIDE DEF M, N
    <3>1. \A i : i \in DeclaredIn(t, s, name) <=>
                   i \in DOMAIN t /\ t[i].name = name /\ t[i].block # Over /\ t[i].scope = s
      BY DEF DeclaredIn, VisibleIn
    <3>2. QED BY <1>3, <2>4, <2>5, <3>1
  <2>7. M = DeclaredIn(t, s, name)
    <3> HIDE DEF M
    <3>1. QED BY <2>6
  <2>8. f = Min(M)
    BY <1>5, <1>8 DEF First
  <2>9. k \in M
    BY <2>3, <2>5
  <2>10. f = MeantIn(t, s, name) /\ f # 0
    <3>1. M # {} /\ M \subseteq S
      BY <2>9
    <3> HIDE DEF M
    <3>2. M \in SUBSET Nat
      BY <1>6, <3>1
    <3>3. f \in M
      BY <2>8, <3>1, <3>2, MinIs
    <3>4. f # 0
      BY <1>6, <3>1, <3>3
    <3>5. QED BY <2>7, <2>8, <3>1, <3>4 DEF MeantIn
  <2>11. ASSUME NEW r \in 0 .. current, r > s, NEW i \in DeclaredIn(t, r, name)
         PROVE  FALSE
    <3>1. i \in DOMAIN t /\ t[i].name = name /\ t[i].block # Over /\ t[i].scope = r
      BY <2>11 DEF DeclaredIn, VisibleIn
    <3>2. i \in S
      BY <1>3, <3>1
    <3>3. QED BY <2>4, <2>11, <3>1, <3>2
  <2>12. \A r \in 0 .. current : r > s => DeclaredIn(t, r, name) = {}
    BY <2>11
  <2> HIDE DEF M, N
  <2>13. QED BY <1>4, <2>4, <2>10, <2>12
<1>9. QED BY <1>7, <1>8

-----------------------------------------------------------------------------
(* The steps of the final compiler are steps of the environments. *)
Lexical ==
  /\ OpenInv /\ TableInv
  /\ version = "phases4_5" /\ ScopedIn(table) /\ NamesAs(table, tempcounter)

(* The mapping's mode: whether names are scoped.                          *)
LEMMA ModeIs ==
  /\ Mode = IF version = "phases4_5" /\ ScopedIn(table) THEN "scoped" ELSE "lost"
  /\ Mode' = IF version' = "phases4_5" /\ ScopedIn(table') THEN "scoped" ELSE "lost"
BY DEF Mode, Stale, ScopedIn

(* What is known here. *)
LEMMA LexicalIs ==
  ASSUME Lexical
  PROVE  /\ version = "phases4_5" /\ table \in Seq(EntryType) /\ Len(table) \in Nat
         /\ checkScope \in Nat /\ TableAs(table, open)
         /\ Len(Env) = checkScope + 1 /\ DOMAIN Env = 1 .. checkScope + 1
         /\ Env \in Seq([Names -> Nat])
         /\ Env = EnvOf(table, checkScope)
         /\ \A s \in 1 .. checkScope + 1 : \A n \in Names : Env[s][n] = MeantIn(table, s - 1, n)
<1>1. /\ version = "phases4_5" /\ TableAs(table, open) /\ checkScope \in Nat
  BY HereIs DEF Lexical, TableInv
<1>2. table \in Seq(EntryType) /\ Len(table) \in Nat
  BY <1>1 DEF TableAs
<1>3. Env = EnvOf(table, checkScope)
  BY EnvIs
<1>4. /\ Env \in [1 .. checkScope + 1 -> [Names -> Nat]]
      /\ Env \in Seq([Names -> Nat]) /\ Len(Env) = checkScope + 1
  BY <1>1, <1>2, <1>3, EnvType
<1>5. ASSUME NEW s \in 1 .. checkScope + 1, NEW n \in Names
      PROVE  Env[s][n] = MeantIn(table, s - 1, n)
  BY <1>1, <1>3, EnvAt
<1>6. DOMAIN Env = 1 .. checkScope + 1
  BY <1>4
<1>7. QED BY <1>1, <1>2, <1>3, <1>4, <1>5, <1>6

(* A name means what the search finds.                                    *)
LEMMA MeaningIs ==
  ASSUME Lexical, NEW name \in Names, NEW context,
         NEW f, f = Lookup(version, table, name, checkScope, context)
  PROVE  Environments!Meaning(name) = f /\ f \in 0 .. Len(table)
<1>a. PICK c \in Nat : c = checkScope
  BY LexicalIs
<1>b. PICK t \in Seq(EntryType) : t = table
  BY LexicalIs
<1>c. PICK E : E = Env
  OBVIOUS
<1>1. /\ c = checkScope /\ t = table /\ E = Env /\ DOMAIN E = 1 .. c + 1
      /\ \A s \in 1 .. c + 1 : \A n \in Names : E[s][n] = MeantIn(t, s - 1, n)
  BY <1>a, <1>b, <1>c, LexicalIs
<1>2. PICK K : K = {i \in 1 .. c + 1 : E[i][name] # 0}
  OBVIOUS
<1>3. Environments!Meaning(name) =
        IF K = {} THEN 0 ELSE E[CHOOSE i \in K : \A j \in K : j <= i][name]
  BY <1>1, <1>2 DEF Environments!Meaning, Environments!Knowing
<1>4. \A i : i \in K <=> i \in 1 .. c + 1 /\ DeclaredIn(t, i - 1, name) # {}
  <2>1. ASSUME NEW i \in 1 .. c + 1
        PROVE  E[i][name] = 0 <=> DeclaredIn(t, i - 1, name) = {}
    <3>1. E[i][name] = MeantIn(t, i - 1, name)
      BY <1>1
    <3>2. PICK m : m = MeantIn(t, i - 1, name)
      OBVIOUS
    <3>3. m = 0 <=> DeclaredIn(t, i - 1, name) = {}
      BY <3>2, MeantIs
    <3>4. QED BY <3>1, <3>2, <3>3
  <2>2. QED BY <1>2, <2>1
<1>5. /\ f \in 0 .. Len(t)
      /\ f = 0 => \A s \in 0 .. c : DeclaredIn(t, s, name) = {}
      /\ f # 0 => \E s \in 0 .. c :
                    /\ f = MeantIn(t, s, name)
                    /\ \A r \in 0 .. c : r > s => DeclaredIn(t, r, name) = {}
  <2>1. name # "$" /\ TableAs(t, open) /\ ScopedIn(t) /\ version = "phases4_5"
    BY <1>1, ScopesAssumption DEF Lexical, TableInv
  <2>2. f = Lookup(version, t, name, c, context)
    BY <1>1
  <2>3. QED BY <2>1, <2>2, FoundInnermost
<1>6. CASE f = 0
  <2>1. ASSUME NEW i \in K PROVE FALSE
    <3>1. i - 1 \in 0 .. c
      BY <1>4
    <3>2. QED BY <1>4, <1>5, <1>6, <3>1
  <2>2. QED BY <1>1, <1>3, <1>5, <1>6, <2>1
<1>7. CASE f # 0
  <2>1. PICK s \in 0 .. c : /\ f = MeantIn(t, s, name)
                            /\ \A r \in 0 .. c : r > s => DeclaredIn(t, r, name) = {}
    BY <1>5, <1>7
  <2>2. DeclaredIn(t, s, name) # {}
    BY <1>7, <2>1 DEF MeantIn
  <2>3. PICK g \in 1 .. c + 1 : g = s + 1 /\ g - 1 = s
    OBVIOUS
  <2>4. g \in K
    BY <1>4, <2>2, <2>3
  <2>5. ASSUME NEW i \in K
        PROVE  i <= g
    <3>1. i \in 1 .. c + 1 /\ i - 1 \in 0 .. c /\ DeclaredIn(t, i - 1, name) # {}
      BY <1>4
    <3>2. ~(i - 1 > s)
      BY <2>1, <3>1
    <3>3. QED BY <2>3, <3>1, <3>2
  <2>6. \A i \in K : i \in Nat
    BY <1>4
  <2>7. (CHOOSE i \in K : \A j \in K : j <= i) = g
    <3>1. PICK h : h = CHOOSE i \in K : \A j \in K : j <= i
      OBVIOUS
    <3>2. h \in K /\ \A j \in K : j <= h
      BY <2>4, <2>5, <3>1
    <3>3. h <= g /\ g <= h /\ h \in Nat /\ g \in Nat
      BY <2>4, <2>5, <2>6, <3>2
    <3>4. QED BY <3>1, <3>3
  <2>8. E[g][name] = f
    BY <1>1, <2>1, <2>3
  <2>9. QED BY <1>1, <1>3, <1>5, <2>4, <2>7, <2>8
<1>8. QED BY <1>6, <1>7

(* A name is free if insert_symbol accepts it here.                       *)
LEMMA FreeIs ==
  ASSUME Lexical, NEW name \in Names
  PROVE  Environments!Free(name) <=>
           /\ checkScope # 0 => name \notin Library
           /\ DeclaredIn(table, checkScope, name) = {}
<1>a. PICK c \in Nat : c = checkScope
  BY LexicalIs
<1>b. PICK t \in Seq(EntryType) : t = table
  BY LexicalIs
<1>c. PICK E : E = Env
  OBVIOUS
<1>1. /\ c = checkScope /\ t = table /\ E = Env /\ Len(E) = c + 1
      /\ \A s \in 1 .. c + 1 : \A n \in Names : E[s][n] = MeantIn(t, s - 1, n)
  BY <1>a, <1>b, <1>c, LexicalIs
<1>2. Environments!Free(name) <=> E[c + 1][name] = 0 /\ (name \in Library => c + 1 = 1)
  BY <1>1 DEF Environments!Free, Environments!Here
<1>3. c + 1 \in 1 .. c + 1 /\ c + 1 - 1 = c /\ (c + 1 = 1 <=> c = 0)
  OBVIOUS
<1>4. PICK m : m = MeantIn(t, c, name)
  OBVIOUS
<1>5. E[c + 1][name] = m
  BY <1>1, <1>3, <1>4
<1>6. m = 0 <=> DeclaredIn(t, c, name) = {}
  BY <1>4, MeantIs
<1>7. QED BY <1>1, <1>2, <1>3, <1>5, <1>6

(* insert_symbol binds a name that is free, and nothing else changes.     *)
LEMMA DeclareMaps ==
  ASSUME Lexical, NEW how, NEW name \in Names, NEW type \in {"global", "local"},
         type = "global" => checkScope = 0,
         Declare(how, Entry(name, type)), checkScope' = checkScope
  PROVE  IF Environments!Free(name) THEN Environments!Bind(name)
         ELSE last'.found = 0 /\ UNCHANGED <<Env, Len(table)>>
<1>1. PICK e : e = Entry(name, type)
  OBVIOUS
<1>2. name \in AnyName /\ type \in Types /\ type # "temp" /\ type # "argument" /\ name # "$"
  BY ScopesAssumption DEF AnyName, Types, Variables
<1>3. /\ EntryAt(e, open) /\ e.name = name /\ e.type = type /\ e.scope = checkScope
      /\ e.block = Block
  BY <1>1, <1>2, EntryNew DEF Lexical
<1>4. e \in EntryType /\ e.block # Over
  BY <1>3, HereIs DEF EntryAt, Lexical
<1>5. Insertable(version, table, e) <=> Environments!Free(name)
  <2>1. Insertable(version, table, e) <=>
          /\ e.scope # 0 => e.name \notin Library
          /\ DeclaredIn(table, e.scope, e.name) = {}
    BY <1>2, <1>3, InsertableIs DEF Lexical, TableInv
  <2>2. QED BY <1>3, <2>1, FreeIs
<1>6. /\ IF Insertable(version, table, e) THEN table' = Append(table, e) ELSE table' = table
      /\ last'.found = IF table' = table THEN 0 ELSE Len(table')
  <2>1. DeclaredAs(how, name, e)
    BY <1>1, <1>3, DeclareIs
  <2>2. QED BY <1>1, <2>1, LexicalIs DEF Declare, DeclaredAs
<1>7. CASE Environments!Free(name)
  <2>1. table' = Append(table, e)
    BY <1>5, <1>6, <1>7
  <2>2. Len(table) \in Nat /\ Len(table') = Len(table) + 1
    BY <1>4, <2>1, LexicalIs
  <2>3. last'.found = Len(table) + 1
    BY <1>6, <2>2
  <2>4. DeclaredIn(table, checkScope, e.name) = {}
    BY <1>3, <1>7, FreeIs
  <2>5. EnvOf(table', checkScope) = [Env EXCEPT ![Len(Env)][e.name] = Len(table) + 1]
    <3>1. table \in Seq(EntryType) /\ checkScope \in Nat
      BY LexicalIs
    <3>2. /\ e \in EntryType /\ e.block # Over /\ e.scope = checkScope /\ e.name \in Names
          /\ DeclaredIn(table, checkScope, e.name) = {}
      BY <1>3, <1>4, <2>4
    <3>3. EnvOf(Append(table, e), checkScope) =
            [EnvOf(table, checkScope) EXCEPT ![checkScope + 1][e.name] = Len(table) + 1]
      BY ONLY <3>1, <3>2, BoundMore
    <3>4. QED BY <2>1, <3>3, LexicalIs
  <2>6. Env' = [Env EXCEPT ![Len(Env)][name] = Len(table) + 1]
    <3>1. Env' = EnvOf(table', checkScope)
      BY EnvIs
    <3>2. QED BY <1>3, <2>5, <3>1
  <2>7. Environments!Bind(name)
    BY <2>2, <2>3, <2>6 DEF Environments!Bind
  <2>8. QED BY <1>7, <2>7
<1>8. CASE ~Environments!Free(name)
  <2>1. table' = table
    BY <1>5, <1>6, <1>8
  <2>2. last'.found = 0
    BY <1>6, <2>1
  <2>3. Env' = Env
    BY <2>1, EnvIs
  <2>4. QED BY <1>8, <2>1, <2>2, <2>3
<1>9. QED BY <1>7, <1>8

(* What a name means nothing is free to be one.                           *)
LEMMA MeaninglessIsFree ==
  ASSUME Lexical, NEW name \in Names, Environments!Meaning(name) = 0
  PROVE  Environments!Free(name)
<1>1. PICK f : f = Lookup(version, table, name, checkScope, FALSE)
  OBVIOUS
<1>2. f = 0
  BY <1>1, MeaningIs
<1>3. name # "$" /\ TableAs(table, open) /\ ScopedIn(table) /\ version = "phases4_5" /\ checkScope \in Nat
  BY ScopesAssumption, LexicalIs DEF Lexical
<1>4. \A s \in 0 .. checkScope : DeclaredIn(table, s, name) = {}
  BY ONLY <1>1, <1>2, <1>3, FoundInnermost
<1>5. 0 \in 0 .. checkScope /\ checkScope \in 0 .. checkScope
  BY <1>3
<1>6. name \notin Library
  <2>1. SUFFICES ASSUME name \in Library PROVE FALSE
    OBVIOUS
  <2>2. PICK i \in DOMAIN table : table[i].name = name /\ table[i].type = "libfunc"
    BY <2>1 DEF Lexical, NamesAs
  <2>3. table[i].scope = 0 /\ table[i].block # Over
    BY <1>3, <2>2, EntryOf
  <2>4. i \in DeclaredIn(table, 0, name)
    BY <2>2, <2>3 DEF DeclaredIn, VisibleIn
  <2>5. QED BY <1>4, <1>5, <2>4
<1>7. QED BY <1>4, <1>5, <1>6, FreeIs

(* lvalue: a name means what it was declared to be, or is declared here.  *)
LEMMA ReferMaps ==
  ASSUME Lexical, Environments!Scoped, NEW name \in Names, Refer(name)
  PROVE  Environments!Refer
<1>1. PICK found, type : /\ found = Lookup(version, table, name, checkScope, inside_function_scope)
                         /\ type = IF checkScope = 0 THEN "global" ELSE "local"
  OBVIOUS
<1>2. /\ IF found = 0 THEN Declare("refer", Entry(name, type))
         ELSE /\ Said("refer", name, IF version = "phase2" /\ Foreign(table[found]) THEN 0 ELSE found)
              /\ UNCHANGED <<table, offsets>>
      /\ UNCHANGED <<version, scopes, tempcounter, open>>
  BY <1>1 DEF Refer, Find
<1>3. Environments!Meaning(name) = found /\ version # "phase2"
  BY <1>1, MeaningIs, LexicalIs
<1>4. checkScope' = checkScope
  BY <1>2 DEF scopes
<1>5. IF Environments!Meaning(name) # 0
      THEN last'.found = Environments!Meaning(name) /\ UNCHANGED <<Env, Len(table)>>
      ELSE Environments!Bind(name)
  <2>1. CASE found = 0
    <3>1. Environments!Free(name)
      BY <1>3, <2>1, MeaninglessIsFree
    <3>2. Declare("refer", Entry(name, type))
      BY <1>2, <2>1
    <3>3. type \in {"global", "local"} /\ (type = "global" => checkScope = 0)
      BY <1>1
    <3>4. Environments!Bind(name)
      BY <1>4, <3>1, <3>2, <3>3, DeclareMaps
    <3>5. QED BY <1>3, <2>1, <3>4
  <2>2. CASE found # 0
    <3>1. last'.found = found /\ table' = table
      BY <1>2, <1>3, <2>2 DEF Said
    <3>2. Env' = Env
      BY <1>4, <3>1, EnvIs
    <3>3. QED BY <1>3, <2>2, <3>1, <3>2
  <2>3. QED BY <2>1, <2>2
<1>6. QED BY <1>5 DEF Environments!Refer

(* local ID: declared here, or refused.                                   *)
LEMMA DeclareLocalMaps ==
  ASSUME Lexical, Environments!Scoped, NEW name \in Names, DeclareLocal(name)
  PROVE  Environments!Local
<1>1. Declare("local", Entry(name, "local")) /\ checkScope' = checkScope
  BY DEF DeclareLocal, scopes
<1>2. IF Environments!Free(name) THEN Environments!Bind(name)
      ELSE last'.found = 0 /\ UNCHANGED <<Env, Len(table)>>
  BY <1>1, DeclareMaps
<1>3. QED BY <1>2 DEF Environments!Local

(* :: ID: what the name means in scope 0.                                 *)
LEMMA ReferGlobalMaps ==
  ASSUME Lexical, Environments!Scoped, NEW name \in Names, ReferGlobal(name)
  PROVE  Environments!ReferGlobal
<1>1. PICK f : f = Lookup(version, table, name, 0, FALSE)
  OBVIOUS
<1>2. last'.found = f /\ table' = table /\ checkScope' = checkScope
  BY <1>1 DEF ReferGlobal, Said, Find, scopes
<1>3. name # "$" /\ TableAs(table, open) /\ ScopedIn(table) /\ version = "phases4_5" /\ 0 \in Nat
  BY ScopesAssumption, LexicalIs DEF Lexical
<1>4. /\ f = 0 => \A s \in 0 .. 0 : DeclaredIn(table, s, name) = {}
      /\ f # 0 => \E s \in 0 .. 0 :
                    /\ f = MeantIn(table, s, name)
                    /\ \A r \in 0 .. 0 : r > s => DeclaredIn(table, r, name) = {}
  BY ONLY <1>1, <1>3, FoundInnermost
<1>5. \A s \in 0 .. 0 : s = 0
  OBVIOUS
<1>6. f = MeantIn(table, 0, name)
  BY <1>4, <1>5 DEF MeantIn
<1>7. Env[1][name] = MeantIn(table, 0, name)
  <2>1. checkScope \in Nat /\ 1 \in 1 .. checkScope + 1 /\ 1 - 1 = 0
    BY LexicalIs
  <2>2. Env[1][name] = MeantIn(table, 1 - 1, name)
    BY <2>1, LexicalIs
  <2>3. QED BY <2>1, <2>2
<1>8. UNCHANGED <<Env, Len(table)>>
  BY <1>2, EnvIs
<1>9. QED BY <1>2, <1>6, <1>7, <1>8 DEF Environments!ReferGlobal

(* A temporary or an anonymous function adds a declaration that has no    *)
(* name.                                                                  *)
LEMMA UnnamedMaps ==
  ASSUME Lexical, Environments!Scoped, NEW e \in EntryType, e.block # Over, e.name \notin Names,
         table' = Append(table, e), checkScope' = checkScope, last'.found = Len(table) + 1
  PROVE  Environments!Unnamed
<1>1. table \in Seq(EntryType) /\ checkScope \in Nat /\ Env = EnvOf(table, checkScope)
  BY LexicalIs
<1>2. Len(table') = Len(table) + 1
  BY <1>1
<1>3. EnvOf(Append(table, e), checkScope) = EnvOf(table, checkScope)
  BY <1>1, UnnamedMore
<1>4. Env' = Env
  BY <1>1, <1>3, EnvIs
<1>5. QED BY <1>2, <1>4 DEF Environments!Unnamed

(* newtemp: the names of temporaries are never used up twice.             *)
LEMMA NewTempMaps ==
  ASSUME Lexical, Environments!Scoped, NewTemp
  PROVE  Environments!Unnamed
<1>1. PICK name : name = TempNames[tempcounter + 1]
  OBVIOUS
<1>2. tempcounter \in Nat /\ tempcounter + 1 \in DOMAIN TempNames
  <2>1. tempcounter \in Nat /\ Len(TempNames) \in Nat /\ tempcounter < Len(TempNames)
    BY ScopesAssumption DEF Lexical, OpenInv, NewTemp
  <2>2. DOMAIN TempNames = 1 .. Len(TempNames)
    BY ScopesAssumption
  <2>3. QED BY <2>1, <2>2
<1>3. name \in AnyName /\ name \notin Names /\ name # "$"
  BY <1>1, <1>2, ScopesAssumption DEF AnyName
<1>4. Declare("temp", Entry(name, "temp")) /\ checkScope' = checkScope
  BY <1>1, LexicalIs DEF NewTemp, scopes
<1>5. PICK e : e = Entry(name, "temp")
  OBVIOUS
<1>6. EntryAt(e, open) /\ e.name = name /\ e.type = "temp" /\ e.scope = checkScope /\ e.block = Block
  BY <1>3, <1>5, EntryNew, LexicalIs DEF Lexical, Types
<1>7. e \in EntryType /\ e.block # Over
  BY <1>6, HereIs DEF EntryAt, Lexical
<1>8. Insertable(version, table, e)
  <2>1. name \notin Library
    BY <1>3, ScopesAssumption
  <2>2. DeclaredIn(table, e.scope, name) = {}
    <3>1. ASSUME NEW i \in DOMAIN table, table[i].name = name
          PROVE  FALSE
      <4>1. tempcounter + 1 <= tempcounter
        BY <1>1, <1>2, <3>1 DEF Lexical, NamesAs
      <4>2. QED BY <1>2, <4>1
    <3>2. QED BY <3>1 DEF DeclaredIn, VisibleIn
  <2>3. e.type # "argument" /\ e.name # "$"
    BY <1>3, <1>6
  <2>4. QED BY <1>6, <2>1, <2>2, <2>3, InsertableIs DEF Lexical, TableInv
<1>9. table' = Append(table, e)
  BY <1>4, <1>5, <1>8 DEF Declare
<1>10. last'.found = Len(table) + 1
  <2>1. DeclaredAs("temp", name, e)
    BY <1>4, <1>5, <1>6, DeclareIs
  <2>2. last'.found = IF table' = table THEN 0 ELSE Len(table')
    BY <2>1, LexicalIs DEF DeclaredAs
  <2>3. Len(table) \in Nat /\ Len(table') = Len(table) + 1
    BY <1>7, <1>9, LexicalIs
  <2>4. QED BY <2>2, <2>3
<1>11. QED BY <1>3, <1>4, <1>6, <1>7, <1>9, <1>10, UnnamedMaps

-----------------------------------------------------------------------------
(* Scopes that open and close. *)

(* One scope of a table.                                                  *)
LEMMA EnvOfScope ==
  ASSUME NEW t, NEW c \in Nat, NEW s \in 1 .. c + 1
  PROVE  EnvOf(t, c)[s] = [n \in Names |-> MeantIn(t, s - 1, n)]
BY DEF EnvOf

(* In a scope of which nothing can be seen no name means anything.        *)
LEMMA NothingMeant ==
  ASSUME NEW t, NEW scope, \A i \in DOMAIN t : t[i].block # Over => t[i].scope # scope
  PROVE  [n \in Names |-> MeantIn(t, scope, n)] = Environments!NoNames
<1>1. \A n : DeclaredIn(t, scope, n) = {}
  BY DEF DeclaredIn, VisibleIn
<1>2. QED BY <1>1 DEF MeantIn, Environments!NoNames

(* A scope that opens is empty.                                           *)
LEMMA EnvDeeper ==
  ASSUME NEW t \in Seq(EntryType), NEW c \in Nat,
         \A i \in DOMAIN t : t[i].block # Over => t[i].scope <= c
  PROVE  EnvOf(t, c + 1) = Append(EnvOf(t, c), Environments!NoNames)
<1>1. PICK E, F, G, none : /\ E = EnvOf(t, c) /\ F = EnvOf(t, c + 1) /\ none = Environments!NoNames
                           /\ G = Append(E, none)
  OBVIOUS
<1>2. E \in Seq([Names -> Nat]) /\ Len(E) = c + 1 /\ F \in Seq([Names -> Nat]) /\ Len(F) = c + 2
  <2>1. c + 1 \in Nat /\ c + 1 + 1 = c + 2
    OBVIOUS
  <2>2. QED BY <1>1, <2>1, EnvType
<1>3. none \in [Names -> Nat]
  BY <1>1 DEF Environments!NoNames
<1>4. /\ G \in Seq([Names -> Nat]) /\ Len(G) = c + 2 /\ G[c + 2] = none
      /\ \A s \in 1 .. c + 1 : G[s] = E[s]
  <2>1. /\ G \in Seq([Names -> Nat]) /\ Len(G) = Len(E) + 1 /\ G[Len(E) + 1] = none
        /\ \A s \in 1 .. Len(E) : G[s] = E[s]
    BY <1>1, <1>2, <1>3, AppendProperties
  <2>2. c + 1 + 1 = c + 2
    OBVIOUS
  <2>3. QED BY <1>2, <2>1, <2>2
<1>5. ASSUME NEW s \in 1 .. c + 1
      PROVE  F[s] = G[s]
  <2>1. E[s] = [n \in Names |-> MeantIn(t, s - 1, n)]
    BY <1>1, EnvOfScope
  <2>2. c + 1 \in Nat /\ s \in 1 .. c + 1 + 1
    OBVIOUS
  <2>3. F[s] = [n \in Names |-> MeantIn(t, s - 1, n)]
    BY <1>1, <2>2, EnvOfScope
  <2>4. QED BY <1>4, <2>1, <2>3
<1>6. F[c + 2] = G[c + 2]
  <2>1. c + 1 \in Nat /\ c + 2 \in 1 .. c + 1 + 1 /\ c + 2 - 1 = c + 1
    OBVIOUS
  <2>2. F[c + 2] = [n \in Names |-> MeantIn(t, c + 1, n)]
    BY <1>1, <2>1, EnvOfScope
  <2>3. \A i \in DOMAIN t : t[i].block # Over => t[i].scope # c + 1
    <3>1. \A i \in DOMAIN t : t[i].scope \in Nat
      <4>1. \A i \in DOMAIN t : t[i] \in EntryType
        OBVIOUS
      <4>2. QED BY <4>1 DEF EntryType
    <3>2. QED BY <3>1
  <2>4. [n \in Names |-> MeantIn(t, c + 1, n)] = none
    BY <1>1, <2>3, NothingMeant
  <2>5. QED BY <1>4, <2>2, <2>4
<1>7. \A s \in 1 .. c + 2 : s \in 1 .. c + 1 \/ s = c + 2
  OBVIOUS
<1>8. \A s \in 1 .. c + 2 : F[s] = G[s]
  BY <1>5, <1>6, <1>7
<1>9. F = G
  BY <1>2, <1>4, <1>8
<1>10. QED BY <1>1, <1>9

(* A block opens: its scope is empty.                                     *)
LEMMA OpenBlockMaps ==
  ASSUME Lexical, Environments!Scoped, OpenBlock
  PROVE  Environments!Open
<1>1. /\ table' = table /\ checkScope' = checkScope + 1 /\ last'.found = 0
  BY DEF OpenBlock, Nothing
<1>2. table \in Seq(EntryType) /\ checkScope \in Nat /\ Env = EnvOf(table, checkScope)
  BY LexicalIs
<1>3. ASSUME NEW i \in DOMAIN table, table[i].block # Over
      PROVE  table[i].scope <= checkScope
  BY <1>3, VisibleIs DEF Lexical, TableInv
<1>4. EnvOf(table, checkScope + 1) = Append(EnvOf(table, checkScope), Environments!NoNames)
  BY <1>2, <1>3, EnvDeeper
<1>5. Env' = Append(Env, Environments!NoNames)
  BY <1>1, <1>2, <1>4, EnvIs
<1>6. QED BY <1>1, <1>5 DEF Environments!Open

(* A scope that closes takes its environment along, and no other.         *)
LEMMA EnvShorter ==
  ASSUME NEW t \in Seq(EntryType), NEW u \in Seq(EntryType), NEW c \in Nat, NEW d \in Nat, d <= c,
         \A s \in 0 .. d : \A n \in Names : DeclaredIn(u, s, n) = DeclaredIn(t, s, n)
  PROVE  EnvOf(u, d) = SubSeq(EnvOf(t, c), 1, d + 1)
<1>1. PICK E, F, G : E = EnvOf(t, c) /\ F = EnvOf(u, d) /\ G = SubSeq(E, 1, d + 1)
  OBVIOUS
<1>2. E \in Seq([Names -> Nat]) /\ Len(E) = c + 1 /\ F \in Seq([Names -> Nat]) /\ Len(F) = d + 1
  BY <1>1, EnvType
<1>3. G \in Seq([Names -> Nat]) /\ Len(G) = d + 1 /\ \A s \in 1 .. d + 1 : G[s] = E[s]
  BY <1>1, <1>2
<1>4. ASSUME NEW s \in 1 .. d + 1
      PROVE  F[s] = G[s]
  <2>1. s \in 1 .. c + 1 /\ s - 1 \in 0 .. d
    OBVIOUS
  <2>2. E[s] = [n \in Names |-> MeantIn(t, s - 1, n)]
    BY <1>1, <2>1, EnvOfScope
  <2>3. F[s] = [n \in Names |-> MeantIn(u, s - 1, n)]
    BY <1>1, EnvOfScope
  <2>4. \A n \in Names : MeantIn(u, s - 1, n) = MeantIn(t, s - 1, n)
    BY <2>1 DEF MeantIn
  <2>5. [n \in Names |-> MeantIn(u, s - 1, n)] = [n \in Names |-> MeantIn(t, s - 1, n)]
    BY ONLY <2>4
  <2>6. QED BY <1>3, <2>2, <2>3, <2>5
<1>5. F = G
  BY <1>2, <1>3, <1>4
<1>6. QED BY <1>1, <1>5

(* exit_scope: what is declared farther out stays so.                     *)
LEMMA ClosesMaps ==
  ASSUME Lexical, Environments!Scoped, Closes
  PROVE  Environments!Close
<1> DEFINE k == IF open[Block].kind = "function" THEN 2 ELSE 1
           d == checkScope - k
<1>1. /\ checkScope' = d /\ last'.found = 0 /\ open # << >> /\ table' = Ends(Leaving(table))
  BY LexicalIs DEF Closes, Nothing, FunctionScopes
<1>2. /\ version = "phases4_5" /\ table \in Seq(EntryType) /\ TableAs(table, open)
      /\ checkScope \in Nat /\ Env = EnvOf(table, checkScope) /\ Len(Env) = checkScope + 1
  BY LexicalIs
<1>3. Block \in Nat /\ Block # 0 /\ Block # Over /\ OpenInv
  BY <1>1, HereIs DEF Lexical, OpenInv
<1>4. d \in Nat /\ d < checkScope /\ k \in {1, 2}
  <2>1. PICK b \in Nat : Block = b + 1
    <3>1. Block - 1 \in Nat /\ Block = (Block - 1) + 1
      BY <1>3
    <3>2. QED BY <3>1
  <2>2. DepthAt(open, Block) = DepthAt(open, b) + k
    BY <1>2, <1>3, <2>1, OneMoreOpen DEF FunctionScopes, OpenInv
  <2>3. DepthAt(open, b) \in Nat
    BY <1>3, <2>1, Deeper DEF OpenInv
  <2>4. checkScope = DepthAt(open, Block)
    BY <1>3, HereIs
  <2>5. QED BY <2>2, <2>3, <2>4
<1>5. \A i \in 1 .. Len(table) : EntryAt(table[i], open)
  BY <1>2 DEF TableAs
<1>6. Ending(table, table')
  BY <1>1, <1>2, <1>3, <1>5, EndsAre
<1>7. /\ table' \in Seq(EntryType) /\ Len(table') = Len(table)
  BY <1>2, <1>6 DEF Ending
<1>8. ASSUME NEW i \in 1 .. Len(table)
      PROVE  /\ table'[i].name = table[i].name /\ table'[i].scope = table[i].scope
             /\ table'[i].block # Over <=> table[i].block \notin {Over, Block}
             /\ table[i].block = Block => table[i].scope > d
  <2>1. PICK e, f : e = table[i] /\ f = table'[i]
    OBVIOUS
  <2>2. EntryAt(e, open) /\ e \in EntryType
    BY <1>5, <2>1 DEF EntryAt
  <2>3. PICK a \in BOOLEAN : f = AfterEnd(e, a)
    BY <1>2, <1>6, <1>7, <2>1 DEF Ending
  <2>4. f.name = e.name /\ f.scope = e.scope /\ f.block = Ended(e.block)
    BY <1>3, <2>2, <2>3, AfterEndIs
  <2>5. f.block # Over <=> e.block \notin {Over, Block}
    BY <2>4 DEF Ended
  <2>6. e.block = Block => e.scope > d
    <3>1. /\ e.scope \in Nat
          /\ e.block = Block => e.scope = checkScope \/ (open[Block].kind = "function" /\ e.scope = checkScope - 1)
      BY <1>3, <2>2, ScopeIs
    <3>2. CASE open[Block].kind = "function"
      <4>1. d = checkScope - 2
        BY <3>2
      <4>2. QED BY <1>2, <3>1, <4>1
    <3>3. CASE open[Block].kind # "function"
      <4>1. d = checkScope - 1
        BY <3>3
      <4>2. QED BY <1>2, <3>1, <3>3, <4>1
    <3>4. QED BY <3>2, <3>3
  <2>7. QED BY <2>1, <2>4, <2>5, <2>6
<1>9. ASSUME NEW s \in 0 .. d, NEW n \in Names
      PROVE  DeclaredIn(table', s, n) = DeclaredIn(table, s, n)
  <2>1. DOMAIN table' = DOMAIN table /\ DOMAIN table = 1 .. Len(table)
    BY <1>2, <1>7
  <2>2. \A i \in DOMAIN table : table[i].scope = s => table[i].block # Block
    BY <1>4, <1>8, <2>1
  <2>3. \A i : i \in DeclaredIn(table', s, n) <=> i \in DeclaredIn(table, s, n)
    BY <1>8, <2>1, <2>2 DEF DeclaredIn, VisibleIn
  <2>4. QED BY ONLY <2>3 DEF DeclaredIn, VisibleIn
<1>10. EnvOf(table', d) = SubSeq(EnvOf(table, checkScope), 1, d + 1)
  <2>1. d <= checkScope
    BY <1>2, <1>4
  <2> HIDE DEF d
  <2>2. QED BY ONLY <1>2, <1>4, <1>7, <1>9, <2>1, EnvShorter
<1>11. Env' = SubSeq(Env, 1, Len(Env) - k) /\ k < Len(Env)
  <2>1. Len(Env) - k = d + 1
    BY <1>2, <1>4
  <2>2. QED BY <1>1, <1>2, <1>4, <1>10, <2>1, EnvIs
<1>12. QED BY <1>1, <1>4, <1>7, <1>11 DEF Environments!Close

-----------------------------------------------------------------------------
(* The formal arguments: none is a library function, and no name is twice   *)
(* among them.                                                              *)
ProperArguments(t, new) ==
  /\ ArgumentsBehind(t, new)
  /\ \A i \in Len(t) + 1 .. Len(new) : new[i].name \in Names \ Library
  /\ \A i, j \in Len(t) + 1 .. Len(new) : new[i].name = new[j].name => i = j

(* They stand on one line.                                                *)
OnLine(t, new, line) == \A i \in Len(t) + 1 .. Len(new) : new[i].line = line

(* What stands where in a table with arguments behind it.                 *)
LEMMA ArgumentsApart ==
  ASSUME NEW t \in Seq(EntryType), NEW new, ArgumentsBehind(t, new)
  PROVE  /\ new \in Seq(EntryType) /\ DOMAIN new = 1 .. Len(new) /\ DOMAIN t = 1 .. Len(t)
         /\ Len(t) \in Nat /\ Len(new) \in Nat /\ Len(t) <= Len(new)
         /\ \A i \in DOMAIN t : i \in DOMAIN new /\ new[i] = t[i]
         /\ \A i \in Len(t) + 1 .. Len(new) :
              /\ i \in DOMAIN new /\ i \notin DOMAIN t
              /\ new[i].type = "argument" /\ new[i].scope = checkScope + 1 /\ new[i].is_active
              /\ new[i].block = Block + 1 /\ new[i].owner = Block + 1
         /\ \A i \in DOMAIN new : i \in DOMAIN t \/ i \in Len(t) + 1 .. Len(new)
<1>1. /\ new \in Seq(EntryType) /\ Len(t) <= Len(new)
      /\ \A i \in 1 .. Len(t) : new[i] = t[i]
      /\ \A i \in Len(t) + 1 .. Len(new) : IsArgument(new[i], i - Len(t))
  BY DEF ArgumentsBehind
<1>2. DOMAIN new = 1 .. Len(new) /\ DOMAIN t = 1 .. Len(t) /\ Len(t) \in Nat /\ Len(new) \in Nat
  BY <1>1
<1>3. \A i \in DOMAIN t : i \in DOMAIN new /\ new[i] = t[i]
  BY <1>1, <1>2
<1>4. ASSUME NEW i \in Len(t) + 1 .. Len(new)
      PROVE  /\ i \in DOMAIN new /\ i \notin DOMAIN t
             /\ new[i].type = "argument" /\ new[i].scope = checkScope + 1 /\ new[i].is_active
             /\ new[i].block = Block + 1 /\ new[i].owner = Block + 1
  <2>1. i \in DOMAIN new /\ i \notin DOMAIN t
    BY <1>1, <1>2
  <2>2. IsArgument(new[i], i - Len(t))
    BY <1>1
  <2>3. QED BY <2>1, <2>2 DEF IsArgument
<1>5. \A i \in DOMAIN new : i \in DOMAIN t \/ i \in Len(t) + 1 .. Len(new)
  BY <1>1, <1>2
<1>6. QED BY <1>1, <1>2, <1>3, <1>4, <1>5

(* They are entries of the new function, behind those there were.         *)
LEMMA ArgumentsTable ==
  ASSUME OpenInv, Block < MaxOpen, NEW p \in Seq(OpenType), Len(p) = Block + 1,
         \A i \in 1 .. Block : p[i].kind = open[i].kind, p[Block + 1].kind = "function",
         NEW t, TableAs(t, open), NEW new, ArgumentsBehind(t, new)
  PROVE  TableAs(new, p)
<1>1. t \in Seq(EntryType) /\ \A i \in 1 .. Len(t) : EntryAt(t[i], open)
  BY DEF TableAs
<1>2. /\ new \in Seq(EntryType) /\ DOMAIN new = 1 .. Len(new)
      /\ \A i \in DOMAIN new : i \in DOMAIN t \/ i \in Len(t) + 1 .. Len(new)
      /\ \A i \in DOMAIN t : new[i] = t[i]
      /\ DOMAIN t = 1 .. Len(t)
  BY <1>1, ArgumentsApart
<1>3. /\ open \in Seq(OpenType) /\ Len(open) <= Len(p)
      /\ \A i \in 1 .. Len(open) : open[i].kind = p[i].kind
  BY HereIs DEF OpenInv
<1>4. ASSUME NEW i \in 1 .. Len(t)
      PROVE  EntryAt(t[i], p)
  <2>1. EntryAt(t[i], open)
    BY <1>1
  <2>2. QED BY ONLY <1>3, <2>1, p \in Seq(OpenType), EntryKept
<1>5. ASSUME NEW i \in Len(t) + 1 .. Len(new)
      PROVE  EntryAt(new[i], p)
  <2>1. IsArgument(new[i], i - Len(t))
    BY DEF ArgumentsBehind
  <2>2. PICK e, k : e = new[i] /\ k = i - Len(t) /\ IsArgument(e, k)
    BY <2>1
  <2>3. EntryAt(e, p)
    BY <2>2, ArgumentAt
  <2>4. QED BY <2>2, <2>3
<1>6. ASSUME NEW i \in 1 .. Len(new)
      PROVE  EntryAt(new[i], p)
  BY <1>2, <1>4, <1>5
<1>7. QED BY <1>2, <1>6 DEF TableAs

(* They are no library functions, and no temporaries.                     *)
LEMMA ArgumentsNamed ==
  ASSUME NEW t \in Seq(EntryType), NEW n, NamesAs(t, n), NEW new, ProperArguments(t, new)
  PROVE  NamesAs(new, n)
<1>1. ArgumentsBehind(t, new)
  BY DEF ProperArguments
<1>2. /\ \A i \in DOMAIN t : i \in DOMAIN new /\ new[i] = t[i]
      /\ \A i \in Len(t) + 1 .. Len(new) : new[i].type = "argument"
      /\ \A i \in DOMAIN new : i \in DOMAIN t \/ i \in Len(t) + 1 .. Len(new)
  BY <1>1, ArgumentsApart
<1>3. \A i \in Len(t) + 1 .. Len(new) :
        /\ new[i].name \notin Library
        /\ \A k \in DOMAIN TempNames : new[i].name # TempNames[k]
  BY ScopesAssumption DEF ProperArguments
<1>4. QED BY <1>2, <1>3 DEF NamesAs

(* One round of the loop over the formal arguments: a name is taken once. *)
LEMMA OneArgumentProper ==
  ASSUME OpenInv, version = "phases4_5", Block < MaxOpen,
         NEW p \in Seq(OpenType), Len(p) = Block + 1,
         \A i \in 1 .. Block : p[i].kind = open[i].kind, p[Block + 1].kind = "function",
         NEW t, TableAs(t, open), NEW n, NamesAs(t, n),
         \A i \in 1 .. Len(t) : t[i].owner # Block + 1,
         NEW line \in Nat, NEW new, ProperArguments(t, new), OnLine(t, new, line),
         NEW name \in Names, NEW more, more = WithArgument(new, name, line)
  PROVE  ProperArguments(t, more) /\ OnLine(t, more, line)
<1>1. CASE ~Accepted(new, name, line)
  BY <1>1 DEF WithArgument
<1>2. CASE Accepted(new, name, line)
  <2>1. PICK e : e = Argument(new, name, line)
    OBVIOUS
  <2>2. more = Append(new, e) /\ Insertable(version, new, e)
    BY <1>2, <2>1 DEF WithArgument, Accepted
  <2>3. /\ e.name = name /\ e.type = "argument" /\ e.scope = checkScope + 1
        /\ e.owner = Block + 1 /\ e.line = line
    BY <2>1 DEF Argument
  <2>4. t \in Seq(EntryType) /\ ArgumentsBehind(t, new) /\ Block \in Nat /\ checkScope \in Nat
    BY HereIs DEF TableAs, ProperArguments
  <2>5. ArgumentsBehind(t, more) /\ Len(more) <= Len(new) + 1
    BY <2>4, OneArgumentMore
  <2>6. /\ new \in Seq(EntryType) /\ DOMAIN new = 1 .. Len(new) /\ DOMAIN t = 1 .. Len(t)
        /\ Len(t) \in Nat /\ Len(new) \in Nat /\ Len(t) <= Len(new)
        /\ \A i \in DOMAIN t : i \in DOMAIN new /\ new[i] = t[i]
        /\ \A i \in Len(t) + 1 .. Len(new) :
             /\ i \in DOMAIN new
             /\ new[i].type = "argument" /\ new[i].scope = checkScope + 1 /\ new[i].is_active
             /\ new[i].line = line
        /\ \A i \in DOMAIN new : i \in DOMAIN t \/ i \in Len(t) + 1 .. Len(new)
    BY <2>4, ArgumentsApart DEF OnLine
  <2>7. TableAs(new, p) /\ NamesAs(new, n)
    BY <2>4, ArgumentsTable, ArgumentsNamed
  <2>8. name \notin Library
    BY <2>2, <2>3, <2>7, NotLibrary
  <2>9. ASSUME NEW j \in Len(t) + 1 .. Len(new), new[j].name = name
        PROVE  FALSE
    <3>1. PICK S : S = SameScope(version, new, e)
      OBVIOUS
    <3>2. \A i : i \in S <=> i \in DOMAIN new /\ new[i].name = name /\ new[i].scope = checkScope + 1
                             /\ new[i].is_active
      BY <2>3, <3>1 DEF SameScope, Active
    <3>3. j \in S
      BY <2>6, <2>9, <3>2
    <3>4. Repeatable(new, Min(S), e)
      BY <2>2, <3>1, <3>3 DEF Insertable
    <3>5. PICK m : m = Min(S)
      OBVIOUS
    <3>6. m \in S
      <4>1. S \in SUBSET Nat /\ S # {}
        BY <2>6, <3>2, <3>3
      <4>2. QED BY <3>5, <4>1, MinIs
    <3>7. new[m].type = "argument" /\ new[m].line # line
      BY <2>3, <3>4, <3>5 DEF Repeatable
    <3>8. m \in DOMAIN t /\ new[m] = t[m]
      BY <2>6, <3>2, <3>6, <3>7
    <3>9. t[m].block = Over
      <4>1. SUFFICES ASSUME t[m].block # Over PROVE FALSE
        OBVIOUS
      <4>2. t[m].scope \in Nat /\ t[m].scope <= checkScope
        BY <3>8, <4>1, VisibleIs
      <4>3. t[m].scope = checkScope + 1
        BY <3>2, <3>6, <3>8
      <4>4. QED BY <2>4, <4>2, <4>3
    <3>10. t[m].type = "userfunc"
      <4>1. t[m].is_active
        BY <3>2, <3>6, <3>8
      <4>2. QED BY <3>8, <3>9, <4>1, EntryOf
    <3>11. QED BY <3>7, <3>8, <3>10
  <2>10. /\ more \in Seq(EntryType) /\ Len(more) = Len(new) + 1
         /\ \A i \in 1 .. Len(new) : more[i] = new[i]
         /\ more[Len(new) + 1] = e
    <3>1. more \in Seq(EntryType)
      BY <2>5 DEF ArgumentsBehind
    <3>2. Len(more) = Len(new) + 1
      BY <2>2, <2>6
    <3>3. QED BY <2>2, <2>6, <3>1, <3>2
  <2>11. PICK l \in Nat, k \in Nat : l = Len(t) /\ k = Len(new) /\ l <= k /\ Len(more) = k + 1
    BY <2>6, <2>10
  <2>12. \A i \in l + 1 .. k + 1 : i \in l + 1 .. k \/ i = k + 1
    BY <2>11
  <2>13. /\ \A i \in l + 1 .. k : more[i] = new[i]
         /\ more[k + 1] = e
    BY <2>10, <2>11
  <2>14. /\ \A i \in l + 1 .. k : new[i].name \in Names \ Library /\ new[i].name # name
         /\ \A i, j \in l + 1 .. k : new[i].name = new[j].name => i = j
    BY <2>9, <2>11 DEF ProperArguments
  <2>15. ASSUME NEW i \in l + 1 .. k + 1
         PROVE  more[i].name \in Names \ Library
    BY <2>3, <2>8, <2>12, <2>13, <2>14
  <2>16. ASSUME NEW i \in l + 1 .. k + 1, NEW j \in l + 1 .. k + 1, more[i].name = more[j].name
         PROVE  i = j
    BY <2>3, <2>12, <2>13, <2>14, <2>16
  <2>17. \A i \in l + 1 .. k + 1 : more[i].line = line
    BY <2>3, <2>6, <2>11, <2>12, <2>13
  <2>18. QED BY <2>5, <2>11, <2>15, <2>16, <2>17 DEF ProperArguments, OnLine
<1>3. QED BY <1>1, <1>2

(* The loop over the formal arguments: what is left out is a library      *)
(* function, or has been there.                                           *)
LEMMA ArgumentsProper ==
  ASSUME OpenInv, version = "phases4_5", Block < MaxOpen,
         NEW p \in Seq(OpenType), Len(p) = Block + 1,
         \A i \in 1 .. Block : p[i].kind = open[i].kind, p[Block + 1].kind = "function",
         NEW t, TableAs(t, open), NEW k, NamesAs(t, k),
         \A i \in 1 .. Len(t) : t[i].owner # Block + 1,
         NEW arguments \in Seq(Names), NEW line \in Nat
  PROVE  ProperArguments(t, WithArguments(t, arguments, line))
<1> DEFINE A == CHOOSE F : F = [i \in 0 .. Len(arguments) |->
                                  IF i = 0 THEN t ELSE WithArgument(F[i - 1], arguments[i], line)]
           S == {m \in Nat : m <= Len(arguments) => ProperArguments(t, A[m]) /\ OnLine(t, A[m], line)}
<1>0. Len(arguments) \in Nat
  OBVIOUS
<1>1. A = [i \in 0 .. Len(arguments) |->
             IF i = 0 THEN t ELSE WithArgument(A[i - 1], arguments[i], line)]
  BY ONLY <1>0, ArgumentsExist
<1>2. WithArguments(t, arguments, line) = A[Len(arguments)]
  BY DEF WithArguments
<1> HIDE DEF A
<1>3. 0 \in S
  <2>1. A[0] = t
    BY <1>0, <1>1
  <2>2. t \in Seq(EntryType) /\ Len(t) \in Nat
    BY DEF TableAs
  <2>3. ~ \E i \in Len(t) + 1 .. Len(t) : TRUE
    BY <2>2
  <2>4. ProperArguments(t, t) /\ OnLine(t, t, line)
    BY <2>2, <2>3 DEF ProperArguments, ArgumentsBehind, OnLine
  <2>5. QED BY <2>1, <2>4
<1>4. ASSUME NEW m \in S
      PROVE  m + 1 \in S
  <2>1. SUFFICES ASSUME m + 1 <= Len(arguments) PROVE ProperArguments(t, A[m + 1]) /\ OnLine(t, A[m + 1], line)
    OBVIOUS
  <2>2. /\ m \in Nat /\ m + 1 \in 1 .. Len(arguments)
        /\ ProperArguments(t, A[m]) /\ OnLine(t, A[m], line)
    BY <1>0, <2>1
  <2>3. A[m + 1] = WithArgument(A[m], arguments[m + 1], line)
    BY <1>1, <2>2, SMTT(30)
  <2>4. arguments[m + 1] \in Names
    BY <2>2
  <2>5. PICK new, name, more : /\ new = A[m] /\ name = arguments[m + 1] /\ more = A[m + 1]
    OBVIOUS
  <2>6. /\ name \in Names /\ ProperArguments(t, new) /\ OnLine(t, new, line)
        /\ more = WithArgument(new, name, line)
    BY <2>2, <2>3, <2>4, <2>5
  <2>7. ProperArguments(t, more) /\ OnLine(t, more, line)
    BY <2>6, OneArgumentProper
  <2>8. QED BY <2>5, <2>7
<1>5. S = Nat
  <2> HIDE DEF S
  <2>1. S \in SUBSET Nat
    BY DEF S
  <2>2. QED BY <1>3, <1>4, <2>1, Induction
<1>6. Len(arguments) \in S
  BY <1>0, <1>5
<1>7. QED BY <1>0, <1>2, <1>6

(* The environments of a function's arguments and of its block.           *)
FunctionEnv(t, u) ==
  \E a \in [Names -> {0} \cup (Len(t) + 1 .. Len(u))] :
    /\ EnvOf(u, checkScope + 2) = EnvOf(t, checkScope) \o <<a, Environments!NoNames>>
    /\ \A i \in Len(t) + 1 .. Len(u) : \E n \in Names \ Library : a[n] = i
    /\ \A n, m \in Names : a[n] # 0 /\ a[n] = a[m] => n = m

(* The environments of a function and of its block.                       *)
LEMMA EnvFunction ==
  ASSUME OpenInv, Block < MaxOpen, version = "phases4_5",
         NEW t, TableAs(t, open), NEW u, ProperArguments(t, u)
  PROVE  FunctionEnv(t, u)
<1> PICK a : a = [n \in Names |-> MeantIn(u, checkScope + 1, n)]
  OBVIOUS
<1>1. t \in Seq(EntryType) /\ ArgumentsBehind(t, u) /\ checkScope \in Nat /\ Block \in Nat
  BY HereIs DEF TableAs, ProperArguments
<1>2. /\ u \in Seq(EntryType) /\ DOMAIN u = 1 .. Len(u) /\ DOMAIN t = 1 .. Len(t)
      /\ Len(t) \in Nat /\ Len(u) \in Nat /\ Len(t) <= Len(u)
      /\ \A i \in DOMAIN t : i \in DOMAIN u /\ u[i] = t[i]
      /\ \A i \in Len(t) + 1 .. Len(u) :
           /\ i \in DOMAIN u /\ i \notin DOMAIN t
           /\ u[i].scope = checkScope + 1 /\ u[i].block = Block + 1
      /\ \A i \in DOMAIN u : i \in DOMAIN t \/ i \in Len(t) + 1 .. Len(u)
  BY <1>1, ArgumentsApart
<1>3. PICK c \in Nat : c = checkScope
  BY <1>1
<1>4. Block + 1 # Over
  BY <1>1, OverIs
<1>5. ASSUME NEW i \in DOMAIN t, t[i].block # Over
      PROVE  t[i].scope \in Nat /\ t[i].scope <= c
  BY <1>3, <1>5, VisibleIs
<1>6. ASSUME NEW s \in 0 .. c, NEW n \in Names
      PROVE  DeclaredIn(u, s, n) = DeclaredIn(t, s, n)
  <2>1. \A i \in Len(t) + 1 .. Len(u) : u[i].scope # s
    BY <1>2, <1>3
  <2>2. \A i : i \in DeclaredIn(u, s, n) <=> i \in DeclaredIn(t, s, n)
    BY <1>2, <2>1 DEF DeclaredIn, VisibleIn
  <2>3. QED BY ONLY <2>2 DEF DeclaredIn, VisibleIn
<1>7. ASSUME NEW n, NEW i
      PROVE  i \in DeclaredIn(u, c + 1, n) <=> i \in Len(t) + 1 .. Len(u) /\ u[i].name = n
  <2>1. \A j \in DOMAIN t : t[j].block # Over => t[j].scope # c + 1
    BY <1>5
  <2>2. QED BY <1>2, <1>3, <1>4, <2>1 DEF DeclaredIn, VisibleIn
<1>8. \A i \in DOMAIN u : u[i].block # Over => u[i].scope # c + 2
  BY <1>2, <1>3, <1>5
<1>9. /\ \A i \in Len(t) + 1 .. Len(u) : u[i].name \in Names \ Library
      /\ \A i, j \in Len(t) + 1 .. Len(u) : u[i].name = u[j].name => i = j
  BY DEF ProperArguments
<1>10. ASSUME NEW n \in Names
       PROVE  /\ a[n] \in {0} \cup (Len(t) + 1 .. Len(u))
              /\ a[n] # 0 => u[a[n]].name = n
              /\ \A i \in Len(t) + 1 .. Len(u) : u[i].name = n => a[n] = i
  <2>1. PICK m : m = MeantIn(u, c + 1, n)
    OBVIOUS
  <2>2. /\ m = 0 <=> DeclaredIn(u, c + 1, n) = {}
        /\ m # 0 => m \in DeclaredIn(u, c + 1, n)
    BY <1>2, <2>1, MeantIs
  <2>3. a[n] = m
    BY <1>3, <2>1
  <2>4. m # 0 => m \in Len(t) + 1 .. Len(u) /\ u[m].name = n
    BY <1>7, <2>2
  <2>5. ASSUME NEW i \in Len(t) + 1 .. Len(u), u[i].name = n
        PROVE  m = i
    <3>1. i \in DeclaredIn(u, c + 1, n)
      BY <1>7, <2>5
    <3>2. m # 0
      BY <2>2, <3>1
    <3>3. QED BY <1>9, <2>4, <2>5, <3>2
  <2>6. QED BY <2>3, <2>4, <2>5
<1>11. a \in [Names -> {0} \cup (Len(t) + 1 .. Len(u))]
  BY <1>10
<1>12. ASSUME NEW i \in Len(t) + 1 .. Len(u)
       PROVE  \E n \in Names \ Library : a[n] = i
  <2>1. u[i].name \in Names \ Library
    BY <1>9
  <2>2. a[u[i].name] = i
    BY <1>10, <2>1
  <2>3. QED BY <2>1, <2>2
<1>13. ASSUME NEW n \in Names, NEW m \in Names, a[n] # 0, a[n] = a[m]
       PROVE  n = m
  BY <1>10, <1>13
<1>14. PICK E, F, G, none : /\ E = EnvOf(t, c) /\ F = EnvOf(u, c + 2)
                            /\ none = Environments!NoNames /\ G = E \o <<a, none>>
  OBVIOUS
<1>15. E \in Seq([Names -> Nat]) /\ Len(E) = c + 1 /\ F \in Seq([Names -> Nat]) /\ Len(F) = c + 3
  <2>1. c + 2 \in Nat /\ c + 2 + 1 = c + 3
    OBVIOUS
  <2>2. QED BY <1>1, <1>2, <1>14, <2>1, EnvType
<1>16. none \in [Names -> Nat] /\ a \in [Names -> Nat]
  BY <1>2, <1>11, <1>14 DEF Environments!NoNames
<1>17. /\ G \in Seq([Names -> Nat]) /\ Len(G) = c + 3 /\ G[c + 2] = a /\ G[c + 3] = none
       /\ \A s \in 1 .. c + 1 : G[s] = E[s]
  <2>1. PICK z : z = <<a, none>>
    OBVIOUS
  <2>2. z \in Seq([Names -> Nat]) /\ Len(z) = 2 /\ z[1] = a /\ z[2] = none
    BY <1>16, <2>1
  <2>3. /\ G \in Seq([Names -> Nat]) /\ Len(G) = Len(E) + Len(z)
        /\ \A s \in 1 .. Len(E) + Len(z) : G[s] = IF s <= Len(E) THEN E[s] ELSE z[s - Len(E)]
    BY <1>14, <1>15, <2>1, <2>2, ConcatProperties
  <2>4. Len(E) + Len(z) = c + 3
    BY <1>15, <2>2
  <2>5. \A s \in 1 .. c + 3 : G[s] = IF s <= c + 1 THEN E[s] ELSE z[s - (c + 1)]
    BY <1>15, <2>3, <2>4
  <2>6. \A s \in 1 .. c + 1 : s \in 1 .. c + 3 /\ s <= c + 1
    OBVIOUS
  <2>7. \A s \in 1 .. c + 1 : G[s] = E[s]
    BY <2>5, <2>6
  <2>8. /\ c + 2 \in 1 .. c + 3 /\ ~(c + 2 <= c + 1) /\ c + 2 - (c + 1) = 1
        /\ c + 3 \in 1 .. c + 3 /\ ~(c + 3 <= c + 1) /\ c + 3 - (c + 1) = 2
    OBVIOUS
  <2>9. G[c + 2] = z[c + 2 - (c + 1)] /\ G[c + 3] = z[c + 3 - (c + 1)]
    BY <2>5, <2>8
  <2>10. QED BY <2>2, <2>3, <2>4, <2>7, <2>8, <2>9
<1>18. ASSUME NEW s \in 1 .. c + 1
       PROVE  F[s] = G[s]
  <2>1. E[s] = [n \in Names |-> MeantIn(t, s - 1, n)]
    BY <1>14, EnvOfScope
  <2>2. c + 2 \in Nat /\ s \in 1 .. c + 2 + 1 /\ s - 1 \in 0 .. c
    OBVIOUS
  <2>3. F[s] = [n \in Names |-> MeantIn(u, s - 1, n)]
    BY <1>14, <2>2, EnvOfScope
  <2>4. \A n \in Names : MeantIn(u, s - 1, n) = MeantIn(t, s - 1, n)
    BY <1>6, <2>2 DEF MeantIn
  <2>5. [n \in Names |-> MeantIn(u, s - 1, n)] = [n \in Names |-> MeantIn(t, s - 1, n)]
    BY ONLY <2>4
  <2>6. QED BY <1>17, <2>1, <2>3, <2>5
<1>19. F[c + 2] = G[c + 2] /\ F[c + 3] = G[c + 3]
  <2>1. c + 2 \in Nat /\ c + 2 \in 1 .. c + 2 + 1 /\ c + 3 \in 1 .. c + 2 + 1
        /\ c + 2 - 1 = c + 1 /\ c + 3 - 1 = c + 2
    OBVIOUS
  <2>2. F[c + 2] = [n \in Names |-> MeantIn(u, c + 2 - 1, n)]
    <3>1. PICK m \in Nat : m = c + 2 /\ m \in 1 .. m + 1 /\ F = EnvOf(u, m)
      BY <1>14, <2>1
    <3>2. F[m] = [n \in Names |-> MeantIn(u, m - 1, n)]
      BY <3>1, EnvOfScope
    <3>3. QED BY <3>1, <3>2
  <2>5. F[c + 3] = [n \in Names |-> MeantIn(u, c + 3 - 1, n)]
    BY <1>14, <2>1, EnvOfScope
  <2>3. [n \in Names |-> MeantIn(u, c + 2, n)] = none
    BY <1>8, <1>14, NothingMeant
  <2>4. QED BY <1>3, <1>17, <2>1, <2>2, <2>3, <2>5
<1>20. \A s \in 1 .. c + 3 : s \in 1 .. c + 1 \/ s = c + 2 \/ s = c + 3
  OBVIOUS
<1>21. \A s \in 1 .. c + 3 : F[s] = G[s]
  BY <1>18, <1>19, <1>20
<1>22. F = G
  <2>1. /\ F \in Seq([Names -> Nat]) /\ G \in Seq([Names -> Nat]) /\ Len(F) = Len(G)
        /\ \A s \in 1 .. Len(F) : F[s] = G[s]
    BY <1>15, <1>17, <1>21
  <2>2. QED BY ONLY <2>1, SeqEqual
<1>23. EnvOf(u, checkScope + 2) = EnvOf(t, checkScope) \o <<a, Environments!NoNames>>
  BY <1>3, <1>14, <1>22
<1>24. QED BY ONLY <1>11, <1>12, <1>13, <1>23 DEF FunctionEnv

(* One entry more that is no library function, and at most the last        *)
(* temporary.                                                             *)
LEMMA NamesMore ==
  ASSUME NEW t \in Seq(EntryType), NEW n \in Nat, NEW m \in Nat, n <= m, NamesAs(t, n),
         NEW e \in EntryType, e.name \notin Library, e.type # "libfunc",
         \A k \in DOMAIN TempNames : e.name = TempNames[k] => k <= m
  PROVE  NamesAs(Append(t, e), m)
<1>1. PICK u : u = Append(t, e)
  OBVIOUS
<1>2. /\ Len(t) \in Nat /\ DOMAIN t = 1 .. Len(t) /\ DOMAIN u = 1 .. Len(t) + 1
      /\ (\A i \in 1 .. Len(t) : u[i] = t[i]) /\ u[Len(t) + 1] = e
  BY <1>1, AppendProperties
<1>3. /\ \A i \in DOMAIN t : i \in DOMAIN u /\ u[i] = t[i]
      /\ \A i \in DOMAIN u : i \in DOMAIN t \/ u[i] = e
  BY <1>2
<1>4. ASSUME NEW i \in DOMAIN u, NEW k \in DOMAIN TempNames, u[i].name = TempNames[k]
      PROVE  k <= m
  <2>1. CASE i \in DOMAIN t
    <3>1. t[i].name = TempNames[k]
      BY <1>3, <1>4, <2>1
    <3>2. k <= n
      BY <2>1, <3>1 DEF NamesAs
    <3>3. DOMAIN TempNames \subseteq Nat
      BY ScopesAssumption
    <3>4. k \in Nat
      BY <3>3
    <3>5. QED BY <3>2, <3>4
  <2>2. CASE u[i] = e
    BY <1>4, <2>2
  <2>3. QED BY <1>3, <2>1, <2>2
<1>5. \A name \in Library : \E i \in DOMAIN u : u[i].name = name /\ u[i].type = "libfunc"
  BY <1>3 DEF NamesAs
<1>6. \A i \in DOMAIN u : u[i].name \in Library <=> u[i].type = "libfunc"
  BY <1>3 DEF NamesAs
<1>7. NamesAs(u, m)
  BY ONLY <1>4, <1>5, <1>6 DEF NamesAs
<1>8. QED BY <1>1, <1>7

(* What is known of the names of the final compiler. *)
Named ==
  /\ OpenInv /\ TableInv
  /\ version = "phases4_5" /\ NamesAs(table, tempcounter)

(* The entry of a function: no library function's name is taken again.    *)
LEMMA FunctionTaken ==
  ASSUME Named, Block < MaxOpen, NEW name \in Names \cup {"$"}, NEW t, t = WithFunction(name)
  PROVE  TableAs(t, open) /\ NamesAs(t, tempcounter)
<1>1. /\ OpenInv /\ TableAs(table, open) /\ table \in Seq(EntryType)
      /\ version = "phases4_5" /\ NamesAs(table, tempcounter) /\ tempcounter \in Nat
  BY DEF Named, TableInv, TableAs, OpenInv
<1>2. PICK e : e = Entry(name, "userfunc")
  OBVIOUS
<1>3. EntryAt(e, open) /\ e.name = name /\ e.type = "userfunc"
  <2>1. name \in AnyName /\ "userfunc" \in Types
    BY DEF AnyName, Types, Functions
  <2>2. QED BY <1>1, <1>2, <2>1, EntryNew
<1>4. e \in EntryType
  BY <1>3 DEF EntryAt
<1>5. t = IF name \in Names /\ ~Insertable(version, table, e) THEN table ELSE Append(table, e)
  BY <1>2 DEF WithFunction
<1>6. CASE t = Append(table, e) /\ (name \in Names => Insertable(version, table, e))
  <2>1. \A k \in DOMAIN TempNames : TempNames[k] \notin Names \cup {"$"}
    BY ScopesAssumption
  <2>2. e.name \notin Library
    <3>1. CASE name \in Names
      BY <1>1, <1>6, <3>1, NotLibrary
    <3>2. CASE name = "$"
      BY <1>3, <3>2, ScopesAssumption
    <3>3. QED BY <3>1, <3>2
  <2>3. e.type # "libfunc" /\ \A k \in DOMAIN TempNames : e.name = TempNames[k] => k <= tempcounter
    BY <1>3, <2>1
  <2>4. tempcounter <= tempcounter
    BY <1>1
  <2>5. NamesAs(Append(table, e), tempcounter)
    BY ONLY <1>1, <1>4, <2>2, <2>3, <2>4, NamesMore
  <2>6. /\ t \in Seq(EntryType) /\ Len(table) \in Nat /\ Len(t) = Len(table) + 1
        /\ (\A i \in 1 .. Len(table) : t[i] = table[i]) /\ t[Len(table) + 1] = e
    BY <1>1, <1>4, <1>6, AppendProperties
  <2>7. \A i \in 1 .. Len(t) : i \in 1 .. Len(table) \/ i = Len(table) + 1
    BY <2>6
  <2>8. TableAs(t, open)
    BY <1>1, <1>3, <2>6, <2>7 DEF TableAs
  <2>9. QED BY <1>6, <2>5, <2>8
<1>7. QED BY <1>1, <1>5, <1>6

(* The arguments go behind it.                                            *)
LEMMA ArgumentsHere ==
  ASSUME Named, Block < MaxOpen, NEW t, TableAs(t, open), NamesAs(t, tempcounter),
         NEW arguments \in Seq(Names), NEW line \in Nat
  PROVE  ProperArguments(t, WithArguments(t, arguments, line))
<1>1. OpenInv /\ version = "phases4_5" /\ Block < MaxOpen /\ Block \in Nat
  BY HereIs DEF Named
<1>2. PICK p : p = Append([i \in DOMAIN open |-> [open[i] EXCEPT !.hosts = @ \/ i = Owner]],
                          [kind |-> "function", hosts |-> FALSE])
  OBVIOUS
<1>3. /\ p \in Seq(OpenType) /\ Len(p) = Block + 1
      /\ \A i \in 1 .. Block : p[i].kind = open[i].kind
      /\ p[Block + 1].kind = "function"
  BY <1>1, <1>2, FunctionOnStack
<1>4. \A i \in 1 .. Len(t) : t[i].owner # Block + 1
  <2>1. ASSUME NEW i \in 1 .. Len(t)
        PROVE  t[i].owner # Block + 1
    <3>1. PICK x : x = t[i] /\ EntryAt(x, open)
      BY DEF TableAs
    <3>2. x.owner \in FunctionsIn(open, Len(open)) \cup {0, Over}
      BY <3>1 DEF EntryAt, PlacedAt
    <3>3. Block + 1 \notin FunctionsIn(open, Len(open)) /\ Block + 1 # 0
      BY <1>1, HereIs DEF FunctionsIn
    <3>4. Block + 1 # Over
      BY <1>1, OverIs
    <3>5. QED BY <3>1, <3>2, <3>3, <3>4
  <2>2. QED BY <2>1
<1>5. TableAs(t, open) /\ NamesAs(t, tempcounter) /\ arguments \in Seq(Names)
  OBVIOUS
<1>6. QED BY ONLY <1>1, <1>3, <1>4, <1>5, ArgumentsProper

(* funcdef: the function's name, then its arguments and its block.        *)
LEMMA FunctionStartMaps ==
  ASSUME Lexical, Environments!Scoped, NEW name \in Names \cup {"$"}, NEW arguments \in Formals,
         FunctionStart(name, arguments)
  PROVE  Environments!Function
<1> DEFINE named == name \in Names /\ Environments!Free(name)
           d == IF named \/ name = "$" THEN Len(table) + 1 ELSE Len(table)
           outer == IF named THEN [Env EXCEPT ![Len(Env)][name] = d] ELSE Env
<1>1. /\ OpenInv /\ TableInv /\ version = "phases4_5" /\ ScopedIn(table)
      /\ NamesAs(table, tempcounter)
  BY DEF Lexical
<1>2. /\ table \in Seq(EntryType) /\ Len(table) \in Nat /\ checkScope \in Nat
      /\ TableAs(table, open) /\ Env = EnvOf(table, checkScope) /\ Len(Env) = checkScope + 1
  BY LexicalIs
<1>3. Block \in Nat /\ Block < MaxOpen /\ Block # Over
  BY <1>1, HereIs DEF FunctionStart, Block
<1>4. PICK t, u, line : /\ t = WithFunction(name) /\ u = WithArguments(t, arguments, line)
                         /\ table' = u /\ line \in Nat
  BY LinesAre DEF FunctionStart
<1>5. /\ table' = u /\ checkScope' = checkScope + 2 /\ tempcounter' = tempcounter
      /\ last'.found = IF t = table THEN 0 ELSE Len(t)
  BY <1>1, <1>4 DEF FunctionStart, Said, FunctionScopes
<1>6. PICK e : e = Entry(name, "userfunc")
  OBVIOUS
<1>7. /\ EntryAt(e, open) /\ e.name = name /\ e.type = "userfunc" /\ e.scope = checkScope
      /\ e.block = Block
  <2>1. name \in AnyName /\ "userfunc" \in Types
    BY DEF AnyName, Types, Functions
  <2>2. QED BY <1>1, <1>6, <2>1, EntryNew
<1>8. e \in EntryType /\ e.block # Over
  BY <1>3, <1>7 DEF EntryAt
<1>9. name = "$" <=> name \notin Names
  BY ScopesAssumption
<1>10. name \in Names => (Insertable(version, table, e) <=> Environments!Free(name))
  <2>1. SUFFICES ASSUME name \in Names
                 PROVE  Insertable(version, table, e) <=> Environments!Free(name)
    OBVIOUS
  <2>2. e.type # "argument" /\ e.name # "$"
    BY <1>7, <1>9, <2>1
  <2>3. Insertable(version, table, e) <=>
          /\ e.scope # 0 => e.name \notin Library
          /\ DeclaredIn(table, e.scope, e.name) = {}
    BY <1>1, <1>2, <2>2, InsertableIs
  <2>4. QED BY <1>7, <2>1, <2>3, FreeIs
<1>11. t = IF named \/ name = "$" THEN Append(table, e) ELSE table
  <2>1. t = IF name \in Names /\ ~Insertable(version, table, e) THEN table ELSE Append(table, e)
    BY <1>4, <1>6 DEF WithFunction
  <2>2. QED BY <1>9, <1>10, <2>1
<1>12. /\ t \in Seq(EntryType) /\ Len(t) = d /\ (d = Len(table) <=> t = table)
       /\ EnvOf(t, checkScope) = outer
  <2>1. CASE named \/ name = "$"
    <3>1. t = Append(table, e) /\ d = Len(table) + 1
      BY <1>11, <2>1
    <3>2. /\ t \in Seq(EntryType) /\ Len(t) = Len(table) + 1
          /\ DOMAIN table = 1 .. Len(table) /\ DOMAIN t = 1 .. Len(table) + 1
          /\ (\A i \in 1 .. Len(table) : t[i] = table[i]) /\ t[Len(table) + 1] = e
      BY <1>2, <1>8, <3>1, AppendProperties
    <3>3. EnvOf(t, checkScope) = outer
      <4>1. CASE named
        <5>1. DeclaredIn(table, checkScope, e.name) = {} /\ e.name \in Names
          BY <1>7, <4>1, FreeIs
        <5>2. EnvOf(Append(table, e), checkScope) =
                [EnvOf(table, checkScope) EXCEPT ![checkScope + 1][e.name] = Len(table) + 1]
          BY ONLY <1>2, <1>7, <1>8, <5>1, BoundMore
        <5>3. QED BY <1>2, <1>7, <3>1, <4>1, <5>2
      <4>2. CASE ~named
        <5>1. e.name \notin Names
          BY <1>7, <1>9, <2>1, <4>2
        <5>2. EnvOf(Append(table, e), checkScope) = EnvOf(table, checkScope)
          BY ONLY <1>2, <1>8, <5>1, UnnamedMore
        <5>3. QED BY <1>2, <3>1, <4>2, <5>2
      <4>3. QED BY <4>1, <4>2
    <3>4. d # Len(table) /\ t # table
      <4>1. d = Len(table) + 1
        BY <3>1
      <4>2. Len(t) = Len(table) + 1
        BY <3>2
      <4>3. PICK k \in Nat : k = Len(table)
        BY <1>2
      <4> HIDE DEF d
      <4>4. QED BY ONLY <4>1, <4>2, <4>3
    <3>5. QED BY <3>1, <3>2, <3>3, <3>4
  <2>2. CASE ~(named \/ name = "$")
    BY <1>1, <1>2, <1>11, <2>2
  <2>3. QED BY <2>1, <2>2
<1>13. Named /\ Block < MaxOpen
  BY <1>1, <1>3 DEF Named
<1>14. TableAs(t, open) /\ NamesAs(t, tempcounter)
  BY <1>4, <1>13, FunctionTaken
<1>15. ProperArguments(t, u)
  <2>1. arguments \in Seq(Names)
    BY ScopesAssumption
  <2>2. QED BY ONLY <1>4, <1>13, <1>14, <2>1, ArgumentsHere
<1>16. Len(u) \in Nat /\ Len(t) <= Len(u)
  <2>1. ArgumentsBehind(t, u)
    BY <1>15 DEF ProperArguments
  <2>2. QED BY ONLY <1>12, <2>1, ArgumentsApart
<1>17. FunctionEnv(t, u)
  <2>1. TableAs(t, open)
    BY <1>14
  <2>2. QED BY ONLY <1>1, <1>3, <1>15, <2>1, EnvFunction
<1>18. PICK a \in [Names -> {0} \cup (Len(t) + 1 .. Len(u))] :
         /\ EnvOf(u, checkScope + 2) = EnvOf(t, checkScope) \o <<a, Environments!NoNames>>
         /\ \A i \in Len(t) + 1 .. Len(u) : \E n \in Names \ Library : a[n] = i
         /\ \A n, m \in Names : a[n] # 0 /\ a[n] = a[m] => n = m
  BY ONLY <1>17 DEF FunctionEnv
<1>19. Env' = EnvOf(u, checkScope + 2)
  BY <1>5, EnvIs
<1>20. /\ Env' = outer \o <<a, Environments!NoNames>>
       /\ a \in [Names -> {0} \cup (d + 1 .. Len(table'))]
       /\ \A i \in d + 1 .. Len(table') : \E n \in Names \ Library : a[n] = i
       /\ \A n, m \in Names : a[n] # 0 /\ a[n] = a[m] => n = m
       /\ Len(table') >= d
       /\ last'.found = IF d = Len(table) THEN 0 ELSE d
  <2> HIDE DEF d, outer
  <2>1. /\ Len(t) = d /\ (d = Len(table) <=> t = table) /\ EnvOf(t, checkScope) = outer
        /\ table' = u /\ Len(t) <= Len(u) /\ last'.found = IF t = table THEN 0 ELSE Len(t)
    BY <1>5, <1>12, <1>16
  <2>2. d \in Nat /\ Len(u) \in Nat
    BY <1>12, <1>16, <2>1
  <2>3. Len(table') >= d
    BY <2>1, <2>2
  <2>4. last'.found = IF d = Len(table) THEN 0 ELSE d
    BY ONLY <2>1
  <2>5. Env' = outer \o <<a, Environments!NoNames>>
    BY <1>18, <1>19, <2>1
  <2>6. /\ a \in [Names -> {0} \cup (d + 1 .. Len(table'))]
        /\ \A i \in d + 1 .. Len(table') : \E n \in Names \ Library : a[n] = i
    BY <1>18, <2>1
  <2>7. QED BY <1>18, <2>3, <2>4, <2>5, <2>6
<1>21. QED BY <1>20 DEF Environments!Function

-----------------------------------------------------------------------------
(* What becomes of the names as the compiler goes on. *)
NamesInv == version = "phases4_5" => NamesAs(table, tempcounter)

(* The names stay as they are; and a function that has stayed behind its    *)
(* block is there for good.                                                 *)
NamesGoOn ==
  /\ NamesAs(table', tempcounter')
  /\ ScopedIn(table') => ScopedIn(table)

(* The same table, and maybe a new entry.                                   *)
LEMMA NamesGoOnBehind ==
  ASSUME Named, NEW e \in EntryType, e.name \notin Library, e.type # "libfunc",
         table' = table \/ table' = Append(table, e),
         tempcounter' \in Nat, tempcounter <= tempcounter',
         \A k \in DOMAIN TempNames : e.name = TempNames[k] => k <= tempcounter'
  PROVE  NamesGoOn
<1>1. /\ table \in Seq(EntryType) /\ NamesAs(table, tempcounter) /\ tempcounter \in Nat
  BY DEF Named, TableInv, TableAs, OpenInv
<1>2. PICK n \in Nat, m \in Nat : n = tempcounter /\ m = tempcounter'
  BY <1>1
<1>3. CASE table' = table
  <2>1. \A k \in DOMAIN TempNames : k \in Nat
    BY ScopesAssumption
  <2>2. \A k \in DOMAIN TempNames : k <= n => k <= m
    BY <1>2, <2>1
  <2>3. NamesAs(table, m)
    BY <1>1, <1>2, <2>2 DEF NamesAs
  <2>4. QED BY <1>2, <1>3, <2>3 DEF NamesGoOn
<1>4. CASE table' = Append(table, e)
  <2>1. NamesAs(Append(table, e), m)
    BY <1>1, <1>2, NamesMore
  <2>2. \A i \in DOMAIN table : i \in DOMAIN table' /\ table'[i] = table[i]
    BY <1>1, <1>4, AppendProperties
  <2>3. ScopedIn(table') => ScopedIn(table)
    BY <2>2 DEF ScopedIn
  <2>4. QED BY <1>2, <1>4, <2>1, <2>3 DEF NamesGoOn
<1>5. QED BY <1>3, <1>4

(* insert_symbol refuses the names of library functions.                    *)
LEMMA DeclareNames ==
  ASSUME Named, NEW how, NEW name \in Names, NEW type \in {"global", "local"},
         type = "global" => checkScope = 0,
         Declare(how, Entry(name, type)), tempcounter' = tempcounter
  PROVE  NamesGoOn
<1>1. PICK e : e = Entry(name, type)
  OBVIOUS
<1>2. /\ OpenInv /\ TableAs(table, open) /\ version = "phases4_5" /\ NamesAs(table, tempcounter)
      /\ tempcounter \in Nat
  BY DEF Named, TableInv, OpenInv
<1>3. name \in AnyName /\ type \in Types /\ type # "temp"
  BY DEF AnyName, Types, Variables
<1>4. EntryAt(e, open) /\ e.name = name /\ e.type = type
  BY <1>1, <1>2, <1>3, EntryNew
<1>5. e \in EntryType /\ e.type # "libfunc"
  BY <1>4 DEF EntryAt
<1>6. \A k \in DOMAIN TempNames : e.name = TempNames[k] => k <= tempcounter'
  BY <1>4, ScopesAssumption
<1>7. IF Insertable(version, table, e) THEN table' = Append(table, e) ELSE table' = table
  BY <1>1 DEF Declare
<1>8. CASE Insertable(version, table, e)
  <2>1. e.name \notin Library
    BY <1>2, <1>8, NotLibrary
  <2>2. table' = table \/ table' = Append(table, e)
    BY <1>7
  <2>3. tempcounter' \in Nat /\ tempcounter <= tempcounter'
    BY <1>2
  <2>4. QED BY ONLY Named, <1>5, <1>6, <2>1, <2>2, <2>3, NamesGoOnBehind
<1>9. CASE ~Insertable(version, table, e)
  BY <1>2, <1>7, <1>9 DEF NamesGoOn
<1>10. QED BY <1>8, <1>9

(* Names that are declared or referred to.                                  *)
LEMMA SymbolNames ==
  ASSUME Named, NEW name \in Names, Refer(name) \/ DeclareLocal(name) \/ ReferGlobal(name)
  PROVE  NamesGoOn
<1>1. NamesAs(table, tempcounter)
  BY DEF Named
<1>2. CASE Refer(name)
  <2>1. PICK found, type : /\ found = Lookup(version, table, name, checkScope, inside_function_scope)
                           /\ type = IF checkScope = 0 THEN "global" ELSE "local"
    OBVIOUS
  <2>2. /\ IF found = 0 THEN Declare("refer", Entry(name, type)) ELSE UNCHANGED table
        /\ tempcounter' = tempcounter
    BY <1>2, <2>1 DEF Refer, Find
  <2>3. CASE found = 0
    <3>1. type \in {"global", "local"} /\ (type = "global" => checkScope = 0)
      BY <2>1
    <3>2. Declare("refer", Entry(name, type))
      BY <2>2, <2>3
    <3>3. QED BY <2>2, <3>1, <3>2, DeclareNames
  <2>4. CASE found # 0
    BY <1>1, <2>2, <2>4 DEF NamesGoOn
  <2>5. QED BY <2>3, <2>4
<1>3. CASE DeclareLocal(name)
  <2>1. Declare("local", Entry(name, "local")) /\ tempcounter' = tempcounter
    BY <1>3 DEF DeclareLocal
  <2>2. QED BY <2>1, DeclareNames
<1>4. CASE ReferGlobal(name)
  <2>1. table' = table /\ tempcounter' = tempcounter
    BY <1>4 DEF ReferGlobal
  <2>2. QED BY <1>1, <2>1 DEF NamesGoOn
<1>5. QED BY <1>2, <1>3, <1>4

(* newtemp: the counter goes on, so that no name comes again.               *)
LEMMA NewTempNames ==
  ASSUME Named, NewTemp
  PROVE  NamesGoOn
<1>1. PICK name : name = TempNames[tempcounter + 1]
  OBVIOUS
<1>2. /\ OpenInv /\ version = "phases4_5" /\ tempcounter \in Nat
  BY DEF Named, OpenInv
<1>3. tempcounter + 1 \in DOMAIN TempNames
  <2>1. Len(TempNames) \in Nat /\ tempcounter < Len(TempNames)
    BY ScopesAssumption DEF NewTemp
  <2>2. DOMAIN TempNames = 1 .. Len(TempNames)
    BY ScopesAssumption
  <2>3. QED BY <1>2, <2>1, <2>2
<1>4. name \in AnyName /\ name \notin Names
  BY <1>1, <1>3, ScopesAssumption DEF AnyName
<1>5. Declare("temp", Entry(name, "temp")) /\ tempcounter' = tempcounter + 1
  BY <1>1, <1>2 DEF NewTemp
<1>6. PICK e : e = Entry(name, "temp")
  OBVIOUS
<1>7. EntryAt(e, open) /\ e.name = name /\ e.type = "temp"
  BY <1>2, <1>4, <1>6, EntryNew DEF Types
<1>8. e \in EntryType /\ e.type # "libfunc"
  BY <1>7 DEF EntryAt
<1>9. e.name \notin Library
  BY <1>4, <1>7, ScopesAssumption
<1>10. table' = table \/ table' = Append(table, e)
  BY <1>5, <1>6 DEF Declare
<1>11. tempcounter' \in Nat /\ tempcounter <= tempcounter'
  BY <1>2, <1>5
<1>12. \A k \in DOMAIN TempNames : e.name = TempNames[k] => k <= tempcounter'
  <2>1. \A k \in DOMAIN TempNames : e.name = TempNames[k] => k = tempcounter + 1
    BY <1>1, <1>3, <1>7, ScopesAssumption
  <2>2. QED BY <1>2, <1>5, <2>1
<1>13. QED BY ONLY Named, <1>8, <1>9, <1>10, <1>11, <1>12, NamesGoOnBehind

(* exit_scope: entries keep their names, and what is over stays over.       *)
LEMMA ClosesNames ==
  ASSUME Named, Closes
  PROVE  NamesGoOn
<1>1. /\ open # << >> /\ table' = Ends(Leaving(table)) /\ tempcounter' = tempcounter
  BY DEF Closes
<1>2. /\ version = "phases4_5" /\ OpenInv /\ table \in Seq(EntryType)
      /\ NamesAs(table, tempcounter) /\ \A i \in 1 .. Len(table) : EntryAt(table[i], open)
  BY DEF Named, TableInv, TableAs
<1>3. Block \in Nat /\ Block # 0 /\ Block # Over
  BY <1>1, <1>2, HereIs DEF OpenInv
<1>4. Ending(table, table')
  BY <1>1, <1>2, <1>3, EndsAre
<1>5. /\ DOMAIN table = 1 .. Len(table) /\ DOMAIN table' = DOMAIN table
      /\ Len(table') = Len(table)
  BY <1>2, <1>4 DEF Ending
<1>6. ASSUME NEW i \in DOMAIN table
      PROVE  /\ table'[i].name = table[i].name /\ table'[i].type = table[i].type
             /\ table[i].block = Over => table'[i].block = Over
  <2>1. PICK e, f : e = table[i] /\ f = table'[i]
    OBVIOUS
  <2>2. e \in EntryType
    BY <1>2, <1>5, <2>1
  <2>3. PICK a \in BOOLEAN : f = AfterEnd(e, a)
    BY <1>2, <1>4, <1>5, <2>1 DEF Ending
  <2>4. f.name = e.name /\ f.type = e.type /\ f.block = Ended(e.block)
    BY <1>3, <2>2, <2>3, AfterEndIs
  <2>5. e.block = Over => f.block = Over
    BY <1>3, <2>4 DEF Ended
  <2>6. QED BY <2>1, <2>4, <2>5
<1>7. NamesAs(table', tempcounter')
  BY <1>1, <1>2, <1>5, <1>6 DEF NamesAs
<1>8. ScopedIn(table') => ScopedIn(table)
  BY <1>5, <1>6 DEF ScopedIn
<1>9. QED BY <1>7, <1>8 DEF NamesGoOn

(* funcdef: neither the function nor an argument is a library function.     *)
LEMMA FunctionStartNames ==
  ASSUME Named, NEW name \in Names \cup {"$"}, NEW arguments \in Formals,
         FunctionStart(name, arguments)
  PROVE  NamesGoOn
<1>1. /\ OpenInv /\ version = "phases4_5" /\ table \in Seq(EntryType)
  BY DEF Named, TableInv, TableAs
<1>2. Block \in Nat /\ Block < MaxOpen
  BY <1>1, HereIs DEF FunctionStart, Block
<1>3. PICK t, u, line : /\ t = WithFunction(name) /\ u = WithArguments(t, arguments, line)
                         /\ table' = u /\ line \in Nat
  BY LinesAre DEF FunctionStart
<1>4. table' = u /\ tempcounter' = tempcounter
  BY <1>3 DEF FunctionStart
<1>5. TableAs(t, open) /\ NamesAs(t, tempcounter)
  BY <1>2, <1>3, FunctionTaken
<1>6. ProperArguments(t, u)
  <2>1. arguments \in Seq(Names)
    BY ScopesAssumption
  <2>2. QED BY <1>2, <1>3, <1>5, <2>1, ArgumentsHere
<1>7. t \in Seq(EntryType)
  BY <1>5 DEF TableAs
<1>8. NamesAs(u, tempcounter)
  BY ONLY <1>5, <1>6, <1>7, ArgumentsNamed
<1>9. \A i \in DOMAIN t : i \in DOMAIN u /\ u[i] = t[i]
  <2>1. ArgumentsBehind(t, u)
    BY <1>6 DEF ProperArguments
  <2>2. QED BY ONLY <1>7, <2>1, ArgumentsApart
<1>10. \A i \in DOMAIN table : i \in DOMAIN t /\ t[i] = table[i]
  <2>1. PICK e : e = Entry(name, "userfunc")
    OBVIOUS
  <2>2. t = table \/ t = Append(table, e)
    BY <1>3, <2>1 DEF WithFunction
  <2>3. e \in EntryType
    <3>1. name \in AnyName /\ "userfunc" \in Types
      BY DEF AnyName, Types, Functions
    <3>2. EntryAt(e, open)
      BY <1>1, <2>1, <3>1, EntryNew
    <3>3. QED BY <3>2 DEF EntryAt
  <2>4. QED BY <1>1, <2>2, <2>3, AppendProperties
<1>11. ScopedIn(table') => ScopedIn(table)
  BY <1>4, <1>9, <1>10 DEF ScopedIn
<1>12. QED BY <1>4, <1>8, <1>11 DEF NamesGoOn

(* Either kind of end is an end.                                            *)
LEMMA EndsClose ==
  ASSUME OpenInv, CloseBlock \/ FunctionEnd
  PROVE  Closes
<1>1. CASE CloseBlock
  <2>1. Len(open) = Block /\ open[Block].kind = "block"
    BY <1>1 DEF Block, CloseBlock
  <2>2. Leaving(table) = Left(table, checkScope)
    BY <2>1 DEF Leaving
  <2>3. inside_function_depth \in Nat
    BY HereIs
  <2>4. QED BY <1>1, <2>1, <2>2, <2>3 DEF CloseBlock, Closes
<1>2. CASE FunctionEnd
  <2>1. Len(open) = Block /\ open[Block].kind = "function"
    BY <1>2 DEF Block, FunctionEnd
  <2>2. Leaving(table) = IF version = "phase2" THEN Left(table, checkScope)
                         ELSE Left(Left(table, checkScope), checkScope - 1)
    BY <2>1 DEF Leaving
  <2>3. QED BY <1>2, <2>1, <2>2 DEF FunctionEnd, Closes
<1>3. QED BY <1>1, <1>2

(* Every step.                                                              *)
LEMMA NamesStep ==
  ASSUME Named, [Next]_vars
  PROVE  NamesGoOn
<1>1. NamesAs(table, tempcounter) /\ OpenInv /\ version = "phases4_5"
  BY DEF Named
<1>2. ASSUME NEW name \in Names, Refer(name) \/ DeclareLocal(name) \/ ReferGlobal(name)
      PROVE  NamesGoOn
  BY <1>2, SymbolNames
<1>3. CASE NewTemp
  BY <1>3, NewTempNames
<1>4. CASE ResetTemp
  BY <1>1, <1>4 DEF ResetTemp
<1>5. CASE OpenBlock
  <2>1. table' = table /\ tempcounter' = tempcounter
    BY <1>5 DEF OpenBlock
  <2>2. QED BY <1>1, <2>1 DEF NamesGoOn
<1>6. CASE CloseBlock \/ FunctionEnd
  BY <1>1, <1>6, EndsClose, ClosesNames
<1>7. ASSUME NEW name \in Names \cup {"$"}, NEW arguments \in Formals, FunctionStart(name, arguments)
      PROVE  NamesGoOn
  BY <1>7, FunctionStartNames
<1>8. CASE UNCHANGED vars
  <2>1. table' = table /\ tempcounter' = tempcounter
    BY <1>8 DEF vars
  <2>2. QED BY <1>1, <2>1 DEF NamesGoOn
<1>9. QED BY <1>2, <1>3, <1>4, <1>5, <1>6, <1>7, <1>8 DEF Next

(* The program is compiled by one compiler.                                 *)
LEMMA SameVersion == [Next]_vars => version' = version
BY DEF Next, Refer, DeclareLocal, ReferGlobal, NewTemp, ResetTemp, OpenBlock, CloseBlock,
       FunctionStart, FunctionEnd, vars

(* The names of the library are there from the start.                       *)
LEMMA InitNames ==
  ASSUME Init
  PROVE  /\ NamesInv
         /\ \A i \in DOMAIN table : /\ table[i].scope = 0 /\ table[i].block = 0
                                    /\ table[i].name \in Library
         /\ \A name \in Library : \E i \in DOMAIN table : table[i].name = name
<1>1. PICK n \in Nat : n = Cardinality(Library)
  BY LibraryCounted
<1>2. PICK names : names = SetToSeq(Library)
  OBVIOUS
<1>3. names \in Surjection(1 .. n, Library)
  <2>1. IsFiniteSet(Library)
    BY ScopesAssumption
  <2>2. ExistsBijection(1 .. n, Library)
    BY <1>1, <2>1, FS_CardinalityType
  <2>3. PICK b \in [1 .. n -> Library] : \A i, j \in 1 .. n : b[i] = b[j] => i = j
    BY <2>2 DEF ExistsBijection, Bijection, Injection, IsInjective
  <2>4. \E f \in [1 .. n -> Library] : IsInjective(f)
    BY <2>3 DEF IsInjective
  <2>5. names \in [1 .. n -> Library] /\ IsInjective(names)
    BY <1>1, <1>2, <2>4 DEF SetToSeq
  <2>6. names \in Injection(1 .. n, Library)
    BY <2>5 DEF Injection, IsInjective
  <2>7. Cardinality(1 .. n) = n
    <3>1. 1 \in Int /\ n \in Int
      OBVIOUS
    <3>2. Cardinality(1 .. n) = IF 1 > n THEN 0 ELSE n - 1 + 1
      BY <3>1, FS_Interval
    <3>3. QED BY <3>2
  <2>8. QED BY <1>1, <2>1, <2>6, <2>7, FS_Injection
<1>4. names \in [1 .. n -> Library] /\ \A name \in Library : \E i \in 1 .. n : names[i] = name
  BY <1>3 DEF Surjection
<1>5. table = [i \in 1 .. n |-> LibraryEntry(i, names[i])] /\ tempcounter = 0
  BY <1>2, <1>4 DEF Init
<1>6. DOMAIN table = 1 .. n
  BY <1>5
<1>7. ASSUME NEW i \in 1 .. n
      PROVE  /\ table[i].name = names[i] /\ table[i].type = "libfunc"
             /\ table[i].scope = 0 /\ table[i].block = 0 /\ table[i].name \in Library
  <2>1. table[i] = LibraryEntry(i, names[i])
    BY <1>5
  <2>2. names[i] \in Library
    BY <1>4
  <2>3. QED BY <2>1, <2>2 DEF LibraryEntry
<1>8. \A name \in Library : \E i \in 1 .. n : table[i].name = name /\ table[i].type = "libfunc"
  BY <1>4, <1>7
<1>9. \A i \in 1 .. n : \A k \in DOMAIN TempNames : table[i].name # TempNames[k]
  BY <1>7, ScopesAssumption
<1>10. NamesAs(table, tempcounter)
  BY <1>6, <1>7, <1>8, <1>9 DEF NamesAs
<1>11. QED BY <1>6, <1>7, <1>8, <1>10 DEF NamesInv

-----------------------------------------------------------------------------
(* The refinement. *)

(* At the start there is one environment, the library's.                    *)
LEMMA InitMaps ==
  ASSUME Init
  PROVE  Environments!Init
<1>1. checkScope = 0 /\ last.found = 0 /\ TableInv /\ version \in Versions
  BY InitInv DEF Init, Nothing, ScopesInv
<1>2. PICK t \in Seq(EntryType) : t = table
  BY <1>1 DEF TableInv, TableAs
<1>3. Env = EnvOf(t, 0)
  BY <1>1, <1>2, EnvIs
<1>4. Len(Env) = 1
  <2>1. 0 \in Nat /\ 0 + 1 = 1
    OBVIOUS
  <2>2. QED BY <1>3, <2>1, EnvType
<1>5. ASSUME NEW n \in Names
      PROVE  (Env[1][n] # 0) <=> (n \in Library)
  <2>1. PICK m : m = MeantIn(t, 0, n)
    OBVIOUS
  <2>2. m = 0 <=> DeclaredIn(t, 0, n) = {}
    BY <2>1, MeantIs
  <2>3. Env[1][n] = m
    <3>1. 0 \in Nat /\ 1 \in 1 .. 0 + 1 /\ 1 - 1 = 0
      OBVIOUS
    <3>2. EnvOf(t, 0)[1][n] = MeantIn(t, 1 - 1, n)
      BY <3>1, EnvAt
    <3>3. QED BY <1>3, <2>1, <3>1, <3>2
  <2>4. 0 # Over
    BY OverIs
  <2>5. DeclaredIn(t, 0, n) # {} <=> n \in Library
    BY <1>2, <2>4, InitNames DEF DeclaredIn, VisibleIn
  <2>6. QED BY <2>2, <2>3, <2>5
<1>6. Mode \in {"scoped", "lost"}
  BY DEF Mode
<1>7. QED BY <1>1, <1>4, <1>5, <1>6 DEF Environments!Init

(* A step of the final compiler, as long as its names are scoped.           *)
LEMMA LexicalMaps ==
  ASSUME Lexical, Environments!Scoped, [Next]_vars
  PROVE  [Environments!Next]_Environments!vars
<1>1. OpenInv /\ version = "phases4_5"
  BY DEF Lexical
<1>2. ASSUME NEW name \in Names, Refer(name) \/ DeclareLocal(name) \/ ReferGlobal(name)
      PROVE  Environments!Next
  <2>1. Environments!Refer \/ Environments!Local \/ Environments!ReferGlobal
    BY <1>2, ReferMaps, DeclareLocalMaps, ReferGlobalMaps
  <2>2. QED BY <2>1 DEF Environments!Next
<1>3. CASE NewTemp
  <2>1. Environments!Unnamed
    BY <1>3, NewTempMaps
  <2>2. QED BY <2>1 DEF Environments!Next
<1>4. CASE ResetTemp
  BY <1>1, <1>4 DEF ResetTemp
<1>5. CASE OpenBlock
  <2>1. Environments!Open
    BY <1>5, OpenBlockMaps
  <2>2. QED BY <2>1 DEF Environments!Next
<1>6. CASE CloseBlock \/ FunctionEnd
  <2>1. Environments!Close
    BY <1>1, <1>6, EndsClose, ClosesMaps
  <2>2. QED BY <2>1 DEF Environments!Next
<1>7. ASSUME NEW name \in Names \cup {"$"}, NEW arguments \in Formals, FunctionStart(name, arguments)
      PROVE  Environments!Next
  <2>1. Environments!Function
    BY <1>7, FunctionStartMaps
  <2>2. QED BY <2>1 DEF Environments!Next
<1>8. CASE UNCHANGED vars
  <2>1. table' = table /\ checkScope' = checkScope /\ last' = last /\ version' = version
    BY <1>8 DEF vars, scopes
  <2>2. Env' = Env /\ Mode' = Mode
    BY <2>1, EnvIs, ModeIs
  <2>3. QED BY <2>1, <2>2 DEF Environments!vars
<1>9. QED BY <1>2, <1>3, <1>4, <1>5, <1>6, <1>7, <1>8 DEF Next

(* Every step of any of the compilers: what is lost is not found again.     *)
LEMMA StepMaps ==
  ASSUME ScopesInv, NamesInv, [Next]_vars
  PROVE  NamesInv' /\ [Environments!Next]_Environments!vars
<1>1. version' = version
  BY SameVersion
<1>2. CASE version # "phases4_5"
  <2>1. Mode' = "lost"
    BY <1>1, <1>2, ModeIs
  <2>2. NamesInv'
    BY <1>1, <1>2 DEF NamesInv
  <2>3. QED BY <2>1, <2>2 DEF Environments!Next, Environments!Lose
<1>3. CASE version = "phases4_5"
  <2>1. Named
    BY <1>3 DEF ScopesInv, NamesInv, Named
  <2>2. NamesGoOn
    BY <2>1, NamesStep
  <2>3. NamesInv'
    BY <2>2 DEF NamesInv, NamesGoOn
  <2>4. CASE ScopedIn(table')
    <3>1. ScopedIn(table)
      BY <2>2, <2>4 DEF NamesGoOn
    <3>2. Lexical
      BY <2>1, <3>1 DEF Named, Lexical
    <3>3. Environments!Scoped
      BY <1>1, <1>3, <2>4, <3>1, ModeIs DEF Environments!Scoped
    <3>4. QED BY <2>3, <3>2, <3>3, LexicalMaps
  <2>5. CASE ~ScopedIn(table')
    <3>1. Mode' = "lost"
      BY <2>5, ModeIs
    <3>2. QED BY <2>3, <3>1 DEF Environments!Next, Environments!Lose
  <2>6. QED BY <2>4, <2>5
<1>4. QED BY <1>2, <1>3

(* The table, its scope numbers and its switched-off entries are lexical    *)
(* scoping: until a block that defines a named function ends, every name of *)
(* the final compiler means what the stack of environments says, whatever   *)
(* is declared, shadowed, refused and left.                                 *)
THEOREM EnvironmentsImplemented == Spec => ImplementsEnvironments
<1>1. Init => NamesInv /\ Environments!Init
  BY InitNames, InitMaps
<1>2. ScopesInv /\ NamesInv /\ [Next]_vars => NamesInv' /\ [Environments!Next]_Environments!vars
  BY StepMaps
<1>3. QED
  BY <1>1, <1>2, InvHolds, PTL DEF Spec, ImplementsEnvironments, Environments!Spec
=============================================================================
