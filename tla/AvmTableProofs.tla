---------------------------- MODULE AvmTableProofs --------------------------
(***************************************************************************)
(* Proofs that the chained tables of AvmTable stay sound and are copied    *)
(* whole, and that they implement the mapping of TableMap, also when they  *)
(* are printed in between: for any keys, values, sizes, hash function and  *)
(* number of chains.  And how deep printing goes, for any tables in tables.*)
(***************************************************************************)
EXTENDS AvmTableProps, AvmPrintProps, SequenceTheorems, FunctionTheorems,
        FiniteSetTheorems, WellFoundedInduction, TLAPS

(* A chain: bindings of keys to values, each in its place, no key twice. *)
SoundChain(ch, c) ==
  /\ ch \in Seq(Pair)
  /\ \A i \in DOMAIN ch :
       /\ ch[i].key \in Hashable /\ Hash[ch[i].key] = c
       /\ \A j \in DOMAIN ch : Equal(ch[j].key, ch[i].key) => j = i

SoundTable(cs) ==
  /\ DOMAIN cs = 1 .. Chains /\ cs = [c \in 1 .. Chains |-> cs[c]]
  /\ \A c \in 1 .. Chains : SoundChain(cs[c], c)

-----------------------------------------------------------------------------
(* What the three ways of setting a binding do to a chain. *)

(* At most one binding of a chain matches a key. *)
LEMMA OneHit ==
  ASSUME NEW ch, NEW c, SoundChain(ch, c), NEW k, Hits(ch, k) # {}
  PROVE  \E f \in DOMAIN ch : /\ Hits(ch, k) = {f} /\ First(Hits(ch, k)) = f
                              /\ Equal(k, ch[f].key)
<1>1. PICK f \in DOMAIN ch : f \in Hits(ch, k) /\ Equal(k, ch[f].key)
  BY DEF Hits
<1>2. \A j \in Hits(ch, k) : j = f
  BY <1>1 DEF Hits, SoundChain, Equal
<1>3. Hits(ch, k) = {f}
  BY <1>1, <1>2
<1>4. f \in Nat
  BY <1>1 DEF SoundChain
<1>5. First({f}) = f
  BY <1>4 DEF First
<1>6. QED BY <1>1, <1>3, <1>5

LEMMA InsertedSound ==
  ASSUME NEW ch, NEW c, SoundChain(ch, c),
         NEW k \in Hashable, NEW v \in Values, Hashable \subseteq Keys,
         Hash[k] = c, Hits(ch, k) = {}
  PROVE  /\ SoundChain(Inserted(ch, k, v), c)
         /\ ToSet(Inserted(ch, k, v)) = ToSet(ch) \cup {[key |-> k, value |-> v]}
<1> DEFINE p == [key |-> k, value |-> v]
           new == <<p>> \o ch
<1>0. ch \in Seq(Pair) /\ p \in Pair /\ p.key = k
  BY DEF SoundChain, Pair
<1> HIDE DEF p
<1>1. /\ new \in Seq(Pair) /\ Len(new) = Len(ch) + 1 /\ new[1] = p
      /\ \A i \in 2 .. Len(ch) + 1 : new[i] = ch[i - 1]
  BY <1>0
<1>2. \A i \in DOMAIN new : i = 1 \/ (i - 1 \in DOMAIN ch /\ new[i] = ch[i - 1])
  BY <1>0, <1>1
<1>3. \A i \in DOMAIN ch : ~Equal(k, ch[i].key) /\ ~Equal(ch[i].key, k)
  BY DEF Hits, Equal
<1>3a. \A i \in DOMAIN ch : i + 1 \in DOMAIN new /\ new[i + 1] = ch[i]
  BY <1>0, <1>1
<1> HIDE DEF new
<1>4. ASSUME NEW i \in DOMAIN new
      PROVE  new[i].key \in Hashable /\ Hash[new[i].key] = c
  BY <1>0, <1>1, <1>2 DEF SoundChain
<1>5. ASSUME NEW i \in DOMAIN new, NEW j \in DOMAIN new,
             Equal(new[j].key, new[i].key)
      PROVE  j = i
  <2>0. i \in Nat /\ j \in Nat
    BY <1>1
  <2>1. CASE i = 1
    BY <1>0, <1>1, <1>2, <1>3, <1>5, <2>1
  <2>2. CASE j = 1
    BY <1>0, <1>1, <1>2, <1>3, <1>5, <2>2
  <2>3. CASE i # 1 /\ j # 1
    <3>1. i - 1 \in DOMAIN ch /\ new[i] = ch[i - 1] /\ j - 1 \in DOMAIN ch /\ new[j] = ch[j - 1]
      BY <1>2, <2>3
    <3>2. j - 1 = i - 1
      BY <1>5, <3>1 DEF SoundChain
    <3>3. QED BY <3>2, <2>0
  <2>4. QED BY <2>1, <2>2, <2>3
<1>6. SoundChain(new, c)
  BY <1>1, <1>4, <1>5 DEF SoundChain
<1>7. ToSet(new) = ToSet(ch) \cup {p}
  <2>1. ToSet(new) \subseteq ToSet(ch) \cup {p}
    BY <1>1, <1>2 DEF ToSet
  <2>2. p \in ToSet(new)
    BY <1>0, <1>1 DEF ToSet
  <2>3. ToSet(ch) \subseteq ToSet(new)
    BY <1>3a DEF ToSet
  <2>4. QED BY <2>1, <2>2, <2>3
<1>8. QED BY <1>6, <1>7 DEF Inserted, p, new

LEMMA OverwrittenSound ==
  ASSUME NEW ch, NEW c, SoundChain(ch, c), NEW k, NEW v \in Values, Hits(ch, k) # {}
  PROVE  SoundChain(Overwritten(ch, k, v), c)
<1>1. PICK f \in DOMAIN ch : First(Hits(ch, k)) = f
  BY OneHit
<1> DEFINE p == [key |-> ch[f].key, value |-> v]
           new == [ch EXCEPT ![f] = p]
<1>2. ch \in Seq(Pair) /\ ch[f] \in Pair
  BY <1>1 DEF SoundChain
<1>3. Overwritten(ch, k, v) = new
  <2>1. [ch[f] EXCEPT !.value = v] = p
    BY <1>2 DEF Pair
  <2>2. Overwritten(ch, k, v) = [ch EXCEPT ![f] = [ch[f] EXCEPT !.value = v]]
    BY <1>1 DEF Overwritten
  <2>3. QED BY <2>1, <2>2
<1>4. p \in Pair /\ p.key = ch[f].key
  BY <1>2 DEF Pair
<1> HIDE DEF p
<1>5. new \in Seq(Pair) /\ DOMAIN new = DOMAIN ch
  BY <1>1, <1>2, <1>4
<1>6. \A i \in DOMAIN ch : new[i].key = ch[i].key
  BY <1>1, <1>2, <1>4
<1> HIDE DEF new
<1>7. SoundChain(new, c)
  BY <1>5, <1>6 DEF SoundChain
<1>8. QED BY <1>3, <1>7

(* Unlinking takes out the binding that was hit, and nothing else.          *)
LEMMA UnlinkedElements ==
  ASSUME NEW ch \in Seq(Pair), NEW k, NEW f \in DOMAIN ch, First(Hits(ch, k)) = f,
         NEW new, new = Unlinked(ch, k)
  PROVE  /\ f \in 1 .. Len(ch) /\ Len(ch) \in Nat /\ DOMAIN ch = 1 .. Len(ch)
         /\ new \in Seq(Pair) /\ Len(new) = Len(ch) - 1 /\ DOMAIN new = 1 .. Len(ch) - 1
         /\ \A i \in 1 .. f - 1 : new[i] = ch[i]
         /\ \A i \in f .. Len(ch) - 1 : new[i] = ch[i + 1]
<1> DEFINE before == SubSeq(ch, 1, f - 1)
           behind == SubSeq(ch, f + 1, Len(ch))
<1>1. f \in 1 .. Len(ch) /\ Len(ch) \in Nat /\ DOMAIN ch = 1 .. Len(ch)
  OBVIOUS
<1>2. new = before \o behind
  BY DEF Unlinked, RemoveAt
<1>3. /\ before \in Seq(Pair) /\ Len(before) = f - 1
      /\ \A i \in 1 .. f - 1 : before[i] = ch[i]
  BY <1>1
<1>4. /\ behind \in Seq(Pair) /\ Len(behind) = Len(ch) - f
      /\ \A i \in 1 .. Len(ch) - f : behind[i] = ch[f + i]
  <2>1. PICK l \in Nat : l = Len(ch) /\ f \in 1 .. l
    BY <1>1
  <2>2. PICK r : r = SubSeq(ch, f + 1, l)
    OBVIOUS
  <2>3. r \in Seq(Pair) /\ Len(r) = l - f
    BY <2>1, <2>2
  <2>4. \A i \in 1 .. l - f : r[i] = ch[f + i]
    BY <2>1, <2>2
  <2>5. QED BY <2>1, <2>2, <2>3, <2>4
<1> HIDE DEF before, behind
<1>5. /\ new \in Seq(Pair) /\ Len(new) = Len(before) + Len(behind)
      /\ \A i \in 1 .. Len(before) + Len(behind) :
           new[i] = IF i <= Len(before) THEN before[i] ELSE behind[i - Len(before)]
  BY <1>2, <1>3, <1>4, ConcatProperties
<1>6. /\ Len(new) = Len(ch) - 1
      /\ \A i \in 1 .. Len(ch) - 1 :
           new[i] = IF i <= f - 1 THEN before[i] ELSE behind[i - (f - 1)]
  <2>1. Len(before) + Len(behind) = Len(ch) - 1
    BY <1>1, <1>3, <1>4
  <2>2. QED BY <1>3, <1>5, <2>1
<1>7. ASSUME NEW i \in 1 .. f - 1 PROVE new[i] = ch[i]
  BY <1>1, <1>3, <1>6
<1>8. ASSUME NEW i \in f .. Len(ch) - 1 PROVE new[i] = ch[i + 1]
  <2>1. i - (f - 1) \in 1 .. Len(ch) - f /\ f + (i - (f - 1)) = i + 1
    BY <1>1
  <2>2. new[i] = behind[i - (f - 1)]
    BY <1>1, <1>6
  <2>3. QED BY <1>4, <2>1, <2>2
<1>9. DOMAIN new = 1 .. Len(ch) - 1
  BY <1>5, <1>6
<1>10. QED BY <1>1, <1>5, <1>6, <1>7, <1>8, <1>9

LEMMA UnlinkedSound ==
  ASSUME NEW ch, NEW c, SoundChain(ch, c), NEW k, Hits(ch, k) # {}
  PROVE  SoundChain(Unlinked(ch, k), c)
<1>1. PICK f \in DOMAIN ch : First(Hits(ch, k)) = f
  BY OneHit
<1>2. PICK new : new = Unlinked(ch, k)
  OBVIOUS
<1> DEFINE from(i) == IF i < f THEN i ELSE i + 1
<1>3. /\ f \in 1 .. Len(ch) /\ Len(ch) \in Nat /\ DOMAIN ch = 1 .. Len(ch)
      /\ new \in Seq(Pair) /\ Len(new) = Len(ch) - 1 /\ DOMAIN new = 1 .. Len(ch) - 1
      /\ \A i \in 1 .. f - 1 : new[i] = ch[i]
      /\ \A i \in f .. Len(ch) - 1 : new[i] = ch[i + 1]
  BY <1>1, <1>2, UnlinkedElements DEF SoundChain
<1>4. /\ \A i \in DOMAIN new : new[i] = ch[from(i)] /\ from(i) \in DOMAIN ch
      /\ \A i, j \in DOMAIN new : from(i) = from(j) => i = j
  <2>1. ASSUME NEW i \in 1 .. Len(ch) - 1
        PROVE  new[i] = ch[from(i)] /\ from(i) \in 1 .. Len(ch)
    BY <1>3
  <2>2. ASSUME NEW i \in 1 .. Len(ch) - 1, NEW j \in 1 .. Len(ch) - 1, from(i) = from(j)
        PROVE  i = j
    BY <1>3, <2>2
  <2>3. QED BY <1>3, <2>1, <2>2
<1> HIDE DEF from
<1>5. SoundChain(new, c)
  BY <1>3, <1>4 DEF SoundChain
<1>6. QED BY <1>2, <1>5

LEMMA AfterSetSound ==
  ASSUME NEW ch, NEW c, SoundChain(ch, c), NEW k \in Hashable, Hash[k] = c,
         NEW v \in Values \cup {NIL}
  PROVE  SoundChain(AfterSet(ch, k, v), c)
<1>1. CASE v = NIL /\ Hits(ch, k) = {}
  <2>1. AfterSet(ch, k, v) = ch
    BY <1>1 DEF AfterSet
  <2>2. QED BY <2>1
<1>2. CASE v = NIL /\ Hits(ch, k) # {}
  <2>1. AfterSet(ch, k, v) = Unlinked(ch, k)
    BY <1>2 DEF AfterSet
  <2>2. QED BY <1>2, <2>1, UnlinkedSound
<1>3. CASE v # NIL /\ Hits(ch, k) = {}
  <2>1. AfterSet(ch, k, v) = Inserted(ch, k, v) /\ v \in Values
    BY <1>3 DEF AfterSet
  <2>2. QED BY <1>3, <2>1, InsertedSound, TableAssumption
<1>4. CASE v # NIL /\ Hits(ch, k) # {}
  <2>1. AfterSet(ch, k, v) = Overwritten(ch, k, v) /\ v \in Values
    BY <1>4 DEF AfterSet
  <2>2. QED BY <1>4, <2>1, OverwrittenSound
<1>5. QED BY <1>1, <1>2, <1>3, <1>4

(* TABLESETELEM keeps a table sound. *)
LEMMA SetInSound ==
  ASSUME NEW cs, SoundTable(cs), NEW k, NEW v \in Values \cup {NIL}
  PROVE  SoundTable(SetIn(cs, k, v))
<1>1. CASE k \notin Hashable
  BY <1>1 DEF SetIn
<1>2. CASE k \in Hashable
  <2> DEFINE h == Hash[k]
             new == AfterSet(cs[h], k, v)
  <2>1. h \in 1 .. Chains
    BY <1>2, TableAssumption
  <2>2. SoundChain(new, h)
    BY <1>2, <2>1, AfterSetSound DEF SoundTable
  <2>3. SetIn(cs, k, v) = [cs EXCEPT ![h] = new]
    BY <1>2 DEF SetIn
  <2> HIDE DEF new, h
  <2>4. QED BY <2>1, <2>2, <2>3 DEF SoundTable
<1>3. QED BY <1>1, <1>2

LEMMA NoChainsSound == SoundTable(NoChains)
  BY DEF SoundTable, SoundChain, NoChains

-----------------------------------------------------------------------------
(* The inductive invariant. *)

(* The bindings objectcopy has visited in chain c. *)
Gone(c) == {chains[c][i] : i \in {j \in DOMAIN chains[c] : Visited(c, j)}}

TableInv ==
  /\ SoundTable(chains) /\ SoundTable(copy)
  /\ mode \in {"run", "copy"}
  /\ mode = "copy" => /\ chain \in 1 .. Chains + 1 /\ pos \in Nat \ {0}
                     /\ \A c \in 1 .. Chains : ToSet(copy[c]) = Gone(c)

LEMMA InitTable == Init => TableInv
  BY NoChainsSound DEF Init, TableInv

(* A binding that objectcopy visits is not yet in the copy. *)
LEMMA CopyBindingTable ==
  ASSUME TableInv, CopyBinding
  PROVE  TableInv'
<1> DEFINE b == chains[chain][pos]
<1>1. /\ mode = "copy" /\ chain \in 1 .. Chains /\ pos \in DOMAIN chains[chain]
      /\ copy' = SetIn(copy, b.key, b.value) /\ pos' = pos + 1
      /\ chains' = chains /\ chain' = chain /\ mode' = mode
  BY TableAssumption DEF TableInv, CopyBinding, SoundTable, SoundChain
<1>2. SoundChain(chains[chain], chain) /\ SoundChain(copy[chain], chain)
  BY <1>1 DEF TableInv, SoundTable
<1>3. /\ b \in Pair /\ b = [key |-> b.key, value |-> b.value]
      /\ b.key \in Hashable /\ Hash[b.key] = chain
      /\ b.value \in Values /\ b.value # NIL
  <2>1. b \in Pair /\ b.key \in Hashable /\ Hash[b.key] = chain
    BY <1>1, <1>2 DEF SoundChain
  <2> HIDE DEF b
  <2>2. b.value \in Values /\ b = [key |-> b.key, value |-> b.value]
    BY <2>1 DEF Pair
  <2>3. b.value # NIL
    BY <2>2, TableAssumption
  <2>4. QED BY <2>1, <2>2, <2>3
<1>4. Hits(copy[chain], b.key) = {}
  <2> SUFFICES ASSUME NEW i \in DOMAIN copy[chain], Equal(b.key, copy[chain][i].key)
               PROVE  FALSE
    BY DEF Hits
  <2>1. copy[chain][i] \in Gone(chain)
    BY <1>1, <1>2 DEF TableInv, ToSet, SoundChain
  <2>2. PICK j \in DOMAIN chains[chain] : Visited(chain, j) /\ chains[chain][j] = copy[chain][i]
    BY <2>1 DEF Gone
  <2>3. pos = j
    BY <1>1, <1>2, <2>2 DEF SoundChain
  <2>4. ~Visited(chain, pos)
    BY <1>1, <1>2 DEF Visited, SoundChain
  <2>5. QED BY <2>2, <2>3, <2>4
<1>5. copy' = [copy EXCEPT ![chain] = Inserted(copy[chain], b.key, b.value)]
  BY <1>1, <1>3, <1>4 DEF SetIn, AfterSet
<1>6. ToSet(copy'[chain]) = ToSet(copy[chain]) \cup {b}
  <2>1. copy'[chain] = Inserted(copy[chain], b.key, b.value)
    BY <1>1, <1>5 DEF TableInv, SoundTable
  <2>2. ToSet(Inserted(copy[chain], b.key, b.value)) = ToSet(copy[chain]) \cup {b}
    BY <1>2, <1>3, <1>4, InsertedSound, TableAssumption
  <2>3. QED BY <2>1, <2>2
<1>7. Gone(chain)' = Gone(chain) \cup {b}
  <2>1. \A j \in DOMAIN chains[chain] : Visited(chain, j)' <=> Visited(chain, j) \/ j = pos
    BY <1>1, <1>2 DEF Visited, SoundChain, TableInv
  <2>2. QED BY <1>1, <2>1 DEF Gone
<1>8. ASSUME NEW c \in 1 .. Chains, c # chain
      PROVE  Gone(c)' = Gone(c) /\ copy'[c] = copy[c]
  <2>1. \A j \in DOMAIN chains[c] : Visited(c, j)' <=> Visited(c, j)
    BY <1>1, <1>8 DEF Visited
  <2>2. copy'[c] = copy[c]
    BY <1>5, <1>8 DEF TableInv, SoundTable
  <2>3. QED BY <1>1, <2>1, <2>2 DEF Gone
<1>9. SoundTable(copy)'
  BY <1>1, <1>3, SetInSound DEF TableInv
<1>10. \A c \in 1 .. Chains : ToSet(copy[c])' = Gone(c)'
  BY <1>1, <1>6, <1>7, <1>8 DEF TableInv
<1>11. QED BY <1>1, <1>9, <1>10 DEF TableInv

LEMMA CopyNextChainTable ==
  ASSUME TableInv, CopyNextChain
  PROVE  TableInv'
<1>1. /\ mode = "copy" /\ chain \in 1 .. Chains /\ pos > Len(chains[chain])
      /\ chain' = chain + 1 /\ pos' = 1
      /\ chains' = chains /\ copy' = copy /\ mode' = mode
  BY TableAssumption DEF TableInv, CopyNextChain
<1>2. ASSUME NEW c \in 1 .. Chains, NEW j \in DOMAIN chains[c]
      PROVE  Visited(c, j)' <=> Visited(c, j)
  <2>1. j \in 1 .. Len(chains[c])
    BY DEF TableInv, SoundTable, SoundChain
  <2>2. QED BY <1>1, <2>1 DEF Visited, TableInv
<1>3. \A c \in 1 .. Chains : Gone(c)' = Gone(c)
  BY <1>1, <1>2 DEF Gone
<1>4. QED BY <1>1, <1>3, TableAssumption DEF TableInv

LEMMA CopyStartTable ==
  ASSUME TableInv, CopyStart
  PROVE  TableInv'
<1>1. /\ copy' = NoChains /\ chain' = 1 /\ pos' = 1 /\ mode' = "copy" /\ chains' = chains
  BY DEF CopyStart
<1>2. ASSUME NEW c \in 1 .. Chains
      PROVE  ToSet(copy'[c]) = {} /\ Gone(c)' = {}
  <2>1. \A j \in DOMAIN chains[c] : ~Visited(c, j)'
    BY <1>1 DEF Visited, TableInv, SoundTable, SoundChain
  <2>2. ToSet(copy'[c]) = {}
    BY <1>1 DEF NoChains, ToSet
  <2>3. QED BY <1>1, <2>1, <2>2 DEF Gone
<1>3. SoundTable(copy)'
  BY <1>1, NoChainsSound
<1>4. \A c \in 1 .. Chains : ToSet(copy[c])' = Gone(c)'
  BY <1>2
<1>5. chain' \in 1 .. Chains + 1 /\ pos' \in Nat \ {0}
  BY <1>1, TableAssumption
<1>6. QED BY <1>1, <1>3, <1>4, <1>5 DEF TableInv

LEMMA NextTable == TableInv /\ [Next]_vars => TableInv'
<1> SUFFICES ASSUME TableInv, [Next]_vars PROVE TableInv'
  OBVIOUS
<1>1. ASSUME NEW k \in Keys, NEW v \in Values \cup {NIL}, SetElem(k, v)
      PROVE  TableInv'
  <2>1. SoundTable(chains')
    BY <1>1, SetInSound DEF SetElem, TableInv
  <2>2. QED BY <1>1, <2>1 DEF SetElem, TableInv
<1>2. CASE UNCHANGED <<chains, copy, chain, pos, mode>>
  BY <1>2 DEF TableInv, Gone, Visited
<1>3. CASE CopyEnd
  BY <1>3, NoChainsSound DEF CopyEnd, TableInv
<1>4. CASE UNCHANGED vars
  BY <1>2, <1>4 DEF vars
<1>5. QED
  BY <1>1, <1>2, <1>3, <1>4, CopyStartTable, CopyBindingTable, CopyNextChainTable
     DEF Next, GetElem, TotalMembers, MemberKeys

-----------------------------------------------------------------------------
(* For any keys, values and hash function, a table never binds a key twice, *)
(* so that the binding avm_tablegetelem finds, and the one a deletion       *)
(* unlinks, is the only one.                                                *)
THEOREM KeysBoundOnce == Spec => []OneBindingPerKey
<1>1. TableInv => OneBindingPerKey
  BY DEF TableInv, OneBindingPerKey, Sound, SoundTable, SoundChain
<1>2. QED BY <1>1, InitTable, NextTable, PTL DEF Spec

(* objectcopy visits every binding of every chain once: the copy it ends    *)
(* with holds the bindings of the table, no more and no fewer.              *)
THEOREM CopiesAreFaithful == Spec => []CopyFaithful
<1>1. TableInv => CopyFaithful
  BY DEF TableInv, CopyFaithful, Gone
<1>2. QED BY <1>1, InitTable, NextTable, PTL DEF Spec

-----------------------------------------------------------------------------
(* Induction, and a recursive definition. *)

(* A set of natural numbers that has 0 and all successors has them all. *)
LEMMA Induction ==
  ASSUME NEW S \in SUBSET Nat, 0 \in S, \A n \in S : n + 1 \in S
  PROVE  S = Nat
<1>1. SUFFICES ASSUME Nat \ S # {} PROVE FALSE
  OBVIOUS
<1>2. PICK R : R = OpToRel(<, Nat) /\ IsWellFoundedOn(R, Nat)
  BY NatLessThanWellFounded
<1>3. \A x, y \in Nat : <<x, y>> \in R <=> x < y
  BY <1>2 DEF OpToRel
<1>4. PICK m \in Nat \ S : \A y \in Nat \ S : ~(<<y, m>> \in R)
  BY <1>1, <1>2, WFMin
<1>5. m # 0
  OBVIOUS
<1>6. m - 1 \in Nat /\ m - 1 < m
  BY <1>5
<1>7. m - 1 \in S
  BY <1>3, <1>4, <1>6
<1>8. QED BY <1>6, <1>7

(* The function that FlattenSeq is defined by exists. *)
LEMMA FlattenExists ==
  ASSUME NEW s, NEW n \in Nat
  PROVE  \E F : F = [i \in 1 .. n |-> IF i = 1 THEN s[i] ELSE F[i - 1] \o s[i]]
<1> DEFINE Step(F, i) == IF i = 1 THEN s[i] ELSE F[i - 1] \o s[i]
           S == {m \in Nat : \E F : F = [i \in 1 .. m |-> Step(F, i)]}
<1>1. 0 \in S
  <2> DEFINE F == [i \in 1 .. 0 |-> s[i]]
  <2>1. F = [i \in 1 .. 0 |-> Step(F, i)]
    OBVIOUS
  <2>2. QED BY <2>1
<1>2. ASSUME NEW m \in S
      PROVE  m + 1 \in S
  <2>1. m \in Nat
    OBVIOUS
  <2>2. PICK F : F = [i \in 1 .. m |-> Step(F, i)]
    OBVIOUS
  <2> DEFINE G == [i \in 1 .. m + 1 |-> IF i = m + 1 THEN Step(F, i) ELSE F[i]]
  <2>3. G = [i \in 1 .. m + 1 |-> IF i = m + 1 THEN Step(F, i) ELSE F[i]]
    OBVIOUS
  <2> HIDE DEF G
  <2>4. ASSUME NEW i \in 1 .. m + 1
        PROVE  G[i] = Step(G, i)
    <3>1. Step(G, i) = Step(F, i)
      <4>1. CASE i = 1
        BY <4>1
      <4>2. CASE i # 1
        <5>1. i - 1 \in 1 .. m + 1 /\ i - 1 # m + 1
          BY <2>1, <4>2
        <5>2. G[i - 1] = F[i - 1]
          BY <2>3, <5>1
        <5>3. QED BY <4>2, <5>2
      <4>3. QED BY <4>1, <4>2
    <3>2. CASE i = m + 1
      BY <2>3, <3>1, <3>2
    <3>3. CASE i # m + 1
      <4>1. i \in 1 .. m
        BY <2>1, <3>3
      <4>2. F[i] = Step(F, i)
        BY <2>2, <4>1
      <4>3. QED BY <2>3, <3>1, <3>3, <4>2
    <3>4. QED BY <3>2, <3>3
  <2> HIDE DEF Step
  <2>5. G = [i \in 1 .. m + 1 |-> G[i]]
    BY <2>3
  <2>6. G = [i \in 1 .. m + 1 |-> Step(G, i)]
    BY <2>4, <2>5
  <2>7. \E H : H = [i \in 1 .. m + 1 |-> Step(H, i)]
    BY <2>6
  <2>8. QED BY <2>1, <2>7
<1>3. S = Nat
  <2> HIDE DEF S
  <2>1. S \in SUBSET Nat
    BY DEF S
  <2>2. QED BY <1>1, <1>2, <2>1, Induction
<1>4. QED BY <1>3

(* FlattenSeq is the last value of such a function. *)
LEMMA FlattenIs ==
  ASSUME NEW n \in Nat \ {0}, NEW s, Len(s) = n
  PROVE  \E F : /\ F = [i \in 1 .. n |-> IF i = 1 THEN s[i] ELSE F[i - 1] \o s[i]]
                /\ FlattenSeq(s) = F[n]
<1> DEFINE G == CHOOSE F : F = [i \in 1 .. n |-> IF i = 1 THEN s[i] ELSE F[i - 1] \o s[i]]
<1>1. G = [i \in 1 .. n |-> IF i = 1 THEN s[i] ELSE G[i - 1] \o s[i]]
  BY FlattenExists
<1>2. FlattenSeq(s) = G[n]
  BY DEF FlattenSeq
<1>3. QED BY <1>1, <1>2

-----------------------------------------------------------------------------
(* The members of a table, enumerated. *)

(* A function that is one to one and reaches everything. *)
LEMMA IsBijection ==
  ASSUME NEW S, NEW T, NEW f, DOMAIN f = S, f = [x \in S |-> f[x]], \A x \in S : f[x] \in T,
         \A x, y \in S : f[x] = f[y] => x = y,
         \A t \in T : \E x \in S : f[x] = t
  PROVE  f \in Bijection(S, T)
<1>1. f \in [S -> T]
  OBVIOUS
<1>2. QED BY <1>1, Fun_IsBij

(* The places of bindings in the first chains of a table. *)
Places(cs, m) == {p \in (1 .. m) \X Nat : p[2] \in DOMAIN cs[p[1]]}

(* A sequence and what enumerates the places of its elements. *)
Enumerates(all, e, cs, m) ==
  /\ all \in Seq(Pair)
  /\ e \in [1 .. Len(all) -> Places(cs, m)]
  /\ \A i \in 1 .. Len(all) : all[i] = cs[e[i][1]][e[i][2]]
  /\ \A i, j \in 1 .. Len(all) : e[i] = e[j] => i = j
  /\ \A p \in Places(cs, m) : \E i \in 1 .. Len(all) : e[i] = p

(* One chain more. *)
LEMMA OneChainMore ==
  ASSUME NEW cs, NEW m \in Nat, \A c \in 1 .. m + 1 : cs[c] \in Seq(Pair),
         NEW all, NEW e, Enumerates(all, e, cs, m),
         NEW new, new = all \o cs[m + 1]
  PROVE  \E f : Enumerates(new, f, cs, m + 1)
<1>1. PICK b : b = cs[m + 1] /\ b \in Seq(Pair)
  OBVIOUS
<1>a. all \in Seq(Pair) /\ Len(all) \in Nat /\ Len(b) \in Nat /\ DOMAIN b = 1 .. Len(b)
  BY <1>1, LenProperties DEF Enumerates
<1>2. PICK n \in Nat, k \in Nat : n = Len(all) /\ k = Len(b) /\ DOMAIN b = 1 .. k
  BY ONLY <1>a
<1>3. /\ new \in Seq(Pair) /\ Len(new) = n + k
      /\ \A i \in 1 .. n + k : new[i] = IF i <= n THEN all[i] ELSE b[i - n]
  BY <1>1, <1>2, ConcatProperties DEF Enumerates
<1> DEFINE f == [i \in 1 .. n + k |-> IF i <= n THEN e[i] ELSE <<m + 1, i - n>>]
<1>4. /\ \A i \in 1 .. n : i \in 1 .. n + k /\ i <= n
      /\ \A i \in 1 .. n + k : i \in 1 .. n \/ (i - n \in 1 .. k /\ ~(i <= n))
      /\ \A j \in 1 .. k : j + n \in 1 .. n + k /\ ~(j + n <= n) /\ j + n - n = j
  BY <1>2
<1>5. /\ f = [i \in 1 .. n + k |-> f[i]] /\ DOMAIN f = 1 .. n + k
      /\ \A i \in 1 .. n : f[i] = e[i]
      /\ \A i \in 1 .. n + k : ~(i <= n) => f[i] = <<m + 1, i - n>>
  BY <1>4
<1> HIDE DEF f
<1>6. /\ \A p \in Places(cs, m) : p \in Places(cs, m + 1) /\ p[1] # m + 1
      /\ \A j \in 1 .. k : <<m + 1, j>> \in Places(cs, m + 1)
      /\ \A p \in Places(cs, m + 1) :
           p \in Places(cs, m) \/ \E j \in 1 .. k : p = <<m + 1, j>>
  <2>1. \A c \in 1 .. m : c \in 1 .. m + 1 /\ c # m + 1
    OBVIOUS
  <2>2. \A c \in 1 .. m + 1 : c \in 1 .. m \/ c = m + 1
    OBVIOUS
  <2>3. ASSUME NEW p \in Places(cs, m)
        PROVE  p \in Places(cs, m + 1) /\ p[1] # m + 1
    BY <2>1 DEF Places
  <2>4. ASSUME NEW j \in 1 .. k
        PROVE  <<m + 1, j>> \in Places(cs, m + 1)
    BY <1>1, <1>2 DEF Places
  <2>5. ASSUME NEW p \in Places(cs, m + 1)
        PROVE  p \in Places(cs, m) \/ \E j \in 1 .. k : p = <<m + 1, j>>
    <3>1. p \in (1 .. m + 1) \X Nat /\ p[2] \in DOMAIN cs[p[1]]
      BY DEF Places
    <3>2. p = <<p[1], p[2]>> /\ p[1] \in 1 .. m + 1 /\ p[2] \in Nat
      BY <3>1
    <3>3. CASE p[1] = m + 1
      BY <1>1, <1>2, <3>1, <3>2, <3>3
    <3>4. CASE p[1] # m + 1
      <4>1. p \in (1 .. m) \X Nat
        BY <2>2, <3>2, <3>4
      <4>2. QED BY <3>1, <4>1 DEF Places
    <3>5. QED BY <3>3, <3>4
  <2>6. QED BY <2>3, <2>4, <2>5
<1>7. /\ e \in [1 .. n -> Places(cs, m)]
      /\ \A i \in 1 .. n : all[i] = cs[e[i][1]][e[i][2]]
      /\ \A i, j \in 1 .. n : e[i] = e[j] => i = j
      /\ \A p \in Places(cs, m) : \E i \in 1 .. n : e[i] = p
  BY <1>2 DEF Enumerates
<1>8. ASSUME NEW i \in 1 .. n + k
      PROVE  f[i] \in Places(cs, m + 1) /\ new[i] = cs[f[i][1]][f[i][2]]
  <2>1. CASE i \in 1 .. n
    BY <1>3, <1>4, <1>5, <1>6, <1>7, <2>1
  <2>2. CASE i \notin 1 .. n
    <3>1. i - n \in 1 .. k /\ ~(i <= n)
      BY <1>4, <2>2
    <3>2. f[i] = <<m + 1, i - n>> /\ new[i] = b[i - n]
      BY <1>3, <1>5, <3>1
    <3>3. QED BY <1>1, <1>6, <3>1, <3>2
  <2>3. QED BY <2>1, <2>2
<1>9. ASSUME NEW i \in 1 .. n + k, NEW j \in 1 .. n + k, f[i] = f[j]
      PROVE  i = j
  <2>1. ASSUME NEW x \in 1 .. n + k, x \in 1 .. n
        PROVE  f[x] = e[x] /\ f[x][1] # m + 1
    <3>1. PICK p \in Places(cs, m) : p = e[x]
      BY <1>7, <2>1
    <3>2. f[x] = p /\ p[1] # m + 1
      BY <1>5, <1>6, <2>1, <3>1
    <3>3. QED BY <3>1, <3>2
  <2>2. ASSUME NEW x \in 1 .. n + k, x \notin 1 .. n
        PROVE  \E a \in 1 .. k : x = a + n /\ f[x] = <<m + 1, a>>
    <3>1. x - n \in 1 .. k /\ f[x] = <<m + 1, x - n>>
      BY <1>4, <1>5, <2>2
    <3>2. x = x - n + n
      BY <1>2
    <3>3. QED BY <3>1, <3>2
  <2>3. CASE i \in 1 .. n /\ j \in 1 .. n
    BY <1>5, <1>7, <1>9, <2>3
  <2>4. CASE i \in 1 .. n /\ j \notin 1 .. n
    <3>1. f[i][1] # m + 1 /\ \E a : f[j] = <<m + 1, a>>
      BY <2>1, <2>2, <2>4
    <3>2. QED BY <1>9, <3>1
  <2>5. CASE i \notin 1 .. n /\ j \in 1 .. n
    <3>1. f[j][1] # m + 1 /\ \E a : f[i] = <<m + 1, a>>
      BY <2>1, <2>2, <2>5
    <3>2. QED BY <1>9, <3>1
  <2>6. CASE i \notin 1 .. n /\ j \notin 1 .. n
    <3>1. PICK a, c : i = a + n /\ f[i] = <<m + 1, a>> /\ j = c + n /\ f[j] = <<m + 1, c>>
      BY <2>2, <2>6
    <3>2. a = c
      BY <1>9, <3>1
    <3>3. QED BY <3>1, <3>2
  <2>7. QED BY <2>3, <2>4, <2>5, <2>6
<1>10. ASSUME NEW p \in Places(cs, m + 1)
       PROVE  \E i \in 1 .. n + k : f[i] = p
  <2>1. CASE p \in Places(cs, m)
    BY <1>4, <1>5, <1>7, <2>1
  <2>2. CASE \E j \in 1 .. k : p = <<m + 1, j>>
    <3>1. PICK j \in 1 .. k : p = <<m + 1, j>>
      BY <2>2
    <3>2. PICK i \in 1 .. n + k : i = j + n /\ ~(i <= n) /\ i - n = j
      BY <1>4
    <3>3. f[i] = p
      BY <1>5, <3>1, <3>2
    <3>4. QED BY <3>3
  <2>3. QED BY <1>6, <2>1, <2>2
<1>11. f \in [1 .. n + k -> Places(cs, m + 1)]
  BY <1>5, <1>8
<1>12. Enumerates(new, f, cs, m + 1)
  BY <1>3, <1>8, <1>9, <1>10, <1>11 DEF Enumerates
<1>13. QED BY <1>12

(* The members of a table, as FlattenSeq lists them. *)
LEMMA FlattenEnumerates ==
  ASSUME NEW n \in Nat, NEW cs, cs = [c \in 1 .. n |-> cs[c]], \A c \in 1 .. n : cs[c] \in Seq(Pair)
  PROVE  \E e : Enumerates(FlattenSeq(cs), e, cs, n)
<1>0. Len(cs) = n
  OBVIOUS
<1>1. CASE n = 0
  <2>1. cs = << >>
    BY <1>1
  <2>2. FlattenSeq(cs) = << >>
    BY <1>0, <1>1, <2>1 DEF FlattenSeq
  <2>3. Enumerates(<< >>, << >>, cs, n)
    BY <1>1 DEF Enumerates, Places
  <2>4. QED BY <2>2, <2>3
<1>2. CASE n # 0
  <2>1. PICK F : /\ F = [i \in 1 .. n |-> IF i = 1 THEN cs[i] ELSE F[i - 1] \o cs[i]]
                 /\ FlattenSeq(cs) = F[n]
    BY <1>0, <1>2, FlattenIs
  <2>2. \A i \in 1 .. n : F[i] = IF i = 1 THEN cs[i] ELSE F[i - 1] \o cs[i]
    BY <2>1
  <2> DEFINE Listed(k) == \E e : Enumerates(F[k], e, cs, k)
  <2>3. ASSUME NEW k \in Nat, k + 1 <= n, NEW all, k # 0 => all = F[k], k = 0 => all = << >>,
               NEW e, Enumerates(all, e, cs, k)
        PROVE  Listed(k + 1)
    <3>0. k + 1 \in 1 .. n /\ k + 1 - 1 = k /\ (k + 1 = 1 <=> k = 0)
      BY <2>3
    <3>1. PICK a : a = k + 1 /\ a \in 1 .. n /\ a - 1 = k /\ (a = 1 <=> k = 0)
      BY <3>0
    <3>2. \A c \in 1 .. k + 1 : cs[c] \in Seq(Pair)
      BY <2>3
    <3>3. F[a] = all \o cs[k + 1]
      <4>1. CASE k = 0
        <5>1. F[a] = cs[k + 1] /\ cs[k + 1] \in Seq(Pair)
          BY <2>2, <3>1, <3>2, <4>1
        <5>2. << >> \o cs[k + 1] = cs[k + 1]
          BY <5>1, ConcatEmptySeq
        <5>3. QED BY <2>3, <4>1, <5>1, <5>2
      <4>2. CASE k # 0
        BY <2>2, <2>3, <3>1, <4>2
      <4>3. QED BY <4>1, <4>2
    <3>4. QED BY <2>3, <3>1, <3>2, <3>3, OneChainMore
  <2> HIDE DEF Listed
  <2> DEFINE S == {m \in Nat : m + 1 <= n => Listed(m + 1)}
  <2>4. 0 \in S
    <3>1. Enumerates(<< >>, << >>, cs, 0)
      BY DEF Enumerates, Places
    <3>2. 0 + 1 <= n => Listed(0 + 1)
      BY <2>3, <3>1
    <3>3. QED BY <3>2
  <2>5. ASSUME NEW m \in S
        PROVE  m + 1 \in S
    <3>1. PICK k \in Nat : k = m + 1
      OBVIOUS
    <3>2. k + 1 <= n => Listed(k + 1)
      <4>1. SUFFICES ASSUME k + 1 <= n PROVE Listed(k + 1)
        OBVIOUS
      <4>2. Listed(k) /\ k # 0
        BY <3>1, <4>1
      <4>3. PICK e : Enumerates(F[k], e, cs, k)
        BY <4>2 DEF Listed
      <4>4. QED BY <2>3, <4>1, <4>2, <4>3
    <3>3. QED BY <3>1, <3>2
  <2>6. S = Nat
    <3>1. S \in SUBSET Nat
      OBVIOUS
    <3> HIDE DEF S
    <3>2. QED BY <2>4, <2>5, <3>1, Induction
  <2>7. n - 1 \in Nat /\ n - 1 + 1 = n /\ n <= n
    BY <1>2
  <2>8. Listed(n)
    <3>1. n - 1 \in S
      BY <2>6, <2>7
    <3> HIDE DEF Listed
    <3>2. n - 1 + 1 <= n => Listed(n - 1 + 1)
      BY <3>1
    <3>3. QED BY <2>7, <3>2
  <2>9. QED BY <2>1, <2>8 DEF Listed
<1>3. QED BY <1>1, <1>2

(* What is found under a key, and what is not. *)
LEMMA Found ==
  ASSUME NEW ch, NEW c, SoundChain(ch, c), NEW k, k # NAN
  PROVE  /\ \A i \in DOMAIN ch : ch[i].key = k => InChain(ch, k) = ch[i].value
         /\ \A i \in DOMAIN ch : ch[i].value \in Values /\ ch[i].value # NIL
         /\ (\A i \in DOMAIN ch : ch[i].key # k) => InChain(ch, k) = NIL
         /\ InChain(ch, k) \in Values \cup {NIL}
<1>1. ASSUME NEW i \in DOMAIN ch, ch[i].key = k
      PROVE  InChain(ch, k) = ch[i].value
  <2>1. i \in Hits(ch, k)
    BY <1>1 DEF Hits, Equal
  <2>2. PICK f : Hits(ch, k) = {f} /\ First(Hits(ch, k)) = f
    BY <2>1, OneHit
  <2>3. f = i /\ Hits(ch, k) # {}
    BY <2>1, <2>2
  <2>4. QED BY <2>2, <2>3 DEF InChain
<1>2. ASSUME NEW i \in DOMAIN ch
      PROVE  ch[i].value \in Values /\ ch[i].value # NIL
  <2>1. ch[i] \in Pair
    BY DEF SoundChain
  <2>2. QED BY <2>1, TableAssumption DEF Pair
<1>3. ASSUME \A i \in DOMAIN ch : ch[i].key # k
      PROVE  InChain(ch, k) = NIL
  BY <1>3 DEF InChain, Hits, Equal
<1>4. InChain(ch, k) \in Values \cup {NIL}
  BY <1>1, <1>2, <1>3
<1>5. QED BY <1>1, <1>2, <1>3, <1>4

(* No lookup finds NaN. *)
LEMMA NaNNotFound == \A ch : InChain(ch, NAN) = NIL
BY DEF InChain, Hits, Equal

(* What a table binds, as a mapping. *)
MapOf(cs) == [k \in Hashable \ {NAN} |-> InChain(cs[Hash[k]], k)]
BoundIn(cs) == {k \in Hashable \ {NAN} : MapOf(cs)[k] # NIL}
NaNs(cs) == OfNaN(cs[Hash[NAN]])
NaNAt(all) == {i \in 1 .. Len(all) : all[i].key = NAN}

(* The members of a table: its bound keys once each, and NaN for each of    *)
(* its bindings.                                                            *)
LEMMA Listing ==
  ASSUME NEW cs, SoundTable(cs), NEW all, all = FlattenSeq(cs), NEW n, n = Len(all)
  PROVE  /\ n \in Nat /\ all \in Seq(Pair)
         /\ \A i \in 1 .. n : all[i].key \in BoundIn(cs) \cup {NAN}
         /\ \A i, j \in 1 .. n : all[i].key = all[j].key /\ all[i].key # NAN => i = j
         /\ \A k \in BoundIn(cs) : \E i \in 1 .. n : all[i].key = k
         /\ ExistsBijection(NaNAt(all), NaNs(cs))
<1>1. PICK e : Enumerates(all, e, cs, Chains)
  <2>1. /\ Chains \in Nat /\ cs = [c \in 1 .. Chains |-> cs[c]]
        /\ \A c \in 1 .. Chains : cs[c] \in Seq(Pair)
    BY TableAssumption DEF SoundTable, SoundChain
  <2>2. QED BY <2>1, FlattenEnumerates
<1>2. /\ n \in Nat /\ all \in Seq(Pair)
      /\ e \in [1 .. n -> Places(cs, Chains)]
      /\ \A i \in 1 .. n : all[i] = cs[e[i][1]][e[i][2]]
      /\ \A i, j \in 1 .. n : e[i] = e[j] => i = j
      /\ \A p \in Places(cs, Chains) : \E i \in 1 .. n : e[i] = p
  BY <1>1 DEF Enumerates
<1>3. ASSUME NEW i \in 1 .. n
      PROVE  /\ all[i].key \in Hashable /\ Hash[all[i].key] = e[i][1]
             /\ SoundChain(cs[Hash[all[i].key]], Hash[all[i].key])
             /\ e[i][2] \in DOMAIN cs[Hash[all[i].key]]
             /\ cs[Hash[all[i].key]][e[i][2]] = all[i]
             /\ e[i] = <<Hash[all[i].key], e[i][2]>>
  <2>1. PICK p : p = e[i] /\ p \in (1 .. Chains) \X Nat /\ p[2] \in DOMAIN cs[p[1]]
    BY <1>2 DEF Places
  <2>2. PICK c \in 1 .. Chains, j \in Nat : c = p[1] /\ j = p[2] /\ p = <<c, j>>
    BY <2>1
  <2>3. SoundChain(cs[c], c) /\ j \in DOMAIN cs[c] /\ all[i] = cs[c][j]
    BY <1>2, <2>1, <2>2 DEF SoundTable
  <2>4. all[i].key \in Hashable /\ Hash[all[i].key] = c
    BY <2>3 DEF SoundChain
  <2>5. QED BY <2>1, <2>2, <2>3, <2>4
<1>4. ASSUME NEW i \in 1 .. n, all[i].key # NAN
      PROVE  all[i].key \in BoundIn(cs)
  <2>1. InChain(cs[Hash[all[i].key]], all[i].key) # NIL
    BY <1>3, <1>4, Found
  <2>2. QED BY <1>3, <1>4, <2>1 DEF BoundIn, MapOf
<1>5. ASSUME NEW i \in 1 .. n, NEW j \in 1 .. n, all[i].key = all[j].key, all[i].key # NAN
      PROVE  i = j
  <2>1. PICK c, x, y : c = Hash[all[i].key] /\ x = e[i][2] /\ y = e[j][2]
    OBVIOUS
  <2>2. /\ SoundChain(cs[c], c) /\ x \in DOMAIN cs[c] /\ y \in DOMAIN cs[c]
        /\ cs[c][x] = all[i] /\ cs[c][y] = all[j] /\ e[i] = <<c, x>> /\ e[j] = <<c, y>>
    BY <1>3, <1>5, <2>1
  <2>3. x = y
    BY <1>5, <2>2 DEF SoundChain, Equal
  <2>4. e[i] = e[j]
    BY <2>2, <2>3
  <2>5. QED BY <1>2, <2>4
<1>6. ASSUME NEW k \in Hashable, NEW j \in DOMAIN cs[Hash[k]], cs[Hash[k]][j].key = k
      PROVE  \E i \in 1 .. n : e[i] = <<Hash[k], j>> /\ all[i].key = k
  <2>1. Hash[k] \in 1 .. Chains /\ j \in Nat
    BY TableAssumption DEF SoundTable, SoundChain
  <2>2. <<Hash[k], j>> \in Places(cs, Chains)
    BY <2>1 DEF Places
  <2>3. PICK i \in 1 .. n : e[i] = <<Hash[k], j>>
    BY <1>2, <2>2
  <2>4. all[i] = cs[Hash[k]][j]
    BY <1>2, <2>3
  <2>5. QED BY <1>6, <2>3, <2>4
<1>7. ASSUME NEW k \in BoundIn(cs)
      PROVE  \E i \in 1 .. n : all[i].key = k
  <2>1. k \in Hashable /\ k # NAN /\ InChain(cs[Hash[k]], k) # NIL
    BY DEF BoundIn, MapOf
  <2>2. SoundChain(cs[Hash[k]], Hash[k])
    BY <2>1, TableAssumption DEF SoundTable
  <2>3. PICK j \in DOMAIN cs[Hash[k]] : cs[Hash[k]][j].key = k
    BY <2>1, <2>2, Found
  <2>4. QED BY <1>6, <2>1, <2>3
<1>8. ExistsBijection(NaNAt(all), NaNs(cs))
  <2> DEFINE N == {i \in 1 .. n : all[i].key = NAN}
             g == [i \in N |-> e[i][2]]
  <2>1. ASSUME NEW i \in N
        PROVE  g[i] \in NaNs(cs) /\ e[i] = <<Hash[NAN], g[i]>>
    <3>1. g[i] = e[i][2] /\ i \in 1 .. n /\ all[i].key = NAN
      OBVIOUS
    <3> HIDE DEF g, N
    <3>2. /\ e[i][2] \in DOMAIN cs[Hash[NAN]] /\ cs[Hash[NAN]][e[i][2]] = all[i]
          /\ e[i] = <<Hash[NAN], e[i][2]>>
      BY <1>3, <3>1
    <3>3. QED BY <3>1, <3>2 DEF NaNs, OfNaN
  <2>2. DOMAIN g = N /\ g = [i \in N |-> g[i]]
    OBVIOUS
  <2>3. ASSUME NEW i \in N, NEW j \in N, g[i] = g[j]
        PROVE  i = j
    <3>1. e[i] = <<Hash[NAN], g[i]>> /\ e[j] = <<Hash[NAN], g[j]>> /\ i \in 1 .. n /\ j \in 1 .. n
      BY <2>1
    <3> HIDE DEF g, N
    <3>2. e[i] = e[j]
      BY <2>3, <3>1
    <3>3. QED BY <1>2, <3>1, <3>2
  <2>4. ASSUME NEW t \in NaNs(cs)
        PROVE  \E i \in N : g[i] = t
    <3>1. t \in DOMAIN cs[Hash[NAN]] /\ cs[Hash[NAN]][t].key = NAN
      BY DEF NaNs, OfNaN
    <3>0. NAN \in Hashable
      BY TableAssumption
    <3> HIDE DEF g, N
    <3>2. PICK i \in 1 .. n : e[i] = <<Hash[NAN], t>> /\ all[i].key = NAN
      BY <1>6, <3>1, <3>0
    <3> USE DEF g, N
    <3>3. i \in N
      BY <3>2
    <3>4. e[i][2] = t
      BY <3>2
    <3>5. QED BY <3>3, <3>4
  <2> HIDE DEF g
  <2>5. g \in Bijection(N, NaNs(cs))
    BY <2>1, <2>2, <2>3, <2>4, IsBijection
  <2>6. N = NaNAt(all)
    BY DEF NaNAt
  <2>7. QED BY <2>5, <2>6 DEF ExistsBijection
<1>9. QED BY <1>2, <1>4, <1>5, <1>7, <1>8

(* Their number. *)
LEMMA Counted ==
  ASSUME NEW cs, SoundTable(cs), NEW all, all = FlattenSeq(cs)
  PROVE  /\ IsFiniteSet(BoundIn(cs)) /\ IsFiniteSet(NaNs(cs))
         /\ Cardinality(BoundIn(cs)) \in Nat /\ Cardinality(NaNs(cs)) \in Nat
         /\ Len(all) = Cardinality(BoundIn(cs)) + Cardinality(NaNs(cs))
<1>1. PICK n : n = Len(all)
  OBVIOUS
<1> DEFINE N == NaNAt(all)
           B == {i \in 1 .. n : all[i].key # NAN}
           h == [i \in B |-> all[i].key]
<1>2. /\ n \in Nat
      /\ \A i \in 1 .. n : all[i].key \in BoundIn(cs) \cup {NAN}
      /\ \A i, j \in 1 .. n : all[i].key = all[j].key /\ all[i].key # NAN => i = j
      /\ \A k \in BoundIn(cs) : \E i \in 1 .. n : all[i].key = k
      /\ ExistsBijection(N, NaNs(cs))
  <2>1. /\ n \in Nat
        /\ \A i \in 1 .. n : all[i].key \in BoundIn(cs) \cup {NAN}
        /\ \A k \in BoundIn(cs) : \E i \in 1 .. n : all[i].key = k
    BY <1>1, Listing
  <2>2. \A i, j \in 1 .. n : all[i].key = all[j].key /\ all[i].key # NAN => i = j
    BY <1>1, Listing
  <2>3. ExistsBijection(N, NaNs(cs))
    BY <1>1, Listing
  <2>4. QED BY <2>1, <2>2, <2>3
<1>3. IsFiniteSet(1 .. n) /\ Cardinality(1 .. n) = n
  BY <1>2, FS_Interval
<1>4. IsFiniteSet(N) /\ IsFiniteSet(B)
  BY <1>1, <1>3, FS_Subset DEF NaNAt
<1>5. n = Cardinality(B) + Cardinality(N)
  <2>1. B \cup N = 1 .. n /\ B \cap N = {}
    BY <1>1 DEF NaNAt
  <2>2. Cardinality(B \cup N) = Cardinality(B) + Cardinality(N) - Cardinality(B \cap N)
    BY <1>4, FS_Union
  <2>3. Cardinality(B \cap N) = 0
    BY <2>1, FS_EmptySet
  <2>4. Cardinality(B) \in Nat /\ Cardinality(N) \in Nat
    BY <1>4, FS_CardinalityType
  <2> HIDE DEF B, N
  <2>5. Cardinality(B \cup N) = n
    BY <1>3, <2>1
  <2>6. QED BY <2>2, <2>3, <2>4, <2>5
<1>6. h \in Bijection(B, BoundIn(cs))
  <2>1. DOMAIN h = B /\ h = [i \in B |-> h[i]] /\ \A i \in B : h[i] = all[i].key
    OBVIOUS
  <2>2. (\A i \in B : i \in 1 .. n /\ all[i].key # NAN) /\ NAN \notin BoundIn(cs)
    BY DEF BoundIn
  <2>3. \A i \in 1 .. n : all[i].key # NAN => i \in B
    OBVIOUS
  <2> HIDE DEF h, B
  <2>4. \A i \in B : h[i] \in BoundIn(cs)
    BY <1>2, <2>1, <2>2
  <2>5. \A i, j \in B : h[i] = h[j] => i = j
    BY <1>2, <2>1, <2>2
  <2>6. \A k \in BoundIn(cs) : \E i \in B : h[i] = k
    BY <1>2, <2>1, <2>2, <2>3
  <2>7. QED BY <2>1, <2>4, <2>5, <2>6, IsBijection
<1> HIDE DEF h, B, N
<1>7. ExistsBijection(B, BoundIn(cs)) /\ ExistsBijection(N, NaNs(cs))
  BY <1>2, <1>6 DEF ExistsBijection
<1>8. /\ IsFiniteSet(BoundIn(cs)) /\ Cardinality(BoundIn(cs)) = Cardinality(B)
      /\ IsFiniteSet(NaNs(cs)) /\ Cardinality(NaNs(cs)) = Cardinality(N)
  BY <1>4, <1>7, FS_Bijection
<1>9. Cardinality(BoundIn(cs)) \in Nat /\ Cardinality(NaNs(cs)) \in Nat
  BY <1>8, FS_CardinalityType
<1>10. QED BY <1>1, <1>5, <1>8, <1>9

-----------------------------------------------------------------------------
(* What setting a binding does to what is found. *)

(* Chains of which one has a binding exactly if the other has it, but for   *)
(* one key, find the same under every other key.                            *)
LEMMA SameElsewhere ==
  ASSUME NEW ch, NEW new, NEW c, SoundChain(ch, c), SoundChain(new, c), NEW k,
         \A i \in DOMAIN ch : ch[i].key = k \/ \E j \in DOMAIN new : new[j] = ch[i],
         \A j \in DOMAIN new : new[j].key = k \/ \E i \in DOMAIN ch : new[j] = ch[i],
         NEW x, x # k, x # NAN
  PROVE  InChain(new, x) = InChain(ch, x)
<1>1. CASE \E i \in DOMAIN ch : ch[i].key = x
  <2>1. PICK i \in DOMAIN ch : ch[i].key = x
    BY <1>1
  <2>2. PICK j \in DOMAIN new : new[j] = ch[i]
    BY <2>1
  <2>3. InChain(ch, x) = ch[i].value
    BY <2>1, Found
  <2>4. InChain(new, x) = new[j].value
    BY <2>1, <2>2, Found
  <2>5. QED BY <2>2, <2>3, <2>4
<1>2. CASE \A i \in DOMAIN ch : ch[i].key # x
  <2>1. \A j \in DOMAIN new : new[j].key # x
    BY <1>2
  <2>2. QED BY <1>2, <2>1, Found
<1>3. QED BY <1>1, <1>2

(* As many bindings of NaN as there were. *)
LEMMA SameNumber ==
  ASSUME NEW S, IsFiniteSet(S), NEW T, NEW f, f \in Bijection(S, T)
  PROVE  IsFiniteSet(T) /\ Cardinality(T) = Cardinality(S)
BY FS_Bijection DEF ExistsBijection

(* A binding inserted at the head is found, and hides none. *)
LEMMA InsertedFinds ==
  ASSUME NEW ch, NEW c, SoundChain(ch, c), NEW k \in Hashable, Hash[k] = c, NEW v \in Values,
         Hits(ch, k) = {}, IsFiniteSet(OfNaN(ch)), NEW new, new = Inserted(ch, k, v)
  PROVE  /\ \A x \in Hashable \ {NAN} : InChain(new, x) = IF x = k THEN v ELSE InChain(ch, x)
         /\ IsFiniteSet(OfNaN(new))
         /\ Cardinality(OfNaN(new)) = Cardinality(OfNaN(ch)) + (IF k = NAN THEN 1 ELSE 0)
<1>1. PICK p : p = [key |-> k, value |-> v] /\ p \in Pair /\ p.key = k /\ p.value = v
  <2>1. k \in Keys
    BY TableAssumption
  <2>2. [key |-> k, value |-> v] \in Pair
    BY <2>1 DEF Pair
  <2>3. [key |-> k, value |-> v].key = k /\ [key |-> k, value |-> v].value = v
    OBVIOUS
  <2>4. QED BY <2>2, <2>3
<1>2. ch \in Seq(Pair) /\ SoundChain(new, c)
  <2>1. Hashable \subseteq Keys
    BY TableAssumption
  <2>2. SoundChain(Inserted(ch, k, v), c)
    BY <2>1, InsertedSound
  <2>3. QED BY <2>2 DEF SoundChain
<1>3. PICK n \in Nat : n = Len(ch) /\ DOMAIN ch = 1 .. n
  BY <1>2
<1>4. new = <<p>> \o ch /\ <<p>> \in Seq(Pair) /\ Len(<<p>>) = 1 /\ <<p>>[1] = p
  BY <1>1 DEF Inserted
<1>5. /\ DOMAIN new = 1 .. n + 1 /\ new[1] = p
      /\ \A i \in 2 .. n + 1 : new[i] = ch[i - 1]
  <2>1. /\ new \in Seq(Pair) /\ Len(new) = 1 + n
        /\ \A i \in 1 .. 1 + n : new[i] = IF i <= 1 THEN <<p>>[i] ELSE ch[i - 1]
    BY <1>2, <1>3, <1>4, ConcatProperties
  <2>2. DOMAIN new = 1 .. n + 1
    BY <1>3, <2>1
  <2>3. 1 \in 1 .. 1 + n /\ \A i \in 2 .. n + 1 : i \in 1 .. 1 + n /\ ~(i <= 1)
    BY <1>3
  <2>4. QED BY <1>4, <2>1, <2>2, <2>3
<1>6. /\ \A i \in 1 .. n : i + 1 \in DOMAIN new /\ new[i + 1] = ch[i] /\ i + 1 # 1
      /\ 1 \in DOMAIN new
      /\ \A j \in DOMAIN new : j = 1 \/ (j - 1 \in 1 .. n /\ j - 1 + 1 = j /\ new[j] = ch[j - 1])
  <2>1. \A i \in 1 .. n : i + 1 \in 2 .. n + 1 /\ i + 1 \in 1 .. n + 1 /\ i + 1 - 1 = i /\ i + 1 # 1
    OBVIOUS
  <2>2. \A j \in 1 .. n + 1 : j = 1 \/ (j - 1 \in 1 .. n /\ j - 1 + 1 = j /\ j \in 2 .. n + 1)
    OBVIOUS
  <2>3. 1 \in 1 .. n + 1
    OBVIOUS
  <2>4. QED BY <1>5, <2>1, <2>2, <2>3
<1>7. ASSUME NEW x \in Hashable \ {NAN}
      PROVE  InChain(new, x) = IF x = k THEN v ELSE InChain(ch, x)
  <2>1. CASE x = k
    BY <1>1, <1>2, <1>5, <1>6, <2>1, Found
  <2>2. CASE x # k
    <3>1. \A i \in DOMAIN ch : ch[i].key = k \/ \E j \in DOMAIN new : new[j] = ch[i]
      BY <1>3, <1>6
    <3>2. \A j \in DOMAIN new : new[j].key = k \/ \E i \in DOMAIN ch : new[j] = ch[i]
      BY <1>1, <1>3, <1>5, <1>6
    <3>3. x # k /\ x # NAN /\ SoundChain(ch, c) /\ SoundChain(new, c)
      BY <1>2, <2>2
    <3>4. InChain(new, x) = InChain(ch, x)
      BY <3>1, <3>2, <3>3, SameElsewhere
    <3>5. QED BY <2>2, <3>4
  <2>3. QED BY <2>1, <2>2
<1>8. PICK T : T = {i \in 2 .. n + 1 : new[i].key = NAN}
  OBVIOUS
<1>9. IsFiniteSet(T) /\ Cardinality(T) = Cardinality(OfNaN(ch)) /\ 1 \notin T
  <2> DEFINE f == [i \in OfNaN(ch) |-> i + 1]
  <2>1. \A i \in OfNaN(ch) : i \in 1 .. n /\ ch[i].key = NAN
    BY <1>3 DEF OfNaN
  <2>2. DOMAIN f = OfNaN(ch) /\ f = [i \in OfNaN(ch) |-> f[i]] /\ \A i \in OfNaN(ch) : f[i] = i + 1
    OBVIOUS
  <2> HIDE DEF f
  <2>3. \A i \in OfNaN(ch) : f[i] \in T
    <3>1. \A i \in 1 .. n : i + 1 \in 2 .. n + 1
      OBVIOUS
    <3>2. QED BY <1>6, <1>8, <2>1, <2>2, <3>1
  <2>4. \A i, j \in OfNaN(ch) : f[i] = f[j] => i = j
    <3>1. \A i, j \in 1 .. n : i + 1 = j + 1 => i = j
      OBVIOUS
    <3>2. QED BY <2>1, <2>2, <3>1
  <2>5. ASSUME NEW t \in T
        PROVE  \E i \in OfNaN(ch) : f[i] = t
    <3>1. t \in 2 .. n + 1 /\ new[t].key = NAN
      BY <1>8
    <3>2. t - 1 \in 1 .. n /\ t - 1 + 1 = t /\ new[t] = ch[t - 1]
      BY <1>5, <3>1
    <3>3. t - 1 \in OfNaN(ch)
      BY <1>3, <3>1, <3>2 DEF OfNaN
    <3>4. QED BY <2>2, <3>2, <3>3
  <2>6. f \in Bijection(OfNaN(ch), T)
    BY <2>2, <2>3, <2>4, <2>5, IsBijection
  <2>7. 1 \notin T
    BY <1>8
  <2>8. QED BY <2>6, <2>7, SameNumber
<1>10. OfNaN(new) = IF k = NAN THEN T \cup {1} ELSE T
  <2>1. \A j \in DOMAIN new : j = 1 \/ j \in 2 .. n + 1
    BY <1>5
  <2>2. \A j \in 2 .. n + 1 : j \in DOMAIN new
    BY <1>5
  <2>3. QED BY <1>1, <1>5, <1>6, <1>8, <2>1, <2>2 DEF OfNaN
<1>11. /\ IsFiniteSet(T \cup {1}) /\ Cardinality(T \cup {1}) = Cardinality(T) + 1
       /\ Cardinality(T) \in Nat
  BY <1>9, FS_AddElement, FS_CardinalityType
<1>12. /\ IsFiniteSet(OfNaN(new))
       /\ Cardinality(OfNaN(new)) = Cardinality(OfNaN(ch)) + (IF k = NAN THEN 1 ELSE 0)
  <2>1. CASE k = NAN
    BY <1>9, <1>10, <1>11, <2>1
  <2>2. CASE k # NAN
    BY <1>9, <1>10, <1>11, <2>2
  <2>3. QED BY <2>1, <2>2
<1>13. QED BY <1>7, <1>12

(* An overwritten binding is found with its new value. *)
LEMMA OverwrittenFinds ==
  ASSUME NEW ch, NEW c, SoundChain(ch, c), NEW k \in Hashable, Hash[k] = c, NEW v \in Values,
         Hits(ch, k) # {}, NEW new, new = Overwritten(ch, k, v)
  PROVE  /\ \A x \in Hashable \ {NAN} : InChain(new, x) = IF x = k THEN v ELSE InChain(ch, x)
         /\ OfNaN(new) = OfNaN(ch) /\ k # NAN
<1>1. PICK f \in DOMAIN ch : /\ Hits(ch, k) = {f} /\ First(Hits(ch, k)) = f
                             /\ Equal(k, ch[f].key)
  BY OneHit
<1>2. ch \in Seq(Pair) /\ SoundChain(new, c) /\ ch[f] \in Pair
  <2>1. SoundChain(new, c)
    BY OverwrittenSound
  <2>2. QED BY <1>1, <2>1 DEF SoundChain
<1>3. PICK b : b = ch[f] /\ b \in Pair /\ b.key = k
  BY <1>1, <1>2 DEF Equal
<1>4. /\ DOMAIN new = DOMAIN ch /\ new[f].key = k /\ new[f].value = v
      /\ \A i \in DOMAIN ch : i # f => new[i] = ch[i]
  <2>1. new = [ch EXCEPT ![f] = [b EXCEPT !.value = v]]
    BY <1>1, <1>3 DEF Overwritten
  <2>2. new[f] = [b EXCEPT !.value = v]
    BY <1>1, <2>1
  <2>3. [b EXCEPT !.value = v].key = k /\ [b EXCEPT !.value = v].value = v
    BY <1>3 DEF Pair
  <2>4. QED BY <2>1, <2>2, <2>3
<1>5. ASSUME NEW x \in Hashable \ {NAN}
      PROVE  InChain(new, x) = IF x = k THEN v ELSE InChain(ch, x)
  <2>1. CASE x = k
    BY <1>1, <1>2, <1>4, <2>1, Found
  <2>2. CASE x # k
    <3>1. \A i \in DOMAIN ch : ch[i].key = k \/ \E j \in DOMAIN new : new[j] = ch[i]
      BY <1>3, <1>4
    <3>2. \A j \in DOMAIN new : new[j].key = k \/ \E i \in DOMAIN ch : new[j] = ch[i]
      BY <1>4
    <3>3. QED BY <1>2, <2>2, <3>1, <3>2, SameElsewhere
  <2>3. QED BY <2>1, <2>2
<1>6. OfNaN(new) = OfNaN(ch) /\ k # NAN
  BY <1>1, <1>3, <1>4 DEF OfNaN, Equal
<1>7. QED BY <1>5, <1>6

(* After a deletion the key is not found, and every other key is. *)
LEMMA UnlinkedFinds ==
  ASSUME NEW ch, NEW c, SoundChain(ch, c), NEW k \in Hashable, Hash[k] = c,
         Hits(ch, k) # {}, IsFiniteSet(OfNaN(ch)), NEW new, new = Unlinked(ch, k)
  PROVE  /\ \A x \in Hashable \ {NAN} : InChain(new, x) = IF x = k THEN NIL ELSE InChain(ch, x)
         /\ IsFiniteSet(OfNaN(new)) /\ Cardinality(OfNaN(new)) = Cardinality(OfNaN(ch))
         /\ k # NAN
<1>1. PICK f \in DOMAIN ch : /\ Hits(ch, k) = {f} /\ First(Hits(ch, k)) = f
                             /\ Equal(k, ch[f].key)
  BY OneHit
<1>2. ch \in Seq(Pair) /\ SoundChain(new, c) /\ k # NAN /\ ch[f].key = k
  <2>1. SoundChain(new, c)
    BY UnlinkedSound
  <2>2. QED BY <1>1, <2>1 DEF SoundChain, Equal
<1>3. PICK n \in Nat :
        /\ n = Len(ch) /\ f \in 1 .. n /\ DOMAIN ch = 1 .. n /\ DOMAIN new = 1 .. n - 1
        /\ \A i \in 1 .. f - 1 : new[i] = ch[i]
        /\ \A i \in f .. n - 1 : new[i] = ch[i + 1]
  <2>1. /\ f \in 1 .. Len(ch) /\ Len(ch) \in Nat /\ DOMAIN ch = 1 .. Len(ch)
        /\ DOMAIN new = 1 .. Len(ch) - 1
        /\ \A i \in 1 .. f - 1 : new[i] = ch[i]
        /\ \A i \in f .. Len(ch) - 1 : new[i] = ch[i + 1]
    <3>1. First(Hits(ch, k)) = f /\ ch \in Seq(Pair)
      BY <1>1, <1>2
    <3>2. QED BY <3>1, UnlinkedElements
  <2>2. QED BY <2>1
<1> DEFINE from(i) == IF i < f THEN i ELSE i + 1
           to(i) == IF i < f THEN i ELSE i - 1
<1>4. ASSUME NEW j \in 1 .. n - 1
      PROVE  from(j) \in 1 .. n /\ from(j) # f /\ new[j] = ch[from(j)] /\ to(from(j)) = j
  <2>1. j < f => j \in 1 .. f - 1
    BY <1>3
  <2>2. ~(j < f) => j \in f .. n - 1 /\ ~(j + 1 < f) /\ j + 1 - 1 = j
    BY <1>3
  <2>3. from(j) \in 1 .. n /\ from(j) # f
    BY <1>3
  <2>4. new[j] = ch[from(j)]
    BY <1>3, <2>1, <2>2
  <2>5. to(from(j)) = j
    BY <2>1, <2>2
  <2>6. QED BY <2>3, <2>4, <2>5
<1>5. ASSUME NEW i \in 1 .. n, i # f
      PROVE  to(i) \in 1 .. n - 1 /\ from(to(i)) = i
  BY <1>3, <1>5
<1> HIDE DEF from, to
<1>6. \A i \in DOMAIN ch : ch[i].key = k => i = f
  <2>1. SUFFICES ASSUME NEW i \in DOMAIN ch, ch[i].key = k PROVE i \in Hits(ch, k)
    BY <1>1
  <2>2. QED BY <1>2, <2>1 DEF Hits, Equal
<1>7. ASSUME NEW x \in Hashable \ {NAN}
      PROVE  InChain(new, x) = IF x = k THEN NIL ELSE InChain(ch, x)
  <2>1. CASE x = k
    <3>1. \A j \in DOMAIN new : new[j].key # k
      BY <1>3, <1>4, <1>6
    <3>2. QED BY <1>2, <2>1, <3>1, Found
  <2>2. CASE x # k
    <3>1. \A i \in DOMAIN ch : ch[i].key = k \/ \E j \in DOMAIN new : new[j] = ch[i]
      BY <1>2, <1>3, <1>4, <1>5
    <3>2. \A j \in DOMAIN new : \E i \in DOMAIN ch : new[j] = ch[i]
      BY <1>3, <1>4
    <3>3. QED BY <1>2, <2>2, <3>1, <3>2, SameElsewhere
  <2>3. QED BY <2>1, <2>2
<1>8. IsFiniteSet(OfNaN(new)) /\ Cardinality(OfNaN(new)) = Cardinality(OfNaN(ch))
  <2> DEFINE g == [i \in OfNaN(ch) |-> to(i)]
  <2>1. \A i \in OfNaN(ch) : i \in 1 .. n /\ ch[i].key = NAN /\ i # f
    BY <1>2, <1>3 DEF OfNaN
  <2>2. DOMAIN g = OfNaN(ch) /\ g = [i \in OfNaN(ch) |-> g[i]] /\ \A i \in OfNaN(ch) : g[i] = to(i)
    OBVIOUS
  <2> HIDE DEF g
  <2>3. \A i \in OfNaN(ch) : g[i] \in OfNaN(new)
    BY <1>3, <1>4, <1>5, <2>1, <2>2 DEF OfNaN
  <2>4. \A i, j \in OfNaN(ch) : g[i] = g[j] => i = j
    BY <1>5, <2>1, <2>2
  <2>5. ASSUME NEW t \in OfNaN(new)
        PROVE  \E i \in OfNaN(ch) : g[i] = t
    <3>1. t \in 1 .. n - 1 /\ new[t].key = NAN
      BY <1>3 DEF OfNaN
    <3>2. from(t) \in OfNaN(ch) /\ to(from(t)) = t
      BY <1>3, <1>4, <3>1 DEF OfNaN
    <3>3. QED BY <2>2, <3>2
  <2>6. g \in Bijection(OfNaN(ch), OfNaN(new))
    BY <2>2, <2>3, <2>4, <2>5, IsBijection
  <2>7. QED BY <2>6, SameNumber
<1>9. QED BY <1>2, <1>7, <1>8

(* avm_tablesetelem, on a chain. *)
LEMMA AfterSetFinds ==
  ASSUME NEW ch, NEW c, SoundChain(ch, c), NEW k \in Hashable, Hash[k] = c,
         NEW v \in Values \cup {NIL}, IsFiniteSet(OfNaN(ch)), NEW new, new = AfterSet(ch, k, v)
  PROVE  /\ \A x \in Hashable \ {NAN} : InChain(new, x) = IF x = k THEN v ELSE InChain(ch, x)
         /\ IsFiniteSet(OfNaN(new))
         /\ Cardinality(OfNaN(new)) =
              Cardinality(OfNaN(ch)) + (IF k = NAN /\ v # NIL THEN 1 ELSE 0)
<1>0. Cardinality(OfNaN(ch)) \in Nat
  BY FS_CardinalityType
<1>1. CASE v = NIL /\ Hits(ch, k) = {}
  <2>1. new = ch
    BY <1>1 DEF AfterSet
  <2>2. \A x : x = k => InChain(ch, x) = NIL
    BY <1>1 DEF InChain
  <2>3. QED BY <1>0, <1>1, <2>1, <2>2
<1>2. CASE v = NIL /\ Hits(ch, k) # {}
  <2>1. new = Unlinked(ch, k)
    BY <1>2 DEF AfterSet
  <2>2. /\ \A x \in Hashable \ {NAN} : InChain(new, x) = IF x = k THEN NIL ELSE InChain(ch, x)
        /\ IsFiniteSet(OfNaN(new)) /\ Cardinality(OfNaN(new)) = Cardinality(OfNaN(ch))
        /\ k # NAN
    BY <1>2, <2>1, UnlinkedFinds
  <2>3. QED BY <1>0, <1>2, <2>2
<1>3. CASE v # NIL /\ Hits(ch, k) = {}
  <2>1. new = Inserted(ch, k, v) /\ v \in Values
    BY <1>3 DEF AfterSet
  <2>2. /\ \A x \in Hashable \ {NAN} : InChain(new, x) = IF x = k THEN v ELSE InChain(ch, x)
        /\ IsFiniteSet(OfNaN(new))
        /\ Cardinality(OfNaN(new)) = Cardinality(OfNaN(ch)) + (IF k = NAN THEN 1 ELSE 0)
    BY <1>3, <2>1, InsertedFinds
  <2>3. QED BY <1>3, <2>2
<1>4. CASE v # NIL /\ Hits(ch, k) # {}
  <2>1. new = Overwritten(ch, k, v) /\ v \in Values
    BY <1>4 DEF AfterSet
  <2>2. /\ \A x \in Hashable \ {NAN} : InChain(new, x) = IF x = k THEN v ELSE InChain(ch, x)
        /\ OfNaN(new) = OfNaN(ch) /\ k # NAN
    BY <1>4, <2>1, OverwrittenFinds
  <2>3. QED BY <1>0, <2>2
<1>5. QED BY <1>1, <1>2, <1>3, <1>4

(* avm_tablesetelem: one key is bound, or unbound, and every other keeps    *)
(* its value; a binding of NaN is one more of them.                         *)
LEMMA SetInFinds ==
  ASSUME NEW cs, SoundTable(cs), NEW k, NEW v \in Values \cup {NIL}, NEW new, new = SetIn(cs, k, v)
  PROVE  /\ SoundTable(new)
         /\ MapOf(new) = IF k \in Hashable \ {NAN} THEN [MapOf(cs) EXCEPT ![k] = v] ELSE MapOf(cs)
         /\ Cardinality(NaNs(new)) =
              Cardinality(NaNs(cs)) + (IF k = NAN /\ v # NIL THEN 1 ELSE 0)
<1>1. SoundTable(new)
  BY SetInSound
<1>2. /\ IsFiniteSet(NaNs(cs)) /\ Cardinality(NaNs(cs)) \in Nat
  BY Counted
<1>3. NAN \in Hashable /\ \A x \in Hashable : Hash[x] \in 1 .. Chains
  BY TableAssumption
<1>4. CASE k \notin Hashable
  <2>1. new = cs /\ k # NAN
    BY <1>3, <1>4 DEF SetIn
  <2>2. QED BY <1>1, <1>2, <1>4, <2>1
<1>5. CASE k \in Hashable
  <2>1. PICK h, ch, a : h = Hash[k] /\ ch = cs[h] /\ a = AfterSet(ch, k, v)
    OBVIOUS
  <2>2. h \in 1 .. Chains /\ SoundChain(ch, h) /\ SoundChain(cs[Hash[NAN]], Hash[NAN])
    BY <1>3, <1>5, <2>1 DEF SoundTable
  <2>3. new = [cs EXCEPT ![h] = a]
    BY <1>5, <2>1 DEF SetIn
  <2>4. new[h] = a /\ \A c \in 1 .. Chains : c # h => new[c] = cs[c]
    BY <2>2, <2>3 DEF SoundTable
  <2>5. IsFiniteSet(OfNaN(ch))
    <3>1. CASE h = Hash[NAN]
      BY <1>2, <2>1, <3>1 DEF NaNs
    <3>2. CASE h # Hash[NAN]
      <4>1. OfNaN(ch) = {}
        BY <1>5, <2>1, <2>2, <3>2 DEF OfNaN, SoundChain
      <4>2. QED BY <4>1, FS_EmptySet
    <3>3. QED BY <3>1, <3>2
  <2>6. /\ \A x \in Hashable \ {NAN} : InChain(a, x) = IF x = k THEN v ELSE InChain(ch, x)
        /\ Cardinality(OfNaN(a)) =
             Cardinality(OfNaN(ch)) + (IF k = NAN /\ v # NIL THEN 1 ELSE 0)
    BY <1>5, <2>1, <2>2, <2>5, AfterSetFinds
  <2>7. ASSUME NEW x \in Hashable \ {NAN}
        PROVE  InChain(new[Hash[x]], x) = IF x = k THEN v ELSE InChain(cs[Hash[x]], x)
    <3>1. CASE Hash[x] = h
      BY <2>1, <2>4, <2>6, <3>1
    <3>2. CASE Hash[x] # h
      BY <1>3, <2>1, <2>4, <3>2
    <3>3. QED BY <3>1, <3>2
  <2>8. Cardinality(NaNs(new)) = Cardinality(NaNs(cs)) + (IF k = NAN /\ v # NIL THEN 1 ELSE 0)
    <3>1. CASE h = Hash[NAN]
      BY <2>1, <2>4, <2>6, <3>1 DEF NaNs
    <3>2. CASE h # Hash[NAN]
      <4>1. new[Hash[NAN]] = cs[Hash[NAN]] /\ k # NAN
        BY <1>3, <2>1, <2>4, <3>2
      <4>2. QED BY <1>2, <4>1 DEF NaNs
    <3>3. QED BY <3>1, <3>2
  <2>9. MapOf(new) = IF k \in Hashable \ {NAN} THEN [MapOf(cs) EXCEPT ![k] = v] ELSE MapOf(cs)
    BY <2>7 DEF MapOf
  <2>10. QED BY <1>1, <2>8, <2>9
<1>6. QED BY <1>4, <1>5

-----------------------------------------------------------------------------
(* The inductive invariant, with the bindings of NaN that were copied: they *)
(* are in the copy as often as they were visited.                           *)
CopiedNaNs == {j \in NaNs(chains) : Visited(Hash[NAN], j)}
MapInv ==
  /\ TableInv
  /\ mode = "copy" => Cardinality(NaNs(copy)) = Cardinality(CopiedNaNs)

(* The empty table. *)
LEMMA NoChainsMap ==
  /\ MapOf(NoChains) = [k \in Hashable \ {NAN} |-> NIL]
  /\ NaNs(NoChains) = {}
<1>1. \A k \in Hashable : NoChains[Hash[k]] = << >>
  BY TableAssumption DEF NoChains
<1>2. \A k : InChain(<< >>, k) = NIL
  BY DEF InChain, Hits
<1>3. MapOf(NoChains) = [k \in Hashable \ {NAN} |-> NIL]
  BY <1>1, <1>2 DEF MapOf
<1>4. NaNs(NoChains) = {}
  BY <1>1, TableAssumption DEF NaNs, OfNaN
<1>5. QED BY <1>3, <1>4

(* The steps of objectcopy. *)
LEMMA CopyBindingCounted ==
  ASSUME MapInv, CopyBinding
  PROVE  MapInv'
<1>1. TableInv'
  BY CopyBindingTable DEF MapInv
<1>2. PICK b : b = chains[chain][pos]
  OBVIOUS
<1>3. /\ mode = "copy" /\ chain \in 1 .. Chains /\ pos \in DOMAIN chains[chain] /\ pos \in Nat
      /\ copy' = SetIn(copy, b.key, b.value) /\ pos' = pos + 1
      /\ chains' = chains /\ chain' = chain /\ mode' = mode
      /\ SoundTable(chains) /\ SoundTable(copy) /\ SoundChain(chains[chain], chain)
  <2>1. /\ mode = "copy" /\ chain <= Chains /\ pos <= Len(chains[chain])
        /\ copy' = SetIn(copy, b.key, b.value) /\ pos' = pos + 1
        /\ chains' = chains /\ chain' = chain /\ mode' = mode
    BY <1>2 DEF CopyBinding
  <2>2. /\ chain \in 1 .. Chains + 1 /\ pos \in Nat \ {0} /\ Chains \in Nat
        /\ SoundTable(chains) /\ SoundTable(copy)
    BY <2>1, TableAssumption DEF MapInv, TableInv
  <2>3. chain \in 1 .. Chains
    BY <2>1, <2>2
  <2>4. SoundChain(chains[chain], chain)
    BY <2>2, <2>3 DEF SoundTable
  <2>5. pos \in DOMAIN chains[chain]
    BY <2>1, <2>2, <2>4 DEF SoundChain
  <2>6. QED BY <2>1, <2>2, <2>3, <2>4, <2>5
<1>4. b.key \in Hashable /\ Hash[b.key] = chain /\ b.value \in Values /\ b.value # NIL
  <2>1. b.key \in Hashable /\ Hash[b.key] = chain
    BY <1>2, <1>3 DEF SoundChain
  <2>2. b \in Pair
    BY <1>2, <1>3 DEF SoundChain
  <2>3. b.value \in Values
    BY <2>2 DEF Pair
  <2>4. QED BY <2>1, <2>3, TableAssumption
<1>5. Cardinality(NaNs(copy')) = Cardinality(NaNs(copy)) + (IF b.key = NAN THEN 1 ELSE 0)
  BY <1>3, <1>4, SetInFinds
<1>6. IsFiniteSet(CopiedNaNs) /\ Cardinality(CopiedNaNs) \in Nat
  <2>1. IsFiniteSet(NaNs(chains)) /\ CopiedNaNs \subseteq NaNs(chains)
    BY <1>3, Counted DEF CopiedNaNs
  <2>2. QED BY <2>1, FS_Subset, FS_CardinalityType
<1>7. \A j \in NaNs(chains) : Visited(Hash[NAN], j)' <=>
        Visited(Hash[NAN], j) \/ (chain = Hash[NAN] /\ j = pos)
  <2>1. SoundChain(chains[Hash[NAN]], Hash[NAN])
    BY <1>3, TableAssumption DEF SoundTable
  <2>2. \A j \in NaNs(chains) : j \in Nat
    BY <2>1 DEF NaNs, OfNaN, SoundChain
  <2>3. QED BY <1>3, <2>2 DEF Visited
<1>8. CopiedNaNs' = IF b.key = NAN THEN CopiedNaNs \cup {pos} ELSE CopiedNaNs
  <2>1. NaNs(chains)' = NaNs(chains)
    BY <1>3 DEF NaNs, OfNaN
  <2>2. b.key = NAN => chain = Hash[NAN] /\ pos \in NaNs(chains)
    BY <1>2, <1>3, <1>4 DEF NaNs, OfNaN
  <2>3. chain = Hash[NAN] /\ pos \in NaNs(chains) => b.key = NAN
    BY <1>2 DEF NaNs, OfNaN
  <2>4. QED BY <1>7, <2>1, <2>2, <2>3 DEF CopiedNaNs
<1>9. pos \notin CopiedNaNs \/ b.key # NAN
  BY <1>3, <1>4 DEF CopiedNaNs, Visited
<1>10. Cardinality(CopiedNaNs)' = Cardinality(CopiedNaNs) + (IF b.key = NAN THEN 1 ELSE 0)
  <2>1. CASE b.key = NAN
    BY <1>6, <1>8, <1>9, <2>1, FS_AddElement
  <2>2. CASE b.key # NAN
    BY <1>6, <1>8, <2>2
  <2>3. QED BY <2>1, <2>2
<1>11. QED BY <1>1, <1>3, <1>5, <1>10 DEF MapInv

LEMMA CopyNextChainCounted ==
  ASSUME MapInv, CopyNextChain
  PROVE  MapInv'
<1>1. TableInv'
  BY CopyNextChainTable DEF MapInv
<1>2. /\ mode = "copy" /\ chain \in 1 .. Chains /\ pos > Len(chains[chain]) /\ pos \in Nat
      /\ chain' = chain + 1 /\ pos' = 1
      /\ chains' = chains /\ copy' = copy /\ mode' = mode
  BY TableAssumption DEF MapInv, TableInv, CopyNextChain
<1>3. SoundChain(chains[Hash[NAN]], Hash[NAN]) /\ Hash[NAN] \in 1 .. Chains
  BY TableAssumption DEF SoundTable, MapInv, TableInv
<1>4. ASSUME NEW j \in NaNs(chains)
      PROVE  Visited(Hash[NAN], j)' <=> Visited(Hash[NAN], j)
  <2>1. j \in 1 .. Len(chains[Hash[NAN]])
    BY <1>3 DEF NaNs, OfNaN, SoundChain
  <2>2. QED BY <1>2, <1>3, <2>1 DEF Visited
<1>5. CopiedNaNs' = CopiedNaNs
  BY <1>2, <1>4 DEF CopiedNaNs, NaNs, OfNaN
<1>6. NaNs(copy)' = NaNs(copy)
  BY <1>2 DEF NaNs, OfNaN
<1>7. QED BY <1>1, <1>2, <1>5, <1>6 DEF MapInv

LEMMA CopyStartCounted ==
  ASSUME MapInv, CopyStart
  PROVE  MapInv'
<1>1. TableInv'
  BY CopyStartTable DEF MapInv
<1>2. /\ copy' = NoChains /\ chain' = 1 /\ pos' = 1 /\ mode' = "copy" /\ chains' = chains
  BY DEF CopyStart
<1>3. SoundChain(chains[Hash[NAN]], Hash[NAN]) /\ Hash[NAN] \in 1 .. Chains
  BY TableAssumption DEF SoundTable, MapInv, TableInv
<1>4. ASSUME NEW j \in NaNs(chains)
      PROVE  ~Visited(Hash[NAN], j)'
  <2>1. j \in 1 .. Len(chains[Hash[NAN]])
    BY <1>3 DEF NaNs, OfNaN, SoundChain
  <2>2. QED BY <1>2, <1>3, <2>1 DEF Visited
<1>5. CopiedNaNs' = {}
  BY <1>2, <1>4 DEF CopiedNaNs, NaNs, OfNaN
<1>6. NaNs(copy)' = {}
  <2>1. NaNs(copy)' = NaNs(copy')
    BY DEF NaNs, OfNaN
  <2>2. QED BY <1>2, <2>1, NoChainsMap
<1>7. QED BY <1>1, <1>5, <1>6 DEF MapInv

-----------------------------------------------------------------------------
(* The end of objectcopy. *)

(* Two chains of the same bindings find the same. *)
LEMMA SameBindingsFind ==
  ASSUME NEW ch, NEW new, NEW c, SoundChain(ch, c), SoundChain(new, c), ToSet(new) = ToSet(ch),
         NEW k \in Hashable \ {NAN}
  PROVE  InChain(new, k) = InChain(ch, k)
<1>1. \A i \in DOMAIN ch : \E j \in DOMAIN new : new[j] = ch[i]
  BY DEF ToSet
<1>2. \A j \in DOMAIN new : \E i \in DOMAIN ch : ch[i] = new[j]
  BY DEF ToSet
<1>3. CASE \E i \in DOMAIN ch : ch[i].key = k
  <2>1. PICK i \in DOMAIN ch : ch[i].key = k
    BY <1>3
  <2>2. PICK j \in DOMAIN new : new[j] = ch[i]
    BY <1>1
  <2>3. InChain(ch, k) = ch[i].value
    BY <2>1, Found
  <2>4. InChain(new, k) = new[j].value
    BY <2>1, <2>2, Found
  <2>5. QED BY <2>2, <2>3, <2>4
<1>4. CASE \A i \in DOMAIN ch : ch[i].key # k
  <2>1. \A j \in DOMAIN new : new[j].key # k
    BY <1>2, <1>4
  <2>2. InChain(ch, k) = NIL /\ InChain(new, k) = NIL
    BY <1>4, <2>1, Found
  <2>3. QED BY <2>2
<1>5. QED BY <1>3, <1>4

(* objectcopy's result stands for the mapping that its argument stands for. *)
LEMMA CopyEndKeeps ==
  ASSUME MapInv, CopyEnd
  PROVE  /\ MapInv'
         /\ MapOf(chains') = MapOf(chains)
         /\ Cardinality(NaNs(chains')) = Cardinality(NaNs(chains))
<1>1. /\ mode = "copy" /\ chain > Chains /\ chain \in 1 .. Chains + 1
      /\ chains' \in {chains, copy} /\ mode' = "run"
      /\ SoundTable(chains) /\ SoundTable(copy)
      /\ \A c \in 1 .. Chains : ToSet(copy[c]) = Gone(c)
      /\ Cardinality(NaNs(copy)) = Cardinality(CopiedNaNs)
  BY DEF MapInv, TableInv, CopyEnd
<1>2. MapInv'
  <2>1. TableInv'
    BY <1>1, NoChainsSound DEF CopyEnd, TableInv
  <2>2. QED BY <1>1, <2>1 DEF MapInv
<1>3. \A c \in 1 .. Chains : \A j : Visited(c, j)
  BY <1>1, TableAssumption DEF Visited
<1>4. MapOf(copy) = MapOf(chains)
  <2>1. ASSUME NEW k \in Hashable \ {NAN}
        PROVE  InChain(copy[Hash[k]], k) = InChain(chains[Hash[k]], k)
    <3>1. PICK c \in 1 .. Chains : c = Hash[k]
      BY TableAssumption
    <3>2. SoundChain(chains[c], c) /\ SoundChain(copy[c], c)
      BY <1>1 DEF SoundTable
    <3>3. ToSet(copy[c]) = ToSet(chains[c])
      BY <1>1, <1>3 DEF Gone, ToSet
    <3>4. QED BY <3>1, <3>2, <3>3, SameBindingsFind
  <2>2. QED BY <2>1 DEF MapOf
<1>5. Cardinality(NaNs(copy)) = Cardinality(NaNs(chains))
  <2>1. CopiedNaNs = NaNs(chains)
    BY <1>3, TableAssumption DEF CopiedNaNs
  <2>2. QED BY <1>1, <2>1
<1>6. QED BY <1>1, <1>2, <1>4, <1>5

(* What is kept when the table and its copy are left alone. *)
LEMMA TableUnchanged ==
  ASSUME MapInv, UNCHANGED <<chains, copy, chain, pos, mode>>
  PROVE  MapInv'
<1>1. TableInv'
  BY DEF MapInv, TableInv, Gone, Visited
<1>2. CopiedNaNs' = CopiedNaNs /\ NaNs(copy)' = NaNs(copy)
  BY DEF CopiedNaNs, Visited, NaNs, OfNaN
<1>3. QED BY <1>1, <1>2 DEF MapInv

-----------------------------------------------------------------------------
(* The steps of the mapping. *)
LEMMA MapStutters ==
  ASSUME MapOf(chains') = MapOf(chains), Cardinality(NaNs(chains')) = Cardinality(NaNs(chains)),
         answer' = answer
  PROVE  UNCHANGED Map!vars
BY DEF Map!vars, MapOf, NaNs, OfNaN, InChain, Hits

(* TABLESETELEM binds, overwrites or deletes. *)
LEMMA SetElemMaps ==
  ASSUME MapInv, NEW k \in Keys, NEW v \in Values \cup {NIL}, SetElem(k, v)
  PROVE  MapInv' /\ Map!Set(k, v)
<1>1. /\ mode = "run" /\ chains' = SetIn(chains, k, v) /\ answer' = << >>
      /\ copy' = copy /\ mode' = mode /\ SoundTable(chains) /\ SoundTable(copy)
  BY DEF SetElem, MapInv, TableInv
<1>2. /\ SoundTable(chains')
      /\ MapOf(chains') = IF k \in Hashable \ {NAN} THEN [MapOf(chains) EXCEPT ![k] = v]
                          ELSE MapOf(chains)
      /\ Cardinality(NaNs(chains')) =
           Cardinality(NaNs(chains)) + (IF k = NAN /\ v # NIL THEN 1 ELSE 0)
  BY <1>1, SetInFinds
<1>3. MapInv'
  BY <1>1, <1>2 DEF MapInv, TableInv
<1>4. Cardinality(NaNs(chains)) \in Nat
  BY <1>1, Counted
<1>5. MapOf(chains)' = MapOf(chains') /\ NaNs(chains)' = NaNs(chains')
  BY DEF MapOf, NaNs, OfNaN, InChain, Hits
<1>6. Map!Set(k, v)
  <2>1. MapOf(chains)' = IF k \in Map!Findable THEN [MapOf(chains) EXCEPT ![k] = v]
                         ELSE MapOf(chains)
    BY <1>2, <1>5 DEF Map!Findable
  <2>2. Cardinality(NaNs(chains))' =
          IF k = NAN /\ v # NIL THEN Cardinality(NaNs(chains)) + 1
          ELSE Cardinality(NaNs(chains))
    BY <1>2, <1>4, <1>5
  <2>3. QED BY <1>1, <2>1, <2>2 DEF Map!Set, MapOf, NaNs
<1>7. QED BY <1>3, <1>6

-----------------------------------------------------------------------------
(* What lookups and libraries answer. *)

(* TableMap counts as we do. *)
LEMMA SameCardinality == \A S : Map!Cardinality(S) = Cardinality(S)
BY DEF Cardinality, Map!Cardinality

(* avm_tablegetelem finds what the key is mapped to, and a library function *)
(* that is no key itself what its name is mapped to.                        *)
LEMMA LookupMaps ==
  ASSUME MapInv, NEW k \in Keys
  PROVE  /\ Lookup(chains, k) \in Values \cup {NIL}
         /\ Lookup(chains, k) = CASE k \in Map!Bound -> MapOf(chains)[k]
                                  [] k \in DOMAIN StringOf \ Map!Bound -> MapOf(chains)[StringOf[k]]
                                  [] OTHER -> NIL
<1>1. Map!Bound = BoundIn(chains) /\ SoundTable(chains)
  BY DEF Map!Bound, Map!Findable, BoundIn, MapOf, MapInv, TableInv
<1>2. \A x \in Hashable \ {NAN} : /\ MapOf(chains)[x] = InChain(chains[Hash[x]], x)
                                  /\ MapOf(chains)[x] \in Values \cup {NIL}
                                  /\ x \in BoundIn(chains) <=> MapOf(chains)[x] # NIL
  <2>1. ASSUME NEW x \in Hashable \ {NAN}
        PROVE  InChain(chains[Hash[x]], x) \in Values \cup {NIL}
    <3>1. SoundChain(chains[Hash[x]], Hash[x])
      BY <1>1, TableAssumption DEF SoundTable
    <3>2. QED BY <3>1, Found
  <2>2. QED BY <2>1 DEF MapOf, BoundIn
<1>3. \A x \in BoundIn(chains) : x \in Hashable \ {NAN}
  BY DEF BoundIn
<1>4. /\ \A x \in DOMAIN StringOf : x \in Hashable \ {NAN} /\ StringOf[x] \in Hashable \ {NAN}
  BY TableAssumption
<1>5. CASE k \notin Hashable
  <2>1. Lookup(chains, k) = NIL
    BY <1>5 DEF Lookup
  <2>2. k \notin Map!Bound /\ k \notin DOMAIN StringOf
    BY <1>1, <1>3, <1>4, <1>5
  <2>3. QED BY <2>1, <2>2
<1>6. CASE k = NAN /\ k \in Hashable
  <2>1. k \notin DOMAIN StringOf /\ k \notin Map!Bound
    BY <1>1, <1>3, <1>4, <1>6
  <2>2. InChain(chains[Hash[k]], k) = NIL
    BY <1>6, NaNNotFound
  <2>3. Lookup(chains, k) = NIL
    BY <1>6, <2>1, <2>2 DEF Lookup
  <2>4. QED BY <2>1, <2>3
<1>7. CASE k \in Hashable \ {NAN}
  <2>1. CASE k \in Map!Bound
    <3>1. InChain(chains[Hash[k]], k) = MapOf(chains)[k] /\ MapOf(chains)[k] # NIL
      BY <1>1, <1>2, <1>7, <2>1
    <3>2. Lookup(chains, k) = MapOf(chains)[k]
      BY <1>7, <3>1 DEF Lookup
    <3>3. QED BY <1>2, <1>7, <2>1, <3>2
  <2>2. CASE k \notin Map!Bound /\ k \in DOMAIN StringOf
    <3>1. InChain(chains[Hash[k]], k) = NIL
      BY <1>1, <1>2, <1>7, <2>2
    <3>2. Lookup(chains, k) = InChain(chains[Hash[StringOf[k]]], StringOf[k])
      BY <1>7, <2>2, <3>1 DEF Lookup
    <3>3. Lookup(chains, k) = MapOf(chains)[StringOf[k]]
      BY <1>2, <1>4, <2>2, <3>2
    <3>4. MapOf(chains)[StringOf[k]] \in Values \cup {NIL}
      BY <1>2, <1>4, <2>2
    <3>5. QED BY <2>2, <3>3, <3>4
  <2>3. CASE k \notin Map!Bound /\ k \notin DOMAIN StringOf
    <3>1. InChain(chains[Hash[k]], k) = NIL
      BY <1>1, <1>2, <1>7, <2>3
    <3>2. Lookup(chains, k) = NIL
      BY <1>7, <2>3, <3>1 DEF Lookup
    <3>3. QED BY <2>3, <3>2
  <2>4. QED BY <2>1, <2>2, <2>3
<1>8. QED BY <1>5, <1>6, <1>7

LEMMA GetElemMaps ==
  ASSUME MapInv, NEW k \in Keys, GetElem(k)
  PROVE  MapInv' /\ Map!Get(k)
<1>1. /\ UNCHANGED <<chains, copy, chain, pos, mode>> /\ answer' = <<Lookup(chains, k)>>
  BY DEF GetElem
<1>2. MapOf(chains)' = MapOf(chains) /\ NaNs(chains)' = NaNs(chains)
  BY <1>1 DEF MapOf, NaNs, OfNaN, InChain, Hits
<1>3. answer' = <<CASE k \in Map!Bound -> MapOf(chains)[k]
                    [] k \in DOMAIN StringOf \ Map!Bound -> MapOf(chains)[StringOf[k]]
                    [] OTHER -> NIL>>
  BY <1>1, LookupMaps
<1>4. Map!Get(k)
  BY <1>2, <1>3 DEF Map!Get, MapOf, NaNs
<1>5. QED BY <1>1, <1>4, TableUnchanged

(* What collect_table_members collects: all members, or the first that fit. *)
LEMMA CollectedMembers ==
  ASSUME MapInv, NEW all, all = FlattenSeq(chains), NEW coll, coll = Collected,
         NEW m, m = Len(coll)
  PROVE  /\ m \in Nat /\ m = Map!Members /\ m <= Len(all) /\ Len(all) \in Nat
         /\ coll \in Seq(Pair) /\ DOMAIN coll = 1 .. m
         /\ \A i \in 1 .. m : coll[i] = all[i]
<1>1. SoundTable(chains)
  BY DEF MapInv, TableInv
<1>2. Len(all) \in Nat /\ all \in Seq(Pair)
  BY <1>1, Listing
<1>3. Len(all) = Cardinality(BoundIn(chains)) + Cardinality(NaNs(chains))
  BY <1>1, Counted
<1>4. Map!Bound = BoundIn(chains)
  BY DEF Map!Bound, Map!Findable, BoundIn, MapOf
<1>5. Map!Members = IF Len(all) <= COLLECTED THEN Len(all) ELSE COLLECTED
  BY <1>3, <1>4, SameCardinality DEF Map!Members, NaNs
<1>6. coll = IF Len(all) <= COLLECTED THEN all ELSE SubSeq(all, 1, COLLECTED)
  BY DEF Collected, All
<1>7. COLLECTED \in Nat
  BY TableAssumption
<1>8. CASE Len(all) <= COLLECTED
  BY <1>2, <1>5, <1>6, <1>8
<1>9. CASE Len(all) > COLLECTED
  <2>1. PICK n \in Nat : n = Len(all) /\ n > COLLECTED
    BY <1>2, <1>9
  <2>2. coll = SubSeq(all, 1, COLLECTED) /\ Map!Members = COLLECTED
    BY <1>5, <1>6, <1>7, <2>1
  <2>3. /\ coll \in Seq(Pair) /\ Len(coll) = COLLECTED
        /\ \A i \in 1 .. COLLECTED : coll[i] = all[i]
    BY <1>2, <1>7, <2>1, <2>2
  <2>4. QED BY <1>7, <2>1, <2>2, <2>3
<1>10. QED BY <1>2, <1>7, <1>8, <1>9

LEMMA TotalMembersMaps ==
  ASSUME MapInv, TotalMembers
  PROVE  MapInv' /\ Map!TotalMembers
<1>1. UNCHANGED <<chains, copy, chain, pos, mode>> /\ answer' = <<Len(Collected)>>
  BY DEF TotalMembers
<1>2. MapOf(chains)' = MapOf(chains) /\ NaNs(chains)' = NaNs(chains)
  BY <1>1 DEF MapOf, NaNs, OfNaN, InChain, Hits
<1>3. Len(Collected) = Map!Members
  BY CollectedMembers
<1>4. Map!TotalMembers
  BY <1>1, <1>2, <1>3 DEF Map!TotalMembers, MapOf, NaNs
<1>5. QED BY <1>1, <1>4, TableUnchanged

(* objectmemberkeys: every collected key is bound, none of them twice but   *)
(* NaN, and NaN no more often than it is bound.                             *)
LEMMA MemberKeysMaps ==
  ASSUME MapInv, MemberKeys
  PROVE  MapInv' /\ Map!MemberKeys
<1>1. PICK all, coll, m : all = FlattenSeq(chains) /\ coll = Collected /\ m = Len(coll)
  OBVIOUS
<1>2. /\ m \in Nat /\ m = Map!Members /\ m <= Len(all) /\ Len(all) \in Nat
      /\ DOMAIN coll = 1 .. m /\ \A i \in 1 .. m : coll[i] = all[i]
  BY <1>1, CollectedMembers
<1>3. /\ UNCHANGED <<chains, copy, chain, pos, mode>>
      /\ answer' = [i \in 1 .. m |-> coll[i].key]
  BY <1>1, <1>2 DEF MemberKeys
<1>4. \A i \in 1 .. m : answer'[i] = all[i].key /\ i \in 1 .. Len(all)
  BY <1>2, <1>3
<1>5. MapOf(chains)' = MapOf(chains) /\ NaNs(chains)' = NaNs(chains)
  BY <1>3 DEF MapOf, NaNs, OfNaN, InChain, Hits
<1>6. SoundTable(chains)
  BY DEF MapInv, TableInv
<1>7. Map!Bound = BoundIn(chains)
  BY DEF Map!Bound, Map!Findable, BoundIn, MapOf
<1>8. \A i \in 1 .. m : answer'[i] \in Map!Bound \cup {NAN}
  <2>1. \A i \in 1 .. Len(all) : all[i].key \in BoundIn(chains) \cup {NAN}
    BY <1>1, <1>6, Listing
  <2>2. QED BY <1>4, <1>7, <2>1
<1>9. ASSUME NEW k \in Map!Bound
      PROVE  Cardinality({i \in 1 .. m : answer'[i] = k}) <= 1
  <2>1. k # NAN
    BY <1>7 DEF BoundIn
  <2>2. \A i, j \in 1 .. Len(all) : all[i].key = all[j].key /\ all[i].key # NAN => i = j
    BY <1>1, <1>6, Listing
  <2>3. \A i, j \in 1 .. m : answer'[i] = k /\ answer'[j] = k => i = j
    BY <1>4, <2>1, <2>2
  <2>4. CASE \A i \in 1 .. m : answer'[i] # k
    <3>1. {i \in 1 .. m : answer'[i] = k} = {}
      BY <2>4
    <3>2. QED BY <3>1, FS_EmptySet
  <2>5. CASE \E i \in 1 .. m : answer'[i] = k
    <3>1. PICK i \in 1 .. m : answer'[i] = k
      BY <2>5
    <3>2. {j \in 1 .. m : answer'[j] = k} = {i}
      BY <2>3, <3>1
    <3>3. Cardinality({i}) = 1
      BY FS_Singleton
    <3>4. QED BY <3>2, <3>3
  <2>6. QED BY <2>4, <2>5
<1>10. Cardinality({i \in 1 .. m : answer'[i] = NAN}) <= Cardinality(NaNs(chains))
  <2> DEFINE S == {i \in 1 .. m : answer'[i] = NAN}
  <2>1. S \subseteq NaNAt(all)
    BY <1>4 DEF NaNAt
  <2>2. ExistsBijection(NaNAt(all), NaNs(chains))
    BY <1>1, <1>6, Listing
  <2>3. IsFiniteSet(NaNAt(all))
    <3>1. IsFiniteSet(1 .. Len(all)) /\ NaNAt(all) \subseteq 1 .. Len(all)
      BY <1>2, FS_Interval DEF NaNAt
    <3>2. QED BY <3>1, FS_Subset
  <2>4. Cardinality(NaNs(chains)) = Cardinality(NaNAt(all))
    BY <2>2, <2>3, FS_Bijection
  <2> HIDE DEF S
  <2>5. Cardinality(S) <= Cardinality(NaNAt(all))
    BY <2>1, <2>3, FS_Subset
  <2>6. QED BY <2>4, <2>5 DEF S
<1>11. Map!MemberKeys
  <2>1. DOMAIN answer' = 1 .. Map!Members
    BY <1>2, <1>3
  <2>2. /\ \A i \in 1 .. Map!Members : answer'[i] \in Map!Bound \cup {NAN}
        /\ \A k \in Map!Bound : Cardinality({i \in 1 .. Map!Members : answer'[i] = k}) <= 1
        /\ Cardinality({i \in 1 .. Map!Members : answer'[i] = NAN}) <= Cardinality(NaNs(chains))
    BY <1>2, <1>8, <1>9, <1>10
  <2>3. QED BY <1>5, <2>1, <2>2, SameCardinality DEF Map!MemberKeys, MapOf, NaNs
<1>12. QED BY <1>3, <1>11, TableUnchanged

-----------------------------------------------------------------------------
(* The other steps, and the refinement. *)

(* objectcopy changes neither the mapping nor an answer. *)
LEMMA CopyStepMaps ==
  ASSUME MapInv, CopyStart \/ CopyBinding \/ CopyNextChain \/ CopyEnd
  PROVE  MapInv' /\ UNCHANGED Map!vars
<1>1. MapInv'
  BY CopyStartCounted, CopyBindingCounted, CopyNextChainCounted, CopyEndKeeps
<1>2. answer' = answer
  BY DEF CopyStart, CopyBinding, CopyNextChain, CopyEnd
<1>3. /\ MapOf(chains') = MapOf(chains)
      /\ Cardinality(NaNs(chains')) = Cardinality(NaNs(chains))
  <2>1. CASE CopyEnd
    BY <2>1, CopyEndKeeps
  <2>2. CASE chains' = chains
    BY <2>2
  <2>3. QED BY <2>1, <2>2 DEF CopyStart, CopyBinding, CopyNextChain
<1>4. QED BY <1>1, <1>2, <1>3, MapStutters

LEMMA UnchangedMaps ==
  ASSUME MapInv, UNCHANGED vars
  PROVE  MapInv' /\ UNCHANGED Map!vars
<1>1. MapInv'
  BY TableUnchanged DEF vars
<1>2. chains' = chains /\ answer' = answer
  BY DEF vars
<1>3. QED BY <1>1, <1>2, MapStutters

LEMMA PrintStartMaps ==
  ASSUME MapInv, PrintStart
  PROVE  MapInv' /\ Map!PrintTable
<1>1. UNCHANGED <<chains, copy, chain, pos, mode>> /\ answer' = <<NIL>>
  BY DEF PrintStart
<1>2. MapOf(chains)' = MapOf(chains) /\ NaNs(chains)' = NaNs(chains)
  BY <1>1 DEF MapOf, NaNs, OfNaN, InChain, Hits
<1>3. Map!PrintTable
  BY <1>1, <1>2 DEF Map!PrintTable, MapOf, NaNs
<1>4. QED BY <1>1, <1>3, TableUnchanged

(* Every step of a table is a step of the mapping or leaves it alone. *)
LEMMA NextMaps == MapInv /\ [Next]_vars => MapInv' /\ [Map!Next]_Map!vars
<1> SUFFICES ASSUME MapInv, [Next]_vars PROVE MapInv' /\ [Map!Next]_Map!vars
  OBVIOUS
<1>1. ASSUME NEW k \in Keys, NEW v \in Values \cup {NIL}, SetElem(k, v)
      PROVE  MapInv' /\ Map!Next
  BY <1>1, SetElemMaps DEF Map!Next
<1>2. ASSUME NEW k \in Keys, GetElem(k)
      PROVE  MapInv' /\ Map!Next
  BY <1>2, GetElemMaps DEF Map!Next
<1>3. CASE TotalMembers
  BY <1>3, TotalMembersMaps DEF Map!Next
<1>4. CASE MemberKeys
  BY <1>4, MemberKeysMaps DEF Map!Next
<1>5. CASE CopyStart \/ CopyBinding \/ CopyNextChain \/ CopyEnd
  BY <1>5, CopyStepMaps
<1>6. CASE UNCHANGED vars
  BY <1>6, UnchangedMaps
<1>7. QED BY <1>1, <1>2, <1>3, <1>4, <1>5, <1>6 DEF Next

LEMMA PrintNextMaps == MapInv /\ [PrintNext]_allvars => MapInv' /\ [Map!Next]_Map!vars
<1> SUFFICES ASSUME MapInv, [PrintNext]_allvars PROVE MapInv' /\ [Map!Next]_Map!vars
  OBVIOUS
<1>1. CASE Next
  BY <1>1, NextMaps
<1>2. CASE PrintStart
  BY <1>2, PrintStartMaps DEF Map!Next
<1>3. CASE UNCHANGED vars
  BY <1>3, UnchangedMaps
<1>4. QED
  BY <1>1, <1>2, <1>3
     DEF PrintNext, TableNext, PrintStep, ShowElement, ShowKey, ShowValue, Close, PrintEnd,
         Printing, allvars

LEMMA InitMaps == Init => MapInv /\ Map!Init
<1> SUFFICES ASSUME Init PROVE MapInv /\ Map!Init
  OBVIOUS
<1>1. chains = NoChains /\ mode = "run" /\ answer = << >>
  BY DEF Init
<1>2. MapInv
  BY <1>1, InitTable DEF MapInv
<1>3. MapOf(chains) = [k \in Hashable \ {NAN} |-> NIL] /\ NaNs(chains) = {}
  BY <1>1, NoChainsMap
<1>4. Cardinality(NaNs(chains)) = 0
  BY <1>3, FS_EmptySet
<1>5. Map!Init
  BY <1>1, <1>3, <1>4 DEF Map!Init, Map!Findable, MapOf, NaNs
<1>6. QED BY <1>2, <1>5

(* Whatever the hash function and the collisions in its chains, a run-time  *)
(* table behaves as a mapping: avm_tablegetelem finds under a key the value *)
(* that avm_tablesetelem bound last, a deletion uncovers no older value,    *)
(* collect_table_members finds every bound key once and every binding of    *)
(* NaN, and objectcopy ends with a table of the same mapping.               *)
THEOREM TableMapImplemented == Spec => ImplementsTableMap
<1>1. Init => MapInv /\ Map!Init
  BY InitMaps
<1>2. MapInv /\ [Next]_vars => MapInv' /\ [Map!Next]_Map!vars
  BY NextMaps
<1>3. QED BY <1>1, <1>2, PTL DEF Spec, ImplementsTableMap, Map!Spec

(* The same, when the program prints the table between its operations.      *)
THEOREM PrintedTableIsMap == PrintSpec => ImplementsTableMap
<1>1. PrintInit => MapInv /\ Map!Init
  BY InitMaps DEF PrintInit
<1>2. MapInv /\ [PrintNext]_allvars => MapInv' /\ [Map!Next]_Map!vars
  BY PrintNextMaps
<1>3. QED BY <1>1, <1>2, PTL DEF PrintSpec, ImplementsTableMap, Map!Spec

-----------------------------------------------------------------------------
(* Type correctness: no chain ever holds nil, and what a table answers is a *)
(* value, a number or a list of keys.                                       *)
TypeInv == MapInv /\ TypeOK

LEMMA TypeHolds ==
  ASSUME MapInv
  PROVE  chains \in [1 .. Chains -> Seq(Pair)] /\ copy \in [1 .. Chains -> Seq(Pair)]
BY DEF MapInv, TableInv, SoundTable, SoundChain

LEMMA AnswerType ==
  ASSUME MapInv, NEW Answers, Answers = Seq(Keys \cup Values \cup {NIL} \cup Nat)
  PROVE  /\ << >> \in Answers /\ <<NIL>> \in Answers
         /\ \A k \in Keys : <<Lookup(chains, k)>> \in Answers
         /\ <<Len(Collected)>> \in Answers
         /\ [i \in DOMAIN Collected |-> Collected[i].key] \in Answers
<1>1. PICK all, coll, m : all = FlattenSeq(chains) /\ coll = Collected /\ m = Len(coll)
  OBVIOUS
<1>2. m \in Nat /\ coll \in Seq(Pair) /\ DOMAIN coll = 1 .. m
  <2>1. m \in Nat /\ DOMAIN coll = 1 .. m
    BY <1>1, CollectedMembers
  <2>2. coll \in Seq(Pair)
    BY <1>1, CollectedMembers
  <2>3. QED BY <2>1, <2>2
<1>3. \A k \in Keys : Lookup(chains, k) \in Values \cup {NIL}
  BY LookupMaps
<1>4. \A i \in 1 .. m : coll[i].key \in Keys
  <2>1. \A i \in 1 .. m : coll[i] \in Pair
    BY <1>2
  <2>2. QED BY <2>1 DEF Pair
<1>5. PICK A : A = Keys \cup Values \cup {NIL} \cup Nat
  OBVIOUS
<1>6. Answers = Seq(A) /\ NIL \in A /\ m \in A /\ (\A k \in Keys : Lookup(chains, k) \in A)
      /\ \A i \in 1 .. m : coll[i].key \in A
  BY <1>2, <1>3, <1>4, <1>5
<1>7. [i \in 1 .. m |-> coll[i].key] \in Seq(A)
  BY <1>2, <1>6
<1>8. [i \in DOMAIN Collected |-> Collected[i].key] \in Answers
  BY <1>1, <1>2, <1>6, <1>7
<1>9. << >> \in Answers /\ <<NIL>> \in Answers /\ <<Len(Collected)>> \in Answers
  BY <1>1, <1>6
<1>10. ASSUME NEW k \in Keys
       PROVE  <<Lookup(chains, k)>> \in Answers
  <2>1. PICK l \in A : l = Lookup(chains, k)
    BY <1>6
  <2>2. Answers = Seq(A)
    BY <1>6
  <2>3. <<l>> \in Seq(A)
    OBVIOUS
  <2>4. QED BY <2>1, <2>2, <2>3
<1>11. QED BY <1>8, <1>9, <1>10

LEMMA NextType == TypeInv /\ [PrintNext]_allvars => TypeInv'
<1> SUFFICES ASSUME TypeInv, [PrintNext]_allvars PROVE TypeInv'
  OBVIOUS
<1>1. MapInv /\ MapInv'
  BY PrintNextMaps DEF TypeInv
<1>2. chains' \in [1 .. Chains -> Seq(Pair)] /\ copy' \in [1 .. Chains -> Seq(Pair)]
  <2>1. (chains \in [1 .. Chains -> Seq(Pair)] /\ copy \in [1 .. Chains -> Seq(Pair)])'
    BY <1>1 DEF MapInv, TableInv, SoundTable, SoundChain
  <2>2. QED BY <2>1
<1>3. PICK Answers : Answers = Seq(Keys \cup Values \cup {NIL} \cup Nat)
  OBVIOUS
<1>4. /\ << >> \in Answers /\ <<NIL>> \in Answers
      /\ \A k \in Keys : <<Lookup(chains, k)>> \in Answers
      /\ <<Len(Collected)>> \in Answers
      /\ [i \in DOMAIN Collected |-> Collected[i].key] \in Answers
  BY <1>1, <1>3, AnswerType
<1>5. chain \in 1 .. Chains + 1 /\ pos \in Nat \ {0} /\ mode \in {"run", "copy"}
      /\ answer \in Answers /\ Chains \in Nat
  BY <1>3, TableAssumption DEF TypeInv, TypeOK
<1> DEFINE Typed == /\ chain' \in 1 .. Chains + 1 /\ pos' \in Nat \ {0}
                    /\ mode' \in {"run", "copy"} /\ answer' \in Answers
<1>6. ASSUME NEW k \in Keys, NEW v \in Values \cup {NIL}, SetElem(k, v)
      PROVE  Typed
  BY <1>4, <1>5, <1>6 DEF SetElem
<1>7. ASSUME NEW k \in Keys, GetElem(k)
      PROVE  Typed
  BY <1>4, <1>5, <1>7 DEF GetElem
<1>8. ASSUME TotalMembers \/ MemberKeys \/ PrintStart
      PROVE  Typed
  BY <1>4, <1>5, <1>8 DEF TotalMembers, MemberKeys, PrintStart
<1>9. ASSUME CopyStart \/ CopyBinding \/ CopyNextChain \/ CopyEnd
      PROVE  Typed
  BY <1>5, <1>9 DEF CopyStart, CopyBinding, CopyNextChain, CopyEnd
<1>10. ASSUME UNCHANGED vars
      PROVE  Typed
  BY <1>5, <1>10 DEF vars
<1>11. Typed
  <2> HIDE DEF Typed
  <2>1. Next \/ PrintStart \/ UNCHANGED vars
    BY DEF PrintNext, TableNext, PrintStep, ShowElement, ShowKey, ShowValue, Close, PrintEnd,
           Printing, allvars
  <2>2. QED BY <1>6, <1>7, <1>8, <1>9, <1>10, <2>1 DEF Next
<1>12. QED BY <1>1, <1>2, <1>3, <1>11 DEF TypeInv, TypeOK

(* For any keys and values, chains hold bindings of keys to values and never *)
(* to nil, also while objectcopy runs and after it, and an answer is a value *)
(* that was bound, nil, a number of members or a list of keys.               *)
THEOREM TableTypeCorrect == PrintSpec => []TypeOK
<1>1. PrintInit => TypeInv
  <2> SUFFICES ASSUME PrintInit PROVE TypeInv
    OBVIOUS
  <2>1. MapInv
    BY InitMaps DEF PrintInit
  <2>2. chain = 1 /\ pos = 1 /\ mode = "run" /\ answer = << >> /\ Chains \in Nat
    BY TableAssumption DEF PrintInit, Init
  <2>3. QED BY <2>1, <2>2, TypeHolds DEF TypeInv, TypeOK
<1>2. TypeInv /\ [PrintNext]_allvars => TypeInv'
  BY NextType
<1>3. QED BY <1>1, <1>2, PTL DEF PrintSpec, TypeInv

-----------------------------------------------------------------------------
(* How deep printing goes.                                                  *)

(* What is in a table is nested in it. *)
LEMMA WithinIsNested == \A m : Within(m) \subseteq Nested(m)
BY DEF Nested, Within

(* What is nested in a table that is nested in another one is in that one. *)
LEMMA NestedTransitive == \A m : \A c \in Nested(m) : Nested(Inner[c]) \subseteq Nested(m)
<1> SUFFICES ASSUME NEW m, NEW c \in Nested(m), NEW x \in Nested(Inner[c]) PROVE x \in Nested(m)
  OBVIOUS
<1>1. c \in DOMAIN Inner /\ x \in DOMAIN Inner
  BY DEF Nested
<1>2. ASSUME NEW S \in SUBSET DOMAIN Inner, Within(m) \subseteq S, IsClosed(S)
      PROVE  x \in S
  <2>1. c \in S
    BY <1>2 DEF Nested
  <2>2. Within(Inner[c]) \subseteq S
    BY <1>2, <2>1 DEF IsClosed
  <2>3. QED BY <1>2, <2>2 DEF Nested
<1>3. QED BY <1>1, <1>2 DEF Nested

(* A set of numbers has a first one. *)
LEMMA FirstIs ==
  ASSUME NEW S \in SUBSET Nat, S # {}
  PROVE  First(S) \in S
<1>1. PICK R : R = OpToRel(<, Nat) /\ IsWellFoundedOn(R, Nat)
  BY NatLessThanWellFounded
<1>2. \A x, y \in Nat : <<x, y>> \in R <=> x < y
  BY <1>1 DEF OpToRel
<1>3. PICK m \in S : \A y \in S : ~(<<y, m>> \in R)
  BY <1>1, WFMin
<1>4. ASSUME NEW y \in S
      PROVE  m <= y
  <2>1. m \in Nat /\ y \in Nat
    OBVIOUS
  <2>2. ~(y < m)
    BY <1>2, <1>3, <2>1
  <2>3. QED BY <2>1, <2>2
<1>5. QED BY <1>4 DEF First

(* The calls of table_tostring_rec, the members that are collected, and the *)
(* tables in one of these.                                                  *)
Calls == [i : Nat, compact : BOOLEAN, part : {"key", "value"}]
Members == Pair \cup UNION {Range(Inner[c]) : c \in DOMAIN Inner}
TablesOf(m) == {c \in DOMAIN Inner : c = m.key \/ c = m.value}

(* t[k] is the table that call k prints; the first call prints the table    *)
(* with members all.                                                        *)
Reach(t, k, all) == Nested(IF k = 1 THEN all ELSE Inner[t[k]])
IsPath(t, d, all) ==
  /\ t \in [2 .. d -> DOMAIN Inner]
  /\ \A k \in 2 .. d : \A j \in 1 .. k - 1 : t[k] \in Reach(t, j, all)

(* What is in the buffer is nested in the table that is printed last; what a *)
(* loop will still take out of it, in the table of that loop.                *)
Apart(t, all, fr, b, n) ==
  /\ IsPath(t, Len(fr), all)
  /\ Len(fr) >= 1 => \A i \in 1 .. n : TablesOf(b[i]) \subseteq Reach(t, Len(fr), all)
  /\ \A k \in 1 .. Len(fr) : fr[k].part = "value" =>
       /\ fr[k].i + 1 \in DOMAIN b
       /\ TablesOf(b[fr[k].i + 1]) \subseteq Reach(t, k, all)

(* Deeper calls reach less. *)
LEMMA ReachShrinks ==
  ASSUME NEW t, NEW d \in Nat, NEW all, IsPath(t, d, all), NEW k \in 1 .. d, NEW j \in 1 .. k
  PROVE  Reach(t, k, all) \subseteq Reach(t, j, all)
<1>1. CASE j = k
  BY <1>1
<1>2. CASE j # k
  <2>1. k \in 2 .. d /\ j \in 1 .. k - 1 /\ k # 1
    BY <1>2
  <2>2. t[k] \in Reach(t, j, all)
    BY <2>1 DEF IsPath
  <2>3. Reach(t, k, all) = Nested(Inner[t[k]])
    BY <2>1 DEF Reach
  <2>4. QED BY <2>2, <2>3, NestedTransitive DEF Reach
<1>3. QED BY <1>1, <1>2

(* A loop that goes on. *)
LEMMA GoesOn ==
  ASSUME NEW t, NEW all, NEW fr \in Seq(Calls), fr # << >>, NEW b \in Seq(Members),
         NEW n \in 0 .. Len(b), Apart(t, all, fr, b, n), NEW f \in Calls,
         f.part = "value" =>
           f.i + 1 \in DOMAIN b /\ TablesOf(b[f.i + 1]) \subseteq Reach(t, Len(fr), all),
         NEW g, g = [fr EXCEPT ![Len(fr)] = f]
  PROVE  g \in Seq(Calls) /\ Len(g) = Len(fr) /\ Apart(t, all, g, b, n)
<1>1. PICK d \in Nat : d = Len(fr) /\ d >= 1 /\ DOMAIN fr = 1 .. d
  OBVIOUS
<1>2. g = [fr EXCEPT ![d] = f]
  BY <1>1
<1>3. g \in Seq(Calls) /\ Len(g) = d /\ \A k \in 1 .. d : g[k] = IF k = d THEN f ELSE fr[k]
  BY <1>1, <1>2
<1>4. IsPath(t, d, all) /\ \A i \in 1 .. n : TablesOf(b[i]) \subseteq Reach(t, d, all)
  BY <1>1 DEF Apart
<1>5. ASSUME NEW k \in 1 .. d, g[k].part = "value"
      PROVE  g[k].i + 1 \in DOMAIN b /\ TablesOf(b[g[k].i + 1]) \subseteq Reach(t, k, all)
  <2>1. CASE k = d
    BY <1>1, <1>3, <1>5, <2>1
  <2>2. CASE k # d
    BY <1>1, <1>3, <1>5, <2>2 DEF Apart
  <2>3. QED BY <2>1, <2>2
<1>6. Apart(t, all, g, b, n)
  BY <1>3, <1>4, <1>5 DEF Apart
<1>7. QED BY <1>1, <1>2, <1>3, <1>6

(* A call that returns. *)
LEMMA Returned ==
  ASSUME NEW t, NEW all, NEW fr \in Seq(Calls), fr # << >>, NEW b \in Seq(Members),
         NEW n \in 0 .. Len(b), Apart(t, all, fr, b, n)
  PROVE  Front(fr) \in Seq(Calls) /\ \E u : Apart(u, all, Front(fr), b, n)
<1>1. PICK d \in Nat : d = Len(fr) /\ d >= 1 /\ DOMAIN fr = 1 .. d
  OBVIOUS
<1>2. PICK g : g = Front(fr)
  OBVIOUS
<1>3. g \in Seq(Calls) /\ Len(g) = d - 1 /\ \A k \in 1 .. d - 1 : g[k] = fr[k]
  BY <1>1, <1>2 DEF Front
<1>4. PICK u : u = [k \in 2 .. d - 1 |-> t[k]]
  OBVIOUS
<1>5. IsPath(t, d, all) /\ \A i \in 1 .. n : TablesOf(b[i]) \subseteq Reach(t, d, all)
  BY <1>1 DEF Apart
<1>6. \A k \in 1 .. d - 1 : Reach(u, k, all) = Reach(t, k, all)
  BY <1>1, <1>4 DEF Reach
<1>7. IsPath(u, d - 1, all)
  <2>1. u \in [2 .. d - 1 -> DOMAIN Inner]
    BY <1>1, <1>4, <1>5 DEF IsPath
  <2>2. ASSUME NEW k \in 2 .. d - 1, NEW j \in 1 .. k - 1
        PROVE  u[k] \in Reach(u, j, all)
    <3>1. j \in 1 .. d - 1 /\ k \in 2 .. d /\ u[k] = t[k]
      BY <1>1, <1>4
    <3>2. QED BY <1>5, <1>6, <3>1 DEF IsPath
  <2>3. QED BY <2>1, <2>2 DEF IsPath
<1>8. ASSUME d - 1 >= 1, NEW i \in 1 .. n
      PROVE  TablesOf(b[i]) \subseteq Reach(u, d - 1, all)
  <2>1. d \in 1 .. d /\ d - 1 \in 1 .. d /\ d - 1 \in 1 .. d - 1
    BY <1>1, <1>8
  <2>2. Reach(t, d, all) \subseteq Reach(t, d - 1, all)
    BY <1>5, <2>1, ReachShrinks
  <2>3. QED BY <1>5, <1>6, <2>1, <2>2
<1>9. ASSUME NEW k \in 1 .. d - 1, g[k].part = "value"
      PROVE  g[k].i + 1 \in DOMAIN b /\ TablesOf(b[g[k].i + 1]) \subseteq Reach(u, k, all)
  <2>1. k \in 1 .. d
    BY <1>1
  <2>2. QED BY <1>1, <1>3, <1>6, <1>9, <2>1 DEF Apart
<1>10. Apart(u, all, g, b, n)
  BY <1>3, <1>7, <1>8, <1>9 DEF Apart
<1>11. QED BY <1>2, <1>3, <1>10

(* What is collected of the members of a table. *)
LEMMA BufferIs ==
  ASSUME NEW S, NEW m \in Seq(S)
  PROVE  /\ Buffer(m) \in Seq(S)
         /\ \A j \in 1 .. Len(Buffer(m)) : j \in DOMAIN m /\ Buffer(m)[j] = m[j]
<1>1. PICK n \in Nat : n = Len(m)
  OBVIOUS
<1>2. PICK l \in Nat : l = (IF n <= COLLECTED THEN n ELSE COLLECTED) /\ l <= n
  BY TableAssumption
<1>3. Buffer(m) = SubSeq(m, 1, l)
  BY <1>1, <1>2 DEF Buffer
<1>4. QED BY <1>1, <1>2, <1>3

(* c consists of m and, behind it, of the rest of b. *)
MadeOf(c, m, b) ==
  \A j \in DOMAIN c : \/ j \in 1 .. Len(m) /\ c[j] = m[j]
                      \/ j \in DOMAIN b /\ c[j] = b[j]

(* The buffer after a collection: the members, and behind them what was     *)
(* there.                                                                   *)
LEMMA Overwriting ==
  ASSUME NEW S, NEW b \in Seq(S), NEW m \in Seq(S),
         NEW c, c = m \o SubSeq(b, Len(m) + 1, Len(b))
  PROVE  /\ c \in Seq(S) /\ Len(m) \in 0 .. Len(c) /\ DOMAIN b \subseteq DOMAIN c
         /\ MadeOf(c, m, b) /\ \A j \in 1 .. Len(m) : c[j] = m[j]
<1>1. PICK x \in Nat, y \in Nat : x = Len(m) /\ y = Len(b) /\ DOMAIN m = 1 .. x /\ DOMAIN b = 1 .. y
  OBVIOUS
<1>2. PICK r : r = SubSeq(b, x + 1, y)
  OBVIOUS
<1>3. c = m \o r
  BY <1>1, <1>2
<1>4. r \in Seq(S) /\ Len(r) = (IF x < y THEN y - x ELSE 0)
      /\ \A j \in 1 .. Len(r) : r[j] = b[x + j]
  BY <1>1, <1>2
<1>5. PICK z \in Nat : z = Len(r)
  BY <1>4
<1>6. c \in Seq(S) /\ Len(c) = x + z /\ DOMAIN c = 1 .. x + z
  <2>1. r \in Seq(S) /\ m \in Seq(S)
    BY <1>4
  <2>2. c \in Seq(S) /\ Len(c) = Len(m) + Len(r)
    BY <1>3, <2>1, ConcatProperties
  <2>3. DOMAIN c = 1 .. Len(c)
    BY <2>2
  <2>4. QED BY <1>1, <1>5, <2>2, <2>3
<1>7. \A j \in 1 .. x : c[j] = m[j]
  BY <1>1, <1>3, <1>4, <1>5
<1>8. ASSUME NEW j \in 1 .. x + z, ~(j <= x)
      PROVE  j \in 1 .. y /\ c[j] = b[j]
  <2>1. PICK k \in 1 .. z : k = j - x /\ x + k = j
    BY <1>8
  <2>2. z = (IF x < y THEN y - x ELSE 0) /\ r[k] = b[x + k]
    BY <1>4, <1>5
  <2>3. j \in 1 .. y
    BY <2>1, <2>2
  <2>4. c[x + k] = r[k]
    <3>1. r \in Seq(S) /\ m \in Seq(S) /\ c = m \o r
      BY <1>3, <1>4
    <3>2. \A i \in 1 .. Len(m) + Len(r) : c[i] = IF i <= Len(m) THEN m[i] ELSE r[i - Len(m)]
      BY <3>1, ConcatProperties
    <3>3. j \in 1 .. Len(m) + Len(r) /\ ~(j <= Len(m)) /\ j - Len(m) = k
      BY <1>1, <1>5, <1>8, <2>1
    <3>4. QED BY <2>1, <3>2, <3>3
  <2>5. QED BY <2>1, <2>2, <2>3, <2>4
<1>9. ASSUME NEW j \in 1 .. x + z
      PROVE  \/ j \in 1 .. x /\ c[j] = m[j]
             \/ j \in 1 .. y /\ c[j] = b[j]
  <2>1. CASE j <= x
    BY <1>1, <1>7, <2>1
  <2>2. CASE ~(j <= x)
    BY <1>8, <2>2
  <2>3. QED BY <2>1, <2>2
<1>10. \A j \in 1 .. y : j \in 1 .. x + z
  BY <1>4, <1>5
<1>11. x \in 0 .. x + z
  OBVIOUS
<1>12. MadeOf(c, m, b)
  BY <1>1, <1>6, <1>9 DEF MadeOf
<1>13. QED BY <1>1, <1>6, <1>7, <1>10, <1>11, <1>12

(* A call for a table that is within the one being printed. *)
LEMMA Entered ==
  ASSUME NEW t, NEW all, NEW fr \in Seq(Calls), fr # << >>, NEW b \in Seq(Members),
         NEW n \in 0 .. Len(b), Apart(t, all, fr, b, n), NEW c \in Reach(t, Len(fr), all),
         NEW m, m = Buffer(Inner[c]), NEW g \in Calls, g.part = "key",
         NEW b2, b2 = m \o SubSeq(b, Len(m) + 1, Len(b))
  PROVE  /\ b2 \in Seq(Members) /\ Len(m) \in 0 .. Len(b2) /\ Append(fr, g) \in Seq(Calls)
         /\ \E u : Apart(u, all, Append(fr, g), b2, Len(m))
<1>1. PICK d \in Nat : d = Len(fr) /\ d >= 1 /\ DOMAIN fr = 1 .. d
  OBVIOUS
<1>2. c \in DOMAIN Inner
  BY DEF Reach, Nested
<1>3. Inner[c] \in Seq(Members)
  <2>1. Inner[c] \in Seq(Range(Inner[c]))
    BY <1>2, PrintAssumption
  <2>2. Range(Inner[c]) \subseteq Members
    BY <1>2 DEF Members
  <2>3. QED BY <2>1, <2>2
<1>4. /\ m \in Seq(Members)
      /\ \A j \in 1 .. Len(m) : j \in DOMAIN Inner[c] /\ m[j] = Inner[c][j]
  BY <1>3, BufferIs
<1>5. /\ b2 \in Seq(Members) /\ Len(m) \in 0 .. Len(b2) /\ DOMAIN b \subseteq DOMAIN b2
      /\ \A j \in DOMAIN b2 : \/ j \in 1 .. Len(m) /\ b2[j] = m[j]
                              \/ j \in DOMAIN b /\ b2[j] = b[j]
      /\ \A j \in 1 .. Len(m) : b2[j] = m[j]
  <2>1. m \in Seq(Members) /\ b \in Seq(Members) /\ b2 = m \o SubSeq(b, Len(m) + 1, Len(b))
    BY <1>4
  <2>2. b2 \in Seq(Members) /\ Len(m) \in 0 .. Len(b2) /\ DOMAIN b \subseteq DOMAIN b2
    BY ONLY <2>1, Overwriting
  <2>3. MadeOf(b2, m, b)
    BY ONLY <2>1, Overwriting
  <2>4. \A j \in 1 .. Len(m) : b2[j] = m[j]
    BY ONLY <2>1, Overwriting
  <2>5. QED BY <2>2, <2>3, <2>4 DEF MadeOf
<1>6. PICK h : h = Append(fr, g)
  OBVIOUS
<1>7. /\ h \in Seq(Calls) /\ Len(h) = d + 1
      /\ \A k \in 1 .. d + 1 : h[k] = IF k = d + 1 THEN g ELSE fr[k]
  BY <1>1, <1>6
<1>8. PICK u : u = [k \in 2 .. d + 1 |-> IF k = d + 1 THEN c ELSE t[k]]
  OBVIOUS
<1>9. /\ \A k \in 2 .. d : u[k] = t[k]
      /\ u[d + 1] = c
  BY <1>1, <1>8
<1>10. \A k \in 1 .. d : Reach(u, k, all) = Reach(t, k, all)
  BY <1>1, <1>9 DEF Reach
<1>11. Reach(u, d + 1, all) = Nested(Inner[c])
  BY <1>1, <1>9 DEF Reach
<1>12. IsPath(t, d, all)
  BY <1>1 DEF Apart
<1>13. \A k \in 1 .. d : c \in Reach(t, k, all)
  <2>1. ASSUME NEW k \in 1 .. d PROVE c \in Reach(t, k, all)
    <3>1. d \in 1 .. d /\ k \in 1 .. d
      BY <1>1
    <3>2. QED BY <1>1, <1>12, <3>1, ReachShrinks
  <2>2. QED BY <2>1
<1>14. IsPath(u, d + 1, all)
  <2>1. u \in [2 .. d + 1 -> DOMAIN Inner]
    <3>1. \A k \in 2 .. d : t[k] \in DOMAIN Inner
      BY <1>12 DEF IsPath
    <3>2. \A k \in 2 .. d + 1 : k # d + 1 => k \in 2 .. d
      BY <1>1
    <3>3. QED BY <1>2, <1>8, <3>1, <3>2
  <2>2. ASSUME NEW k \in 2 .. d + 1, NEW j \in 1 .. k - 1
        PROVE  u[k] \in Reach(u, j, all)
    <3>1. j \in 1 .. d /\ (k # d + 1 => k \in 2 .. d)
      BY <1>1
    <3>2. CASE k = d + 1
      BY <1>9, <1>10, <1>13, <3>1, <3>2
    <3>3. CASE k # d + 1
      BY <1>9, <1>10, <1>12, <3>1, <3>3 DEF IsPath
    <3>4. QED BY <3>2, <3>3
  <2>3. QED BY <2>1, <2>2 DEF IsPath
<1>15. \A j \in 1 .. Len(m) : TablesOf(b2[j]) \subseteq Nested(Inner[c])
  <2>1. ASSUME NEW j \in 1 .. Len(m) PROVE TablesOf(b2[j]) \subseteq Nested(Inner[c])
    <3>1. j \in DOMAIN Inner[c] /\ b2[j] = Inner[c][j]
      BY <1>4, <1>5
    <3>2. TablesOf(b2[j]) \subseteq Within(Inner[c])
      BY <3>1 DEF TablesOf, Within
    <3>3. QED BY <3>2, WithinIsNested
  <2>2. QED BY <2>1
<1>16. ASSUME NEW k \in 1 .. d + 1, h[k].part = "value"
       PROVE  h[k].i + 1 \in DOMAIN b2 /\ TablesOf(b2[h[k].i + 1]) \subseteq Reach(u, k, all)
  <2>1. k # d + 1
    BY <1>7, <1>16
  <2>2. k \in 1 .. d /\ h[k] = fr[k]
    BY <1>1, <1>7, <2>1
  <2>3. PICK i : i = h[k].i + 1
    OBVIOUS
  <2>4. i \in DOMAIN b /\ TablesOf(b[i]) \subseteq Reach(t, k, all)
    BY <1>1, <1>16, <2>2, <2>3 DEF Apart
  <2>5. i \in DOMAIN b2
    BY <1>5, <2>4
  <2>6. CASE i \in 1 .. Len(m)
    <3>1. TablesOf(b2[i]) \subseteq Nested(Inner[c])
      BY <1>15, <2>6
    <3>2. c \in Reach(t, k, all)
      BY <1>13, <2>2
    <3>3. Nested(Inner[c]) \subseteq Reach(t, k, all)
      BY <3>2, NestedTransitive DEF Reach
    <3>4. QED BY <1>10, <2>2, <2>3, <2>5, <3>1, <3>3
  <2>7. CASE i \notin 1 .. Len(m)
    <3>1. b2[i] = b[i]
      BY <1>5, <2>5, <2>7
    <3>2. QED BY <1>10, <2>2, <2>3, <2>4, <2>5, <3>1
  <2>8. QED BY <2>6, <2>7
<1>17. Apart(u, all, h, b2, Len(m))
  <2>1. Len(h) = d + 1 /\ IsPath(u, Len(h), all)
    BY <1>7, <1>14
  <2>2. \A i \in 1 .. Len(m) : TablesOf(b2[i]) \subseteq Reach(u, Len(h), all)
    BY <1>11, <1>15, <2>1
  <2>3. \A k \in 1 .. Len(h) : h[k].part = "value" =>
          /\ h[k].i + 1 \in DOMAIN b2
          /\ TablesOf(b2[h[k].i + 1]) \subseteq Reach(u, k, all)
    BY <1>16, <2>1
  <2>4. QED BY <2>1, <2>2, <2>3 DEF Apart
<1>18. QED BY <1>5, <1>6, <1>7, <1>17

(* More calls than there are tables, and still a table to print. *)
LEMMA TooDeep ==
  ASSUME NEW t, NEW all, NEW d \in Nat, IsPath(t, d, all), MaxDepth <= d, NEW c \in Reach(t, d, all)
  PROVE  \E x \in Nested(all) : x \in Nested(Inner[x])
<1>1. /\ IsFiniteSet(DOMAIN Inner) /\ Cardinality(DOMAIN Inner) \in Nat
      /\ Cardinality(DOMAIN Inner) < d
  BY PrintAssumption, FS_CardinalityType
<1>2. d >= 1
  BY <1>1
<1>3. PICK u : u = [k \in 2 .. d + 1 |-> IF k = d + 1 THEN c ELSE t[k]]
  OBVIOUS
<1>4. c \in DOMAIN Inner
  BY DEF Reach, Nested
<1>5. u \in [2 .. d + 1 -> DOMAIN Inner]
  <2>1. \A k \in 2 .. d : t[k] \in DOMAIN Inner
    BY DEF IsPath
  <2>2. \A k \in 2 .. d + 1 : k # d + 1 => k \in 2 .. d
    OBVIOUS
  <2>3. QED BY <1>3, <1>4, <2>1, <2>2
<1>6. ASSUME NEW k \in 2 .. d + 1, NEW j \in 1 .. k - 1
      PROVE  u[k] \in Reach(t, j, all)
  <2>1. CASE k = d + 1
    <3>1. j \in 1 .. d /\ d \in 1 .. d /\ u[k] = c
      BY <1>2, <1>3, <2>1
    <3>2. QED BY <3>1, ReachShrinks
  <2>2. CASE k # d + 1
    <3>1. k \in 2 .. d /\ u[k] = t[k]
      BY <1>3, <2>2
    <3>2. QED BY <3>1 DEF IsPath
  <2>3. QED BY <2>1, <2>2
<1>7. IsFiniteSet(2 .. d + 1) /\ Cardinality(2 .. d + 1) = d
  BY <1>2, FS_Interval
<1>8. PICK x, y \in 2 .. d + 1 : x # y /\ u[x] = u[y]
  BY <1>1, <1>5, <1>7, FS_PigeonHole
<1>9. ASSUME NEW v \in 2 .. d + 1, NEW w \in 2 .. d + 1, v < w, u[v] = u[w]
      PROVE  u[v] \in Nested(all) /\ u[v] \in Nested(Inner[u[v]])
  <2>1. v \in 1 .. w - 1 /\ 1 \in 1 .. v - 1 /\ v # 1 /\ v # d + 1
    BY <1>9
  <2>2. u[v] \in Reach(t, 1, all)
    BY <1>6, <2>1
  <2>3. u[v] \in Reach(t, v, all)
    BY <1>6, <1>9, <2>1
  <2>4. u[v] = t[v]
    BY <1>3, <2>1
  <2>5. QED BY <2>1, <2>2, <2>3, <2>4 DEF Reach
<1>10. CASE x < y
  BY <1>8, <1>9, <1>10
<1>11. CASE y < x
  BY <1>8, <1>9, <1>11
<1>12. QED BY <1>8, <1>10, <1>11

(* What printing keeps. *)
Buffered ==
  /\ phase \in {"idle", "print", "crash"}
  /\ frames \in Seq(Calls) /\ collected \in Seq(Members) /\ collected_n \in 0 .. Len(collected)
  /\ phase = "print" => \E t : Apart(t, All, frames, collected, collected_n)
DepthInv == MapInv /\ Buffered /\ CrashNeedsCycle

(* cell_tostring_rec of a cell with nothing but what the table holds.       *)
LEMMA ShowKeeps ==
  ASSUME Buffered, phase = "print", frames # << >>, chains' = chains,
         NEW t, Apart(t, All, frames, collected, collected_n),
         NEW f \in Calls,
         f.part = "value" =>
           /\ f.i + 1 \in DOMAIN collected
           /\ TablesOf(collected[f.i + 1]) \subseteq Reach(t, Len(frames), All),
         NEW c, IsTable(c) => c \in Reach(t, Len(frames), All), Show(c, f)
  PROVE  Buffered' /\ CrashNeedsCycle'
<1>1. All' = All
  BY DEF All
<1>2. PICK d \in Nat : d = Len(frames) /\ d = Depth /\ d >= 1
  <2>1. frames \in Seq(Calls)
    BY DEF Buffered
  <2>2. QED BY <2>1 DEF Depth
<1>3. PICK below : below = [frames EXCEPT ![d] = f]
  OBVIOUS
<1>4. below \in Seq(Calls) /\ Len(below) = d /\ below # << >>
      /\ Apart(t, All, below, collected, collected_n)
  <2>1. below \in Seq(Calls) /\ Len(below) = d /\ Apart(t, All, below, collected, collected_n)
    <3>1. PICK fr, b, n, all : /\ fr = frames /\ b = collected /\ n = collected_n /\ all = All
                               /\ fr \in Seq(Calls) /\ b \in Seq(Members) /\ n \in 0 .. Len(b)
      BY DEF Buffered
    <3>2. /\ fr # << >> /\ Len(fr) = d /\ below = [fr EXCEPT ![Len(fr)] = f]
          /\ Apart(t, all, fr, b, n)
          /\ f.part = "value" =>
               f.i + 1 \in DOMAIN b /\ TablesOf(b[f.i + 1]) \subseteq Reach(t, Len(fr), all)
      BY <1>2, <1>3, <3>1
    <3>3. fr \in Seq(Calls) /\ b \in Seq(Members) /\ n \in 0 .. Len(b) /\ f \in Calls
      BY <3>1
    <3>4. below \in Seq(Calls)
      BY <3>2, <3>3, GoesOn
    <3>5. Len(below) = Len(fr)
      BY <3>2, <3>3, GoesOn
    <3>6. Apart(t, all, below, b, n)
      BY <3>2, <3>3, GoesOn
    <3>7. QED BY <3>1, <3>2, <3>4, <3>5, <3>6
  <2>2. QED BY <1>2, <2>1
<1>5. [frames EXCEPT ![Depth] = f] = below
  BY <1>2, <1>3
<1>6. CASE ~IsTable(c)
  <2>1. frames' = below /\ phase' = phase /\ collected' = collected /\ collected_n' = collected_n
    BY <1>5, <1>6 DEF Show
  <2>2. QED BY <1>1, <1>4, <2>1 DEF Buffered, CrashNeedsCycle
<1>7. CASE IsTable(c) /\ Depth < MaxDepth
  <2>1. Enter(Inner[c], below)
    <3>1. ~(Depth >= MaxDepth)
      BY <1>2, <1>7, PrintAssumption
    <3>2. Enter(Inner[c], [frames EXCEPT ![Depth] = f])
      BY <1>7, <3>1, Zenon DEF Show
    <3>3. QED BY <1>5, <3>2
  <2>2. PICK m : m = Buffer(Inner[c])
    OBVIOUS
  <2>3. PICK g : g = [i |-> 0, compact |-> IsCompact(m), part |-> "key"]
    OBVIOUS
  <2>4. g \in Calls /\ g.part = "key"
    BY <2>3 DEF Calls, IsCompact
  <2>5. /\ collected' = m \o SubSeq(collected, Len(m) + 1, Len(collected))
        /\ collected_n' = Len(m) /\ frames' = Append(below, g) /\ phase' = phase
    BY <2>1, <2>2, <2>3 DEF Enter, Over
  <2>6. c \in Reach(t, Len(below), All)
    BY <1>2, <1>4, <1>7
  <2>7. /\ collected' \in Seq(Members) /\ Len(m) \in 0 .. Len(collected')
        /\ Append(below, g) \in Seq(Calls)
        /\ \E u : Apart(u, All, Append(below, g), collected', Len(m))
    BY <1>4, <2>2, <2>4, <2>5, <2>6, Entered DEF Buffered
  <2>8. QED BY <1>1, <2>5, <2>7 DEF Buffered, CrashNeedsCycle
<1>8. CASE IsTable(c) /\ Depth >= MaxDepth
  <2>1. /\ phase' = "crash" /\ frames' = frames /\ collected' = collected
        /\ collected_n' = collected_n
    BY <1>5, <1>2, <1>8, PrintAssumption DEF Show
  <2>2. IsPath(t, d, All) /\ c \in Reach(t, d, All) /\ MaxDepth <= d
    BY <1>2, <1>8, PrintAssumption DEF Apart
  <2>3. \E x \in Nested(All) : x \in Nested(Inner[x])
    BY <1>2, <2>2, TooDeep
  <2>4. QED BY <1>1, <2>1, <2>3 DEF Buffered, CrashNeedsCycle
<1>9. QED BY <1>6, <1>7, <1>8 DEF Show

(* value_at_index finds a collected value or nil. *)
LEMMA ValueAtIs ==
  ASSUME Buffered, NEW i
  PROVE  ValueAt(i) = NIL \/ \E j \in 1 .. collected_n : ValueAt(i) = collected[j].value
<1> DEFINE S == {j \in 1 .. collected_n : /\ collected[j].key \in DOMAIN IndexOf
                                          /\ IndexOf[collected[j].key] = i}
<1>1. CASE S = {}
  BY <1>1 DEF ValueAt
<1>2. CASE S # {}
  <2>1. ValueAt(i) = collected[First(S)].value
    BY <1>2 DEF ValueAt
  <2>2. S \in SUBSET Nat /\ S \subseteq 1 .. collected_n
    BY DEF Buffered
  <2> HIDE DEF S
  <2>3. First(S) \in S
    BY <1>2, <2>2, FirstIs
  <2>4. QED BY <2>1, <2>2, <2>3
<1>3. QED BY <1>1, <1>2

(* The loops take no table out of the buffer that is not in theirs. *)
LEMMA LoopKeeps ==
  ASSUME DepthInv, ShowElement \/ ShowKey \/ ShowValue
  PROVE  Buffered' /\ CrashNeedsCycle'
<1>1. /\ phase = "print" /\ frames # << >> /\ chains' = chains /\ Buffered
  BY DEF ShowElement, ShowKey, ShowValue, Printing, vars, DepthInv
<1>2. PICK d \in Nat : d = Len(frames) /\ d = Depth /\ d >= 1 /\ d \in 1 .. d /\ Frame = frames[d]
  BY <1>1 DEF Buffered, Depth, Frame
<1>3. PICK t : Apart(t, All, frames, collected, collected_n)
  BY <1>1 DEF Buffered
<1>4. frames[d] \in Calls
  <2>1. frames \in Seq(Calls) /\ d \in Nat /\ d = Len(frames) /\ d >= 1
    BY <1>1, <1>2 DEF Buffered
  <2>2. QED BY ONLY <2>1
<1>5. PICK i \in Nat, q \in BOOLEAN, p \in {"key", "value"} :
        frames[d] = [i |-> i, compact |-> q, part |-> p]
  BY <1>4 DEF Calls
<1>6. \A j \in 1 .. collected_n : TablesOf(collected[j]) \subseteq Reach(t, d, All)
  BY <1>2, <1>3 DEF Apart
<1>8. Next1 \in Calls /\ Next1.part = "key"
  <2>1. Frame = [i |-> i, compact |-> q, part |-> p]
    BY <1>2, <1>5
  <2>2. Next1 = [[i |-> i, compact |-> q, part |-> p] EXCEPT !.i = @ + 1, !.part = "key"]
    BY <2>1 DEF Next1
  <2>3. PICK g : g = Next1
    OBVIOUS
  <2>4. g = [i |-> i + 1, compact |-> q, part |-> "key"]
    BY ONLY <2>2, <2>3
  <2>5. g \in Calls /\ g.part = "key"
    BY <1>5, <2>4 DEF Calls
  <2>6. QED BY <2>3, <2>5
<1>9. CASE ShowElement
  <2>1. Show(ValueAt(i), Next1)
    BY <1>2, <1>5, <1>9 DEF ShowElement
  <2>2. IsTable(ValueAt(i)) => ValueAt(i) \in Reach(t, d, All)
    <3>1. ~IsTable(NIL)
      BY PrintAssumption DEF IsTable
    <3>2. SUFFICES ASSUME IsTable(ValueAt(i)) PROVE ValueAt(i) \in Reach(t, d, All)
      OBVIOUS
    <3>3. PICK j \in 1 .. collected_n : ValueAt(i) = collected[j].value
      BY <1>1, <3>1, <3>2, ValueAtIs
    <3>4. ValueAt(i) \in TablesOf(collected[j])
      BY <3>2, <3>3 DEF TablesOf, IsTable
    <3>5. QED BY <1>6, <3>3, <3>4
  <2>3. QED BY <1>1, <1>2, <1>3, <1>8, <2>1, <2>2, ShowKeeps
<1>10. CASE ShowKey
  <2>1. PICK f : f = [i |-> i, compact |-> q, part |-> "value"]
    OBVIOUS
  <2>2. f \in Calls /\ f.i = i
    BY <1>5, <2>1 DEF Calls
  <2>3. Show(collected[i + 1].key, f) /\ i < collected_n
    BY <1>2, <1>5, <1>10, <2>1 DEF ShowKey
  <2>4. i + 1 \in 1 .. collected_n /\ i + 1 \in DOMAIN collected
    BY <1>1, <2>3 DEF Buffered
  <2>5. TablesOf(collected[i + 1]) \subseteq Reach(t, d, All)
    BY <1>6, <2>4
  <2>6. IsTable(collected[i + 1].key) => collected[i + 1].key \in Reach(t, d, All)
    BY <2>5 DEF TablesOf, IsTable
  <2>7. QED BY <1>1, <1>2, <1>3, <2>2, <2>3, <2>4, <2>5, <2>6, ShowKeeps
<1>11. CASE ShowValue
  <2>1. Show(collected[i + 1].value, Next1) /\ frames[d].part = "value" /\ frames[d].i = i
    BY <1>2, <1>5, <1>11 DEF ShowValue
  <2>2. TablesOf(collected[i + 1]) \subseteq Reach(t, d, All)
    BY <1>2, <1>3, <2>1 DEF Apart
  <2>3. IsTable(collected[i + 1].value) => collected[i + 1].value \in Reach(t, d, All)
    BY <2>2 DEF TablesOf, IsTable
  <2>4. QED BY <1>1, <1>2, <1>3, <1>8, <2>1, <2>3, ShowKeeps
<1>12. QED BY <1>9, <1>10, <1>11

(* print begins with the members of the program's table. *)
LEMMA PrintStartKeeps ==
  ASSUME DepthInv, PrintStart
  PROVE  Buffered' /\ CrashNeedsCycle'
<1>1. PICK f : f = [i |-> 0, compact |-> IsCompact(Collected), part |-> "key"]
  OBVIOUS
<1>2. /\ phase' = "print" /\ chains' = chains /\ frames' = <<f>>
      /\ collected' = Collected /\ collected_n' = Len(Collected)
  BY <1>1 DEF PrintStart
<1>3. All' = All
  BY <1>2 DEF All
<1>4. f \in Calls /\ f.part = "key"
  BY <1>1 DEF Calls, IsCompact
<1>5. PICK all, coll, n : all = FlattenSeq(chains) /\ coll = Collected /\ n = Len(coll)
  OBVIOUS
<1>6. /\ all = All /\ n \in Nat /\ coll \in Seq(Pair) /\ DOMAIN coll = 1 .. n
       /\ \A i \in 1 .. n : i \in DOMAIN all /\ coll[i] = all[i]
  <2>1. n \in Nat /\ n <= Len(all) /\ Len(all) \in Nat /\ DOMAIN coll = 1 .. n
        /\ \A i \in 1 .. n : coll[i] = all[i]
    BY <1>5, CollectedMembers DEF DepthInv
  <2>2. coll \in Seq(Pair)
    BY <1>5, CollectedMembers DEF DepthInv
  <2>3. all \in Seq(Pair)
    BY <1>5, Listing DEF DepthInv, MapInv, TableInv
  <2>4. \A i \in 1 .. n : i \in DOMAIN all
    BY <2>1, <2>3
  <2>5. QED BY <1>5, <2>1, <2>2, <2>4 DEF All
<1>7. coll \in Seq(Members)
  <2>1. coll \in Seq(Pair) /\ Pair \subseteq Members
    BY <1>6 DEF Members
  <2>2. QED BY <2>1
<1>8. PICK t : t = [k \in 2 .. 1 |-> k]
  OBVIOUS
<1>9. Reach(t, 1, all) = Nested(all)
  BY DEF Reach
<1>10. ASSUME NEW i \in 1 .. n
      PROVE  TablesOf(coll[i]) \subseteq Nested(all)
  <2>1. TablesOf(coll[i]) \subseteq Within(all)
    BY <1>6 DEF TablesOf, Within
  <2>2. QED BY <2>1, WithinIsNested
<1>11. IsPath(t, 1, all)
  BY <1>8 DEF IsPath
<1>12. PICK fr : fr = <<f>> /\ fr \in Seq(Calls) /\ Len(fr) = 1 /\ fr[1] = f
  <2>1. <<f>> \in Seq(Calls) /\ Len(<<f>>) = 1 /\ <<f>>[1] = f
    BY <1>4
  <2>2. QED BY <2>1
<1>13. \A k \in 1 .. 1 : fr[k].part # "value"
  BY <1>4, <1>12
<1>14. Apart(t, all, fr, coll, n)
  BY <1>9, <1>10, <1>11, <1>12, <1>13 DEF Apart
<1>15. n \in 0 .. Len(coll)
  BY <1>5, <1>6
<1>16. QED
  BY <1>2, <1>3, <1>5, <1>7, <1>12, <1>14, <1>15, <1>6 DEF Buffered, CrashNeedsCycle

(* Every step keeps the tables apart. *)
LEMMA DepthKept == DepthInv /\ [PrintNext]_allvars => DepthInv'
<1> SUFFICES ASSUME DepthInv, [PrintNext]_allvars PROVE DepthInv'
  OBVIOUS
<1>1. MapInv'
  BY PrintNextMaps DEF DepthInv
<1>2. CASE PrintStart
  BY <1>1, <1>2, PrintStartKeeps DEF DepthInv
<1>3. CASE ShowElement \/ ShowKey \/ ShowValue
  BY <1>1, <1>3, LoopKeeps DEF DepthInv
<1>4. CASE Close
  <2>1. /\ phase = "print" /\ frames # << >> /\ chains' = chains /\ frames' = Front(frames)
        /\ phase' = phase /\ collected' = collected /\ collected_n' = collected_n
    BY <1>4 DEF Close, Printing, vars
  <2>2. All' = All
    BY <2>1 DEF All
  <2>3. Front(frames) \in Seq(Calls)
        /\ \E u : Apart(u, All, Front(frames), collected, collected_n)
    BY <2>1, Returned DEF DepthInv, Buffered
  <2>4. QED BY <1>1, <2>1, <2>2, <2>3 DEF DepthInv, Buffered, CrashNeedsCycle
<1>5. CASE PrintEnd
  <2>1. /\ phase' = "idle" /\ frames' = frames /\ collected' = << >> /\ collected_n' = 0
    BY <1>5 DEF PrintEnd
  <2>2. << >> \in Seq(Members) /\ 0 \in 0 .. Len(<< >>)
    OBVIOUS
  <2>3. QED BY <1>1, <2>1, <2>2 DEF DepthInv, Buffered, CrashNeedsCycle
<1>6. CASE TableNext
  <2>1. /\ phase = "idle" /\ phase' = phase /\ frames' = frames /\ collected' = collected
        /\ collected_n' = collected_n
    BY <1>6 DEF TableNext, printing
  <2>2. QED BY <1>1, <2>1 DEF DepthInv, Buffered, CrashNeedsCycle
<1>7. CASE UNCHANGED allvars
  <2>1. /\ chains' = chains /\ phase' = phase /\ frames' = frames /\ collected' = collected
        /\ collected_n' = collected_n
    BY <1>7 DEF allvars, vars, printing
  <2>2. All' = All
    BY <2>1 DEF All
  <2>3. QED BY <1>1, <2>1, <2>2 DEF DepthInv, Buffered, CrashNeedsCycle
<1>8. QED BY <1>2, <1>3, <1>4, <1>5, <1>6, <1>7 DEF PrintNext, PrintStep

(* table_tostring_rec, for any tables in each other: however far the buffer  *)
(* is overwritten under the loops, printing goes deeper than there are       *)
(* tables only if one of those it meets contains itself.                     *)
THEOREM RecursionNeedsCycle == PrintSpec => []CrashNeedsCycle
<1>1. PrintInit => DepthInv
  <2> SUFFICES ASSUME PrintInit PROVE DepthInv
    OBVIOUS
  <2>1. MapInv
    BY InitMaps DEF PrintInit
  <2>2. phase = "idle" /\ frames = << >> /\ collected = << >> /\ collected_n = 0
    BY DEF PrintInit
  <2>3. << >> \in Seq(Members) /\ 0 \in 0 .. Len(<< >>) /\ << >> \in Seq(Calls)
    OBVIOUS
  <2>4. QED BY <2>1, <2>2, <2>3 DEF DepthInv, Buffered, CrashNeedsCycle
<1>2. DepthInv /\ [PrintNext]_allvars => DepthInv'
  BY DepthKept
<1>3. DepthInv => CrashNeedsCycle
  BY DEF DepthInv
<1>4. QED BY <1>1, <1>2, <1>3, PTL DEF PrintSpec
=============================================================================
