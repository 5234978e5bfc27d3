---------------------------- MODULE AvmTableProps ---------------------------
(***************************************************************************)
(* Correctness of the chained tables of AvmTable.                          *)
(***************************************************************************)
EXTENDS AvmTable, FiniteSets

(* Chains hold bindings of keys to values, never to nil. *)
TypeOK ==
  /\ chains \in [1 .. Chains -> Seq(Pair)]
  /\ copy \in [1 .. Chains -> Seq(Pair)]
  /\ chain \in 1 .. Chains + 1 /\ pos \in Nat \ {0}
  /\ mode \in {"run", "copy"}
  /\ answer \in Seq(Keys \cup Values \cup {NIL} \cup Nat)

-----------------------------------------------------------------------------
(* Every binding is in the chain of its key, and no chain binds a key that  *)
(* can be found twice.                                                      *)
Sound(cs) ==
  \A c \in 1 .. Chains : \A i \in DOMAIN cs[c] :
    /\ cs[c][i].key \in Hashable
    /\ Hash[cs[c][i].key] = c
    /\ \A j \in DOMAIN cs[c] : Equal(cs[c][j].key, cs[c][i].key) => j = i

(* A table never holds two bindings of one key, in whatever order bindings  *)
(* were set, overwritten, deleted and copied: a later lookup cannot find an *)
(* older value behind the one it deleted.                                   *)
OneBindingPerKey == Sound(chains) /\ Sound(copy)

(* While objectcopy runs, the copy holds exactly the bindings it has        *)
(* visited: at the end those of the whole table, each once.                 *)
Visited(c, i) == \/ c < chain
                 \/ c = chain /\ i < pos

CopyFaithful ==
  mode = "copy" =>
    \A c \in 1 .. Chains :
      ToSet(copy[c]) = {chains[c][i] : i \in {j \in DOMAIN chains[c] : Visited(c, j)}}

-----------------------------------------------------------------------------
(* Chains as a mapping; the bindings of NaN are all in one chain. *)
OfNaN(ch) == {i \in DOMAIN ch : ch[i].key = NAN}

Map == INSTANCE TableMap WITH
  map  <- [k \in Hashable \ {NAN} |-> InChain(chains[Hash[k]], k)],
  lost <- Cardinality(OfNaN(chains[Hash[NAN]]))

(* Whatever the collisions in its chains and the order of its operations,   *)
(* a table behaves as a mapping; objectcopy does not change what it holds.  *)
ImplementsTableMap == Map!Spec
=============================================================================
