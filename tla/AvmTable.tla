------------------------------- MODULE AvmTable -----------------------------
(***************************************************************************)
(* One run-time table of the virtual machine (vm.c): chains of bindings,   *)
(* one per hash value and kind of key, searched from the head.             *)
(*                                                                         *)
(* Chain c is the c-th that collect_table_members and objectcopy visit: the*)
(* five hash arrays at index 0, at index 1, ... and the two boolean chains.*)
(* objectcopy is modelled binding by binding, since it searches the copy   *)
(* for every one of them.                                                  *)
(***************************************************************************)
EXTENDS Naturals, Sequences, SequencesExt

CONSTANTS
  Keys,       \* contents of cells used as keys
  Values,     \* contents other than nil
  NIL,
  NAN,        \* the number that differs from itself: strtonum("nan")
  Chains,     \* number of chains
  Hash,       \* chain of each key of a kind that can be a key
  StringOf,   \* string of the name of each libfunc_m key
  COLLECTED,  \* members collect_table_members can hold (4096)
  MaxPairs    \* bound on the bindings of the table

Hashable == DOMAIN Hash

ASSUME TableAssumption ==
  /\ Chains \in Nat /\ COLLECTED \in Nat /\ MaxPairs \in Nat
  /\ Hashable \subseteq Keys /\ NAN \in Hashable /\ Hash \in [Hashable -> 1 .. Chains]
  /\ DOMAIN StringOf \subseteq Hashable \ {NAN}
  /\ \A k \in DOMAIN StringOf : StringOf[k] \in Hashable \ {NAN}
  /\ NIL \notin Values

VARIABLES
  chains,      \* the program's table
  copy,        \* the table objectcopy is filling
  chain, pos,  \* the binding objectcopy visits next
  mode,
  answer       \* what the last library call or lookup returned

vars == <<chains, copy, chain, pos, mode, answer>>

Pair == [key : Keys, value : Values]
NoChains == [c \in 1 .. Chains |-> << >>]

-----------------------------------------------------------------------------
(* table_keys_equal *)
Equal(k, b) == k = b /\ k # NAN

Hits(ch, k) == {i \in DOMAIN ch : Equal(k, ch[i].key)}
First(hits) == CHOOSE i \in hits : \A j \in hits : i <= j

(* avm_tablegetelem_chain *)
InChain(ch, k) ==
  LET hits == Hits(ch, k)
  IN  IF hits = {} THEN NIL ELSE ch[First(hits)].value

(* avm_tablegetelem.  A key of no chain (nil, undef) finds nothing, and a   *)
(* library function is also found under the string of its name.             *)
Lookup(cs, k) ==
  LET own == InChain(cs[Hash[k]], k) IN
  IF k \notin Hashable THEN NIL
  ELSE IF own = NIL /\ k \in DOMAIN StringOf
       THEN InChain(cs[Hash[StringOf[k]]], StringOf[k])
       ELSE own

(* avm_tablesetelem: unlink, overwrite, or insert at the head. *)
Unlinked(ch, k) == RemoveAt(ch, First(Hits(ch, k)))
Overwritten(ch, k, v) == [ch EXCEPT ![First(Hits(ch, k))].value = v]
Inserted(ch, k, v) == <<[key |-> k, value |-> v]>> \o ch

(* Mutants of AfterSet: a binding is always inserted; the head is unlinked  *)
(* whichever binding was found; nil is stored as any other value.           *)
AfterSetAlwaysInserts(ch, k, v) ==
  CASE v = NIL /\ Hits(ch, k) = {} -> ch
    [] v = NIL /\ Hits(ch, k) # {} -> Unlinked(ch, k)
    [] OTHER                          -> Inserted(ch, k, v)

AfterSetUnlinksHead(ch, k, v) ==
  CASE v = NIL /\ Hits(ch, k) = {} -> ch
    [] v = NIL /\ Hits(ch, k) # {} -> Tail(ch)
    [] v # NIL /\ Hits(ch, k) = {} -> Inserted(ch, k, v)
    [] v # NIL /\ Hits(ch, k) # {} -> Overwritten(ch, k, v)

AfterSetStoresNil(ch, k, v) ==
  IF Hits(ch, k) = {} THEN Inserted(ch, k, v) ELSE Overwritten(ch, k, v)

AfterSet(ch, k, v) ==
  CASE v = NIL /\ Hits(ch, k) = {} -> ch
    [] v = NIL /\ Hits(ch, k) # {} -> Unlinked(ch, k)
    [] v # NIL /\ Hits(ch, k) = {} -> Inserted(ch, k, v)
    [] v # NIL /\ Hits(ch, k) # {} -> Overwritten(ch, k, v)

SetIn(cs, k, v) ==
  IF k \in Hashable THEN [cs EXCEPT ![Hash[k]] = AfterSet(@, k, v)] ELSE cs

(* collect_table_members: the buffer takes no more than COLLECTED.  *)
All == FlattenSeq(chains)
Collected == IF Len(All) <= COLLECTED THEN All ELSE SubSeq(All, 1, COLLECTED)

-----------------------------------------------------------------------------
(* TABLESETELEM.  The program is through with the last answer. *)
SetElem(k, v) ==
  /\ mode = "run"
  /\ v # NIL => Len(All) < MaxPairs
  /\ chains' = SetIn(chains, k, v)
  /\ answer' = << >>
  /\ UNCHANGED <<copy, chain, pos, mode>>

(* TABLEGETELM *)
GetElem(k) ==
  /\ mode = "run"
  /\ answer' = <<Lookup(chains, k)>>
  /\ UNCHANGED <<chains, copy, chain, pos, mode>>

(* objecttotalmembers *)
TotalMembers ==
  /\ mode = "run"
  /\ answer' = <<Len(Collected)>>
  /\ UNCHANGED <<chains, copy, chain, pos, mode>>

(* objectmemberkeys: element i of the new table is the i-th collected key. *)
MemberKeys ==
  /\ mode = "run"
  /\ answer' = [i \in DOMAIN Collected |-> Collected[i].key]
  /\ UNCHANGED <<chains, copy, chain, pos, mode>>

(* objectcopy: copy_bucket_chain for one chain after the other. *)
CopyStart ==
  /\ mode = "run"
  /\ copy' = NoChains
  /\ chain' = 1 /\ pos' = 1
  /\ mode' = "copy"
  /\ UNCHANGED <<chains, answer>>

(* Mutant of CopyBinding: the same binding is copied again and again. *)
CopyBindingAgain ==
  /\ mode = "copy" /\ chain <= Chains /\ pos <= Len(chains[chain])
  /\ LET b == chains[chain][pos] IN copy' = SetIn(copy, b.key, b.value)
  /\ UNCHANGED <<chains, chain, pos, mode, answer>>

CopyBinding ==
  /\ mode = "copy" /\ chain <= Chains /\ pos <= Len(chains[chain])
  /\ LET b == chains[chain][pos] IN copy' = SetIn(copy, b.key, b.value)
  /\ pos' = pos + 1
  /\ UNCHANGED <<chains, chain, mode, answer>>

(* Mutant of CopyNextChain: the walk of a chain starts where the last ended. *)
CopyNextChainKeepsPos ==
  /\ mode = "copy" /\ chain <= Chains /\ pos > Len(chains[chain])
  /\ chain' = chain + 1
  /\ UNCHANGED <<chains, copy, pos, mode, answer>>

CopyNextChain ==
  /\ mode = "copy" /\ chain <= Chains /\ pos > Len(chains[chain])
  /\ chain' = chain + 1 /\ pos' = 1
  /\ UNCHANGED <<chains, copy, mode, answer>>

(* The program goes on with the table or with its copy. *)
CopyEnd ==
  /\ mode = "copy" /\ chain > Chains
  /\ chains' \in {chains, copy}
  /\ copy' = NoChains
  /\ mode' = "run"
  /\ UNCHANGED <<chain, pos, answer>>

Init ==
  /\ chains = NoChains /\ copy = NoChains
  /\ chain = 1 /\ pos = 1
  /\ mode = "run"
  /\ answer = << >>

Next ==
  \/ \E k \in Keys, v \in Values \cup {NIL} : SetElem(k, v)
  \/ \E k \in Keys : GetElem(k)
  \/ TotalMembers \/ MemberKeys
  \/ CopyStart \/ CopyBinding \/ CopyNextChain \/ CopyEnd

Spec == Init /\ [][Next]_vars
=============================================================================
