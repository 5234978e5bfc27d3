------------------------------ MODULE QuadLists -----------------------------
(***************************************************************************)
(* The quads and the lists of incomplete jumps of quads.c.  A list is      *)
(* threaded through the label fields of its quads: its value is the number *)
(* of its first quad, a label names the next one, and 0 ends it - although *)
(* 0 is the number of a quad.                                              *)
(***************************************************************************)
EXTENDS Naturals, FiniteSets

(* Quads are numbered from 0: a function over 0 .. n - 1. *)
NextQuad(q) == Cardinality(DOMAIN q)
Emit(q, x) == [i \in 0 .. NextQuad(q) |-> IF i = NextQuad(q) THEN x ELSE q[i]]

Labelled(q, S, l) ==
  [i \in DOMAIN q |-> IF i \in S THEN [q[i] EXCEPT !.label = l] ELSE q[i]]

(* patchlabel and newlist *)
PatchLabel(q, i, l) == Labelled(q, {i}, l)
NewList(q, i) == Labelled(q, {i}, 0)

(* The quads of list l. *)
On(q, l) ==
  LET reached[n \in 0 .. NextQuad(q)] ==
        IF n = 0 THEN {l} \ {0}
        ELSE (UNION {{i, q[i].label} : i \in reached[n - 1]}) \ {0}
  IN  reached[NextQuad(q)]

(* mergelist: the quads after it, and the list it returns. *)
LastOn(q, l) == CHOOSE i \in On(q, l) : q[i].label = 0

(* Mutant of MergeLists: the second list is linked to the first quad of the *)
(* first one.                                                               *)
MergeListsAtHead(q, l1, l2) ==
  IF l1 = 0 \/ l2 = 0 THEN q ELSE Labelled(q, {l1}, l2)

MergeLists(q, l1, l2) ==
  IF l1 = 0 \/ l2 = 0 THEN q ELSE Labelled(q, {LastOn(q, l1)}, l2)
Merged(l1, l2) == IF l1 = 0 THEN l2 ELSE l1

(* Mutant of PatchList: only the first quad is completed. *)
PatchListHead(q, l, label) == IF l = 0 THEN q ELSE Labelled(q, {l}, label)

(* patchlist *)
PatchList(q, l, label) == Labelled(q, On(q, l), label)
=============================================================================
