---------------------------- MODULE AvmPrintText ----------------------------
(***************************************************************************)
(* Correctness of what AvmPrint prints.                                    *)
(***************************************************************************)
EXTENDS AvmPrint

(* What a table with these members looks like: every member once, at its     *)
(* place, and whole.  An array is shown without its indices.                *)
InOrder(members) ==
  IF IsCompact(members)
  THEN [i \in DOMAIN members |->
          members[CHOOSE j \in DOMAIN members : IndexOf[members[j].key] = i - 1]]
  ELSE members

RECURSIVE Shown(_)
Shown(members) ==
  LET b == Buffer(members)
      Cell(c) == IF IsTable(c) THEN Shown(Inner[c]) ELSE <<c>>
      Member(p) == IF IsCompact(b) THEN Cell(p.value) ELSE Cell(p.key) \o Cell(p.value)
  IN  <<"[">> \o FlattenSeq([i \in DOMAIN b |-> Member(InOrder(b)[i])]) \o <<"]">>

Printed == phase = "print" /\ frames = << >>

(* 14_tables1.asc: tables in a table are printed at their place, and what   *)
(* follows them is printed as well.                                         *)
NestedTablesPrinted == Printed => text = Shown(All)

(* A table disturbs the loop of the table that it is in only if something is *)
(* left to print there, or appears to be.                                    *)
RECURSIVE Undisturbed(_)
Undisturbed(members) ==
  LET b == Buffer(members)
      shown == InOrder(b) IN
  \A i \in DOMAIN shown :
    /\ ~IsTable(shown[i].key)
    /\ IsTable(shown[i].value) =>
         /\ i = Len(shown) /\ Len(Buffer(Inner[shown[i].value])) <= i
         /\ Undisturbed(Inner[shown[i].value])

(* table_tostring_rec: a table is printed whole - every member that was      *)
(* collected once, arrays in the order of their indices - if no table is in  *)
(* it but as the last element, with fewer members.                           *)
UndisturbedPrintedWhole == Printed /\ Undisturbed(All) => text = Shown(All)
=============================================================================
