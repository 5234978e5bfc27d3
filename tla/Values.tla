-------------------------------- MODULE Values ------------------------------
(***************************************************************************)
(* Values of the virtual machine (vm.c) and what its arithmetic and        *)
(* comparisons make of two of them.  Numbers are multiples of 1/Unit; a    *)
(* result that is none, or is beyond MaxNumber, ends what is explored.     *)
(***************************************************************************)
EXTENDS Integers

CONSTANTS Unit, MaxNumber

ASSUME ValuesAssumption == Unit \in Nat \ {0} /\ MaxNumber \in Nat

Numbers == -(MaxNumber * Unit) .. MaxNumber * Unit

(* val: a number times Unit, 0 or 1, an address or a name. *)
Cell(type, val) == [type |-> type, val |-> val]
UNDEF == Cell("undef", 0)
NIL == Cell("nil", 0)
Number(n) == Cell("number", n * Unit)
Bool(b) == Cell("bool", IF b THEN 1 ELSE 0)

-----------------------------------------------------------------------------
Numeric(l, r) == l.type = "number" /\ r.type = "number"

(* (int) of a double, and % of two ints: both round towards zero. *)
Towards0(a, b) ==
  LET m == (IF a < 0 THEN -a ELSE a) \div (IF b < 0 THEN -b ELSE b) IN
  IF (a < 0) = (b < 0) THEN m ELSE -m
Whole(v) == Towards0(v.val, Unit)

(* ADD, SUB, MUL, DIV, MOD and NEG stop the machine.  *)
Stops(op, l, r) ==
  \/ ~Numeric(l, r)
  \/ op \in {"div", "mod"} /\ Whole(r) = 0

(* The number they give otherwise, if it is one of those explored. *)
Results(op, l, r) ==
  {n \in Numbers :
     CASE op = "add" -> n = l.val + r.val
       [] op = "sub" -> n = l.val - r.val
       [] op = "mul" -> n * Unit = l.val * r.val
       [] op = "div" -> n * r.val = l.val * Unit
       [] op = "mod" -> n = Unit * (Whole(l) - Whole(r) * Towards0(Whole(l), Whole(r)))
       [] op = "uminus" -> n = -r.val}

-----------------------------------------------------------------------------
(* relop_numbers: booleans count as numbers, all other pairs are unordered. *)
Ordered(l, r) == {l.type, r.type} \subseteq {"number", "bool"}
Quantity(v) == IF v.type = "bool" THEN v.val * Unit ELSE v.val

(* avm_cells_equal *)
Equal(l, r) == l.type = r.type /\ l.type # "undef" /\ l.val = r.val

Jumps(op, l, r) ==
  CASE op = "if_eq" -> Equal(l, r)
    [] op = "if_noteq" -> ~Equal(l, r)
    [] op = "if_less" -> Ordered(l, r) /\ Quantity(l) < Quantity(r)
    [] op = "if_lesseq" -> Ordered(l, r) /\ Quantity(l) <= Quantity(r)
    [] op = "if_greater" -> Ordered(l, r) /\ Quantity(l) > Quantity(r)
    [] op = "if_greatereq" -> Ordered(l, r) /\ Quantity(l) >= Quantity(r)
=============================================================================
