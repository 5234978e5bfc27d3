--------------------------- MODULE ExpressionsProps -------------------------
(***************************************************************************)
(* Correctness of the code of Expressions.                                 *)
(***************************************************************************)
EXTENDS Expressions

Value == [type : {"undef", "nil", "number", "bool", "table", "userfunc"}, val : Int]

TypeOK ==
  /\ temps \in Nat /\ read \in 0 .. MaxOperands
  /\ DOMAIN cell \subseteq Vars \cup (0 .. temps - 1) /\ Vars \subseteq DOMAIN cell
  /\ \A s \in DOMAIN cell : cell[s] \in Value
  /\ \A t \in DOMAIN heap : \A k \in DOMAIN heap[t] :
       k \in Value /\ heap[t][k] \in Value \ {NIL}
  /\ mode \in {"run", "error", "astray"}

(* The temporaries of a node, and those of every node of the stack. *)
RECURSIVE TempsOf(_)
TempsOf(o) == IF IsElement(o) THEN TempsOf(o.table) \cup TempsOf(o.index)
              ELSE IF IsTemp(o) THEN {o.sym} ELSE {}

RECURSIVE Means(_)
Means(o) ==
  CASE o.kind = "place" /\ o.sym \in Vars -> [kind |-> "variable", var |-> o.sym]
    [] o.kind = "item" -> [kind |-> "item", table |-> Means(o.table), index |-> Means(o.index)]
    [] o.kind = "condition" -> [kind |-> "condition", val |-> o.val]
    [] OTHER -> [kind |-> "value", val |-> Read(Now, o)]

Alpha == INSTANCE Evaluation WITH
  operands <- [i \in DOMAIN stack |-> [as |-> stack[i].as, node |-> Means(stack[i].node)]],
  env <- [x \in Vars |-> cell[x]]

(* No two operands that wait share a temporary, and none has one that newtemp*)
(* will hand out: an operator that takes an operand's temporary over, and    *)
(* the code of everything that is read in between, clobber no live value.    *)
OperandsApart ==
  \A i \in DOMAIN stack :
    /\ \A t \in TempsOf(Node(i)) : t < temps
    /\ \A j \in DOMAIN stack \ {i} : TempsOf(Node(i)) \cap TempsOf(Node(j)) = {}

(* The quads compute what expressions mean: each temporary holds the value  *)
(* its operand had when it was read, assignments, steps, calls and stores    *)
(* happen in order and to the right places with the right values, functions  *)
(* get their actuals in order, and the program stops for the same reasons.   *)
ImplementsEvaluation == Alpha!Spec
=============================================================================
