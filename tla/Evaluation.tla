------------------------------ MODULE Evaluation ----------------------------
(***************************************************************************)
(* What the expressions of Alpha mean: operands are evaluated from left to *)
(* right and operators take their values.  A variable is not a value until *)
(* it is used: in x + x++ both sides see what x has become.  So it is with *)
(* an element that is to be assigned, stepped or called.  There are no     *)
(* temporaries and no quads here.                                          *)
(***************************************************************************)
EXTENDS Values, Sequences, TLC

CONSTANTS Vars, Global, Arities, Constants

VARIABLES
  operands,  \* the operands that wait for their operators
  env,       \* the values of the variables
  heap,      \* the tables
  mode       \* "run", "error" or "astray"

vars == <<operands, env, heap, mode>>

Is(i, roles) == i \in DOMAIN operands /\ operands[i].as \in roles
Node(i) == operands[i].node
Top == Len(operands)
Conditions == {i \in DOMAIN operands : Node(i).kind = "condition"}

Val(v) == [kind |-> "value", val |-> v]
Var(x) == [kind |-> "variable", var |-> x]
Item(t, k) == [kind |-> "item", table |-> t, index |-> k]

-----------------------------------------------------------------------------
(* Values of operands; ERROR stops the program. *)
ERROR == Cell("error", 0)

At(t, k) == IF t.type # "table" THEN ERROR
            ELSE IF k \in DOMAIN heap[t.val] THEN heap[t.val][k] ELSE NIL

RECURSIVE Meaning(_)
Meaning(o) == CASE o.kind = "variable" -> env[o.var]
                [] o.kind = "item" -> At(Meaning(o.table), Meaning(o.index))
                [] OTHER -> o.val

Magnitude(n) == IF n < 0 THEN -n ELSE n

(* n = l op r: a divisor that is less than 1 counts as 0, and the operands *)
(* of a remainder, which has the sign of l, as whole numbers.              *)
Law(op, l, r, n) ==
  CASE op = "add" -> n - r = l
    [] op = "sub" -> n + r = l
    [] op = "mul" -> n * Unit = l * r
    [] op = "div" -> Magnitude(r) >= Unit /\ n * r = l * Unit
    [] op = "mod" ->
         LET whole(a) == Magnitude(a) - (Magnitude(a) % Unit) IN
         /\ Magnitude(r) >= Unit
         /\ Magnitude(n) = whole(l) % whole(r)
         /\ n # 0 => (n < 0) = (l < 0)

Undefined(op, l, r) ==
  \/ l.type # "number" \/ r.type # "number"
  \/ op \in {"div", "mod"} /\ Magnitude(r.val) < Unit

Holds(op, l, r) ==
  LET size(v) == IF v.type = "bool" THEN v.val * Unit ELSE v.val
      comparable == \A v \in {l, r} : v.type \in {"number", "bool"} IN
  CASE op = "if_eq" -> l = r /\ l # UNDEF
    [] op = "if_noteq" -> l # r \/ l = UNDEF
    [] op = "if_less" -> comparable /\ size(l) < size(r)
    [] op = "if_greater" -> comparable /\ size(r) < size(l)
    [] op = "if_lesseq" -> comparable /\ ~(size(r) < size(l))
    [] op = "if_greatereq" -> comparable /\ ~(size(l) < size(r))

-----------------------------------------------------------------------------
Fail == mode' = "error" /\ UNCHANGED <<operands, env, heap>>

(* An operator does A, unless a condition waits that it does not turn into *)
(* a value before anything else.                                            *)
Do(settled, A) ==
  /\ mode = "run"
  /\ IF Conditions \subseteq settled THEN A
     ELSE mode' = "astray" /\ UNCHANGED <<operands, env, heap>>

Replaced(n, role, o) ==
  operands' = Append(SubSeq(operands, 1, Top - n), [as |-> role, node |-> o])

Result(n, role, v) == Replaced(n, role, Val(v)) /\ UNCHANGED mode

Set(v, x) == env' = [env EXCEPT ![x] = v] /\ UNCHANGED heap

(* Nothing can be bound to nil, and nil unbinds. *)
Bound(b, k, v) ==
  IF k.type \in {"undef", "nil"} THEN b
  ELSE [j \in (DOMAIN b \cup {k}) \ (IF v = NIL THEN {k} ELSE {}) |-> IF j = k THEN v ELSE b[j]]
Store(v, t, k) == heap' = [heap EXCEPT ![t.val] = Bound(@, k, v)] /\ UNCHANGED env

-----------------------------------------------------------------------------
Push ==
  /\ mode = "run"
  /\ \/ \E x \in Vars : Replaced(0, "lvalue", Var(x))
     \/ \E f \in Arities : Replaced(0, "lvalue", Val(Cell("userfunc", f)))
     \/ \E n \in Constants : Replaced(0, "expr", Val(Number(n)))
  /\ UNCHANGED <<env, heap, mode>>

Select ==
  /\ mode = "run" /\ Is(Top, {"expr"}) /\ Is(Top - 1, {"lvalue", "call"})
  /\ Top \notin Conditions
  /\ Replaced(2, "lvalue", Item(Node(Top - 1), Node(Top)))
  /\ UNCHANGED <<env, heap, mode>>

Take ==
  /\ mode = "run" /\ Is(Top, {"lvalue", "call"}) /\ Node(Top).kind # "item"
  /\ Replaced(1, "expr", Node(Top))
  /\ UNCHANGED <<env, heap, mode>>

Fetch ==
  LET v == Meaning(Node(Top)) IN
  /\ Is(Top, {"lvalue"}) /\ Node(Top).kind = "item"
  /\ Do({}, IF v = ERROR THEN Fail ELSE Result(1, "expr", v) /\ UNCHANGED <<env, heap>>)

Operate(op) ==
  LET l == Meaning(Node(Top - 1))
      r == Meaning(Node(Top)) IN
  /\ Is(Top, {"expr"}) /\ Is(Top - 1, {"expr"})
  /\ Do({}, IF Undefined(op, l, r) THEN Fail
            ELSE \E n \in Numbers : /\ Law(op, l.val, r.val, n)
                                    /\ Result(2, "expr", Cell("number", n))
                                    /\ UNCHANGED <<env, heap>>)

Negate ==
  LET r == Meaning(Node(Top)) IN
  /\ Is(Top, {"expr"})
  /\ Do({}, IF r.type # "number" THEN Fail
            ELSE Result(1, "expr", Cell("number", 0 - r.val)) /\ UNCHANGED <<env, heap>>)

Compare(op) ==
  LET truth == Holds(op, Meaning(Node(Top - 1)), Meaning(Node(Top)))
      settled == IF op \in {"if_eq", "if_noteq"} THEN {Top - 1, Top} ELSE {} IN
  /\ Is(Top, {"expr"}) /\ Is(Top - 1, {"expr"})
  /\ Do(settled, /\ Replaced(2, "expr", [kind |-> "condition", val |-> Bool(truth)])
                 /\ UNCHANGED <<env, heap, mode>>)

(* Both operands have been evaluated, and only true is true. *)
Connect(op) ==
  LET truths == {i \in {Top - 1, Top} : Meaning(Node(i)) = Bool(TRUE)}
      truth == (truths = {Top - 1, Top}) \/ (op = "or" /\ truths # {}) IN
  /\ Is(Top, {"expr"}) /\ Is(Top - 1, {"expr"})
  /\ Do({Top - 1}, /\ Replaced(2, "expr", [kind |-> "condition", val |-> Bool(truth)])
                   /\ UNCHANGED <<env, heap, mode>>)

Deny ==
  LET truth == Meaning(Node(Top)) # Bool(TRUE) IN
  /\ Is(Top, {"expr"})
  /\ Do({Top}, /\ Replaced(1, "expr", [kind |-> "condition", val |-> Bool(truth)])
               /\ UNCHANGED <<env, heap, mode>>)

(* The element or variable o becomes v, and the operands r. *)
Change(n, o, v, r) ==
  IF o.kind = "variable" THEN Set(v, o.var) /\ Result(n, "expr", r)
  ELSE LET t == Meaning(o.table) IN
       IF t.type # "table" THEN Fail
       ELSE Store(v, t, Meaning(o.index)) /\ Result(n, "expr", r)

(* An assignment has the value that is found where it stored; to a function *)
(* it stores nothing.                                                       *)
Assign ==
  LET v == Meaning(Node(Top))
      o == Node(Top - 1)
      found == IF o.kind = "item" /\ Meaning(o.index) \in {UNDEF, NIL} THEN NIL ELSE v IN
  /\ Is(Top, {"expr"}) /\ Is(Top - 1, {"lvalue"})
  /\ Do({Top}, IF o.kind = "value"
               THEN Result(2, "expr", o.val) /\ UNCHANGED <<env, heap>>
               ELSE Change(2, o, v, found))

Step(by, isPrefix) ==
  LET o == Node(Top)
      old == Meaning(o)
      new == Cell("number", old.val + by * Unit) IN
  /\ Is(Top, {"lvalue"})
  /\ Do({}, IF old.type # "number" THEN Fail
            ELSE Change(1, o, new, IF isPrefix THEN new ELSE old))

-----------------------------------------------------------------------------
(* A function of one formal returns it; one of two returns the first and    *)
(* leaves the second in Global.                                             *)
Apply(n, f, actuals) ==
  IF f.type # "userfunc" THEN Fail
  ELSE /\ f.val = Len(actuals)
       /\ Result(n, "call", actuals[1])
       /\ IF f.val = 1 THEN UNCHANGED <<env, heap>> ELSE Set(actuals[2], Global)

Actuals(n) == [i \in 1 .. n |-> Meaning(Node(Top - n + i))]
AreExprs(n) == \A i \in Top - n + 1 .. Top : Is(i, {"expr"})

Call(n) ==
  LET callee == Node(Top - n) IN
  /\ AreExprs(n) /\ Is(Top - n, {"lvalue", "call"})
  /\ Do(IF callee.kind = "item" THEN {} ELSE Top - n + 1 .. Top,
        Apply(n + 1, Meaning(callee), Actuals(n)))

MethodCall(name, n) ==
  LET self == Meaning(Node(Top - n)) IN
  /\ AreExprs(n) /\ Is(Top - n, {"lvalue"})
  /\ Do({}, Apply(n + 1, At(self, name), <<self>> \o Actuals(n)))

New(n, b) ==
  /\ AreExprs(n)
  /\ Do({}, /\ heap' = Append(heap, b)
            /\ Result(n, "expr", Cell("table", Len(heap) + 1))
            /\ UNCHANGED env)

List(n) ==
  LET bound == {i \in 1 .. n : Actuals(n)[i] # NIL} IN
  New(n, [k \in {Number(i - 1) : i \in bound} |->
            Actuals(n)[CHOOSE i \in bound : k = Number(i - 1)]])

Pair == New(2, Bound(<< >>, Actuals(2)[1], Actuals(2)[2]))

End ==
  /\ mode = "run" /\ Top = 1 /\ Is(1, {"expr"})
  /\ operands' = << >>
  /\ UNCHANGED <<env, heap, mode>>

Init ==
  /\ operands = << >> /\ mode = "run"
  /\ heap = <<Number(2) :> Cell("userfunc", 2)>>
  /\ \E v \in {UNDEF, Number(1)} :
       env = [x \in Vars |-> IF x = Global THEN v ELSE Cell("table", 1)]

Next ==
  \/ Push \/ Select \/ Take \/ Fetch \/ Negate \/ Deny \/ Assign \/ Pair \/ End
  \/ \E op \in {"add", "sub", "mul", "div", "mod"} : Operate(op)
  \/ \E op \in {"if_eq", "if_noteq", "if_less", "if_lesseq", "if_greater", "if_greatereq"} :
       Compare(op)
  \/ \E op \in {"and", "or"} : Connect(op)
  \/ \E by \in {1, -1}, isPrefix \in BOOLEAN : Step(by, isPrefix)
  \/ \E n \in 1 .. 2 : Call(n) \/ List(n)
  \/ \E n \in 0 .. 1 : MethodCall(Number(2), n)
  \/ List(0)

Spec == Init /\ [][Next]_vars
=============================================================================
