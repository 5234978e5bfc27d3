------------------------------ MODULE Expressions ---------------------------
(***************************************************************************)
(* The code of expressions (parser.y, quads.c) and what it computes: the   *)
(* parser keeps operands on its stack, each a constant, a variable, a      *)
(* temporary or an element of a table not fetched yet, and every reduction *)
(* emits quads, executed here as they are emitted.                         *)
(*                                                                         *)
(* A condition ends in jumps that are completed when it is made a value, or*)
(* by the connective that takes it.  Quads emitted in between are jumped   *)
(* over: "astray".  BoolExpr tells which of these conditions come right.   *)
(***************************************************************************)
EXTENDS Values, Sequences, SequencesExt, TLC

CONSTANTS
  Vars,       \* variables of the program
  Global,     \* the variable a function of two formals stores to
  Arities,    \* numbers of formals of the program's functions
  Constants,  \* number constants
  MaxOperands \* bound on the operands and table constructors of the program

VARIABLES
  stack,  \* semantic values of the parser
  read,   \* number of operands the parser has read
  temps,  \* tempcounter
  cell,   \* memory cells of variables and temporaries
  heap,   \* the tables: what each binds its keys to
  mode    \* "run", "error" (avm_error) or "astray"

vars == <<stack, read, temps, cell, heap, mode>>

Temporaries == Nat
Operators == {"add", "sub", "mul", "div", "mod"}
Comparisons == {"if_eq", "if_noteq", "if_less", "if_lesseq", "if_greater", "if_greatereq"}

(* expr nodes; as is "lvalue", "call" or "expr", what the grammar takes the *)
(* node for.                                                                *)
Const(v) == [kind |-> "const", val |-> v]
Place(s) == [kind |-> "place", sym |-> s]
Item(t, k) == [kind |-> "item", table |-> t, index |-> k]
Condition(b) == [kind |-> "condition", val |-> Bool(b)]
As(role, o) == [as |-> role, node |-> o]

Top == Len(stack)
Node(i) == stack[i].node
Is(i, roles) == i \in DOMAIN stack /\ stack[i].as \in roles
Below(n) == SubSeq(stack, 1, Top - n)
IsTemp(o) == o.kind = "place" /\ o.sym \in Temporaries
IsElement(o) == o.kind = "item"
IsCondition(o) == o.kind = "condition"

-----------------------------------------------------------------------------
(* The machine: m is [temps, cell, heap, mode]. *)

Now == [temps |-> temps, cell |-> cell, heap |-> heap, mode |-> mode]

(* A cell that has not been written to is undef. *)
Read(m, o) ==
  IF o.kind # "place" THEN o.val
  ELSE IF o.sym \in DOMAIN m.cell THEN m.cell[o.sym] ELSE UNDEF

Write(m, s, v) == IF m.mode = "run" THEN [m EXCEPT !.cell = s :> v @@ m.cell] ELSE m
Stop(m) == [m EXCEPT !.mode = "error"]

(* Mutant of ToTemp: the counter stays. *)
ToTempAgain(m, v) == Write(m, m.temps, v)

(* newtemp, and a quad that writes to it. *)
ToTemp(m, v) == Write([m EXCEPT !.temps = m.temps + 1], m.temps, v)

(* avm_tablegetelem and avm_tablesetelem *)
Element(m, t, k) ==
  LET b == m.heap[t.val] IN IF k \in DOMAIN b THEN b[k] ELSE NIL
Without(b, k) == [j \in DOMAIN b \ {k} |-> b[j]]
(* Mutant of Bind: nil is stored. *)
BindNil(b, k, v) == IF k.type \in {"undef", "nil"} THEN b ELSE k :> v @@ b

Bind(b, k, v) ==
  IF k.type \in {"undef", "nil"} THEN b
  ELSE IF v.type = "nil" THEN Without(b, k)
  ELSE k :> v @@ b

(* TABLEGETELM to a new temporary, TABLESETELM, NEWTABLE. *)
GetElem(m, t, k) ==
  IF Read(m, t).type # "table" THEN Stop(m)
  ELSE ToTemp(m, Element(m, Read(m, t), Read(m, k)))

SetElem(m, t, k, o) ==
  IF m.mode # "run" \/ Read(m, t).type # "table" THEN Stop(m)
  ELSE LET b == Read(m, t).val IN
       [m EXCEPT !.heap[b] = Bind(@, Read(m, k), Read(m, o))]

NewTable(m) ==
  ToTemp([m EXCEPT !.heap = Append(@, << >>)], Cell("table", Len(m.heap) + 1))

(* A node and the machine after the quads for it. *)
After(m, o) == [m |-> m, o |-> o]
InTemp(m, m2) == After(m2, Place(m.temps))

(* emit_iftableitem.  A node is used once, so that it is never memoized. *)
RECURSIVE Fetched(_, _)
Fetched(m, o) ==
  IF ~IsElement(o) THEN After(m, o)
  ELSE LET t == Fetched(m, o.table) IN InTemp(t.m, GetElem(t.m, t.o, o.index))

(* convert_to_value *)
Materialized(m, o) ==
  IF IsCondition(o) THEN InTemp(m, ToTemp(m, o.val)) ELSE After(m, o)

-----------------------------------------------------------------------------
(* Reductions *)

(* The conditions that have not been made values. *)
Waiting == {i \in DOMAIN stack : IsCondition(Node(i))}

(* The last n nodes become r.o; the quads are executed unless a condition   *)
(* waits that the reduction does not turn into a value first.               *)
Reduce(n, converted, role, r) ==
  /\ mode = "run" /\ UNCHANGED read
  /\ IF Waiting \subseteq converted
     THEN /\ stack' = IF r.m.mode = "run" THEN Append(Below(n), As(role, r.o)) ELSE stack
          /\ temps' = r.m.temps /\ cell' = r.m.cell
          /\ heap' = r.m.heap /\ mode' = r.m.mode
     ELSE mode' = "astray" /\ UNCHANGED <<stack, temps, cell, heap>>

Room == read + Len(heap) <= MaxOperands

Push(role, o) ==
  /\ mode = "run" /\ Room
  /\ read' = read + 1
  /\ stack' = Append(stack, As(role, o))
  /\ UNCHANGED <<temps, cell, heap, mode>>

Names == {Place(x) : x \in Vars} \cup {Const(Cell("userfunc", f)) : f \in Arities}
Literals == {Const(Number(n)) : n \in Constants}

(* member: lvalue [ expr ], call [ expr ].  No quad is emitted, but the     *)
(* jumps of a comparison will not be completed any more.                    *)
Member ==
  /\ mode = "run" /\ Is(Top, {"expr"}) /\ Is(Top - 1, {"lvalue", "call"})
  /\ ~IsCondition(Node(Top))
  /\ stack' = Append(Below(2), As("lvalue", Item(Node(Top - 1), Node(Top))))
  /\ UNCHANGED <<read, temps, cell, heap, mode>>

(* primary: an lvalue or a call becomes an expression, an element is read. *)
Primary ==
  /\ Is(Top, {"lvalue", "call"})
  /\ IF IsElement(Node(Top)) THEN Reduce(1, {}, "expr", Fetched(Now, Node(Top)))
     ELSE /\ mode = "run"
          /\ stack' = [stack EXCEPT ![Top].as = "expr"]
          /\ UNCHANGED <<read, temps, cell, heap, mode>>

(* Mutant of Target: the cell of the left operand, temporary or not. *)
TargetLeft(l, r) == IF l.kind = "place" THEN l ELSE Place(temps)

(* The temporary of an operand that has one, or a new one. *)
Target(l, r) == IF IsTemp(l) THEN l ELSE IF IsTemp(r) THEN r ELSE Place(temps)

Computed(op, l, r) ==
  LET t == Target(l, r)
      m == [Now EXCEPT !.temps = IF t.sym = temps THEN temps + 1 ELSE temps]
      x == Read(Now, l)
      y == Read(Now, r) IN
  IF Stops(op, x, y) THEN {After(Stop(Now), l)}
  ELSE {After(Write(m, t.sym, Cell("number", n)), t) : n \in Results(op, x, y)}

Arithmetic(op) ==
  /\ Is(Top, {"expr"}) /\ Is(Top - 1, {"expr"})
  /\ IF {Top - 1, Top} \cap Waiting # {} THEN Reduce(2, {}, "expr", After(Now, Node(Top)))
     ELSE \E r \in Computed(op, Node(Top - 1), Node(Top)) : Reduce(2, {}, "expr", r)

UMinus ==
  /\ Is(Top, {"expr"})
  /\ IF Top \in Waiting THEN Reduce(1, {}, "expr", After(Now, Node(Top)))
     ELSE \E r \in Computed("uminus", Node(Top), Node(Top)) : Reduce(1, {}, "expr", r)

(* make_relop, and make_eq_neq, which turns comparisons into values first. *)
Compare(op) ==
  LET converted == IF op \in {"if_eq", "if_noteq"} THEN {Top - 1, Top} ELSE {}
      l == Materialized(Now, Node(Top - 1))
      r == Materialized(l.m, Node(Top)) IN
  /\ Is(Top, {"expr"}) /\ Is(Top - 1, {"expr"})
  /\ Reduce(2, converted, "expr", After(r.m, Condition(Jumps(op, Read(r.m, l.o), Read(r.m, r.o)))))

(* make_and, make_or, make_not: only true counts as true, and both operands *)
(* have been computed by then, whatever the left one is.                    *)
IsTrue(o) == Read(Now, o) = Bool(TRUE)

Connective(op) ==
  LET l == IsTrue(Node(Top - 1))
      r == IsTrue(Node(Top)) IN
  /\ Is(Top, {"expr"}) /\ Is(Top - 1, {"expr"})
  /\ Reduce(2, {Top - 1}, "expr",
            After(Now, Condition(IF op = "and" THEN l /\ r ELSE l \/ r)))

Not ==
  /\ Is(Top, {"expr"})
  /\ Reduce(1, {Top}, "expr", After(Now, Condition(~IsTrue(Node(Top)))))

(* assignexpr.  That a function is no l-value is printed, and the code is   *)
(* made all the same: the value is stored to a scratch register.            *)
Assign ==
  LET lv == Node(Top - 1)
      rhs == Materialized(Now, Node(Top))
      table == Fetched(rhs.m, lv.table)
      stored == SetElem(table.m, table.o, lv.index, rhs.o)
      written == Write(rhs.m, lv.sym, Read(rhs.m, rhs.o)) IN
  /\ Is(Top, {"expr"}) /\ Is(Top - 1, {"lvalue"})
  /\ Reduce(2, {Top}, "expr",
       IF lv.kind = "const" THEN InTemp(rhs.m, ToTemp(rhs.m, lv.val))
       ELSE IF IsElement(lv)
       THEN InTemp(stored, IF stored.mode = "run" THEN GetElem(stored, table.o, lv.index)
                           ELSE stored)
       ELSE InTemp(written, ToTemp(written, Read(written, lv))))

(* incdec_lvalue: of a variable, and of an element, which is fetched first. *)
(* A function is not refused, and is no number when the quads are executed. *)
Stepped(m, o, by) == IF m.mode # "run" \/ Stops("add", Read(m, o), Number(by)) THEN {}
                     ELSE Results("add", Read(m, o), Number(by))
CannotStep(m, o) == m.mode # "run" \/ ~Numeric(Read(m, o), Number(1))

IncDecVar(lv, n, isPrefix) ==
  LET copy == ToTemp(Now, IF isPrefix THEN n ELSE Read(Now, lv)) IN
  InTemp(Now, Write(copy, lv.sym, n))

IncDecItem(old, table, key, n, isPrefix) ==
  LET ret == IF isPrefix THEN old ELSE InTemp(old.m, ToTemp(old.m, Read(old.m, old.o)))
      new == InTemp(ret.m, ToTemp(ret.m, n)) IN
  After(SetElem(new.m, table, key, new.o), IF isPrefix THEN new.o ELSE ret.o)

IncDec(by, isPrefix) ==
  LET lv == Node(Top)
      table == Fetched(Now, lv.table)
      old == IF IsElement(lv) THEN InTemp(table.m, GetElem(table.m, table.o, lv.index))
             ELSE After(Now, lv) IN
  /\ Is(Top, {"lvalue"})
  /\ \/ CannotStep(old.m, old.o) /\ Reduce(1, {}, "expr", After(Stop(old.m), lv))
     \/ \E n \in Stepped(old.m, old.o, by) :
          Reduce(1, {}, "expr",
            IF IsElement(lv)
            THEN IncDecItem(old, table.o, lv.index, Cell("number", n), isPrefix)
            ELSE IncDecVar(lv, Cell("number", n), isPrefix))

-----------------------------------------------------------------------------
(* Calls and table constructors *)

Nodes(n) == [i \in 1 .. n |-> Node(Top - n + i)]
Elist(n) == \A i \in Top - n + 1 .. Top : Is(i, {"expr"})

(* The called function: of one formal, which it returns, or of two, the     *)
(* first of which it returns, storing the second to the variable Global.    *)
Returns(m, f, formals) ==
  IF f.val = 1 THEN After(m, formals[1])
  ELSE After(Write(m, Global, formals[2]), formals[1])

(* Mutant of Pushed: the arguments are pushed from left to right. *)
PushedInOrder(m, args) == [i \in DOMAIN args |-> Read(m, args[i])]

(* emit_params_rev, and the formals of the actuals that were pushed. *)
Pushed(m, args) == Reverse([i \in DOMAIN args |-> Read(m, args[i])])
Formals(pushed) == Reverse(pushed)

(* make_call_expr and the call it emits. *)
Called(m, f, args) ==
  LET r == Returns(m, Read(m, f), Formals(Pushed(m, args))) IN
  IF m.mode # "run" \/ Read(m, f).type # "userfunc" THEN After(Stop(m), f)
  ELSE InTemp(r.m, ToTemp(r.m, r.o))

RightArity(m, f, n) ==
  m.mode = "run" /\ Read(m, f).type = "userfunc" => Read(m, f).val = n

RECURSIVE AllMaterialized(_, _)
AllMaterialized(m, args) ==
  IF args = << >> THEN After(m, << >>)
  ELSE LET e == Materialized(m, Head(args))
           rest == AllMaterialized(e.m, Tail(args)) IN
       After(rest.m, <<e.o>> \o rest.o)

(* lvalue ( elist ), call ( elist ): an element is fetched before the       *)
(* comparisons among the arguments are made values.                         *)
Call(n) ==
  LET callee == Node(Top - n)
      f == Fetched(Now, callee)
      args == AllMaterialized(f.m, Nodes(n)) IN
  /\ Elist(n) /\ Is(Top - n, {"lvalue", "call"})
  /\ RightArity(args.m, f.o, n)
  /\ Reduce(n + 1, IF IsElement(callee) THEN {} ELSE Top - n + 1 .. Top, "call",
            Called(args.m, f.o, args.o))

(* lvalue .. id ( elist ) *)
MethodCall(name, n) ==
  LET self == Fetched(Now, Node(Top - n))
      method == InTemp(self.m, GetElem(self.m, self.o, Const(name))) IN
  /\ Elist(n) /\ Is(Top - n, {"lvalue"})
  /\ RightArity(method.m, method.o, n + 1)
  /\ Reduce(n + 1, {}, "call", Called(method.m, method.o, <<self.o>> \o Nodes(n)))

(* [ elist ], [ { expr : expr } ]: nothing makes a comparison a value. *)
ObjectDef(n) ==
  LET t == InTemp(Now, NewTable(Now))
      RECURSIVE Fill(_, _)
      Fill(m, i) == IF i > n THEN m
                    ELSE Fill(SetElem(m, t.o, Const(Number(i - 1)), Nodes(n)[i]), i + 1) IN
  /\ Elist(n) /\ Room
  /\ Reduce(n, {}, "expr", After(Fill(t.m, 1), t.o))

Indexed ==
  LET t == InTemp(Now, NewTable(Now)) IN
  /\ Elist(2) /\ Top >= 2 /\ Room
  /\ Reduce(2, {}, "expr", After(SetElem(t.m, t.o, Node(Top - 1), Node(Top)), t.o))

(* stmt: expr ;  A number is copied; resettemp does nothing.  *)
ExprStmt ==
  LET o == Node(1)
      m == IF o.kind = "const" /\ o.val.type = "number" THEN ToTemp(Now, o.val)
           ELSE Materialized(Now, o).m IN
  /\ mode = "run" /\ Top = 1 /\ Is(1, {"expr"})
  /\ stack' = << >>
  /\ temps' = m.temps /\ cell' = m.cell
  /\ UNCHANGED <<read, heap, mode>>

-----------------------------------------------------------------------------
(* The program starts with a table in one of its variables, and a method in *)
(* the table.                                                               *)
Method == Number(2)
Init ==
  /\ stack = << >> /\ read = 0 /\ temps = 0 /\ mode = "run"
  /\ heap = <<Method :> Cell("userfunc", 2)>>
  /\ cell \in {[x \in Vars |-> IF x = Global THEN v ELSE Cell("table", 1)] :
                v \in {UNDEF, Number(1)}}

Next ==
  \/ \E o \in Names : Push("lvalue", o)
  \/ \E o \in Literals : Push("expr", o)
  \/ \E op \in Operators : Arithmetic(op)
  \/ \E op \in Comparisons : Compare(op)
  \/ \E by \in {1, -1}, isPrefix \in BOOLEAN : IncDec(by, isPrefix)
  \/ \E n \in 1 .. 2 : Call(n)
  \/ \E n \in 0 .. 1 : MethodCall(Method, n)
  \/ \E n \in 0 .. 2 : ObjectDef(n)
  \/ \E op \in {"and", "or"} : Connective(op)
  \/ Not \/ Member \/ Primary \/ UMinus \/ Assign \/ Indexed \/ ExprStmt

Spec == Init /\ [][Next]_vars
=============================================================================
