------------------------------- MODULE BoolExpr -----------------------------
(***************************************************************************)
(* Boolean expressions from the parser to the machine: the grammar actions *)
(* of quads.c and parser.y reduce a stack of operands, emitting quads and  *)
(* keeping lists of jumps to complete; the finished quads are then run.    *)
(*                                                                         *)
(* bison reduces bottom-up: the quads of both operands have been emitted   *)
(* when the action of an operator runs.  Every operand gets its truth value*)
(* when it is read; what Alpha's semantics give for the whole expression is *)
(* computed alongside, in `val'.                                           *)
(***************************************************************************)
EXTENDS QuadLists, Sequences

CONSTANTS
  FirstQuad,    \* most quads emitted before the statement
  Kinds,        \* the operands read: "variable", "computed", "nil"
  MaxQuads,     \* bound on the quads
  MaxOperands   \* bound on the operands of an expression

ASSUME BoolExprAssumption ==
  /\ FirstQuad \in Nat /\ MaxQuads \in Nat /\ MaxOperands \in Nat
  /\ FirstQuad < MaxQuads

VARIABLES
  quads,
  exprs,   \* the parser's stack of expressions
  read,    \* operands read so far
  mode,    \* "parse", "run", "done", "loop" after a jump backwards, or
           \* "clobbered": newlist has taken quads of something else
  pc,
  cell,    \* contents of variables and temporaries
  answer,  \* the cell that holds the value of the finished statement
  lost     \* history: a jump is on no list and has no target

vars == <<quads, exprs, read, mode, pc, cell, answer, lost>>

T == 1
F == 0
U == 2   \* undef and nil: neither true nor false

(* Cells: the temporary written first by quad i is cell i; then come the    *)
(* variables, a temporary nobody writes, and the program's result.          *)
Variable(i) == MaxQuads + i
Unwritten == MaxQuads + MaxOperands
Result == Unwritten + 1

Set(x, v) == [op |-> "assign", x |-> x, y |-> v, label |-> 0]
Test(op, x, y) == [op |-> op, x |-> x, y |-> y, label |-> 0]
IfTrue(x) == Test("if_true", x, x)
Goto == Test("jump", 0, 0)

Tests == {"if_true", "if_eq", "if_noteq", "if_less", "jump"}

(* An expression on the stack.  History: `start' is where its quads begin,  *)
(* `sound' whether it is among those the code gets right, as each action    *)
(* below says.                                                              *)
Value(place, start, val, sound) ==
  [kind |-> "value", place |-> place, truelist |-> 0, falselist |-> 0,
   start |-> start, val |-> val, sound |-> sound]
Bool(place, t, f, start, val, sound) ==
  [kind |-> "bool", place |-> place, truelist |-> t, falselist |-> f,
   start |-> start, val |-> val, sound |-> sound]
Nil == [Value(Unwritten, 0, U, FALSE) EXCEPT !.kind = "nil"]

IsBool(e) == e.kind = "bool"
Truth(b) == IF b THEN T ELSE F

-----------------------------------------------------------------------------
(* Conversions.  Each gives the quads and the expression that result. *)

Both(q, e) == [quads |-> q, expr |-> e]

(* A test and the jump behind it, both to be completed. *)
WithTest(q, test) == Emit(Emit(q, test), Goto)

(* convert_to_bool *)
ConvertToBool(q, e) ==
  LET n == NextQuad(q) IN
  IF IsBool(e) THEN Both(q, e)
  ELSE Both(WithTest(q, IfTrue(e.place)),
            Bool(Unwritten, n, n + 1, e.start, e.val, e.sound /\ n # 0))

(* Mutant of ConvertToValue: the jump over `false' goes one quad too far. *)
ConvertToValueTooFar(q, e) ==
  LET n == NextQuad(q)
      q3 == Emit(Emit(Emit(q, Set(n, T)), Goto), Set(n, F))
      q4 == PatchList(PatchList(q3, e.truelist, n), e.falselist, n + 2)
  IN  IF ~IsBool(e) THEN Both(q, e)
      ELSE Both(PatchLabel(q4, n + 1, n + 4), Value(n, e.start, e.val, e.sound))

(* convert_to_value *)
ConvertToValue(q, e) ==
  LET n == NextQuad(q)
      q3 == Emit(Emit(Emit(q, Set(n, T)), Goto), Set(n, F))
      q4 == PatchList(PatchList(q3, e.truelist, n), e.falselist, n + 2)
  IN  IF ~IsBool(e) THEN Both(q, e)
      ELSE Both(PatchLabel(q4, n + 1, n + 3), Value(n, e.start, e.val, e.sound))

(* The jumps of the left operand that go on to the right one, `pass', are   *)
(* given the head of the right operand's true list.                         *)
PatchToRight(q, pass, r) == PatchList(q, pass, r.truelist)

-----------------------------------------------------------------------------
(* Reading operands *)

Depth == Len(exprs)
Top == exprs[Depth]
Below == exprs[Depth - 1]

Reading ==
  /\ mode = "parse" /\ read < MaxOperands
  /\ read' = read + 1
  /\ UNCHANGED <<mode, pc, answer, lost>>

(* A variable, or a constant. *)
ReadVariable(v) ==
  /\ "variable" \in Kinds /\ Reading
  /\ cell' = [cell EXCEPT ![Variable(read)] = v]
  /\ exprs' = Append(exprs, Value(Variable(read), NextQuad(quads), v, TRUE))
  /\ UNCHANGED quads

(* An operand with quads of its own, the last of which writes a temporary:  *)
(* a call, a table element, an arithmetic expression.                       *)
ReadComputed(v) ==
  LET n == NextQuad(quads) IN
  /\ "computed" \in Kinds /\ Reading /\ n < MaxQuads
  /\ quads' = Emit(quads, Set(n, v))
  /\ exprs' = Append(exprs, Value(n, n, v, TRUE))
  /\ UNCHANGED cell

(* nil *)
ReadNil ==
  /\ "nil" \in Kinds /\ Reading
  /\ exprs' = Append(exprs, Nil)
  /\ UNCHANGED <<quads, cell>>

-----------------------------------------------------------------------------
(* Reductions *)

(* emit drops a test of nil, and the numbers the lists are made of are off. *)
Clobber ==
  /\ mode' = "clobbered"
  /\ UNCHANGED <<quads, exprs, read, pc, cell, answer, lost>>

Reduce(n, q, e) ==
  /\ quads' = q
  /\ exprs' = Append(SubSeq(exprs, 1, Depth - n), e)
  /\ UNCHANGED <<read, mode, pc, cell, answer>>

Room(n) == mode = "parse" /\ NextQuad(quads) + n <= MaxQuads

(* make_not *)
Not ==
  LET b == ConvertToBool(quads, Top)
      e == b.expr IN
  /\ Room(2) /\ Depth >= 1
  /\ IF Top.kind = "nil" THEN Clobber
     ELSE /\ Reduce(1, b.quads, Bool(Unwritten, e.falselist, e.truelist, e.start,
                                     Truth(e.val = F), e.sound))
          /\ UNCHANGED lost

(* make_and and make_or with a boolean left operand.  Right if the quads of *)
(* the right operand begin with the head of its true list.                  *)
AfterBool(l, r, val, pass, stop, isAnd) ==
  LET rb == ConvertToBool(quads, r)
      q == PatchToRight(rb.quads, pass, rb.expr)
      e == rb.expr
      t == IF isAnd THEN e.truelist ELSE Merged(stop, e.truelist)
      f == IF isAnd THEN Merged(stop, e.falselist) ELSE e.falselist IN
  /\ Reduce(2, MergeLists(q, stop, IF isAnd THEN e.falselist ELSE e.truelist),
            Bool(Unwritten, t, f, l.start, val,
                 l.sound /\ e.sound /\ e.start = e.truelist))
  /\ lost' = (lost \/ e.truelist = 0)

(* ... and with any other left operand, whose test is emitted behind the    *)
(* quads of the right one.  Right if the right operand is no boolean        *)
(* expression either.                                                       *)
AfterValue(l, r, val, isAnd) ==
  LET test == NextQuad(quads)
      q1 == WithTest(quads, IfTrue(l.place))
      pass == IF isAnd THEN test ELSE test + 1
      stop == IF isAnd THEN test + 1 ELSE test
      rb == ConvertToBool(PatchLabel(q1, pass, NextQuad(q1)), r)
      e == rb.expr
      t == IF isAnd THEN e.truelist ELSE Merged(stop, e.truelist)
      f == IF isAnd THEN Merged(stop, e.falselist) ELSE e.falselist IN
  /\ Reduce(2, MergeLists(NewList(rb.quads, stop), stop,
                          IF isAnd THEN e.falselist ELSE e.truelist),
            Bool(Unwritten, t, f, l.start, val,
                 l.sound /\ e.sound /\ ~IsBool(r) /\ test # 0))
  /\ lost' = (lost \/ (test = 0 /\ ~isAnd))

And ==
  LET val == Truth(Below.val = T /\ Top.val = T) IN
  /\ Room(4) /\ Depth >= 2
  /\ IF "nil" \in {Below.kind, Top.kind} THEN Clobber
     ELSE IF IsBool(Below)
     THEN AfterBool(Below, Top, val, Below.truelist, Below.falselist, TRUE)
     ELSE AfterValue(Below, Top, val, TRUE)

Or ==
  LET val == Truth(Below.val = T \/ Top.val = T) IN
  /\ Room(4) /\ Depth >= 2
  /\ IF "nil" \in {Below.kind, Top.kind} THEN Clobber
     ELSE IF IsBool(Below)
     THEN AfterBool(Below, Top, val, Below.falselist, Below.truelist, FALSE)
     ELSE AfterValue(Below, Top, val, FALSE)

(* What a comparison emits over the quads q, when neither operand is nil:   *)
(* the test and the jump; otherwise an assignment, and lists without jumps. *)
Compared(q, op, l, r, val, sound) ==
  LET n == NextQuad(q) IN
  IF "nil" \in {l.kind, r.kind}
  THEN Both(Emit(q, Set(n, F)), Bool(n, 0, 0, l.start, val, FALSE))
  ELSE Both(WithTest(q, Test(op, l.place, r.place)),
            Bool(Unwritten, n, n + 1, l.start, val, sound /\ n # 0))

(* make_eq_neq.  The left operand is converted behind the quads of the      *)
(* right one.                                                               *)
Equality(op, val) ==
  LET l == ConvertToValue(quads, Below)
      r == ConvertToValue(l.quads, Top)
      b == Compared(r.quads, op, l.expr, r.expr, val,
                    /\ Below.sound /\ Top.sound
                    /\ IsBool(Below) => Top.start = NextQuad(quads)) IN
  /\ Room(8) /\ Depth >= 2
  /\ Reduce(2, b.quads, b.expr)
  /\ UNCHANGED lost

Equal == Equality("if_eq", Truth(Below.val = Top.val))
NotEqual == Equality("if_noteq", Truth(Below.val # Top.val))

(* make_relop: a boolean operand is not converted, and its lists are lost.  *)
Less ==
  LET b == Compared(quads, "if_less", Below, Top,
                    Truth(Below.val < Top.val /\ Top.val # U),
                    Below.sound /\ Top.sound /\ ~IsBool(Below) /\ ~IsBool(Top)) IN
  /\ Room(2) /\ Depth >= 2
  /\ Reduce(2, b.quads, b.expr)
  /\ lost' = (lost \/ IsBool(Below) \/ IsBool(Top))

-----------------------------------------------------------------------------
(* Statements *)

Finish(q, e, place) ==
  /\ quads' = q
  /\ exprs' = <<e>>
  /\ mode' = "run"
  /\ pc' = 0
  /\ answer' = place
  /\ UNCHANGED <<read, cell, lost>>

(* An expression used for its value: an assignment, a return, while, for. *)
FinishValue ==
  LET v == ConvertToValue(quads, Top) IN
  /\ Room(3) /\ Depth = 1
  /\ Finish(v.quads, Top, v.expr.place)

(* ifprefix, a statement that writes Result, and the end of ifstmt. *)
FinishIf ==
  LET n == NextQuad(quads)
      q == CASE IsBool(Top) -> PatchList(quads, Top.truelist, n)
             [] Top.kind = "nil" -> Emit(quads, Goto)
             [] OTHER -> PatchLabel(WithTest(quads, IfTrue(Top.place)), n, n + 2)
      list == IF IsBool(Top) THEN Top.falselist ELSE NextQuad(q) - 1
      body == Emit(q, Set(Result, T)) IN
  /\ Room(3) /\ Depth = 1
  /\ Finish(PatchList(body, list, NextQuad(body)), Top, Result)

-----------------------------------------------------------------------------
(* The machine runs the quads. *)

Holds(t) ==
  LET x == cell[t.x]
      y == cell[t.y] IN
  CASE t.op = "if_true"  -> x = T
    [] t.op = "if_eq"    -> x = y /\ x # U
    [] t.op = "if_noteq" -> x # y \/ x = U
    [] t.op = "if_less"  -> x < y /\ y # U
    [] OTHER             -> TRUE

Run ==
  LET t == quads[pc] IN
  /\ mode = "run" /\ pc \in DOMAIN quads
  /\ IF t.op \in Tests /\ Holds(t)
     THEN /\ pc' = t.label
          /\ mode' = IF t.label > pc THEN "run" ELSE "loop"
     ELSE pc' = pc + 1 /\ UNCHANGED mode
  /\ cell' = IF t.op = "assign" THEN [cell EXCEPT ![t.x] = t.y] ELSE cell
  /\ UNCHANGED <<quads, exprs, read, answer, lost>>

Ended ==
  /\ mode = "run" /\ pc \notin DOMAIN quads
  /\ mode' = "done"
  /\ UNCHANGED <<quads, exprs, read, pc, cell, answer, lost>>

-----------------------------------------------------------------------------
Init ==
  /\ \E n \in 0 .. FirstQuad : quads = [i \in 0 .. n - 1 |-> Set(Unwritten, U)]
  /\ exprs = << >>
  /\ read = 0
  /\ mode = "parse"
  /\ pc = 0
  /\ cell = [i \in 0 .. Result |-> IF i = Result THEN F ELSE U]
  /\ answer = Result
  /\ lost = FALSE

Next ==
  \/ \E v \in {T, F} : ReadVariable(v) \/ ReadComputed(v)
  \/ ReadNil
  \/ Not \/ And \/ Or \/ Equal \/ NotEqual \/ Less
  \/ FinishValue \/ FinishIf
  \/ Run \/ Ended

Spec == Init /\ [][Next]_vars
=============================================================================
