------------------------------ MODULE Statements ----------------------------
(***************************************************************************)
(* Statements in the parser (parser.y): what the grammar actions of loops, *)
(* branches, functions, `return', `break' and `continue' emit, and the     *)
(* state they share - the stack of loops, the list of returns, the number  *)
(* of the last funcstart and the count of locals are globals of the parser *)
(* that a function definition inside another construct takes over.         *)
(*                                                                         *)
(* The program is read construct by construct, in any nesting.  Conditions *)
(* are variables, and elists are empty; BoolExpr is about expressions.     *)
(***************************************************************************)
EXTENDS QuadLists, Sequences

CONSTANTS MaxQuads, MaxLocals  \* bounds on the quads and on the locals

ASSUME StatementsAssumption == MaxQuads \in Nat /\ MaxLocals \in Nat

VARIABLES
  quads,
  open,            \* constructs being parsed, outermost first
  loops,           \* lcs_top: the stack of loops, innermost first
  returnlist,
  funcstart_quad,
  local_offset,
  inside_function_depth,
  mode,            \* "parse", "accepted", or the error that rejects the program
  exits,           \* history: jumps that leave or restart a construct
  closed,          \* history: where each finished loop or function ends and restarts
  cut,             \* history: jumps that were pending when a function began
  hosts,           \* history: functions that define a function
  locals           \* history: offsets of each function's variables

vars == <<quads, open, loops, returnlist, funcstart_quad, local_offset,
          inside_function_depth, mode, exits, closed, cut, hosts, locals>>

Depth == Len(open)
Top == open[Depth]
Quad(op, label) == [op |-> op, label |-> label, locals |-> 0]
Goto(label) == Quad("jump", label)

(* A construct is named by the number of its first quad. *)
Loops == {i \in 1 .. Depth : open[i].kind \in {"while", "for"}}
Functions == {i \in 1 .. Depth : open[i].kind = "function"}
Function == CHOOSE i \in Functions : \A j \in Functions : j <= i
InnermostLoop == CHOOSE i \in Loops : \A j \in Loops : j <= i

Room(n) == mode = "parse" /\ NextQuad(quads) + n <= MaxQuads

Open(c) == open' = Append(open, c)
Close == open' = SubSeq(open, 1, Depth - 1)
ClosedAt(id, exit, next) ==
  closed' = [i \in DOMAIN closed \cup {id} |->
               IF i = id THEN [exit |-> exit, next |-> next] ELSE closed[i]]

Functional == <<returnlist, funcstart_quad, local_offset, inside_function_depth>>
History == <<exits, closed, cut, hosts, locals>>

(* A semantic error: the program is not run. *)
Reject(why) ==
  /\ mode' = why
  /\ UNCHANGED <<quads, open, loops, Functional, History>>

-----------------------------------------------------------------------------
(* Variables *)

(* A declaration, or a temporary: assign_space_and_offset. *)
Local ==
  /\ mode = "parse" /\ inside_function_depth > 0 /\ local_offset < MaxLocals
  /\ local_offset' = local_offset + 1
  /\ LET f == open[Function].id IN
       locals' = [locals EXCEPT ![f] = Append(@, local_offset)]
  /\ UNCHANGED <<quads, open, loops, returnlist, funcstart_quad,
                 inside_function_depth, mode, exits, closed, cut, hosts>>

-----------------------------------------------------------------------------
(* Loops *)

Loop == [breaklist |-> 0, contlist |-> 0]
PushLoop == loops' = <<Loop>> \o loops

(* Mutant of PopLoop: the loops around it are forgotten too. *)
PopEveryLoop == loops' = << >>

(* pop_loopcounter and loopcounter *)
PopLoop == loops' = IF loops = << >> THEN << >> ELSE Tail(loops)
LoopCounter == Len(loops)

(* whilestmt, up to the body. *)
While ==
  LET n == NextQuad(quads) IN
  /\ Room(3)
  /\ quads' = Emit(Emit(quads, Quad("if", 0)), Goto(0))
  /\ PushLoop
  /\ Open([kind |-> "while", id |-> n, test |-> n, next |-> n, body |-> n + 2])
  /\ UNCHANGED <<Functional, mode, History>>

(* forstmt, up to the body: the elist between ends with a jump to the test. *)
For ==
  LET n == NextQuad(quads) IN
  /\ Room(4)
  /\ quads' = Emit(Emit(Emit(quads, Quad("if", 0)), Goto(0)), Goto(n))
  /\ PushLoop
  /\ Open([kind |-> "for", id |-> n, test |-> n, next |-> n + 2, body |-> n + 3])
  /\ UNCHANGED <<Functional, mode, History>>

(* The end of either: the jump back, the test, then what break and continue *)
(* have left on the lists of the current loop.                              *)
EndLoop ==
  LET q1 == Emit(quads, Goto(Top.next))
      exit == NextQuad(q1)
      q2 == PatchLabel(PatchLabel(q1, Top.test, Top.body), Top.test + 1, exit)
      q3 == PatchList(q2, loops[1].breaklist, exit)
      q4 == PatchList(q3, loops[1].contlist, Top.next) IN
  /\ Room(1) /\ Depth > 0 /\ Top.kind \in {"while", "for"}
  /\ quads' = IF loops = << >> THEN q2 ELSE q4
  /\ PopLoop
  /\ Close
  /\ ClosedAt(Top.id, exit, Top.next)
  /\ UNCHANGED <<Functional, mode, exits, cut, hosts, locals>>

(* break_stmt and continue_stmt, at the level of a loop's body or deeper in *)
(* the same function.                                                       *)
WithJump(list) ==
  LET n == NextQuad(quads)
      q == NewList(Emit(quads, Goto(0)), n) IN MergeLists(q, list, n)

Exit(kind, owner) ==
  exits' = exits \cup {[quad |-> NextQuad(quads), kind |-> kind, owner |-> owner]}

Break ==
  LET n == NextQuad(quads) IN
  /\ Room(1)
  /\ IF LoopCounter = 0 THEN Reject("no_loop")
     ELSE /\ quads' = WithJump(loops[1].breaklist)
          /\ loops' = [loops EXCEPT ![1].breaklist = Merged(@, n)]
          /\ Exit("break", open[InnermostLoop].id)
          /\ UNCHANGED <<open, Functional, mode, closed, cut, hosts, locals>>

Continue ==
  LET n == NextQuad(quads) IN
  /\ Room(1)
  /\ IF LoopCounter = 0 THEN Reject("no_loop")
     ELSE /\ quads' = WithJump(loops[1].contlist)
          /\ loops' = [loops EXCEPT ![1].contlist = Merged(@, n)]
          /\ Exit("continue", open[InnermostLoop].id)
          /\ UNCHANGED <<open, Functional, mode, closed, cut, hosts, locals>>

-----------------------------------------------------------------------------
(* Branches *)

(* ifprefix *)
If ==
  LET n == NextQuad(quads) IN
  /\ Room(2)
  /\ quads' = Emit(Emit(quads, Quad("if", n + 2)), Goto(0))
  /\ Open([kind |-> "if", id |-> n, list |-> n + 1])
  /\ UNCHANGED <<loops, Functional, mode, History>>

EndIf ==
  LET next == NextQuad(quads) IN
  /\ mode = "parse" /\ Depth > 0 /\ Top.kind = "if"
  /\ quads' = PatchList(quads, Top.list, next)
  /\ Close
  /\ UNCHANGED <<loops, Functional, mode, History>>

(* elseprefix *)
Else ==
  LET n == NextQuad(quads) IN
  /\ Room(1) /\ Depth > 0 /\ Top.kind = "if"
  /\ quads' = Emit(quads, Goto(0))
  /\ open' = [open EXCEPT ![Depth] =
                [kind |-> "else", id |-> Top.id, list |-> Top.list, jump |-> n]]
  /\ UNCHANGED <<loops, Functional, mode, History>>

EndElse ==
  LET next == NextQuad(quads) IN
  /\ mode = "parse" /\ Depth > 0 /\ Top.kind = "else"
  /\ quads' = PatchLabel(PatchList(quads, Top.list, Top.jump + 1), Top.jump, next)
  /\ Close
  /\ UNCHANGED <<loops, Functional, mode, History>>

-----------------------------------------------------------------------------
(* Functions *)

(* Jumps that wait for a construct that is still being parsed. *)
Pending == {e.quad : e \in {x \in exits : x.owner \in {open[i].id : i \in 1 .. Depth}}}

(* Mutant of FunctionStart: the loops around it stay current. *)
FunctionStartKeepsLoops ==
  LET n == NextQuad(quads) IN
  /\ Room(2)
  /\ quads' = Emit(quads, Quad("funcstart", 0))
  /\ funcstart_quad' = n
  /\ returnlist' = 0
  /\ local_offset' = 0
  /\ inside_function_depth' = inside_function_depth + 1
  /\ Open([kind |-> "function", id |-> n])
  /\ locals' = [i \in DOMAIN locals \cup {n} |-> IF i = n THEN << >> ELSE locals[i]]
  /\ hosts' = hosts \cup {open[i].id : i \in Functions}
  /\ cut' = cut \cup Pending
  /\ UNCHANGED <<loops, mode, exits, closed>>

(* funcdef, up to the body: enter_function_scope empties the stack of loops.*)
FunctionStart ==
  LET n == NextQuad(quads) IN
  /\ Room(2)
  /\ quads' = Emit(quads, Quad("funcstart", 0))
  /\ funcstart_quad' = n
  /\ returnlist' = 0
  /\ local_offset' = 0
  /\ inside_function_depth' = inside_function_depth + 1
  /\ loops' = << >>
  /\ Open([kind |-> "function", id |-> n])
  /\ locals' = [i \in DOMAIN locals \cup {n} |-> IF i = n THEN << >> ELSE locals[i]]
  /\ hosts' = hosts \cup {open[i].id : i \in Functions}
  /\ cut' = cut \cup Pending
  /\ UNCHANGED <<mode, exits, closed>>

(* Mutant of FunctionEnd: the depth is not restored. *)
FunctionEndKeepsDepth ==
  LET n == NextQuad(quads)
      q1 == [quads EXCEPT ![funcstart_quad].locals = local_offset]
      q2 == Emit(q1, Quad("funcend", 0)) IN
  /\ Room(1) /\ Depth > 0 /\ Top.kind = "function"
  /\ quads' = PatchList(q2, returnlist, n)
  /\ returnlist' = 0
  /\ Close
  /\ ClosedAt(Top.id, n, n)
  /\ UNCHANGED <<loops, funcstart_quad, local_offset, inside_function_depth, mode,
                 exits, cut, hosts, locals>>

(* Mutant of FunctionEnd: one cell too few is reserved. *)
FunctionEndReservesTooFew ==
  LET n == NextQuad(quads)
      q1 == [quads EXCEPT ![funcstart_quad].locals =
                       IF local_offset = 0 THEN 0 ELSE local_offset - 1]
      q2 == Emit(q1, Quad("funcend", 0)) IN
  /\ Room(1) /\ Depth > 0 /\ Top.kind = "function"
  /\ quads' = PatchList(q2, returnlist, n)
  /\ returnlist' = 0
  /\ inside_function_depth' = inside_function_depth - 1
  /\ Close
  /\ ClosedAt(Top.id, n, n)
  /\ UNCHANGED <<loops, funcstart_quad, local_offset, mode, exits, cut, hosts, locals>>

(* The end of funcdef, with or without a name. *)
FunctionEnd ==
  LET n == NextQuad(quads)
      q1 == [quads EXCEPT ![funcstart_quad].locals = local_offset]
      q2 == Emit(q1, Quad("funcend", 0)) IN
  /\ Room(1) /\ Depth > 0 /\ Top.kind = "function"
  /\ quads' = PatchList(q2, returnlist, n)
  /\ returnlist' = 0
  /\ inside_function_depth' = inside_function_depth - 1
  /\ Close
  /\ ClosedAt(Top.id, n, n)
  /\ UNCHANGED <<loops, funcstart_quad, local_offset, mode, exits, cut, hosts, locals>>

(* returnstmt *)
Return ==
  LET n == NextQuad(quads)
      q1 == Emit(quads, Quad("ret", 0))
      q2 == NewList(Emit(q1, Goto(0)), n + 1) IN
  /\ Room(2)
  /\ IF inside_function_depth < 1 THEN Reject("no_function")
     ELSE /\ quads' = MergeLists(q2, returnlist, n + 1)
          /\ returnlist' = Merged(returnlist, n + 1)
          /\ exits' = exits \cup {[quad |-> n + 1, kind |-> "return",
                                   owner |-> open[Function].id]}
          /\ UNCHANGED <<open, loops, funcstart_quad, local_offset,
                         inside_function_depth, mode, closed, cut, hosts, locals>>

-----------------------------------------------------------------------------
Accept ==
  /\ mode = "parse" /\ open = << >>
  /\ mode' = "accepted"
  /\ UNCHANGED <<quads, open, loops, Functional, History>>

Init ==
  /\ quads = << >> /\ open = << >> /\ loops = << >>
  /\ returnlist = 0 /\ funcstart_quad = 0 /\ local_offset = 0
  /\ inside_function_depth = 0
  /\ mode = "parse"
  /\ exits = {} /\ closed = << >> /\ cut = {} /\ hosts = {} /\ locals = << >>

Next ==
  \/ Local
  \/ While \/ For \/ EndLoop \/ Break \/ Continue
  \/ If \/ EndIf \/ Else \/ EndElse
  \/ FunctionStart \/ FunctionEnd \/ Return
  \/ Accept

Spec == Init /\ [][Next]_vars
=============================================================================
