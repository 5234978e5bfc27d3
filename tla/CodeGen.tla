------------------------------- MODULE CodeGen ------------------------------
(***************************************************************************)
(* The generator of target code (codegen.c).  A program is first written,  *)
(* as quads in the nesting in which the parser leaves them; then           *)
(* generate_target_code walks the quads once.  What it cannot know when it *)
(* meets it - the target of a forward jump, the end of a function - is     *)
(* patched later; the function a call names is looked up by its name.      *)
(*                                                                         *)
(* Quads and addresses are numbered from 0; instruction i is the element   *)
(* i + 1 of a sequence.  The program has one variable.                     *)
(***************************************************************************)
EXTENDS QuadLists, Sequences

CONSTANTS
  Names,            \* names of functions
  Relops,           \* the comparisons that programs use
  Numbers,          \* the numbers that programs assign
  MaxQuads,         \* bound on the length of a program
  MaxInstructions,  \* INSTRUCTION_ARRAY_SIZE
  MaxNesting        \* size of func_skip_stack

ASSUME CodeGenAssumption ==
  /\ Relops \subseteq {"if_eq", "if_noteq", "if_less", "if_lesseq", "if_greater",
                       "if_greatereq"}
  /\ Numbers \subseteq Nat
  /\ {MaxQuads, MaxInstructions, MaxNesting} \subseteq Nat

VARIABLES
  quads,
  symbols,          \* the functions: name and scope, by the number of their funcstart
  open,             \* constructs being written, outermost first
  returnlist,       \* jumps to the end of the current function
  phase,            \* "parse", "generate", "run", or how it ended
  next,             \* the quad to generate next
  instructions,
  taddress,         \* the first instruction of each generated quad
  ijumps,           \* jumps to patch: <<instruction, quad>>
  func_skip_stack,  \* innermost first
  userfuncs         \* names and addresses, most recent first

program == <<quads, symbols, open, returnlist>>
target == <<next, instructions, taddress, ijumps, func_skip_stack, userfuncs>>

-----------------------------------------------------------------------------
(* Quads and their operands *)

ConstNum(n) == [type |-> "constnum", value |-> n]
Var == [type |-> "var", value |-> 0]
ProgramFunc(f) == [type |-> "programfunc", value |-> f]
NoExpr == [type |-> "none", value |-> 0]

Quad(op, arg1, arg2, result, label) ==
  [op |-> op, arg1 |-> arg1, arg2 |-> arg2, result |-> result, label |-> label]
Jump(label) == Quad("jump", NoExpr, NoExpr, NoExpr, label)
Only(op, arg1) == Quad(op, arg1, NoExpr, NoExpr, 0)

currQuad == NextQuad(quads)
Room(n) == phase = "parse" /\ currQuad + n <= MaxQuads

Depth == Len(open)
Top == open[Depth]
Scope == IF Depth = 0 THEN 0 ELSE Top.scope
Inside == {i \in 1 .. Depth : open[i].kind = "function"}

(* The functions an identifier may name here: that of the innermost scope,  *)
(* or, written with ::, that of scope 0.  Functions stay active for good.   *)
Hides(g, f) == /\ symbols[g].name = symbols[f].name
               /\ symbols[f].scope < symbols[g].scope /\ symbols[g].scope <= Scope
Callable ==
  {f \in DOMAIN symbols :
     /\ symbols[f].scope <= Scope
     /\ symbols[f].scope = 0 \/ \A g \in DOMAIN symbols : ~Hides(g, f)}

Sources == {ConstNum(n) : n \in Numbers} \cup {ProgramFunc(f) : f \in Callable}

Push(c) == open' = Append(open, c)
Pop == open' = SubSeq(open, 1, Depth - 1)

WriteAssign ==
  /\ Room(1)
  /\ \E e \in Sources : quads' = Emit(quads, Quad("assign", e, NoExpr, Var, 0))
  /\ UNCHANGED <<symbols, open, returnlist, phase, target>>

(* if (x op 1) { or while (x op 1) { : the test, and a jump past the body.  *)
WriteTest(kind) ==
  /\ Room(2)
  /\ \E op \in Relops :
       quads' = Emit(Emit(quads, Quad(op, Var, ConstNum(1), NoExpr, currQuad + 2)), Jump(0))
  /\ Push([kind |-> kind, start |-> currQuad, scope |-> Scope + 1])
  /\ UNCHANGED <<symbols, returnlist, phase, target>>
WriteIf == WriteTest("if")
WriteWhile == WriteTest("while")

WriteEnd ==
  /\ Room(1) /\ Depth > 0 /\ Top.kind \in {"if", "while"}
  /\ LET q == IF Top.kind = "if" THEN quads ELSE Emit(quads, Jump(Top.start))
     IN  quads' = PatchLabel(q, Top.start + 1, NextQuad(q))
  /\ Pop
  /\ UNCHANGED <<symbols, returnlist, phase, target>>

(* Programs without an error message: for a name that a function of this    *)
(* scope has, insert_symbol prints one, and the parser goes on with a       *)
(* function without a symbol, which is never bound (has_bind = 0).          *)
WriteFunction ==
  /\ Room(2)
  /\ \E name \in Names :
       LET s == [name |-> name, scope |-> Scope] IN
       /\ s \notin {symbols[f] : f \in DOMAIN symbols}
       /\ symbols' = [f \in DOMAIN symbols \cup {currQuad} |->
                        IF f = currQuad THEN s ELSE symbols[f]]
  /\ quads' = Emit(quads, Quad("funcstart", ProgramFunc(currQuad), ConstNum(0), NoExpr, 0))
  /\ returnlist' = {}
  /\ Push([kind |-> "function", start |-> currQuad, scope |-> Scope + 2])
  /\ UNCHANGED <<phase, target>>

WriteFunctionEnd ==
  /\ Room(1) /\ Depth > 0 /\ Top.kind = "function"
  /\ quads' = Labelled(Emit(quads, Only("funcend", ProgramFunc(Top.start))),
                       returnlist, currQuad)
  /\ returnlist' = {}
  /\ Pop
  /\ UNCHANGED <<symbols, phase, target>>

WriteCall ==
  /\ Room(3)
  /\ \E e \in {ProgramFunc(f) : f \in Callable} \cup {Var} :
       quads' = Emit(Emit(Emit(quads, Only("param", ConstNum(0))), Only("call", e)),
                     Quad("getretval", NoExpr, NoExpr, Var, 0))
  /\ UNCHANGED <<symbols, open, returnlist, phase, target>>

WriteReturn ==
  /\ Room(2) /\ Inside # {}
  /\ \E e \in Sources : quads' = Emit(Emit(quads, Only("ret", e)), Jump(0))
  /\ returnlist' = returnlist \cup {currQuad + 1}
  /\ UNCHANGED <<symbols, open, phase, target>>

WriteDone ==
  /\ phase = "parse" /\ open = << >> /\ quads # << >>
  /\ phase' = "generate"
  /\ UNCHANGED <<program, target>>

-----------------------------------------------------------------------------
(* Instructions *)

Arg(type, value) == [type |-> type, value |-> value]
Label(l) == Arg("label_a", l)
Global(offset) == Arg("global_a", offset)
RetVal == Arg("retval_a", 0)
Instruction(opcode, arg1, arg2, result) ==
  [opcode |-> opcode, arg1 |-> arg1, arg2 |-> arg2, result |-> result]

(* The program's variable has offset 0, a function the one after the number *)
(* of its funcstart.                                                        *)
Offset(f) == f + 1

(* nextinstructionlabel *)
currInstruction == Len(instructions)

(* lookup_userfunc_address, where the name is known. *)
Registered(name) == {i \in DOMAIN userfuncs : userfuncs[i].name = name}

(* Mutant of Address: the function that took the name first. *)
OldestAddress(f) ==
  LET S == Registered(symbols[f].name) IN
    userfuncs[CHOOSE i \in S : \A j \in S : j <= i].address

Address(f) ==
  LET S == Registered(symbols[f].name) IN
    userfuncs[CHOOSE i \in S : \A j \in S : i <= j].address

(* make_operand *)
Operand(e) ==
  CASE e.type = "constnum" -> Arg("number_a", e.value)
    [] e.type = "var" -> Global(0)
    [] e.type = "programfunc" -> Arg("userfunc_a", Address(e.value))
    [] OTHER -> Label(0)

Generating == phase = "generate" /\ next < currQuad
Q == quads[next]
Fits(n) == currInstruction + n <= MaxInstructions

(* The instructions s of the next quad. *)
Generate(s) ==
  /\ Fits(Len(s))
  /\ instructions' = instructions \o s
  /\ taddress' = Append(taddress, currInstruction)
  /\ next' = next + 1

(* generate_ASSIGN, generate_PARAM, generate_CALL, generate_GETRETVAL and   *)
(* generate_RET                                                             *)
OpcodeOf == [assign |-> "assign", param |-> "pusharg", call |-> "callfunc",
             getretval |-> "getretval", ret |-> "assign"]
GenerateSimple ==
  /\ Generating /\ Q.op \in DOMAIN OpcodeOf
  /\ Generate(<<Instruction(OpcodeOf[Q.op],
                  IF Q.op = "getretval" THEN RetVal ELSE Operand(Q.arg1),
                  Label(0),
                  IF Q.op = "ret" THEN RetVal ELSE Operand(Q.result))>>)
  /\ UNCHANGED <<program, phase, ijumps, func_skip_stack, userfuncs>>

(* Mutant of JumpOpcode: < and <= are confused. *)
ConfusedJumpOpcode ==
  [jump |-> "jne", if_eq |-> "jeq", if_noteq |-> "jne", if_greater |-> "jgt",
   if_greatereq |-> "jge", if_less |-> "jle", if_lesseq |-> "jlt"]

(* generate_JUMP and generate_IF_* *)
JumpOpcode ==
  [jump |-> "jne", if_eq |-> "jeq", if_noteq |-> "jne", if_greater |-> "jgt",
   if_greatereq |-> "jge", if_less |-> "jlt", if_lesseq |-> "jle"]

(* A jump back is complete at once, unless its target is instruction 0. *)
Known(label) == label < next /\ taddress[label + 1] # 0

(* generate_relational *)
GenerateRelational ==
  /\ Generating /\ Q.op \in DOMAIN JumpOpcode
  /\ LET known == Known(Q.label) IN
     /\ Generate(<<Instruction(JumpOpcode[Q.op], Operand(Q.arg1), Operand(Q.arg2),
                               Label(IF known THEN taddress[Q.label + 1] ELSE 0))>>)
     /\ ijumps' = IF known THEN ijumps ELSE ijumps \cup {<<currInstruction, Q.label>>}
  /\ UNCHANGED <<program, phase, func_skip_stack, userfuncs>>

(* generate_FUNCSTART: bind the function's cell, jump past the code, enter. *)
GenerateFuncStart ==
  /\ Generating /\ Q.op = "funcstart"
  /\ Len(func_skip_stack) < MaxNesting
  /\ LET f == Q.arg1.value
         entry == currInstruction + 2 IN
     /\ Generate(<<Instruction("assign", Arg("userfunc_a", entry), Label(0),
                               Global(Offset(f))),
                   Instruction("jne", Label(0), Label(0), Label(0)),
                   Instruction("funcenter", Operand(Q.arg2), Label(0), Label(0))>>)
     /\ userfuncs' = <<[name |-> symbols[f].name, address |-> entry]>> \o userfuncs
     /\ func_skip_stack' = <<currInstruction + 1>> \o func_skip_stack
  /\ UNCHANGED <<program, phase, ijumps>>

Target(code, i, label) == [code EXCEPT ![i + 1].result.value = label]

(* Mutant of GenerateFuncEnd: the outermost function is taken for ended. *)
GenerateFuncEndOutermost ==
  /\ Generating /\ Q.op = "funcend" /\ Fits(1)
  /\ LET code == Append(instructions, Instruction("funcexit", Label(0), Label(0), Label(0)))
         last == Len(func_skip_stack) IN
     /\ instructions' = Target(code, func_skip_stack[last], currInstruction + 1)
     /\ func_skip_stack' = SubSeq(func_skip_stack, 1, last - 1)
  /\ taddress' = Append(taddress, currInstruction)
  /\ next' = next + 1
  /\ UNCHANGED <<program, phase, ijumps, userfuncs>>

(* Mutant of GenerateFuncEnd: the skip lands one instruction too far. *)
GenerateFuncEndTooFar ==
  /\ Generating /\ Q.op = "funcend" /\ Fits(1)
  /\ LET code == Append(instructions, Instruction("funcexit", Label(0), Label(0), Label(0))) IN
     IF func_skip_stack = << >>
     THEN instructions' = code /\ UNCHANGED func_skip_stack
     ELSE /\ instructions' = Target(code, Head(func_skip_stack), currInstruction + 2)
          /\ func_skip_stack' = Tail(func_skip_stack)
  /\ taddress' = Append(taddress, currInstruction)
  /\ next' = next + 1
  /\ UNCHANGED <<program, phase, ijumps, userfuncs>>

(* generate_FUNCEND *)
GenerateFuncEnd ==
  /\ Generating /\ Q.op = "funcend" /\ Fits(1)
  /\ LET code == Append(instructions, Instruction("funcexit", Label(0), Label(0), Label(0))) IN
     IF func_skip_stack = << >>
     THEN instructions' = code /\ UNCHANGED func_skip_stack
     ELSE /\ instructions' = Target(code, Head(func_skip_stack), currInstruction + 1)
          /\ func_skip_stack' = Tail(func_skip_stack)
  /\ taddress' = Append(taddress, currInstruction)
  /\ next' = next + 1
  /\ UNCHANGED <<program, phase, ijumps, userfuncs>>

(* emit_instruction: the assertion on the size of the array. *)
AssertFails ==
  /\ Generating
  /\ ~Fits(IF Q.op = "funcstart" THEN 3 ELSE 1)
  /\ phase' = "assert_failed"
  /\ UNCHANGED <<program, target>>

(* emit_unconditional_jump writes beyond func_skip_stack; nothing is said   *)
(* of what follows.                                                         *)
Overrun ==
  /\ Generating /\ Q.op = "funcstart"
  /\ Len(func_skip_stack) >= MaxNesting
  /\ phase' = "overrun"
  /\ UNCHANGED <<program, target>>

(* Where a jump to quad l arrives. *)
Start(l) == IF l >= currQuad THEN currInstruction ELSE taddress[l + 1]

(* Mutant of PatchIncompleteJumps: the last target is left alone. *)
PatchIncompleteJumpsWithin ==
  /\ phase = "generate" /\ next >= currQuad
  /\ instructions' =
       [i \in DOMAIN instructions |->
          IF \E j \in ijumps : j[1] = i - 1 /\ j[2] < currQuad
          THEN LET j == CHOOSE j \in ijumps : j[1] = i - 1
               IN  [instructions[i] EXCEPT !.result.value = Start(j[2])]
          ELSE instructions[i]]
  /\ phase' = "run"
  /\ UNCHANGED <<program, next, taddress, ijumps, func_skip_stack, userfuncs>>

(* patch_incomplete_jumps *)
PatchIncompleteJumps ==
  /\ phase = "generate" /\ next >= currQuad
  /\ instructions' =
       [i \in DOMAIN instructions |->
          IF \E j \in ijumps : j[1] = i - 1
          THEN LET j == CHOOSE j \in ijumps : j[1] = i - 1
               IN  [instructions[i] EXCEPT !.result.value = Start(j[2])]
          ELSE instructions[i]]
  /\ phase' = "run"
  /\ UNCHANGED <<program, next, taddress, ijumps, func_skip_stack, userfuncs>>

-----------------------------------------------------------------------------
CodeGenInit ==
  /\ quads = << >> /\ symbols = << >> /\ open = << >> /\ returnlist = {}
  /\ phase = "parse" /\ next = 0
  /\ instructions = << >> /\ taddress = << >> /\ ijumps = {}
  /\ func_skip_stack = << >> /\ userfuncs = << >>

Write ==
  \/ WriteAssign \/ WriteIf \/ WriteWhile \/ WriteEnd
  \/ WriteFunction \/ WriteFunctionEnd \/ WriteCall \/ WriteReturn \/ WriteDone

GenerateTargetCode ==
  \/ GenerateSimple \/ GenerateRelational \/ GenerateFuncStart \/ GenerateFuncEnd
  \/ AssertFails \/ Overrun \/ PatchIncompleteJumps

CodeGenNext == Write \/ GenerateTargetCode
CodeGenSpec == CodeGenInit /\ [][CodeGenNext]_<<program, phase, target>>
=============================================================================
