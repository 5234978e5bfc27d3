------------------------------- MODULE AvmRun -------------------------------
(***************************************************************************)
(* The loop of the virtual machine (vm_run) over the code that CodeGen has *)
(* produced: fetching, operands, jumps, calls and the limit on the number  *)
(* of steps.  Activation records are AvmStack's subject; here a call only  *)
(* remembers where to return to.                                           *)
(***************************************************************************)
EXTENDS CodeGen, Integers

CONSTANT MAX_EXEC_STEPS

ASSUME AvmRunAssumption == MAX_EXEC_STEPS \in Nat

VARIABLES
  pc,
  steps,
  stack,       \* the cells of the globals, by offset
  retval_reg,
  returns,     \* saved program counters, innermost first
  result       \* history: what the last call returned, None once it is used up

machine == <<pc, steps, stack, retval_reg, returns, result>>
vars == <<program, phase, target, machine>>

Undef == [type |-> "undef", value |-> 0]
Number(n) == [type |-> "number", value |-> n]
UserFunc(address) == [type |-> "userfunc", value |-> address]
None == [type |-> "none", value |-> 0]

I == instructions[pc + 1]
Running == phase = "run" /\ pc < currInstruction /\ steps < MAX_EXEC_STEPS

(* avm_translate_operand *)
Translate(arg) ==
  CASE arg.type \in {"number_a", "label_a"} -> Number(arg.value)
    [] arg.type = "userfunc_a" -> UserFunc(arg.value)
    [] arg.type = "global_a" -> stack[arg.value]
    [] arg.type = "retval_a" -> retval_reg

-----------------------------------------------------------------------------
(* Jumps *)

(* execute_JEQ, and avm_cells_equal of execute_JNE *)
JumpsIfEqual(l, r) == l.type = r.type /\ l.type # "undef" /\ l.value = r.value
CellsEqual(l, r) == l.type = r.type /\ l.type # "undef" /\ l.value = r.value

(* relop_numbers *)
Comparable(l, r) == l.type = "number" /\ r.type = "number"

Unconditional == I.arg1.type = "label_a" /\ I.arg2.type = "label_a"

Taken(l, r) ==
  CASE I.opcode = "jeq" -> JumpsIfEqual(l, r)
    [] I.opcode = "jne" -> Unconditional \/ ~CellsEqual(l, r)
    [] I.opcode = "jlt" -> Comparable(l, r) /\ l.value < r.value
    [] I.opcode = "jle" -> Comparable(l, r) /\ l.value <= r.value
    [] I.opcode = "jgt" -> Comparable(l, r) /\ l.value > r.value
    [] I.opcode = "jge" -> Comparable(l, r) /\ l.value >= r.value

(* Mutant of Count: a taken jump is not counted, nor is a call. *)
CountOnlyTheNext == steps' = IF pc' = pc + 1 THEN steps + 1 ELSE steps

Count == steps' = steps + 1

ExecuteJump ==
  /\ Running /\ I.opcode \in {"jeq", "jne", "jlt", "jle", "jgt", "jge"}
  /\ pc' = IF Taken(Translate(I.arg1), Translate(I.arg2)) THEN I.result.value ELSE pc + 1
  /\ Count
  /\ UNCHANGED <<program, phase, target, stack, retval_reg, returns, result>>

-----------------------------------------------------------------------------
(* Values and calls *)

Assigned(v) == stack' = [stack EXCEPT ![I.result.value] = v]

(* execute_ASSIGN, to a variable or to the result register. *)
ExecuteAssign ==
  /\ Running /\ I.opcode = "assign"
  /\ LET v == Translate(I.arg1) IN
     IF I.result.type = "retval_a"
     THEN retval_reg' = v /\ result' = v /\ UNCHANGED stack
     ELSE Assigned(v) /\ UNCHANGED <<retval_reg, result>>
  /\ pc' = pc + 1
  /\ Count
  /\ UNCHANGED <<program, phase, target, returns>>

(* PUSHARG, FUNCENTER: the records they prepare are AvmStack's. *)
ExecuteRecord ==
  /\ Running /\ I.opcode \in {"pusharg", "funcenter"}
  /\ pc' = pc + 1
  /\ Count
  /\ UNCHANGED <<program, phase, target, stack, retval_reg, returns, result>>

(* execute_CALLFUNC and enter_userfunc *)
ExecuteCall ==
  /\ Running /\ I.opcode = "callfunc" /\ Len(returns) < MAX_EXEC_STEPS
  /\ LET func == Translate(I.arg1) IN
     IF func.type = "userfunc"
     THEN /\ returns' = <<pc + 1>> \o returns
          /\ pc' = func.value
          /\ result' = None
          /\ Count
          /\ UNCHANGED phase
     ELSE phase' = "error" /\ UNCHANGED <<returns, pc, result, steps>>
  /\ UNCHANGED <<program, target, stack, retval_reg>>

(* execute_FUNCEXIT; outside of any call it takes a record apart that is none.*)
ExecuteFuncExit ==
  /\ Running /\ I.opcode = "funcexit"
  /\ IF returns # << >>
     THEN pc' = Head(returns) /\ returns' = Tail(returns) /\ UNCHANGED phase
     ELSE phase' = "wild" /\ UNCHANGED <<pc, returns>>
  /\ Count
  /\ UNCHANGED <<program, target, stack, retval_reg, result>>

(* execute_GETRET *)
ExecuteGetRet ==
  /\ Running /\ I.opcode = "getretval"
  /\ Assigned(retval_reg)
  /\ result' = None
  /\ pc' = pc + 1
  /\ Count
  /\ UNCHANGED <<program, phase, target, retval_reg, returns>>

-----------------------------------------------------------------------------
(* The ends of vm_run *)

InfiniteLoop ==
  /\ phase = "run" /\ pc < currInstruction /\ steps >= MAX_EXEC_STEPS
  /\ phase' = "infinite_loop"
  /\ UNCHANGED <<program, target, machine>>

Halt ==
  /\ phase = "run" /\ pc >= currInstruction
  /\ phase' = "halted"
  /\ UNCHANGED <<program, target, machine>>

Init ==
  /\ CodeGenInit
  /\ pc = 0 /\ steps = 0 /\ returns = << >>
  /\ stack = [i \in 0 .. MaxQuads |-> Undef]
  /\ retval_reg = Undef /\ result = None

Execute ==
  \/ ExecuteJump \/ ExecuteAssign \/ ExecuteRecord \/ ExecuteCall
  \/ ExecuteFuncExit \/ ExecuteGetRet
  \/ InfiniteLoop \/ Halt

Compile == CodeGenNext /\ UNCHANGED machine

Next == Compile \/ Execute

(* One process that nobody waits for: once a program is written, it is      *)
(* compiled and run without a pause.  Nobody has to write one.              *)
Run == (GenerateTargetCode /\ UNCHANGED machine) \/ Execute

Spec == Init /\ [][Next]_vars /\ WF_vars(Run)
=============================================================================
