------------------------------ MODULE AvmStack ------------------------------
(***************************************************************************)
(* The activation-record machinery of the Alpha virtual machine (vm.c):    *)
(* one array of cells that holds the program's globals at the bottom and   *)
(* the activation records above them, growing down from the last cell.     *)
(*                                                                         *)
(*    topsp+4+k  actual k               (pushed right to left by PUSHARG)  *)
(*    topsp+3    number of actuals      (the last PUSHARG of a call)       *)
(*    topsp+2    return pc              \                                  *)
(*    topsp+1    caller's topsp          } pushed by CALLFUNC              *)
(*    topsp      top at the call        /                                  *)
(*    topsp-1-o  local o                (reserved by FUNCENTER)            *)
(*    top        next free cell                                            *)
(*                                                                         *)
(* The instruction stream is nondeterministic, except for what the quad    *)
(* generator guarantees of it: make_call_expr emits the PUSHARGs of the    *)
(* actuals, the PUSHARG of their count, CALLFUNC and GETRET without another*)
(* instruction in between, and a function's code starts with FUNCENTER.    *)
(***************************************************************************)
EXTENDS Integers, Sequences

CONSTANTS
  STACK_SIZE,         \* cells of the stack array (4096 in vm.h)
  program_var_count,  \* cells of the program's globals, built-ins included
  LibVars,            \* the first of them, which hold the built-in functions
  Margin,             \* ensure_expr_stack's margin over the globals (8)
  Sites,              \* code addresses a program counter can hold
  Other,              \* contents of cells that are not number_m
  UNDEF, NIL, LIB,    \* undef_m, nil_m and libfunc_m contents
  Values,             \* contents a program computes
  MaxArgs, MaxLocals  \* bounds on the actuals of a call and on its locals

ASSUME StackAssumption ==
  /\ STACK_SIZE \in Nat /\ program_var_count \in Nat /\ LibVars \in Nat
  /\ LibVars >= 4 /\ program_var_count >= LibVars
  /\ Margin \in Nat /\ Margin >= 5
  /\ STACK_SIZE > program_var_count + Margin
  /\ Sites \subseteq Nat
  /\ MaxArgs \in Nat /\ MaxLocals \in Nat
  /\ Other \cap Nat = {} /\ {UNDEF, NIL, LIB} \subseteq Other
  /\ Values \subseteq Nat \cup Other

VARIABLES
  stack, top, topsp, enclosing_topsp, pc, retval,
  mode,     \* what the instruction stream may do next, or how the run ended
  pending,  \* actuals pushed so far for the call being prepared
  frames,   \* history: where each live activation was placed
  wrapped,  \* history: ensure_expr_stack has reset top
  answered  \* history: the library function that retval is from, or "none"

vars == <<stack, top, topsp, enclosing_topsp, pc, retval,
          mode, pending, frames, wrapped, answered>>

(* A cell is the number it holds (number_m), or one of Other. *)
Cell == Nat \cup Other
Indices == 0 .. STACK_SIZE - 1

Running == {"stmt", "args", "call", "enter", "ret"}
Stopped == {"halt", "overflow", "error", "corrupt", "wild_read", "wild_write"}

Frame == [base : Nat, nargs : Nat, locals : Nat, ret : Nat]

Depth == Len(frames)
Current == frames[Depth]

-----------------------------------------------------------------------------
(* Helpers of vm.c *)

(* The run ends: a run-time error exits, or an index leaves the array. *)
Stop(how) ==
  /\ mode' = how
  /\ UNCHANGED <<stack, top, topsp, enclosing_topsp, pc, retval,
                 pending, frames, wrapped, answered>>

(* ensure_expr_stack: below the margin, top silently restarts at the end. *)
BelowMargin(t) == t < program_var_count + Margin
Ensured(t) == IF BelowMargin(t) THEN STACK_SIZE - 1 ELSE t

(* Mutant of OutOfStack: the last cell above the globals is handed out too. *)
OutOfStackLate(t) == t < program_var_count

(* check_stack_bounds *)
OutOfStack(t) == t <= program_var_count

(* A count cell read the way CALLFUNC and totalactuals read it. *)
CountIn(c) == IF c \in Nat THEN c ELSE 0

totalactuals ==
  IF topsp + 3 >= STACK_SIZE THEN 0 ELSE CountIn(stack[topsp + 3])

-----------------------------------------------------------------------------
(* Calling sequence *)

(* PUSHARG of a value v.  Once ensure_expr_stack has run, the bounds check  *)
(* that follows it finds nothing: it stays here as it is in the code.       *)
Push(v, next, n) ==
  LET t == Ensured(top) IN
  IF OutOfStack(t) THEN Stop("overflow")
  ELSE IF t >= STACK_SIZE THEN Stop("wild_write")
  ELSE /\ stack' = [stack EXCEPT ![t] = v]
       /\ top' = t - 1
       /\ wrapped' = (wrapped \/ BelowMargin(top))
       /\ pending' = n
       /\ mode' = next
       /\ UNCHANGED <<topsp, enclosing_topsp, pc, retval, frames, answered>>

PushArg(v) ==
  /\ mode \in {"stmt", "args"} /\ pending < MaxArgs
  /\ Push(v, "args", pending + 1)

PushCount ==
  /\ mode \in {"stmt", "args"}
  /\ Push(pending, "call", pending)

(* enter_userfunc with top = t over the memory m, for a call with n actuals. *)
EnterUserFunc(m, t, n, addr) ==
  /\ stack' = [m EXCEPT ![t] = pc, ![t - 1] = topsp, ![t - 2] = t]
  /\ top' = t - 3
  /\ topsp' = t - 2
  /\ enclosing_topsp' = t - 2
  /\ pc' = addr
  /\ frames' = Append(frames,
                 [base |-> t - 2, nargs |-> n, locals |-> 0, ret |-> pc])
  /\ pending' = 0
  /\ mode' = "enter"
  /\ UNCHANGED <<retval, wrapped, answered>>

(* CALLFUNC of a user function; also of a table with one function member. *)
CallUser(addr) ==
  /\ mode = "call"
  /\ IF OutOfStack(top) THEN Stop("overflow")
     ELSE EnterUserFunc(stack, top, pending, addr)

(* Mutant of CallFunctor: the count does not include the functor. *)
CallFunctorUncounted(addr, f) ==
  /\ mode = "call"
  /\ IF OutOfStack(top) \/ OutOfStack(top - 1) THEN Stop("overflow")
     ELSE LET n == CountIn(stack[top + 1])
          IN  EnterUserFunc([stack EXCEPT ![top] = n, ![top + 1] = f],
                            top - 1, pending + 1, addr)

(* CALLFUNC of a table f with a "()" method: f becomes actual 0. *)
CallFunctor(addr, f) ==
  /\ mode = "call"
  /\ IF OutOfStack(top) \/ OutOfStack(top - 1) THEN Stop("overflow")
     ELSE LET n == CountIn(stack[top + 1])
          IN  EnterUserFunc([stack EXCEPT ![top] = n + 1, ![top + 1] = f],
                            top - 1, pending + 1, addr)

(* CALLFUNC of something that is not callable. *)
CallFails == mode = "call" /\ Stop("error")

(* CALLFUNC of the library function f, which leaves v.  enclosing_topsp is  *)
(* set to the caller's frame before topsp moves.                            *)
FinishLib(f, v) ==
  LET t == top + 1 + CountIn(stack[top + 1]) IN
  /\ retval' = v /\ answered' = f
  /\ top' = Ensured(t)
  /\ wrapped' = (wrapped \/ BelowMargin(t))
  /\ enclosing_topsp' = topsp
  /\ pending' = 0
  /\ mode' = "ret"
  /\ UNCHANGED <<stack, topsp, pc, frames>>

(* Mutant of CallLib: the actuals are counted from 1. *)
CallLibFromOne(need, v) ==
  /\ mode = "call"
  /\ IF top + 2 + need >= STACK_SIZE THEN Stop("wild_read")
                                     ELSE FinishLib("other", v)

(* One that reads `need' actuals. *)
CallLib(need, v) ==
  /\ mode = "call"
  /\ IF top + 1 + need >= STACK_SIZE THEN Stop("wild_read")
                                     ELSE FinishLib("other", v)

(* libfunc_print checks the count itself before it reads the actuals. *)
CallPrint ==
  /\ mode = "call"
  /\ IF top + 1 + CountIn(stack[top + 1]) >= STACK_SIZE THEN Stop("error")
                                                        ELSE FinishLib("other", NIL)

(* libfunc_totalarguments *)
CallTotalArguments ==
  /\ mode = "call"
  /\ FinishLib("totalarguments",
               IF \/ topsp + 3 >= STACK_SIZE
                  \/ stack[topsp] \notin Nat
                  \/ stack[topsp + 3] \notin Nat
               THEN NIL ELSE stack[topsp + 3])

(* Mutant of ArgumentCell: the actuals are taken to start with their count. *)
ArgumentCellEarly(k) == topsp + 3 + k

(* libfunc_argument *)
ArgumentCell(k) == topsp + 4 + k
CallArgument ==
  /\ mode = "call"
  /\ IF top + 2 >= STACK_SIZE THEN Stop("wild_read")
     ELSE LET k == stack[top + 2] IN
          IF k \notin Nat THEN Stop("error")
          ELSE IF k >= totalactuals THEN FinishLib("argument", NIL)
          ELSE IF ArgumentCell(k) >= STACK_SIZE THEN Stop("wild_read")
          ELSE FinishLib("argument", IF stack[ArgumentCell(k)] = UNDEF
                                     THEN NIL ELSE stack[ArgumentCell(k)])

Sized(f, n) == [base |-> f.base, nargs |-> f.nargs, locals |-> n, ret |-> f.ret]

(* FUNCENTER with n locals: each cell is checked before it is cleared. *)
FuncEnter(n) ==
  /\ mode = "enter"
  /\ IF n > 0 /\ OutOfStack(topsp - n) THEN Stop("overflow")
     ELSE /\ stack' = [i \in Indices |->
                         IF topsp - n <= i /\ i < topsp THEN UNDEF ELSE stack[i]]
          /\ top' = topsp - 1 - n
          /\ frames' = [frames EXCEPT ![Depth] = Sized(Current, n)]
          /\ mode' = "stmt"
          /\ UNCHANGED <<topsp, enclosing_topsp, pc, retval, pending, wrapped,
                         answered>>

(* The checks and the end of FUNCEXIT: top comes back to t and topsp to sp. *)
LeaveFunc(t, sp) ==
  IF top < t /\ t > STACK_SIZE THEN Stop("wild_write")
  ELSE /\ stack' = [i \in Indices |->
                      IF top <= i /\ i < t THEN UNDEF ELSE stack[i]]
       /\ top' = Ensured(t)
       /\ wrapped' = (wrapped \/ BelowMargin(t))
       /\ topsp' = sp
       /\ pc' = stack[topsp + 2]
       /\ enclosing_topsp' = sp
       /\ frames' = SubSeq(frames, 1, Depth - 1)
       /\ mode' = "ret" /\ answered' = "none"
       /\ UNCHANGED <<retval, pending>>

CorruptFrame ==
  \/ topsp + 3 >= STACK_SIZE
  \/ \E i \in 0 .. 3 : stack[topsp + i] \notin Nat

(* Mutants of FuncExit: the cell of the count is not popped; the caller's   *)
(* topsp is read relative to the restored top.                              *)
FuncExitKeepsCount ==
  /\ mode = "stmt" /\ frames # << >>
  /\ IF CorruptFrame THEN Stop("corrupt")
     ELSE LeaveFunc(stack[topsp] + stack[topsp + 3], stack[topsp + 1])

FuncExitReadsTop ==
  /\ mode = "stmt" /\ frames # << >>
  /\ IF CorruptFrame THEN Stop("corrupt")
     ELSE LET t == stack[topsp] + stack[topsp + 3] + 1
          IN  LeaveFunc(t, stack[t - 1])

(* FUNCEXIT *)
FuncExit ==
  /\ mode = "stmt" /\ frames # << >>
  /\ IF CorruptFrame THEN Stop("corrupt")
     ELSE LeaveFunc(stack[topsp] + stack[topsp + 3] + 1, stack[topsp + 1])

-----------------------------------------------------------------------------
(* Operands *)

(* avm_translate_operand for a write: a global, local or formal cell. The   *)
(* code generator hands out global offsets below program_var_count, never   *)
(* assigns a built-in, and local offsets below the count FUNCENTER gets -   *)
(* which holds of functions that define no other: FramesHoldLocals.         *)
Store(i, v, next) ==
  IF i >= STACK_SIZE THEN Stop("wild_write")
  ELSE /\ stack' = [stack EXCEPT ![i] = v]
       /\ mode' = next
       /\ UNCHANGED <<top, topsp, enclosing_topsp, pc, retval,
                      pending, frames, wrapped, answered>>

StoreGlobal(g, v, next) == Store(g, v, next)

(* Mutant of StoreLocal: local 0 is the cell topsp points to. *)
StoreLocalAtTopsp(o, v, next) ==
  IF topsp < o THEN Stop("error") ELSE Store(topsp - o, v, next)

StoreLocal(o, v, next) ==
  IF topsp < o + 1 THEN Stop("error") ELSE Store(topsp - 1 - o, v, next)

StoreFormal(k, v) ==
  IF k >= totalactuals THEN Stop("overflow") ELSE Store(topsp + 4 + k, v, "stmt")

GlobalVars == LibVars .. program_var_count - 1
LocalVars == IF frames = << >> THEN {} ELSE 0 .. Current.locals - 1

(* ASSIGN (and any other instruction that computes into a variable). *)
AssignGlobal(g, v) == mode = "stmt" /\ g \in GlobalVars /\ StoreGlobal(g, v, "stmt")
AssignLocal(o, v) == mode = "stmt" /\ o \in LocalVars /\ StoreLocal(o, v, "stmt")
AssignFormal(k, v) == mode = "stmt" /\ frames # << >> /\ StoreFormal(k, v)

(* GETRET: the temporary that takes the result is a global or a local. *)
GetRetGlobal(g) == mode = "ret" /\ g \in GlobalVars /\ StoreGlobal(g, retval, "stmt")
GetRetLocal(o) == mode = "ret" /\ o \in LocalVars /\ StoreLocal(o, retval, "stmt")

(* ASSIGN to retval: RET of a function. *)
SetRet(v) ==
  /\ mode = "stmt" /\ frames # << >>
  /\ retval' = v
  /\ UNCHANGED <<stack, top, topsp, enclosing_topsp, pc,
                 mode, pending, frames, wrapped, answered>>

(* A jump within the running function. *)
Jump(addr) ==
  /\ mode = "stmt"
  /\ pc' = addr
  /\ UNCHANGED <<stack, top, topsp, enclosing_topsp, retval,
                 mode, pending, frames, wrapped, answered>>

(* The main program runs off the last instruction. *)
Halt == mode = "stmt" /\ frames = << >> /\ Stop("halt")

-----------------------------------------------------------------------------
Init ==
  /\ stack = [i \in Indices |-> IF i < LibVars THEN LIB ELSE UNDEF]
  /\ top = STACK_SIZE - 1
  /\ topsp = 0
  /\ enclosing_topsp = 0
  /\ pc \in Sites
  /\ retval = UNDEF
  /\ mode = "stmt"
  /\ pending = 0
  /\ frames = << >>
  /\ wrapped = FALSE
  /\ answered = "none"

Next ==
  \/ \E v \in Values : PushArg(v) \/ SetRet(v)
  \/ PushCount
  \/ \E a \in Sites : CallUser(a) \/ Jump(a)
  \/ \E a \in Sites, f \in Values \ Nat : CallFunctor(a, f)
  \/ CallFails
  \/ \E need \in 0 .. 1, v \in Values : CallLib(need, v)
  \/ CallPrint \/ CallTotalArguments \/ CallArgument
  \/ \E n \in 0 .. MaxLocals : FuncEnter(n)
  \/ FuncExit
  \/ \E g \in GlobalVars, v \in Values : AssignGlobal(g, v)
  \/ \E o \in LocalVars, v \in Values : AssignLocal(o, v)
  \/ \E k \in 0 .. MaxArgs, v \in Values : AssignFormal(k, v)
  \/ \E g \in GlobalVars : GetRetGlobal(g)
  \/ \E o \in LocalVars : GetRetLocal(o)
  \/ Halt

Spec == Init /\ [][Next]_vars
=============================================================================
