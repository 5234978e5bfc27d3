--------------------------- MODULE AvmStackProps ----------------------------
(***************************************************************************)
(* Correctness of the activation records of AvmStack.                      *)
(***************************************************************************)
EXTENDS AvmStack

(* Every register and cell holds a value of its kind; the saved words a     *)
(* FUNCEXIT restores are numbers, whatever they are.                        *)
TypeOK ==
  /\ stack \in [Indices -> Cell]
  /\ top \in Nat /\ topsp \in Nat /\ enclosing_topsp \in Nat /\ pc \in Nat
  /\ retval \in Cell
  /\ mode \in Running \cup Stopped
  /\ pending \in Nat
  /\ frames \in Seq(Frame)
  /\ wrapped \in BOOLEAN
  /\ answered \in {"none", "argument", "totalarguments", "other"}

-----------------------------------------------------------------------------
(* Where things are, as long as the stack has not been exhausted.           *)

(* The frame pointer of activation i; the main program's is 0. *)
BaseOf(i) == IF i = 0 THEN 0 ELSE frames[i].base

(* The cell below the variables of activation i, where its calls start. *)
RestOf(i) ==
  IF i = 0 THEN STACK_SIZE - 1 ELSE frames[i].base - 1 - frames[i].locals

(* The activation records are laid out one below the other without overlap: *)
(* each starts exactly below the locals of its caller.                      *)
Contiguous ==
  \A i \in 1 .. Depth :
    frames[i].base + 3 + frames[i].nargs = RestOf(i - 1)

(* The four words CALLFUNC wrote for a live activation are still there:     *)
(* no argument, local or callee has overwritten them.                       *)
ControlWordsKept ==
  \A i \in 1 .. Depth :
    LET b == frames[i].base IN
    /\ stack[b] = b + 2
    /\ stack[b + 1] = BaseOf(i - 1)
    /\ stack[b + 2] = frames[i].ret
    /\ stack[b + 3] = frames[i].nargs

(* topsp names the running activation, and between a CALLFUNC and the next  *)
(* instruction enclosing_topsp does too: argument() and totalarguments()    *)
(* answer about the function that calls them.                               *)
RegistersAgree == topsp = BaseOf(Depth) /\ enclosing_topsp = topsp

(* Between statements the expression stack is empty: top is exactly below   *)
(* the running function's locals, after any number of calls and returns.    *)
Balanced ==
  mode \in Running =>
    top = RestOf(Depth) - pending - (IF mode = "call" THEN 1 ELSE 0)

(* Until ensure_expr_stack resets top, the activation records of vm.c are   *)
(* intact, chained and contiguous, and PUSHARG, CALLFUNC, FUNCENTER and     *)
(* FUNCEXIT leave top where the caller had it.                              *)
FramesIntact ==
  ~wrapped => Contiguous /\ ControlWordsKept /\ RegistersAgree /\ Balanced

(* Until then no FUNCEXIT reports a corrupted frame and no instruction      *)
(* writes outside the array.                                                *)
NoCorruption == ~wrapped => mode \notin {"corrupt", "wild_write"}

(* Until then the activation records stay above the globals: a frame or an  *)
(* actual is never written over a variable of the program.                  *)
GlobalsBelow ==
  ~wrapped => /\ \A i \in 0 .. Depth : RestOf(i) >= program_var_count
              /\ mode \in Running => top >= program_var_count

(* Until then the array is read out of bounds in one case only: a library   *)
(* function that wants an actual is called without any by the main program. *)
WildReadOnlyWithoutActuals ==
  ~wrapped /\ mode = "wild_read" => pending = 0 /\ Depth = 0

-----------------------------------------------------------------------------
(* The inductive strengthening of the four invariants above. *)

(* Every activation lies strictly below the control words of all its        *)
(* callers, and inside the array.                                           *)
Nested ==
  /\ \A i \in 0 .. Depth : /\ program_var_count <= RestOf(i)
                           /\ RestOf(i) < STACK_SIZE
  /\ \A j \in 1 .. Depth : \A i \in 1 .. j : RestOf(j) < frames[i].base

(* What the call in preparation has written so far. *)
Prepared ==
  /\ mode \in {"stmt", "enter", "ret"} => pending = 0
  /\ mode = "call" => stack[top + 1] = pending
  /\ mode = "enter" => frames # << >> /\ Current.locals = 0
  /\ mode \in Running => top >= program_var_count

(* The built-ins are never assigned: in the main program, where topsp is 0, *)
(* totalactuals finds no count in them.                                     *)
BuiltinsKept == \A i \in 0 .. LibVars - 1 : stack[i] = LIB

EndedWell ==
  /\ mode \notin {"corrupt", "wild_write"}
  /\ mode = "wild_read" => pending = 0 /\ Depth = 0

Layout ==
  /\ Contiguous /\ ControlWordsKept /\ RegistersAgree /\ Balanced
  /\ Nested /\ Prepared /\ BuiltinsKept /\ EndedWell

LayoutInv == ~wrapped => Layout

(* The first of the actuals pushed for the call in preparation. *)
PendingCell(k) == (IF mode = "call" THEN top + 1 ELSE top) + k

(* Every actual, of a live activation or of the call in preparation, is a   *)
(* value of the program: what argument(i) reads is never a control word.    *)
ActualsAreValues ==
  /\ \A i \in 1 .. Depth : \A k \in 1 .. frames[i].nargs :
       stack[frames[i].base + 3 + k] \in Values
  /\ mode \in Running => \A k \in 1 .. pending : stack[PendingCell(k)] \in Values

ActualsInv == ~wrapped => ActualsAreValues

-----------------------------------------------------------------------------
(* The running activations as the program sees them, read from memory. *)
ActivationOf(i) ==
  LET f == frames[i] IN
  [ ret    |-> stack[f.base + 2],
    args   |-> [k \in 1 .. stack[f.base + 3] |-> stack[f.base + 3 + k]],
    locals |-> [o \in 1 .. f.locals |-> stack[f.base - o]] ]

PendingActuals == [k \in 1 .. pending |-> stack[PendingCell(k)]]

Abstract == INSTANCE CallStack WITH
  globals <- IF wrapped THEN << >> ELSE [g \in GlobalVars |-> stack[g]],
  acts    <- IF wrapped THEN << >> ELSE [i \in 1 .. Depth |-> ActivationOf(i)],
  pending <- IF wrapped \/ mode \in Stopped THEN << >> ELSE PendingActuals,
  pc      <- IF wrapped THEN 0 ELSE pc,
  retval  <- IF wrapped THEN UNDEF ELSE retval,
  mode    <- IF wrapped THEN "lost"
             ELSE IF mode \in Stopped THEN "stopped"
             ELSE IF mode = "call" THEN "args" ELSE mode,
  answered <- IF ~wrapped /\ mode = "ret" THEN answered ELSE "none"

(* Every call, return, actual, local and global of the machine behaves as   *)
(* in the abstract stack of activations, and argument and totalarguments    *)
(* answer about the caller's, until the stack is exhausted.                 *)
ImplementsCallStack == Abstract!Spec

(* 04_err_4.asc: a program that runs out of stack stops with "run time      *)
(* error: Stack overflow!"; top is never reset over live activations.       *)
ExhaustionReported == wrapped => frames = << >>
=============================================================================
