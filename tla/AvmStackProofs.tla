--------------------------- MODULE AvmStackProofs ---------------------------
(***************************************************************************)
(* Proofs about AvmStack for every size of stack, every margin of at least *)
(* five cells, and any number of globals, actuals and locals: its          *)
(* invariants, and that it implements CallStack.                           *)
(***************************************************************************)
EXTENDS AvmStackProps, SequenceTheorems, TLAPS

-----------------------------------------------------------------------------
(* Type correctness needs to know where top and topsp are when CALLFUNC and *)
(* FUNCENTER run, also after ensure_expr_stack has reset top.               *)
Ready ==
  /\ mode = "call" => program_var_count + 4 <= top /\ top <= STACK_SIZE - 2
  /\ mode = "enter" => /\ frames # << >>
                       /\ topsp >= 1 /\ topsp < STACK_SIZE
                       /\ top = topsp - 1

TypeInv == TypeOK /\ Ready

(* The step that ends a run changes nothing but mode. *)
LEMMA StopType ==
  ASSUME TypeInv, NEW how \in Stopped, Stop(how)
  PROVE  TypeInv'
  BY DEF TypeInv, TypeOK, Ready, Stop, Running, Stopped

(* PUSHARG keeps the types and leaves top inside the array and clear of the *)
(* globals by the margin.                                                   *)
LEMMA PushType ==
  ASSUME TypeInv, NEW v \in Cell, NEW n \in Nat, NEW next \in {"args", "call"},
         Push(v, next, n)
  PROVE  TypeInv'
<1> USE StackAssumption DEF TypeInv, Ready
<1> DEFINE t == Ensured(top)
<1>1. t \in Nat /\ t >= program_var_count + 4
  BY DEF TypeOK, Ensured, BelowMargin
<1>2. CASE OutOfStack(t)
  BY <1>2, StopType DEF Push, Stopped
<1>3. CASE ~OutOfStack(t) /\ t >= STACK_SIZE
  BY <1>3, StopType DEF Push, Stopped
<1>4. CASE ~OutOfStack(t) /\ t < STACK_SIZE
  <2>1. /\ stack' = [stack EXCEPT ![t] = v]
        /\ top' = t - 1
        /\ wrapped' = (wrapped \/ BelowMargin(top))
        /\ pending' = n /\ mode' = next
        /\ UNCHANGED <<topsp, enclosing_topsp, pc, retval, frames, answered>>
    BY <1>4, <1>1 DEF Push
  <2>2. stack' \in [Indices -> Cell]
    BY <2>1 DEF TypeOK
  <2>3. top' \in Nat /\ top' <= STACK_SIZE - 2
    BY <2>1, <1>1, <1>4
  <2>3a. next = "call" => program_var_count + 4 <= top'
    BY <2>1, <1>1 DEF TypeOK, Ensured, BelowMargin
  <2>4. wrapped' \in BOOLEAN
    BY <2>1 DEF TypeOK, BelowMargin
  <2>5. QED BY <2>1, <2>2, <2>3, <2>3a, <2>4 DEF TypeOK, Running
<1>5. QED BY <1>1, <1>2, <1>3, <1>4 DEF TypeOK

(* CALLFUNC of user code, over a memory m that differs from stack at most   *)
(* in the cells a functor call rewrites.                                    *)
LEMMA EnterType ==
  ASSUME TypeInv, mode = "call",
         NEW m \in [Indices -> Cell], NEW t \in Nat, NEW n \in Nat, NEW a \in Sites,
         t > program_var_count + 2, t <= STACK_SIZE - 2,
         EnterUserFunc(m, t, n, a)
  PROVE  TypeInv'
<1> USE StackAssumption DEF TypeInv, TypeOK
<1>1. /\ t \in Indices /\ t - 1 \in Indices /\ t - 2 \in Indices
      /\ t - 1 \in Nat /\ t - 2 \in Nat /\ t - 3 \in Nat /\ a \in Nat
  BY DEF Indices
<1>2. stack' \in [Indices -> Cell]
  <2>1. stack' = [m EXCEPT ![t] = pc, ![t - 1] = topsp, ![t - 2] = t]
    BY DEF EnterUserFunc
  <2>2. pc \in Cell /\ topsp \in Cell /\ t \in Cell
    BY DEF Cell
  <2>3. QED BY <2>1, <2>2
<1>3. /\ frames' \in Seq(Frame)
      /\ Len(frames') = Len(frames) + 1
  <2>1. [base |-> t - 2, nargs |-> n, locals |-> 0, ret |-> pc] \in Frame
    BY <1>1 DEF Frame
  <2>2. QED BY <2>1 DEF EnterUserFunc
<1>4. frames' # << >>
  BY <1>3
<1>5. /\ top' = t - 3 /\ topsp' = t - 2 /\ enclosing_topsp' = t - 2 /\ pc' = a
      /\ pending' = 0 /\ mode' = "enter" /\ UNCHANGED <<retval, wrapped, answered>>
  BY DEF EnterUserFunc
<1>6. TypeOK'
  BY <1>1, <1>2, <1>3, <1>5 DEF Running
<1>7. Ready'
  BY <1>1, <1>4, <1>5 DEF Ready
<1>8. QED BY <1>6, <1>7

LEMMA CallUserType ==
  ASSUME TypeInv, NEW a \in Sites, CallUser(a)
  PROVE  TypeInv'
<1> USE StackAssumption DEF TypeInv
<1>1. CASE OutOfStack(top)
  BY <1>1, StopType DEF CallUser, Stopped
<1>2. CASE ~OutOfStack(top)
  <2>1. EnterUserFunc(stack, top, pending, a)
    BY <1>2 DEF CallUser
  <2>2. /\ stack \in [Indices -> Cell] /\ top \in Nat /\ pending \in Nat
        /\ mode = "call" /\ top > program_var_count + 2 /\ top <= STACK_SIZE - 2
    BY DEF CallUser, TypeOK, Ready
  <2>3. QED BY <2>1, <2>2, EnterType
<1>3. QED BY <1>1, <1>2

LEMMA CallFunctorType ==
  ASSUME TypeInv, NEW a \in Sites, NEW f \in Cell, CallFunctor(a, f)
  PROVE  TypeInv'
<1> USE StackAssumption DEF TypeInv
<1> DEFINE n == CountIn(stack[top + 1])
           m == [stack EXCEPT ![top] = n + 1, ![top + 1] = f]
<1>1. CASE OutOfStack(top) \/ OutOfStack(top - 1)
  BY <1>1, StopType DEF CallFunctor, Stopped
<1>2. CASE ~(OutOfStack(top) \/ OutOfStack(top - 1))
  <2>1. EnterUserFunc(m, top - 1, pending + 1, a)
    BY <1>2 DEF CallFunctor
  <2>2. /\ stack \in [Indices -> Cell] /\ pending + 1 \in Nat /\ mode = "call"
        /\ top - 1 \in Nat /\ top - 1 > program_var_count + 2
        /\ top - 1 <= STACK_SIZE - 2
    BY DEF CallFunctor, TypeOK, Ready
  <2>3. m \in [Indices -> Cell]
    <3>1. n + 1 \in Cell
      BY DEF CountIn, Cell
    <3>2. QED BY <2>2, <3>1
  <2>4. QED BY <2>1, <2>2, <2>3, EnterType
<1>3. QED BY <1>1, <1>2

(* A library call of f that returns v. *)
LibFuncs == {"argument", "totalarguments", "other"}

LEMMA FinishLibType ==
  ASSUME TypeInv, mode = "call", NEW f \in LibFuncs, NEW v \in Cell, FinishLib(f, v)
  PROVE  TypeInv'
<1> USE StackAssumption DEF TypeInv, TypeOK
<1>1. top + 1 + CountIn(stack[top + 1]) \in Nat
  BY DEF CountIn
<1>2. top' \in Nat /\ wrapped' \in BOOLEAN
  BY <1>1 DEF FinishLib, Ensured, BelowMargin
<1>3. QED BY <1>2 DEF FinishLib, Ready, Running, LibFuncs

LEMMA LibType ==
  ASSUME TypeInv,
         \/ \E need \in 0 .. 1, v \in Values : CallLib(need, v)
         \/ CallPrint \/ CallTotalArguments \/ CallArgument
  PROVE  TypeInv'
<1> USE StackAssumption
<1>0. NIL \in Cell /\ Values \subseteq Cell
  BY DEF Cell
<1>1. ASSUME NEW need \in 0 .. 1, NEW v \in Values, CallLib(need, v)
      PROVE  TypeInv'
  BY <1>0, <1>1, StopType, FinishLibType DEF CallLib, Stopped, LibFuncs
<1>2. CASE CallPrint
  BY <1>0, <1>2, StopType, FinishLibType DEF CallPrint, Stopped, LibFuncs
<1>3. CASE CallTotalArguments
  <2> DEFINE v == IF \/ topsp + 3 >= STACK_SIZE
                     \/ stack[topsp] \notin Nat
                     \/ stack[topsp + 3] \notin Nat
                  THEN NIL ELSE stack[topsp + 3]
  <2>1. v \in Cell
    BY <1>0 DEF TypeInv, TypeOK, Cell
  <2>2. mode = "call" /\ FinishLib("totalarguments", v)
    BY <1>3 DEF CallTotalArguments
  <2> HIDE DEF v
  <2>3. QED BY <2>1, <2>2, FinishLibType DEF LibFuncs
<1>4. CASE CallArgument
  <2> DEFINE k == stack[top + 2]
             v == IF stack[ArgumentCell(k)] = UNDEF
                  THEN NIL ELSE stack[ArgumentCell(k)]
  <2>1. CASE \/ Stop("wild_read") \/ Stop("error")
    BY <2>1, StopType DEF Stopped
  <2>2. CASE FinishLib("argument", NIL)
    BY <2>2, <1>0, <1>4, FinishLibType DEF CallArgument, LibFuncs
  <2>3. CASE k \in Nat /\ ArgumentCell(k) < STACK_SIZE /\ FinishLib("argument", v)
    <3>1. ArgumentCell(k) \in Indices
      BY <2>3 DEF ArgumentCell, Indices, TypeInv, TypeOK
    <3>2. v \in Cell
      BY <3>1, <1>0 DEF TypeInv, TypeOK
    <3> HIDE DEF v
    <3>3. QED BY <3>2, <2>3, <1>4, FinishLibType DEF CallArgument, LibFuncs
  <2>4. k \in Nat => ArgumentCell(k) \in Nat
    BY DEF ArgumentCell, TypeInv, TypeOK
  <2>5. QED BY <1>4, <2>1, <2>2, <2>3, <2>4 DEF CallArgument
<1>5. QED BY <1>1, <1>2, <1>3, <1>4

LEMMA FuncEnterType ==
  ASSUME TypeInv, NEW n \in Nat, FuncEnter(n)
  PROVE  TypeInv'
<1> USE StackAssumption DEF TypeInv
<1>1. CASE n > 0 /\ OutOfStack(topsp - n)
  BY <1>1, StopType DEF FuncEnter, Stopped
<1>2. CASE ~(n > 0 /\ OutOfStack(topsp - n))
  <2>1. stack' \in [Indices -> Cell]
    BY <1>2 DEF FuncEnter, TypeOK, Cell
  <2>2. top' \in Nat
    <3>1. top' = topsp - 1 - n /\ topsp \in Nat /\ topsp >= 1
      BY <1>2 DEF FuncEnter, TypeOK, Ready
    <3>2. n > 0 => topsp - n > program_var_count
      BY <1>2, <3>1 DEF OutOfStack
    <3>3. QED BY <3>1, <3>2
  <2>3. frames' \in Seq(Frame)
    <3>1. Depth \in 1 .. Len(frames) /\ Current \in Frame
      BY DEF FuncEnter, TypeOK, Ready, Depth, Current
    <3>2. Sized(Current, n) \in Frame
      BY <3>1 DEF Sized, Frame
    <3>3. frames \in Seq(Frame) /\ frames' = [frames EXCEPT ![Depth] = Sized(Current, n)]
      BY <1>2 DEF FuncEnter, TypeOK
    <3>4. QED BY ONLY <3>1, <3>2, <3>3
  <2>4. QED BY <1>2, <2>1, <2>2, <2>3 DEF FuncEnter, TypeOK, Ready, Running
<1>3. QED BY <1>1, <1>2

LEMMA FuncExitType ==
  ASSUME TypeInv, FuncExit
  PROVE  TypeInv'
<1> USE StackAssumption DEF TypeInv
<1> DEFINE t == stack[topsp] + stack[topsp + 3] + 1
<1>1. CASE Stop("corrupt") \/ Stop("wild_write")
  BY <1>1, StopType DEF Stopped
<1>2. CASE /\ topsp + 3 < STACK_SIZE
           /\ \A i \in 0 .. 3 : stack[topsp + i] \in Nat
           /\ stack' = [i \in Indices |-> IF top <= i /\ i < t THEN UNDEF ELSE stack[i]]
           /\ top' = Ensured(t)
           /\ wrapped' = (wrapped \/ BelowMargin(t))
           /\ topsp' = stack[topsp + 1]
           /\ pc' = stack[topsp + 2]
           /\ enclosing_topsp' = stack[topsp + 1]
           /\ frames' = SubSeq(frames, 1, Depth - 1)
           /\ mode' = "ret" /\ answered' = "none"
           /\ UNCHANGED <<retval, pending>>
  <2>1. /\ stack[topsp + 0] \in Nat /\ stack[topsp + 1] \in Nat
        /\ stack[topsp + 2] \in Nat /\ stack[topsp + 3] \in Nat
    BY <1>2
  <2>1a. stack[topsp] \in Nat
    BY <2>1 DEF TypeOK
  <2>2. t \in Nat
    BY <2>1, <2>1a
  <2>3. top' \in Nat /\ wrapped' \in BOOLEAN
    <3> HIDE DEF t
    <3>1. QED BY <1>2, <2>2 DEF Ensured, BelowMargin, TypeOK
  <2>4. stack' \in [Indices -> Cell]
    <3> HIDE DEF t
    <3>1. QED BY <1>2 DEF TypeOK, Cell
  <2>5. frames' \in Seq(Frame)
    BY <1>2, FuncExit DEF TypeOK, Depth, FuncExit
  <2>6. topsp' \in Nat /\ enclosing_topsp' \in Nat /\ pc' \in Nat
    BY <1>2, <2>1
  <2>7. mode' = "ret" /\ retval' = retval /\ pending' = pending /\ answered' = "none"
    BY <1>2
  <2>8. QED BY ONLY TypeInv, <2>3, <2>4, <2>5, <2>6, <2>7 DEF TypeInv, TypeOK, Ready, Running
<1>3. QED BY <1>1, <1>2 DEF FuncExit, CorruptFrame, LeaveFunc, TypeOK

(* A store into a variable. *)
LEMMA StoreType ==
  ASSUME TypeInv, NEW i \in Nat, NEW v \in Cell, Store(i, v, "stmt")
  PROVE  TypeInv'
<1>1. CASE i >= STACK_SIZE
  BY <1>1, StopType DEF Store, Stopped
<1>2. CASE i < STACK_SIZE
  BY <1>2, StackAssumption DEF Store, TypeInv, TypeOK, Ready, Running, Indices
<1>3. QED BY <1>1, <1>2, StackAssumption

LEMMA LocalType ==
  ASSUME TypeInv, NEW o \in Nat, NEW v \in Cell, StoreLocal(o, v, "stmt")
  PROVE  TypeInv'
<1>1. CASE topsp < o + 1
  BY <1>1, StopType DEF StoreLocal, Stopped
<1>2. CASE ~(topsp < o + 1)
  <2>1. topsp - 1 - o \in Nat
    BY <1>2 DEF TypeInv, TypeOK
  <2>2. QED BY <1>2, <2>1, StoreType DEF StoreLocal
<1>3. QED BY <1>1, <1>2

LEMMA FormalType ==
  ASSUME TypeInv, NEW k \in Nat, NEW v \in Cell, StoreFormal(k, v)
  PROVE  TypeInv'
<1>1. CASE k >= totalactuals
  BY <1>1, StopType DEF StoreFormal, Stopped
<1>2. CASE ~(k >= totalactuals)
  <2>1. topsp + 4 + k \in Nat
    BY DEF TypeInv, TypeOK
  <2>2. QED BY <1>2, <2>1, StoreType DEF StoreFormal
<1>3. QED BY <1>1, <1>2

LEMMA LocalVarsNat ==
  ASSUME TypeInv
  PROVE  LocalVars \subseteq Nat /\ GlobalVars \subseteq Nat
  BY StackAssumption DEF LocalVars, GlobalVars

LEMMA InitType == Init => TypeInv
<1> SUFFICES ASSUME Init PROVE TypeInv
  OBVIOUS
<1>1. /\ stack \in [Indices -> Cell] /\ top \in Nat /\ pc \in Nat /\ retval \in Cell
      /\ frames \in Seq(Frame)
  BY StackAssumption DEF Init, Cell, Indices
<1>2. /\ topsp = 0 /\ enclosing_topsp = 0 /\ mode = "stmt" /\ pending = 0
      /\ wrapped = FALSE /\ answered = "none"
  BY DEF Init
<1>3. QED BY <1>1, <1>2 DEF TypeInv, TypeOK, Ready, Running

LEMMA NextType == TypeInv /\ [Next]_vars => TypeInv'
<1> SUFFICES ASSUME TypeInv, [Next]_vars PROVE TypeInv'
  OBVIOUS
<1> USE StackAssumption
<1>0. Values \subseteq Cell /\ Other \subseteq Cell /\ retval \in Cell /\ pending \in Nat
  BY DEF Cell, TypeInv, TypeOK
<1>1. ASSUME NEW v \in Values, PushArg(v) PROVE TypeInv'
  BY <1>0, <1>1, PushType DEF PushArg
<1>2. CASE PushCount
  <2>1. pending \in Cell
    BY DEF Cell, TypeInv, TypeOK
  <2>2. QED BY <1>0, <1>2, <2>1, PushType DEF PushCount
<1>3. ASSUME NEW a \in Sites, CallUser(a) PROVE TypeInv'
  BY <1>3, CallUserType
<1>4. ASSUME NEW a \in Sites, NEW f \in Values \ Nat, CallFunctor(a, f) PROVE TypeInv'
  BY <1>0, <1>4, CallFunctorType
<1>5. CASE CallFails
  BY <1>5, StopType DEF CallFails, Stopped
<1>6. CASE \/ \E need \in 0 .. 1, v \in Values : CallLib(need, v)
           \/ CallPrint \/ CallTotalArguments \/ CallArgument
  BY <1>6, LibType
<1>7. ASSUME NEW n \in 0 .. MaxLocals, FuncEnter(n) PROVE TypeInv'
  BY <1>7, FuncEnterType
<1>8. CASE FuncExit
  BY <1>8, FuncExitType
<1>9. ASSUME NEW g \in GlobalVars, NEW v \in Values, AssignGlobal(g, v) PROVE TypeInv'
  BY <1>0, <1>9, LocalVarsNat, StoreType DEF AssignGlobal, StoreGlobal
<1>10. ASSUME NEW o \in LocalVars, NEW v \in Values, AssignLocal(o, v) PROVE TypeInv'
  BY <1>0, <1>10, LocalVarsNat, LocalType DEF AssignLocal
<1>11. ASSUME NEW k \in 0 .. MaxArgs, NEW v \in Values, AssignFormal(k, v) PROVE TypeInv'
  BY <1>0, <1>11, FormalType DEF AssignFormal
<1>12. ASSUME NEW g \in GlobalVars, GetRetGlobal(g) PROVE TypeInv'
  BY <1>0, <1>12, LocalVarsNat, StoreType DEF GetRetGlobal, StoreGlobal
<1>13. ASSUME NEW o \in LocalVars, GetRetLocal(o) PROVE TypeInv'
  BY <1>0, <1>13, LocalVarsNat, LocalType DEF GetRetLocal
<1>14. ASSUME NEW v \in Values, SetRet(v) PROVE TypeInv'
  BY <1>0, <1>14 DEF SetRet, TypeInv, TypeOK, Ready
<1>15. ASSUME NEW a \in Sites, Jump(a) PROVE TypeInv'
  BY <1>15 DEF Jump, TypeInv, TypeOK, Ready
<1>16. CASE Halt
  BY <1>16, StopType DEF Halt, Stopped
<1>17. CASE UNCHANGED vars
  BY <1>17 DEF vars, TypeInv, TypeOK, Ready
<1>18. QED
  BY <1>1, <1>2, <1>3, <1>4, <1>5, <1>6, <1>7, <1>8, <1>9, <1>10, <1>11, <1>12,
     <1>13, <1>14, <1>15, <1>16, <1>17 DEF Next

(* Every register and cell of the machine keeps its type, whatever the      *)
(* program does and also once the stack has been exhausted (vm.c).          *)
THEOREM TypeCorrect == Spec => []TypeOK
<1>1. Init => TypeInv
  BY InitType
<1>2. TypeInv /\ [Next]_vars => TypeInv'
  BY NextType
<1>3. TypeInv => TypeOK
  BY DEF TypeInv
<1>4. QED BY <1>1, <1>2, <1>3, PTL DEF Spec

-----------------------------------------------------------------------------
(* Where the activation records are. *)

LEMMA FrameType ==
  ASSUME TypeInv
  PROVE  /\ Depth \in Nat
         /\ \A i \in 1 .. Depth : /\ frames[i].base \in Nat /\ frames[i].nargs \in Nat
                                  /\ frames[i].locals \in Nat /\ frames[i].ret \in Nat
         /\ \A i \in 0 .. Depth : RestOf(i) \in Int
<1>1. Depth \in Nat /\ \A i \in 1 .. Depth : frames[i] \in Frame
  BY DEF TypeInv, TypeOK, Depth
<1>2. \A i \in 1 .. Depth : /\ frames[i].base \in Nat /\ frames[i].nargs \in Nat
                           /\ frames[i].locals \in Nat /\ frames[i].ret \in Nat
  BY <1>1 DEF Frame
<1>3. QED BY <1>1, <1>2, StackAssumption DEF RestOf

(* The control words of a live activation are above everything the running  *)
(* function may write, inside the array, and apart from the actuals.        *)
LEMMA Geometry ==
  ASSUME TypeInv, Layout
  PROVE  /\ \A i \in 1 .. Depth :
              /\ RestOf(Depth) < frames[i].base
              /\ frames[i].base + 3 + frames[i].nargs < STACK_SIZE
              /\ i # Depth => frames[i].base > frames[Depth].base + 3 + frames[Depth].nargs
         /\ RestOf(Depth) \in program_var_count .. STACK_SIZE - 1
<1>1. ASSUME NEW i \in 1 .. Depth
      PROVE  /\ RestOf(Depth) < frames[i].base
             /\ frames[i].base + 3 + frames[i].nargs < STACK_SIZE
  <2>1. i - 1 \in 0 .. Depth /\ Depth \in 1 .. Depth /\ i \in 1 .. Depth
    BY FrameType
  <2>2. RestOf(Depth) < frames[i].base
    BY <2>1 DEF Layout, Nested
  <2>3. frames[i].base + 3 + frames[i].nargs = RestOf(i - 1) /\ RestOf(i - 1) < STACK_SIZE
    BY <2>1 DEF Layout, Nested, Contiguous
  <2>4. QED BY <2>2, <2>3
<1>2. ASSUME NEW i \in 1 .. Depth, i # Depth
      PROVE  frames[i].base > frames[Depth].base + 3 + frames[Depth].nargs
  <2>1. Depth - 1 \in 1 .. Depth /\ i \in 1 .. (Depth - 1) /\ Depth \in 1 .. Depth
    BY <1>2, FrameType
  <2>2. RestOf(Depth - 1) < frames[i].base
    BY <2>1 DEF Layout, Nested
  <2>3. frames[Depth].base + 3 + frames[Depth].nargs = RestOf(Depth - 1)
    BY <2>1 DEF Layout, Contiguous
  <2>4. QED BY <2>1, <2>2, <2>3, FrameType
<1>3. RestOf(Depth) \in program_var_count .. STACK_SIZE - 1
  <2>1. Depth \in 0 .. Depth
    BY FrameType
  <2>2. QED BY <2>1, FrameType, StackAssumption DEF Layout, Nested
<1>4. QED BY <1>1, <1>2, <1>3

(* A cell outside the control words and the built-ins may be written. *)
Free(c) ==
  /\ c >= LibVars
  /\ \A i \in 1 .. Depth : c < frames[i].base \/ c > frames[i].base + 3

LEMMA WriteFree ==
  ASSUME TypeInv, TypeInv', Layout,
         UNCHANGED <<frames, topsp, enclosing_topsp>>,
         \A c \in Indices : stack'[c] # stack[c] => Free(c)
  PROVE  /\ Contiguous' /\ ControlWordsKept' /\ RegistersAgree'
         /\ Nested' /\ BuiltinsKept'
<1>1. /\ Depth' = Depth
      /\ \A i \in 0 .. Depth : RestOf(i)' = RestOf(i) /\ BaseOf(i)' = BaseOf(i)
  BY DEF Depth, RestOf, BaseOf
<1>2. ASSUME NEW i \in 1 .. Depth, NEW w \in 0 .. 3
      PROVE  stack'[frames[i].base + w] = stack[frames[i].base + w]
  <2>1. frames[i].base \in Nat /\ frames[i].base + w \in Indices
    BY FrameType, Geometry, StackAssumption DEF Indices
  <2>2. ~Free(frames[i].base + w)
    BY <2>1 DEF Free
  <2>3. QED BY <2>1, <2>2
<1>3. ControlWordsKept'
  <2> SUFFICES ASSUME NEW i \in 1 .. Depth
               PROVE  LET b == frames[i].base IN
                      /\ stack'[b] = b + 2
                      /\ stack'[b + 1] = BaseOf(i - 1)
                      /\ stack'[b + 2] = frames[i].ret
                      /\ stack'[b + 3] = frames[i].nargs
    BY <1>1 DEF ControlWordsKept, BaseOf, Depth
  <2>1. frames[i].base \in Nat
    BY FrameType
  <2>2. /\ stack'[frames[i].base + 0] = stack[frames[i].base + 0]
        /\ stack'[frames[i].base + 1] = stack[frames[i].base + 1]
        /\ stack'[frames[i].base + 2] = stack[frames[i].base + 2]
        /\ stack'[frames[i].base + 3] = stack[frames[i].base + 3]
    BY <1>2
  <2>3. frames[i].base + 0 = frames[i].base
    BY <2>1
  <2>4. QED BY <2>2, <2>3 DEF Layout, ControlWordsKept
<1>4. BuiltinsKept'
  <2> SUFFICES ASSUME NEW i \in 0 .. LibVars - 1 PROVE stack'[i] = LIB
    BY DEF BuiltinsKept
  <2>1. i \in Indices /\ ~Free(i)
    BY StackAssumption DEF Indices, Free
  <2>2. QED BY <2>1 DEF Layout, BuiltinsKept
<1>5. Contiguous' /\ Nested' /\ RegistersAgree'
  BY DEF Layout, Contiguous, Nested, RegistersAgree, RestOf, BaseOf, Depth
<1>6. QED BY <1>3, <1>4, <1>5

(* Ending the run keeps the layout. *)
LEMMA StopLayout ==
  ASSUME TypeInv, Layout, NEW how \in {"halt", "overflow", "error", "wild_read"}, Stop(how),
         how = "wild_read" => pending = 0 /\ Depth = 0
  PROVE  Layout'
<1>1. UNCHANGED <<frames, topsp, enclosing_topsp, stack, pending, top>> /\ mode' = how
  BY DEF Stop
<1>2. TypeInv'
  BY StopType DEF Stopped
<1>3. /\ Contiguous' /\ ControlWordsKept' /\ RegistersAgree'
      /\ Nested' /\ BuiltinsKept'
  BY <1>1, <1>2, WriteFree
<1>4. Balanced' /\ Prepared' /\ EndedWell'
  BY <1>1 DEF Balanced, Prepared, EndedWell, Running, Depth
<1>5. QED BY <1>3, <1>4 DEF Layout

(* PUSHARG of an actual or of the count, while the margin holds. *)
LEMMA PushLayout ==
  ASSUME TypeInv, Layout, NEW v \in Cell, NEW n \in Nat, NEW next \in {"args", "call"},
         mode \in {"stmt", "args"}, Push(v, next, n), ~wrapped', ~wrapped,
         next = "args" => n = pending + 1,
         next = "call" => n = pending /\ v = pending
  PROVE  Layout'
<1> USE StackAssumption
<1>0. TypeInv'
  BY PushType
<1>1. top = RestOf(Depth) - pending /\ top \in Nat /\ pending \in Nat
  BY FrameType DEF Layout, Balanced, Running, TypeInv, TypeOK
<1>2. top <= RestOf(Depth) /\ top < STACK_SIZE
  BY <1>1, Geometry, FrameType
<1>3. CASE Stop("overflow") \/ Stop("wild_write")
  <2>1. /\ Ensured(top) \in Nat
        /\ Ensured(top) > program_var_count /\ Ensured(top) < STACK_SIZE
    BY <1>1, <1>2 DEF Ensured, BelowMargin
  <2>2. mode' = next
    BY <2>1 DEF Push, OutOfStack
  <2>3. QED BY <1>3, <2>2 DEF Stop
<1>4. CASE /\ stack' = [stack EXCEPT ![Ensured(top)] = v]
           /\ top' = Ensured(top) - 1
           /\ wrapped' = (wrapped \/ BelowMargin(top))
           /\ pending' = n
           /\ mode' = next
           /\ UNCHANGED <<topsp, enclosing_topsp, pc, retval, frames>>
  <2>0. ~BelowMargin(top)
    BY <1>4
  <2>1. Ensured(top) = top /\ top >= program_var_count + Margin
    BY <2>0, <1>1 DEF BelowMargin, Ensured
  <2>2. stack' = [stack EXCEPT ![top] = v] /\ top' = top - 1 /\ top \in Indices
    BY <1>4, <2>1, <1>1, <1>2 DEF Indices
  <2>3. Free(top)
    BY <1>1, <1>2, <2>1, Geometry, FrameType DEF Free
  <2>4. \A c \in Indices : stack'[c] # stack[c] => Free(c)
    BY <2>2, <2>3 DEF TypeInv, TypeOK
  <2>5. /\ Contiguous' /\ ControlWordsKept' /\ RegistersAgree'
        /\ Nested' /\ BuiltinsKept'
    BY <1>0, <1>4, <2>4, WriteFree
  <2>6. RestOf(Depth)' = RestOf(Depth)
    BY <1>4 DEF RestOf, Depth
  <2>7. Balanced'
    BY <1>1, <1>4, <2>2, <2>6, FrameType DEF Balanced
  <2>8. Prepared'
    <3>1. stack'[top] = v /\ top' + 1 = top
      BY <2>2, <1>1 DEF TypeInv, TypeOK
    <3>2. top' >= program_var_count
      BY <2>1, <2>2, <1>1
    <3>3. QED BY <1>4, <3>1, <3>2 DEF Prepared
  <2>9. EndedWell'
    BY <1>4 DEF EndedWell
  <2>10. QED BY <2>5, <2>7, <2>8, <2>9 DEF Layout
<1>5. QED BY <1>3, <1>4 DEF Push

(* CALLFUNC of user code: the new record starts right below the actuals,    *)
(* which reach up to where the caller rested.                               *)
LEMMA EnterLayout ==
  ASSUME TypeInv, TypeInv', Layout, mode = "call",
         NEW m \in [Indices -> Cell], NEW t \in Nat, NEW n \in Nat, NEW a \in Sites,
         t >= program_var_count + 3, t + 1 + n = RestOf(Depth), m[t + 1] = n,
         \A c \in Indices : m[c] # stack[c] => Free(c),
         EnterUserFunc(m, t, n, a)
  PROVE  Layout'
<1> USE StackAssumption
<1> DEFINE f == [base |-> t - 2, nargs |-> n, locals |-> 0, ret |-> pc]
<1>1. /\ stack' = [m EXCEPT ![t] = pc, ![t - 1] = topsp, ![t - 2] = t]
      /\ top' = t - 3 /\ topsp' = t - 2 /\ enclosing_topsp' = t - 2
      /\ frames' = Append(frames, f) /\ pending' = 0 /\ mode' = "enter"
  BY DEF EnterUserFunc
<1>2. Depth \in Nat /\ frames \in Seq(Frame) /\ t + 1 + n < STACK_SIZE
  <2>1. RestOf(Depth) < STACK_SIZE
    BY Geometry, FrameType
  <2>2. QED BY <2>1, FrameType DEF TypeInv, TypeOK
<1>2a. PICK d \in Nat : d = Depth + 1
  BY <1>2
<1>3. /\ Depth' = d /\ frames'[d] = f
      /\ \A i \in 1 .. Depth : frames'[i] = frames[i]
  BY <1>1, <1>2, <1>2a DEF Depth
<1>4. /\ \A i \in 0 .. Depth : RestOf(i)' = RestOf(i) /\ BaseOf(i)' = BaseOf(i)
      /\ RestOf(d)' = t - 3 /\ BaseOf(d)' = t - 2
  BY <1>2, <1>2a, <1>3 DEF RestOf, BaseOf
<1>5. \A i \in 1 .. Depth : frames[i].base > t + 1 + n /\ frames[i].base + 3 < STACK_SIZE
                          /\ frames[i].base \in Nat
  BY Geometry, FrameType
<1>6. Contiguous'
  <2> SUFFICES ASSUME NEW i \in 1 .. d
               PROVE  frames'[i].base + 3 + frames'[i].nargs = RestOf(i - 1)'
    BY <1>3 DEF Contiguous
  <2>1. CASE i = d
    <3>1. frames'[i].base = t - 2 /\ frames'[i].nargs = n
      BY <2>1, <1>3
    <3>2. RestOf(i - 1)' = RestOf(Depth)
      BY <2>1, <1>2, <1>2a, <1>4
    <3>3. QED BY <3>1, <3>2
  <2>2. CASE i # d
    <3>1. i \in 1 .. Depth /\ i - 1 \in 0 .. Depth
      BY <2>2, <1>2, <1>2a
    <3>2. QED BY <3>1, <1>3, <1>4 DEF Layout, Contiguous
  <2>3. QED BY <2>1, <2>2
<1>7. /\ t \in Indices /\ t - 1 \in Indices /\ t - 2 \in Indices /\ t + 1 \in Indices
  BY <1>2, <1>2a DEF Indices
<1>8. /\ stack'[t - 2] = t /\ stack'[t - 1] = topsp /\ stack'[t] = pc
      /\ \A c \in Indices : c # t /\ c # t - 1 /\ c # t - 2 => stack'[c] = m[c]
  BY <1>1, <1>7
<1>9. ControlWordsKept'
  <2> SUFFICES ASSUME NEW i \in 1 .. d
               PROVE  LET b == frames'[i].base IN
                      /\ stack'[b] = b + 2
                      /\ stack'[b + 1] = BaseOf(i - 1)'
                      /\ stack'[b + 2] = frames'[i].ret
                      /\ stack'[b + 3] = frames'[i].nargs
    BY <1>3 DEF ControlWordsKept
  <2>1. CASE i = d
    <3>1. /\ frames'[i].base = t - 2 /\ frames'[i].nargs = n /\ frames'[i].ret = pc
          /\ i - 1 = Depth
      BY <2>1, <1>2, <1>2a, <1>3
    <3>2. BaseOf(i - 1)' = topsp
      <4>1. i - 1 \in 0 .. Depth /\ BaseOf(i - 1) = topsp
        BY <3>1, <1>2 DEF Layout, RegistersAgree
      <4>2. QED BY <4>1, <1>4
    <3>3. stack'[t + 1] = n
      BY <1>7, <1>8
    <3>4. t - 2 + 1 = t - 1 /\ t - 2 + 2 = t /\ t - 2 + 3 = t + 1
      OBVIOUS
    <3>5. QED BY <3>1, <3>2, <3>3, <3>4, <1>8
  <2>2. CASE i # d
    <3>1. i \in 1 .. Depth /\ i - 1 \in 0 .. Depth
      BY <2>2, <1>2, <1>2a
    <3>2. \A w \in 0 .. 3 : stack'[frames[i].base + w] = stack[frames[i].base + w]
      <4> TAKE w \in 0 .. 3
      <4>1. frames[i].base + w \in Indices /\ frames[i].base + w > t + 1
        <5>1. PICK b \in Nat : b = frames[i].base
          BY <3>1, <1>5
        <5>2. b > t + 1 + n /\ b + 3 < STACK_SIZE
          BY <5>1, <3>1, <1>5
        <5>3. w \in Nat /\ w <= 3 /\ b + w > t + 1 /\ b + w < STACK_SIZE
          BY <5>2
        <5>4. b + w \in Indices
          BY <5>3 DEF Indices
        <5>5. QED BY <5>1, <5>3, <5>4, Zenon
      <4>2. ~Free(frames[i].base + w)
        BY <3>1, <1>5 DEF Free
      <4>3. QED BY <4>1, <4>2, <1>8
    <3>3. /\ stack'[frames[i].base + 0] = stack[frames[i].base + 0]
          /\ stack'[frames[i].base + 1] = stack[frames[i].base + 1]
          /\ stack'[frames[i].base + 2] = stack[frames[i].base + 2]
          /\ stack'[frames[i].base + 3] = stack[frames[i].base + 3]
      BY <3>2
    <3>4. frames[i].base + 0 = frames[i].base
      BY <3>1, <1>5
    <3>5. BaseOf(i - 1)' = BaseOf(i - 1) /\ frames'[i] = frames[i]
      BY <3>1, <1>3, <1>4
    <3>6. QED BY <3>1, <3>3, <3>4, <3>5 DEF Layout, ControlWordsKept
  <2>3. QED BY <2>1, <2>2
<1>10. RegistersAgree'
  BY <1>1, <1>3, <1>4 DEF RegistersAgree
<1>11. Balanced'
  BY <1>1, <1>3, <1>4 DEF Balanced
<1>12. Nested'
  <2>1. \A i \in 0 .. d : program_var_count <= RestOf(i)' /\ RestOf(i)' < STACK_SIZE
    <3> TAKE i \in 0 .. d
    <3>1. CASE i = d
      BY <3>1, <1>2, <1>2a, <1>4
    <3>2. CASE i \in 0 .. Depth
      BY <3>2, <1>4 DEF Layout, Nested
    <3>3. QED BY <3>1, <3>2, <1>2, <1>2a
  <2>2. \A j \in 1 .. d : \A i \in 1 .. j : RestOf(j)' < frames'[i].base
    <3> TAKE j \in 1 .. d
    <3> TAKE i \in 1 .. j
    <3>1. CASE j = d /\ i = d
      BY <3>1, <1>3, <1>4
    <3>2. CASE j = d /\ i \in 1 .. Depth
      BY <3>2, <1>3, <1>4, <1>5
    <3>3. CASE j \in 1 .. Depth
      <4>1. RestOf(j) < frames[i].base
        BY <3>3 DEF Layout, Nested
      <4>2. i \in 1 .. Depth /\ j \in 0 .. Depth
        BY <3>3, <1>2, <1>2a
      <4>3. RestOf(j)' = RestOf(j)
        BY <4>2, <1>4
      <4>4. frames'[i] = frames[i]
        BY <4>2, <1>3
      <4>5. QED BY ONLY <4>1, <4>3, <4>4
    <3>4. QED BY <3>1, <3>2, <3>3, <1>2, <1>2a
  <2>3. QED BY <2>1, <2>2, <1>3 DEF Nested
<1>13. Prepared'
  <2>1. top' >= program_var_count
    BY <1>1
  <2>2. frames' # << >> /\ Current'.locals = 0
    BY <1>2, <1>2a, <1>3 DEF Depth, Current
  <2>3. QED BY <1>1, <2>1, <2>2 DEF Prepared
<1>14. BuiltinsKept'
  <2> SUFFICES ASSUME NEW i \in 0 .. LibVars - 1 PROVE stack'[i] = LIB
    BY DEF BuiltinsKept
  <2>1. i \in Indices /\ ~Free(i) /\ i < t - 2
    BY DEF Indices, Free
  <2>2. QED BY <2>1, <1>8 DEF Layout, BuiltinsKept
<1>15. EndedWell'
  BY <1>1 DEF EndedWell
<1>16. QED
  BY <1>6, <1>9, <1>10, <1>11, <1>12, <1>13, <1>14, <1>15 DEF Layout

LEMMA CallUserLayout ==
  ASSUME TypeInv, Layout, NEW a \in Sites, CallUser(a)
  PROVE  Layout'
<1> USE StackAssumption
<1>0. TypeInv' /\ mode = "call"
  BY CallUserType DEF CallUser
<1>1. /\ top \in Nat /\ pending \in Nat /\ stack \in [Indices -> Cell]
      /\ program_var_count + 4 <= top
  BY <1>0 DEF TypeInv, TypeOK, Ready
<1>2. top + 1 + pending = RestOf(Depth) /\ stack[top + 1] = pending
  BY <1>0, <1>1, FrameType DEF Layout, Balanced, Prepared, Running
<1>3. EnterUserFunc(stack, top, pending, a)
  BY <1>1 DEF CallUser, OutOfStack
<1>4. QED BY <1>0, <1>1, <1>2, <1>3, EnterLayout

LEMMA CallFunctorLayout ==
  ASSUME TypeInv, Layout, NEW a \in Sites, NEW f \in Cell, CallFunctor(a, f)
  PROVE  Layout'
<1> USE StackAssumption
<1> DEFINE n == CountIn(stack[top + 1])
           m == [stack EXCEPT ![top] = n + 1, ![top + 1] = f]
<1>0. TypeInv' /\ mode = "call"
  BY CallFunctorType DEF CallFunctor
<1>1. /\ top \in Nat /\ pending \in Nat /\ stack \in [Indices -> Cell]
      /\ program_var_count + 4 <= top /\ top <= STACK_SIZE - 2
      /\ top \in Indices /\ top + 1 \in Indices
  BY <1>0 DEF TypeInv, TypeOK, Ready, Indices
<1>2. top + 1 + pending = RestOf(Depth) /\ n = pending
  BY <1>0, <1>1, FrameType DEF Layout, Balanced, Prepared, Running, CountIn
<1>3. EnterUserFunc(m, top - 1, pending + 1, a)
  BY <1>1 DEF CallFunctor, OutOfStack
<1>4. m \in [Indices -> Cell] /\ m[top] = pending + 1 /\ top - 1 + 1 = top
  <2>1. n + 1 \in Cell
    BY <1>1, <1>2 DEF Cell
  <2>2. QED BY <1>1, <1>2, <2>1
<1>5. \A c \in Indices : m[c] # stack[c] => Free(c)
  <2>1. Free(top) /\ Free(top + 1)
    BY <1>1, <1>2, Geometry, FrameType DEF Free
  <2>2. QED BY <2>1, <1>1
<1>6. top - 1 + 1 + (pending + 1) = RestOf(Depth) /\ top - 1 \in Nat
  BY <1>1, <1>2
<1> HIDE DEF m, n
<1>7. /\ top - 1 \in Nat /\ pending + 1 \in Nat /\ top - 1 >= program_var_count + 3
      /\ m[top - 1 + 1] = pending + 1
  BY <1>1, <1>4
<1>8. QED BY <1>0, <1>3, <1>4, <1>5, <1>6, <1>7, EnterLayout

(* A library call pops its actuals and leaves top where the caller rested. *)
LEMMA FinishLibLayout ==
  ASSUME TypeInv, Layout, mode = "call",
         NEW f \in LibFuncs, NEW v \in Cell, FinishLib(f, v), ~wrapped'
  PROVE  Layout'
<1> USE StackAssumption
<1>1. TypeInv'
  BY FinishLibType
<1>2. /\ retval' = v /\ enclosing_topsp' = topsp /\ pending' = 0 /\ mode' = "ret"
      /\ UNCHANGED <<stack, topsp, pc, frames>>
      /\ enclosing_topsp = topsp
  BY DEF FinishLib, Layout, RegistersAgree
<1>3. /\ Contiguous' /\ ControlWordsKept' /\ RegistersAgree'
      /\ Nested' /\ BuiltinsKept'
  BY <1>1, <1>2, WriteFree
<1>4. top + 1 + CountIn(stack[top + 1]) = RestOf(Depth)
  <2>1. pending \in Nat /\ top \in Nat /\ RestOf(Depth) \in Int
    BY FrameType DEF TypeInv, TypeOK
  <2>2. stack[top + 1] = pending /\ top = RestOf(Depth) - pending - 1
    BY DEF Layout, Balanced, Prepared, Running
  <2>3. QED BY <2>1, <2>2 DEF CountIn
<1>5. top' = RestOf(Depth)
  <2>1. wrapped' = (wrapped \/ BelowMargin(RestOf(Depth))) /\ top' = Ensured(RestOf(Depth))
    BY <1>4 DEF FinishLib
  <2>2. ~BelowMargin(RestOf(Depth))
    BY <2>1
  <2>3. QED BY <2>1, <2>2 DEF Ensured
<1>6. RestOf(Depth)' = RestOf(Depth)
  BY <1>2 DEF RestOf, Depth
<1>7. Balanced' /\ Prepared' /\ EndedWell'
  BY <1>2, <1>5, <1>6, Geometry, FrameType DEF Balanced, Prepared, EndedWell
<1>8. QED BY <1>3, <1>7 DEF Layout

(* Only the main program can run a library function against the end of the  *)
(* array, and only without actuals.                                         *)
LEMMA NothingAbove ==
  ASSUME TypeInv, Layout, mode = "call", top + 2 >= STACK_SIZE
  PROVE  pending = 0 /\ Depth = 0
<1>1. top = RestOf(Depth) - pending - 1 /\ pending \in Nat /\ top \in Nat
  BY FrameType DEF Layout, Balanced, Running, TypeInv, TypeOK
<1>2. RestOf(Depth) \in Int /\ RestOf(Depth) <= STACK_SIZE - 1
  BY Geometry, FrameType, StackAssumption
<1>3. pending = 0 /\ RestOf(Depth) = STACK_SIZE - 1
  BY <1>1, <1>2, StackAssumption
<1>4. Depth = 0
  <2> SUFFICES ASSUME Depth # 0 PROVE FALSE
    OBVIOUS
  <2>1. Depth \in 1 .. Depth /\ frames[Depth].base \in Nat /\ frames[Depth].nargs \in Nat
    BY FrameType
  <2>2. RestOf(Depth) < frames[Depth].base
    BY <2>1, Geometry
  <2>3. frames[Depth].base + 3 + frames[Depth].nargs < STACK_SIZE
    BY <2>1, Geometry
  <2>4. QED BY <1>3, <2>1, <2>2, <2>3, StackAssumption
<1>5. QED BY <1>3, <1>4

(* totalactuals answers the number of actuals of the running function, and  *)
(* 0 in the main program.                                                   *)
LEMMA TotalActuals ==
  ASSUME TypeInv, Layout
  PROVE  totalactuals = IF Depth = 0 THEN 0 ELSE frames[Depth].nargs
<1> USE StackAssumption
<1>1. CASE Depth = 0
  <2>1. topsp = 0 /\ stack[3] = LIB
    BY <1>1 DEF Layout, RegistersAgree, BaseOf, BuiltinsKept
  <2>2. QED BY <1>1, <2>1 DEF totalactuals, CountIn
<1>2. CASE Depth # 0
  <2>1. Depth \in 1 .. Depth /\ frames[Depth].nargs \in Nat /\ frames[Depth].base \in Nat
    BY <1>2, FrameType
  <2>2. topsp = frames[Depth].base /\ topsp + 3 < STACK_SIZE
    BY <1>2, <2>1, Geometry DEF Layout, RegistersAgree, BaseOf
  <2>3. stack[topsp + 3] = frames[Depth].nargs
    BY <2>1, <2>2 DEF Layout, ControlWordsKept
  <2>4. QED BY <1>2, <2>1, <2>2, <2>3 DEF totalactuals, CountIn
<1>3. QED BY <1>1, <1>2

LEMMA LibLayout ==
  ASSUME TypeInv, Layout, ~wrapped',
         \/ \E need \in 0 .. 1, v \in Values : CallLib(need, v)
         \/ CallPrint \/ CallTotalArguments \/ CallArgument
  PROVE  Layout'
<1> USE StackAssumption
<1>0. NIL \in Cell /\ Values \subseteq Cell /\ top \in Nat
  BY DEF Cell, TypeInv, TypeOK
<1>1. ASSUME NEW need \in 0 .. 1, NEW v \in Values, CallLib(need, v)
      PROVE  Layout'
  <2>1. CASE top + 1 + need >= STACK_SIZE
    <3>1. mode = "call" /\ Stop("wild_read") /\ top + 2 >= STACK_SIZE
      BY <1>0, <1>1, <2>1 DEF CallLib
    <3>2. QED BY <3>1, NothingAbove, StopLayout
  <2>2. CASE ~(top + 1 + need >= STACK_SIZE)
    BY <1>0, <1>1, <2>2, FinishLibLayout DEF CallLib, LibFuncs
  <2>3. QED BY <2>1, <2>2
<1>2. CASE CallPrint
  BY <1>0, <1>2, StopLayout, FinishLibLayout DEF CallPrint, LibFuncs
<1>3. CASE CallTotalArguments
  <2> DEFINE v == IF \/ topsp + 3 >= STACK_SIZE
                     \/ stack[topsp] \notin Nat
                     \/ stack[topsp + 3] \notin Nat
                  THEN NIL ELSE stack[topsp + 3]
  <2>1. v \in Cell
    BY <1>0 DEF TypeInv, TypeOK, Cell
  <2>2. mode = "call" /\ FinishLib("totalarguments", v)
    BY <1>3 DEF CallTotalArguments
  <2> HIDE DEF v
  <2>3. QED BY <2>1, <2>2, FinishLibLayout DEF LibFuncs
<1>4. CASE CallArgument
  <2> DEFINE k == stack[top + 2]
             v == IF stack[ArgumentCell(k)] = UNDEF
                  THEN NIL ELSE stack[ArgumentCell(k)]
  <2>0. mode = "call"
    BY <1>4 DEF CallArgument
  <2>1. CASE top + 2 >= STACK_SIZE /\ Stop("wild_read")
    BY <2>0, <2>1, NothingAbove, StopLayout
  <2>2. CASE Stop("error")
    BY <2>2, StopLayout
  <2>3. CASE FinishLib("argument", NIL)
    BY <1>0, <2>0, <2>3, FinishLibLayout DEF LibFuncs
  <2>4. CASE k \in Nat /\ ~(k >= totalactuals) /\ ArgumentCell(k) >= STACK_SIZE
    <3>1. Depth # 0 /\ k < frames[Depth].nargs /\ Depth \in 1 .. Depth
      BY <2>4, TotalActuals, FrameType
    <3>2. topsp = frames[Depth].base
      BY <3>1 DEF Layout, RegistersAgree, BaseOf
    <3>3. frames[Depth].base + 3 + frames[Depth].nargs < STACK_SIZE
      BY <3>1, Geometry
    <3>4. QED BY <2>4, <3>1, <3>2, <3>3, FrameType DEF ArgumentCell
  <2>5. CASE k \in Nat /\ ArgumentCell(k) < STACK_SIZE /\ FinishLib("argument", v)
    <3>1. ArgumentCell(k) \in Indices
      BY <2>5 DEF ArgumentCell, Indices, TypeInv, TypeOK
    <3>2. v \in Cell
      BY <3>1, <1>0 DEF TypeInv, TypeOK
    <3> HIDE DEF v
    <3>3. QED BY <2>0, <3>2, <2>5, FinishLibLayout DEF LibFuncs
  <2>6. k \in Nat => ArgumentCell(k) \in Nat
    BY DEF ArgumentCell, TypeInv, TypeOK
  <2>7. QED BY <1>4, <2>1, <2>2, <2>3, <2>4, <2>5, <2>6 DEF CallArgument
<1>5. QED BY <1>1, <1>2, <1>3, <1>4

(* FUNCENTER clears n cells below topsp: they are nobody else's. *)
LEMMA FuncEnterLayout ==
  ASSUME TypeInv, Layout, NEW n \in Nat, FuncEnter(n)
  PROVE  Layout'
<1> USE StackAssumption
<1>0. TypeInv' /\ mode = "enter"
  BY FuncEnterType DEF FuncEnter
<1>1. CASE n > 0 /\ OutOfStack(topsp - n)
  BY <1>1, StopLayout DEF FuncEnter
<1>2. CASE ~(n > 0 /\ OutOfStack(topsp - n))
  <2>1. /\ stack' = [i \in Indices |-> IF topsp - n <= i /\ i < topsp
                                       THEN UNDEF ELSE stack[i]]
        /\ top' = topsp - 1 - n /\ mode' = "stmt"
        /\ frames' = [frames EXCEPT ![Depth] = Sized(Current, n)]
        /\ UNCHANGED <<topsp, enclosing_topsp, pc, retval, pending, wrapped>>
    BY <1>2 DEF FuncEnter
  <2>2. PICK d \in Nat : d = Depth
    BY FrameType
  <2>3. /\ d \in 1 .. d /\ frames \in Seq(Frame) /\ frames[d].locals = 0
        /\ topsp = frames[d].base /\ pending = 0 /\ topsp \in Nat
        /\ enclosing_topsp = topsp
    <3>1. frames \in Seq(Frame) /\ topsp \in Nat
      BY DEF TypeInv, TypeOK
    <3>2. frames # << >> /\ Current.locals = 0 /\ pending = 0
      BY <1>0 DEF Layout, Prepared
    <3>3. d \in 1 .. d /\ Current = frames[d]
      BY <2>2, <3>1, <3>2 DEF Depth, Current
    <3>4. topsp = BaseOf(d) /\ enclosing_topsp = topsp
      BY <2>2 DEF Layout, RegistersAgree
    <3>5. QED BY <3>1, <3>2, <3>3, <3>4 DEF BaseOf
  <2>4. /\ Depth' = d
        /\ \A i \in 1 .. d - 1 : frames'[i] = frames[i]
        /\ frames'[d] = Sized(frames[d], n)
    <3>1. frames' = [frames EXCEPT ![d] = Sized(frames[d], n)] /\ Len(frames) = d
      BY <2>1, <2>2 DEF Depth, Current
    <3>2. Len(frames') = d
      BY <2>2, <2>3, <3>1
    <3>3. QED BY <2>2, <2>3, <3>1, <3>2 DEF Depth
  <2>4a. /\ frames'[d].base = frames[d].base
         /\ frames'[d].nargs = frames[d].nargs
         /\ frames'[d].ret = frames[d].ret
         /\ frames'[d].locals = n
    BY <2>4 DEF Sized
  <2>4b. \A i \in 1 .. d : i = d \/ i \in 1 .. d - 1
    OBVIOUS
  <2>4c. \A i \in 1 .. d : /\ frames'[i].base = frames[i].base
                         /\ frames'[i].nargs = frames[i].nargs
                         /\ frames'[i].ret = frames[i].ret
    BY <2>4, <2>4a, <2>4b
  <2>5. /\ \A i \in 0 .. d : BaseOf(i)' = BaseOf(i)
        /\ \A i \in 0 .. d : i # d => RestOf(i)' = RestOf(i)
        /\ RestOf(d)' = topsp - 1 - n /\ RestOf(d) = topsp - 1
    <3>2. \A i \in 0 .. d : BaseOf(i)' = BaseOf(i)
      BY <2>4c DEF BaseOf
    <3>3. \A i \in 0 .. d : i # d => RestOf(i)' = RestOf(i)
      <4> TAKE i \in 0 .. d
      <4> HAVE i # d
      <4>1. i = 0 \/ frames'[i] = frames[i]
        BY <2>4
      <4>2. QED BY <4>1 DEF RestOf
    <3>4. d # 0 /\ frames'[d].base = topsp /\ frames'[d].locals = n
      BY <2>3, <2>4a
    <3>5. RestOf(d)' = topsp - 1 - n
      BY <3>4 DEF RestOf
    <3>6. RestOf(d) = topsp - 1
      BY <2>3, <3>4 DEF RestOf
    <3>7. QED BY <3>2, <3>3, <3>5, <3>6
  <2>6. topsp - 1 - n >= program_var_count /\ topsp < STACK_SIZE
    <3>1. n > 0 => topsp - n > program_var_count
      BY <1>2, <2>3 DEF OutOfStack
    <3>2. topsp - 1 >= program_var_count
      BY <2>2, <2>3, <2>5, Geometry
    <3>3. frames[d].base + 3 + frames[d].nargs < STACK_SIZE /\ frames[d].nargs \in Nat
      BY <2>2, <2>3, Geometry, FrameType
    <3>4. topsp \in Nat /\ topsp = frames[d].base
      BY <2>3
    <3>5. topsp - 1 - n >= program_var_count
      BY <3>1, <3>2, <3>4
    <3>6. topsp < STACK_SIZE
      BY <3>3, <3>4
    <3>7. QED BY <3>5, <3>6
  <2>7. \A i \in 1 .. d : /\ frames[i].base >= topsp /\ frames[i].base \in Nat
                         /\ frames[i].base + 3 < STACK_SIZE
    <3> TAKE i \in 1 .. d
    <3>1. /\ frames[i].base \in Nat /\ RestOf(d) < frames[i].base
          /\ frames[i].nargs \in Nat
          /\ frames[i].base + 3 + frames[i].nargs < STACK_SIZE
      BY <2>2, Geometry, FrameType
    <3>2. topsp \in Nat /\ RestOf(d) = topsp - 1
      BY <2>3, <2>5
    <3>3. QED BY <3>1, <3>2
  <2>8. \A c \in Indices : c < topsp - n \/ c >= topsp => stack'[c] = stack[c]
    <3> TAKE c \in Indices
    <3> HAVE c < topsp - n \/ c >= topsp
    <3>1. c \in Int /\ topsp \in Int
      BY <2>3 DEF Indices
    <3>2. ~(topsp - n <= c /\ c < topsp)
      BY <3>1
    <3>3. QED BY <2>1, <3>2
  <2>9. Contiguous'
    <3> SUFFICES ASSUME NEW i \in 1 .. d
                 PROVE  frames'[i].base + 3 + frames'[i].nargs = RestOf(i - 1)'
      BY <2>4 DEF Contiguous
    <3>1. i - 1 \in 0 .. d /\ i - 1 # d
      BY <2>2
    <3>2. frames[i].base + 3 + frames[i].nargs = RestOf(i - 1)
      BY <2>2 DEF Layout, Contiguous
    <3>3. RestOf(i - 1)' = RestOf(i - 1)
      BY <3>1, <2>5
    <3>4. frames'[i].base = frames[i].base /\ frames'[i].nargs = frames[i].nargs
      BY <2>4c
    <3>5. QED BY <3>2, <3>3, <3>4
  <2>10. ControlWordsKept'
    <3> SUFFICES ASSUME NEW i \in 1 .. d
                 PROVE  LET b == frames[i].base IN
                        /\ stack'[b] = b + 2
                        /\ stack'[b + 1] = BaseOf(i - 1)
                        /\ stack'[b + 2] = frames[i].ret
                        /\ stack'[b + 3] = frames[i].nargs
      <4>1. \A i \in 1 .. d : BaseOf(i - 1)' = BaseOf(i - 1)
        BY <2>2, <2>5
      <4>2. SUFFICES ASSUME NEW i \in 1 .. d
                     PROVE  LET b == frames'[i].base IN
                            /\ stack'[b] = b + 2
                            /\ stack'[b + 1] = BaseOf(i - 1)'
                            /\ stack'[b + 2] = frames'[i].ret
                            /\ stack'[b + 3] = frames'[i].nargs
        BY <2>4 DEF ControlWordsKept
      <4>3. /\ frames'[i].base = frames[i].base /\ frames'[i].ret = frames[i].ret
            /\ frames'[i].nargs = frames[i].nargs
        BY <2>4c
      <4>4. QED BY <4>1, <4>3
    <3>1. /\ frames[i].base \in Nat
          /\ frames[i].base >= topsp /\ frames[i].base + 3 < STACK_SIZE
      BY <2>7
    <3>2. /\ frames[i].base \in Indices /\ frames[i].base + 1 \in Indices
          /\ frames[i].base + 2 \in Indices /\ frames[i].base + 3 \in Indices
      BY <3>1 DEF Indices
    <3>3. /\ stack'[frames[i].base] = stack[frames[i].base]
          /\ stack'[frames[i].base + 1] = stack[frames[i].base + 1]
          /\ stack'[frames[i].base + 2] = stack[frames[i].base + 2]
          /\ stack'[frames[i].base + 3] = stack[frames[i].base + 3]
      <4> DEFINE b == frames[i].base
      <4>1. /\ topsp \in Nat /\ b >= topsp /\ b + 1 >= topsp
            /\ b + 2 >= topsp /\ b + 3 >= topsp
        <5>1. topsp \in Nat
          BY <2>3
        <5>2. b \in Nat /\ b >= topsp
          BY <3>1
        <5> HIDE DEF b
        <5>3. QED BY <5>1, <5>2
      <4> HIDE DEF b
      <4>2. b \in Indices /\ b + 1 \in Indices /\ b + 2 \in Indices /\ b + 3 \in Indices
        BY <3>2 DEF b
      <4>3. /\ stack'[b] = stack[b] /\ stack'[b + 1] = stack[b + 1]
            /\ stack'[b + 2] = stack[b + 2] /\ stack'[b + 3] = stack[b + 3]
        BY <2>8, <4>1, <4>2
      <4>4. QED BY <4>3 DEF b
    <3>4. QED BY <2>2, <3>3 DEF Layout, ControlWordsKept
  <2>11. RegistersAgree' /\ Balanced' /\ Prepared' /\ EndedWell'
    <3>1. RegistersAgree'
      <4>1. BaseOf(d) = topsp /\ BaseOf(d)' = BaseOf(d)
        <5>1. d # 0 /\ d \in 0 .. d
          BY <2>3
        <5>2. QED BY <2>3, <2>5, <5>1 DEF BaseOf
      <4>2. QED BY <4>1, <2>1, <2>3, <2>4 DEF RegistersAgree
    <3>2. Balanced'
      BY <2>1, <2>3, <2>4, <2>5 DEF Balanced
    <3>3. Prepared' /\ EndedWell'
      BY <2>1, <2>3, <2>6 DEF Prepared, EndedWell
    <3>4. QED BY <3>1, <3>2, <3>3
  <2>12. Nested'
    <3>1. \A i \in 0 .. d : program_var_count <= RestOf(i)' /\ RestOf(i)' < STACK_SIZE
      <4> TAKE i \in 0 .. d
      <4>1. CASE i = d
        <5>1. RestOf(d)' = topsp - 1 - n
          BY <2>5
        <5>2. topsp - 1 - n < STACK_SIZE
          <6>1. topsp \in Nat /\ STACK_SIZE \in Nat /\ topsp < STACK_SIZE
            BY <2>3, <2>6
          <6>2. QED BY ONLY <6>1, n \in Nat
        <5>3. QED BY <4>1, <2>6, <5>1, <5>2
      <4>2. CASE i # d
        <5>1. program_var_count <= RestOf(i) /\ RestOf(i) < STACK_SIZE
          BY <2>2 DEF Layout, Nested
        <5>2. RestOf(i)' = RestOf(i)
          BY <4>2, <2>2, <2>5
        <5>3. QED BY ONLY <5>1, <5>2
      <4>3. QED BY <4>1, <4>2
    <3>2. \A j \in 1 .. d : \A i \in 1 .. j : RestOf(j)' < frames'[i].base
      <4> TAKE j \in 1 .. d
      <4> TAKE i \in 1 .. j
      <4>1. i \in 1 .. d
        BY <2>2
      <4>2. CASE j = d
        <5>1. /\ frames[i].base >= topsp /\ frames[i].base \in Nat
              /\ frames'[i].base = frames[i].base
          BY <4>1, <2>4c, <2>7
        <5>2. RestOf(j)' = topsp - 1 - n /\ topsp \in Nat
          BY <4>2, <2>3, <2>5
        <5>3. QED BY <5>1, <5>2
      <4>3. CASE j # d
        <5>1. RestOf(j)' = RestOf(j) /\ frames'[i].base = frames[i].base
          BY <4>1, <4>3, <2>4c, <2>5
        <5>2. QED BY <5>1, <2>2 DEF Layout, Nested
      <4>4. QED BY <4>2, <4>3
    <3>3. QED BY <3>1, <3>2, <2>4 DEF Nested
  <2>13. BuiltinsKept'
    <3> SUFFICES ASSUME NEW i \in 0 .. LibVars - 1 PROVE stack'[i] = LIB
      BY DEF BuiltinsKept
    <3>0. topsp \in Nat /\ topsp - 1 - n >= program_var_count
      BY <2>3, <2>6
    <3>1. i \in Indices /\ i < topsp - n
      BY <3>0 DEF Indices
    <3>2. QED BY <3>1, <2>8 DEF Layout, BuiltinsKept
  <2>14. QED BY <2>9, <2>10, <2>11, <2>12, <2>13 DEF Layout
<1>3. QED BY <1>1, <1>2

(* FUNCEXIT finds the words its CALLFUNC wrote: the caller's top, topsp and *)
(* pc come back, and the cells it clears lie below the caller.              *)
LEMMA FuncExitLayout ==
  ASSUME TypeInv, Layout, FuncExit, ~wrapped'
  PROVE  Layout'
<1> USE StackAssumption
<1> DEFINE t == stack[topsp] + stack[topsp + 3] + 1
<1>0. TypeInv' /\ mode = "stmt" /\ frames # << >>
  BY FuncExitType DEF FuncExit
<1>1. PICK d \in Nat : d = Depth
  BY FrameType
<1>2. d \in 1 .. d /\ frames \in Seq(Frame)
  BY <1>0, <1>1 DEF TypeInv, TypeOK, Depth
<1>3. /\ frames[d].base \in Nat /\ frames[d].nargs \in Nat
      /\ frames[d].base + 3 + frames[d].nargs < STACK_SIZE
      /\ frames[d].base + 3 + frames[d].nargs = RestOf(d - 1)
      /\ RestOf(d) < frames[d].base /\ RestOf(d) \in program_var_count .. STACK_SIZE - 1
  <2>1. /\ frames[d].base \in Nat /\ frames[d].nargs \in Nat
    BY <1>1, <1>2, FrameType
  <2>2. /\ frames[d].base + 3 + frames[d].nargs < STACK_SIZE
        /\ RestOf(d) < frames[d].base /\ RestOf(d) \in program_var_count .. STACK_SIZE - 1
    BY <1>1, <1>2, Geometry
  <2>3. frames[d].base + 3 + frames[d].nargs = RestOf(d - 1)
    BY <1>1, <1>2 DEF Layout, Contiguous
  <2>4. QED BY <2>1, <2>2, <2>3
<1>4. topsp = frames[d].base /\ top = RestOf(d)
  <2>1. pending = 0 /\ RestOf(Depth) \in Int
    BY <1>0, FrameType DEF Layout, Prepared
  <2>2. top = RestOf(Depth)
    BY <1>0, <2>1 DEF Layout, Balanced, Running
  <2>3. QED BY <1>1, <1>2, <2>2 DEF Layout, RegistersAgree, BaseOf
<1>5. /\ stack[topsp] = topsp + 2 /\ stack[topsp + 1] = BaseOf(d - 1)
      /\ stack[topsp + 2] = frames[d].ret /\ stack[topsp + 3] = frames[d].nargs
      /\ frames[d].ret \in Nat /\ topsp \in Nat
  BY <1>1, <1>2, <1>3, <1>4, FrameType DEF Layout, ControlWordsKept
<1>6. t = RestOf(d - 1) /\ t \in Nat /\ t < STACK_SIZE
  BY <1>3, <1>4, <1>5
<1>7. BaseOf(d - 1) \in Nat
  BY <1>1, <1>2, FrameType DEF BaseOf
<1>8. \A i \in 0 .. 3 : stack[topsp + i] \in Nat
  <2>1. /\ stack[topsp] \in Nat /\ stack[topsp + 1] \in Nat
        /\ stack[topsp + 2] \in Nat /\ stack[topsp + 3] \in Nat
    BY <1>3, <1>5, <1>7
  <2>2. \A i \in 0 .. 3 : i = 0 \/ i = 1 \/ i = 2 \/ i = 3
    OBVIOUS
  <2>3. topsp + 0 = topsp
    BY <1>5
  <2>4. QED BY <2>1, <2>2, <2>3
<1>9. ~(topsp + 3 >= STACK_SIZE) /\ ~(top < t /\ t > STACK_SIZE)
  BY <1>3, <1>4, <1>6
<1>10. /\ stack' = [i \in Indices |-> IF top <= i /\ i < t THEN UNDEF ELSE stack[i]]
       /\ top' = Ensured(t)
       /\ wrapped' = (wrapped \/ BelowMargin(t))
       /\ topsp' = stack[topsp + 1]
       /\ pc' = stack[topsp + 2]
       /\ enclosing_topsp' = stack[topsp + 1]
       /\ frames' = SubSeq(frames, 1, Depth - 1)
       /\ mode' = "ret"
       /\ UNCHANGED <<retval, pending>>
  <2> HIDE DEF t
  <2>1. QED BY <1>8, <1>9 DEF FuncExit, CorruptFrame, LeaveFunc, t
<1>11. top' = t
  <2>1. ~BelowMargin(t)
    BY <1>10
  <2>2. QED BY <1>10, <2>1 DEF Ensured
<1>12. PICK e \in Nat : e = d - 1
  BY <1>2
<1>13. /\ Depth' = e
       /\ \A i \in 1 .. e : frames'[i] = frames[i]
  BY <1>1, <1>2, <1>10, <1>12 DEF Depth
<1>14. /\ \A i \in 0 .. e : BaseOf(i)' = BaseOf(i)
       /\ \A i \in 0 .. e : RestOf(i)' = RestOf(i)
  BY <1>13 DEF BaseOf, RestOf
<1>15. \A i \in 1 .. e : i \in 1 .. d /\ i - 1 \in 0 .. e /\ i \in 1 .. Depth
  BY <1>1, <1>12
<1>16. Contiguous'
  <2> SUFFICES ASSUME NEW i \in 1 .. e
               PROVE  frames'[i].base + 3 + frames'[i].nargs = RestOf(i - 1)'
    BY <1>13 DEF Contiguous
  <2>1. frames[i].base + 3 + frames[i].nargs = RestOf(i - 1)
    BY <1>15 DEF Layout, Contiguous
  <2>2. RestOf(i - 1)' = RestOf(i - 1) /\ frames'[i] = frames[i]
    BY <1>13, <1>14, <1>15
  <2>3. QED BY <2>1, <2>2
<1>17. \A c \in Indices : c < top \/ c >= t => stack'[c] = stack[c]
  <2> HIDE DEF t
  <2> TAKE c \in Indices
  <2> HAVE c < top \/ c >= t
  <2>1. c \in Int /\ t \in Int /\ top \in Int
    BY <1>0, <1>6 DEF Indices, TypeInv, TypeOK
  <2>2. ~(top <= c /\ c < t)
    BY <2>1
  <2>3. QED BY <1>10, <2>2
<1>18. ControlWordsKept'
  <2> SUFFICES ASSUME NEW i \in 1 .. e
               PROVE  LET b == frames'[i].base IN
                      /\ stack'[b] = b + 2
                      /\ stack'[b + 1] = BaseOf(i - 1)'
                      /\ stack'[b + 2] = frames'[i].ret
                      /\ stack'[b + 3] = frames'[i].nargs
    BY <1>13 DEF ControlWordsKept
  <2> DEFINE b == frames[i].base
  <2>1. frames'[i] = frames[i] /\ BaseOf(i - 1)' = BaseOf(i - 1)
    BY <1>13, <1>14, <1>15
  <2>2. b \in Nat /\ b > t /\ b + 3 < STACK_SIZE
    <3>1. /\ b \in Nat /\ frames[i].nargs \in Nat
          /\ b + 3 + frames[i].nargs < STACK_SIZE
      BY <1>15, Geometry, FrameType
    <3>2. b > frames[d].base + 3 + frames[d].nargs
      <4>1. i # Depth
        BY <1>1, <1>12
      <4>2. QED BY <4>1, <1>1, <1>15, Geometry
    <3>3. t = frames[d].base + 3 + frames[d].nargs
      BY <1>3, <1>6
    <3> HIDE DEF b, t
    <3>4. QED BY <3>1, <3>2, <3>3
  <2>3. /\ stack[b] = b + 2 /\ stack[b + 1] = BaseOf(i - 1)
        /\ stack[b + 2] = frames[i].ret /\ stack[b + 3] = frames[i].nargs
    BY <1>15 DEF Layout, ControlWordsKept
  <2>4. /\ stack'[b] = stack[b] /\ stack'[b + 1] = stack[b + 1]
        /\ stack'[b + 2] = stack[b + 2] /\ stack'[b + 3] = stack[b + 3]
    <3> HIDE DEF b, t
    <3>1. /\ b \in Indices /\ b + 1 \in Indices /\ b + 2 \in Indices /\ b + 3 \in Indices
          /\ b >= t /\ b + 1 >= t /\ b + 2 >= t /\ b + 3 >= t
      BY <1>6, <2>2 DEF Indices
    <3>2. QED BY <1>17, <3>1
  <2>5. QED BY <2>1, <2>3, <2>4
<1>19. RegistersAgree' /\ Balanced'
  <2>1. topsp' = BaseOf(e) /\ enclosing_topsp' = topsp' /\ top' = RestOf(e) /\ e \in 0 .. e
    BY <1>5, <1>6, <1>10, <1>11, <1>12
  <2>2. pending' = 0
    BY <1>0, <1>10 DEF Layout, Prepared
  <2>3. RestOf(e) \in Nat
    BY <1>6, <1>12
  <2>4. QED BY <1>10, <1>13, <1>14, <2>1, <2>2, <2>3 DEF RegistersAgree, Balanced
<1>20. Nested'
  <2>1. \A i \in 0 .. e : program_var_count <= RestOf(i)' /\ RestOf(i)' < STACK_SIZE
    BY <1>1, <1>12, <1>14 DEF Layout, Nested
  <2>2. \A j \in 1 .. e : \A i \in 1 .. j : RestOf(j)' < frames'[i].base
    <3> TAKE j \in 1 .. e
    <3> TAKE i \in 1 .. j
    <3>1. j \in 1 .. Depth /\ i \in 1 .. e /\ j \in 0 .. e
      BY <1>1, <1>12
    <3>2. RestOf(j) < frames[i].base
      BY <3>1 DEF Layout, Nested
    <3>3. QED BY <3>1, <3>2, <1>13, <1>14
  <2>3. QED BY <2>1, <2>2, <1>13 DEF Nested
<1>21. Prepared' /\ EndedWell'
  <2>1. top' >= program_var_count
    <3>1. RestOf(d - 1) >= program_var_count
      BY <1>1, <1>2 DEF Layout, Nested
    <3>2. QED BY <3>1, <1>6, <1>11
  <2>2. pending' = 0
    BY <1>0, <1>10 DEF Layout, Prepared
  <2>3. QED BY <1>10, <2>1, <2>2 DEF Prepared, EndedWell
<1>22. BuiltinsKept'
  <2> SUFFICES ASSUME NEW i \in 0 .. LibVars - 1 PROVE stack'[i] = LIB
    BY DEF BuiltinsKept
  <2>1. i \in Indices /\ i < top
    BY <1>3, <1>4 DEF Indices
  <2> HIDE DEF t
  <2>2. QED BY <2>1, <1>17 DEF Layout, BuiltinsKept
<1>23. QED BY <1>16, <1>18, <1>19, <1>20, <1>21, <1>22 DEF Layout

(* A store into a cell that is free for the running program. *)
LEMMA StoreLayout ==
  ASSUME TypeInv, Layout, mode \in {"stmt", "ret"}, NEW c \in Nat, NEW v \in Cell,
         c < STACK_SIZE, Free(c), Store(c, v, "stmt")
  PROVE  Layout'
<1> USE StackAssumption
<1>1. TypeInv'
  BY StoreType
<1>2. /\ stack' = [stack EXCEPT ![c] = v] /\ mode' = "stmt"
      /\ UNCHANGED <<top, topsp, enclosing_topsp, pc, retval, pending, frames, wrapped>>
  BY DEF Store
<1>3. \A i \in Indices : stack'[i] # stack[i] => Free(i)
  BY <1>2 DEF TypeInv, TypeOK
<1>4. /\ Contiguous' /\ ControlWordsKept' /\ RegistersAgree'
      /\ Nested' /\ BuiltinsKept'
  BY <1>1, <1>2, <1>3, WriteFree
<1>5. /\ pending = 0 /\ top = RestOf(Depth) - pending - 0 /\ top >= program_var_count
  BY DEF Layout, Prepared, Balanced, Running
<1>6. RestOf(Depth)' = RestOf(Depth)
  BY <1>2 DEF RestOf, Depth
<1>7. Balanced' /\ Prepared' /\ EndedWell'
  BY <1>2, <1>5, <1>6 DEF Balanced, Prepared, EndedWell
<1>8. QED BY <1>4, <1>7 DEF Layout

LEMMA GlobalLayout ==
  ASSUME TypeInv, Layout, mode \in {"stmt", "ret"}, NEW g \in GlobalVars, NEW v \in Cell,
         StoreGlobal(g, v, "stmt")
  PROVE  Layout'
<1> USE StackAssumption
<1>1. g \in Nat /\ g >= LibVars /\ g < program_var_count /\ g < STACK_SIZE
  BY DEF GlobalVars
<1>2. Free(g)
  <2> SUFFICES ASSUME NEW i \in 1 .. Depth PROVE g < frames[i].base
    BY <1>1 DEF Free
  <2>1. RestOf(Depth) < frames[i].base /\ frames[i].base \in Nat
    BY Geometry, FrameType
  <2>2. RestOf(Depth) \in program_var_count .. STACK_SIZE - 1
    BY Geometry
  <2>3. QED BY <1>1, <2>1, <2>2
<1>3. QED BY <1>1, <1>2, StoreLayout DEF StoreGlobal

LEMMA LocalLayout ==
  ASSUME TypeInv, Layout, mode \in {"stmt", "ret"}, NEW o \in LocalVars, NEW v \in Cell,
         StoreLocal(o, v, "stmt")
  PROVE  Layout'
<1> USE StackAssumption
<1>1. PICK d \in Nat : d = Depth
  BY FrameType
<1>2. /\ d \in 1 .. d /\ o \in 0 .. frames[d].locals - 1 /\ frames[d].locals \in Nat
      /\ frames[d].base \in Nat /\ frames[d].nargs \in Nat
  <2>1. frames # << >> /\ o \in 0 .. frames[d].locals - 1
    BY <1>1 DEF LocalVars, Current
  <2>2. d \in 1 .. d
    BY <1>1, <2>1 DEF TypeInv, TypeOK, Depth
  <2>3. QED BY <1>1, <2>1, <2>2, FrameType
<1>3. /\ topsp = frames[d].base /\ topsp < STACK_SIZE
      /\ RestOf(d) = frames[d].base - 1 - frames[d].locals
      /\ RestOf(d) \in program_var_count .. STACK_SIZE - 1
  <2>1. topsp = frames[d].base /\ RestOf(d) = frames[d].base - 1 - frames[d].locals
    BY <1>1, <1>2 DEF Layout, RegistersAgree, BaseOf, RestOf
  <2>2. /\ RestOf(d) \in program_var_count .. STACK_SIZE - 1
        /\ frames[d].base + 3 + frames[d].nargs < STACK_SIZE
    BY <1>1, <1>2, Geometry
  <2>3. QED BY <1>2, <2>1, <2>2
<1>4. /\ topsp - 1 - o \in Nat /\ topsp - 1 - o > RestOf(d) /\ topsp - 1 - o < frames[d].base
      /\ topsp - 1 - o < STACK_SIZE /\ topsp >= o + 1
  BY <1>2, <1>3
<1>5. Free(topsp - 1 - o)
  <2> DEFINE c == topsp - 1 - o
  <2> SUFFICES ASSUME NEW i \in 1 .. Depth PROVE c < frames[i].base
    BY <1>3, <1>4 DEF Free
  <2>1. CASE i = d
    BY <1>4, <2>1
  <2>2. CASE i # d
    <3>1. /\ frames[i].base > frames[d].base + 3 + frames[d].nargs
          /\ frames[i].base \in Nat
      BY <1>1, <2>2, Geometry, FrameType
    <3> HIDE DEF c
    <3>2. c < frames[d].base /\ c \in Nat
      BY <1>4 DEF c
    <3>3. QED BY <1>2, <3>1, <3>2
  <2>3. QED BY <2>1, <2>2
<1>6. Store(topsp - 1 - o, v, "stmt")
  <2>1. ~(topsp < o + 1)
    BY <1>2, <1>3, <1>4
  <2>2. QED BY <2>1 DEF StoreLocal
<1> DEFINE c == topsp - 1 - o
<1>7. c \in Nat /\ c < STACK_SIZE /\ Free(c) /\ Store(c, v, "stmt")
  BY <1>4, <1>5, <1>6
<1> HIDE DEF c
<1>8. QED BY <1>7, StoreLayout

LEMMA FormalLayout ==
  ASSUME TypeInv, Layout, mode = "stmt", NEW k \in Nat, NEW v \in Cell,
         StoreFormal(k, v)
  PROVE  Layout'
<1> USE StackAssumption
<1>1. CASE k >= totalactuals
  BY <1>1, StopLayout DEF StoreFormal
<1>2. CASE ~(k >= totalactuals)
  <2>1. PICK d \in Nat : d = Depth
    BY FrameType
  <2>2. d \in 1 .. d /\ k < frames[d].nargs
    <3>1. d # 0
      BY <1>2, <2>1, TotalActuals
    <3>2. frames[d].nargs \in Nat /\ totalactuals = frames[d].nargs
      BY <2>1, <3>1, TotalActuals, FrameType
    <3>3. QED BY <1>2, <3>1, <3>2
  <2>3. /\ frames[d].base \in Nat /\ frames[d].nargs \in Nat
        /\ frames[d].base + 3 + frames[d].nargs < STACK_SIZE
        /\ topsp = frames[d].base
    BY <2>1, <2>2, Geometry, FrameType DEF Layout, RegistersAgree, BaseOf
  <2> DEFINE c == topsp + 4 + k
  <2>4. /\ c \in Nat /\ c < STACK_SIZE /\ c > frames[d].base + 3
        /\ c <= frames[d].base + 3 + frames[d].nargs /\ c >= LibVars
    <3>1. RestOf(d) < frames[d].base /\ RestOf(d) \in program_var_count .. STACK_SIZE - 1
      BY <2>1, <2>2, Geometry
    <3>2. QED BY <2>2, <2>3, <3>1
  <2>5. Store(c, v, "stmt")
    BY <1>2 DEF StoreFormal
  <2> HIDE DEF c
  <2>6. Free(c)
    <3> SUFFICES ASSUME NEW i \in 1 .. Depth
                 PROVE  c < frames[i].base \/ c > frames[i].base + 3
      BY <2>4 DEF Free
    <3>1. CASE i = d
      BY <2>4, <3>1
    <3>2. CASE i # d
      <4>1. /\ frames[i].base > frames[d].base + 3 + frames[d].nargs
            /\ frames[i].base \in Nat
        BY <2>1, <3>2, Geometry, FrameType
      <4>2. QED BY <2>3, <2>4, <4>1
    <3>3. QED BY <3>1, <3>2
  <2>7. QED BY <2>4, <2>5, <2>6, StoreLayout
<1>3. QED BY <1>1, <1>2

-----------------------------------------------------------------------------
LEMMA InitLayout == Init => LayoutInv
<1> SUFFICES ASSUME Init PROVE Layout
  BY DEF LayoutInv
<1> USE StackAssumption
<1>1. Depth = 0 /\ RestOf(0) = STACK_SIZE - 1 /\ BaseOf(0) = 0
  BY DEF Init, Depth, RestOf, BaseOf
<1>2. Contiguous /\ ControlWordsKept /\ RegistersAgree
  BY <1>1 DEF Init, Contiguous, ControlWordsKept, RegistersAgree
<1>3. Balanced /\ Prepared /\ EndedWell
  BY <1>1 DEF Init, Balanced, Prepared, EndedWell
<1>4. Nested
  BY <1>1 DEF Nested
<1>5. BuiltinsKept
  BY DEF Init, BuiltinsKept, Indices
<1>6. QED BY <1>2, <1>3, <1>4, <1>5 DEF Layout

LEMMA NextLayout == TypeInv /\ LayoutInv /\ [Next]_vars => LayoutInv'
<1> SUFFICES ASSUME TypeInv, LayoutInv, [Next]_vars, ~wrapped'
             PROVE  Layout'
  BY DEF LayoutInv
<1> USE StackAssumption
<1>0. Values \subseteq Cell /\ Other \subseteq Cell /\ retval \in Cell /\ pending \in Nat
  BY DEF Cell, TypeInv, TypeOK
<1>a. wrapped \in BOOLEAN /\ wrapped' \in BOOLEAN
  BY NextType DEF TypeInv, TypeOK
<1>b. Layout /\ ~wrapped
  <2>1. wrapped => wrapped'
    BY <1>a DEF Next, vars, PushArg, PushCount, Push, CallUser, CallFunctor, EnterUserFunc,
         CallFails, CallLib, CallPrint, CallTotalArguments, CallArgument, FinishLib,
         FuncEnter, FuncExit, LeaveFunc, AssignGlobal, AssignLocal, AssignFormal, GetRetGlobal,
         GetRetLocal, StoreGlobal, StoreLocal, StoreFormal, Store, SetRet, Jump, Halt, Stop
  <2>2. QED BY <2>1, <1>a DEF LayoutInv
<1>1. ASSUME NEW v \in Values, PushArg(v) PROVE Layout'
  BY <1>0, <1>1, <1>b, PushLayout DEF PushArg
<1>2. CASE PushCount
  <2>1. pending \in Cell
    BY <1>0 DEF Cell
  <2>2. QED BY <1>0, <1>2, <1>b, <2>1, PushLayout DEF PushCount
<1>3. ASSUME NEW a \in Sites, CallUser(a) PROVE Layout'
  BY <1>3, <1>b, CallUserLayout
<1>4. ASSUME NEW a \in Sites, NEW f \in Values \ Nat, CallFunctor(a, f) PROVE Layout'
  BY <1>0, <1>4, <1>b, CallFunctorLayout
<1>5. CASE CallFails
  BY <1>5, <1>b, StopLayout DEF CallFails
<1>6. CASE \/ \E need \in 0 .. 1, v \in Values : CallLib(need, v)
           \/ CallPrint \/ CallTotalArguments \/ CallArgument
  BY <1>6, <1>b, LibLayout
<1>7. ASSUME NEW n \in 0 .. MaxLocals, FuncEnter(n) PROVE Layout'
  BY <1>7, <1>b, FuncEnterLayout
<1>8. CASE FuncExit
  BY <1>8, <1>b, FuncExitLayout
<1>9. ASSUME NEW g \in GlobalVars, NEW v \in Values, AssignGlobal(g, v) PROVE Layout'
  BY <1>0, <1>9, <1>b, GlobalLayout DEF AssignGlobal
<1>10. ASSUME NEW o \in LocalVars, NEW v \in Values, AssignLocal(o, v) PROVE Layout'
  BY <1>0, <1>10, <1>b, LocalLayout DEF AssignLocal
<1>11. ASSUME NEW k \in 0 .. MaxArgs, NEW v \in Values, AssignFormal(k, v) PROVE Layout'
  BY <1>0, <1>11, <1>b, FormalLayout DEF AssignFormal
<1>12. ASSUME NEW g \in GlobalVars, GetRetGlobal(g) PROVE Layout'
  BY <1>0, <1>12, <1>b, GlobalLayout DEF GetRetGlobal
<1>13. ASSUME NEW o \in LocalVars, GetRetLocal(o) PROVE Layout'
  BY <1>0, <1>13, <1>b, LocalLayout DEF GetRetLocal
<1>14. ASSUME UNCHANGED <<stack, top, topsp, enclosing_topsp, mode, pending, frames>>
       PROVE  Layout'
  <2>1. TypeInv'
    BY NextType
  <2>2. /\ Contiguous' /\ ControlWordsKept' /\ RegistersAgree'
        /\ Nested' /\ BuiltinsKept'
    BY <1>14, <1>b, <2>1, WriteFree
  <2>3. RestOf(Depth)' = RestOf(Depth) /\ Depth' = Depth /\ Current' = Current
    BY <1>14 DEF RestOf, Depth, Current
  <2>4. Balanced' /\ Prepared' /\ EndedWell'
    BY <1>14, <1>b, <2>3 DEF Layout, Balanced, Prepared, EndedWell
  <2>5. QED BY <2>2, <2>4 DEF Layout
<1>15. ASSUME NEW v \in Values, SetRet(v) PROVE Layout'
  BY <1>14, <1>15 DEF SetRet
<1>16. ASSUME NEW a \in Sites, Jump(a) PROVE Layout'
  BY <1>14, <1>16 DEF Jump
<1>17. CASE Halt
  BY <1>17, <1>b, StopLayout DEF Halt
<1>18. CASE UNCHANGED vars
  BY <1>14, <1>18 DEF vars
<1>19. QED
  BY <1>1, <1>2, <1>3, <1>4, <1>5, <1>6, <1>7, <1>8, <1>9, <1>10, <1>11, <1>12,
     <1>13, <1>15, <1>16, <1>17, <1>18 DEF Next

LEMMA LayoutCorrect == Spec => [](TypeInv /\ LayoutInv)
<1>1. Init => TypeInv /\ LayoutInv
  BY InitType, InitLayout
<1>2. (TypeInv /\ LayoutInv) /\ [Next]_vars => (TypeInv /\ LayoutInv)'
  BY NextType, NextLayout
<1>3. QED BY <1>1, <1>2, PTL DEF Spec

(* Until the stack is exhausted the activation records are contiguous, their *)
(* control words intact, the registers agree and every call and return of    *)
(* vm.c leaves top where it was.                                             *)
THEOREM FramesAreIntact == Spec => []FramesIntact
<1>1. TypeInv /\ LayoutInv => FramesIntact
  BY DEF LayoutInv, Layout, FramesIntact
<1>2. QED BY <1>1, LayoutCorrect, PTL

(* Until the stack is exhausted FUNCEXIT never finds a corrupted frame and   *)
(* nothing is written outside the array.                                     *)
THEOREM NothingIsCorrupted == Spec => []NoCorruption
<1>1. TypeInv /\ LayoutInv => NoCorruption
  BY DEF LayoutInv, Layout, EndedWell, NoCorruption
<1>2. QED BY <1>1, LayoutCorrect, PTL

(* Until the stack is exhausted activation records never reach the globals.  *)
THEOREM GlobalsAreBelow == Spec => []GlobalsBelow
<1>1. TypeInv /\ LayoutInv => GlobalsBelow
  BY DEF LayoutInv, Layout, Nested, Prepared, GlobalsBelow
<1>2. QED BY <1>1, LayoutCorrect, PTL

(* Until the stack is exhausted the array is read out of bounds only by a    *)
(* library function the main program calls without the actual it wants.      *)
THEOREM WildReadsNeedNoActuals == Spec => []WildReadOnlyWithoutActuals
<1>1. TypeInv /\ LayoutInv => WildReadOnlyWithoutActuals
  BY DEF LayoutInv, Layout, EndedWell, WildReadOnlyWithoutActuals
<1>2. QED BY <1>1, LayoutCorrect, PTL
-----------------------------------------------------------------------------
(* AvmStack implements CallStack. *)

(* The mapped variables while nothing has been lost. *)
Globals == [g \in GlobalVars |-> stack[g]]
Acts == [i \in 1 .. Depth |-> ActivationOf(i)]

(* What each step of CallStack asks of the mapped variables. *)

LEMMA MapsToCall ==
  ASSUME ~wrapped, ~wrapped', mode = "call", mode' = "enter",
         NEW self \in {<< >>} \cup {<<f>> : f \in Other},
         Acts' = Append(Acts, [ret |-> pc, args |-> self \o PendingActuals,
                               locals |-> << >>]),
         PendingActuals' = << >>, Globals' = Globals, pc' \in Sites, retval' = retval
  PROVE  Abstract!Next
<1>1. Abstract!Call
  BY DEF Abstract!Call, Acts, Globals, Stopped
<1>2. QED BY <1>1 DEF Abstract!Next

LEMMA MapsToReturn ==
  ASSUME ~wrapped, ~wrapped', mode = "stmt", mode' = "ret", answered' = "none",
         Acts # << >>,
         Acts' = SubSeq(Acts, 1, Len(Acts) - 1), pc' = Acts[Len(Acts)].ret,
         PendingActuals' = PendingActuals, Globals' = Globals, retval' = retval
  PROVE  Abstract!Next
<1>1. Abstract!Return
  BY DEF Abstract!Return, Acts, Globals, Stopped, Abstract!Caller, Abstract!Depth
<1>2. QED BY <1>1 DEF Abstract!Next

LEMMA MapsToEnter ==
  ASSUME ~wrapped, ~wrapped', mode = "enter", mode' = "stmt",
         NEW n \in 0 .. MaxLocals,
         Acts' = [Acts EXCEPT ![Len(Acts)].locals = [o \in 1 .. n |-> UNDEF]],
         PendingActuals' = PendingActuals, Globals' = Globals,
         pc' = pc, retval' = retval
  PROVE  Abstract!Next
<1>1. Abstract!Enter
  BY DEF Abstract!Enter, Acts, Globals, Stopped, Abstract!Caller, Abstract!Depth
<1>2. QED BY <1>1 DEF Abstract!Next

LEMMA MapsToPushArg ==
  ASSUME ~wrapped, ~wrapped', mode \in {"stmt", "args"}, mode' = "args",
         NEW v \in Values, PendingActuals' = <<v>> \o PendingActuals,
         Acts' = Acts, Globals' = Globals, pc' = pc, retval' = retval
  PROVE  Abstract!Next
<1>1. Abstract!PushArg
  BY DEF Abstract!PushArg, Acts, Globals, Stopped
<1>2. QED BY <1>1 DEF Abstract!Next

(* The count of the actuals is not seen, but that the call is complete is.  *)
LEMMA MapsToNoArgs ==
  ASSUME ~wrapped, ~wrapped', mode \in {"stmt", "args"}, mode' = "call",
         PendingActuals' = PendingActuals,
         Acts' = Acts, Globals' = Globals, pc' = pc, retval' = retval
  PROVE  [Abstract!Next]_Abstract!vars
<1>1. CASE mode = "stmt"
  <2>1. Abstract!NoArgs
    BY <1>1 DEF Abstract!NoArgs, Acts, Globals, Stopped
  <2>2. QED BY <2>1 DEF Abstract!Next
<1>2. CASE mode = "args"
  BY <1>2 DEF Abstract!vars, Acts, Globals, Stopped
<1>3. QED BY <1>1, <1>2

LEMMA MapsToLibCall ==
  ASSUME ~wrapped, ~wrapped', mode = "call", mode' = "ret", PendingActuals' = << >>,
         Acts' = Acts, Globals' = Globals, pc' = pc,
         \/ answered' = "other" /\ retval' \in Values \cup {NIL}
         \/ /\ answered' = "totalarguments"
            /\ retval' = IF Acts = << >> THEN NIL ELSE Len(Acts[Len(Acts)].args)
         \/ answered' = "argument" /\ \E i \in Abstract!Asked : retval' = Abstract!Argument(i)
  PROVE  Abstract!Next
<1>1. Abstract!LibCall
  BY DEF Abstract!LibCall, Abstract!LibAnswers, Acts, Globals, Stopped,
         Abstract!Caller, Abstract!Depth
<1>2. QED BY <1>1 DEF Abstract!Next

LEMMA MapsToAssignGlobal ==
  ASSUME ~wrapped, ~wrapped', mode \in {"stmt", "ret"}, mode' = "stmt",
         NEW v, mode = "stmt" => v \in Values, mode = "ret" => v = retval,
         NEW g \in GlobalVars, Globals' = [Globals EXCEPT ![g] = v], Acts' = Acts,
         PendingActuals' = PendingActuals, pc' = pc, retval' = retval
  PROVE  Abstract!Next
<1>1. Abstract!Assign(v)
  BY DEF Abstract!Assign, Acts, Globals, Stopped
<1>2. mode = "stmt" => Abstract!Compute
  BY <1>1 DEF Abstract!Compute, Stopped
<1>3. mode = "ret" => Abstract!TakeResult
  BY DEF Abstract!TakeResult, Abstract!Assign, Acts, Globals, Stopped
<1>4. QED BY <1>2, <1>3 DEF Abstract!Next

LEMMA MapsToAssignLocal ==
  ASSUME ~wrapped, ~wrapped', mode \in {"stmt", "ret"}, mode' = "stmt",
         NEW v, mode = "stmt" => v \in Values, mode = "ret" => v = retval,
         Acts # << >>, NEW o \in DOMAIN Acts[Len(Acts)].locals,
         Acts' = [Acts EXCEPT ![Len(Acts)].locals[o] = v], Globals' = Globals,
         PendingActuals' = PendingActuals, pc' = pc, retval' = retval
  PROVE  Abstract!Next
<1>1. Abstract!Assign(v)
  BY DEF Abstract!Assign, Acts, Globals, Stopped, Abstract!Caller, Abstract!Depth
<1>2. mode = "stmt" => Abstract!Compute
  BY <1>1 DEF Abstract!Compute, Stopped
<1>3. mode = "ret" => Abstract!TakeResult
  BY DEF Abstract!TakeResult, Abstract!Assign, Acts, Globals, Stopped,
         Abstract!Caller, Abstract!Depth
<1>4. QED BY <1>2, <1>3 DEF Abstract!Next

LEMMA MapsToAssignFormal ==
  ASSUME ~wrapped, ~wrapped', mode = "stmt", mode' = "stmt", NEW v \in Values,
         Acts # << >>, NEW k \in DOMAIN Acts[Len(Acts)].args,
         Acts' = [Acts EXCEPT ![Len(Acts)].args[k] = v], Globals' = Globals,
         PendingActuals' = PendingActuals, pc' = pc, retval' = retval
  PROVE  Abstract!Next
<1>1. Abstract!Assign(v)
  BY DEF Abstract!Assign, Acts, Globals, Stopped, Abstract!Caller, Abstract!Depth
<1>2. Abstract!Compute
  BY <1>1 DEF Abstract!Compute, Stopped
<1>3. QED BY <1>2 DEF Abstract!Next

(* RET writes the result register, a jump the program counter: no cell.     *)
LEMMA MapsToRegister ==
  ASSUME ~wrapped, ~wrapped', mode = "stmt", mode' = "stmt",
         PendingActuals' = PendingActuals, Acts' = Acts, Globals' = Globals,
         \/ Acts # << >> /\ retval' \in Values /\ pc' = pc
         \/ pc' \in Sites /\ retval' = retval
  PROVE  Abstract!Next
<1>1. Abstract!SetRet \/ Abstract!Jump
  BY DEF Abstract!SetRet, Abstract!Jump, Acts, Globals, Stopped
<1>2. QED BY <1>1 DEF Abstract!Next

LEMMA MapsToStop ==
  ASSUME ~wrapped, ~wrapped', mode \in Running, mode' \in Stopped,
         Acts' = Acts, Globals' = Globals, pc' = pc, retval' = retval
  PROVE  Abstract!Next
<1>1. Abstract!Stop
  BY DEF Abstract!Stop, Acts, Globals, Running, Stopped
<1>2. QED BY <1>1 DEF Abstract!Next

(* Once ensure_expr_stack has reset top nothing is promised any more.       *)
LEMMA MapsToLose ==
  ASSUME wrapped'
  PROVE  Abstract!Next
<1>1. Abstract!Lose
  BY DEF Abstract!Lose
<1>2. QED BY <1>1 DEF Abstract!Next

-----------------------------------------------------------------------------
(* Sequences given cell by cell. *)

LEMMA AppendByIndex ==
  ASSUME NEW S, NEW s \in Seq(S), NEW r \in Seq(S), Len(r) = Len(s) + 1,
         \A i \in 1 .. Len(s) : r[i] = s[i]
  PROVE  r = Append(s, r[Len(s) + 1])
<1> DEFINE n == Len(s)
           x == r[n + 1]
           a == Append(s, x)
<1>1. n \in Nat /\ n + 1 \in 1 .. Len(r) /\ x \in S
  OBVIOUS
<1>2. a \in Seq(S) /\ Len(a) = n + 1 /\ a[n + 1] = x /\ \A i \in 1 .. n : a[i] = s[i]
  <2> HIDE DEF x
  <2>1. QED BY <1>1, AppendProperties
<1>3. \A i \in 1 .. n + 1 : i \in 1 .. n \/ i = n + 1
  BY <1>1
<1>4. \A i \in 1 .. Len(r) : r[i] = a[i]
  <2> HIDE DEF a
  <2>1. QED BY <1>2, <1>3
<1>5. QED
  <2> HIDE DEF a
  <2>1. r = a
    BY <1>2, <1>4, SeqEqual
  <2>2. QED BY <2>1 DEF a

LEMMA ConsByIndex ==
  ASSUME NEW S, NEW s \in Seq(S), NEW r \in Seq(S), Len(r) = Len(s) + 1,
         \A i \in 1 .. Len(s) : r[i + 1] = s[i]
  PROVE  r = <<r[1]>> \o s
<1> DEFINE n == Len(s)
           h == <<r[1]>>
<1>1. n \in Nat /\ h \in Seq(S) /\ Len(h) = 1 /\ h[1] = r[1]
  OBVIOUS
<1> HIDE DEF h
<1>2. /\ h \o s \in Seq(S) /\ Len(h \o s) = Len(h) + n
      /\ \A i \in 1 .. Len(h) + n :
            (h \o s)[i] = IF i <= Len(h) THEN h[i] ELSE s[i - Len(h)]
  BY <1>1, ConcatProperties
<1>3. \A i \in 1 .. Len(r) : r[i] = (h \o s)[i]
  <2> TAKE i \in 1 .. Len(r)
  <2>0. Len(r) = n + 1
    OBVIOUS
  <2> HIDE DEF n
  <2>1. CASE i = 1
    BY <2>0, <2>1, <1>1, <1>2
  <2>2. CASE i # 1
    <3>1. i - 1 \in 1 .. n /\ i - 1 + 1 = i /\ ~(i <= 1)
      BY <2>0, <2>2, <1>1
    <3>2. r[i - 1 + 1] = s[i - 1]
      BY <3>1 DEF n
    <3>3. (h \o s)[i] = s[i - 1]
      <4>1. i \in 1 .. Len(h) + n
        BY <2>0, <1>1
      <4>2. (h \o s)[i] = IF i <= Len(h) THEN h[i] ELSE s[i - Len(h)]
        BY <1>2, <4>1
      <4>3. QED BY <3>1, <1>1, <4>2
    <3>4. QED BY <3>1, <3>2, <3>3
  <2>3. QED BY <2>1, <2>2
<1>4. r = h \o s
  BY <1>1, <1>2, <1>3, SeqEqual
<1>5. QED BY <1>4 DEF h

LEMMA FrontByIndex ==
  ASSUME NEW S, NEW s \in Seq(S), NEW r \in Seq(S), Len(s) = Len(r) + 1,
         \A i \in 1 .. Len(r) : r[i] = s[i]
  PROVE  r = SubSeq(s, 1, Len(s) - 1)
<1> DEFINE n == Len(r)
           q == SubSeq(s, 1, n)
<1>1. n \in Nat /\ \A i \in 1 .. n : s[i] \in S
  OBVIOUS
<1> HIDE DEF n
<1>2. q \in Seq(S) /\ Len(q) = n /\ \A i \in 1 .. n : q[i] = s[i]
  <2>1. /\ q \in Seq(S)
        /\ Len(q) = IF 1 <= n THEN n - 1 + 1 ELSE 0
        /\ \A i \in 1 .. n - 1 + 1 : q[i] = s[1 + i - 1]
    BY <1>1, SubSeqProperties
  <2>2. n - 1 + 1 = n /\ \A i \in 1 .. n : 1 + i - 1 = i
    BY <1>1
  <2>3. QED BY <1>1, <2>1, <2>2
<1>3. r = q
  <2> HIDE DEF q
  <2>1. QED BY <1>2, SeqEqual DEF n
<1>4. Len(s) - 1 = n
  BY <1>1 DEF n
<1>5. QED BY <1>3, <1>4

-----------------------------------------------------------------------------
(* The mapped variables are read from disjoint cells. *)

LEMMA RestsAscend ==
  ASSUME TypeInv, Layout, NEW j \in 0 .. Depth, NEW i \in 0 .. j
  PROVE  RestOf(j) <= RestOf(i)
<1>1. /\ Depth \in Nat /\ i \in 0 .. Depth
      /\ RestOf(i) \in Int /\ RestOf(j) \in Int
  BY FrameType
<1>2. CASE i = j
  BY <1>1, <1>2
<1>3. CASE i # j
  <2>1. i + 1 \in 1 .. j /\ j \in 1 .. Depth /\ i + 1 \in 1 .. Depth /\ i + 1 - 1 = i
    BY <1>1, <1>3
  <2>2. RestOf(j) < frames[i + 1].base
    BY <2>1 DEF Layout, Nested
  <2>3. frames[i + 1].base + 3 + frames[i + 1].nargs = RestOf(i)
    BY <2>1 DEF Layout, Contiguous
  <2>4. frames[i + 1].base \in Nat /\ frames[i + 1].nargs \in Nat
    BY <2>1, FrameType
  <2>5. QED BY <1>1, <2>2, <2>3, <2>4
<1>4. QED BY <1>2, <1>3

(* The cells of activation i: its locals, control words and actuals.        *)
Mine(i) == {c \in Indices : RestOf(i) < c /\ c <= frames[i].base + 3 + frames[i].nargs}

LEMMA MineHolds ==
  ASSUME TypeInv, Layout, NEW i \in 1 .. Depth
  PROVE  /\ \A k \in 1 .. frames[i].nargs : frames[i].base + 3 + k \in Mine(i)
         /\ \A o \in 1 .. frames[i].locals : frames[i].base - o \in Mine(i)
<1> DEFINE b == frames[i].base
           n == frames[i].nargs
           l == frames[i].locals
           q == RestOf(i)
<1>1. /\ b \in Nat /\ n \in Nat /\ l \in Nat
      /\ q = b - 1 - l
  BY FrameType DEF RestOf
<1>2. b + 3 + n < STACK_SIZE
  BY Geometry
<1>3. q >= 0
  <2>1. i \in 0 .. Depth /\ RestOf(i) >= program_var_count
    BY DEF Layout, Nested
  <2>2. QED BY <2>1, <1>1, StackAssumption
<1> HIDE DEF b, n, l, q
<1>4. STACK_SIZE \in Nat
  BY StackAssumption
<1>5. \A k \in 1 .. n : b + 3 + k \in 0 .. STACK_SIZE - 1 /\ q < b + 3 + k /\ b + 3 + k <= b + 3 + n
  BY <1>1, <1>2, <1>4
<1>6. \A o \in 1 .. l : b - o \in 0 .. STACK_SIZE - 1 /\ q < b - o /\ b - o <= b + 3 + n
  BY <1>1, <1>2, <1>3, <1>4
<1>7. Mine(i) = {c \in 0 .. STACK_SIZE - 1 : q < c /\ c <= b + 3 + n}
  BY DEF Mine, Indices, b, n, q
<1>8. QED BY <1>5, <1>6, <1>7 DEF b, n, l

(* What an activation shows, once its control words are known.              *)
LEMMA ActivationIs ==
  ASSUME TypeInv, Layout, NEW i \in 1 .. Depth
  PROVE  ActivationOf(i) =
           [ ret    |-> frames[i].ret,
             args   |-> [k \in 1 .. frames[i].nargs |-> stack[frames[i].base + 3 + k]],
             locals |-> [o \in 1 .. frames[i].locals |-> stack[frames[i].base - o]] ]
<1>1. stack[frames[i].base + 2] = frames[i].ret /\ stack[frames[i].base + 3] = frames[i].nargs
  BY DEF Layout, ControlWordsKept
<1>2. QED BY <1>1 DEF ActivationOf

(* An activation whose cells no step touches looks the same after it.       *)
LEMMA SameActivation ==
  ASSUME TypeInv, Layout, TypeInv', Layout', NEW i \in 1 .. Depth, i \in 1 .. Depth',
         frames'[i] = frames[i],
         \A c \in Mine(i) : stack'[c] = stack[c]
  PROVE  ActivationOf(i)' = ActivationOf(i)
<1> DEFINE b == frames[i].base
           n == frames[i].nargs
           l == frames[i].locals
           A == [k \in 1 .. n |-> stack[b + 3 + k]]
           L == [o \in 1 .. l |-> stack[b - o]]
<1>1. ActivationOf(i)' =
        [ ret    |-> frames[i].ret,
          args   |-> [k \in 1 .. n |-> stack'[b + 3 + k]],
          locals |-> [o \in 1 .. l |-> stack'[b - o]] ]
  <2>1. stack'[b + 2] = frames[i].ret /\ stack'[b + 3] = frames[i].nargs
    BY DEF Layout, ControlWordsKept
  <2>2. QED BY <2>1 DEF ActivationOf
<1>2. \A k \in 1 .. n : stack'[b + 3 + k] = stack[b + 3 + k]
  BY MineHolds
<1>3. \A o \in 1 .. l : stack'[b - o] = stack[b - o]
  BY MineHolds
<1>4. /\ [k \in 1 .. n |-> stack'[b + 3 + k]] = A
      /\ [o \in 1 .. l |-> stack'[b - o]] = L
  BY <1>2, <1>3
<1>5. QED BY <1>1, <1>4, ActivationIs

(* Records are apart: nothing at or below the rest of activation j belongs  *)
(* to it or to one of its callers.                                          *)
LEMMA MineAbove ==
  ASSUME TypeInv, Layout, NEW j \in 0 .. Depth, NEW i \in 1 .. Depth, i <= j,
         NEW c \in Mine(i)
  PROVE  c > RestOf(j)
<1>1. i \in 0 .. j /\ RestOf(j) <= RestOf(i)
  <2>1. i \in 0 .. j
    BY FrameType
  <2>2. QED BY <2>1, RestsAscend
<1>2. c \in Int /\ RestOf(i) < c
  BY StackAssumption DEF Mine, Indices
<1>3. RestOf(i) \in Int /\ RestOf(j) \in Int
  BY FrameType
<1>4. QED BY <1>1, <1>2, <1>3

(* A step that leaves every record where it is and writes only at or below  *)
(* the rest of the running function leaves the activations as they are.     *)
LEMMA SameActs ==
  ASSUME TypeInv, Layout, TypeInv', Layout', frames' = frames,
         \A c \in Indices : c > RestOf(Depth) => stack'[c] = stack[c]
  PROVE  Acts' = Acts
<1>1. Depth' = Depth /\ Depth \in Nat /\ Depth \in 0 .. Depth
  BY FrameType DEF Depth
<1>2. ASSUME NEW i \in 1 .. Depth PROVE ActivationOf(i)' = ActivationOf(i)
  <2>1. i <= Depth /\ i \in 1 .. Depth' /\ frames'[i] = frames[i]
    BY <1>1
  <2>2. ASSUME NEW c \in Mine(i) PROVE stack'[c] = stack[c]
    <3>1. c > RestOf(Depth)
      BY <1>1, <2>1, MineAbove
    <3>2. QED BY <3>1 DEF Mine
  <2>3. QED BY <2>1, <2>2, SameActivation
<1>3. QED BY <1>1, <1>2 DEF Acts

LEMMA SameGlobals ==
  ASSUME \A c \in GlobalVars : stack'[c] = stack[c]
  PROVE  Globals' = Globals
  BY DEF Globals

-----------------------------------------------------------------------------
(* One lemma per operation: what it does to the mapped variables, and that  *)
(* every actual stays a value of the program.                               *)

(* Before the stack is exhausted the layout is known. *)
Good == ~wrapped /\ TypeInv /\ Layout

(* Likewise for the actuals of the live activations. *)
ActualsHeld ==
  \A i \in 1 .. Depth : \A k \in 1 .. frames[i].nargs :
    stack[frames[i].base + 3 + k] \in Values

PendingHeld ==
  mode \in Running => \A k \in 1 .. pending : stack[PendingCell(k)] \in Values

LEMMA SameActuals ==
  ASSUME Good, ActualsHeld, frames' = frames,
         \A c \in Indices : c > RestOf(Depth) => stack'[c] = stack[c] \/ stack'[c] \in Values
  PROVE  ActualsHeld'
<1>1. Depth' = Depth /\ Depth \in Nat /\ Depth \in 0 .. Depth
  BY FrameType DEF Depth, Good
<1>2. ASSUME NEW i \in 1 .. Depth, NEW k \in 1 .. frames[i].nargs
      PROVE  stack'[frames[i].base + 3 + k] \in Values
  <2> DEFINE c == frames[i].base + 3 + k
  <2>1. c \in Mine(i)
    BY MineHolds DEF Good
  <2> HIDE DEF c
  <2>2. i <= Depth
    BY <1>1
  <2>3. c > RestOf(Depth) /\ c \in Indices
    BY <1>1, <2>1, <2>2, MineAbove DEF Good, Mine
  <2>4. stack[c] \in Values
    BY DEF ActualsHeld, c
  <2>5. QED BY <2>3, <2>4 DEF c
<1>3. QED BY <1>1, <1>2 DEF ActualsHeld

(* The pending actuals are a sequence of cell contents. *)
LEMMA PendingIsSeq ==
  Good /\ mode \in Running =>
    PendingActuals \in Seq(Cell) /\ Len(PendingActuals) = pending
<1> SUFFICES ASSUME Good, mode \in Running
             PROVE  PendingActuals \in Seq(Cell) /\ Len(PendingActuals) = pending
  OBVIOUS
<1> USE DEF Good
<1>1. /\ pending \in Nat /\ top \in Nat /\ RestOf(Depth) < STACK_SIZE
      /\ top = RestOf(Depth) - pending - (IF mode = "call" THEN 1 ELSE 0)
      /\ RestOf(Depth) \in Int
  BY Geometry, FrameType, StackAssumption DEF TypeInv, TypeOK, Layout, Balanced
<1>2. \A k \in 1 .. pending : PendingCell(k) \in Indices
  BY <1>1, StackAssumption DEF PendingCell, Indices
<1>3. \A k \in 1 .. pending : stack[PendingCell(k)] \in Cell
  BY <1>2 DEF TypeInv, TypeOK
<1>4. QED BY <1>1, <1>3 DEF PendingActuals

LEMMA PendingIsSeqAfter ==
  (Good /\ mode \in Running =>
     PendingActuals \in Seq(Cell) /\ Len(PendingActuals) = pending)'
  BY PendingIsSeq, PTL

(* PUSHARG before the stack is exhausted writes the cell top points to.     *)
LEMMA PushWrites ==
  ASSUME Good, ~wrapped', mode \in {"stmt", "args"},
         NEW v \in Cell, NEW n \in Nat, NEW next \in {"args", "call"}, Push(v, next, n)
  PROVE  /\ top \in Indices /\ top <= RestOf(Depth) /\ top >= program_var_count
         /\ stack'[top] = v /\ \A c \in Indices : c # top => stack'[c] = stack[c]
         /\ top' = top - 1 /\ pending' = n /\ mode' = next
         /\ UNCHANGED <<pc, retval, frames>>
<1> USE StackAssumption
<1>1. top = RestOf(Depth) - pending /\ top \in Nat /\ pending \in Nat
  BY FrameType DEF Good, Layout, Balanced, Running, TypeInv, TypeOK
<1>2. top <= RestOf(Depth) /\ top < STACK_SIZE
  BY <1>1, Geometry, FrameType DEF Good
<1>3. /\ Ensured(top) \in Nat
      /\ Ensured(top) > program_var_count /\ Ensured(top) < STACK_SIZE
  BY <1>1, <1>2 DEF Ensured, BelowMargin
<1>4. /\ stack' = [stack EXCEPT ![Ensured(top)] = v]
      /\ top' = Ensured(top) - 1 /\ wrapped' = (wrapped \/ BelowMargin(top))
      /\ pending' = n /\ mode' = next /\ UNCHANGED <<pc, retval, frames>>
  BY <1>3 DEF Push, OutOfStack
<1>5. Ensured(top) = top /\ top >= program_var_count
  <2>1. ~BelowMargin(top)
    BY <1>4
  <2>2. QED BY <1>1, <2>1 DEF BelowMargin, Ensured
<1>6. top \in Indices /\ stack \in [Indices -> Cell]
  BY <1>1, <1>2 DEF Indices, Good, TypeInv, TypeOK
<1>7. stack' = [stack EXCEPT ![top] = v] /\ top' = top - 1
  BY <1>4, <1>5
<1>8. QED BY <1>2, <1>4, <1>5, <1>6, <1>7

(* What is pending lies between top and the running activation.  *)
LEMMA TopIs ==
  ASSUME Good, mode \in Running
  PROVE  /\ top \in Nat /\ pending \in Nat /\ top + pending < STACK_SIZE
         /\ top = RestOf(Depth) - pending - (IF mode = "call" THEN 1 ELSE 0)
         /\ RestOf(Depth) \in Nat /\ RestOf(Depth) < STACK_SIZE
<1> DEFINE r == RestOf(Depth)
           w == IF mode = "call" THEN 1 ELSE 0
<1>1. top \in Nat /\ pending \in Nat /\ w \in {0, 1}
  BY DEF Good, TypeInv, TypeOK
<1>2. top = r - pending - w
  BY DEF Good, Layout, Balanced
<1>3. r \in Nat /\ r < STACK_SIZE
  <2>1. r \in program_var_count .. STACK_SIZE - 1
    BY Geometry DEF Good
  <2> HIDE DEF r
  <2>2. QED BY <2>1, StackAssumption
<1> HIDE DEF r, w
<1>4. top + pending < STACK_SIZE
  BY <1>1, <1>2, <1>3, StackAssumption
<1>5. QED BY <1>1, <1>2, <1>3, <1>4 DEF r, w

LEMMA PushKeeps ==
  ASSUME Good, Good', ActualsHeld, mode \in {"stmt", "args"},
         NEW v \in Cell, NEW n \in Nat, NEW next \in {"args", "call"}, Push(v, next, n)
  PROVE  Acts' = Acts /\ Globals' = Globals /\ ActualsHeld'
<1>0. ~wrapped'
  BY DEF Good
<1>1. /\ top \in Indices /\ top <= RestOf(Depth) /\ top >= program_var_count
      /\ \A c \in Indices : c # top => stack'[c] = stack[c]
      /\ frames' = frames
  BY <1>0, PushWrites
<1>2. \A c \in Indices : c > RestOf(Depth) => stack'[c] = stack[c]
  <2>1. RestOf(Depth) \in Int /\ top \in Int
    BY <1>1, StackAssumption, FrameType DEF Good, Indices
  <2>2. \A c \in Indices : c > RestOf(Depth) => c # top
    BY <1>1, <2>1, StackAssumption DEF Indices
  <2>3. QED BY <1>1, <2>2
<1>3. \A c \in GlobalVars : stack'[c] = stack[c]
  BY <1>1, StackAssumption DEF GlobalVars, Indices
<1>4. QED BY <1>1, <1>2, <1>3, SameActs, SameGlobals, SameActuals DEF Good

LEMMA PushArgStep ==
  ASSUME Good, Good', ActualsHeld, PendingHeld, NEW v \in Values, PushArg(v)
  PROVE  Abstract!Next /\ ActualsHeld' /\ PendingHeld'
<1>0. v \in Cell /\ pending + 1 \in Nat /\ pending \in Nat
  BY StackAssumption DEF Cell, Good, TypeInv, TypeOK
<1>1. ~wrapped /\ ~wrapped' /\ mode \in {"stmt", "args"} /\ Push(v, "args", pending + 1)
  BY DEF Good, PushArg
<1>2. /\ top \in Indices
      /\ stack'[top] = v /\ \A c \in Indices : c # top => stack'[c] = stack[c]
      /\ top' = top - 1 /\ pending' = pending + 1 /\ mode' = "args"
      /\ UNCHANGED <<pc, retval>>
  BY <1>0, <1>1, PushWrites
<1>3. Acts' = Acts /\ Globals' = Globals /\ ActualsHeld'
  BY <1>0, <1>1, PushKeeps
<1>4. top \in Nat /\ top + pending < STACK_SIZE
  BY <1>1, TopIs DEF Running
<1>5. \A k \in 1 .. pending : /\ stack'[top' + (k + 1)] = stack[top + k]
                             /\ PendingCell(k) = top + k
  <2> TAKE k \in 1 .. pending
  <2>1. top' + (k + 1) = top + k /\ top + k \in Indices /\ top + k # top
    BY <1>0, <1>2, <1>4, StackAssumption DEF Indices
  <2>2. QED BY <1>1, <1>2, <2>1 DEF PendingCell
<1>6. stack'[top' + 1] = v
  BY <1>2, <1>4
<1> DEFINE r == PendingActuals'
           s == PendingActuals
<1>7. /\ s = [k \in 1 .. pending |-> stack[top + k]]
      /\ r = [k \in 1 .. pending + 1 |-> stack'[top' + k]]
  BY <1>1, <1>2 DEF PendingActuals, PendingCell
<1>8. /\ s \in Seq(Cell) /\ Len(s) = pending /\ r \in Seq(Cell) /\ Len(r) = pending + 1
  <2>1. Good /\ mode \in Running /\ Good' /\ mode' \in Running
    BY <1>1, <1>2 DEF Running
  <2>2. s \in Seq(Cell) /\ Len(s) = pending
    BY <2>1, PendingIsSeq
  <2>3. r \in Seq(Cell) /\ Len(r) = pending'
    BY <2>1, PendingIsSeqAfter
  <2>4. QED BY <1>2, <2>2, <2>3
<1>9. r = <<v>> \o s
  <2> HIDE DEF r, s
  <2>1. /\ 1 \in 1 .. pending + 1
        /\ \A k \in 1 .. pending : k + 1 \in 1 .. pending + 1
    BY <1>0
  <2>2. r[1] = v /\ \A k \in 1 .. Len(s) : r[k + 1] = s[k]
    BY <1>5, <1>6, <1>7, <1>8, <2>1
  <2>3. r = <<r[1]>> \o s
    BY <1>8, <2>2, ConsByIndex
  <2>4. QED BY <2>2, <2>3
<1>10. Abstract!Next
  BY <1>1, <1>2, <1>3, <1>9, MapsToPushArg
<1>11. PendingHeld'
  <2> SUFFICES ASSUME NEW k \in 1 .. pending + 1 PROVE stack'[top' + k] \in Values
    BY <1>2 DEF PendingHeld, PendingCell
  <2>1. CASE k = 1
    BY <2>1, <1>6
  <2>2. CASE k # 1
    <3>1. k - 1 \in 1 .. pending /\ k - 1 + 1 = k
      BY <1>0, <2>2
    <3>2. stack'[top' + k] = stack[PendingCell(k - 1)]
      BY <1>5, <3>1
    <3>3. QED BY <1>1, <3>1, <3>2 DEF PendingHeld, Running
  <2>3. QED BY <2>1, <2>2
<1>12. QED BY <1>3, <1>10, <1>11

LEMMA PushCountStep ==
  ASSUME Good, Good', ActualsHeld, PendingHeld, PushCount
  PROVE  [Abstract!Next]_Abstract!vars /\ ActualsHeld' /\ PendingHeld'
<1>0. pending \in Cell /\ pending \in Nat
  BY DEF Cell, Good, TypeInv, TypeOK
<1>1. ~wrapped /\ ~wrapped' /\ mode \in {"stmt", "args"} /\ Push(pending, "call", pending)
  BY DEF Good, PushCount
<1>2. /\ top \in Indices
      /\ \A c \in Indices : c # top => stack'[c] = stack[c]
      /\ top' = top - 1 /\ pending' = pending /\ mode' = "call"
      /\ UNCHANGED <<pc, retval>>
  BY <1>0, <1>1, PushWrites
<1>3. Acts' = Acts /\ Globals' = Globals /\ ActualsHeld'
  BY <1>0, <1>1, PushKeeps
<1>4. top \in Nat /\ top + pending < STACK_SIZE
  BY <1>1, TopIs DEF Running
<1>5. \A k \in 1 .. pending : stack'[PendingCell(k)'] = stack[PendingCell(k)]
  <2> TAKE k \in 1 .. pending
  <2>1. PendingCell(k)' = top' + 1 + k /\ PendingCell(k) = top + k
    BY <1>1, <1>2 DEF PendingCell
  <2>2. top' + 1 + k = top + k /\ top + k \in Indices /\ top + k # top
    BY <1>0, <1>2, <1>4, StackAssumption DEF Indices
  <2>3. QED BY <1>2, <2>1, <2>2
<1>6. PendingActuals' = PendingActuals
  BY <1>2, <1>5 DEF PendingActuals
<1>7. PendingHeld'
  BY <1>1, <1>2, <1>5 DEF PendingHeld, Running
<1>8. QED BY <1>1, <1>2, <1>3, <1>6, <1>7, MapsToNoArgs

(* The live activations are a sequence of records. *)
Activation == [ret : Nat, args : Seq(Cell), locals : Seq(Cell)]

LEMMA ActsIsSeq ==
  Good => /\ Acts \in Seq(Activation) /\ Len(Acts) = Depth
          /\ \A i \in 1 .. Depth : Acts[i] = ActivationOf(i)
<1> SUFFICES ASSUME Good
             PROVE  /\ Acts \in Seq(Activation) /\ Len(Acts) = Depth
                    /\ \A i \in 1 .. Depth : Acts[i] = ActivationOf(i)
  OBVIOUS
<1> USE DEF Good
<1>1. Depth \in Nat
  BY FrameType
<1>2. ASSUME NEW i \in 1 .. Depth PROVE ActivationOf(i) \in Activation
  <2> DEFINE b == frames[i].base
             n == frames[i].nargs
             l == frames[i].locals
             A == [k \in 1 .. n |-> stack[b + 3 + k]]
             L == [o \in 1 .. l |-> stack[b - o]]
  <2>1. n \in Nat /\ l \in Nat /\ frames[i].ret \in Nat
    BY FrameType
  <2>2. /\ \A k \in 1 .. n : stack[b + 3 + k] \in Cell
        /\ \A o \in 1 .. l : stack[b - o] \in Cell
    BY MineHolds DEF Mine, TypeInv, TypeOK
  <2>3. A \in Seq(Cell) /\ L \in Seq(Cell)
    <3> HIDE DEF b, n, l
    <3>1. QED BY <2>1, <2>2
  <2>4. ActivationOf(i) = [ret |-> frames[i].ret, args |-> A, locals |-> L]
    BY ActivationIs
  <2> HIDE DEF A, L
  <2>5. QED BY <2>1, <2>3, <2>4 DEF Activation
<1>3. QED BY <1>1, <1>2 DEF Acts

LEMMA ActsIsSeqAfter ==
  (Good => /\ Acts \in Seq(Activation) /\ Len(Acts) = Depth
           /\ \A i \in 1 .. Depth : Acts[i] = ActivationOf(i))'
  BY ActsIsSeq, PTL

LEMMA Neighbours == \A x \in Nat : x + 1 # x /\ x + 1 # x - 1 /\ x + 1 # x - 2
OBVIOUS

LEMMA RecordFits ==
  ASSUME NEW t \in Nat, NEW n \in Nat, NEW r \in Int, r < STACK_SIZE,
         t >= program_var_count + 3, t + 1 + n = r
  PROVE  /\ t \in Indices /\ t - 1 \in Indices /\ t - 2 \in Indices
         /\ t < r /\ t - 2 > program_var_count
BY StackAssumption DEF Indices

LEMMA AboveRecord ==
  \A x, y \in Nat : \A e \in Int : e < x => x + 3 + y # e
OBVIOUS

LEMMA SecondWord ==
  \A x, w \in Nat : x + 3 < w => x + 2 \in 0 .. w - 1
OBVIOUS

LEMMA BlankLocals ==
  ASSUME NEW a \in Activation, NEW b
  PROVE  [a EXCEPT !.locals = b] = [ret |-> a.ret, args |-> a.args, locals |-> b]
BY DEF Activation

(* A new activation over a memory whose records are all untouched.          *)
LEMMA EnterStep ==
  ASSUME Good, Good', ActualsHeld, mode = "call",
         NEW m \in [Indices -> Cell], NEW t \in Nat, NEW n \in Nat, NEW a \in Sites,
         t >= program_var_count + 3, t + 1 + n = RestOf(Depth), m[t + 1] = n,
         \A c \in Indices : c > RestOf(Depth) => m[c] = stack[c],
         \A c \in Indices : c < t => m[c] = stack[c],
         \A k \in 1 .. n : m[t + 1 + k] \in Values,
         NEW self \in {<< >>} \cup {<<f>> : f \in Other},
         [k \in 1 .. n |-> m[t + 1 + k]] = self \o PendingActuals,
         EnterUserFunc(m, t, n, a)
  PROVE  Abstract!Next /\ ActualsHeld' /\ PendingHeld'
<1> USE StackAssumption
<1> DEFINE f == [base |-> t - 2, nargs |-> n, locals |-> 0, ret |-> pc]
<1>1. /\ stack' = [m EXCEPT ![t] = pc, ![t - 1] = topsp, ![t - 2] = t]
      /\ frames' = Append(frames, f) /\ pending' = 0 /\ mode' = "enter"
      /\ pc' = a /\ retval' = retval
  BY DEF EnterUserFunc
<1>2. PICK d \in Nat : d = Depth
  BY FrameType DEF Good
<1>3. frames \in Seq(Frame) /\ RestOf(Depth) \in Int /\ RestOf(Depth) < STACK_SIZE
      /\ pc \in Nat
  <2>1. frames \in Seq(Frame) /\ pc \in Nat
    BY DEF Good, TypeInv, TypeOK
  <2>2. RestOf(Depth) \in program_var_count .. STACK_SIZE - 1
    BY Geometry DEF Good
  <2>3. QED BY <2>1, <2>2
<1>4. /\ Depth' = d + 1 /\ frames'[d + 1] = f
      /\ \A i \in 1 .. d : frames'[i] = frames[i]
  BY <1>1, <1>2, <1>3 DEF Depth
<1>5. /\ t \in Indices /\ t - 1 \in Indices /\ t - 2 \in Indices
      /\ t < RestOf(Depth) /\ t - 2 > program_var_count
  BY <1>3, RecordFits
<1>6. \A c \in Indices : c # t /\ c # t - 1 /\ c # t - 2 => stack'[c] = m[c]
  BY <1>1
<1>7a. \A c \in Indices : c > RestOf(Depth) => m[c] = stack[c]
  OBVIOUS
<1>7. \A c \in Indices : c > RestOf(Depth) => stack'[c] = stack[c]
  <2> TAKE c \in Indices
  <2> HAVE c > RestOf(Depth)
  <2> DEFINE q == RestOf(Depth)
  <2>1. q \in Int /\ c \in Int /\ c > q /\ t < q
    BY <1>3, <1>5 DEF Indices
  <2> HIDE DEF q
  <2>2. c # t /\ c # t - 1 /\ c # t - 2
    BY <2>1
  <2>3. m[c] = stack[c]
    BY <1>7a
  <2>4. QED BY <1>6, <2>2, <2>3
<1>8. \A c \in GlobalVars : stack'[c] = stack[c]
  <2> TAKE c \in GlobalVars
  <2>1. c \in Indices /\ c < t - 2
    BY <1>5 DEF GlobalVars, Indices
  <2>2. c # t /\ c # t - 1 /\ c # t - 2 /\ c < t
    BY <2>1 DEF Indices
  <2>3. m[c] = stack[c]
    BY <2>1, <2>2
  <2>4. QED BY <1>6, <2>1, <2>2, <2>3
<1>9. \A k \in 1 .. n : stack'[t + 1 + k] = m[t + 1 + k]
  <2> TAKE k \in 1 .. n
  <2>1. t + 1 + k \in Indices /\ t + 1 + k # t /\ t + 1 + k # t - 1 /\ t + 1 + k # t - 2
    BY <1>3 DEF Indices
  <2>2. QED BY <1>6, <2>1
<1>10. \A i \in 1 .. d : ActivationOf(i)' = ActivationOf(i)
  <2> TAKE i \in 1 .. d
  <2>1. i \in 1 .. Depth /\ i \in 1 .. Depth' /\ i <= Depth /\ Depth \in 0 .. Depth
    BY <1>2, <1>4
  <2>2. ASSUME NEW c \in Mine(i) PROVE stack'[c] = stack[c]
    <3>1. c > RestOf(Depth)
      BY <2>1, MineAbove DEF Good
    <3>2. QED BY <3>1, <1>7 DEF Mine
  <2>3. QED BY <1>4, <2>1, <2>2, SameActivation DEF Good
<1> DEFINE A == self \o PendingActuals
           new == [ret |-> pc, args |-> A, locals |-> << >>]
<1>11. ActivationOf(d + 1)' = new
  <2>1. d + 1 \in 1 .. Depth'
    BY <1>4
  <2>2. ActivationOf(d + 1)' =
          [ ret    |-> stack'[t - 2 + 2],
            args   |-> [k \in 1 .. stack'[t - 2 + 3] |-> stack'[t - 2 + 3 + k]],
            locals |-> [o \in 1 .. 0 |-> stack'[t - 2 - o]] ]
    BY <1>4 DEF ActivationOf
  <2>3. t - 2 + 2 = t /\ t - 2 + 3 = t + 1 /\ t + 1 \in Indices
    BY <1>3 DEF Indices
  <2>4. stack'[t] = pc
    <3>1. t # t - 1 /\ t # t - 2
      OBVIOUS
    <3>2. QED BY <1>1, <1>5, <3>1
  <2>4a. stack'[t + 1] = n
    <3>1. t + 1 # t /\ t + 1 # t - 1 /\ t + 1 # t - 2
      BY Neighbours
    <3>2. QED BY <1>6, <2>3, <3>1
  <2>5. [k \in 1 .. n |-> stack'[t + 1 + k]] = A
    BY <1>9
  <2>6. [o \in 1 .. 0 |-> stack'[t - 2 - o]] = << >>
    OBVIOUS
  <2>6a. ActivationOf(d + 1)' =
           [ ret    |-> pc,
             args   |-> [k \in 1 .. n |-> stack'[t + 1 + k]],
             locals |-> << >> ]
    <3>1. \A k \in 1 .. n : t - 2 + 3 + k = t + 1 + k
      OBVIOUS
    <3>2. [k \in 1 .. stack'[t - 2 + 3] |-> stack'[t - 2 + 3 + k]]
            = [k \in 1 .. n |-> stack'[t + 1 + k]]
      BY <2>3, <2>4a, <3>1
    <3>3. stack'[t - 2 + 2] = pc
      BY <2>3, <2>4
    <3>4. QED BY <2>2, <2>6, <3>2, <3>3
  <2> HIDE DEF A
  <2>7. QED BY <2>5, <2>6a
<1>12. Acts' = Append(Acts, new)
  <2>1. Acts \in Seq(Activation) /\ Len(Acts) = d /\ \A i \in 1 .. d : Acts[i] = ActivationOf(i)
    BY <1>2, ActsIsSeq
  <2>2. /\ Acts' \in Seq(Activation) /\ Len(Acts') = d + 1
        /\ \A i \in 1 .. d + 1 : Acts'[i] = ActivationOf(i)'
    BY <1>4, ActsIsSeqAfter
  <2>3. \A i \in 1 .. d : i \in 1 .. d + 1
    OBVIOUS
  <2>4. \A i \in 1 .. d : Acts'[i] = Acts[i]
    BY <1>10, <2>1, <2>2, <2>3
  <2>5. Acts'[d + 1] = new
    BY <1>11, <2>2
  <2> HIDE DEF new
  <2>6. Acts' = Append(Acts, Acts'[d + 1])
    BY <2>1, <2>2, <2>4, AppendByIndex
  <2>7. QED BY <2>5, <2>6
<1>13. PendingActuals' = << >>
  BY <1>1 DEF PendingActuals
<1>14. Abstract!Next
  <2>1. ~wrapped /\ ~wrapped'
    BY DEF Good
  <2>2. QED BY <1>1, <1>8, <1>12, <1>13, <2>1, SameGlobals, MapsToCall
<1>15. ActualsHeld'
  <2> SUFFICES ASSUME NEW i \in 1 .. d + 1, NEW k \in 1 .. frames'[i].nargs
               PROVE  stack'[frames'[i].base + 3 + k] \in Values
    BY <1>4 DEF ActualsHeld
  <2>1. CASE i = d + 1
    <3>1. frames'[i].base + 3 + k = t + 1 + k /\ frames'[i].nargs = n
      BY <2>1, <1>4
    <3>2. QED BY <3>1, <1>9
  <2>2. CASE i # d + 1
    <3>1. i \in 1 .. Depth /\ frames'[i] = frames[i] /\ i <= Depth /\ Depth \in 0 .. Depth
      BY <1>2, <1>4, <2>2
    <3>2. k \in 1 .. frames[i].nargs /\ frames[i].base + 3 + k \in Mine(i)
      BY <3>1, MineHolds DEF Good
    <3>3. frames[i].base + 3 + k > RestOf(Depth)
      BY <3>1, <3>2, MineAbove DEF Good
    <3>4. stack'[frames[i].base + 3 + k] = stack[frames[i].base + 3 + k]
      BY <1>7, <3>2, <3>3 DEF Mine
    <3>5. QED BY <3>1, <3>2, <3>4 DEF ActualsHeld
  <2>3. QED BY <2>1, <2>2
<1>16. PendingHeld'
  BY <1>1 DEF PendingHeld
<1>17. QED BY <1>14, <1>15, <1>16

LEMMA CallUserStep ==
  ASSUME Good, Good', ActualsHeld, PendingHeld, NEW a \in Sites, CallUser(a)
  PROVE  Abstract!Next /\ ActualsHeld' /\ PendingHeld'
<1> USE StackAssumption
<1>0. mode = "call" /\ mode \in Running
  BY DEF CallUser, Running
<1>1. /\ top \in Nat /\ pending \in Nat /\ stack \in [Indices -> Cell]
      /\ program_var_count + 4 <= top
  BY <1>0 DEF Good, TypeInv, TypeOK, Ready
<1>2. top + 1 + pending = RestOf(Depth) /\ stack[top + 1] = pending
  <2> DEFINE r == RestOf(Depth)
  <2>1. r \in Nat /\ top = r - pending - 1
    BY <1>0, TopIs
  <2> HIDE DEF r
  <2>2. top + 1 + pending = r
    BY <1>1, <2>1
  <2>3. stack[top + 1] = pending
    BY <1>0 DEF Good, Layout, Prepared
  <2>4. QED BY <2>2, <2>3 DEF r
<1>3. EnterUserFunc(stack, top, pending, a)
  BY <1>1 DEF CallUser, OutOfStack
<1>4. \A k \in 1 .. pending : stack[top + 1 + k] \in Values
  BY <1>0 DEF PendingHeld, PendingCell
<1> DEFINE self == << >>
<1>5. [k \in 1 .. pending |-> stack[top + 1 + k]] = self \o PendingActuals
  <2>1. PendingActuals = [k \in 1 .. pending |-> stack[top + 1 + k]]
    BY <1>0 DEF PendingActuals, PendingCell
  <2>2. << >> \o PendingActuals = PendingActuals
    BY <1>0, PendingIsSeq, ConcatEmptySeq
  <2>3. QED BY <2>1, <2>2
<1>6. self \in {<< >>} \cup {<<f>> : f \in Other}
  OBVIOUS
<1> DEFINE m == stack
           t == top
           e == pending
<1>7. /\ m \in [Indices -> Cell] /\ t \in Nat /\ e \in Nat /\ t >= program_var_count + 3
      /\ t + 1 + e = RestOf(Depth) /\ m[t + 1] = e
      /\ \A c \in Indices : c > RestOf(Depth) => m[c] = stack[c]
      /\ \A c \in Indices : c < t => m[c] = stack[c]
      /\ \A k \in 1 .. e : m[t + 1 + k] \in Values
      /\ [k \in 1 .. e |-> m[t + 1 + k]] = self \o PendingActuals
      /\ EnterUserFunc(m, t, e, a)
  BY <1>1, <1>2, <1>3, <1>4, <1>5
<1> HIDE DEF self, m, t, e
<1>8. QED BY <1>0, <1>6, <1>7, EnterStep

LEMMA CallFunctorStep ==
  ASSUME Good, Good', ActualsHeld, PendingHeld, NEW a \in Sites, NEW f \in Values \ Nat,
         CallFunctor(a, f)
  PROVE  Abstract!Next /\ ActualsHeld' /\ PendingHeld'
<1> USE StackAssumption
<1> DEFINE n == CountIn(stack[top + 1])
           m == [stack EXCEPT ![top] = n + 1, ![top + 1] = f]
           t == top - 1
           self == <<f>>
<1>0. mode = "call" /\ mode \in Running
  BY DEF CallFunctor, Running
<1>1. /\ top \in Nat /\ pending \in Nat /\ stack \in [Indices -> Cell]
      /\ program_var_count + 4 <= top /\ top <= STACK_SIZE - 2
      /\ top \in Indices /\ top + 1 \in Indices
  BY <1>0 DEF Good, TypeInv, TypeOK, Ready, Indices
<1>2. top + 1 + pending = RestOf(Depth) /\ n = pending
  <2> DEFINE r == RestOf(Depth)
  <2>1. r \in Nat /\ top = r - pending - 1
    BY <1>0, TopIs
  <2> HIDE DEF r
  <2>2. top + 1 + pending = r
    BY <1>1, <2>1
  <2>3. n = pending
    BY <1>0, <1>1 DEF Good, Layout, Prepared, CountIn
  <2>4. QED BY <2>2, <2>3 DEF r
<1>3. EnterUserFunc(m, t, pending + 1, a)
  BY <1>1 DEF CallFunctor, OutOfStack
<1>4. f \in Other /\ f \in Cell
  BY DEF Cell
<1>5. /\ m \in [Indices -> Cell] /\ m[top] = pending + 1 /\ m[top + 1] = f
      /\ \A c \in Indices : c # top /\ c # top + 1 => m[c] = stack[c]
  <2>1. n + 1 \in Cell
    BY <1>1, <1>2 DEF Cell
  <2>2. QED BY <1>1, <1>2, <1>4, <2>1
<1> HIDE DEF m, n
<1>6. /\ t \in Nat /\ t >= program_var_count + 3 /\ t + 1 = top
      /\ t + 1 + (pending + 1) = RestOf(Depth)
  BY <1>1, <1>2
<1>7. \A k \in 1 .. pending : m[top + (k + 1)] = stack[top + 1 + k]
  <2> TAKE k \in 1 .. pending
  <2>1. top + 1 + k \in Indices
    <3>1. RestOf(Depth) < STACK_SIZE /\ RestOf(Depth) \in Int
      BY Geometry, FrameType DEF Good
    <3>2. QED BY <1>1, <1>2, <3>1 DEF Indices
  <2>2. top + (k + 1) = top + 1 + k /\ top + 1 + k # top /\ top + 1 + k # top + 1
    BY <1>1
  <2>3. QED BY <1>5, <2>1, <2>2
<1>8. /\ \A c \in Indices : c > RestOf(Depth) => m[c] = stack[c]
      /\ \A c \in Indices : c < t => m[c] = stack[c]
  <2> DEFINE q == RestOf(Depth)
  <2>1. q \in Int /\ top + 1 <= q /\ top \in Int /\ t = top - 1
    BY <1>1, <1>2, FrameType DEF Good
  <2> HIDE DEF q, t
  <2>2. \A c \in Indices : c > q \/ c < t => c # top /\ c # top + 1
    BY <2>1 DEF Indices
  <2>3. QED BY <1>5, <2>2 DEF q
<1> DEFINE r == [k \in 1 .. pending + 1 |-> m[t + 1 + k]]
           p == PendingActuals
<1>9. /\ p \in Seq(Cell) /\ Len(p) = pending
      /\ \A k \in 1 .. pending : p[k] = stack[top + 1 + k]
  <2>1. p \in Seq(Cell) /\ Len(p) = pending
    BY <1>0, PendingIsSeq
  <2>2. QED BY <1>0, <2>1 DEF PendingActuals, PendingCell
<1>10. \A k \in 1 .. pending + 1 : m[t + 1 + k] \in Cell /\ t + 1 + k = top + k
  <2> TAKE k \in 1 .. pending + 1
  <2>1. RestOf(Depth) < STACK_SIZE /\ RestOf(Depth) \in Int
    BY Geometry, FrameType DEF Good
  <2>2. t + 1 + k \in Indices /\ t + 1 + k = top + k
    BY <1>1, <1>2, <2>1 DEF Indices
  <2>3. QED BY <1>5, <2>2
<1>11. /\ r \in Seq(Cell) /\ Len(r) = pending + 1
       /\ \A k \in 1 .. pending + 1 : r[k] = m[top + k]
  BY <1>1, <1>10
<1> HIDE DEF r, p
<1>12. r[1] = f /\ \A k \in 1 .. pending : r[k + 1] = p[k]
  <2>1. 1 \in 1 .. pending + 1 /\ \A k \in 1 .. pending : k + 1 \in 1 .. pending + 1
    BY <1>1
  <2>2. QED BY <1>5, <1>7, <1>9, <1>11, <2>1
<1>13. r = <<f>> \o p
  <2>1. Len(r) = Len(p) + 1 /\ \A k \in 1 .. Len(p) : r[k + 1] = p[k]
    BY <1>9, <1>11, <1>12
  <2>2. r = <<r[1]>> \o p
    BY <1>9, <1>11, <2>1, ConsByIndex
  <2>3. QED BY <2>2, <1>12
<1>14. \A k \in 1 .. pending + 1 : m[t + 1 + k] \in Values
  <2> TAKE k \in 1 .. pending + 1
  <2>1. CASE k = 1
    BY <2>1, <1>5, <1>10
  <2>2. CASE k # 1
    <3>1. k - 1 \in 1 .. pending /\ k - 1 + 1 = k
      BY <1>1, <2>2
    <3>2. m[top + k] = stack[top + 1 + (k - 1)]
      BY <1>7, <3>1
    <3>3. stack[top + 1 + (k - 1)] \in Values
      BY <1>0, <3>1 DEF PendingHeld, PendingCell
    <3>4. QED BY <1>10, <3>2, <3>3
  <2>3. QED BY <2>1, <2>2
<1>15. self \in {<< >>} \cup {<<g>> : g \in Other}
  BY <1>4
<1>16. [k \in 1 .. pending + 1 |-> m[t + 1 + k]] = self \o PendingActuals
  BY <1>13 DEF r, p
<1>17. m[t + 1] = pending + 1 /\ pending + 1 \in Nat
  BY <1>1, <1>5, <1>6
<1> HIDE DEF self, t
<1> DEFINE e == pending + 1
<1>18. /\ e \in Nat /\ t + 1 + e = RestOf(Depth) /\ m[t + 1] = e
       /\ \A k \in 1 .. e : m[t + 1 + k] \in Values
       /\ [k \in 1 .. e |-> m[t + 1 + k]] = self \o PendingActuals
       /\ EnterUserFunc(m, t, e, a)
  BY <1>3, <1>6, <1>14, <1>16, <1>17
<1> HIDE DEF e
<1>19. m \in [Indices -> Cell] /\ t \in Nat /\ t >= program_var_count + 3
  BY <1>5, <1>6
<1>20. QED BY <1>0, <1>8, <1>15, <1>18, <1>19, EnterStep

(* A step that leaves memory and frames alone.                              *)
LEMMA SameMemory ==
  ASSUME stack' = stack, frames' = frames
  PROVE  Acts' = Acts /\ Globals' = Globals /\ (ActualsHeld => ActualsHeld')
  BY DEF Acts, Globals, ActualsHeld, ActivationOf, Depth

LEMMA StopStep ==
  ASSUME Good, Good', ActualsHeld, mode \in Running, NEW how \in Stopped, Stop(how)
  PROVE  Abstract!Next /\ ActualsHeld' /\ PendingHeld'
<1>1. /\ ~wrapped /\ ~wrapped' /\ mode' \in Stopped /\ mode' \notin Running
      /\ UNCHANGED <<stack, frames, pc, retval>>
  BY DEF Good, Stop, Stopped, Running
<1>2. Acts' = Acts /\ Globals' = Globals /\ ActualsHeld'
  BY <1>1, SameMemory
<1>3. QED BY <1>1, <1>2, MapsToStop DEF PendingHeld

(* What the running function is in the mapped stack of activations.         *)
LEMMA CallerIs ==
  ASSUME Good
  PROVE  /\ Acts = << >> <=> Depth = 0
         /\ Depth # 0 =>
              /\ Depth \in 1 .. Depth /\ topsp = frames[Depth].base /\ topsp + 3 < STACK_SIZE
              /\ stack[topsp] = topsp + 2 /\ stack[topsp + 3] = frames[Depth].nargs
              /\ topsp \in Nat /\ frames[Depth].nargs \in Nat /\ frames[Depth].locals \in Nat
              /\ Len(Acts) = Depth
              /\ Acts[Len(Acts)].ret = stack[topsp + 2]
              /\ Acts[Len(Acts)].args = [k \in 1 .. frames[Depth].nargs |-> stack[topsp + 3 + k]]
              /\ Acts[Len(Acts)].locals = [o \in 1 .. frames[Depth].locals |-> stack[topsp - o]]
<1> USE DEF Good
<1>1. PICK d \in Nat : d = Depth
  BY FrameType
<1>2. Acts \in Seq(Activation) /\ Len(Acts) = d /\ \A i \in 1 .. d : Acts[i] = ActivationOf(i)
  BY <1>1, ActsIsSeq
<1>3. Acts = << >> <=> Depth = 0
  BY <1>1, <1>2
<1>4. ASSUME d # 0
      PROVE  /\ d \in 1 .. d /\ topsp = frames[d].base /\ topsp + 3 < STACK_SIZE
             /\ stack[topsp] = topsp + 2 /\ stack[topsp + 3] = frames[d].nargs
             /\ topsp \in Nat /\ frames[d].nargs \in Nat /\ frames[d].locals \in Nat
             /\ Acts[d].ret = stack[topsp + 2]
             /\ Acts[d].args = [k \in 1 .. frames[d].nargs |-> stack[topsp + 3 + k]]
             /\ Acts[d].locals = [o \in 1 .. frames[d].locals |-> stack[topsp - o]]
  <2>1. d \in 1 .. d
    BY <1>4
  <2>2. /\ frames[d].base \in Nat /\ frames[d].nargs \in Nat /\ frames[d].locals \in Nat
        /\ frames[d].base + 3 + frames[d].nargs < STACK_SIZE
    BY <1>1, <2>1, FrameType, Geometry
  <2>3. topsp = frames[d].base
    BY <1>1, <1>4 DEF Layout, RegistersAgree, BaseOf
  <2>4. /\ stack[topsp] = topsp + 2 /\ stack[topsp + 3] = frames[d].nargs
        /\ stack[topsp + 2] = frames[d].ret
    BY <1>1, <2>1, <2>3 DEF Layout, ControlWordsKept
  <2>5. Acts[d] =
          [ ret    |-> frames[d].ret,
            args   |-> [k \in 1 .. frames[d].nargs |-> stack[frames[d].base + 3 + k]],
            locals |-> [o \in 1 .. frames[d].locals |-> stack[frames[d].base - o]] ]
    BY <1>1, <1>2, <2>1, ActivationIs
  <2>6. topsp + 3 < STACK_SIZE
    BY <2>2, <2>3, StackAssumption
  <2>7. QED BY <2>1, <2>2, <2>3, <2>4, <2>5, <2>6
<1>5. QED BY <1>1, <1>2, <1>3, <1>4

(* The answers a library function can give.                                 *)
LEMMA FinishLibStep ==
  ASSUME Good, Good', ActualsHeld, mode = "call", NEW f, NEW v, FinishLib(f, v),
         \/ f = "other" /\ v \in Values \cup {NIL}
         \/ f = "totalarguments" /\ v = IF Depth = 0 THEN NIL ELSE frames[Depth].nargs
         \/ f = "argument" /\ \E i \in Abstract!Asked : v = Abstract!Argument(i)
  PROVE  Abstract!Next /\ ActualsHeld' /\ PendingHeld'
<1>1. /\ ~wrapped /\ ~wrapped' /\ mode' = "ret" /\ retval' = v /\ answered' = f /\ pending' = 0
      /\ UNCHANGED <<stack, frames, pc>>
  BY DEF Good, FinishLib
<1>2. Acts' = Acts /\ Globals' = Globals /\ ActualsHeld'
  BY <1>1, SameMemory
<1>3. PendingActuals' = << >> /\ PendingHeld'
  BY <1>1 DEF PendingActuals, PendingHeld
<1>4. (IF Depth = 0 THEN NIL ELSE frames[Depth].nargs)
        = IF Acts = << >> THEN NIL ELSE Len(Acts[Len(Acts)].args)
  <2>1. CASE Depth = 0
    BY <2>1, CallerIs
  <2>2. CASE Depth # 0
    <3>1. /\ Acts # << >> /\ frames[Depth].nargs \in Nat
          /\ Acts[Len(Acts)].args = [k \in 1 .. frames[Depth].nargs |-> stack[topsp + 3 + k]]
      BY <2>2, CallerIs
    <3>2. Len(Acts[Len(Acts)].args) = frames[Depth].nargs
      BY <3>1
    <3>3. QED BY <2>2, <3>1, <3>2
  <2>3. QED BY <2>1, <2>2
<1>5. QED BY <1>1, <1>2, <1>3, <1>4, MapsToLibCall

(* The index argument reads is the first actual; without one it can be any. *)
LEMMA AskedIs ==
  ASSUME Good, mode = "call", NEW k \in Nat,
         IF pending = 0 THEN k <= (IF Depth = 0 THEN 0 ELSE frames[Depth].nargs)
                        ELSE k = stack[top + 2]
  PROVE  k \in Abstract!Asked
<1>1. PendingActuals \in Seq(Cell) /\ Len(PendingActuals) = pending /\ pending \in Nat
  BY PendingIsSeq DEF Good, Running, TypeInv, TypeOK
<1>2. Abstract!Asked = IF PendingActuals # << >> THEN {PendingActuals[1]} \cap Nat
                       ELSE 0 .. IF Acts = << >> THEN 0 ELSE Len(Acts[Len(Acts)].args)
  BY DEF Abstract!Asked, Abstract!Caller, Abstract!Depth, Acts, Good, Stopped
<1>3. CASE pending = 0
  <2>1. PendingActuals = << >>
    BY <1>1, <1>3
  <2>2. CASE Depth = 0
    BY <1>2, <1>3, <2>1, <2>2, CallerIs
  <2>3. CASE Depth # 0
    <3>1. /\ Acts # << >> /\ frames[Depth].nargs \in Nat
          /\ Acts[Len(Acts)].args = [j \in 1 .. frames[Depth].nargs |-> stack[topsp + 3 + j]]
      BY <2>3, CallerIs
    <3>2. Len(Acts[Len(Acts)].args) = frames[Depth].nargs
      BY <3>1
    <3>3. QED BY <1>2, <1>3, <2>1, <2>3, <3>1, <3>2
  <2>4. QED BY <2>2, <2>3
<1>4. CASE pending # 0
  <2>1. PendingActuals # << >> /\ 1 \in 1 .. pending
    BY <1>1, <1>4
  <2>2. top + 1 + 1 = top + 2
    BY DEF Good, TypeInv, TypeOK
  <2>3. PendingActuals[1] = stack[top + 2]
    BY <2>1, <2>2 DEF PendingActuals, PendingCell
  <2>4. QED BY <1>2, <1>4, <2>1, <2>3
<1>5. QED BY <1>3, <1>4

(* What argument(k) of the running function is: its actual k, if it has it. *)
LEMMA ArgumentIs ==
  ASSUME Good, NEW k \in Nat
  PROVE  Abstract!Argument(k) =
           IF k >= totalactuals THEN NIL
           ELSE IF stack[ArgumentCell(k)] = UNDEF THEN NIL ELSE stack[ArgumentCell(k)]
<1>1. Abstract!Argument(k) =
        IF Acts = << >> THEN NIL
        ELSE IF k >= Len(Acts[Len(Acts)].args) THEN NIL
        ELSE IF Acts[Len(Acts)].args[k + 1] = UNDEF THEN NIL
        ELSE Acts[Len(Acts)].args[k + 1]
  <2>1. ~wrapped
    BY DEF Good
  <2>2. Abstract!Caller = Acts[Len(Acts)]
    BY <2>1 DEF Abstract!Caller, Abstract!Depth, Acts
  <2> DEFINE a == Abstract!Caller.args
             E == IF wrapped THEN << >> ELSE Acts
  <2>3. Abstract!Argument(k) = IF E = << >> THEN NIL
                               ELSE IF k >= Len(a) THEN NIL
                               ELSE IF a[k + 1] = UNDEF THEN NIL ELSE a[k + 1]
    BY ONLY DEF Abstract!Argument, Acts
  <2>4. E = Acts
    BY <2>1
  <2> HIDE DEF a, E
  <2>5. QED BY <2>2, <2>3, <2>4 DEF a
<1>2. totalactuals = IF Depth = 0 THEN 0 ELSE frames[Depth].nargs
  BY TotalActuals DEF Good
<1>3. CASE Depth = 0
  BY <1>1, <1>2, <1>3, CallerIs
<1>4. CASE Depth # 0
  <2> DEFINE a == Acts[Len(Acts)].args
             n == frames[Depth].nargs
  <2>1. /\ Acts # << >> /\ n \in Nat /\ topsp \in Nat
        /\ a = [j \in 1 .. n |-> stack[topsp + 3 + j]]
    BY <1>4, CallerIs
  <2> HIDE DEF a, n
  <2>2. Len(a) = n
    BY <2>1
  <2>3. ASSUME k < n PROVE a[k + 1] = stack[ArgumentCell(k)]
    <3>1. k + 1 \in 1 .. n /\ topsp + 3 + (k + 1) = ArgumentCell(k)
      BY <2>1, <2>3 DEF ArgumentCell
    <3>2. QED BY <2>1, <3>1
  <2>4. n = totalactuals
    BY <1>2, <1>4 DEF n
  <2>5. QED BY <1>1, <2>1, <2>2, <2>3, <2>4 DEF a
<1>5. QED BY <1>3, <1>4

LEMMA LibStep ==
  ASSUME Good, Good', ActualsHeld,
         \/ \E need \in 0 .. 1, v \in Values : CallLib(need, v)
         \/ CallPrint \/ CallTotalArguments \/ CallArgument
  PROVE  Abstract!Next /\ ActualsHeld' /\ PendingHeld'
<1>0. mode = "call" /\ mode \in Running
  BY DEF CallLib, CallPrint, CallTotalArguments, CallArgument, Running
<1>1. ASSUME NEW how \in {"error", "wild_read"}, Stop(how)
      PROVE  Abstract!Next /\ ActualsHeld' /\ PendingHeld'
  BY <1>0, <1>1, StopStep DEF Stopped
<1>2. ASSUME NEW v \in Values \cup {NIL}, FinishLib("other", v)
      PROVE  Abstract!Next /\ ActualsHeld' /\ PendingHeld'
  BY <1>0, <1>2, FinishLibStep
<1>3. ASSUME NEW need \in 0 .. 1, NEW v \in Values, CallLib(need, v)
      PROVE  Abstract!Next /\ ActualsHeld' /\ PendingHeld'
  BY <1>1, <1>2, <1>3 DEF CallLib
<1>4. CASE CallPrint
  BY <1>1, <1>2, <1>4 DEF CallPrint
<1>5. CASE CallTotalArguments
  <2> DEFINE v == IF \/ topsp + 3 >= STACK_SIZE
                     \/ stack[topsp] \notin Nat
                     \/ stack[topsp + 3] \notin Nat
                  THEN NIL ELSE stack[topsp + 3]
  <2>1. FinishLib("totalarguments", v)
    BY <1>5 DEF CallTotalArguments
  <2>2. CASE Depth = 0
    <3>1. topsp = 0 /\ stack[0] = LIB /\ LIB \notin Nat
      BY <2>2, StackAssumption DEF Good, Layout, RegistersAgree, BaseOf, BuiltinsKept
    <3>2. v = NIL
      BY <3>1
    <3> HIDE DEF v
    <3>3. QED BY <1>0, <2>1, <2>2, <3>2, FinishLibStep
  <2>3. CASE Depth # 0
    <3>1. /\ topsp + 3 < STACK_SIZE /\ stack[topsp] = topsp + 2
          /\ stack[topsp + 3] = frames[Depth].nargs
          /\ topsp \in Nat /\ frames[Depth].nargs \in Nat
      BY <2>3, CallerIs
    <3>2. v = frames[Depth].nargs
      BY <3>1, StackAssumption
    <3> HIDE DEF v
    <3>3. QED BY <1>0, <2>1, <2>3, <3>2, FinishLibStep
  <2>4. QED BY <2>2, <2>3
<1>6. CASE CallArgument
  <2> DEFINE k == stack[top + 2]
             v == IF k >= totalactuals THEN NIL
                  ELSE IF stack[ArgumentCell(k)] = UNDEF THEN NIL ELSE stack[ArgumentCell(k)]
  <2>1. CASE \/ Stop("wild_read") \/ Stop("error")
    BY <1>1, <2>1
  <2>2. CASE k \in Nat /\ FinishLib("argument", v)
    <3>1. v = Abstract!Argument(k)
      BY <2>2, ArgumentIs
    <3>2. ASSUME pending # 0 PROVE k \in Abstract!Asked
      BY <1>0, <2>2, <3>2, AskedIs
    <3>3. ASSUME pending = 0 PROVE \E i \in Abstract!Asked : v = Abstract!Argument(i)
      <4> DEFINE n == IF Depth = 0 THEN 0 ELSE frames[Depth].nargs
      <4>1. n \in Nat /\ totalactuals = n
        BY TotalActuals, CallerIs DEF Good
      <4> HIDE DEF n
      <4>2. CASE k <= n
        <5>1. k \in Abstract!Asked
          BY <1>0, <2>2, <3>3, <4>2, AskedIs DEF n
        <5>2. QED BY <3>1, <5>1
      <4>3. CASE k > n
        <5>1. n \in Abstract!Asked
          BY <1>0, <3>3, <4>1, AskedIs DEF n
        <5>2. Abstract!Argument(n) = NIL /\ v = NIL
          BY <2>2, <4>1, <4>3, ArgumentIs
        <5> HIDE DEF v
        <5>3. QED BY <5>1, <5>2
      <4>4. QED BY <2>2, <4>1, <4>2, <4>3
    <3> HIDE DEF v
    <3>4. \E i \in Abstract!Asked : v = Abstract!Argument(i)
      BY <3>1, <3>2, <3>3
    <3>5. QED BY <1>0, <2>2, <3>4, FinishLibStep
  <2>3. QED BY <1>6, <2>1, <2>2 DEF CallArgument
<1>7. QED BY <1>3, <1>4, <1>5, <1>6

(* FUNCENTER gives the running function its locals and nothing else.        *)
LEMMA FuncEnterStep ==
  ASSUME Good, Good', ActualsHeld, NEW n \in 0 .. MaxLocals, FuncEnter(n)
  PROVE  Abstract!Next /\ ActualsHeld' /\ PendingHeld'
<1> USE StackAssumption
<1>0. mode = "enter" /\ mode \in Running /\ n \in Nat
  BY DEF FuncEnter, Running
<1>1. CASE n > 0 /\ OutOfStack(topsp - n)
  BY <1>0, <1>1, StopStep DEF FuncEnter, Stopped
<1>2. CASE ~(n > 0 /\ OutOfStack(topsp - n))
  <2>1. /\ stack' = [i \in Indices |-> IF topsp - n <= i /\ i < topsp
                                       THEN UNDEF ELSE stack[i]]
        /\ mode' = "stmt" /\ frames' = [frames EXCEPT ![Depth] = Sized(Current, n)]
        /\ UNCHANGED <<topsp, pc, retval, pending>>
    BY <1>2 DEF FuncEnter
  <2>2. PICK d \in Nat : d = Depth
    BY FrameType DEF Good
  <2>3. d # 0 /\ d \in 1 .. d /\ frames \in Seq(Frame) /\ pending = 0
    BY <1>0, <2>2 DEF Good, TypeInv, TypeOK, Ready, Layout, Prepared, Depth
  <2>4. /\ topsp = frames[d].base /\ topsp \in Nat /\ frames[d].nargs \in Nat
        /\ topsp + 3 + frames[d].nargs < STACK_SIZE
        /\ RestOf(d) = topsp - 1 - frames[d].locals /\ frames[d].locals = 0
    <3>1. topsp = frames[d].base /\ topsp \in Nat /\ frames[d].nargs \in Nat
      BY <2>2, <2>3, CallerIs
    <3>2. topsp + 3 + frames[d].nargs < STACK_SIZE
      BY <2>2, <2>3, <3>1, Geometry DEF Good
    <3>3. frames[d].locals = 0
      BY <1>0, <2>2 DEF Good, Layout, Prepared, Current
    <3>4. QED BY <2>3, <3>1, <3>2, <3>3 DEF RestOf
  <2>5. /\ Depth' = d /\ \A i \in 1 .. d : i # d => frames'[i] = frames[i]
        /\ frames'[d].base = topsp /\ frames'[d].nargs = frames[d].nargs
        /\ frames'[d].ret = frames[d].ret /\ frames'[d].locals = n
    <3>1. /\ Depth' = d /\ \A i \in 1 .. d : i # d => frames'[i] = frames[i]
          /\ frames'[d] = Sized(frames[d], n)
      BY <2>1, <2>2, <2>3 DEF Depth, Current
    <3>2. QED BY <2>4, <3>1 DEF Sized
  <2>6. \A c \in Indices : c >= topsp => stack'[c] = stack[c]
    <3> TAKE c \in Indices
    <3> HAVE c >= topsp
    <3>1. ~(c < topsp)
      BY <2>4 DEF Indices
    <3>2. QED BY <2>1, <3>1
  <2>7. \A i \in 1 .. d : i # d => ActivationOf(i)' = ActivationOf(i)
    <3> TAKE i \in 1 .. d
    <3> HAVE i # d
    <3>1. /\ i \in 1 .. Depth /\ i \in 1 .. Depth' /\ d - 1 \in 0 .. Depth /\ i <= d - 1
          /\ frames'[i] = frames[i]
      BY <2>2, <2>5
    <3>2. RestOf(d - 1) = topsp + 3 + frames[d].nargs
      BY <2>2, <2>3, <2>4 DEF Good, Layout, Contiguous
    <3>3. ASSUME NEW c \in Mine(i) PROVE stack'[c] = stack[c]
      <4>1. c > RestOf(d - 1) /\ c \in Indices
        BY <3>1, MineAbove DEF Good, Mine
      <4>2. c >= topsp
        BY <2>4, <3>2, <4>1 DEF Indices
      <4>3. QED BY <2>6, <4>1, <4>2
    <3>4. QED BY <3>1, <3>3, SameActivation DEF Good
  <2> DEFINE blank == [o \in 1 .. n |-> UNDEF]
             A == Acts[d]
  <2>8. \A k \in 1 .. frames[d].nargs :
          stack'[topsp + 3 + k] = stack[topsp + 3 + k]
    <3> TAKE k \in 1 .. frames[d].nargs
    <3>1. topsp + 3 + k \in Indices /\ topsp + 3 + k >= topsp
      BY <2>4 DEF Indices
    <3>2. QED BY <2>6, <3>1
  <2>9. ActivationOf(d)' = [ret |-> A.ret, args |-> A.args, locals |-> blank]
    <3>1. A = [ ret    |-> stack[topsp + 2],
                args   |-> [k \in 1 .. stack[topsp + 3] |-> stack[topsp + 3 + k]],
                locals |-> [o \in 1 .. 0 |-> stack[topsp - o]] ]
      <4>1. A = ActivationOf(d)
        BY <2>2, <2>3, ActsIsSeq
      <4>2. QED BY <2>4, <4>1 DEF ActivationOf
    <3>2. ActivationOf(d)' =
            [ ret    |-> stack'[topsp + 2],
              args   |-> [k \in 1 .. stack'[topsp + 3] |-> stack'[topsp + 3 + k]],
              locals |-> [o \in 1 .. n |-> stack'[topsp - o]] ]
      BY <2>5 DEF ActivationOf
    <3>3. /\ stack'[topsp + 2] = stack[topsp + 2]
          /\ stack'[topsp + 3] = stack[topsp + 3] /\ stack[topsp + 3] = frames[d].nargs
      <4>1. /\ topsp + 2 \in Indices /\ topsp + 2 >= topsp
            /\ topsp + 3 \in Indices /\ topsp + 3 >= topsp
        BY <2>4 DEF Indices
      <4>2. QED BY <2>2, <2>3, <2>6, <4>1, CallerIs
    <3>4. [k \in 1 .. frames[d].nargs |-> stack'[topsp + 3 + k]]
            = [k \in 1 .. frames[d].nargs |-> stack[topsp + 3 + k]]
      BY <2>8
    <3>5. [o \in 1 .. n |-> stack'[topsp - o]] = blank
      <4>1. ASSUME NEW o \in 1 .. n PROVE stack'[topsp - o] = UNDEF
        <5>1. RestOf(d)' = topsp - 1 - n /\ RestOf(d)' >= program_var_count
          <6>1. RestOf(d)' = topsp - 1 - n
            BY <2>3, <2>5 DEF RestOf
          <6>2. d \in 0 .. Depth'
            BY <2>5
          <6>3. QED BY <6>1, <6>2 DEF Good, Layout, Nested
        <5>2. /\ topsp - o \in Indices /\ topsp - n <= topsp - o /\ topsp - o < topsp
          BY <1>0, <2>4, <5>1 DEF Indices
        <5>3. QED BY <2>1, <5>2
      <4>2. QED BY <4>1
    <3> HIDE DEF A
    <3>6. A.ret = stack[topsp + 2] /\ A.args = [k \in 1 .. frames[d].nargs |-> stack[topsp + 3 + k]]
      BY <3>1, <3>3
    <3>7. QED BY <3>2, <3>3, <3>4, <3>5, <3>6
  <2>10. Acts' = [Acts EXCEPT ![Len(Acts)].locals = blank]
    <3>1. Acts \in Seq(Activation) /\ Len(Acts) = d /\ \A i \in 1 .. d : Acts[i] = ActivationOf(i)
      BY <2>2, ActsIsSeq
    <3>2. Acts' \in Seq(Activation) /\ Len(Acts') = d /\ \A i \in 1 .. d : Acts'[i] = ActivationOf(i)'
      BY <2>5, ActsIsSeqAfter
    <3>3. A \in Activation
      BY <2>3, <3>1
    <3>4. [A EXCEPT !.locals = blank] = [ret |-> A.ret, args |-> A.args, locals |-> blank]
      BY <3>3, BlankLocals
    <3> DEFINE r == [Acts EXCEPT ![d] = [A EXCEPT !.locals = blank]]
    <3>5. r = [Acts EXCEPT ![Len(Acts)].locals = blank]
      BY <3>1
    <3>6. \A i \in 1 .. d : r[i] = IF i = d THEN [A EXCEPT !.locals = blank] ELSE Acts[i]
      BY <3>1
    <3>7. \A i \in 1 .. d : Acts'[i] = r[i]
      <4> HIDE DEF r, blank, A
      <4> TAKE i \in 1 .. d
      <4>1. CASE i = d
        BY <2>3, <2>9, <3>2, <3>4, <3>6, <4>1
      <4>2. CASE i # d
        BY <2>7, <3>1, <3>2, <3>6, <4>2
      <4>3. QED BY <4>1, <4>2
    <3>8. r = [i \in 1 .. d |-> r[i]] /\ Acts' = [i \in 1 .. d |-> Acts'[i]]
      <4>1. Acts \in [1 .. d -> Activation] /\ Acts' \in [1 .. d -> Activation]
        BY <3>1, <3>2
      <4>2. QED BY <4>1
    <3>9. Acts' = r
      <4> HIDE DEF r
      <4>1. QED BY <3>7, <3>8
    <3>10. QED BY <3>5, <3>9
  <2>11. \A c \in GlobalVars : stack'[c] = stack[c]
    <3> TAKE c \in GlobalVars
    <3>1. RestOf(d)' = topsp - 1 - n /\ RestOf(d)' >= program_var_count
      <4>1. RestOf(d)' = topsp - 1 - n
        BY <2>3, <2>5 DEF RestOf
      <4>2. d \in 0 .. Depth'
        BY <2>5
      <4>3. QED BY <4>1, <4>2 DEF Good, Layout, Nested
    <3>2. c \in Indices /\ ~(topsp - n <= c /\ c < topsp)
      BY <1>0, <2>4, <3>1 DEF GlobalVars, Indices
    <3>3. QED BY <2>1, <3>2
  <2>12. PendingActuals' = PendingActuals /\ PendingHeld'
    BY <2>1, <2>3 DEF PendingActuals, PendingHeld
  <2>13. ~wrapped /\ ~wrapped'
    BY DEF Good
  <2>14. Abstract!Next
    <3>1. Globals' = Globals
      BY <2>11, SameGlobals
    <3>2. QED BY <1>0, <2>1, <2>10, <2>12, <2>13, <3>1, MapsToEnter
  <2>15. ActualsHeld'
    <3> SUFFICES ASSUME NEW i \in 1 .. d, NEW k \in 1 .. frames'[i].nargs
                 PROVE  stack'[frames'[i].base + 3 + k] \in Values
      BY <2>5 DEF ActualsHeld
    <3>1. frames'[i].base = frames[i].base /\ frames'[i].nargs = frames[i].nargs
      BY <2>4, <2>5
    <3>2. frames[i].base + 3 + k \in Mine(i) /\ i <= Depth /\ i \in 1 .. Depth /\ Depth \in 0 .. Depth
      BY <2>2, <3>1, MineHolds DEF Good
    <3>3. frames[i].base + 3 + k \in Indices /\ frames[i].base + 3 + k > RestOf(Depth)
      BY <3>2, MineAbove DEF Good, Mine
    <3>4. frames[i].base + 3 + k >= topsp
      <4>1. RestOf(Depth) = topsp - 1
        BY <2>2, <2>4
      <4>2. QED BY <2>4, <3>3, <4>1 DEF Indices
    <3>5. QED BY <2>2, <2>6, <3>1, <3>3, <3>4 DEF ActualsHeld
  <2>16. QED BY <2>12, <2>14, <2>15
<1>3. QED BY <1>1, <1>2

(* FUNCEXIT takes the newest activation away and resumes the one below it.  *)
LEMMA FuncExitStep ==
  ASSUME Good, Good', ActualsHeld, FuncExit
  PROVE  Abstract!Next /\ ActualsHeld' /\ PendingHeld'
<1> USE StackAssumption
<1> DEFINE t == stack[topsp] + stack[topsp + 3] + 1
<1>0. mode = "stmt" /\ mode \in Running /\ frames # << >>
  BY DEF FuncExit, Running
<1>1. PICK d \in Nat : d = Depth
  BY FrameType DEF Good
<1>2. d \in 1 .. d /\ d # 0 /\ frames \in Seq(Frame)
  BY <1>0, <1>1 DEF Good, TypeInv, TypeOK, Depth
<1>3. CASE Stop("corrupt") \/ Stop("wild_write")
  BY <1>0, <1>3, StopStep DEF Stopped
<1>4. CASE /\ stack' = [i \in Indices |-> IF top <= i /\ i < t THEN UNDEF ELSE stack[i]]
           /\ pc' = stack[topsp + 2] /\ frames' = SubSeq(frames, 1, Depth - 1)
           /\ mode' = "ret" /\ answered' = "none" /\ UNCHANGED <<retval, pending>>
  <2>1. /\ topsp = frames[d].base /\ topsp \in Nat /\ frames[d].nargs \in Nat
        /\ stack[topsp] = topsp + 2 /\ stack[topsp + 3] = frames[d].nargs
        /\ Acts # << >> /\ Acts[Len(Acts)].ret = stack[topsp + 2]
    BY <1>1, <1>2, CallerIs
  <2>2. t = RestOf(d - 1) /\ t \in Nat
    <3>1. topsp + 3 + frames[d].nargs = RestOf(d - 1)
      BY <1>1, <1>2, <2>1 DEF Good, Layout, Contiguous
    <3>2. t = topsp + 2 + frames[d].nargs + 1
      BY <2>1
    <3>3. /\ topsp + 2 + frames[d].nargs + 1 = topsp + 3 + frames[d].nargs
          /\ topsp + 3 + frames[d].nargs \in Nat
      <4>1. \A x, y \in Nat : x + 2 + y + 1 = x + 3 + y /\ x + 3 + y \in Nat
        OBVIOUS
      <4>2. topsp \in Nat /\ frames[d].nargs \in Nat
        BY <2>1
      <4>3. QED BY <4>1, <4>2
    <3> HIDE DEF t
    <3>4. QED BY <3>1, <3>2, <3>3
  <2>3. top \in Nat /\ top >= program_var_count /\ pending = 0
    BY <1>0 DEF Good, TypeInv, TypeOK, Layout, Prepared
  <2> HIDE DEF t
  <2>4. PICK e \in Nat : e = d - 1
    BY <1>2
  <2>5. Depth' = e /\ \A i \in 1 .. e : frames'[i] = frames[i]
    BY <1>1, <1>2, <1>4, <2>4 DEF Depth
  <2>6. \A c \in Indices : c < program_var_count \/ c > t => stack'[c] = stack[c]
    <3> TAKE c \in Indices
    <3> HAVE c < program_var_count \/ c > t
    <3>1. ~(top <= c /\ c < t)
      BY <2>2, <2>3 DEF Indices
    <3>2. QED BY <1>4, <3>1
  <2>7. \A i \in 1 .. e : /\ i \in 1 .. Depth /\ \A c \in Mine(i) : stack'[c] = stack[c] /\ c > t
    <3> TAKE i \in 1 .. e
    <3>1. i \in 1 .. Depth /\ e \in 0 .. Depth /\ i <= e
      BY <1>1, <2>4
    <3>2. ASSUME NEW c \in Mine(i) PROVE stack'[c] = stack[c] /\ c > t
      <4>1. c > RestOf(e) /\ c \in Indices
        BY <3>1, MineAbove DEF Good, Mine
      <4>2. QED BY <2>2, <2>4, <2>6, <4>1
    <3>3. QED BY <3>1, <3>2
  <2>8. \A i \in 1 .. e : ActivationOf(i)' = ActivationOf(i)
    <3> TAKE i \in 1 .. e
    <3>1. i \in 1 .. Depth /\ i \in 1 .. Depth' /\ frames'[i] = frames[i]
      BY <2>5, <2>7
    <3>2. QED BY <2>7, <3>1, SameActivation DEF Good
  <2>9. Acts' = SubSeq(Acts, 1, Len(Acts) - 1)
    <3>1. Acts \in Seq(Activation) /\ Len(Acts) = d /\ \A i \in 1 .. d : Acts[i] = ActivationOf(i)
      BY <1>1, ActsIsSeq
    <3>2. Acts' \in Seq(Activation) /\ Len(Acts') = e /\ \A i \in 1 .. e : Acts'[i] = ActivationOf(i)'
      BY <2>5, ActsIsSeqAfter
    <3>3. \A i \in 1 .. Len(Acts') : Acts'[i] = Acts[i]
      BY <2>4, <2>8, <3>1, <3>2
    <3>4. Len(Acts) = Len(Acts') + 1
      BY <2>4, <3>1, <3>2
    <3>5. QED BY <3>1, <3>2, <3>3, <3>4, FrontByIndex
  <2>10. \A c \in GlobalVars : stack'[c] = stack[c]
    BY <2>6 DEF GlobalVars, Indices
  <2>11. PendingActuals' = PendingActuals /\ PendingHeld'
    BY <1>4, <2>3 DEF PendingActuals, PendingHeld
  <2>12. Abstract!Next
    <3>1. ~wrapped /\ ~wrapped' /\ Globals' = Globals
      BY <2>10, SameGlobals DEF Good
    <3>2. QED BY <1>0, <1>4, <2>1, <2>9, <2>11, <3>1, MapsToReturn
  <2>13. ActualsHeld'
    <3> SUFFICES ASSUME NEW i \in 1 .. e, NEW k \in 1 .. frames'[i].nargs
                 PROVE  stack'[frames'[i].base + 3 + k] \in Values
      BY <2>5 DEF ActualsHeld
    <3>1. frames'[i] = frames[i] /\ i \in 1 .. Depth
      BY <2>5, <2>7
    <3>2. frames[i].base + 3 + k \in Mine(i)
      BY <3>1, MineHolds DEF Good
    <3>3. stack'[frames[i].base + 3 + k] = stack[frames[i].base + 3 + k]
      BY <2>7, <3>2
    <3>4. QED BY <3>1, <3>3 DEF ActualsHeld
  <2>14. QED BY <2>11, <2>12, <2>13
<1>5. QED BY <1>0, <1>3, <1>4 DEF FuncExit, LeaveFunc

LEMMA CallerIsAfter ==
  (Good /\ Depth # 0 =>
     /\ Acts[Len(Acts)].ret = stack[topsp + 2]
     /\ Acts[Len(Acts)].args = [k \in 1 .. frames[Depth].nargs |-> stack[topsp + 3 + k]]
     /\ Acts[Len(Acts)].locals = [o \in 1 .. frames[Depth].locals |-> stack[topsp - o]])'
<1>1. Good /\ Depth # 0 =>
        /\ Acts[Len(Acts)].ret = stack[topsp + 2]
        /\ Acts[Len(Acts)].args = [k \in 1 .. frames[Depth].nargs |-> stack[topsp + 3 + k]]
        /\ Acts[Len(Acts)].locals = [o \in 1 .. frames[Depth].locals |-> stack[topsp - o]]
  BY CallerIs
<1>2. QED BY <1>1, PTL

(* A write into a cell of the running function's own record.                *)
LEMMA OwnCell ==
  ASSUME Good, Good', Depth # 0, frames' = frames,
         \A c \in Indices : c > topsp + 3 + frames[Depth].nargs => stack'[c] = stack[c]
  PROVE  Acts' = [Acts EXCEPT ![Len(Acts)] = Acts'[Len(Acts)]]
<1>1. PICK d \in Nat : d = Depth
  BY FrameType DEF Good
<1>2. /\ d \in 1 .. d /\ topsp = frames[d].base /\ topsp \in Nat /\ frames[d].nargs \in Nat
      /\ Depth' = d /\ d - 1 \in 0 .. Depth
  BY <1>1, CallerIs DEF Depth
<1>3. RestOf(d - 1) = topsp + 3 + frames[d].nargs
  BY <1>1, <1>2 DEF Good, Layout, Contiguous
<1>4. \A i \in 1 .. d : i # d => ActivationOf(i)' = ActivationOf(i)
  <2> TAKE i \in 1 .. d
  <2> HAVE i # d
  <2>1. i \in 1 .. Depth /\ i \in 1 .. Depth' /\ i <= d - 1 /\ frames'[i] = frames[i]
    BY <1>1, <1>2
  <2>2. ASSUME NEW c \in Mine(i) PROVE stack'[c] = stack[c]
    <3>1. c > RestOf(d - 1) /\ c \in Indices
      BY <1>2, <2>1, MineAbove DEF Good, Mine
    <3>2. QED BY <1>1, <1>3, <3>1
  <2>3. QED BY <2>1, <2>2, SameActivation DEF Good
<1>5. Acts \in Seq(Activation) /\ Len(Acts) = d /\ \A i \in 1 .. d : Acts[i] = ActivationOf(i)
  BY <1>1, ActsIsSeq
<1>6. Acts' \in Seq(Activation) /\ Len(Acts') = d /\ \A i \in 1 .. d : Acts'[i] = ActivationOf(i)'
  BY <1>2, ActsIsSeqAfter
<1>7. Acts \in [1 .. d -> Activation] /\ Acts' \in [1 .. d -> Activation]
  BY <1>5, <1>6
<1>8. \A i \in 1 .. d : i # d => Acts'[i] = Acts[i]
  BY <1>4, <1>5, <1>6
<1>9. QED BY <1>2, <1>5, <1>7, <1>8

(* The actuals of all activations stay values when the cells a step writes  *)
(* are not theirs, or take a value.                                         *)
LEMMA ActualsStayHeld ==
  ASSUME Good, ActualsHeld, frames' = frames,
         \A i \in 1 .. Depth : \A k \in 1 .. frames[i].nargs :
           \/ stack'[frames[i].base + 3 + k] = stack[frames[i].base + 3 + k]
           \/ stack'[frames[i].base + 3 + k] \in Values
  PROVE  ActualsHeld'
<1>1. Depth' = Depth
  BY DEF Depth
<1>2. QED BY <1>1 DEF ActualsHeld

LEMMA AssignGlobalStep ==
  ASSUME Good, Good', ActualsHeld, mode \in {"stmt", "ret"}, NEW g \in GlobalVars, NEW v \in Cell,
         mode = "stmt" => v \in Values, mode = "ret" => v = retval,
         StoreGlobal(g, v, "stmt")
  PROVE  Abstract!Next /\ ActualsHeld' /\ PendingHeld'
<1> USE StackAssumption
<1>1. g \in Indices /\ g < program_var_count /\ ~(g >= STACK_SIZE)
  BY DEF GlobalVars, Indices
<1>2. /\ stack' = [stack EXCEPT ![g] = v] /\ mode' = "stmt"
      /\ UNCHANGED <<pc, retval, pending, frames>> /\ ~wrapped /\ ~wrapped'
  BY <1>1 DEF StoreGlobal, Store, Good
<1>3. /\ stack'[g] = v /\ \A c \in Indices : c # g => stack'[c] = stack[c]
  BY <1>1, <1>2 DEF Good, TypeInv, TypeOK
<1>4. \A c \in Indices : c > RestOf(Depth) => stack'[c] = stack[c]
  <2> TAKE c \in Indices
  <2> HAVE c > RestOf(Depth)
  <2>1. RestOf(Depth) \in program_var_count .. STACK_SIZE - 1
    BY Geometry DEF Good
  <2>2. c # g
    BY <1>1, <2>1 DEF Indices
  <2>3. QED BY <1>3, <2>2
<1>5. Acts' = Acts /\ ActualsHeld'
  <2>1. \A c \in Indices : c > RestOf(Depth) => stack'[c] = stack[c] \/ stack'[c] \in Values
    BY <1>4
  <2>2. QED BY <1>2, <1>4, <2>1, SameActs, SameActuals DEF Good
<1>6. Globals' = [Globals EXCEPT ![g] = v]
  <2>1. \A c \in GlobalVars : c \in Indices
    BY DEF GlobalVars, Indices
  <2>2. \A c \in GlobalVars : stack'[c] = IF c = g THEN v ELSE stack[c]
    BY <1>3, <2>1
  <2>3. QED BY <2>2 DEF Globals
<1>7. PendingActuals' = PendingActuals /\ PendingHeld'
  <2>1. pending = 0
    BY DEF Good, Layout, Prepared
  <2>2. QED BY <1>2, <2>1 DEF PendingActuals, PendingHeld
<1>8. QED BY <1>2, <1>5, <1>6, <1>7, MapsToAssignGlobal

LEMMA AssignLocalStep ==
  ASSUME Good, Good', ActualsHeld, mode \in {"stmt", "ret"}, NEW o \in LocalVars, NEW v \in Cell,
         mode = "stmt" => v \in Values, mode = "ret" => v = retval,
         StoreLocal(o, v, "stmt")
  PROVE  Abstract!Next /\ ActualsHeld' /\ PendingHeld'
<1> USE StackAssumption
<1>1. PICK d \in Nat : d = Depth
  BY FrameType DEF Good
<1>2. d # 0
  BY <1>1 DEF LocalVars, Depth, Good, TypeInv, TypeOK
<1>3. /\ d \in 1 .. d /\ topsp = frames[d].base /\ topsp \in Nat /\ Len(Acts) = d /\ Acts # << >>
      /\ frames[d].nargs \in Nat /\ frames[d].locals \in Nat
      /\ Acts[d].locals = [p \in 1 .. frames[d].locals |-> stack[topsp - p]]
      /\ Acts[d].args = [k \in 1 .. frames[d].nargs |-> stack[topsp + 3 + k]]
      /\ Acts[d].ret = stack[topsp + 2]
  BY <1>1, <1>2, CallerIs
<1> DEFINE p == o + 1
           c == topsp - p
           l == frames[d].locals
           n == frames[d].nargs
<1>4. o \in Nat /\ p \in 1 .. l /\ topsp - 1 - o = c
  <2>1. o \in 0 .. l - 1
    BY <1>1 DEF LocalVars, Current
  <2>2. l \in Nat /\ topsp \in Nat
    BY <1>3
  <2> HIDE DEF l
  <2>3. QED BY <2>1, <2>2
<1>5. /\ \A k \in 1 .. n : topsp + 3 + k \in Indices
      /\ \A q \in 1 .. l : topsp - q \in Indices
      /\ topsp + 2 \in Indices
  <2>1. /\ \A k \in 1 .. n : frames[d].base + 3 + k \in Indices
        /\ \A q \in 1 .. l : frames[d].base - q \in Indices
    BY <1>1, <1>3, MineHolds DEF Good, Mine
  <2>2. topsp + 3 < STACK_SIZE
    BY <1>1, <1>2, CallerIs
  <2>3. topsp + 2 \in Indices
    <3>1. topsp \in Nat /\ STACK_SIZE \in Nat
      BY <1>3
    <3>2. QED BY <2>2, <3>1, SecondWord DEF Indices
  <2>4. QED BY <1>3, <2>1, <2>3
<1>6. c \in Indices /\ ~(topsp < o + 1)
  <2>1. c \in Indices
    BY <1>4, <1>5
  <2>2. QED BY <1>3, <1>4, <2>1 DEF Indices
<1>7. /\ stack' = [stack EXCEPT ![c] = v] /\ mode' = "stmt"
      /\ UNCHANGED <<topsp, pc, retval, pending, frames>> /\ ~wrapped /\ ~wrapped'
  <2>1. Store(c, v, "stmt")
    BY <1>4, <1>6 DEF StoreLocal
  <2>2. ~(c >= STACK_SIZE)
    BY <1>6 DEF Indices
  <2> HIDE DEF c
  <2>3. QED BY <2>1, <2>2 DEF Store, Good
<1>8. stack'[c] = v /\ \A i \in Indices : i # c => stack'[i] = stack[i]
  <2> HIDE DEF c
  <2>1. QED BY <1>6, <1>7 DEF Good, TypeInv, TypeOK
<1>9. /\ c < topsp /\ c \in Int
      /\ \A q \in 1 .. l : topsp - q = c <=> q = p
  <2>1. p \in Nat /\ p > 0 /\ topsp \in Nat
    BY <1>3, <1>4
  <2> HIDE DEF p, l
  <2>2. QED BY <2>1
<1>10. Depth' = d
  BY <1>1, <1>7 DEF Depth
<1> DEFINE A == Acts[d]
           B == Acts'[d]
<1>11. Acts' = [Acts EXCEPT ![d] = B]
  <2>1. \A i \in Indices : i > topsp + 3 + n => stack'[i] = stack[i]
    <3> HIDE DEF c
    <3> TAKE i \in Indices
    <3> HAVE i > topsp + 3 + n
    <3>1. topsp \in Nat /\ n \in Nat /\ i \in Int /\ c \in Int /\ c < topsp
      BY <1>3, <1>9 DEF Indices
    <3>2. \A x, y \in Nat : \A e, z \in Int : e > x + 3 + y /\ z < x => e # z
      OBVIOUS
    <3> HIDE DEF n
    <3>3. i # c
      BY <3>1, <3>2
    <3>4. QED BY <1>8, <3>3
  <2>2. Len(Acts') = d
    BY <1>10, ActsIsSeqAfter
  <2>3. QED BY <1>1, <1>2, <1>3, <1>7, <2>1, <2>2, OwnCell
<1>12. /\ B.ret = stack'[topsp + 2]
       /\ B.args = [k \in 1 .. n |-> stack'[topsp + 3 + k]]
       /\ B.locals = [q \in 1 .. l |-> stack'[topsp - q]]
  <2>1. Len(Acts') = d /\ Depth' # 0
    BY <1>2, <1>10, ActsIsSeqAfter
  <2>2. QED BY <1>7, <1>10, <2>1, CallerIsAfter
<1>13. A \in Activation /\ B \in Activation
  <2>1. Acts \in Seq(Activation) /\ Acts' \in Seq(Activation) /\ Len(Acts') = d
    BY <1>10, ActsIsSeq, ActsIsSeqAfter
  <2>2. QED BY <1>3, <2>1
<1>14. B.ret = A.ret /\ B.args = A.args /\ B.locals = [A.locals EXCEPT ![p] = v]
  <2> HIDE DEF A, B, c, p
  <2>1. stack'[topsp + 2] = stack[topsp + 2]
    BY <1>3, <1>5, <1>8, <1>9
  <2>2. \A k \in 1 .. n : stack'[topsp + 3 + k] = stack[topsp + 3 + k]
    <3> TAKE k \in 1 .. n
    <3>0. topsp \in Nat /\ k \in Nat /\ c \in Int /\ c < topsp
      BY <1>3, <1>9
    <3>1. topsp + 3 + k # c
      BY <3>0, AboveRecord
    <3>2. QED BY <1>5, <1>8, <3>1
  <2>3. \A q \in 1 .. l : stack'[topsp - q] = IF q = p THEN v ELSE stack[topsp - q]
    BY <1>5, <1>8, <1>9
  <2>4. B.args = A.args
    <3>1. A.args = [k \in 1 .. n |-> stack[topsp + 3 + k]]
      BY <1>3 DEF A
    <3>2. QED BY <1>12, <2>2, <3>1
  <2>5. B.ret = A.ret
    BY <1>3, <1>12, <2>1 DEF A
  <2>6. A.locals = [q \in 1 .. l |-> stack[topsp - q]]
    BY <1>3 DEF A
  <2>7. [A.locals EXCEPT ![p] = v] = [q \in 1 .. l |-> IF q = p THEN v ELSE stack[topsp - q]]
    BY <2>6
  <2>8. B.locals = [q \in 1 .. l |-> IF q = p THEN v ELSE stack[topsp - q]]
    BY <1>12, <2>3
  <2>9. QED BY <2>4, <2>5, <2>7, <2>8
<1>15. B = [A EXCEPT !.locals[p] = v]
  <2> HIDE DEF A, B, p
  <2>1. QED BY <1>13, <1>14 DEF Activation
<1>16. Acts' = [Acts EXCEPT ![Len(Acts)].locals[p] = v]
  <2> HIDE DEF B, p
  <2>1. QED BY <1>3, <1>11, <1>15
<1>17. \A q \in GlobalVars : stack'[q] = stack[q]
  <2>1. c > RestOf(d) /\ RestOf(d) \in program_var_count .. STACK_SIZE - 1
    <3>1. c \in Mine(d)
      BY <1>1, <1>3, <1>4, MineHolds DEF Good
    <3>2. QED BY <1>1, <3>1, Geometry DEF Good, Mine
  <2> HIDE DEF c
  <2>2. \A q \in GlobalVars : q \in Indices /\ q # c
    BY <1>9, <2>1 DEF GlobalVars, Indices
  <2>3. QED BY <1>8, <2>2
<1>18. PendingActuals' = PendingActuals /\ PendingHeld'
  <2>1. pending = 0
    BY DEF Good, Layout, Prepared
  <2>2. QED BY <1>7, <2>1 DEF PendingActuals, PendingHeld
<1>19. Abstract!Next
  <2>1. Globals' = Globals
    BY <1>17, SameGlobals
  <2>2. p \in DOMAIN Acts[Len(Acts)].locals
    BY <1>3, <1>4
  <2> HIDE DEF p
  <2>3. QED BY <1>3, <1>7, <1>16, <1>18, <2>1, <2>2, MapsToAssignLocal
<1>20. ActualsHeld'
  <2> HIDE DEF c
  <2>1. ASSUME NEW i \in 1 .. Depth, NEW k \in 1 .. frames[i].nargs
        PROVE  stack'[frames[i].base + 3 + k] = stack[frames[i].base + 3 + k]
    <3>1. frames[i].base + 3 + k \in Indices
      BY MineHolds DEF Good, Mine
    <3>2. frames[i].base >= topsp /\ frames[i].base \in Nat
      <4>1. CASE i = d
        BY <1>3, <4>1
      <4>2. CASE i # d
        <5>1. /\ frames[i].base > frames[d].base + 3 + n
              /\ frames[i].base \in Nat /\ n \in Nat
          BY <1>1, <1>3, <4>2, Geometry, FrameType DEF Good
        <5>2. \A x, y, z \in Nat : x > y + 3 + z => x >= y
          OBVIOUS
        <5>3. frames[d].base = topsp /\ topsp \in Nat
          BY <1>3
        <5> HIDE DEF n
        <5>4. QED BY <5>1, <5>2, <5>3
      <4>3. QED BY <4>1, <4>2
    <3>3. \A x, y, e \in Nat : \A z \in Int : x >= y /\ z < y => x + 3 + e # z
      OBVIOUS
    <3>4. topsp \in Nat /\ c \in Int /\ c < topsp /\ k \in Nat
      BY <1>3, <1>9
    <3>5. frames[i].base + 3 + k # c
      BY <3>2, <3>3, <3>4
    <3>6. QED BY <1>8, <3>1, <3>5
  <2>2. QED BY <1>7, <2>1, ActualsStayHeld
<1>21. QED BY <1>18, <1>19, <1>20

LEMMA AssignFormalStep ==
  ASSUME Good, Good', ActualsHeld, NEW k \in Nat, NEW v \in Values, AssignFormal(k, v)
  PROVE  Abstract!Next /\ ActualsHeld' /\ PendingHeld'
<1> USE StackAssumption
<1>0. mode = "stmt" /\ mode \in Running
  BY DEF AssignFormal, Running
<1>1. PICK d \in Nat : d = Depth
  BY FrameType DEF Good
<1>2. d # 0
  BY <1>1 DEF AssignFormal, Depth, Good, TypeInv, TypeOK
<1>3. /\ d \in 1 .. d /\ topsp = frames[d].base /\ topsp \in Nat /\ Len(Acts) = d /\ Acts # << >>
      /\ frames[d].nargs \in Nat /\ frames[d].locals \in Nat
      /\ Acts[d].locals = [o \in 1 .. frames[d].locals |-> stack[topsp - o]]
      /\ Acts[d].args = [j \in 1 .. frames[d].nargs |-> stack[topsp + 3 + j]]
      /\ Acts[d].ret = stack[topsp + 2]
  BY <1>1, <1>2, CallerIs
<1>4. CASE k >= totalactuals
  BY <1>0, <1>4, StopStep DEF AssignFormal, StoreFormal, Stopped
<1>5. CASE ~(k >= totalactuals)
  <2> DEFINE p == k + 1
             c == topsp + 3 + p
             l == frames[d].locals
             n == frames[d].nargs
  <2>1. totalactuals = n
    BY <1>1, <1>2, TotalActuals DEF Good
  <2>2. p \in 1 .. n /\ topsp + 4 + k = c
    <3>1. n \in Nat /\ topsp \in Nat /\ k < n
      BY <1>3, <1>5, <2>1
    <3> HIDE DEF n
    <3>2. QED BY <3>1
  <2>3. /\ \A j \in 1 .. n : topsp + 3 + j \in Indices
        /\ \A o \in 1 .. l : topsp - o \in Indices
        /\ topsp + 2 \in Indices
    <3>1. /\ \A j \in 1 .. n : frames[d].base + 3 + j \in Indices
          /\ \A o \in 1 .. l : frames[d].base - o \in Indices
      BY <1>1, <1>3, MineHolds DEF Good, Mine
    <3>2. topsp + 3 < STACK_SIZE
      BY <1>1, <1>2, CallerIs
    <3>3. topsp + 2 \in Indices
      <4>1. topsp \in Nat /\ STACK_SIZE \in Nat
        BY <1>3
      <4>2. QED BY <3>2, <4>1, SecondWord DEF Indices
    <3>4. QED BY <1>3, <3>1, <3>3
  <2>4. c \in Indices
    BY <2>2, <2>3
  <2>5. /\ stack' = [stack EXCEPT ![c] = v] /\ mode' = "stmt"
        /\ UNCHANGED <<topsp, pc, retval, pending, frames>> /\ ~wrapped /\ ~wrapped'
    <3>1. Store(c, v, "stmt")
      BY <1>5, <2>2 DEF AssignFormal, StoreFormal
    <3>2. ~(c >= STACK_SIZE)
      BY <2>4 DEF Indices
    <3> HIDE DEF c
    <3>3. QED BY <3>1, <3>2 DEF Store, Good
  <2>6. stack'[c] = v /\ \A i \in Indices : i # c => stack'[i] = stack[i]
    <3> HIDE DEF c
    <3>1. QED BY <2>4, <2>5 DEF Good, TypeInv, TypeOK
  <2>7. /\ c > topsp + 3 /\ c <= topsp + 3 + n /\ c \in Int /\ c # topsp + 2
        /\ \A j \in 1 .. n : topsp + 3 + j = c <=> j = p
        /\ \A o \in 1 .. l : topsp - o # c
    <3>1. p \in Nat /\ p > 0 /\ topsp \in Nat /\ n \in Nat /\ l \in Nat /\ p <= n
      BY <1>3, <2>2
    <3> HIDE DEF p, l, n
    <3>2. QED BY <3>1
  <2>8. Depth' = d
    BY <1>1, <2>5 DEF Depth
  <2> DEFINE A == Acts[d]
             B == Acts'[d]
  <2>9. Acts' = [Acts EXCEPT ![d] = B]
    <3>1. \A i \in Indices : i > topsp + 3 + n => stack'[i] = stack[i]
      <4> HIDE DEF c
      <4> TAKE i \in Indices
      <4> HAVE i > topsp + 3 + n
      <4>0. n \in Nat /\ topsp \in Nat
        BY <1>3
      <4>1. topsp + 3 + n \in Int /\ i \in Int /\ c \in Int /\ c <= topsp + 3 + n
        <5> HIDE DEF n
        <5>1. topsp + 3 + n \in Int
          BY <4>0
        <5>2. i \in Int
          BY DEF Indices
        <5>3. QED BY <2>7, <5>1, <5>2
      <4>2. i # c
        <5> DEFINE e == topsp + 3 + n
        <5>1. e \in Int /\ i > e /\ c <= e
          BY <4>1
        <5> HIDE DEF e
        <5>2. QED BY <4>1, <5>1
      <4>3. QED BY <2>6, <4>2
    <3>2. Len(Acts') = d
      BY <2>8, ActsIsSeqAfter
    <3>3. QED BY <1>1, <1>2, <1>3, <2>5, <3>1, <3>2, OwnCell
  <2>10. /\ B.ret = stack'[topsp + 2]
         /\ B.args = [j \in 1 .. n |-> stack'[topsp + 3 + j]]
         /\ B.locals = [o \in 1 .. l |-> stack'[topsp - o]]
    <3>1. Len(Acts') = d /\ Depth' # 0
      BY <1>2, <2>8, ActsIsSeqAfter
    <3>2. QED BY <2>5, <2>8, <3>1, CallerIsAfter
  <2>11. A \in Activation /\ B \in Activation
    <3>1. Acts \in Seq(Activation) /\ Acts' \in Seq(Activation) /\ Len(Acts') = d
      BY <2>8, ActsIsSeq, ActsIsSeqAfter
    <3>2. QED BY <1>3, <3>1
  <2>12. B.ret = A.ret /\ B.locals = A.locals /\ B.args = [A.args EXCEPT ![p] = v]
    <3> HIDE DEF A, B, c, p
    <3>1. stack'[topsp + 2] = stack[topsp + 2]
      BY <2>3, <2>6, <2>7
    <3>2. \A o \in 1 .. l : stack'[topsp - o] = stack[topsp - o]
      BY <2>3, <2>6, <2>7
    <3>3. \A j \in 1 .. n : stack'[topsp + 3 + j] = IF j = p THEN v ELSE stack[topsp + 3 + j]
      BY <2>3, <2>6, <2>7
    <3>4. B.locals = A.locals
      <4>1. A.locals = [o \in 1 .. l |-> stack[topsp - o]]
        BY <1>3 DEF A
      <4>2. QED BY <2>10, <3>2, <4>1
    <3>5. B.ret = A.ret
      BY <1>3, <2>10, <3>1 DEF A
    <3>6. A.args = [j \in 1 .. n |-> stack[topsp + 3 + j]]
      BY <1>3 DEF A
    <3>7. [A.args EXCEPT ![p] = v] = [j \in 1 .. n |-> IF j = p THEN v ELSE stack[topsp + 3 + j]]
      BY <3>6
    <3>8. B.args = [j \in 1 .. n |-> IF j = p THEN v ELSE stack[topsp + 3 + j]]
      BY <2>10, <3>3
    <3>9. QED BY <3>4, <3>5, <3>7, <3>8
  <2>13. B = [A EXCEPT !.args[p] = v]
    <3> HIDE DEF A, B, p
    <3>1. QED BY <2>11, <2>12 DEF Activation
  <2>14. Acts' = [Acts EXCEPT ![Len(Acts)].args[p] = v]
    <3> HIDE DEF B, p
    <3>1. QED BY <1>3, <2>9, <2>13
  <2>15. \A q \in GlobalVars : stack'[q] = stack[q]
    <3>1. RestOf(d) < topsp /\ RestOf(d) \in program_var_count .. STACK_SIZE - 1
      BY <1>1, <1>3, Geometry DEF Good
    <3> DEFINE r == RestOf(d)
    <3> HIDE DEF c
    <3>2. c > program_var_count /\ c \in Int
      <4>1. topsp \in Nat /\ c \in Int /\ c > topsp + 3
        BY <1>3, <2>7
      <4>2. r \in Nat /\ program_var_count \in Nat /\ r >= program_var_count /\ r < topsp
        BY <3>1, StackAssumption
      <4> HIDE DEF r
      <4>3. QED BY <4>1, <4>2
    <3>3. \A q \in GlobalVars : q \in Indices /\ q # c
      BY <3>2 DEF GlobalVars, Indices
    <3>4. QED BY <2>6, <3>3
  <2>16. PendingActuals' = PendingActuals /\ PendingHeld'
    <3>1. pending = 0
      BY <1>0 DEF Good, Layout, Prepared
    <3>2. QED BY <2>5, <3>1 DEF PendingActuals, PendingHeld
  <2>17. Abstract!Next
    <3>1. Globals' = Globals
      BY <2>15, SameGlobals
    <3>2. p \in DOMAIN Acts[Len(Acts)].args
      BY <1>3, <2>2
    <3> HIDE DEF p
    <3>3. QED BY <1>0, <1>3, <2>5, <2>14, <2>16, <3>1, <3>2, MapsToAssignFormal
  <2>18. ActualsHeld'
    <3> HIDE DEF c
    <3>1. ASSUME NEW i \in 1 .. Depth, NEW j \in 1 .. frames[i].nargs
          PROVE  \/ stack'[frames[i].base + 3 + j] = stack[frames[i].base + 3 + j]
                 \/ stack'[frames[i].base + 3 + j] \in Values
      <4>1. frames[i].base + 3 + j \in Indices
        BY MineHolds DEF Good, Mine
      <4>2. QED BY <2>6, <4>1
    <3>2. QED BY <2>5, <3>1, ActualsStayHeld
  <2>19. QED BY <2>16, <2>17, <2>18
<1>6. QED BY <1>4, <1>5

LEMMA SetRetStep ==
  ASSUME Good, Good', ActualsHeld, NEW v \in Values, SetRet(v)
  PROVE  Abstract!Next /\ ActualsHeld' /\ PendingHeld'
<1>1. /\ ~wrapped /\ ~wrapped' /\ mode = "stmt" /\ mode' = "stmt" /\ retval' = v /\ frames # << >>
      /\ UNCHANGED <<stack, top, pc, pending, frames>>
  BY DEF Good, SetRet
<1>2. Acts' = Acts /\ Globals' = Globals /\ ActualsHeld'
  BY <1>1, SameMemory
<1>3. pending = 0 /\ Acts # << >>
  BY <1>1, CallerIs DEF Good, Layout, Prepared, TypeInv, TypeOK, Depth
<1>4. PendingActuals' = PendingActuals /\ PendingHeld'
  BY <1>1, <1>3 DEF PendingActuals, PendingHeld
<1>5. QED BY <1>1, <1>2, <1>3, <1>4, MapsToRegister

LEMMA JumpStep ==
  ASSUME Good, Good', ActualsHeld, NEW a \in Sites, Jump(a)
  PROVE  Abstract!Next /\ ActualsHeld' /\ PendingHeld'
<1>1. /\ ~wrapped /\ ~wrapped' /\ mode = "stmt" /\ mode' = "stmt" /\ pc' = a
      /\ UNCHANGED <<stack, top, retval, pending, frames>>
  BY DEF Good, Jump
<1>2. Acts' = Acts /\ Globals' = Globals /\ ActualsHeld'
  BY <1>1, SameMemory
<1>3. pending = 0
  BY <1>1 DEF Good, Layout, Prepared
<1>4. PendingActuals' = PendingActuals /\ PendingHeld'
  BY <1>1, <1>3 DEF PendingActuals, PendingHeld
<1>5. QED BY <1>1, <1>2, <1>4, MapsToRegister

LEMMA StutterStep ==
  ASSUME Good, ActualsHeld, PendingHeld, UNCHANGED vars
  PROVE  UNCHANGED Abstract!vars /\ ActualsHeld' /\ PendingHeld'
<1>1. UNCHANGED <<stack, top, pc, retval, mode, pending, frames, wrapped, answered>>
  BY DEF vars
<1>2. Acts' = Acts /\ Globals' = Globals /\ ActualsHeld'
  BY <1>1, SameMemory
<1>3. PendingActuals' = PendingActuals /\ PendingHeld'
  BY <1>1 DEF PendingActuals, PendingHeld, PendingCell
<1>4. QED BY <1>1, <1>2, <1>3 DEF Abstract!vars, Acts, Globals

-----------------------------------------------------------------------------
(* Every step, before and after the stack is exhausted. *)

LEMMA GoodStep ==
  ASSUME Good, Good', ActualsHeld, PendingHeld, [Next]_vars
  PROVE  [Abstract!Next]_Abstract!vars /\ ActualsHeld' /\ PendingHeld'
<1> DEFINE P == [Abstract!Next]_Abstract!vars /\ ActualsHeld' /\ PendingHeld'
<1> SUFFICES P
  OBVIOUS
<1>0. Values \subseteq Cell /\ Other \subseteq Cell /\ retval \in Cell
  BY StackAssumption DEF Cell, Good, TypeInv, TypeOK
<1>1. ASSUME NEW v \in Values, PushArg(v) PROVE P
  BY <1>1, PushArgStep
<1>2. CASE PushCount
  BY <1>2, PushCountStep
<1>3. ASSUME NEW a \in Sites, CallUser(a) PROVE P
  BY <1>3, CallUserStep
<1>4. ASSUME NEW a \in Sites, NEW f \in Values \ Nat, CallFunctor(a, f) PROVE P
  BY <1>4, CallFunctorStep
<1>5. CASE CallFails
  BY <1>5, StopStep DEF CallFails, Running, Stopped
<1>6. CASE \/ \E need \in 0 .. 1, v \in Values : CallLib(need, v)
           \/ CallPrint \/ CallTotalArguments \/ CallArgument
  BY <1>6, LibStep
<1>7. ASSUME NEW n \in 0 .. MaxLocals, FuncEnter(n) PROVE P
  BY <1>7, FuncEnterStep
<1>8. CASE FuncExit
  BY <1>8, FuncExitStep
<1>9. ASSUME NEW g \in GlobalVars, NEW v \in Values, AssignGlobal(g, v) PROVE P
  BY <1>0, <1>9, AssignGlobalStep DEF AssignGlobal
<1>10. ASSUME NEW o \in LocalVars, NEW v \in Values, AssignLocal(o, v) PROVE P
  BY <1>0, <1>10, AssignLocalStep DEF AssignLocal
<1>11. ASSUME NEW k \in 0 .. MaxArgs, NEW v \in Values, AssignFormal(k, v) PROVE P
  BY <1>11, AssignFormalStep
<1>12. ASSUME NEW g \in GlobalVars, GetRetGlobal(g) PROVE P
  BY <1>0, <1>12, AssignGlobalStep DEF GetRetGlobal
<1>13. ASSUME NEW o \in LocalVars, GetRetLocal(o) PROVE P
  BY <1>0, <1>13, AssignLocalStep DEF GetRetLocal
<1>14. ASSUME NEW v \in Values, SetRet(v) PROVE P
  BY <1>14, SetRetStep
<1>15. ASSUME NEW a \in Sites, Jump(a) PROVE P
  BY <1>15, JumpStep
<1>16. CASE Halt
  BY <1>16, StopStep DEF Halt, Running, Stopped
<1>17. CASE UNCHANGED vars
  BY <1>17, StutterStep
<1> HIDE DEF P
<1>18. QED
  BY <1>1, <1>2, <1>3, <1>4, <1>5, <1>6, <1>7, <1>8, <1>9, <1>10, <1>11, <1>12,
     <1>13, <1>14, <1>15, <1>16, <1>17 DEF Next

(* Once top has been reset it stays so: wrapped is never cleared.           *)
LEMMA WrappedStays ==
  ASSUME TypeInv, [Next]_vars, wrapped
  PROVE  wrapped'
<1>1. wrapped = TRUE
  BY DEF TypeInv, TypeOK
<1>2. QED
  BY <1>1 DEF Next, vars, PushArg, PushCount, Push, CallUser, CallFunctor, EnterUserFunc,
    CallFails, CallLib, CallPrint, CallTotalArguments, CallArgument, FinishLib,
    FuncEnter, FuncExit, LeaveFunc, AssignGlobal, AssignLocal, AssignFormal, GetRetGlobal,
    GetRetLocal, StoreGlobal, StoreLocal, StoreFormal, Store, SetRet, Jump, Halt, Stop

RefinementInv == TypeInv /\ LayoutInv /\ ActualsInv

LEMMA InitRefines == Init => RefinementInv /\ Abstract!Init
<1> SUFFICES ASSUME Init PROVE RefinementInv /\ Abstract!Init
  OBVIOUS
<1>1. TypeInv /\ LayoutInv
  BY InitType, InitLayout
<1>2. /\ ~wrapped /\ mode = "stmt" /\ pending = 0 /\ frames = << >> /\ Depth = 0
      /\ pc \in Sites /\ retval = UNDEF
  BY DEF Init, Depth
<1>3. ActualsInv
  BY <1>2 DEF ActualsInv, ActualsAreValues
<1>4. Globals = [g \in GlobalVars |-> UNDEF] /\ Acts = << >> /\ PendingActuals = << >>
  <2>1. \A g \in GlobalVars : stack[g] = UNDEF
    BY StackAssumption DEF Init, GlobalVars, Indices
  <2>2. QED BY <1>2, <2>1 DEF Globals, Acts, PendingActuals
<1>5. Abstract!Init
  BY <1>2, <1>4 DEF Abstract!Init, Globals, Acts, Stopped
<1>6. QED BY <1>1, <1>3, <1>5 DEF RefinementInv

LEMMA NextRefines ==
  RefinementInv /\ [Next]_vars => RefinementInv' /\ [Abstract!Next]_Abstract!vars
<1> SUFFICES ASSUME RefinementInv, [Next]_vars
             PROVE  RefinementInv' /\ [Abstract!Next]_Abstract!vars
  OBVIOUS
<1>1. TypeInv' /\ LayoutInv'
  BY NextType, NextLayout DEF RefinementInv
<1>2. CASE wrapped'
  <2>1. ActualsInv'
    BY <1>2 DEF ActualsInv
  <2>2. QED BY <1>1, <1>2, <2>1, MapsToLose DEF RefinementInv
<1>3. CASE ~wrapped'
  <2>1. ~wrapped
    BY <1>3, WrappedStays DEF RefinementInv
  <2>2. Good /\ Good' /\ ActualsHeld /\ PendingHeld
    BY <1>1, <1>3, <2>1
       DEF RefinementInv, LayoutInv, ActualsInv, ActualsAreValues, ActualsHeld, PendingHeld, Good
  <2>3. [Abstract!Next]_Abstract!vars /\ ActualsHeld' /\ PendingHeld'
    BY <2>2, GoodStep
  <2>4. ActualsInv'
    BY <2>3 DEF ActualsInv, ActualsAreValues, ActualsHeld, PendingHeld
  <2>5. QED BY <1>1, <2>3, <2>4 DEF RefinementInv
<1>4. QED BY <1>2, <1>3

(* Until ensure_expr_stack resets top, no actual of a live call or of the    *)
(* one in preparation is a control word or an undefined cell: CALLFUNC,      *)
(* FUNCENTER and stores to other variables never write over one (vm.c).      *)
THEOREM ActualsStayValues == Spec => []ActualsInv
<1>1. Init => RefinementInv
  BY InitRefines
<1>2. RefinementInv /\ [Next]_vars => RefinementInv'
  BY NextRefines
<1>3. RefinementInv => ActualsInv
  BY DEF RefinementInv
<1>4. QED BY <1>1, <1>2, <1>3, PTL DEF Spec

(* Until ensure_expr_stack resets top, vm.c's one array of cells behaves as  *)
(* a stack of activations: every callee sees the actuals its caller wrote,   *)
(* nobody else's writes reach the running function's variables, a return     *)
(* resumes the caller, and argument(i) answers actual i - for every size of   *)
(* stack and any number of globals, actuals and locals.                      *)
THEOREM CallStackImplemented == Spec => ImplementsCallStack
<1>1. Init => RefinementInv /\ Abstract!Init
  BY InitRefines
<1>2. RefinementInv /\ [Next]_vars => RefinementInv' /\ [Abstract!Next]_Abstract!vars
  BY NextRefines
<1>3. QED
  BY <1>1, <1>2, PTL DEF Spec, ImplementsCallStack, Abstract!Spec
=============================================================================
