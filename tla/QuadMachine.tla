----------------------------- MODULE QuadMachine ----------------------------
(***************************************************************************)
(* What a program of quads means: the quads are executed where they stand, *)
(* a jump names a quad, a call names a function, and a call has a result   *)
(* of its own.  No instructions, no addresses, no registers.               *)
(*                                                                         *)
(* Functions are named by the number of their funcstart.                   *)
(***************************************************************************)
EXTENDS Integers, Sequences, FiniteSets

VARIABLES
  prog,     \* [quads, symbols]: the quads, and the name of every function
  at,       \* the quad to execute next
  returns,  \* quads to return to, innermost first
  x,        \* the value of the program's variable
  result,   \* what the last call has returned, None if it is used up or never was
  mode      \* "idle", "run", "halted", "error" (run-time error), "stopped"

vars == <<prog, at, returns, x, result, mode>>

Undef == [type |-> "undef", value |-> 0]
Number(n) == [type |-> "number", value |-> n]
Func(f) == [type |-> "userfunc", value |-> f]
None == [type |-> "none", value |-> 0]

NoProgram == [quads |-> << >>, symbols |-> << >>]

(* The functions that quad q may mean by f.  A name is that of f alone as   *)
(* long as no other function has taken it before q.                         *)
Meant(f, q) ==
  {g \in DOMAIN prog.symbols :
     f <= g /\ g <= q /\ prog.symbols[g].name = prog.symbols[f].name}

Values(e, q) ==
  CASE e.type = "constnum" -> {Number(e.value)}
    [] e.type = "programfunc" -> {Func(g) : g \in Meant(e.value, q)}
    [] OTHER -> {x}

(* The funcend of the function that starts at f. *)
Balanced(f, e) ==
  Cardinality({i \in f .. e : prog.quads[i].op = "funcstart"}) =
  Cardinality({i \in f .. e : prog.quads[i].op = "funcend"})
End(f) ==
  CHOOSE e \in DOMAIN prog.quads :
    e > f /\ Balanced(f, e) /\ \A d \in f .. e - 1 : ~Balanced(f, d)

(* Comparisons: equality is of values of one kind and never of undefined    *)
(* ones, order is of numbers.                                               *)
Same(a, b) == a.type = b.type /\ a.type # "undef" /\ a.value = b.value
Numeric(a, b) == a.type = "number" /\ b.type = "number"
Holds(op, a, b) ==
  \/ op = "if_eq" /\ Same(a, b)
  \/ op = "if_noteq" /\ ~Same(a, b)
  \/ op = "if_less" /\ Numeric(a, b) /\ a.value < b.value
  \/ op = "if_lesseq" /\ Numeric(a, b) /\ a.value <= b.value
  \/ op = "if_greater" /\ Numeric(a, b) /\ a.value > b.value
  \/ op = "if_greatereq" /\ Numeric(a, b) /\ a.value >= b.value

-----------------------------------------------------------------------------
(* Any program. *)
Load ==
  /\ mode = "idle" /\ mode' = "run"
  /\ prog' # NoProgram
  /\ at' = 0
  /\ UNCHANGED <<returns, x, result>>

Running == mode = "run" /\ at \in DOMAIN prog.quads
Q == prog.quads[at]

Assign ==
  /\ Running /\ Q.op = "assign"
  /\ \E v \in Values(Q.arg1, at) : x' = v
  /\ at' = at + 1
  /\ UNCHANGED <<prog, returns, result, mode>>

Test ==
  /\ Running
  /\ Q.op \in {"if_eq", "if_noteq", "if_less", "if_lesseq", "if_greater", "if_greatereq"}
  /\ \E a \in Values(Q.arg1, at), b \in Values(Q.arg2, at) :
       at' = IF Holds(Q.op, a, b) THEN Q.label ELSE at + 1
  /\ UNCHANGED <<prog, returns, x, result, mode>>

Goto ==
  /\ Running /\ Q.op = "jump"
  /\ at' = Q.label
  /\ UNCHANGED <<prog, returns, x, result, mode>>

(* A function is a value: its code is passed over. *)
Define ==
  /\ Running /\ Q.op = "funcstart"
  /\ at' = End(at) + 1
  /\ UNCHANGED <<prog, returns, x, result, mode>>

Param ==
  /\ Running /\ Q.op = "param"
  /\ at' = at + 1
  /\ UNCHANGED <<prog, returns, x, result, mode>>

Call ==
  /\ Running /\ Q.op = "call"
  /\ \E f \in Values(Q.arg1, at) :
       IF f.type = "userfunc"
       THEN /\ at' = f.value + 1
            /\ returns' = <<at + 1>> \o returns
            /\ result' = None
            /\ UNCHANGED mode
       ELSE mode' = "error" /\ UNCHANGED <<at, returns, result>>
  /\ UNCHANGED <<prog, x>>

Return ==
  /\ Running /\ Q.op = "ret"
  /\ \E v \in Values(Q.arg1, at) : result' = v
  /\ at' = at + 1
  /\ UNCHANGED <<prog, returns, x, mode>>

Leave ==
  /\ Running /\ Q.op = "funcend" /\ returns # << >>
  /\ at' = Head(returns)
  /\ returns' = Tail(returns)
  /\ UNCHANGED <<prog, x, result, mode>>

(* What a call yields that has returned nothing is left open. *)
Result ==
  /\ Running /\ Q.op = "getretval"
  /\ result # None => x' = result
  /\ result' = None
  /\ at' = at + 1
  /\ UNCHANGED <<prog, returns, mode>>

Halt ==
  /\ mode = "run" /\ at \notin DOMAIN prog.quads
  /\ mode' = "halted"
  /\ UNCHANGED <<prog, at, returns, x, result>>

(* The machine may lose its patience. *)
Stop ==
  /\ mode = "run"
  /\ mode' = "stopped"
  /\ UNCHANGED <<prog, at, returns, x, result>>

Init ==
  /\ prog = NoProgram /\ at = 0 /\ returns = << >>
  /\ x = Undef /\ result = None /\ mode = "idle"

Next ==
  \/ Load
  \/ Assign \/ Test \/ Goto \/ Define \/ Param \/ Call \/ Return \/ Leave \/ Result
  \/ Halt \/ Stop

Spec == Init /\ [][Next]_vars
=============================================================================
