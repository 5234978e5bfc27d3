------------------------------ MODULE CallStack -----------------------------
(***************************************************************************)
(* What the virtual machine promises an Alpha program about calls: a stack *)
(* of activations, each with its own actuals and locals, and no memory     *)
(* layout at all.  A callee sees the actuals its caller wrote, in source   *)
(* order; nothing but the running function touches the running function's  *)
(* variables; a return resumes the caller where it was.  AvmStack          *)
(* implements it for as long as the activations fit in the stack.          *)
(***************************************************************************)
EXTENDS Naturals, Sequences

CONSTANTS Sites, Cell, Values, Other, UNDEF, NIL, GlobalVars, MaxArgs, MaxLocals

VARIABLES
  globals,  \* values of the program's global variables
  acts,     \* live activations, oldest first
  pending,  \* actuals of the call being prepared, in source order
  pc, retval,
  mode,     \* "stmt", "args", "enter", "ret", "stopped", or "lost"
  answered  \* in "ret": the library function that has answered, or "none"

vars == <<globals, acts, pending, pc, retval, mode, answered>>

Depth == Len(acts)
Caller == acts[Depth]

Init ==
  /\ globals = [g \in GlobalVars |-> UNDEF]
  /\ acts = << >>
  /\ pending = << >>
  /\ pc \in Sites
  /\ retval = UNDEF
  /\ mode = "stmt"
  /\ answered = "none"

(* An actual is evaluated; the call writes them from the last to the first. *)
PushArg ==
  /\ mode \in {"stmt", "args"}
  /\ \E v \in Values : pending' = <<v>> \o pending
  /\ mode' = "args"
  /\ UNCHANGED <<globals, acts, pc, retval, answered>>

(* A call without actuals. *)
NoArgs ==
  /\ mode = "stmt"
  /\ mode' = "args"
  /\ UNCHANGED <<globals, acts, pending, pc, retval, answered>>

(* The callee gets the pending actuals, a functor gets itself before them. *)
Call ==
  /\ mode = "args"
  /\ \E self \in {<< >>} \cup {<<f>> : f \in Other} :
       acts' = Append(acts, [ret |-> pc, args |-> self \o pending, locals |-> << >>])
  /\ pc' \in Sites
  /\ pending' = << >>
  /\ mode' = "enter"
  /\ UNCHANGED <<globals, retval, answered>>

(* argument(i): actual i of the function that calls it. *)
Argument(i) ==
  IF acts = << >> THEN NIL
  ELSE IF i >= Len(Caller.args) THEN NIL
  ELSE IF Caller.args[i + 1] = UNDEF THEN NIL ELSE Caller.args[i + 1]

(* Its index is the first actual; nobody knows which if there is none. *)
Asked ==
  IF pending # << >> THEN {pending[1]} \cap Nat
  ELSE 0 .. IF acts = << >> THEN 0 ELSE Len(Caller.args)

LibAnswers(f, v) ==
  /\ mode = "args"
  /\ retval' = v /\ answered' = f
  /\ pending' = << >>
  /\ mode' = "ret"
  /\ UNCHANGED <<globals, acts, pc>>

LibCall ==
  \/ \E v \in Values \cup {NIL} : LibAnswers("other", v)
  \/ LibAnswers("totalarguments", IF acts = << >> THEN NIL ELSE Len(Caller.args))
  \/ \E i \in Asked : LibAnswers("argument", Argument(i))

Enter ==
  /\ mode = "enter"
  /\ \E n \in 0 .. MaxLocals :
       acts' = [acts EXCEPT ![Depth].locals = [o \in 1 .. n |-> UNDEF]]
  /\ mode' = "stmt"
  /\ UNCHANGED <<globals, pending, pc, retval, answered>>

Return ==
  /\ mode = "stmt" /\ acts # << >>
  /\ acts' = SubSeq(acts, 1, Depth - 1)
  /\ pc' = Caller.ret
  /\ mode' = "ret"
  /\ UNCHANGED <<globals, pending, retval, answered>>

(* One variable of the running function or of the program takes v. *)
Assign(v) ==
  /\ mode' = "stmt" /\ answered' = "none"
  /\ \/ /\ \E g \in GlobalVars : globals' = [globals EXCEPT ![g] = v]
        /\ UNCHANGED acts
     \/ /\ acts # << >>
        /\ \/ \E o \in DOMAIN Caller.locals :
                acts' = [acts EXCEPT ![Depth].locals[o] = v]
           \/ \E k \in DOMAIN Caller.args :
                acts' = [acts EXCEPT ![Depth].args[k] = v]
        /\ UNCHANGED globals
  /\ UNCHANGED <<pending, pc, retval>>

Compute == mode = "stmt" /\ \E v \in Values : Assign(v)
TakeResult == mode = "ret" /\ Assign(retval)

SetRet ==
  /\ mode = "stmt" /\ acts # << >>
  /\ retval' \in Values
  /\ UNCHANGED <<globals, acts, pending, pc, mode, answered>>

Jump ==
  /\ mode = "stmt"
  /\ pc' \in Sites
  /\ UNCHANGED <<globals, acts, pending, retval, mode, answered>>

(* The run ends, with or without a run-time error. *)
Stop ==
  /\ mode \notin {"stopped", "lost"}
  /\ mode' = "stopped" /\ answered' = "none"
  /\ pending' = << >>
  /\ UNCHANGED <<globals, acts, pc, retval>>

(* Out of stack space: nothing is promised any more. *)
Lose ==
  /\ mode' = "lost"
  /\ globals' = << >> /\ acts' = << >> /\ pending' = << >>
  /\ pc' = 0 /\ retval' = UNDEF /\ answered' = "none"

Next ==
  \/ PushArg \/ NoArgs \/ Call \/ LibCall \/ Enter \/ Return
  \/ Compute \/ TakeResult \/ SetRet \/ Jump \/ Stop \/ Lose

Spec == Init /\ [][Next]_vars
=============================================================================
