----------------------------- MODULE AvmRunProps ----------------------------
(***************************************************************************)
(* Correctness of the generated code, and of the machine that runs it.     *)
(***************************************************************************)
EXTENDS AvmRun

Ended == {"halted", "infinite_loop", "error", "assert_failed", "overrun", "wild"}
Generated == phase \notin {"parse", "generate", "assert_failed", "overrun"}

(* Addresses are addresses, and only the known ends are reached. *)
TypeOK ==
  /\ phase \in {"parse", "generate", "run"} \cup Ended
  /\ next \in 0 .. currQuad /\ Len(taddress) = next
  /\ currInstruction <= MaxInstructions
  /\ pc \in 0 .. currInstruction /\ steps \in 0 .. MAX_EXEC_STEPS
  /\ \A i \in DOMAIN returns : returns[i] \in 0 .. currInstruction
  /\ \A j \in ijumps : j[1] < currInstruction /\ j[2] \in 0 .. MaxQuads

(* generate_relational and patch_incomplete_jumps: whether a jump was       *)
(* completed at once or patched, it goes to the first instruction of the    *)
(* quad it names, or behind the last instruction.                           *)
JumpsResolved ==
  Generated =>
    \A i \in 0 .. currQuad - 1 :
      quads[i].op \in DOMAIN JumpOpcode =>
        instructions[taddress[i + 1] + 1].result.value = Start(quads[i].label)

(* Quad i names the function that starts at f. *)
RefersTo(i, f) == quads[i].arg1 = ProgramFunc(f) /\ quads[i].op \in {"assign", "ret", "call"}
Entered(i) == instructions[taddress[i + 1] + 1].arg1

(* make_operand: a function reached by name is the one that was meant,      *)
(* unless a function defined after it took its name: that one is reached    *)
(* then, although its scope may be over.                                    *)
NamesReachTheirFunction ==
  Generated =>
    \A i \in DOMAIN quads, f \in DOMAIN symbols :
      /\ RefersTo(i, f)
      /\ \A g \in DOMAIN symbols : symbols[g].name = symbols[f].name /\ g < i => g <= f
      => Entered(i) = Arg("userfunc_a", Start(f) + 2)

(* generate_FUNCSTART and generate_FUNCEND: code is entered by calls only,  *)
(* so no FUNCEXIT runs outside of one, however functions are nested.        *)
EnteredByCallsOnly == phase # "wild"

(* vm_run: a program that has been written is compiled and runs to an end,  *)
(* also when it loops or recurses forever.                                  *)
EveryRunEnds == (phase = "generate") ~> (phase \in Ended)

-----------------------------------------------------------------------------
(* The quad whose instructions pc is among; past the jump over a function   *)
(* it is the quad after the function, at FUNCENTER the first of its quads.  *)
QuadOf(p) ==
  IF p >= currInstruction THEN currQuad
  ELSE LET q == CHOOSE i \in DOMAIN quads :
                  /\ taddress[i + 1] <= p
                  /\ \A j \in DOMAIN quads : taddress[j + 1] <= p => j <= i
       IN  CASE p = taddress[q + 1] -> q
             [] p = taddress[q + 1] + 1 -> CHOOSE i \in 0 .. currQuad : Start(i) = I.result.value
             [] OTHER -> q + 1

Seen(v) ==
  IF v.type = "userfunc"
  THEN [v EXCEPT !.value = CHOOSE f \in DOMAIN symbols : Start(f) + 2 = v.value]
  ELSE v

(* What the machine of the quads is taken to be: no program until the code  *)
(* is complete, then the program, the quad whose code runs, and the quads   *)
(* that calls return to.                                                    *)
ProgramSeen ==
  IF Generated THEN [quads |-> quads, symbols |-> symbols]
               ELSE [quads |-> << >>, symbols |-> << >>]
QuadSeen == IF Generated THEN QuadOf(pc) ELSE 0
ReturnsSeen == [k \in DOMAIN returns |-> QuadOf(returns[k])]
ModeSeen ==
  CASE ~Generated -> "idle"
    [] phase = "infinite_loop" -> "stopped"
    [] OTHER -> phase

QuadMachine == INSTANCE QuadMachine WITH
  prog <- ProgramSeen,
  at <- QuadSeen,
  returns <- ReturnsSeen,
  x <- Seen(stack[0]),
  result <- Seen(result),
  mode <- ModeSeen

(* The code does what the quads say: jumps, definitions, calls, returns and *)
(* results, until the machine stops.                                        *)
ImplementsQuads == QuadMachine!Spec
=============================================================================
