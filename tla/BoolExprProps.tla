---------------------------- MODULE BoolExprProps ---------------------------
(***************************************************************************)
(* Correctness of the quads BoolExpr emits.                                *)
(***************************************************************************)
EXTENDS BoolExpr

(* Labels of jumps and lists of expressions are quad numbers. *)
Labels == 0 .. NextQuad(quads)

TypeOK ==
  /\ \A i \in DOMAIN quads : /\ quads[i].label \in Labels
                             /\ quads[i].x \in DOMAIN cell
  /\ \A i \in DOMAIN exprs :
       /\ {exprs[i].truelist, exprs[i].falselist} \subseteq Labels
       /\ exprs[i].place \in DOMAIN cell
  /\ cell \in [0 .. Result -> {T, F, U}]
  /\ mode \in {"parse", "run", "done", "loop", "clobbered"}
  /\ pc \in Labels /\ lost \in BOOLEAN

-----------------------------------------------------------------------------
(* While an expression is parsed: the jumps that have neither a target nor  *)
(* a successor on a list, and the lists.                                    *)
Jumps == {i \in DOMAIN quads : quads[i].op \in Tests}
Open == {i \in Jumps : quads[i].label = 0}

Lists == {i \in DOMAIN exprs : IsBool(exprs[i])} \X {"true", "false"}
Members(l) ==
  On(quads, IF l[2] = "true" THEN exprs[l[1]].truelist ELSE exprs[l[1]].falselist)

(* Every jump without a target is on a list, and no quad is on two: what    *)
(* newlist, mergelist and the operators pass on is never lost, shared or    *)
(* completed twice.  Lists cannot hold quad 0, and a few operands make an   *)
(* operator lose a list.                                                    *)
JumpsAreListed ==
  mode = "parse" /\ ~lost /\ 0 \notin Open =>
    /\ Open \subseteq UNION {Members(l) : l \in Lists}
    /\ \A l \in Lists : Members(l) \subseteq Jumps
    /\ \A l1, l2 \in Lists : l1 # l2 => Members(l1) \cap Members(l2) = {}

(* Whatever its operands, operators and place in the program, a sound       *)
(* expression gives the value Alpha's semantics give, and its quads never   *)
(* jump backwards.                                                          *)
SoundExpressionsAreRight ==
  /\ mode = "done" /\ exprs[1].sound => cell[answer] = exprs[1].val
  /\ mode = "loop" => ~exprs[1].sound

(* 25_delegation.asc tests `go_on and i < keys_length' and says that go_on  *)
(* decides whether to "continue or stop": an expression has the value of    *)
(* its operands and operators.                                              *)
ExpressionsAreRight == mode = "done" => cell[answer] = exprs[1].val
=============================================================================
