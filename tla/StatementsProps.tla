--------------------------- MODULE StatementsProps --------------------------
(***************************************************************************)
(* Correctness of the statements Statements emits.                         *)
(***************************************************************************)
EXTENDS Statements

Numbers == 0 .. NextQuad(quads)

(* Labels, lists and constructs name quads that have been emitted, or the   *)
(* next one.                                                                *)
TypeOK ==
  /\ \A i \in DOMAIN quads : quads[i].label \in Numbers /\ quads[i].locals \in Nat
  /\ \A i \in DOMAIN loops : {loops[i].breaklist, loops[i].contlist} \subseteq DOMAIN quads
  /\ {returnlist, funcstart_quad} \subseteq Numbers
  /\ local_offset \in Nat /\ inside_function_depth = Cardinality(Functions)
  /\ mode \in {"parse", "accepted", "no_loop", "no_function"}

-----------------------------------------------------------------------------
(* Where a jump out of a construct has to go. *)
Due(e) ==
  IF e.kind = "continue" THEN closed[e.owner].next ELSE closed[e.owner].exit

Arrives(e) == e.owner \in DOMAIN closed => quads[e.quad].label = Due(e)

(* Every break, continue and return goes to the end, the next round, or the *)
(* funcend of the construct it belongs to, in any nesting of loops,         *)
(* branches and functions - unless a function is defined between it and the *)
(* end of that construct.                                                   *)
ExitsArrive == \A e \in exits : e.quad \notin cut => Arrives(e)

(* whilestmt and forstmt: "break -> exit", "patch any 'break' statements to *)
(* also exit the loop".                                                     *)
BreaksExitTheLoop == \A e \in exits : e.kind = "break" => Arrives(e)

(* The innermost finished function that quad i is part of; the quads of the *)
(* main program are in none.                                                *)
Within(i) == {f \in DOMAIN closed : /\ quads[f].op = "funcstart"
                                    /\ f < i /\ i <= closed[f].exit}
CodeOf(i) == IF Within(i) = {} THEN NextQuad(quads)
             ELSE CHOOSE f \in Within(i) : \A g \in Within(i) : g <= f

(* No jump crosses the border of a function: the quads of a function are    *)
(* entered by calls and left by funcend only.                               *)
JumpsStayInFunction ==
  mode = "accepted" =>
    \A i \in DOMAIN quads :
      quads[i].op \in {"jump", "if"} /\ i \notin cut =>
        CodeOf(quads[i].label) = CodeOf(i)

(* A function that defines no other reserves a cell for every variable and  *)
(* temporary of its own, and no two of them share one.  (AvmStack relies on *)
(* this; the funcstart of a function that does define another is forgotten.)*)
FramesHoldLocals ==
  \A f \in DOMAIN locals \ hosts : f \in DOMAIN closed =>
    /\ \A i \in DOMAIN locals[f] : locals[f][i] < quads[f].locals
    /\ \A i, j \in DOMAIN locals[f] : i # j => locals[f][i] # locals[f][j]

(* A break or continue is refused only outside of the loops of its own      *)
(* function, or in a loop that has defined a function before it.            *)
RefusedRightly ==
  mode = "no_loop" =>
    \A i \in Loops : \/ \E j \in Functions : j > i
                     \/ \E f \in DOMAIN closed : /\ quads[f].op = "funcstart"
                                                 /\ f > open[i].id
=============================================================================
