----------------------------- MODULE ScopesProps ----------------------------
(***************************************************************************)
(* What a name means, in the three states of the compiler, and which       *)
(* variables share a cell.                                                 *)
(***************************************************************************)
EXTENDS Scopes

Visible(name) == {i \in DOMAIN table : table[i].name = name /\ table[i].block # Over}
Innermost(name) ==
  {i \in Visible(name) : \A j \in Visible(name) : table[j].scope <= table[i].scope}
Found == table[last.found]

(* Depths are depths, and offsets count what they have been given to. *)
TypeOK ==
  /\ checkScope = Cardinality(DOMAIN open) + Cardinality(OpenFunctions) * (FunctionScopes - 1)
  /\ inside_function_depth = Cardinality(OpenFunctions)
  /\ \A i \in DOMAIN table : table[i].scope <= checkScope \/ table[i].block = Over
  /\ global_offset = Cardinality({i \in DOMAIN table : table[i].space = "programvar"})
  /\ last.found \in 0 .. Len(table)

(* What a search does not take: Phase 3 complains of a variable if a        *)
(* function has been defined at a depth in between, and goes on outwards;   *)
(* Phase 2, outside of functions, goes on at every variable of a block.     *)
Overlooked ==
  \E i \in Visible(last.name) :
    /\ Between(table, i, checkScope)
    /\ \/ version = "phase3" /\ Crosses(table, i, checkScope)
       \/ version = "phase2" /\ Owner = 0

(* lookup_symbol: a name means its innermost declaration, unless it is      *)
(* refused or is taken for something whose block is over: a function that   *)
(* is not switched off, or in Phase 3 anything.                             *)
ResolvesToInnermost ==
  last.how = "refer" /\ last.found # 0 =>
    \/ last.found \in Innermost(last.name) \/ Overlooked
    \/ /\ Found.block = Over
       /\ version = "phase3" \/ (version = "phases4_5" /\ Found.type = "userfunc")

(* Phase 2, Error1.asc and others: a function cannot reach variables of the *)
(* functions and blocks around it, those of scope 0 excepted.               *)
AcceptedAreOwn ==
  version = "phase2" /\ last.how = "refer" /\ last.found # 0 =>
    Found.type \in Functions \/ Found.scope = 0 \/ Found.owner = Owner

(* assign_space_and_offset: variables of one function never share a cell,   *)
(* unless the function defines another one and goes on behind it.           *)
CellsAreDistinct ==
  version = "phases4_5" =>
    \A i, j \in DOMAIN table :
      /\ i # j /\ table[i].space = table[j].space /\ table[i].offset = table[j].offset
      /\ table[i].space = "programvar" \/ table[i].owner = table[j].owner
      => /\ table[i].space # "programvar"
         /\ table[i].owner = Over \/ open[table[i].owner].hosts

-----------------------------------------------------------------------------
(* The environments: one for each open scope. *)
Declared(scope, name) == {i \in Visible(name) : table[i].scope = scope}

(* Functions of blocks that are over, and still found. *)
Stale == {i \in DOMAIN table : table[i].type = "userfunc" /\ table[i].block = Over}

Env == [s \in 1 .. checkScope + 1 |->
          [n \in Names |-> IF Declared(s - 1, n) = {} THEN 0 ELSE Min(Declared(s - 1, n))]]
Mode ==
  IF version = "phases4_5" /\ \A i \in Stale : table[i].name = "$" THEN "scoped" ELSE "lost"

Environments == INSTANCE Environments WITH
  env <- Env, declared <- Len(table), answer <- last.found, mode <- Mode

(* The final compiler's names follow the scoping rules, up to the end of a  *)
(* block that defines a named function.                                     *)
ImplementsEnvironments == Environments!Spec
=============================================================================
