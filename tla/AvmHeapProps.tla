---------------------------- MODULE AvmHeapProps ----------------------------
(***************************************************************************)
(* Correctness of the reference counts of AvmHeap.                         *)
(***************************************************************************)
EXTENDS AvmHeap

(* An allocated table has been counted, since avm_table_new starts at 0; one *)
(* that is not allocated has no count and no bindings.                      *)
TypeOK ==
  /\ cell \in [Cells -> Value] /\ retval \in Value
  /\ live \subseteq Tables
  /\ ref \in [Tables -> Nat]
  /\ members \in [Tables -> [Keys -> Value]]
  /\ \A t \in live : ref[t] > 0
  /\ \A t \in Tables \ live : ref[t] = 0 /\ members[t] = Empty
  /\ mode \in {"run", "use_after_free", "done"}

(* What names table t and must be counted: cells, the result register, and  *)
(* the values (not the keys) of tables.                                     *)
Holders(t) ==
  Cardinality({c \in Cells : cell[c] = t})
    + Cardinality({b \in live \X Keys : members[b[1]][b[2]] = t})
    + (IF retval = t THEN 1 ELSE 0)

(* A count is never below the number of references to its table: NEWTABLE,  *)
(* GETRET, TABLEGETELM and the library forget references (tables leak), and *)
(* no instruction drops one that is still held or drops one twice.          *)
CountsCover == \A t \in live : ref[t] >= Holders(t)

(* No cell, result or value of a live table names a table that was freed.   *)
HeldIsLive ==
  /\ \A c \in Cells : cell[c] \in Tables => cell[c] \in live
  /\ retval \in Tables => retval \in live
  /\ \A t \in live, k \in Keys : members[t][k] \in Tables => members[t][k] \in live

(* The machine touches a freed table, in an instruction or in avm_destroy,  *)
(* in one case only: a live table has it as a key, which is not counted.    *)
CrashNeedsDeadKey ==
  mode = "use_after_free" => \E t \in live : Bound(t) \cap (Tables \ live) # {}

-----------------------------------------------------------------------------
Store == INSTANCE ObjectStore WITH objs <- [t \in live |-> members[t]]

(* The counts implement objects that live for as long as they can be        *)
(* reached: a table is freed only when nothing but keys names it, an address*)
(* that comes back is a new object, and every instruction does to a cell,   *)
(* the result register and a table what the program asks for, until a table *)
(* that was freed is used as the key it still is.                           *)
ImplementsObjectStore == Store!Spec
=============================================================================
