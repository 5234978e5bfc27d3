----------------------------- MODULE MCAvmStack -----------------------------
(* AvmStack on a small stack: room for two activations with locals. *)
EXTENDS AvmStackProps

CONSTANT table

MCValues == {table, 1}
MCOther == {UNDEF, NIL, LIB, table}
MCSites == {1, 2}

(* Behaviours are followed up to the first reset of top: no property says   *)
(* anything of what comes after it.                                         *)
NotExhausted == ~wrapped

(* Cells at or below top are free: they are written before they are read,  *)
(* so states that differ only there are the same state.                    *)
LiveCells ==
  IF mode \in Stopped THEN <<mode, pending, Depth>>
  ELSE <<[i \in Indices |-> IF i > top \/ i < program_var_count
                            THEN stack[i] ELSE UNDEF],
         top, topsp, enclosing_topsp, pc, retval, mode, pending,
         frames, wrapped, IF mode = "ret" THEN answered ELSE "none">>
=============================================================================
