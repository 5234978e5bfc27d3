------------------------------ MODULE MCCodeGen -----------------------------
(* Code generation and the machine over every program of a few quads. *)
EXTENDS AvmRunProps

(* Names are interchangeable: the first function of a program is called f. *)
FirstIsF ==
  \A i \in DOMAIN symbols : (\A j \in DOMAIN symbols : i <= j) => symbols[i].name = "f"
=============================================================================
