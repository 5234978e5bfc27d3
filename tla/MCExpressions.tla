---------------------------- MODULE MCExpressions ---------------------------
(* Expressions over a number, a table, functions and two variables. *)
EXTENDS ExpressionsProps
=============================================================================
