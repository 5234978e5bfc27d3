---------------------------- MODULE MCStatements ---------------------------
(* Statements over every program of a few quads. *)
EXTENDS StatementsProps
=============================================================================
