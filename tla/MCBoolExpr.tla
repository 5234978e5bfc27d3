----------------------------- MODULE MCBoolExpr ----------------------------
(* BoolExpr on expressions of a few operands, of all kinds or of one. *)
EXTENDS BoolExprProps

AllKinds == {"variable", "computed", "nil"}
VariablesOnly == {"variable"}
=============================================================================
