------------------------------ MODULE MCScopes ------------------------------
(* Scopes and names, in the three states of the compiler. *)
EXTENDS ScopesProps

MCTempNames == <<"_t0">>
MCFormals == {<< >>, <<"x">>, <<"x", "x">>, <<"print">>}
=============================================================================
