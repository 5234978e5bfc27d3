----------------------------- MODULE MCAvmTable -----------------------------
(* AvmTable with two strings in one chain, a library function in a second   *)
(* one, and zero and NaN in a third.  The table may hold an array whose     *)
(* members are not collected in order, and which ends with a table that has *)
(* a fractional key, and a table that contains itself under a table.        *)
EXTENDS AvmPrintProps, AvmPrintText, AvmTableProps, TLC

CONSTANTS s, print, libprint, nan, zero, one, undef, half, x,
          empty, mixed, array, cycle

MCKeys == {s, print, libprint, nan, zero, undef}
MCValues == {x, array, cycle}
MCHash == s :> 1 @@ print :> 1 @@ libprint :> 2 @@ nan :> 3 @@ zero :> 3
MCStringOf == libprint :> print

Member(k, v) == [key |-> k, value |-> v]
MCInner ==
  empty :> << >> @@ cycle :> <<Member(empty, cycle)>>
  @@ array :> <<Member(one, mixed), Member(zero, x)>>
  @@ mixed :> <<Member(s, x), Member(half, x)>>
MCIndexOf == zero :> 0 @@ nan :> 0 @@ one :> 1 @@ half :> 1
MCWhole == {zero, one}
=============================================================================
