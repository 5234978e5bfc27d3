---------------------------- MODULE AvmPrintProps ---------------------------
(***************************************************************************)
(* Correctness of the recursion of AvmPrint: when it ends.                 *)
(***************************************************************************)
EXTENDS AvmPrint

(* The tables in a table, and with those in these: what is in every set that *)
(* holds the first ones and, of each of its tables, those in it.             *)
Within(members) ==
  {c \in DOMAIN Inner : \E j \in DOMAIN members : c \in {members[j].key, members[j].value}}
IsClosed(S) == \A d \in S : Within(Inner[d]) \subseteq S
Nested(members) ==
  {c \in DOMAIN Inner : \A S \in SUBSET DOMAIN Inner :
                           Within(members) \subseteq S /\ IsClosed(S) => c \in S}

(* 17_libfuncs_bonus2 ("segmentation fault -> self reference"): printing     *)
(* recurses without end only if a table contains itself; the members of the  *)
(* wrong table that it may meet make it go no deeper.                        *)
CrashNeedsCycle == phase = "crash" => \E c \in Nested(All) : c \in Nested(Inner[c])

(* objectcopy and print return, or the machine runs out of stack: no loop is *)
(* kept alive by the changes of the buffer under it.                         *)
LibraryCallsEnd == (mode = "copy" \/ phase = "print") ~> (mode = "run" /\ phase # "print")
=============================================================================
