------------------------------- MODULE AvmPrint -----------------------------
(***************************************************************************)
(* How the machine prints the table of AvmTable, whose values may be       *)
(* tables (vm.c): table_tostring_rec collects the members of a table in a  *)
(* buffer, walks through the buffer, and calls itself for a member that is *)
(* a table.  There is one buffer for all of these calls.                   *)
(*                                                                         *)
(* Text is left out: what is printed is a sequence of brackets and of the  *)
(* cells that are no tables.  The other tables of the program are fixed.   *)
(***************************************************************************)
EXTENDS AvmTable, FiniteSets

CONSTANTS
  Inner,    \* the members of every other table, as collected
  IndexOf,  \* what each key that is a number is truncated to
  Whole,    \* the keys among them that are natural numbers
  MaxDepth  \* bound on the depth of recursion, for the memory of C's stack

(* C's stack has room for every other table within the next one. *)
ASSUME PrintAssumption ==
  /\ MaxDepth \in Nat /\ IsFiniteSet(DOMAIN Inner) /\ Cardinality(DOMAIN Inner) < MaxDepth
  /\ NIL \notin DOMAIN Inner /\ Whole \subseteq DOMAIN IndexOf
  /\ \A c \in DOMAIN Inner : Inner[c] \in Seq(Range(Inner[c]))

VARIABLES
  phase,       \* "idle", "print", "crash" (out of stack)
  frames,      \* the calls of table_tostring_rec, outermost first
  collected,   \* the buffer, with what is left of earlier collections
  collected_n,
  text

printing == <<phase, frames, collected, collected_n, text>>
allvars == <<vars, printing>>

Depth == Len(frames)
Frame == frames[Depth]
IsTable(c) == c \in DOMAIN Inner

-----------------------------------------------------------------------------
(* collect_table_members: entries behind the last one keep what they had. *)
Buffer(members) == SubSeq(members, 1, IF Len(members) <= COLLECTED THEN Len(members)
                                      ELSE COLLECTED)
Over(members) ==
  members \o SubSeq(collected, Len(members) + 1, Len(collected))

(* is_compact_array *)
IsCompact(members) ==
  /\ \A j \in DOMAIN members : members[j].key \in Whole
  /\ \A i \in DOMAIN members : \E j \in DOMAIN members : IndexOf[members[j].key] = i - 1

(* Mutant of ValueAt: the i-th member for the member at index i. *)
ValueInPlace(i) == IF i < collected_n THEN collected[i + 1].value ELSE NIL

(* value_at_index.  Behind a table that was printed in between, the buffer  *)
(* may hold keys that are no natural numbers: they are found truncated.     *)
ValueAt(i) ==
  LET S == {j \in 1 .. collected_n : /\ collected[j].key \in DOMAIN IndexOf
                                     /\ IndexOf[collected[j].key] = i} IN
  IF S = {} THEN NIL ELSE collected[First(S)].value

(* Mutant of Enter: the members are not collected. *)
EnterUncollected(members, below) ==
  /\ frames' = Append(below, [i |-> 0, compact |-> IsCompact(members), part |-> "key"])
  /\ text' = Append(text, "[")
  /\ UNCHANGED <<phase, collected, collected_n>>

(* A call of table_tostring_rec, up to its loop. *)
Enter(members, below) ==
  LET b == Buffer(members) IN
  /\ collected' = Over(b) /\ collected_n' = Len(b)
  /\ frames' = Append(below, [i |-> 0, compact |-> IsCompact(b), part |-> "key"])
  /\ text' = Append(text, "[")
  /\ UNCHANGED phase

(* cell_tostring_rec; frame is where the loop goes on. *)
Show(c, frame) ==
  LET below == [frames EXCEPT ![Depth] = frame] IN
  \/ /\ ~IsTable(c)
     /\ text' = Append(text, c) /\ frames' = below
     /\ UNCHANGED <<phase, collected, collected_n>>
  \/ /\ IsTable(c) /\ Depth < MaxDepth
     /\ Enter(Inner[c], below)
  \/ /\ IsTable(c) /\ Depth >= MaxDepth
     /\ phase' = "crash"
     /\ UNCHANGED <<frames, collected, collected_n, text>>

-----------------------------------------------------------------------------
(* print: nobody reads the result register before the call returns. *)
PrintStart ==
  /\ phase = "idle" /\ mode = "run"
  /\ phase' = "print"
  /\ frames' = <<[i |-> 0, compact |-> IsCompact(Collected), part |-> "key"]>>
  /\ collected' = Collected /\ collected_n' = Len(Collected)
  /\ text' = <<"[">>
  /\ answer' = <<NIL>>
  /\ UNCHANGED <<chains, copy, chain, pos, mode>>

Printing == phase = "print" /\ frames # << >> /\ UNCHANGED vars
Next1 == [Frame EXCEPT !.i = @ + 1, !.part = "key"]

(* The loop of table_tostring_rec over a compact array. *)
ShowElement ==
  /\ Printing /\ Frame.compact /\ Frame.i < collected_n
  /\ Show(ValueAt(Frame.i), Next1)

(* The other loop: a key, and the value that is now in its place. *)
ShowKey ==
  /\ Printing /\ ~Frame.compact /\ Frame.part = "key" /\ Frame.i < collected_n
  /\ Show(collected[Frame.i + 1].key, [Frame EXCEPT !.part = "value"])

ShowValue ==
  /\ Printing /\ ~Frame.compact /\ Frame.part = "value"
  /\ Show(collected[Frame.i + 1].value, Next1)

Close ==
  /\ Printing /\ Frame.part = "key" /\ Frame.i >= collected_n
  /\ frames' = Front(frames)
  /\ text' = Append(text, "]")
  /\ UNCHANGED <<phase, collected, collected_n>>

(* What the buffer holds is not read before it has been overwritten. *)
PrintEnd ==
  /\ phase = "print" /\ frames = << >>
  /\ phase' = "idle"
  /\ collected' = << >> /\ collected_n' = 0 /\ text' = << >>
  /\ UNCHANGED <<vars, frames>>

PrintStep == ShowElement \/ ShowKey \/ ShowValue \/ Close \/ PrintEnd
CopyStep == CopyBinding \/ CopyNextChain \/ CopyEnd

PrintInit ==
  /\ Init
  /\ phase = "idle" /\ frames = << >>
  /\ collected = << >> /\ collected_n = 0 /\ text = << >>

TableNext == phase = "idle" /\ Next /\ UNCHANGED printing
PrintNext == TableNext \/ PrintStart \/ PrintStep

(* A library function that has been called is executed without a pause; the *)
(* program need not call one.                                               *)
LibraryStep == (CopyStep /\ UNCHANGED printing) \/ PrintStep

PrintSpec == PrintInit /\ [][PrintNext]_allvars /\ WF_allvars(LibraryStep)
=============================================================================
