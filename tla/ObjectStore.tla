------------------------------ MODULE ObjectStore ---------------------------
(***************************************************************************)
(* What the virtual machine promises an Alpha program about its tables:    *)
(* objects with identity, shared by reference, that live for as long as    *)
(* the program can reach them.  Nothing counts references here.  An object *)
(* that is only a key of another may go, and all is lost if it does.       *)
(***************************************************************************)
EXTENDS Naturals, FiniteSets

CONSTANTS Tables, Cells, Scalars, UNDEF, NIL, Keys

VARIABLES
  cell, retval,
  objs,  \* the objects that exist, and what each binds its keys to
  mode   \* "run", "use_after_free" or "done"

vars == <<cell, retval, objs, mode>>

Existing == DOMAIN objs
Named == {cell[c] : c \in Cells} \cup {retval} \cup Scalars \cup {UNDEF, NIL}

Init ==
  /\ cell = [c \in Cells |-> UNDEF]
  /\ retval = UNDEF
  /\ objs = << >>
  /\ mode = "run"

(* The objects become o, but any of those that are out of reach may go,     *)
(* together with everything that names them.                                *)
Keeps(S, o) ==
  /\ ({cell'[c] : c \in Cells} \cup {retval'}) \cap DOMAIN o \subseteq S
  /\ \A t \in S, k \in Keys : o[t][k] \in DOMAIN o => o[t][k] \in S

Become(o) ==
  /\ \E S \in SUBSET DOMAIN o : Keeps(S, o) /\ objs' = [t \in S |-> o[t]]
  /\ UNCHANGED mode

With(d, m) == [t \in Existing \cup {d} |-> IF t = d THEN m ELSE objs[t]]

(* A cell, or the result register, takes a value the program has. *)
Move ==
  \/ \E c \in Cells, v \in Named : cell' = [cell EXCEPT ![c] = v] /\ UNCHANGED retval
  \/ retval' \in Named /\ UNCHANGED cell

New(c) ==
  \E d \in Tables \ Existing :
    /\ cell' = [cell EXCEPT ![c] = d]
    /\ UNCHANGED retval
    /\ Become(With(d, [k \in Keys |-> NIL]))

Get(c, d, k) ==
  /\ cell[d] \in Existing
  /\ cell' = [cell EXCEPT ![c] = objs[cell[d]][k]]
  /\ UNCHANGED retval
  /\ Become(objs)

Set(c, k, v) ==
  /\ cell[c] \in Existing
  /\ UNCHANGED <<cell, retval>>
  /\ Become([objs EXCEPT ![cell[c]][k] = v])

(* objectcopy and objectmemberkeys *)
BoundKeys(t) == {k \in Keys : objs[t][k] # NIL}

Copy(c) ==
  /\ cell[c] \in Existing
  /\ retval' \in Tables \ Existing
  /\ UNCHANGED cell
  /\ Become(With(retval', objs[cell[c]]))

KeysOf(c) ==
  LET keys == BoundKeys(cell[c])
      index == 0 .. Cardinality(keys) - 1 IN
  /\ cell[c] \in Existing
  /\ retval' \in Tables \ Existing
  /\ UNCHANGED cell
  /\ \E order \in [index -> keys] :
       /\ \A k \in keys : \E i \in index : order[i] = k
       /\ Become(With(retval', [k \in Keys |-> IF k \in index THEN order[k] ELSE NIL]))

(* An object that is gone is still a key: using the key is not defined. *)
Lost ==
  /\ \E t \in Existing, k \in (Keys \cap Tables) \ Existing : objs[t][k] # NIL
  /\ mode' = "use_after_free"
  /\ UNCHANGED <<cell, retval, objs>>

End == mode' = "done" /\ UNCHANGED <<cell, retval, objs>>

Next ==
  /\ mode = "run"
  /\ \/ Move /\ Become(objs)
     \/ \E c \in Cells : New(c) \/ Copy(c) \/ KeysOf(c)
     \/ \E c, d \in Cells, k \in Keys : Get(c, d, k)
     \/ \E c \in Cells, k \in Keys, v \in Named : Set(c, k, v)
     \/ Lost
     \/ End

Spec == Init /\ [][Next]_vars
=============================================================================
