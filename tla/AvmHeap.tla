------------------------------- MODULE AvmHeap ------------------------------
(***************************************************************************)
(* Run-time tables and their reference counts in the virtual machine       *)
(* (vm.c): which instructions count a reference, which of them forget one, *)
(* and what is freed when a count reaches zero.                            *)
(*                                                                         *)
(* A cell is any of the machine's stack (a variable, a temporary or an     *)
(* actual); retval is the result register.  What a table holds is a mapping*)
(* from keys to values, nil for none: AvmTable is about its chains.        *)
(***************************************************************************)
EXTENDS Naturals, FiniteSets

CONSTANTS
  Tables,      \* addresses malloc can return
  Cells,       \* cells of the stack
  Scalars,     \* contents that are neither tables, nil nor undef
  UNDEF, NIL,
  Literals,    \* the scalars instructions and library functions give
  Keys,        \* scalars and tables used as keys
  MaxRefs,     \* bound on a reference count
  MaxMembers   \* bound on the bindings of all tables

Value == Scalars \cup Tables \cup {UNDEF, NIL}

ASSUME HeapAssumption ==
  /\ IsFiniteSet(Tables) /\ IsFiniteSet(Cells) /\ IsFiniteSet(Keys)
  /\ Literals \subseteq Scalars
  /\ Keys \subseteq Scalars \cup Tables
  /\ Scalars \cap Tables = {} /\ {UNDEF, NIL} \cap (Scalars \cup Tables) = {}
  /\ UNDEF # NIL
  /\ MaxRefs \in Nat /\ MaxMembers \in Nat
  /\ 0 .. MaxMembers - 1 \subseteq Keys

VARIABLES
  cell, retval,
  live,     \* tables allocated and not freed
  ref,      \* refCounter of each
  members,  \* what each table binds its keys to
  mode      \* "run", "use_after_free", or "done" after avm_destroy

vars == <<cell, retval, live, ref, members, mode>>

Empty == [k \in Keys |-> NIL]
Bound(t) == {k \in Keys : members[t][k] # NIL}
Bindings == {b \in live \X Keys : members[b[1]][b[2]] # NIL}

None == [t \in Tables |-> 0]
One(v) == [t \in Tables |-> IF t = v THEN 1 ELSE 0]

-----------------------------------------------------------------------------
(* Reference counts *)

(* The program touches a freed table: anything may follow. *)
Crash == mode' = "use_after_free" /\ UNCHANGED <<cell, retval, live, ref, members>>

(* References to u dropped when those of `drops' are and the tables of S   *)
(* are freed, each with the values it holds in m but not with its keys.    *)
Dropped(m, drops, S, u) ==
  drops[u] + Cardinality({b \in S \X Keys : m[b[1]][b[2]] = u})

(* avm_table_dec_ref and free_bucket_chain: the tables whose counts reach   *)
(* zero, directly or as values of one another.                              *)
Closed(m, drops, S) == \A u \in live : Dropped(m, drops, S, u) >= ref[u] => u \in S
Freed(m, drops) ==
  IF \A u \in live : drops[u] < ref[u] THEN {}
  ELSE {u \in live : \A S \in SUBSET live : Closed(m, drops, S) => u \in S}

(* No count is decremented in memory that was freed before.  *)
Releasable(m, drops, dead) ==
  \A u \in Tables : LET n == Dropped(m, drops, dead, u) IN
    IF u \in live THEN n <= ref[u] ELSE n = 0

(* avm_table_inc_ref for every reference of `incs', tables of `fresh' being *)
(* new, and the tables holding m.                                           *)
Acquire(fresh, m, incs) ==
  /\ \A t \in Tables : ref[t] + incs[t] <= MaxRefs
  /\ \A t \in Tables : incs[t] > 0 => t \in live \cup fresh
  /\ live' = live \cup fresh
  /\ ref' = [t \in Tables |-> ref[t] + incs[t]]
  /\ members' = m
  /\ UNCHANGED mode

(* The references of `drops' can be dropped while the tables hold m, and    *)
(* the table t, written to, and the value v, counted, are still there.      *)
Exchangeable(m, drops, t, v) ==
  LET dead == Freed(m, drops) IN
  /\ {t, v} \cap Tables \subseteq live \ dead
  /\ Releasable(m, drops, dead)

(* They are dropped; then the tables hold `after', and v is counted.  *)
Exchange(m, drops, after, v) ==
  LET dead == Freed(m, drops)
      kept == live \ dead IN
  /\ \A u \in Tables : ref[u] + One(v)[u] <= MaxRefs
  /\ live' = kept
  /\ ref' = [u \in Tables |-> IF u \in kept
                              THEN ref[u] - Dropped(m, drops, dead, u) + One(v)[u]
                              ELSE 0]
  /\ members' = [u \in Tables |-> IF u \in kept THEN after[u] ELSE Empty]
  /\ UNCHANGED mode

-----------------------------------------------------------------------------
(* Instructions *)

(* NEWTABLE: what the cell held is not counted down. *)
NewTable(c) ==
  /\ mode = "run"
  /\ \E d \in Tables \ live :
       /\ Acquire({d}, members, One(d))
       /\ cell' = [cell EXCEPT ![c] = d]
  /\ UNCHANGED retval

(* Mutant of CopyInto: the copy is not counted. *)
CopyIntoUncounted(c, v) ==
  /\ cell' = [cell EXCEPT ![c] = v]
  /\ UNCHANGED <<retval, live, ref, members, mode>>

(* A copy of v into a cell that is not counted down before: PUSHARG of a    *)
(* cell, GETRET, TABLEGETELM.                                               *)
CopyInto(c, v) ==
  \/ /\ Acquire({}, members, One(v))
     /\ cell' = [cell EXCEPT ![c] = v]
     /\ UNCHANGED retval
  \/ v \in Tables \ live /\ Crash

PushArg(c, d) == mode = "run" /\ CopyInto(c, cell[d])
GetRet(c) == mode = "run" /\ CopyInto(c, retval)

GetElem(c, d, k) ==
  /\ mode = "run" /\ cell[d] \in Tables
  /\ IF cell[d] \notin live THEN Crash
     ELSE CopyInto(c, IF k \in Keys THEN members[cell[d]][k] ELSE NIL)

(* FUNCENTER and FUNCEXIT: a cell becomes undef, uncounted. *)
Clear(c) ==
  /\ mode = "run"
  /\ cell' = [cell EXCEPT ![c] = UNDEF]
  /\ UNCHANGED <<retval, live, ref, members, mode>>

(* Mutant of Assign: the new value is not counted. *)
AssignForgets(c, v) ==
  /\ mode = "run"
  /\ IF Exchangeable(members, One(cell[c]), v, v)
     THEN /\ Exchange(members, One(cell[c]), members, UNDEF)
          /\ cell' = [cell EXCEPT ![c] = v]
          /\ UNCHANGED retval
     ELSE Crash

(* ASSIGN to a cell, and RET: ASSIGN to retval.  *)
Assign(c, v) ==
  /\ mode = "run"
  /\ IF Exchangeable(members, One(cell[c]), v, v)
     THEN /\ Exchange(members, One(cell[c]), members, v)
          /\ cell' = [cell EXCEPT ![c] = v]
          /\ UNCHANGED retval
     ELSE Crash

Return(v) ==
  /\ mode = "run"
  /\ IF Exchangeable(members, One(retval), v, v)
     THEN /\ Exchange(members, One(retval), members, v)
          /\ retval' = v
          /\ UNCHANGED cell
     ELSE Crash

(* TABLESETELEM: delete, overwrite or insert; the key is never counted.  A  *)
(* binding is unlinked before its value is dropped, but not overwritten.    *)
SetElem(c, k, v) ==
  LET t == cell[c]
      old == One(members[t][k])
      after == [members EXCEPT ![t][k] = v]
      during == IF v = NIL THEN after ELSE members IN
  /\ mode = "run" /\ t \in Tables /\ k \in Keys
  /\ v # NIL /\ k \notin Bound(t) => Cardinality(Bindings) < MaxMembers
  /\ IF t \in live /\ Exchangeable(during, old, t, v)
     THEN Exchange(during, old, after, v) /\ UNCHANGED <<cell, retval>>
     ELSE Crash

-----------------------------------------------------------------------------
(* Library functions: they answer in retval, whose old value is forgotten. *)

LibScalar(v) ==
  /\ mode = "run"
  /\ retval' = v
  /\ UNCHANGED <<cell, live, ref, members, mode>>

(* argument(i) *)
Argument(c) ==
  /\ mode = "run"
  /\ \/ /\ Acquire({}, members, One(cell[c]))
        /\ retval' = cell[c]
        /\ UNCHANGED cell
     \/ cell[c] \in Tables \ live /\ Crash

(* Mutant of Build: only the new table is counted, not the values it holds. *)
BuildUncounted(d, m) ==
  /\ Cardinality(Bindings) + Cardinality({k \in Keys : m[k] # NIL}) <= MaxMembers
  /\ Acquire({d}, [members EXCEPT ![d] = m], One(d))
  /\ retval' = d
  /\ UNCHANGED cell

(* Mutant of Build: avm_table_new leaves the count at 0. *)
BuildUnheld(d, m) ==
  LET incs == [t \in Tables |-> Cardinality({k \in Keys : m[k] = t})] IN
  /\ Cardinality(Bindings) + Cardinality({k \in Keys : m[k] # NIL}) <= MaxMembers
  /\ Acquire({d}, [members EXCEPT ![d] = m], incs)
  /\ retval' = d
  /\ UNCHANGED cell

(* A fresh table d with the bindings m; the values among them are counted.  *)
Build(d, m) ==
  LET incs == [t \in Tables |-> Cardinality({k \in Keys : m[k] = t}) + One(d)[t]] IN
  \/ /\ Cardinality(Bindings) + Cardinality({k \in Keys : m[k] # NIL}) <= MaxMembers
     /\ Acquire({d}, [members EXCEPT ![d] = m], incs)
     /\ retval' = d
     /\ UNCHANGED cell
  \/ (\E k \in Keys : m[k] \in Tables \ (live \cup {d})) /\ Crash

(* objectcopy *)
ObjectCopy(c) ==
  /\ mode = "run" /\ cell[c] \in Tables
  /\ IF cell[c] \notin live THEN Crash
     ELSE \E d \in Tables \ live : Build(d, members[cell[c]])

(* objectmemberkeys: the keys become values, in the order of the chains.  *)
ObjectMemberKeys(c) ==
  /\ mode = "run" /\ cell[c] \in Tables
  /\ IF cell[c] \notin live THEN Crash
     ELSE LET keys == Bound(cell[c])
              index == 0 .. Cardinality(keys) - 1 IN
          \E d \in Tables \ live, order \in [index -> keys] :
            /\ \A k \in keys : \E i \in index : order[i] = k
            /\ Build(d, [k \in Keys |-> IF k \in index THEN order[k] ELSE NIL])

(* print visits every key and value it can reach. *)
Contents(S) == UNION {Bound(t) \cup {members[t][k] : k \in Bound(t)} : t \in S}
Visited(t) ==
  {u \in Tables : \A S \in SUBSET Tables :
     t \in S /\ Contents(S \cap live) \cap Tables \subseteq S => u \in S}
PrintFreed(c) ==
  /\ mode = "run" /\ cell[c] \in Tables
  /\ ~(Visited(cell[c]) \subseteq live)
  /\ Crash

(* avm_destroy: every cell that still names a table drops it. *)
Destroy ==
  LET drops == [t \in Tables |-> Cardinality({c \in Cells : cell[c] = t})] IN
  /\ mode = "run"
  /\ IF Releasable(members, drops, Freed(members, drops))
     THEN /\ mode' = "done"
          /\ UNCHANGED <<cell, retval, live, ref, members>>
     ELSE Crash

Init ==
  /\ cell = [c \in Cells |-> UNDEF]
  /\ retval = UNDEF
  /\ live = {}
  /\ ref = None
  /\ members = [t \in Tables |-> Empty]
  /\ mode = "run"

(* An operand is a cell or a constant. *)
Operand(v) == v \in Literals \cup {NIL} \/ \E c \in Cells : v = cell[c]

Next ==
  \/ \E c \in Cells : NewTable(c) \/ GetRet(c) \/ Clear(c) \/ Argument(c)
  \/ \E c, d \in Cells : c # d /\ PushArg(c, d)
  \/ \E c, d \in Cells, k \in Value : Operand(k) /\ GetElem(c, d, k)
  \/ \E c \in Cells, v \in Literals \cup {NIL} : Assign(c, v)
  \/ \E c, d \in Cells : c # d /\ Assign(c, cell[d])
  \/ \E c \in Cells, k, v \in Value : Operand(k) /\ Operand(v) /\ SetElem(c, k, v)
  \/ \E v \in Value : Operand(v) /\ Return(v)
  \/ \E v \in Literals \cup {NIL} : LibScalar(v)
  \/ \E c \in Cells : ObjectCopy(c) \/ ObjectMemberKeys(c) \/ PrintFreed(c)
  \/ Destroy

Spec == Init /\ [][Next]_vars
=============================================================================
