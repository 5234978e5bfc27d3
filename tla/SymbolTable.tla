----------------------------- MODULE SymbolTable ----------------------------
(***************************************************************************)
(* The symbol tables of the compiler (symbol_table.c): lists of entries,   *)
(* searched by scope number.  The three states of the compiler that have   *)
(* one differ in what may be inserted, what a search finds and what the    *)
(* end of a scope does; v is "phase2", "phase3" or "phases4_5".            *)
(***************************************************************************)
EXTENDS Naturals, Sequences, FiniteSetsExt

Versions == {"phase2", "phase3", "phases4_5"}

Variables == {"global", "local", "argument"}
Functions == {"userfunc", "libfunc"}

(* lookup_symbol_global: the first entry of scope 0, active or not. *)
IsLibrary(t, name) ==
  LET S == {i \in DOMAIN t : t[i].name = name /\ t[i].scope = 0}
  IN  S # {} /\ t[Min(S)].type = "libfunc"

(* lookup_visible_var: a variable of that name in an outer scope. *)
VisibleVar(v, t, name, scope) ==
  \E i \in DOMAIN t :
    /\ t[i].name = name /\ t[i].scope < scope /\ t[i].type \in Variables
    /\ v = "phase2" => t[i].is_active

(* Entries are not switched off in Phase 3, but removed. *)
Active(v, t, i) == v = "phase3" \/ t[i].is_active

SameScope(v, t, e) ==
  {i \in DOMAIN t : t[i].name = e.name /\ t[i].scope = e.scope /\ Active(v, t, i)}

(* Two formal arguments of one name, if they stand on different lines. *)
Repeatable(t, i, e) ==
  t[i].type = "argument" /\ e.type = "argument" /\ t[i].line # e.line

(* The checks of insert_symbol. *)
Insertable(v, t, e) ==
  /\ e.scope # 0 => ~IsLibrary(t, e.name)
  /\ v # "phases4_5" /\ e.type = "local" => ~VisibleVar(v, t, e.name, e.scope)
  /\ LET S == SameScope(v, t, e) IN
       CASE v = "phase2" -> S = {}
         [] v = "phase3" -> \A i \in S : Repeatable(t, i, e)
         [] v = "phases4_5" -> S = {} \/ Repeatable(t, Min(S), e)

-----------------------------------------------------------------------------
(* Search *)

(* A function has been defined between the scope of entry i and here. *)
Crosses(t, i, current) ==
  \E j \in DOMAIN t : t[j].type = "userfunc" /\ t[j].scope > t[i].scope /\ t[j].scope <= current

(* A variable that is neither of this scope nor of scope 0. *)
Between(t, i, current) ==
  t[i].type \notin Functions /\ t[i].scope \notin {0, current}

(* What the search passes over. *)
Passed(v, t, i, current, context) ==
  CASE v = "phase2" -> Between(t, i, current) /\ ~context
    [] v = "phase3" -> Between(t, i, current) /\ context /\ Crosses(t, i, current)
    [] v = "phases4_5" -> FALSE

(* Mutant of First: the outermost entry. *)
FirstOutermost(t, S) ==
  Min({i \in S : \A j \in S : t[j].scope >= t[i].scope})

(* Scopes are searched outwards, each in the order of the list. *)
First(t, S) ==
  Min({i \in S : \A j \in S : t[j].scope <= t[i].scope})

(* lookup_symbol: an index, or 0. *)
Lookup(v, t, name, current, context) ==
  LET S == {i \in DOMAIN t : /\ t[i].name = name /\ t[i].scope <= current
                             /\ Active(v, t, i) /\ ~Passed(v, t, i, current, context)}
      i == First(t, S)
  IN  IF \/ S = {}
         \/ v = "phase2" /\ Between(t, i, current) /\ Crosses(t, i, current)
      THEN 0 ELSE i

-----------------------------------------------------------------------------
(* deactivate_entries_from_curr_scope *)

Kept(v, e) ==
  CASE v = "phase2" -> e.scope = 0 \/ e.type = "libfunc"
    [] v = "phase3" -> e.scope = 0 \/ e.type \in {"userfunc", "libfunc", "local", "argument"}
    [] v = "phases4_5" -> e.type \in {"userfunc", "libfunc", "global"}

Stays(v, e, scope) == e.scope # scope \/ Kept(v, e)

(* Phase 3 unlinks an entry that does not stay. *)
Remaining(t, scope) ==
  LET walked[i \in 0 .. Len(t)] ==
        IF i = 0 THEN << >>
        ELSE IF Stays("phase3", t[i], scope) THEN Append(walked[i - 1], t[i])
        ELSE walked[i - 1]
  IN  walked[Len(t)]

Deactivate(v, t, scope) ==
  IF v = "phase3" THEN Remaining(t, scope)
  ELSE [i \in DOMAIN t |-> [t[i] EXCEPT !.is_active = @ /\ Stays(v, t[i], scope)]]
=============================================================================
