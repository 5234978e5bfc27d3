------------------------------- MODULE Scopes -------------------------------
(***************************************************************************)
(* How the parser uses the symbol table: scopes are entered and left,      *)
(* functions defined, names declared and referred to.  In all three states *)
(* of the compiler a scope is a number, the depth of nesting.  A function  *)
(* has one scope in Phase 2, and two from Phase 3 on: its formal           *)
(* arguments', and its block's.                                            *)
(*                                                                         *)
(* The line of an entry matters to formal arguments only: that of others   *)
(* is 0 here.  As history, an entry has the block (or function) it was     *)
(* declared in and the function that owns it, as places on the stack of    *)
(* open ones: 0 is the program, and Over what has ended.                   *)
(***************************************************************************)
EXTENDS SymbolTable, FiniteSets, SequencesExt

CONSTANTS
  Names,       \* identifiers of the program
  Library,     \* those of them that are library functions
  Formals,     \* lists of formal arguments that functions have
  TempNames,   \* names of temporaries, in the order in which they are made
  MaxEntries,  \* bound on the length of the table
  MaxOpen      \* bound on the nesting

ASSUME ScopesAssumption ==
  /\ Library \subseteq Names /\ IsFiniteSet(Library) /\ "$" \notin Names
  /\ Formals \subseteq Seq(Names)
  /\ TempNames \in Seq(STRING)
  /\ \A i \in DOMAIN TempNames : TempNames[i] \notin Names \cup {"$"}
  /\ \A i, j \in DOMAIN TempNames : TempNames[i] = TempNames[j] => i = j
  /\ {MaxEntries, MaxOpen} \subseteq Nat

VARIABLES
  version,
  table,
  checkScope,
  inside_function_depth,
  inside_function_scope,
  function_scope_stack,   \* innermost first; Phase 2
  tempcounter,
  global_offset, local_offset, formal_offset,
  open,    \* history: the blocks and functions that are open, outermost first
  last     \* history: the last name that was declared or referred to

scopes == <<checkScope, inside_function_depth, inside_function_scope, function_scope_stack>>
offsets == <<global_offset, local_offset, formal_offset>>
vars == <<version, table, scopes, tempcounter, offsets, open, last>>

Block == Len(open)
OpenFunctions == {i \in DOMAIN open : open[i].kind = "function"}
Owner == IF OpenFunctions = {} THEN 0 ELSE Max(OpenFunctions)
Over == MaxOpen + 1

(* assign_space_and_offset; the tables of Phases 2 and 3 have no cells. *)
Space(type) ==
  IF version # "phases4_5" THEN "none"
  ELSE CASE inside_function_depth > 0 /\ type = "argument" -> "formalarg"
         [] inside_function_depth > 0 /\ type \in {"local", "temp"} -> "functionlocal"
         [] OTHER -> "programvar"

Offset(space) ==
  CASE space = "formalarg" -> formal_offset
    [] space = "functionlocal" -> local_offset
    [] space = "programvar" -> global_offset
    [] OTHER -> 0

Entry(name, type) ==
  [name |-> name, type |-> type, scope |-> checkScope, is_active |-> TRUE,
   space |-> Space(type), offset |-> Offset(Space(type)), block |-> Block, owner |-> Owner,
   line |-> 0]

(* Mutant of Took: the next local gets the same offset. *)
TookNoLocal(space) ==
  /\ global_offset' = IF space = "programvar" THEN global_offset + 1 ELSE global_offset
  /\ formal_offset' = IF space = "formalarg" THEN formal_offset + 1 ELSE formal_offset
  /\ UNCHANGED local_offset

Took(space) ==
  /\ global_offset' = IF space = "programvar" THEN global_offset + 1 ELSE global_offset
  /\ local_offset' = IF space = "functionlocal" THEN local_offset + 1 ELSE local_offset
  /\ formal_offset' = IF space = "formalarg" THEN formal_offset + 1 ELSE formal_offset

Find(name, current, context) == Lookup(version, table, name, current, context)
Said(how, name, found) == last' = [how |-> how, name |-> name, found |-> found]
Nothing == [how |-> "none", name |-> "none", found |-> 0]

(* insert_symbol, and what is found afterwards. *)
Declare(how, e) ==
  /\ Len(table) < MaxEntries
  /\ IF Insertable(version, table, e)
     THEN table' = Append(table, e) /\ Took(e.space)
     ELSE UNCHANGED <<table, offsets>>
  /\ Said(how, e.name,
          CASE version = "phase2" ->
                 Lookup(version, table', e.name, checkScope, inside_function_scope)
            [] OTHER -> IF table' = table THEN 0 ELSE Len(table'))

-----------------------------------------------------------------------------
(* lvalue *)

(* Mutant of Foreign: only arguments are looked at. *)
ForeignArgument(e) == inside_function_scope /\ e.type = "argument" /\ e.scope < checkScope

(* The checks of Phase 2's parser on what has been found. *)
Foreign(e) ==
  \/ inside_function_scope /\ e.type = "argument" /\ e.scope < checkScope
  \/ /\ inside_function_depth > 0 /\ e.type \in Variables /\ e.scope # 0
     /\ function_scope_stack # << >> /\ e.scope < Head(function_scope_stack)

Refer(name) ==
  LET found == Find(name, checkScope, inside_function_scope)
      type == IF checkScope = 0 THEN "global" ELSE "local" IN
  /\ IF found = 0 THEN Declare("refer", Entry(name, type))
     ELSE /\ Said("refer", name,
                  IF version = "phase2" /\ Foreign(table[found]) THEN 0 ELSE found)
          /\ UNCHANGED <<table, offsets>>
  /\ UNCHANGED <<version, scopes, tempcounter, open>>

DeclareLocal(name) ==
  /\ Declare("local", Entry(name, "local"))
  /\ UNCHANGED <<version, scopes, tempcounter, open>>

ReferGlobal(name) ==
  /\ Said("global", name, Find(name, 0, FALSE))
  /\ UNCHANGED <<version, table, scopes, tempcounter, offsets, open>>

(* newtemp: Phase 3 takes the names up again after every statement. *)
NewTemp ==
  /\ version # "phase2" /\ tempcounter < Len(TempNames)
  /\ LET name == TempNames[tempcounter + 1]
         found == IF version = "phase3" THEN Find(name, checkScope, FALSE) ELSE 0 IN
       IF found = 0 THEN Declare("temp", Entry(name, "temp"))
       ELSE Said("temp", name, found) /\ UNCHANGED <<table, offsets>>
  /\ tempcounter' = tempcounter + 1
  /\ UNCHANGED <<version, scopes, open>>

ResetTemp ==
  /\ version = "phase3" /\ tempcounter > 0
  /\ tempcounter' = 0
  /\ UNCHANGED <<version, table, scopes, offsets, open, last>>

-----------------------------------------------------------------------------
(* Blocks (and for statements) *)

OpenBlock ==
  /\ Len(open) < MaxOpen
  /\ checkScope' = checkScope + 1
  /\ open' = Append(open, [kind |-> "block", hosts |-> FALSE])
  /\ last' = Nothing
  /\ UNCHANGED <<version, table, inside_function_depth, inside_function_scope,
                 function_scope_stack, tempcounter, offsets>>

Ended(n) == IF n = Block THEN Over ELSE n
Ends(t) == [i \in DOMAIN t |->
              [t[i] EXCEPT !.block = Ended(t[i].block), !.owner = Ended(t[i].owner)]]

(* exit_scope; Phase 3 names the scope around the one that ends. *)
Left(t, scope) == Deactivate(version, t, IF version = "phase3" THEN scope - 1 ELSE scope)

(* Mutant of CloseBlock: the entries stay. *)
CloseBlockKeeps ==
  /\ open # << >> /\ open[Len(open)].kind = "block"
  /\ checkScope' = checkScope - 1
  /\ open' = SubSeq(open, 1, Len(open) - 1)
  /\ last' = Nothing
  /\ table' = Ends(table)
  /\ UNCHANGED <<version, inside_function_depth, inside_function_scope,
                 function_scope_stack, tempcounter, offsets>>

(* Mutant of CloseBlock: the depth stays. *)
CloseBlockDeep ==
  /\ open # << >> /\ open[Len(open)].kind = "block"
  /\ table' = Ends(Left(table, checkScope))
  /\ open' = SubSeq(open, 1, Len(open) - 1)
  /\ last' = Nothing
  /\ UNCHANGED <<version, scopes, tempcounter, offsets>>

CloseBlock ==
  /\ open # << >> /\ open[Len(open)].kind = "block"
  /\ table' = Ends(Left(table, checkScope))
  /\ checkScope' = checkScope - 1
  /\ open' = SubSeq(open, 1, Len(open) - 1)
  /\ last' = Nothing
  /\ UNCHANGED <<version, inside_function_depth, inside_function_scope,
                 function_scope_stack, tempcounter, offsets>>

-----------------------------------------------------------------------------
(* Functions *)

FunctionScopes == IF version = "phase2" THEN 1 ELSE 2

(* The function itself, under a name, or under one of its own ($n). *)
WithFunction(name) ==
  IF name \in Names /\ ~Insertable(version, table, Entry(name, "userfunc")) THEN table
  ELSE Append(table, Entry(name, "userfunc"))

(* Those of one function are inserted together, on the line of its `)':     *)
(* the line of the last ones before, or one further down.                   *)
Lines ==
  {n \in 1 .. MaxEntries : /\ \A i \in DOMAIN table : table[i].line <= n
                           /\ n = 1 \/ \E i \in DOMAIN table : table[i].line >= n - 1}

Argument(t, name, line) ==
  [name |-> name, type |-> "argument", scope |-> checkScope + 1, is_active |-> TRUE,
   space |-> IF version = "phases4_5" THEN "formalarg" ELSE "none",
   offset |-> IF version # "phases4_5" THEN 0
              ELSE Cardinality({i \in DOMAIN t : t[i].owner = Block + 1}),
   block |-> Block + 1, owner |-> Block + 1, line |-> line]

Accepted(t, name, line) == Insertable(version, t, Argument(t, name, line))
WithArgument(t, name, line) ==
  IF Accepted(t, name, line) THEN Append(t, Argument(t, name, line)) ELSE t

(* The loop over the formal arguments. *)
WithArguments(t, arguments, line) ==
  LET after[n \in 0 .. Len(arguments)] ==
        IF n = 0 THEN t ELSE WithArgument(after[n - 1], arguments[n], line)
  IN  after[Len(arguments)]

(* reset_function_offsets *)
Resets(taken, arguments) ==
  /\ global_offset' = global_offset + taken
  /\ local_offset' = 0
  /\ formal_offset' = arguments

FunctionStart(name, arguments) ==
  /\ Len(open) < MaxOpen
  /\ Len(table) + 1 + Len(arguments) <= MaxEntries
  /\ LET t == WithFunction(name) IN
     /\ \E line \in Lines : table' = WithArguments(t, arguments, line)
     /\ IF version = "phases4_5" THEN Resets(Len(t) - Len(table), Len(table') - Len(t))
        ELSE UNCHANGED offsets
     /\ Said("function", name, IF t = table THEN 0 ELSE Len(t))
  /\ checkScope' = checkScope + FunctionScopes
  /\ inside_function_depth' = inside_function_depth + 1
  /\ inside_function_scope' = (inside_function_scope \/ name \in Names \/ version = "phase2")
  /\ function_scope_stack' = IF version = "phase2" THEN <<checkScope + 1>> \o function_scope_stack
                             ELSE function_scope_stack
  /\ open' = Append([i \in DOMAIN open |-> [open[i] EXCEPT !.hosts = @ \/ i = Owner]],
                    [kind |-> "function", hosts |-> FALSE])
  /\ UNCHANGED <<version, tempcounter>>

FunctionEnd ==
  /\ open # << >> /\ open[Len(open)].kind = "function"
  /\ table' = Ends(IF version = "phase2" THEN Left(table, checkScope)
                    ELSE Left(Left(table, checkScope), checkScope - 1))
  /\ checkScope' = checkScope - FunctionScopes
  /\ inside_function_depth' = inside_function_depth - 1
  /\ inside_function_scope' = IF version = "phase2" THEN inside_function_depth' > 0
                              ELSE inside_function_scope
  /\ function_scope_stack' = IF version = "phase2" THEN Tail(function_scope_stack)
                             ELSE function_scope_stack
  /\ open' = SubSeq(open, 1, Len(open) - 1)
  /\ last' = Nothing
  /\ UNCHANGED <<version, tempcounter, offsets>>

-----------------------------------------------------------------------------
LibraryEntry(i, name) ==
  [name |-> name, type |-> "libfunc", scope |-> 0, is_active |-> TRUE,
   space |-> IF version = "phases4_5" THEN "programvar" ELSE "none",
   offset |-> IF version = "phases4_5" THEN i - 1 ELSE 0, block |-> 0, owner |-> 0,
   line |-> 0]

Init ==
  /\ version \in Versions
  /\ table = LET names == SetToSeq(Library) IN
               [i \in DOMAIN names |-> LibraryEntry(i, names[i])]
  /\ checkScope = 0 /\ inside_function_depth = 0 /\ inside_function_scope = FALSE
  /\ function_scope_stack = << >> /\ tempcounter = 0
  /\ global_offset = IF version = "phases4_5" THEN Cardinality(Library) ELSE 0
  /\ local_offset = 0 /\ formal_offset = 0
  /\ open = << >> /\ last = Nothing

Next ==
  \/ \E name \in Names : Refer(name) \/ DeclareLocal(name) \/ ReferGlobal(name)
  \/ NewTemp \/ ResetTemp
  \/ OpenBlock \/ CloseBlock
  \/ \E name \in Names \cup {"$"}, arguments \in Formals : FunctionStart(name, arguments)
  \/ FunctionEnd

Spec == Init /\ [][Next]_vars
=============================================================================
