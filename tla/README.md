# Verification of the Alpha compiler and its virtual machine

A verification project for the compiler of the Alpha language in
`src/Phases_4_5`: a flex/bison front end that writes three-address quads, a
generator of target code, and a virtual machine that runs that code.
`src/Phase_1` to `src/Phase_3` hold earlier states of the same compiler (the
scanner alone; with the parser and the symbol table; with the quads).

The program is sequential. What makes it hard is not concurrency but protocols
that span many steps and that no component states: an activation record that
five instructions write and another takes apart, reference counts spread over
twenty functions, lists of incomplete jumps threaded through the quads that they
will complete, and globals of the parser that nested constructs share.

## 1. Inventory

| Component | Source (`src/Phases_4_5/code/`) | State | Operations |
|---|---|---|---|
| Lexical analyser | `al.l` | start condition, comment depth, string buffer, line | tokens, nested comments, strings |
| Symbol table | `symbol_table.c` | a list of entries with scope numbers and active flags, offset counters | `insert_symbol`, `lookup_symbol`, `lookup_symbol_global`, `deactivate_entries_from_curr_scope` |
| Syntax-directed translation | `parser.y` | `checkScope`, scope-space and offset stacks, `funcstart_quad`, `returnlist`, loop stack | grammar actions: scopes, functions, loops, `return`, `break` |
| Intermediate code | `quads.c` | `quads[]`, `currQuad`, temporaries, loop-counter stack; lists of incomplete jumps threaded through `quads[].label` | `emit`, `newlist`, `mergelist`, `patchlist`, `make_and/or/not`, `make_call_expr`, `materialize_newtable` |
| Target code generator | `codegen.c` | `instructions[]`, constant pools, incomplete jumps, unresolved calls, addresses of functions by name | `generate_*`, `patch_incomplete_jumps`, `write_binary` |
| VM: loader, dispatch | `vm.c` | `code`, `pc`, step counter | `load_binary`, `vm_init`, `vm_run` |
| VM: activation records | `vm.c` | `stack`, `top`, `topsp`, `enclosing_topsp`, `pc`, `retval_reg` | PUSHARG, CALLFUNC, FUNCENTER, FUNCEXIT, GETRET, ASSIGN, operands, library functions over actuals |
| VM: tables | `vm.c` | hash chains of one table | TABLEGETELM, TABLESETELEM, `objectcopy`, `objectmemberkeys`, `objecttotalmembers` |
| VM: table lifetime | `vm.c` | `refCounter` of each table, cells and bindings that name tables | every instruction that copies or drops a cell, `avm_destroy` |
| VM: arithmetic, comparison | `vm.c` | two cells | ADD … NEG, JEQ … JGT, `strtonum` … |
| VM: printing | `vm.c` | text buffer, global `collected` buffer | `avm_tostring` |
| Driver | `main.c` | options, files | runs the phases in order |

How they interact. The parser calls the scanner for tokens and, while reducing,
calls the symbol table (names, scopes, offsets) and the quad emitter; the result
of parsing is `quads[]`. `generate_target_code` walks it once, completes the forward
jumps, and `write_binary` writes the target file. The virtual machine
loads that file; its only contract with the code generator is the layout of the
activation record and the offsets of operands. Inside the machine the
instructions share `stack`, the registers and the tables.

What makes each correct:

- *activation records*: a return resumes its caller, with the registers and the
  variables the caller had; actuals are seen in source order; an overflow is
  reported and never overwrites what is live;
- *tables*: a table is a mapping; `objectcopy` copies all of it;
- *table lifetime*: nothing that is still named is freed, nothing is freed twice;
- *intermediate code*: every jump is completed, once, with the place the source
  construct means; `and`, `or` and `not` evaluate as the language says;
- *symbol table*: a name denotes the innermost visible declaration; variables
  alive together never share a cell;
- *code generator*: a call reaches the function its quad names and a jump the
  first instruction of its target quad;
- *scanner*: comments and strings end where they end, and nothing is read past them.

What is hard to test in this code is listed, at its line, under `hazards` in
`PROJECT.json`.

## 2. Modules and plan

| # | Modules | Subject | State |
|---|---|---|---|
| 1 | `AvmStack`, `AvmStackProps`, `AvmStackProofs`, `CallStack` | activation records; abstract: a stack of activations without memory | modelled, checked, proved with the refinement |
| 2 | `AvmTable`, `AvmTableProps`, `AvmTableProofs`, `TableMap` | chains of a table; abstract: a mapping | modelled, checked, proved with the refinement |
| 3 | `AvmHeap`, `AvmHeapProps`, `AvmHeapProofs`, `ObjectStore` | reference counts; abstract: objects that live while they are reachable | modelled, checked, proved with the refinement |
| 4 | `QuadLists`, `QuadListsProofs`, `BoolExpr`, `BoolExprProps`, `BoolExprProofs` | lists of incomplete jumps; boolean expressions, from the grammar actions to their value at run time | modelled, checked, invariants proved |
|   | `QuadLists`, `Statements`, `StatementsProps`, `StatementsProofs` | loops, branches, functions, `return`, `break`, `continue` | modelled, checked, invariants proved |
| 5 | `SymbolTable`, `Scopes`, `ScopesProps`, `ScopesProofs`, `Environments` | scopes, shadowing, offsets, in Phase 2, Phase 3 and the final compiler; abstract: a stack of environments | modelled, checked, proved with the refinement |
| 6 | `CodeGen`, `AvmRun`, `AvmRunProps`, `AvmRunProofs`, `QuadMachine` | from quads to instructions, and the loop of the machine over them; abstract: quads executed where they stand | modelled, checked, proved with the refinement |
| 7 | `Values`, `Expressions`, `ExpressionsProps`, `Evaluation` | the code of expressions and the temporaries it shares, arithmetic and comparison; abstract: what expressions mean | modelled, checked |
| 8 | `AvmPrint`, `AvmPrintProps`, `AvmPrintText` (on 2) | `print` of tables in tables: how deep it goes, what it shows | modelled, checked, the depth proved (in `AvmTableProofs`) |

Module 6 uses `QuadLists` of 4, module 8 extends module 2, and each `MC` module
extends the properties of its component. What is worth proving next are the
invariants of module 7 and the text of module 8, once their recursive operators are written
as functions.

## 3. What is modelled, and how it corresponds to the code

The `map` of `PROJECT.json` names the lines of every definition.

### AvmStack: activation records

One array of cells. `stack`, `top`, `topsp`, `enclosing_topsp`, `pc` and
`retval` are the variables of `vm.c`; a cell is the number it holds or a value
of `Other`. One action per instruction: `PushArg` and `PushCount` (PUSHARG with
`ensure_expr_stack` and `check_stack_bounds`), `CallUser`, `CallFunctor`, `CallLib`,
`CallPrint`, `CallTotalArguments`, `CallArgument`, `CallFails` (the ways CALLFUNC
ends), `FuncEnter`, `FuncExit`, the stores, `GetRet*`, `SetRet` (RET), `Jump`
and `Halt`. Every run-time error, and every index that leaves the array, ends
the run in a mode of its own.

`mode` and `pending` stand for what the quad generator guarantees about the order
of instructions: PUSHARGs, their count, CALLFUNC and GETRET come in a row, and
function code starts with FUNCENTER. `frames`, `wrapped` and `answered` are history
variables; no guard of a machine step depends on them except that FUNCEXIT is
only met inside a function.

`CallStack` says what this means to a program: activations with private actuals
and locals, returns to the caller, `totalarguments()` that answers the number of its
caller's actuals and `argument(i)` that answers actual `i`. Which library function
answered is the history variable `answered`: without it an answer of `argument` could
pass for one of a function that may answer anything. `AvmStackProps!Abstract` reads the activations back
from memory; `ImplementsCallStack` is the refinement. When `ensure_expr_stack`
resets `top`, the abstract machine is `"lost"`: the refinement says nothing from
there on. `avm_overflow` shows that this happens over live activations, where
the test of unbounded recursion expects `Stack overflow!`.

### AvmTable: one table

`chains` are the hash chains from head to tail, in the order in which
`collect_table_members` visits them; `Hash` is any function from keys to chains,
so collisions are a matter of the constants. A key of no chain (nil, undef) is
in `Keys \ Hashable`. `NAN` is the number that differs from itself
(`strtonum("nan")`), `StringOf` the string a library function is looked up under
when it has no binding of its own. `objectcopy` is modelled binding by binding,
since it searches the copy for every binding it inserts. `COLLECTED` is the size
of the buffer of `collect_table_members`.

`TableMap` is the mapping; a lookup, a count and an enumeration answer from it,
and `print` leaves it alone.

### AvmPrint: printing a table

`AvmPrint` adds to `AvmTable` what `print` does with the table, whose values may
now be tables: `Inner` has the members of those, which do not change. `frames` are
the calls of `table_tostring_rec`, each with its loop counter and the form of the
loop it is in, and `collected` with `collected_n` is the one buffer they share. One
action is one round of a loop, or half of one: `ShowElement` for an array, `ShowKey`
and `ShowValue` for any other table, `Close` for the end of a loop. When a member
is a table, `Show` collects its members over those of the outer one, as the code
does; the outer loop goes on with what it then finds, and entries behind the last
one keep what they had. Text is a sequence of brackets and cells. Recursion deeper
than `MaxDepth` ends in `"crash"`: the memory of C's stack.

### AvmHeap: reference counts

`cell` are the cells of the machine, `retval` its result register, `ref` the
counts, `members` what a table holds (a mapping here: chains are AvmTable's
subject). Each action counts and drops exactly what the code does: NEWTABLE,
GETRET, TABLEGETELM, PUSHARG and the library functions overwrite a cell without
dropping what it held, FUNCENTER and FUNCEXIT clear cells without dropping,
ASSIGN drops before it counts, TABLESETELEM drops the old value before it takes
the new one, and keys are never counted. `Freed` is the least set of tables that
one drop frees, values of freed tables included. A step that would touch a freed
table leads to `mode = "use_after_free"`. A freed address may be allocated again,
and then equals a stale key that names it.

`ObjectStore` has objects and no counts: an object may disappear only when
nothing the program has names it.

### QuadLists, BoolExpr, Statements: from grammar actions to quads

`QuadLists` has the quads and the lists of jumps to complete. A list is its first
quad, and the labels are the links, as in `quads.c`; `On` follows them.

`BoolExpr` is the parser's stack of expressions. bison reduces bottom-up: an action
`Read…` is an operand, `Not`, `And`, `Or`, `Equal`, `NotEqual` and `Less` are the
grammar actions of the operators (`make_not` … `make_relop`), which may emit and
complete jumps but never insert quads before those of their operands. `FinishValue`
and `FinishIf` are the two ways a statement uses an expression; then `Run` executes
the quads. Every operand gets its truth value when it is read, and each expression
carries, as history, the value the language gives it and where its quads start.
Four kinds of operands make the code go wrong, and `sound` records where:

- a value (no boolean expression) on the left of `and`/`or` with a boolean
  expression on the right: its test comes last, after jumps that depend on it;
- a right operand with quads before its first test: the left operand jumps past them;
- a boolean expression compared with `==` (on the left, unless the right operand has
  no quads) or `<`, and any comparison with nil;
- a jump with number 0.

`SoundExpressionsAreRight` says that this list is complete; `ExpressionsAreRight`,
violated, what the first of them costs. `not nil` and its like end in
mode `"clobbered"`: `emit` drops the test, and the lists name other quads. In
`JumpsAreListed`, `lost` stands for the operators that lose a list.

`Statements` reads a program construct by construct, in any nesting. `open` are the
constructs being parsed; `loops`, `returnlist`, `funcstart_quad`, `local_offset` and
`inside_function_depth` are the globals of the parser. `exits`, `closed`, `cut`,
`hosts` and `locals` are history. Conditions are variables and elists are empty. A
semantic error ends in a mode of its own, since the program is then not run.

What AvmStack assumes of local offsets, that they lie below the count FUNCENTER
gets, is `FramesHoldLocals` - for functions that define no other function. For a
function that does, the count goes to the inner function's `funcstart`, its own
stays 0, and its offsets start again: such a function uses cells it did not reserve.

### SymbolTable, Scopes: names

`SymbolTable` has the checks of `insert_symbol`, the searches, and what the end of
a scope does, in three versions: `phase2` and `phase3` are the earlier states of the
compiler, `phases4_5` the final one. `Scopes` is the parser's use of them: an action
for a name (`Refer`, `DeclareLocal`, `ReferGlobal`), a temporary, a block, a
function with its formal arguments, and their ends. In all three a scope is a number,
and what tells two blocks of one depth apart is only that the entries of the first
are switched off (or removed, in Phase 3). Phase 3 takes a formal argument twice if the
two stand on different lines, so the arguments of a function get the line of its `)`:
that of the last arguments before, or one further down. `block`, `owner`, `open` and `last` are
history: where an entry was declared, and what was found last.

`Environments` is lexical scoping without numbers and flags, and the final compiler
implements it - up to the end of a block with a named function, which is never
switched off (`Stale`); from there the abstract specification is `"lost"`. The other
properties hold with these exceptions, which they name:

- a function of a block that is over is found by later blocks of its depth, and its
  name cannot be declared there;
- Phase 3's `exit_scope` passes the number of the scope *around* the
  one that ends: names outlive their block;
- Phase 2 overlooks, outside of functions, the variable of a block in the blocks
  within it (`{ x = 1; { x = 2; } }`); Phase 3 goes on outwards behind a variable
  that it complains about;
- offsets start again at 0 behind a nested function (`hosts`), so that the outer
  function's later variables share cells with its earlier ones.

The final compiler ignores whether a variable belongs to another function; Phase 2
refuses that, completely (`AcceptedAreOwn`).

### CodeGen, AvmRun, QuadMachine: from quads to a run

A program is written first, by the `Write...` actions: assignments, tests of `if` and
`while`, functions with calls and returns, in any nesting and with the quads the
parser leaves. `GenerateTargetCode` then walks the quads: `GenerateSimple`,
`GenerateRelational` (a backward jump gets its address at once, any other is listed
in `ijumps`), `GenerateFuncStart` and `GenerateFuncEnd` with `func_skip_stack`, and
at the end `PatchIncompleteJumps`. A jump back to the quad with address 0 is listed
too, as 0 counts as unknown. `AssertFails` and `Overrun` are the limits of the arrays.

`AvmRun` is `vm_run` over these instructions: `Execute...` per instruction, the count
of steps, `InfiniteLoop` and `Halt`. Activation records are left to `AvmStack`; a call
pushes its return address. `QuadMachine` executes the quads where they stand: a
call names a function, every call has its own result, there are no addresses. It
leaves open what the code leaves open: the result of a function that returns
nothing, and which function a name means that a later one has taken
(`lookup_userfunc_address` knows the last one only, also when its block is over;
`13_func_calls.asc` expects `global` where the code then calls the inner one).

### Values, Expressions, Evaluation: expressions

`Expressions` reduces any sequence of operands and operators the way the grammar
does and executes the quads as they are emitted. `stack` are the semantic values: a
constant, a variable, a temporary, an element of a table not fetched yet, or a
condition. `temps` is the counter of temporaries, `cell` the memory cells. What the
code takes over is taken over here: the result of an operator goes to the temporary of
an operand, variables are read when their operator is emitted, arguments are pushed
from right to left. `Values` is the arithmetic and the comparisons of the machine, on
numbers that are multiples of 1/`Unit`.

`Evaluation` has no temporaries and no quads; it says what the expressions mean. Four
things the code does and nothing in the repository contradicts are in it, so that the
refinement says they are *all* that is unusual: a variable is read late (`x + x++` sees
what `x` has become); a condition that is not used at once goes astray (`f(a < b, g())`,
`t.f(a < b)`); a divisor below 1 counts as zero, since DIV and MOD convert it to
`int` first; both operands of `and` and `or` are evaluated.

## 4. Runs

| Run | Question | Instance and why it is enough |
|---|---|---|
| `avm_stack` | are activation records intact over all call sequences, and do calls behave as `CallStack` says? | 17 cells: two nested activations with an actual and a local each, functor calls, library calls inside both, and the margin of `ensure_expr_stack` within reach |
| `avm_overflow` (violation) | is running out of stack reported? | the first reset of `top` over a live activation |
| `avm_table` | does a table behave as a mapping; what does `print` show, and does it return? | three chains, two colliding strings, a library function and its name, zero and NaN in one chain, a key of no chain; as values a scalar, an array that is not collected in order and ends with a table with a fractional key (which `value_at_index` truncates), and a table in itself under a key that is a table; three bindings, a buffer of two members (so that it is exceeded), recursion to depth 5 |
| `print_nested` (violation) | is a table in a table printed, and what follows it? | the same |
| `avm_heap` | are counts never too low, when is freed memory touched, and do counted tables implement objects until then? | two tables that may hold and key each other and themselves, two cells, two bindings, counts up to 3; symmetric in tables and cells |
| `bool_expr` | does an expression have its value, outside of the named cases, and is every jump on one list? | three operands, variables, operands with quads, and nil, in every order of the six operators, with one quad before the statement or none: two operators in either association, `not` anywhere; 12 quads |
| `bool_value` (violation) | does every expression have its value? | variables only |
| `statements` | do `break`, `continue` and `return` arrive, do jumps stay in their function, do frames hold the locals? | 9 quads: two nested loops with a `break` and a `continue`, three exits of one loop, a function in a loop in a function, two locals |
| `breaks` (violation) | does every `break` arrive, also when a function is defined between it and the end of the loop? | the same |
| `codegen` | do jumps and calls of the generated code arrive, does it do what the quads say, does every run end? | 8 quads and 11 instructions: two functions, one in the other or one after the other, of one name or two, recursion, a loop around a call, functions as values; 12 steps, fewer than some programs need |
| `scopes` | what does a name mean, in three compilers, and which variables share a cell? | a variable, a library function, a temporary, four entries, two open blocks or functions: shadowing, blocks of one depth after another, a function in a function, repeated and forbidden formals |
| `expressions` | do the quads compute what expressions mean? | three operands and table constructors over two variables, a constant and functions of one and two formals, halves of numbers up to 2: two operators in either association, a call in a call, an element of an element |

`avm_stack` stops at the first reset of `top` (`NotExhausted`),
since every property is about what comes before it, and identifies states that
differ only in cells at or below `top`, which are written before they are read
(`LiveCells`). `Margin` is 5 in the runs and 8 in `vm.c`: 5 is the least for
which a call that passed the check of PUSHARG can write its four words; the
theorems hold for every larger one. `MaxArgs`, `MaxLocals`, `MaxPairs`, `MaxRefs`,
`MaxMembers`, `MaxQuads`, `MaxOperands`, `MaxNumber`, `MaxEntries` and `MaxOpen` bound
the models and have no counterpart in the code; `MaxDepth` stands for the size of C's
stack, `MaxInstructions`, `MaxNesting` and `MAX_EXEC_STEPS` for `INSTRUCTION_ARRAY_SIZE`,
the size of `func_skip_stack` and the step limit of `vm_run`. `codegen` calls
the first function of a program `f` (`FirstIsF`), names being interchangeable.

No run checks deadlock: every component has modes in which the program has stopped (a
run-time error, the end, C's stack exhausted), and the writing of programs, names and
expressions also stops where a bound is reached.

Most loops of the modelled components are bounded by the data they walk, and for
those no liveness is stated. Two are not, and fairness is assumed for them alone:

- `WF(Run)` in `AvmRun`: the compiler and the machine are one process that waits
  for nobody, so once a program is written it is compiled and run. Nobody has to write
  one. `EveryRunEnds` then holds because of the step limit of `vm_run`, for programs that
  loop or recurse forever too.
- `WF(LibraryStep)` in `AvmPrint`: a library function that was called is executed
  without a pause. `LibraryCallsEnd` says that `objectcopy` and `print` return
  although the buffer changes under the loops of `print` - or that C's stack is
  exhausted, which needs a table that contains itself (`CrashNeedsCycle`).

## 5. Proofs

### Activation records

`AvmStackProofs`, for every stack size, margin of at least five, number of
globals, actuals and locals (`StackAssumption`):

- `TypeCorrect`. `TypeOK` alone is not inductive: CALLFUNC writes at `top - 2`,
  so one must know that `top` is clear of the globals when it runs. `Ready` says
  so, also after a reset.
- `FramesAreIntact`, `NothingIsCorrupted`, `GlobalsAreBelow`,
  `WildReadsNeedNoActuals`, all from the inductive invariant `LayoutInv`. The four
  properties say where the live activations are; to be preserved by FUNCEXIT they
  need that the caller's record is still intact (`ControlWordsKept` of all
  activations, not of the running one), and to be preserved by a store that
  activations do not overlap (`Nested`). `Prepared` ties the pending call to
  memory. `BuiltinsKept` is needed for one thing: in the main program `topsp` is 0,
  and `totalactuals` must not find a count in the built-ins' cells. There is one
  lemma per action and one step per conjunct the action can disturb.

The same module has the refinement, `CallStackImplemented`: every instruction is a step of
`CallStack` or changes nothing a program can see. The mapping is the one that TLC
uses: `Abstract` reads globals, actuals, locals and pending actuals out of memory.
Each action has a lemma that names the abstract action it is; what a store, a
push, a call and a return do to the reading of each activation is a lemma about
`Abstract`, and rests on the same non-overlap as `LayoutInv`. The invariant is
`RefinementInv`, the conjunction of `TypeInv`, `LayoutInv` and `ActualsInv`, which is
proved along with it: an actual is always a value of the program (`ActualsStayValues`).
`argument(i)` answers actual `i` (`ArgumentIs`); called without an index it takes the
cell above its count for one, and `CallStack!Asked` leaves open which actual that asks
for (`AskedIs`; in the main program it is the case of `WildReadOnlyWithoutActuals`).

### Tables

`AvmTableProofs`, for every hash function and every number of chains
(`TableAssumption`): `KeysBoundOnce` and `CopiesAreFaithful`. The invariant is
`TableInv`: both tables are sound, and the copy holds exactly the visited
bindings. That a chain binds a key once is what makes the second provable: a
later binding of the walk can then not overwrite an earlier one.

The same module has the refinement: `TableMapImplemented`, the same for a program that also prints
(`PrintedTableIsMap`, the specification of the run `avm_table`), and `TableTypeCorrect`. The
bindings of a table are enumerated as places (a chain and a position in it), so that the
answers of `objecttotalmembers` and `objectmemberkeys` and the end of `objectcopy` become
statements about how many places there are before one. They are recursive functions over
sequences; what the proof needs of them is proved by induction over a *set* of numbers (a
set that has 0 and all successors is `Nat`: `Induction`, from the library's theorem about
well-founded relations, which takes no operator parameter). `MapInv` adds to `TableInv` how many
bindings of NaN the copy has taken over, since NaN may be bound any number of times and
a mapping has no place for the second: `TableMap` counts them. `NAN` is a key
with a chain (`strtonum` makes it a number): an assumption, which TLC evaluates.

Of printing, the module proves `RecursionNeedsCycle`: if C's stack has room for as many tables in
each other as there are (`PrintAssumption`; with less room any deep table would exhaust it), then
printing exhausts it only if the printed table leads to one that contains itself. That is
not obvious, since the loops take from the shared buffer what calls for other tables have
left there. The invariant `DepthInv` gives each call on the stack the table it prints, and says
(`Apart`) that each is nested in the table of every call below it; that all tables in the valid part
of the buffer are nested in the one printed last; and that the place whose value a loop has yet to
print holds only what is nested in the table of *that* loop, whether a deeper call has overwritten
it or not. `Nested` is the least closed set, so that being nested is transitive without an
induction (`NestedTransitive`). More calls than tables then print one table twice, which is
nested in itself (`TooDeep`, by the pigeonhole theorem of the library).

### Table lifetime

`AvmHeapProofs`, for any finite numbers of tables, cells and keys and any bound on
counts (`HeapAssumption`): `HeapTypeCorrect`, `CountsAreCovered`, `HeldTablesAreLive`
and `TouchedOnlyThroughKeys`. The inductive invariant `HeapInv` replaces `CountsCover`
and `HeldIsLive` by `Cover`, which says of every table, freed ones included (they count
0), that no more names it than is counted: a reference to a freed table and a count too
low are one and the same mistake. The argument has three parts:

- what one changed cell or binding does to the number of references (`HeldChange`,
  `RefsChange`, from the cardinality theorems of the library);
- `Release`: if what is dropped, what live tables hold and what else remains (`R`) are
  covered together, then no freed table is held by what stays, counts go on covering it,
  and no count is decremented that was freed. `Freed` being the least closed set does it:
  the freed tables that something holds could be taken out of it;
- `StayKeeps`, `AcquireKeeps`, `ExchangeKeeps`: the three things an instruction may do
  with references, and one lemma per action that says which it does. `SetElemKeeps`
  needs `FreedSame`, since `avm_table_set` drops the value that it overwrites while the
  binding still names it.

`ObjectStoreImplemented` follows: the objects are the live tables with their
members, what the abstract machine may collect is witnessed by what is live after the
step, and `HeapInv` *before and after* the step says that nothing named was among what was
freed. The counts are then no part of what the program can observe.

### Code generation and execution

`AvmRunProofs`, for programs of any length and any functions, comparisons and array
sizes (`CodeGenAssumption`): `JumpsAreResolved`. The inductive invariant
`GenerationInv` says, while code is generated, that

- `Written`: the quads are numbered from 0 without gaps and nothing was generated
  before they were complete;
- `Ordered`: the quads before `next` have addresses, in ascending order and inside of
  the code. Two quads thus never have one address, and to patch one jump leaves the
  others alone;
- `ListedJumps` and `JumpsInHand`: what is on `ijumps` is a jump of a quad, and every
  jump is on it or complete. From both together follows that the final patching
  completes all, with the quad's own label;
- `SkipsApart`: the jump over a function, which `GenerateFuncEnd` patches, is not the
  jump of a quad. Without it that action might overwrite a complete one.

`JumpsResolved` itself is what remains when generation is over, and execution changes
neither quads nor code.

The same module has, with the step limit of the machine in addition (`AvmRunAssumption`):
`NamesReachFunctions`, `CodeIsEnteredByCalls` and `RunTypeCorrect`. Each is about the machine,
and none can be proved there: that FUNCEXIT never runs outside of a call depends on where the
jumps lead, which depends on what was generated, which depends on how programs are
written. The invariant has a layer for each.

- `ProgramInv`, of the quads: a function that is named is an earlier one, every function ends behind
  its begin, two of them are nested or apart, and a jump into the code of some function is itself in
  the code of one.
- `CodeInv`, of the instructions: they are divided among the quads (`Partition`), what is generated
  so far is what the quads say (`Filled`, `Operands`), a function under generation is on
  `func_skip_stack` and a finished one is skipped (`Skipping`, `Skipped`), and `userfuncs` has the
  newest function first (`Userfuncs`, `Named`): before the entry of a function there are only
  later ones, so that the search for a name finds the last that took it.
- `MachineInv`, of the run: if `pc` is in the code of a function then there is a return address to go
  back to, and the same of every saved `pc` and what is below it. A call goes to a function's first
  instruction and leaves one address more; a jump stays inside or outside by `ProgramInv`; running on
  from one instruction to the next enters no function because its code is skipped.

`QuadsAreExecuted` is the refinement: whatever program is written, `AvmRun` does what
`QuadMachine` does with its quads. The compiler takes no step there except its last one,
which loads the program; each instruction is one step or, if it is the jump over a function or
FUNCENTER, none. `QuadSeen` and `ReturnsSeen` are the quads in place of the addresses, `Seen`
the function in place of its entry. `RunInv` says where the code of a quad is, and
`Means` adds what it is:

- `ShapeInv`: the operands of the quads are those the parser leaves (`Shaped`);
- `EntriesInv` and `DoesInv`: the first instruction of a quad has its operator and its operands (`Does`);
  the entry of a function's name is that of the function or of one declared later under that name
  (`Reaches`), which is the choice that `QuadMachine` leaves open;
- `ValuesInv`: the variable and the register hold numbers and entries of functions, saved
  program counters are the starts of quads, and the result of a call is in the register.

While it runs the machine is thus at one of three places (`AtCode`): at the first instruction of
a quad, at the jump over a function, or at FUNCENTER. `PlacesAreSeen` says which quad that
is. `QuadMachine` finds the end of a function by counting, as many `funcend` as `funcstart`;
the code finds it by `func_skip_stack`. They agree (`EndIs`) because functions are nested or
apart: what ends between the begin and the end of a function has begun there
(`FinishedHasBegun`), so before the end fewer have ended than begun (`BalancedAtEnd`, by
the cardinality theorems of the library).

### Statements

`StatementsProofs`, for programs of any length and nesting: `ExitsReachTheirEnd`,
`JumpsKeepToFunctions`, `FramesSuffice`, `RefusalsJustified` and `StatementsTypeCorrect`, all from
`StatementsInvariant`. A list of incomplete jumps exists only as labels in quads, so the first part
of the proof is about lists (`QuadListsProofs`). `Listed(q, l, S)` says that `l` leads through the quads of `S`, all of
them and each once, to a 0; then `On(q, l)` is `S` (`ListedOn`), a change of other quads leaves the
list alone (`ListedStays`), and `MergeFacts` and `PatchFacts` are what `mergelist` and
`patchlist` do to it. The invariant has these parts:

- `OpenInv`: open constructs are nested in the order of their quads, and each has its jumps at
  fixed places behind its first quad;
- `FunsInv` and `FramesInv`: a function is finished or open, `funcstart_quad` is the last one that
  began, and only functions that define another (`hosts`) lose count of their variables;
- `LoopsInv`: the stack `loops` has exactly the loops in which no function began since
  (`Current`), the innermost first, and the two lists of each are exactly the exits that wait for
  it. That function definitions throw the loops around them away makes this true and is what `cut`
  records;
- `ReturnsInv`, the same of `returnlist` and the innermost function;
- `ExitsInv` and `ApartInv`: an exit is one jump with one owner, none of the jumps that constructs
  complete on their own, and never quad 0, which a list could not hold;
- `NestInv` and `JumpsInv`: a jump and the place it goes to are parts of the same functions, open
  ones included (`Around`). For a jump that waits this is said of the place where it is, and its
  construct's end, once known, is inside the same functions.

There is one lemma for each action; what opens, closes, loops and exits have in common is shared
(`OpensKeeps`, `ClosesKeeps`, `ExitKeeps`).

### Boolean expressions

`BoolExprProofs`, for any operands and operators in any nesting and at any place of a program
(`BoolExprAssumption`): `BoolExprTypeCorrect`, `JumpsKeptOnLists` and `ExpressionsEvaluateRight`. The invariant `BoolExprInv` gives
every expression on the parser's stack two sets of quads, the jumps it takes when it is true and when
it is false, and says (`Waits`) that its two lists lead through them, that they are jumps, and
(`StackAt`) that no quad is in two of these sets; `Covered` says that a jump without a target is in one
of them, unless it has number 0 or an operator has lost a list. An operator changes the labels of its operands' jumps
only: `Grown(q, r, S)` says that `r` has the quads of `q`, other labels in `S` at most, and more quads
behind them, and `StackReplaced` that the other expressions then keep what they wait for. One
lemma for each conversion and each operator says which jumps the result waits for.

`ExpressionsEvaluateRight` (every sound expression gives the value of Alpha's semantics, without a jump
backwards; `sound` leaves out exactly what section 3 lists) rests on `RightInv`, which adds to
`BoolExprInv`:

- `SoundInv`, while the statement is parsed and all that is on the stack is sound: there is a `W`, the
  values the cells have when they are read, under which the expressions lie one behind the other
  (`Laid`) and each has its meaning (`Means`). The quads of a value lead, forwards only, from its start
  to its end and leave its value in its cell (`Through`, `Known`). Those of a boolean expression lead to a
  jump that is taken and is on the list its truth value names, and no jump taken on the way there is on
  a list (`Leaves`); where the lists lead is still open, which is why the meaning is stated with sets
  of jumps and not with targets;
- `RunInv`, while the machine runs: it is on such a way to the end of the statement (`OnWay`), and what
  it has written is what `W` says.

`W` only grows: a quad that assigns a cell makes `W` say what it assigns. `and` and `or` have one lemma
for a boolean left operand (`AfterBoolMeans`) and one for a value (`AfterValueMeans`), which compose the
ways of the operands (`StopLeaves` when the left one decides, `GoLeaves` when it does not);
`MeansStays` says that quads and labels behind an expression do not concern it. A value on the left is
composed with a value on the right only: with tests on the right, its own test stands behind jumps that
skip it, which is finding `bool_value`.

### Names

`ScopesProofs`, for any names, lists of formals, lengths of the table and depths of
nesting, in all three symbol tables at once: `ScopesTypeCorrect`, `NamesResolveToInnermost`,
`AcceptedNamesAreOwn` and `CellsDistinct`. None of the four is inductive; what makes them true
is where entries come from, which the code does not keep. `ScopesInv` is stated with the history
variables:

- `OpenInv`: `checkScope` and `inside_function_depth` are those of the blocks that are open;
- `TableInv`, of each entry (`EntryAt`): its block is open or over; if it is open, its scope
  is one of the numbers that block has and no other open block has (`PlacedAt`), and its owner is the
  innermost function there; what is over is not of scope 0, and is switched off in Phase 2, and in
  the final compiler unless it is a function (`SwitchedRight`). This is where the three
  versions differ: nothing of the kind holds in Phase 3, whose `exit_scope` removes entries
  of another scope;
- `StackInv`: `function_scope_stack` has the scopes of the open functions, descending, so that its head
  is the innermost one's - also behind the end of a function, where the code only drops the head;
- `GlobalsInv` and `CellsInv`: what the offsets have counted. `local_offset` and `formal_offset` are
  claimed for the innermost function only, and only as long as it has defined no other (`hosts`): its
  outer functions' offsets are lost already, which is the exception `CellsAreDistinct` makes.

A search then finds a candidate of the greatest scope (`LookupIs`); what can be seen of a name is a
candidate unless the search passes over it (`FoundIsRight`), and a new entry is at least as deep as all that
can be seen. `ScopesAssumption` says that the library is finite, that the name of a
function without one is no name of the program (`$` begins no identifier), and that the
temporaries' names are a sequence without repetition and neither of those: `newtempname` writes
`_t` and a counter, and an identifier begins with a letter (`al.l`, 136).

`EnvironmentsImplemented`: the final compiler implements `Environments`. The mapping reads the
environment of each open scope off the table: a name denotes the first of the entries
of that scope number, of that name and of a block that is not over (`EnvOf`, `MeantIn`). Three things
make it work, as long as no function with a name has stayed behind its block (`ScopedIn`):

- what is active is what is not over (`SeenIs`, from `SwitchedRight`), so that the search finds the
  innermost environment that knows a name (`FoundInnermost`), and `insert_symbol` refuses a name just
  where it is not free (`InsertableIs`);
- `NamesInv`, a second inductive invariant: the names of the library are those of entries of type
  `libfunc`, the first of scope 0 and never declared again (`NotLibrary`), and no temporary
  has a name that `newtemp` has not yet used, so that none is ever refused;
- the entries that a block takes along are those of its own scope numbers, and all others
  stay where they are (`EnvShorter`); a function's formals go into a new environment, without
  those that repeat one or name a library function (`ArgumentsProper`, `EnvFunction`).

A function that has stayed behind stays for good (`NamesGoOn`), so the step that leaves the scoping
rules is the end of its block, and no step leads back.

### What is only model-checked

- The refinement `ImplementsEvaluation` of `Expressions` and the invariants of `Expressions`;
  the invariant `UndisturbedPrintedWhole` of `AvmPrint`; both for the last of these reasons.
- Liveness (`EveryRunEnds`, `LibraryCallsEnd`): the prover has no ENABLED.
- What depends on a `RECURSIVE` operator (the text of a table in `AvmPrintText`, the meaning of
  expressions in `Expressions` and `Evaluation`): the prover has no SMT backend in such modules.

Induction over numbers is possible with sets, as above; what is not is any theorem with an
operator parameter, and so the library's operators over sequences (`SelectSeq`, `FoldLeft`, which take
one): the modules proved about use recursive functions in their place (`Remaining`,
`WithArguments`, `On`).

## 6. Findings

- `avm_overflow`: running out of stack inside a call silently overwrites the
  oldest activations; `04_err_4.asc` expects a report.
- `bool_value`: `x and a < b` tests `x` after `a < b`, whose jumps then skip it
  (`make_and`, `make_or`); `25_delegation.asc` relies on `go_on and i < n`.
- `breaks`: a function defined in a loop makes the loop forget its breaks and
  continues, and refuse later ones.
- `print_nested`: `table_tostring_rec` calls itself while it walks through a global buffer
  that the call overwrites; `14_tables1.asc` expects `print(vec2)` to go on behind
  the inner table.

The exceptions the passing runs name are places where the code goes wrong too:

- a table as a key is not counted, which is the only way freed memory is touched in
  `AvmHeap` (`CrashNeedsDeadKey`); the comment in `vm.h` allows numbers, strings and
  booleans as keys only;
- the comment in `make_and` promises the start of the right operand, the code takes
  its true list;
- quad 0 cannot be on a list; the comment in the `newlist` of Phase 3 describes the
  encoding that avoids it;
- a function defined in a function makes it forget its returns (`cut`), and its
  frame size (`hosts`);
- the functions of a block that is over, the scope that Phase 3's `exit_scope` names,
  the names that Phase 2 overlooks (section 3, names): `Block.asc` and
  `GlobalAndLocal.asc` of the tests are about such names;
- the function that a name means is the last one that took it (`NamesReachTheirFunction`);
- conditions that are not used at once (`Evaluation`).

## 7. Not modelled

Every component with status `not_modelled` in `PROJECT.json`, with its reason: the
scanner is a flex description whose generated automaton and scanning of characters
no property of the other components depends on; the driver is file and command
line handling. Of the modelled components:

- contents of strings (and who frees them), the formatting of numbers and text, error
  texts, the printing of quads and symbols, file formats and file access;
- the conversions and mathematics of the library (`strtonum`, `typeof`, `sqrt`, `cos`,
  `sin`, `input`): functions of one cell, or of the outside world;
- the generators of `codegen.c` that copy operands one to one, its pools of constants
  (an operand holds the constant), and what no quad reaches: the quads `and`, `or` and
  `not` are never emitted, and every function a quad names starts before that quad, so
  that the list of unresolved calls stays empty;
- what the parser has and no input reaches: `enterscopespace` and `exitscopespace` as a
  stack, the memo of `emit_iftableitem` (a node is used once);
- functions whose name another function of their scope has: `insert_symbol` prints an
  error and yields nothing, and the program is compiled all the same, the second function
  without a symbol (the branch of `generate_FUNCSTART` without `has_bind`). The programs
  of `CodeGen` print no such error; `Scopes` has the refusal itself;
- the quads of Phase 3, which Phase 4 replaced.
