# EpsiLang, modelled and proved

TLA+ modules for the EpsiLang interpreter (C, `src/`): its lexer, its parser
for expressions and statements, its tree-walking evaluator with the symbol
stack, its mark-and-sweep collector, and the hash table, dynamic array and arena
below them; TLC runs over small instances; TLAPS proofs that the evaluator keeps
its stack, does not lose a protected value and, in a fragment of the language,
reaches no freed object at all, that the collector frees what the roots do not
reach and nothing else, and comes to its end, that a dictionary is a map through every
rehash and collection, that lists share no memory and keep their items wherever
they move, that the lexer and the expression parser keep within their text
and tokens, and where the parser reads a node or a statement that is not there.

    tlc -workers 2 -config EvalFull.cfg MCEval       # any run of PROJECT.json
    tlapm EpslEval_proofs.tla                        # and EvalFragments_, Collector_, Lexer_,
                                    # ExprParser_, StmtParser_, DynArray_, ValDict_proofs

## 1. The system

A source text is lexed (`lexer.c`) and parsed to an AST (`parser.c`); `eval`
(`eval.c`) walks the AST recursively over one `EvalCtx`; `stdlib.c` registers
C functions on the context's symbol stack; `api.c` and `main.c` wrap it all.
One thread runs everything. What is hard here is not concurrency but that one
C recursion shares three global structures - the symbol stack, the heap with
its collector, and the two pending conditions `ctx->state` and `got_err` - and
every activation must leave all of them as its callers expect.

| Component | State | Operations | Interacts with | Hard |
|---|---|---|---|---|
| evaluator `eval`, `eval_binop`, `eval_unop`, `eval_val_mut` | `ctx->state`, `err_ctx.got_err`, C locals of the recursion | one case per AST kind | pushes, cuts and searches the stack; allocates; calls C functions through symbols | values in C locals while sub-trees run; unwinding of return, break, continue and errors through every activation |
| symbol stack `eval_stack_add/get`, TEMPs | `ctx->stack`, a growing array | push, lookup by name from the top, cut by writing `count` | is the root set of the collector; pointers into it are kept by calls | each construct restores the count by arithmetic of its own; the buffer moves |
| collector `eval_gc_alloc`, `gc_obj_mark`, `eval_collect_garbage` | `gc.objs`, `threshold`, two arenas | allocate, mark, copy, sweep, swap | is entered in the middle of expressions | missed roots, data in a memory that is reset, recursion over cycles |
| dictionary (`HT_IMPL` for `ValDict`) | buckets, chains, count | add, get, rehash, copy in a collection | keys are heap values the program can change | colliding, equal and changing keys; iteration while relinking |
| dynamic array, arena (`cplus.h`) | items, count, capacity; blocks, `last`, `last_ptr` | append, insert, remove; alloc, realloc, reset | lists grow in the arenas of the collector, which copies the survivors and resets one | indices nobody checks, reads behind the end, growth in place or by moving, memory that is reset while something points into it |
| C functions (`stdlib.c`) | none | len, append, remove, insert, range, ... | read arguments, allocate, raise errors | unchecked indices |
| expression parser `parse_expr`, `parse_expand` | the node list of each call, the lexer's cursor | one case per token, passes over the nodes | recursion through brackets | precedence decided among neighbours, operators with missing operands, NULL nodes |
| statement parser `parse_body` and others | the C recursion, the lexer's cursor, the error flag | one case per statement, bodies in three forms | expression parser; `import` starts a parser of its own | who skips the last token of a statement; errors noticed late, tokens read while the calls return |
| lexer | cursor, line, start of line, start of token | next, peek, peek2 | parser | loops that rely on themselves to stop at the end of the text; peeks that must leave no trace |
| embedding API, command line, printer | a context | thin wrappers, output | host program | order of calls |

What makes each correct, in short. Evaluator and stack: an activation never
finds the stack lower than it left it, changes nothing below its own base but
values of variables, evaluates nothing while something is pending, and hands
on only values that are still alive. Collector: a step that frees exactly what
the roots do not reach, whatever order the loops run in, and never loses the
data of a survivor. Dictionary: a map modulo the language's equality, which a
collection does not change. Lists: each a sequence of its own, wherever its
memory lies. Lexer: the longest lexemes, nothing lost between them, the right
lines, no character read behind the text. Parser: the tree of the precedences
and of the statements, or an error, and always an answer.

PROJECT.json lists the components with their status and the hazards with
their lines.

## 2. Modules and their code

| Module | Models |
|---|---|
| `GcHeap` | the heap as the evaluator sees it: objects, items, threshold; `Alloc` is all of `eval_gc_alloc` with its collection as one step |
| `EvalStack` | stack, frames of the C recursion, result in flight; `Push`, `Cut`, lookup; and the *protocol* (`ProtoNext`): the five ways a step may move frames and stack |
| `EpslEval` | `eval`: one action per construct and per return of a sub-tree to the construct that waits for it; C functions grouped by effect |
| `EpslEval_proofs`, `EvalFragments_proofs` | theorems: the stack and its protocol; types, errors and jumps; in fragments of the language, that nothing freed is reached and that no name stays behind |
| `RootedHeap` | what a client of the collector is promised |
| `Collector` | mark, copy and sweep loop iteration by loop iteration, both arenas and their swap; refines `RootedHeap` |
| `Collector_proofs` | theorems |
| `KeyMap` | a map over classes of equal keys |
| `ValDict` | the hash table with hash, comparison, rehash and the collector's copy; refines `KeyMap` |
| `ValDict_proofs` | theorems |
| `ExprParser` | `parse_expr` token by token, calls for brackets, lists, dicts and arguments, `parse_expand` visit by visit |
| `ExprParser_proofs` | theorems: it stays within its tokens and nodes; where NULL is read for a node |
| `ExprGrammar` | which token sequences are expressions and the tree they mean, top-down from the operator that binds weakest |
| `StmtParser` | extends `ExprParser`: the loop of `parse_body`, every statement, the three forms of bodies, `import`, and what happens while calls return after an error |
| `StmtParser_proofs` | two theorems: where NULL is read for a statement, and where a token behind the end of a file, whatever files are imported |
| `StmtGrammar` | the texts a syntax tree stands for, without calls and skipped tokens |
| `Lexer` | `lexer_next` character by character, `lexer_peek`, `lexer_peek2`; below it what the text says without a scanner (`Lexeme`, `Skipped`, `LineEnds`, `Open`) |
| `Lexer_proofs` | theorems: the cursor; what lies between the tokens; their lines; that they are the longest lexemes |
| `Arena` | blocks, allocation, growth in place, reset, as functions of an arena |
| `SeqStore` | what lists promise: sequences that do not touch each other |
| `DynArray` | extends `Arena`: `da_*` under the operations `eval.c` and `stdlib.c` do on lists, and the copy made by a collection; refines `SeqStore` |
| `DynArray_proofs` | theorems |
| `MCEval`, `MCCollector`, `MCValDict`, `MCExprParser`, `MCStmtParser`, `MCLexer` | constants, symmetry and inputs for TLC |

How state corresponds:

* `frames` is the C recursion of `eval`: a record for each activation that
  waits for a sub-tree, `k` naming the place in the code, `base` the
  `stack_size` it saw, `own` the symbols it will pop (`args_cnt`,
  `remove_last`), `hold` its C locals. `val` is the value just returned.
* The program is not fixed. Where an activation is about to evaluate a
  sub-tree, any construct of `Forms` may be there, so a behaviour is one
  execution of one program of that fragment; nothing a test would have to
  invent is left out.
* A value is a scalar kind or the identity of a heap object. Identities are
  not used again, so that a freed object can be recognised; `Obj` bounds how
  many a behaviour allocates. `EpslEval` does not give objects a type: an
  operation on an object may succeed as on a list or a dict, or fail.
* A behaviour that runs into undefined behaviour or an `assert` is followed up
  to there: `wild` says what it was and the model stops.
* Slots carry `at`, a history variable: the index at which the TEMP that is to
  protect the value was pushed, by which the properties tell a protected from an
  unprotected C local. It stays what it is when the TEMP goes.
* `Collector` marks what its roots hold, and a scalar root is a variable. The code
  follows a TEMP without asking whether it holds a scalar (eval.c:826); that
  fault is in `EpslEval`, as `wild = "scalar_temp"`.
* In `Collector` a history variable keeps heap and threshold of the moment an
  allocation began; the refinement shows the abstract heap those until the
  allocation returns, so all loops together are one step of `RootedHeap`.
* In `ExprParser` nodes carry the position of their token (`loc`), which tells
  equal operands apart; `calls` is the C recursion, `i` and `before` are the
  locals of `parse_expand`. NULL is a node and also the empty operand.
* `StmtParser` uses the same `calls`: expression calls lie above statement
  calls, and a statement's call counts the parts it has in `nodes`, which says
  where in the C function it is. A call of an imported file puts its own tokens
  aside (`from`, `back`). `outcome` is the error flag, or how the parser left
  the ground the model covers: `fault` (NULL read), `past` (a token behind the
  end of the file), `overflow` (the C stack).
* In `Lexer`, `lex` is the struct (`cur_char` as an index, `line_num`,
  `line_start`, and `cur_loc.line_char` as `char`), `mode` the loop that runs,
  `call` how many `lexer_next` calls of a peek are still to come and `saved` the
  copy a peek puts back. A token keeps the places of its first and last
  character; its data is the text between them. There is one character per
  class that the code tells apart, and `NUL` behind the text.
* In `DynArray` memory is real: `mem` holds the cells of each block of both
  arenas, a list has `ptr`, `count`, `cap` and the struct it grows from
  (`gc.from` or `gc.to`), and `owner` says which memory each struct has, which
  is what the swap at the end of a collection changes. Cells are cleared when
  their block is reset or their list moves away, so that whatever still reads
  them finds `Junk` and not by luck the old items.

Abstractions. Numbers are one value `num`; error messages, printing and source
locations are left out. The collection of `GcHeap` keeps the items of every
survivor; that the copy of a dictionary can merge keys that have become equal
is in `ValDict`. In `EpslEval` every index is in range; the calls with other
indices are in `DynArray`. Symbols
are pushed only at the top (`eval_reg_var` inserts at 0, before anything runs).
In the parser, literals and operators of one precedence have
representatives (one each, but `+`, `-` and `=`, `:`, which are told apart);
`break` is `continue` too. An arena's sizes are counted in items; what
`DynArray` does not know is a failing `malloc`. No operation of a list looks at
a value, so it is enough to follow one marked item among equal ones (`Fresh`):
where that one goes, any other would go.

## 3. Runs

| Run | Question | Bounds |
|---|---|---|
| `eval_full` | all constructs: types, threshold ahead of the heap, nothing evaluated while unwinding, enclosing scopes untouched, the stack discipline, the TEMPs of values that are in use (`TempsStay`), the stack protocol | 2 objects, 3 nested activations, entered on up to 3 symbols, 2 parameters, 1 item |
| `eval_nullary` | no access to freed objects, to the scalar of a TEMP or to a moved stack (`NoWildAccess`), and no name left behind, in a fragment where the code guarantees it | 3 objects, 4 activations, buffer that moves at the second symbol |
| `eval_live` | errors and jumps end, lists and dicts among the constructs | 4 activations, 1 object with 2 items |
| `eval_assert` | finding: the `assert(0)` of `eval_val_mut` | 1 object |
| `collector` | refinement, data in live memory, mark invariant, every allocation returns | 3 objects, 2 roots, 2 items each, several collections |
| `dict_map` | map modulo equality, through collections too | 6 colliding keys, initial capacity 1, a rehash at the third node |
| `dict_keys` | keys that change, both zeros, findability before and after a collection | 7 keys, 4 nodes |
| `list` | lists share no memory, are sequences, and which calls leave them | 2 lists of up to 3 items, capacity and blocks that start at 2, 2 blocks per arena |
| `lexer` | lexemes, places, lines, what is lost, the end of the buffer, termination, under any mixture of next, peek and peek2 | all texts of 3 characters, of 4 or 5 of the characters of one concern |
| `expr_precedence` | tree = meaning, what is rejected, nothing lost, NULL reads, termination | all token sequences up to 4; built expressions of 6 and 7 tokens |
| `expr_bounds` | finding: the assertion of `da_get` | expressions of 4 tokens |
| `statements` | what is accepted is what its tree says, every program is accepted, a failing import gives an error and nothing else, NULL reads, the end of the file, termination, statement and expression parser together | bodies in bodies, else chains, 3 files (one imports itself, one is no program and longer than most that import it), each program of up to 8 tokens with one token missing or replaced, all sequences of 3 tokens; 6 nested calls in files that import |

Why the bounds are enough to be worth running. `GC_INIT_THRESHOLD` 1, growth
factor 2 and minimum growth 1 make the second allocation collect, so
collections happen inside every construct that allocates, also nested ones;
with three objects one can be live in a C local, one reachable through it and
one garbage. Three activations are a caller, a body and a construct within;
four add a call in an argument. Capacity 1 makes the stack's buffer move where
256 would need long programs. A table that starts with 1 bucket (128 in the
code) grows at its third node and has the collisions of a full one; the hashes
of the zeros are chosen so that they share a bucket of the small and not of the
grown table, as in the code. Seven tokens hold three infix operators, or a
prefix, an index and two infix operators, hence every order of the operator
next to the one being decided; four arbitrary tokens hold every neighbourhood
`parse_expand` looks at. `lexer_next` looks at three characters at most and its
loops repeat what they do, so four or five characters hold two tokens, or one
with an escape, and what is skipped between. Every place where a statement ends
is followed by a statement, a closing brace, an `else` or the end of the file
in some program of `statements`, and the texts with one token changed put each
error into each of those places. The file that is no program is longer than
the rest of most importers, so an importer that went on at the wrong token would stand
behind its own end. Only texts that import a file of a cycle may fill the C stack;
`Parses` says so of each text for itself. `append` is a loop over its values,
which allocates nothing; the runs reach it with one value. Lists with a capacity of 2 in blocks of 2
overflow a block with the second list; after a collection the arena that was
reset has blocks to be filled again, and blocks to be dropped from its chain.

Properties that hold in a fragment only are checked in that fragment, because
outside of it the code does break them - each was seen as a counterexample of
a larger run before `Forms` was cut down:

* `LeavesNoName`: a call pops `args_cnt` symbols from the top (eval.c:699); if
  its body returned a value, the TEMP goes and a parameter stays visible; with
  `...` it is `_VA_ARGS_` that stays. `for` (573) does the same with its
  variable. So it is checked, and proved, without the three.
* `TempsStay` excepts by name the result of a call with parameters and of a
  `foreach` left by `return` (`Drops`); without either half of `Drops` TLC finds
  it violated. It holds of every construct otherwise.
* `NoWildAccess` names three kinds of accesses. To freed objects: the left
  operand (206), the target of an element assignment
  (468), the list of a `foreach` (578) and the arguments of a C function (703)
  are held in C locals without a root while other code runs; an assignment can
  drop the last root. Without assignments, parameters and `remove` they live.
  To the scalar of a TEMP: a function without parameters that returns a number
  leaves a TEMP with no object, which the mark phase follows (827). To a moved
  stack: the `EvalSymbol` found for a call is used after the arguments
  have moved the stack's buffer (694, 709).
* `IsMap` without the float zeros (hashed by bits, compared by value), and
  `StoredIsFound` without strings that change while they are keys (their hash
  moves; that of a list is always 0, because the result of `hash_combine` is
  dropped).
* `NothingLost` for input without parentheses: `parse_expand` gives a node to a
  neighbouring operator without asking whether it has that operand already, so
  `(1 + 2) (3 * 4)` is read as `(1 + 2) * 4`. `Accepted` names the two kinds of
  expressions that are rejected: `! -x`, and `(a[0]) + [1]`, where the bracket
  is taken for an index. `3 +;` is accepted and leaves a NULL operand.
* `NothingSkipped` lists what is accepted although it is not written as meant:
  whatever stands behind `break` or `import` in place of `;`, a `}` as an arrow
  body (`Skips`); any identifier in place of `in` (`AnyIn`, parser.c:297);
  commas between parameters and items (`LooseCommas`); and parentheses, which
  leave no trace in the tree (`Grouped`, see the previous item).
  `FaultsOnStatement` says which statements make `=>` read a NULL (790).
* `StaysInFile` excepts a file that ends in `break` or `continue`, or in an `import`, without
  the `;` (`Unfinished`): the token skipped unread at 804 is then the end of the
  file itself, and the next one asked for lies behind it. It speaks of steps without
  an error before: after `parser_error` the calls that return skip tokens too
  (`UnwindPast`), and then any program that breaks off can lead there.
* `LongestMatch` leaves out a keyword followed by a digit, which `is_tok` takes
  for the keyword (lexer.c:64), and literals the text does not close; of those
  and of an open comment `InBuffer` says that they alone take the cursor behind
  the zero byte.
* `Inside` is exact: it says for each operation of a list and each index
  whether it stays within the list's memory, and so names the calls that do
  not (eval.c:477, stdlib.c:225 and 288, cplus.h:289). `Keeps` holds as long as
  none of them is made.

Fairness. `FairSpec` of `EpslEval` is weak fairness of `Next`: one thread runs
and nothing blocks, so a step that can be taken is; it says nothing about which
construct comes next, and `while` may loop for ever - the liveness properties
ask only that something pending ends. In `Collector` only the collector's own
steps are fair, the client need not allocate again. `ExprParser` and
`StmtParser` are fair to their next-state relation for the same reason as
`EpslEval`; their input is finite. In `Lexer` only `Scan` is fair, the steps of
a call that runs: the parser need not ask for another token.

Findings. `eval_assert`: `x := none; x += 1;` reaches `assert(0)` at
eval.c:155. `expr_bounds`: `da_get(&nodes, nodes.count - 2)` at parser.c:485
with one node, against the assertion at cplus.h:265; built with
`_CP_RUNTIME_CHECKS`, the interpreter stops at `examples/list.epsl`.

## 4. Proofs

For every set of objects, names, constructs and literals and every value of
the bounds, from the assumptions `ObjAssumption` (finite objects, no scalar
among them), `ThresholdAssumption`, `StackAssumption` and `EvalAssumption` (distinct names, `Pending`
is no value, natural bounds):

| Theorem | States |
|---|---|
| `TypeCorrect` | `Spec => []TypeOK` |
| `DisciplineKept` | `Spec => []StackDiscipline`: the stack is never below the base plus the own symbols of a waiting activation |
| `ProtectedStayAlive` | `Spec => TempsStay`: no step takes the TEMP from under a value that a C local or the result names, nor frees its object, but a call with parameters and a `foreach` left by `return`, which pop the TEMP of their own result |
| `FollowsProtocol` | `Spec => Protocol`: every step of `eval` is a step of `ProtoNext` |
| `ScopeUntouched` | `Spec => EnclosingScopeUntouched` |
| `ThresholdAhead` | `Spec => []HeapBounded`: once the threshold is set there are never more objects than it says |
| `NothingWhileUnwinding` | `Spec => []NoEvalWhileUnwinding`: while a jump or an error is pending nothing is evaluated |
| `NothingWild` | `Nullary => (Spec => []NoWildAccess)`: programs without assignments, parameters, C functions and functions that return scalars (`Nullary`) reach no freed object, no TEMP of a scalar and no moved stack |
| `NoNameLeft` | `Uncounted => (Spec => LeavesNoName)`: without parameters and `for` (`Uncounted`), an activation that ends leaves no name on the stack, but that of a definition |

for every finite set of objects, every number of roots and items and all
thresholds and growths that are not zero (`CollectorAssumption`):

| Theorem | States |
|---|---|
| `KeepsPromise` | `Spec => Promise`: the loops of the collector implement `RootedHeap` |
| `DataIsKept` | `Spec => []DataSurvives` |
| `MarkingIsComplete` | `Spec => []NothingForgotten` |
| `EveryAllocationEnds` | `Spec => AllocReturns`: every step of an allocation leaves less to do |

for every number of lists, all values and all initial capacities that are not
zero (`ListAssumption`, `ArenaAssumption`):

| Theorem | States |
|---|---|
| `ListsApart` | `Spec => []Apart`: lists share no memory, and what they have was given out |
| `TouchesItemsOnly` | `Spec => []Inside`: which call with which index touches memory that is no item |
| `ListsAreSequences` | `Spec => Keeps`: the lists implement `SeqStore` |

for all keys, hashes and contents, any initial capacity that is not zero and
any number of nodes (`DictAssumption`: hashes are naturals, the sorts of keys are
disjoint, only lists and strings change):

| Theorem | States |
|---|---|
| `ValDict_proofs!TypeCorrect` | `Spec => []TypeOK`: the count is the number of nodes, chains are two long on average at most |
| `StoredAreFound` | `Spec => []StoredIsFound` |
| `CollectionsKeepKeys` | `Spec => CollectKeepsKeys` |
| `CollectionsRepair` | `Spec => CollectRepairs` |
| `CollectionsInvisible` | `Spec => CollectInvisible`, if `Zeros` and `Mutated` are empty (proved only: no run checks it beside `IsMap`) |
| `DictIsMap` | `Spec => IsMap`: the table implements `KeyMap`, under the same two conditions |

for every set of finite texts (`TextAssumption`):

| Theorem | States |
|---|---|
| `Lexer_proofs!TypeCorrect` | `Spec => []TypeOK` |
| `Lexer_proofs!StaysInBuffer` | `Spec => []InBuffer`: the cursor leaves the buffer only behind what the text does not close |
| `TokensCoverText` | `Spec => []NothingLost`: what lies before, between and behind the tokens is white space and comments |
| `TokensLocated` | `Spec => []Located`: a token's line is the number of line ends skipped before it, and starts behind the last of them |
| `TokensLongest` | `Spec => []LongestMatch`: a token is a lexeme of its kind and no longer one begins there |

for every set of token sequences (`InputAssumption`):

| Theorem | States |
|---|---|
| `ExprParser_proofs!TypeCorrect` | `Spec => []TypeOK` of `ExprParser`, alone as the parser of one statement's expression: no call reads behind the semicolon, and the index of `parse_expand` is that of a node or the one behind the last |
| `NullFromEmpty` | `Spec => []FaultsOnEmpty`: NULL is read for a node only if brackets are empty where a value is needed, or a dict is closed by another bracket |

and for every set of programs and every table of files, whatever imports what
(`InputAssumption`, `FileAssumption`):

| Theorem | States |
|---|---|
| `NullFromStatement` | `ParserSpec => []FaultsOnStatement`: NULL is read for a statement only behind `=>`, where a statement that is no expression, or an import, follows in that file; for a node only where brackets of the file are empty |
| `ReadsWithinFile` | `ParserSpec => StaysInFile`: while there is no error, no token is asked for behind the end of a file, but in one that ends in `break`, or in `import` and a file name, without the `;` |

**The evaluator.** The invariant is `IInv == TypeOK /\ FrameShape /\
StackDiscipline`. `StackDiscipline` alone is not inductive: an activation that
pops needs to know how many symbols and how many C locals its place in the code
has, which is `FrameShape` (a `list` frame holds one slot, a `bin_r` frame one,
and so on).

`TempsStay` speaks of steps. `Bare` are the slots of an activation whose TEMP is
no longer where it was pushed, or whose object is freed; a step may add to them
only what was bare in an activation above, which hands its result down, and the
result of the two constructs in `Drops`. A call pops as many symbols as it has
pushed parameters, and a `foreach` one for its variable, but a body that ends by
`return` has put a TEMP for the result above them: it is that TEMP that goes
(eval.c:699, 591). So `return` of a new object from a function with a parameter
gives the caller a value nothing protects. `ProtoTemps` shows of each of the five
protocol moves that it does no more than that, from what every move says of the
slots it keeps (`Kept`): a cut leaves the TEMPs below it, and a slot that survives
has its TEMP below the cut, has lost it before, or is the result in `Drops`.

The argument of `EpslEval_proofs` is in two layers. The first shows, of `EvalStack`
alone and knowing nothing of the language, that any `ProtoNext` step keeps `StackDiscipline`
(`ProtoDiscipline`) and `TempsStay` (`ProtoTemps`). The second
shows that each of the actions of `eval` keeps `TypeOK` and `FrameShape` and is
one of the five protocol moves (`ExpressionMoves`, `OperatorMoves`, `CallMoves`,
`StmtMoves`, `UnwindMoves`), and that an allocation spares what has a TEMP
(`AllocHeap`, `HeapSteps`). The refinement `FollowsProtocol` is thus the hinge
and the invariants follow from it.

`ThresholdAhead` needs no more than `TypeOK`: all that allocates does it through
one `Alloc`, which at the threshold collects, if it may, and sets a threshold
above what is left before the new object is tracked (`AllocBounded`, from
`ThresholdAssumption`: the initial threshold and the growth are not zero); every
other step leaves objects and threshold alone (`AllocatesOnly`).

**Unwinding.** That nothing runs while a `return`, `break`, `continue` or error
is pending is not local: a binary operator, say, does not ask for
`ctx->state` after its left side. It does not have to, because a statement can
only stand directly in a body, a call or the body of a loop, all of which do ask
(`Looking`). `Nested` says so of every two neighbours in the C recursion, and
`Heeded` of the innermost activation: one that is about to evaluate has nothing
pending, and one that receives a value while a jump is pending is among
`Looking`. Together with `IInv` they are inductive (`UInv`): what returns with a
jump pending is a statement or a body, and `Nested` says that what waits for it
asks.

**Nothing freed is reached.** `ProtectedStayAlive` speaks of values that have a TEMP.
Most values an activation holds have none: an item of a list, the value of a
variable. They live because something else on the stack reaches them, so the
invariant of `NothingWild` is about reachability (`Live`, the least set closed
under items, of the stack as it was and of the stack after a step). `Alive` has
these parts, of runs without an error so far, after which only unwinding runs
(`FailedA`):

* `Locals`: what an activation holds can be reached from the symbols that no
  activation above it may cut, that is, those below the base of the next one;
  the list of a `foreach` from one less, because the loop variable goes first.
* `Rooting` and `Steady`: roots and items of tracked objects are tracked.
* `Flight`: the result on its way can be reached from the stack as it is. Not so
  for the value of a `return` between a statement and the call it ends: the
  symbols that reached it may be cut before the call gives it its TEMP. It stays
  tracked, because nothing is allocated on that way.
* `Private`: the list or dict that a literal is building cannot be reached from
  below its activation. So a dict literal that overwrites the value of an equal
  key (`DictValA`), the only step here by which an object loses an item, takes
  nothing away from another activation.
* `NoScalarTemp`: a TEMP without an object appears only when the program itself
  returns a scalar, and then no allocation follows.
* `Kinded`: the activations the fragment has none of, the place of statements in
  the C recursion, and that the stack's buffer is still the one in which a call
  found its function.

A collection keeps what the roots reach (`HeapAllocated`); every other step
keeps the items of what lies below (`Settles`), and an activation never cuts
below its own base (`Onto`). So what was reachable from the first symbols
stays so (`StaysGuarded`), and each kind of step has one lemma that puts this
together (`LeafA`, `EnterA`, `ResumeA`, `ContinueA`, `LeaveA`). The five words of
`Nullary` are all needed: with any one of `assign`, `lib`, `param`, `variadic` and
`scalar_result` added, a run of `MCEval` meets a step that `NoWildAccess` forbids.
The forms of the run `eval_nullary` are a part of the fragment; the theorem
also covers dicts, unary operators, `if`, `for`, `break` and `continue`.

**No name stays behind.** `LeavesNoName` looks at an activation when it ends; the
invariant of `NoNameLeft` says of every activation, waiting or innermost, what
lies between its base and the next one's. `Tidy`: nothing but TEMPs, except above
a body, which cuts the stack to its base in the end, and in a `foreach` whose
body has returned. The loop variable of a `foreach` is the last symbol below its
body (`Loop`), and is what `foreach` pops: if the body ends normally, its cut has
brought the height back; if it returns, the TEMP of the result is popped instead
and the variable stays, until the body around the `foreach` cuts it. That there
is one, and that a definition, which does leave a name, has a body around it too,
is `Arranged`: a statement is evaluated directly by a body (`Within`), so the
activations above which there are names are never those of expressions. A call
pops `args_cnt` symbols, which is none (`Uncounts`), and its body has cut what it
pushed. Five lemmas (`LeafN`, `EnterN`, `ResumeN`, `ContinueN`, `LeaveN`) show this
of a step of each kind that keeps the kinds of the first h symbols (`Stays`), an
assignment included. The three words of `Uncounted` are all needed: with any one of `param`,
`variadic` and `for` added a run of `MCEval` finds a name that stays. Assignments,
C functions and dicts, which the run `eval_nullary` leaves out, are covered.

**The collector.** Three invariants. `IInv` says, without a word of what was there
before the call, that roots and items of tracked objects are tracked (`Safe`,
in the sweep only for what is marked), how far the marking has come
(`Marking`), that what has been copied lies out of the memory that will be
reset and what the sweep has passed is marked (`Moving`), and that `gc.objs`
names every object once (`Distinct`), without which `da_remove_unordered` would
free an object and keep it. A client can only reach what is tracked
(`KnownTracked`), so it cannot hand data of a freed object around. `Progress`
relates the heap to what it was when `eval_gc_alloc` was called (`before`):
which objects are gone, and at the end that it is those the roots do not reach
and that the threshold fits. `marked` is closed and holds the roots, and holds
nothing they do not reach, so it is the least such set (`AfterMarking`), which
is what `RootedHeap` says the survivors are. In the refinement every step of
the loops is a stutter (`LoopMaps`) and `Add` is the allocation (`AddMaps`).
`EveryAllocationEnds` ranks what is left by the loops still ahead (`Ahead`) and within
a loop by four numbers, compared from the left (`Turns`, `Shorter`): in the marking the
objects not marked yet, the roots not visited, the activations of `gc_obj_mark` and the
items left to the one on top. A call that marks pushes an activation but leaves one
object less (`MarksOne`); one that does not pushes none. `Bounded`, that no
index is more than one behind the end of what it runs over, is what makes them natural
numbers, so that they cannot fall for ever. That they fall is proved; that the
collector takes those steps is the fairness of `Spec`, of which no theorem speaks.

**Dictionaries.** The invariant is `IInv == Contents /\ Sized(dict) /\
InPlace(dict, Steady)`: the table is well formed, and a node with a steady key is in
the bucket of its hash. `StoredIsFound` is not inductive, since it does not say
that the count is that of the nodes, on which the rehash depends. A list that is
changed stays steady because its hash is always 0 (`SteadyHash`); a string does
not, and neither does a key that could be equal to one. `Push` adds a node to one
chain and leaves the others (`PushStep`); from that follow `MovedFacts` for the
loop of the rehash (every node is moved, to where its hash says now, and none
twice) and `AddCases` for all of `ValDict_add`: either one value is overwritten, or
one node is new and the table may have grown (`AddsTo`, `AddsNew`). The copy of a
collection is a row of such calls (`FilledFacts`), so that it has the classes of
keys the old table had, each node where its hash says (`CopyFacts`). A key is
found if and only if the table has one of its class (`FoundIff`); that is
`CollectKeepsKeys`.

For the map one needs that no two nodes of a chain have equal keys (`Single`).
It is kept only while equal keys have equal hashes and stay as they are,
hence the two conditions: with 0.0 and -0.0, or with two lists that become equal,
there are two nodes for one key, and the run `dict_keys` has such tables. Then
a lookup gives the value of the one node there is (`EntryGet`), `Add` changes it for
the class of its key alone (`AddGet`) and `Copy` for none (`CopyGet`), so `Put` is
the step of `KeyMap` and a collection a stutter. The nodes of a table in the order of
`ht_foreach_node` are a concatenation over its buckets; `AllOfWithin`,
`AllOfDistinct` and `AllOfLength` relate it to the chains.

**Lists and arenas.** The invariant is `Sound`, of a memory and a family of
lists: the arenas are well formed (`ArenaOK`: what was given out last is in the
block that is filled, the blocks behind that are empty), every list is `Placed`
- its memory lies below the count of its block - and any two are `Distinct`.
`Apart` alone is not inductive, because `arena_realloc` grows or gives back what
it gave out last by moving the count of the block: `Placed` therefore also says
that a list whose `ptr` is the arena's `last_ptr` ends where the block is filled
to, so nothing lies behind it and no other list has that `ptr` (`Recount`).
Every other allocation gives out places that no block had given out
(`GivesOut`), so a new or moved list is apart from all others (`Moves`) and from
the one it leaves (`Relocates`); what is written to the places of one list
leaves the items of the others (`WriteList`, `LeftFacts`). `ReserveFacts` puts
the cases of `da_reserve` together, and `AppendManyFacts`, `InsertStep`,
`RemoveStep` and `AssignStep` say of each operation which sequence it makes of
which, the slack that `da_remove_ordered` moves included. For `j + k` and for the
copies of a collection the new list is list number 0 until it takes its place
(`With`). A collection is a recursion over `gc.objs`; `Carried` says of its
first k turns that the live lists lie in the memory of `gc.to` with their items
and that the rest is as it was, so the memory of `gc.from` holds no list when it
is reset (`ResetKeeps`), whichever struct a survivor grows from later. The two
inductions, over the turns of `da_reserve` and over `gc.objs`, are carried out
in `UpTo`, from the order of the naturals being well-founded.

**The lexer.** `TypeOK` bounds the cursor by one character behind the zero byte,
and neither it nor `InBuffer` is inductive. The invariant is `IInv == TypeOK /\
InLoop /\ Behind`. `InLoop` says what each loop knows of the text between the
first character of the token and the cursor: a comment has met no line end
(`InComments`), a string no quote that is not escaped, with an even number of
backslashes before the cursor (`InStrings`, `Even`), a number and a word are
within the text. `Behind` says that a cursor outside of the text got there
behind the end of the file or behind something open, also while no call runs,
and that a peek goes back into the text. Each loop stops at the zero byte
because it is no member of the set the loop asks for (`NoNUL`); only the
comment's loop and the two characters of a character literal do not ask
(`BeyondStep`). The string loop's case rests on the parity of backslashes
(`StringEscapes`). All returns of `lexer_next` go through one lemma
(`EmitStep`), which is where the three kinds of calls are told apart.

`TokensCoverText` adds `Kept`, which says it of the tokens already returned, and
`Follows`, which says how the cursor got where it is: a call that will return a
token has skipped only white space and comments from the last token to
`line_char`, and a peek, wherever it reads, keeps in `saved` the place right
behind the last token. A comment's loop hands over what `InComments` knows of it
(`SkipsOnly`); a step within a token moves the cursor and not `line_char`
(`WithinToken`).

`TokensLocated` adds `Numbered`: line and line start of the Lexer, or of `saved`
while a call peeks, agree with the set of line ends skipped so far (`Counts`),
which a call extends by those behind the last token and up to `line_char`. A
line end behind all others adds one and moves the start (`CountsOne`); "\r\n" is
one, at its second character. A "\r" within a comment is no line end to the
code, which there looks for "\n" alone: `Outside` says that every comment skipped
has ended before `line_char`, so the "\r" the code does count lies in none
(`SkipsCount`, `EmitsLine`).

`TokensLongest` adds `Reading`: what a loop has passed over is the beginning of a
lexeme of its kind, and in the word's loop no keyword stands at `line_char`.
Where a loop stops, the next character could not go on (`WordsRight`,
`NumbersRight`), and what begins a lexeme of one kind begins none of another
(`KindOf`). In a string, the even number of backslashes before the cursor tells
that a quote there is not escaped (`EvenEscapesNot`), so that no string that
begins here is longer (`StringsRight`). That `Right` of a token is a statement about
the text alone (`SameRight`) carries it through later calls and peeks.

**The expression parser.** `TypeOK` is not inductive: that `pos` stays within the
tokens depends on the token each skip has just seen. The invariant is `PInv`:
the last token is a semicolon (`Ended`), so whatever is skipped because it is
something else has another token behind it (`MoreTokens`); a call whose index is
not 0 has read up to a token that ends its kind of expression (`ReadUpTo`),
which for brackets is the bracket the caller will skip (`StopsInside`), however
many passes of `parse_expand` lie between; only the innermost call is in such a
pass (`Waiting`), so that a caller that gets a node goes on reading. The index is
one of the list's or the one behind, and a node that finds its operator makes
the list shorter by one, and the `i--` with the `i++` of the loop leaves the index where it was, which is then
the one behind at most. There is no set of all nodes, since a node holds nodes: `Listed` says of a
sequence what membership in such a set would.

Where a NULL is read is a matter of where it got among the nodes, possibly many
calls and passes before. The invariant of `NullFromEmpty` is `EInv`: a node of an
expression is NULL only if brackets of the text are empty (`Known`). An expression
returns NULL when it ends before its first node; then what is behind the cursor is
still what its caller has skipped: the opening bracket, or for an item of a dict
the brace or a comma, and no closing brace in front (`Began`, which needs
`DictReady` of the dict that waits for its next item). Those two tokens are
the empty brackets. That an item of a list or an argument may well be NULL, and
never becomes a node of an expression, is said by `Adjacent`: who calls whom.
A node that is given an operand is an operator and stays one (`SetValE`), so
`parse_expand` makes no NULL of its own, wherever it puts the ones there are.

**The statement parser.** `NullFromStatement` says of the file that is being read
which tokens it has, and an import changes that file: its tokens are put aside
while another is parsed, and taken up when the call for that one returns, be it
after an error. So the invariant `SInv` says, with `Traced`, that there is a file
for every active call, that of the innermost being `toks`, and what holds of
each call and of each two neighbours in the C recursion (`Chain`, `Frame`, `Under`):
a body behind `=>` stands at a `=>` of its file, the statement it is parsing is of
the kind that its first tokens say (`BeginsAs`), a call of an imported file keeps
the tokens of its caller, and above an expression there are expressions only.
When the body is itself the innermost call, `Ready` says where its statement will
begin, or that it was an import, which alone adds nothing to the body. `TracedTop`,
`TracedPush` and `TracedPop` are the three things a step can do to the calls.
When a statement under `=>` returns NULL, `Under` of the two calls, which have the
same file, gives the tokens that the theorem names; assignments and `return`
never do (`GivesNull`). While the parser runs, `SInv` includes `EInv`, so a step of the
expression parser is covered by what is shown for expressions alone (`ExprE`);
which of the three things it does to the calls is `ExprMoves`. After an error `EInv` need
not hold any more, nor does it have to: only `Traced` is needed while the calls
return (`UnwindS`). When an imported file fails, the importer goes on unwinding
with its own tokens and at the file's name, where its lexer still stands
(`ImporterAt`): `pos` is one number for all the files, and `back` keeps the
importer's.

`ReadsWithinFile` is about tokens that are skipped for what they are, behind which
there is another as they do not end the file (`Onward`, `Reached`), and those that are
skipped unread: the one every statement stops at (804), and the one behind that, at
which `if` looks for an `else`. `QInv` says how far the file of the innermost call has been
read (`Place`): there is a token to look at, and one more where the
call has got to the last token of a statement (`Arrives`), which is what a body that
has parsed one, a statement that has a part, and a function that has its body have in
common. Every return must hand that on: an expression stops at a token that does not
end the file (`ReadOn`, `StopTokens`), a block at its brace, an arrow body and an `if`
without `else` where their statement did; `GivesQ` says it once for all of them. Which of the
waiting calls are expressions, so that a bracket can be skipped on return, is said
by `Inside`, and by `Aside` that an import puts its file aside at a place with a token
behind it, which is asked for after any number of steps in other files.
Only `break` and `import` go on without a look at what follows, so they are the exception
(`Ragged`): `JumpQ` and `ImportQ`.

Model-checked only: the trees that `ExprParser` and `StmtParser` build and what
they accept (`ByPrecedence`, `Accepted`,
`NothingLost`, `NothingSkipped`, `ProgramsAccepted`), which compare them with
`ExprGrammar` and `StmtGrammar`: these are recursive, and no theorem can reach
them; and all liveness (fairness and ENABLED are outside the prover's reach).

## 5. Plan

Built so far, in this order: GcHeap, EvalStack, EpslEval with its proofs;
RootedHeap and Collector with its proofs; KeyMap and ValDict with
their proofs; ExprParser with its grammar and its proofs; StmtParser over it with
its grammar and its proofs; Arena, SeqStore and DynArray with their proofs; Lexer
with its proofs.

Next: which programs end as `past` after an error. It takes what `QInv` says of the
innermost call for all of them, as each of those that return may skip a token.

## 6. Not modelled

* The embedding API (`api.c`): each function passes its arguments on. What a
  host could do wrong - register a variable while `eval` runs, which inserts at
  index 0 under every saved count (eval.c:884), keep a heap value it has not
  registered - is up to the host, and none in the repository does.
* The command line and the printer: output, `system`, `exit`.
* `input` and the file functions of `stdlib.c` beyond "may fail or return a
  string", and printing.
* Numbers: formatting, and `long long` arithmetic that goes through `double`
  (eval.c:220). One value stands for all of them.
* A `malloc` that fails: the code asks nowhere, or asserts.
* `ValDict_remove`, `ValDict_free`, `da_resize`, `da_shrink`, `arena_free`: the
  interpreter calls none of them.
