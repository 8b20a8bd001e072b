# Lang3: a verification project in TLA+

Lang3 is a dynamically typed, Lua-inspired language. `lang3 file.l3` parses a
program, compiles it to bytecode, optimizes the bytecode and interprets it on a
stack machine with a mark-and-sweep collector. The program is a single thread.
What is hard about it are not threads but activations that nest, state that is
read before a callback and used after it, a collector that may start between any
two instructions, and an optimizer that moves code under jumps.

Everything below is translated from the code under `src/`; `PROJECT.json` says
which lines each definition stands for.

1. [Inventory](#1-inventory)
2. [Modules](#2-modules)
3. [Runs](#3-runs)
4. [Proofs](#4-proofs)
5. [Findings](#5-findings)
6. [Known divergences](#6-known-divergences)
7. [What is not modelled](#7-what-is-not-modelled)
8. [Plan](#8-plan)

## 1. Inventory

| Component | Code | State | Operations | Correct when |
|---|---|---|---|---|
| Lexer, parser | `src/parser` | - (bison, flex) | text to tree | not modelled |
| AST | `src/ast` | the tree | constructors (`with_if`, `add_comparison`, `String`), visitors, printers | a tree is what the compiler takes it for, a literal what its text says |
| Compiler | `src/compiler/src/compiler.cpp` | `contexts` (locals, upvalues, scope depth), `loop_contexts`, chunks and constants | one `compile_...` per node, `resolve_variable`, `patch_jump`, `deduplicate_constants` | every local's number is its slot, jumps lead into the chunk, upvalues name cells that closures have |
| Peephole optimizer | `src/compiler/src/peephole.cpp` | a pass: new code, `old_to_new` | seven patterns, `run_pass`, `optimize` | jumps still lead to what they led to, the stack is as high as before, it ends |
| Bytecode | `src/bytecode` | `ProgramBytecode`: chunks, constants | - | (data) |
| VM | `src/vm/src/vm.cpp` | `stack`, `frames`, the C++ stack, globals | `execute`, 32 instructions, `call_function` | frames do not touch each other, errors unwind to the right place, no pointer dangles |
| Builtins | `src/vm/src/builtins.cpp` | - | 24 functions; `map`, `filter`, `count` call back | results, errors, behaviour while calling back |
| Values | `src/runtime` `heap_data`, `primitive`, `stack_value`, `function` | - | arithmetic, comparison, indexing, slicing | agreement with the arithmetic they stand for, errors instead of undefined behaviour |
| Garbage collector | `src/runtime` `heap`, `heap_cell`, `upvalue`; `BytecodeVM::run_gc` | the lists of cells, mark bits, counters, threshold | `emplace`, `mark`, `sweep`, `maybe_gc`, `run_gc` | frees exactly what cannot be reached, ends, keeps the heap bounded |
| Chunked allocator | `src/runtime/src/chunked_allocator.cppm` | chunks, free lists, `free_chunks_`, `cleanup_counter` | `allocate`, `deallocate`, `cleanup` | no address twice, none lost, no chunk destroyed in use |
| Command line | `src/cli` | the index, `positional_only`, `Args` (flags, values, positional) | `parse` and its helpers for long, short and grouped options | every word is read once and as what it is: flag, option, value or file |
| Main program | `src/apps/lang3/src/main.cpp` | the stage it is in | parse, print, write the graph, compile, print, execute, with two early returns | a dump does not run the program, a run is not skipped, what fails ends the process with an error |
| Locations, utilities, bytecode listing | `src/location`, `src/utils`, `src/bytecode/src/bytecode.cpp` | - | formatting | not modelled |

How they interact. `main` reads the command line, runs the stages one after the
other and leaves early when only dumps were asked for. The parser hands one tree to the compiler, which appends to
the chunks and constants of a `ProgramBytecode`, lets the optimizer rewrite the
chunks and merges equal constants. The VM interprets chunk 0. `OpCall` runs
`execute_loop` recursively for a bytecode function; `map`, `filter` and `count`
run it through `call_function` once per element, and while they do, they hold a
span into the value stack and results in C++ vectors. At the head of every
`execute_loop` the collector may start: its roots are the stack, the globals, the
frames and the constants. `main` catches `RuntimeError` around `execute` and
`CompileError` around the compiler; anything else that is thrown ends the process.
Heap cells and upvalue cells live in linked lists whose
nodes come from the chunked allocator. A runtime error is a C++ exception that
passes through all these activations.

The hard behaviours are listed as `hazards` in `PROJECT.json`, each at its line
with the properties that guard it.

## 2. Modules

```
 collector and storage          interpreter             compiler
 ManagedHeap  <= HeapGc         Values                  Instructions, Values
              HeapGc_proofs      |- DeepValues           |- WellFormedness
              MCHeapGc           |- Builtins             |   |- ChunkShapes
 SlotPool <= ChunkedAllocator    |- BytecodeVM           |       |- StackHeights
             ..._proofs              |- SafeVM           |- Peephole
             MCChunkedAllocator      |   (WellFormedness)|   |- Compilation (ChunkShapes)
                                     |   |- MCBytecodeVM |       |- CompiledCode (StackHeights)
 command line and main               |   |  (Listings)   |           |- Compilation_proofs
 CommandLine                         |   |- SafeVM_values|           |- MCCompilation (Listings)
  |- Lang3                           |   |- SafeVM_steps |- Syntax
      |- Lang3_proofs                |   |- SafeVM_proofs|   |- Compiler, Sources
      |- MCLang3                     |                   |   |- TreeMeaning
                                     Pipeline <= Compilation      |
 FoldTheorems (for proofs)               |- MCPipeline  ----------'
```

**ManagedHeap** is what a collector promises: cells are created, referred to and
dropped, and one atomic step frees exactly what cannot be reached. **HeapGc**
refines it: `StartMarking` is the root loop of `run_gc`, `MarkObject` one call of
`HeapCell::mark` or `UpvalueCell::mark`, `SweepHeap` and `SweepUpvalues` the two
sweeps, `MaybeGc`/`NextInstruction` the test of the threshold, `TriggerGc` the
builtin. The mark bits of constants are never cleared, as in the code. `Visited`
says what the code really follows: the elements of arrays and not what functions
refer to. The constant `Escapes` chooses between programs in which functions may
be the only ones to refer to something (as in the language) and those in which
they are not; `Callbacks` whether builtins hold results outside the roots. The
module is about an arbitrary object graph, not about instructions.

**SlotPool** promises that addresses are handed out once at a time;
**ChunkedAllocator** refines it. A chunk's free list is the set of its free slots
and `free_chunks_` a number per chunk: any listed chunk may be taken, the code's
choice (the last one) among them.

**Values** has the operations of `HeapData`, `Primitive` and `StackValue` on nil,
booleans, integers, strings, arrays and functions, **DeepValues** the recursive
ones (comparison and printing of nested data). **Builtins** has what builtins
without a callback return; `random`, `input` and `sleep` return a set of possible
results. Where C++ leaves the behaviour undefined (`x % 0`, iterators in the wrong
order, `random` with crossed bounds) the result is `Undefined`, and the VM stops in
the mode `undefined`; where an exception is thrown that no handler knows
(`std::bad_optional_access`) it stops in the mode `aborted`.

**BytecodeVM** is the interpreter: an action per instruction (`OpConstant`, ...),
several for `OpCall` (a bytecode function, a partial application, a builtin, a
builtin that calls back, a failure) and for what follows in C++ (`FinishCall`,
`NativeCallEnter`, `FinishCallback`, `Unwind`, `Fail`). `calls` is the C++ stack:
for each activation the kind, the frame count at which its loop returns, and the
part of the stack below. `buffer` is the capacity of the `std::vector` behind the
value stack and how often it moved, which decides whether a span is still valid.
`MaybeGc` collects in one step, at any head of a loop: when it happens in reality
depends on about a thousand allocations before, which a small program does not
make. **Listings** has the programs: snapshot tests of the repository, copied from
`test/snapshot/expected/*/bytecode.txt`, and programs for callbacks, errors and
the collector.

**Instructions** and **Syntax** are the data types of `bytecode.cppm` and of
`src/ast` as records. **Compiler** is `compiler.cpp`: a method is an operator from
the state of the compiler to the state after it, because a compilation is one pass
over a tree with nothing in between. **Peephole** is the optimizer as a state
machine: a round of the loop of `run_pass` is an action per pattern (`PopZero`,
`ZeroJump`, `MergePops`, `UnaryFold`, `ConstJumpIfTaken`, `ConstJumpIfNotTaken`,
`BinaryFold`, `Copy`), a round of `follow_jump_chain` is `Hop`, the end of a pass
is `ShorterPass` (the code is replaced and another pass follows) or `LastPass`.
**Compilation** is `Compiler::compile`: `Compile`, the optimizer, `Deduplicate`. The
pass over the tree is its parameter `CompileTree`, for which MCCompilation gives
Compiler's `CompileProgram`.
**Sources** has the programs as trees.

**WellFormedness** is what the interpreter takes for granted of a program, instruction
by instruction: how many values each takes and leaves, which slots, constants, upvalues
and jump targets it names. A program is `WellFormed` with a shape, which gives for every
chunk its arity, the number of its upvalues and the height of the frame in front of every
instruction. The compiler checks none of this; it is what its output has to be like.
**ChunkShapes** reads arities and numbers of cells off a program, and
**StackHeights** computes the heights by following every way through a chunk, as many steps
as there are instructions (a fold, so that it can be proved about).
**CompiledCode** adds to Compilation the properties that compare the two. It is
where the two halves of the project meet: `ProgramWellFormed` says that
what the compiler and the optimizer produce is well formed, and **SafeVM** assumes it of the
programs the VM runs and states what then holds of stack, frames, C++ activations and
heap at every moment (`Safe`, with `HeightsMatch` as the part everything is about).

**Pipeline** composes the three: `Compilation` (with the compiler and the optimizer)
runs on a tree, `Execute` hands its chunks and constants to the VM, and the VM runs.
**TreeMeaning** is what the result is compared with: a reference semantics of syntax
trees as doc/main.tex describes the language, with scopes that map names to
variables, closures that keep a scope, and modes instead of jumps. It has no stack,
slots, upvalues or offsets, so it shares no mistake with the code. Where the code
differs from the documentation it takes the documentation's side: but for `false`, zero,
nil and what is empty everything is true, every other mismatch of types is a `TypeError`
(doc/main.tex:284-287), and strings are collections (292-296). Where the
documentation says nothing (the errors of values of the right type, the value of `and` and `or`,
functions known before their definition) it says what the code promises; every variable counts as
declared `mut`. **MCPipeline**
makes the programs: families of trees (operators on all kinds of values, builtins,
chains, branches, loops, closures, currying, hoisting, callbacks, literals), every
combination in a family being one program, and trees the parser can build only: a
negative number is the negation of a literal, only variables are indexed.

**CommandLine** is `Parser::parse`: an argument is a record of its form (text, dash,
separator, short, long), its names and its inline value, and a round of the loop is
`Positional`, `Separator`, `Help`, `Flag`, `Option`, `Unknown` or `Group`. **Lang3** is
`main`: `ReadArguments` takes those steps, and each stage is an action with its early
return; what a stage does to a program belongs to the other modules, here it succeeds
or fails in the ways it can. `Meaning` is the specification of the parser: what a
command line means is defined from all its words at once, without an index, by operators such as
`Taken` (the words that are values), `End` (the separator) and `Stops` (what ends the parsing).

Offsets, slots and indices count from 0 as in the code; TLA+ sequences count from
1, so a definition that looks into one adds 1.

## 3. Runs

Passing runs:

| Run | States | What it shows |
|---|---|---|
| `heap_gc_safety` | 426 k | `NoDangling`, `MarkingExact` (marks are reachability, in spite of constants that enter already marked), `MarksCleared`, `Accounting` and `GrowthBounded` (the heap never passes three times what survived before an instruction may start), and the refinement of ManagedHeap |
| `heap_gc_liveness` | 199 k | a collection ends on every graph of the instance, cyclic ones included |
| `allocator` | 44 k | no null pointer, no address twice, use counts, free lists and `free_chunks_` agree, chunks drop out of the list only when a cleanup tick replaces the listing of a full chunk; refinement of SlotPool |
| `vm_programs` | 3.1 k | 28 programs, wherever the collector runs: expected output, error and stack trace (`OutputCorrect`), nothing dangles, an activation never changes the stack below it (`FramesIsolated`), the frame always holds as many values as the analysis of its code says, whatever was called in between (`HeightsMatch`), frames and C++ activations nest alike (`CallStackMatches`), and everything else that the theorems about the VM rest on (`Safe`); a frame that is entered finds its arguments in its slots, curried ones first (`ParametersInPlace`, a property of the steps that enter one); and every program stops (`Terminates`). The premises of the theorems about the VM are evaluated on these programs |
| `compile_programs` | 94.6 k | for a family of programs and twelve snapshot tests, before, between and after the passes of the optimizer: `StaysInCode`; `ProgramWellFormed` (one height per instruction, enough operands, no slot above the top, nothing named that does not exist, not even where execution cannot get), the premise of SafeVM; `LocalsInPlace` (at every statement, a reachable one or not, the frame holds the locals in scope and nothing else); `UpvaluesResolved`; `WindowsSound` (no jump leads into a window that the optimizer replaces and no statement begins there, a jump that is dropped pops nothing, a comparison that is folded keeps no operand: what the patterns do not ask for); from the syntax trees of the snapshot tests the compiler and the optimizer produce exactly the bytecode that the tests expect (`ListingsMatch`); the optimizer ends (`OptimizerEnds`) |
| `pipeline` | 213 k | 3556 programs (26 families and twelve snapshot tests), compiled, optimized and run: the output and the way they end are what the reference semantics of their trees says (where the code is known to report another error than a `TypeError`, this or that one: `Disputed`), no exception escapes and nothing undefined happens (`RunsAsMeant`); and every program is compiled, optimized and ends (`Finishes`) |
| `command_line` | 70 k | 8421 command lines: the parser finds what each means as a whole (`ArgumentsMeant`), positional arguments stay in order and the separator protects them (`PositionalInOrder`), what was read stays (`ReadOnce`); `main` runs the file that is named, and exactly when the command line asks for it (`RunsWhenAsked`; whether the program runs is left open where the repository's README and `main` disagree, `DisputedExit`), dumps come in order and before what fails (`DumpsInOrder`), and it always gets to the program's execution or to its exit (`GetsToRun`) |

`ListingsMatch` is also the evidence that the model of the compiler is the
compiler: the listings were written by the program itself. The same listings are
what `vm_programs` interprets, with the output the tests expect. What is expected of the programs
written for callbacks and errors is the code's way to end, not the documentation's (section 6): two of them fail
with a `TypeError` because `filter`'s function returns a function, one with an `UnsupportedOperation`
because a callback adds nil to a number.

Runs that end in a violation are in [section 5](#5-findings).

**Bounds.**
- HeapGc: an array cell, a function cell, an upvalue cell and a constant, at most
  4 references (`MaxEdges`) and 2 pointers on stack and frames (`MaxHeld`). Cycles,
  sharing, a cell held only by a constant and every kind of garbage occur. The
  liveness run has no upvalue cell and no effective bounds. The minimal threshold
  is 2 instead of 1024, so that it is reached, and exceeded after a growth.
- ChunkedAllocator: 3 chunks of 4 slots, so that there are full, partly used and
  empty chunks at once; the cleanup tick comes after 8 deallocations. Chunks are
  interchangeable (symmetry). The run may stop: when all chunks are full nothing
  can be allocated and a live list need not free anything.
- BytecodeVM: 40 heap addresses (24 of them the builtins) and 8 upvalue addresses, the most any of the
  programs needs with collections at the worst places (`HasRoom` would block the
  program otherwise, and the deadlock check would see it). `collections` bounds
  how often the collector runs, per program: 1 or 2 where a program has garbage.
  Programs whose closures outlive their scope run with 0, because of the
  first finding below. One program (`small_stack_map`) ends in the mode `undefined`, where
  its output is not judged: it is the subject of finding 3.
- Compilation: the family is 5 kinds of loop (none, while, for, range for, a
  function with a while) x 5 conditions (a comparison, a chained one with `and`, a
  constant, a negated one, a folded arithmetic one) x 2 first statements x 6
  statements inside an `if` (updates, branches, declarations, destructuring, nested
  closures) x 4 ways out of it (fall through, break, continue, return). Left out
  are breaks where locals are on the stack; and chains with two
  constants in front and conditions with a constant behind `and`, whose
  defects are known divergences. One more program has two functions of the same body with
  different names, which `deduplicate_constants` must not merge.
- Pipeline: the programs are small (lists of two, bounds from -3 to 3, loops of two or
  three rounds, functions nested three deep) because a defect of code generation or
  of the optimizer shows at the smallest instance of a construct; what matters is
  the combinations, which are all taken: every operator with every pair of kinds of
  values, every nesting of two loops with every way out, every subset of blocks that
  declare a variable, every order of four uses of shared closures. The collector may
  run once at any place in the families without closures. Conditions with a name
  (`BreakKeepsLocals`, `MergedPops`, `Crossed`, ...) leave out what the code is known to
  get wrong, and what it does otherwise than the documentation says: `MismatchedComparison`,
  `FunctionTested`, `FunctionInAny`, `FunctionResult`, `SumOfText`. Programs in which only the kind of the error
  differs are kept (`Disputed`): that they print the same and then fail is still checked.
- Lang3: 20 arguments, at least one of every form and of every kind of name (flags with both
  names and with a long one, options with both and with a long one, unknown ones, values that look like options), on
  command lines of up to 3 (`MaxArguments`): an option, its value and one more word.

**Fairness.** `vm_programs`: the VM is one thread that does nothing but interpret, so
until the program has ended it makes steps: `[]<>Ended \/ []<><<TRUE>>_vars`. Until
then an instruction or an activation can step, and collections are bounded, so this
is weak fairness of `Instruction \/ Activation`; it does not force the collector to run.
`heap_gc_liveness`: WF of `Collector`: `run_gc` is one C++ call and runs to its end;
nothing is assumed of the interpreter. `compile_programs`: WF of `Optimization`, the
same thread in `optimize`; it matters only to `OptimizerEnds`.

`pipeline`: the same thread through compiling, optimizing and running:
`[]<>Stopped \/ []<><<TRUE>>_vars`. `command_line`: WF of everything before the program's
execution, one thread that waits for nothing; nothing is assumed of the execution,
which a program may never leave.

**Mutants.** Every property of a passing run has a mutant: a change of a definition
as a mistake in that code would be (a forgotten root, a threshold off by one, a
jump target that is not moved along), written in front of the definition it
replaces (`...Late`, `...Keeps`, ...). Under the mutant TLC finds the property violated.

## 4. Proofs

TLC checks the instances above. TLAPS proves the following for every value of the
constants. All proofs are complete down to their leaves.

**HeapGc_proofs.** From `ObjectsAssumption` (the kinds of cells are disjoint, heap
cells finite) and `ThresholdAssumption` (the minimum is positive):
- `TypeCorrect`, `AccountingCorrect`, `GrowthIsBounded`. The invariant `BookInv`
  relates size, the allocations since the last sweep and the threshold; growth is
  its consequence at the head of the loop.
- `NoDanglingCorrect`, `MarkingExactCorrect`, `MarksClearedCorrect`, `Refinement`,
  under `Callbacks = FALSE` and `Escapes = FALSE`. Without the two premises they are
  false: `heap_gc_closures` is the counterexample for the second, the results of
  `map` (section 6) for the first. `GraphInv`
  says that references lead from and to existing cells and that what usable
  functions refer to is kept anyway; `MarkInv` is the invariant of marking: roots
  are marked or grey, and whatever a marked object is followed to is marked or
  grey, where constants with old marks need a clause of their own. When nothing is
  grey, marked is a closed set around the roots inside the least one.
  Reachability is the least closed set, so no induction over paths is needed.

**ChunkedAllocator_proofs.** For every chunk size from 2 and every set of chunks:
`TypeCorrect`, `NeverNullCorrect`, `ListedChunksCorrect`, `SlotsConsistentCorrect`,
`LossOnlyAtCleanup` and `Refinement` of SlotPool, with `cleanup()` called at any time. The invariant is their
conjunction with `TypeOK`: a listed chunk has a free slot because each chunk is
listed at most once and leaves the list with its last slot.

**Compilation_proofs** is about the optimizer, the passes and the merging of constants, with
whatever is compiled. `StaysInCodeCorrect`: if every jump of every chunk leads into
the chunk and the chunk ends with a return, this is so at all times during and
after `optimize`, for every code, whichever patterns match, and however the order
of values (`CompareValues`) is defined. What is assumed of the start (`Start`) is
what the compiler's output satisfies in `compile_programs`. It is not enough to
look at the chunks, because new code is under construction: `PassInv` says that
the new instructions still lead into the OLD code, that `old_to_new` leads into
the new code or to its end, and that at the end of a pass, when the return has
been copied, every entry is strictly inside. That is why a pass may drop a jump's
target: it then leads to what follows, and a return always follows. `ChainInv`
does the same for an offset that `follow_jump_chain` is at.

`TypeCorrect`, `CompiledStaysInCode` and `UpvaluesCorrect` carry this from `Compile` to the end,
from the premise `CompilerSound`: what the pass over the tree makes names only what exists, with
some shape (`Sound`). `Fitting` is its invariant. It is about the new code, too, since folding adds
constants while instructions that name others wait in both codes, and it keeps count of
the instructions that make closures: none may be dropped, or a chunk would have cells nobody gives it.
That merging renumbers every instruction to a constant of the same kind is an
invariant of the fold, too (`MergedConstants`, by `FoldLeft` over the constants).

`WellFormedIsKept`, `StackStaysDisciplined` and `LocalsStayInPlace` are about heights. Their premises
are `CompilerDisciplined`, that the code has a height for every instruction and every statement to begin
with, and `[]WindowsSound`. The second cannot be left out, since the patterns do not see to it: finding 4 is a
window that is not sound, and the height is then lost. What the theorems say is that nothing else can go
wrong: no other order of patterns and passes, no chain of jumps, no merged pop and no renumbering
breaks a frame. The invariant (`DisciplineInv`) is again about code under construction:
the new code has a height in front of each of its instructions and of the next one, the same that the
old code has at what `old_to_new` sends there, so an instruction may lead into the old code with the right height
until it is sent on (`PassFits`); the end of a chain has the height of its beginning (`ChainFits`); and a
statement moves to where its height is (`StatementsFit`).
The theorems name the properties of the run, which compute heights. `HeightsComputed` is the
bridge: what the fold of StackHeights computes has one height per offset and fits whenever some
function of heights does. As many steps as there are instructions are enough, because each step finds an offset not
seen before or ends the search, and there are no more offsets than instructions (a count of finite sets).

The two premises are about `CompileTree`, a parameter, because the compiler is recursive. TLC
checks them for the programs of `compile_programs`: right behind `Compile` the properties of the run
are what they say, with the computed shapes and heights as witnesses.

**Lang3_proofs.** For every set of flags and options, every set of arguments of the
five forms and every set of command lines: `TypeCorrect`, `PositionalInOrderCorrect`,
`ReadOnceCorrect`, and that the parser and `main` do what the words mean: `ArgumentsMeantCorrect`,
`RunsWhenAskedCorrect` (outside `DisputedExit` as to whether the program runs) and `DumpsInOrderCorrect`. The parser has an index and looks at one word at a time;
`Meaning` looks at all of them at once. `MeantSoFar` joins the two: what the parser has
collected is what `Meaning` says of the words in front of the index, no word there is one to stop
at, and the index is never at the value of an option nor behind an unseen
separator. Which words are values depends on the words before them, by a recursion whose solution
the proof constructs (`TakenIs`: an odd number of options that take the next word); positional
arguments are compared by counting what precedes them (`Enumerated`). `MainMeans` says for
each stage of `main` which effects have been made, and how it may have ended. One assumption is about the
program and not only about types, `DistinctAssumption`: different entries have different names, and no long name
is a letter. The parser does not ask for it, and would look at the first entry only; `cli_parser` keeps to it,
which TLC checks in `command_line`. The index does not pass the end because of the guard of
an option that takes the next argument.

**SafeVM_proofs**, over **SafeVM_values** (values, the heap, what builtins return, what the
collector keeps) and **SafeVM_steps** (calls and the instructions, one theorem each). For every
set of well-formed programs, every input, any number of cells and any ordering of values:
- `AlwaysSafe`: `Safe` is an invariant, and with it `TypeCorrect`, `FramesStayIsolated`,
  `CallStackAlwaysMatches` and `HeightsAlwaysMatch`. The last one is what makes the interpreter
  work without a single check: no instruction finds too few operands, no slot lies above the top.
- `ParametersAlwaysInPlace`, about the steps that enter a frame. It is a property of
  steps because as an invariant of frames at offset 0 it would be false of a chunk that
  jumps back to its beginning.

The property wanted is `HeightsMatch`, and it is far from inductive. The height behind a call that
returns is known only if its caller waits at an instruction that expects exactly what was
below plus the result: `CallersResume`, for every activation, since each becomes the innermost
one. That needs to know which frame is the caller (`CallStackMatches`) and that what is below has
not changed in the meantime (`Isolated`). `Relied` adds the callee and the two arguments which
`map`, `filter` and `count` read again after each callback. They also read the length of the array
again: it may be anything a callback left there, so `ArraysHeld` says that the array is still an
array, and no shorter than the callbacks already made (a callback may write to elements, never resize). `ResultLeft`
covers the moment between a `RETURN` and the C++ return. None of these holds while an error
unwinds, when frames are left behind on purpose; then `Typed` and `Isolated` are enough, since
the catch clauses only cut the stack down to what was below. What is typed about the heap is that
closures have the cells their chunk uses and arrays hold values, through every builtin
and every collection, which may free whatever it wants.

What is assumed:
- `ProgramsAssumption`: the programs are well formed. Not every chunk is; that those the compiler makes
  are is what `WellFormedIsKept` proves from what the compiler hands to the optimizer, and `compile_programs`
  checks of that; findings 4 and 5 are programs for which it fails. TLC evaluates the assumption on the programs of `vm_programs`.
- `BuiltinsAssumption` (the builtins of the source fit in the heap), `BoundsAssumption`,
  `InputsAssumption` (types).
- `TextTyped`, a premise of the theorems and no assumption of the module: the text of a value is a
  sequence of strings. `TextOf` is a parameter because it is recursive. The formatter of the code does not
  end on an array that contains itself, so programs that print one are outside.

**FoldTheorems.** `FoldLeftKeeps`: what each step of a fold keeps, the fold keeps. The folds of the
community modules are recursive functions chosen by `CHOOSE`; that there is one is
proved by a least counterexample, from the well-foundedness of < on the natural numbers. With it `OpClosure`
(the upvalues of a closure are captured one after the other) and `SET_INDEX` are proved.

All safety properties of the command line and of `main` are proved.

Only model-checked:
- Liveness, under fairness.
- Everything that needs a recursive operator: the pass of the compiler over the tree (that its output has the
  premises above, and `ListingsMatch`), comparison and
  printing of nested data, and the reference semantics (`RunsAsMeant`).
- `OutputCorrect`, which is about particular programs, and `NoDangling` of the VM, which does not
  hold of programs in general (finding 1).

## 5. Findings

Each is a run that TLC ends with a violation of the named property.

1. `heap_gc_closures`, `NoDangling`: `HeapCell::mark` has a handler for `Function &`,
   but values hold a `std::unique_ptr<Function>`, so it never runs: captured
   variables and curried arguments of a closure are erased while it is in use.
2. `vm_snapshot`, `SnapshotTaken`: a slot captured once keeps its cell; a closure made
   in the next round of a loop sees the first round's value.
3. `vm_span`, `DefinedBehaviour`: `map` reads its arguments through a span that the
   first callback may have invalidated.
4. `compile_condition`, `StackDiscipline`: for `if (0 <= c < 10) and a == b == 0` (the
   example of the documentation) the optimizer folds `CONSTANT false; JUMP_IF` although
   the `JUMP_IF` is the target of a jump; the condition then always fails. It takes
   two passes: the first one removes the jump in between.
5. `compile_break`, `StackDiscipline`: `break` leaves the loop's locals on the stack.

## 6. Known divergences

What the code does otherwise than its documentation, its own comments or the
reference semantics say, beyond the five runs above. The families leave these
programs out by named conditions; all of it is modelled as the code has it, so that
a program of this kind added to MCPipeline, or to MCCompilation, fails.

Optimizer:
- Two pops are merged although a jump leads to the second one: after a block with locals
  that ends with an `if` whose last branch has locals too, the only one (`while x < 9 do let z = x;
  if x < 3 then let u = x end end`) or the `else`, the stack is too low (`MergedPops`).
- Two constants and an operator are folded although a jump leads between them, as in
  `(if c then 10 else 20 end) + 1`; a chain that begins with two constants is folded
  although its link keeps the right operand.
- The negation of a constant `true` throws `UnsupportedOperation`, which ends the process.
- Two endless loops nested directly give two jumps to each other, which
  `follow_jump_chain` follows for ever.

Compiler:
- `break` and `continue` in a function inside a loop are accepted, because `loop_contexts`
  is shared by nested functions: the jump is never patched, or an instruction of the
  enclosing function is. doc/main.tex:413 says it is detected.
- `break` out of a `for` over a collection or a range leaves what the loop keeps on the stack.
- `return` inside an if-expression is that expression's value, and leaves the locals of its
  block on the stack.
- `a, b = [3, 4]` assigns nothing: the instructions are built and dropped.
- A chained comparison next to `and` or `or` (the run above is the case that shows in `if`).
- `x ^= e` assigns `e` (marked TODO); `mut` is not enforced; a `for` calls whatever `len` is in scope.
- Several `elif`s are tried in reverse order, because `with_if` appends to a list that the
  grammar builds from its end.

VM and values:
- Results of the callbacks of `map` wait in a C++ vector that is no root, and the stack may
  move while a builtin holds a span of it (the second is finding 3).
- A local is in its slot and in its cell; what a closure writes does not reach the slot, so
  the function that owns the variable does not see it.
- Closures made in the rounds of a loop share a cell (finding 2).
- `slice`, `take`, `drop` with bounds that cross only after the size was added to negative ones,
  `x % 0`, `random` with crossed bounds and `assert()` without arguments are undefined behaviour.
- `range` with something that is not an integer throws `std::bad_optional_access`, which
  ends the process; doc/main.tex:286-287 says a `TypeError` is raised.
- A function as a condition is a `TypeError`, also in `any`, `filter` and `count`; doc/main.tex:284-286
  says everything else is truthy (`FunctionTested`, `FunctionInAny`, `FunctionResult`).
- doc/main.tex:286-287 says a mismatch of types is a `TypeError`. Operands an operator does not take, and the negation
  of what is no number, are an `UnsupportedOperation`, which is not derived from it; parts (`slice`, `take`, `drop`)
  of nil or a number, and the call of what is no function, are a `RuntimeError`; a negative index of
  what cannot be indexed is a `ValueError` (`Disputed`). Values of different types are compared
  without an error: they are different and in no order (`MismatchedComparison`).
- `sum`, `map`, `filter`, `count`, `all` and `any` take arrays only; doc/main.tex:292-293 says that strings can be used
  with functions like `sum` and `map` (`SumOfText`).

Literals and the command line:
- An escaped backslash in a string disappears, and the character behind it is decoded
  (`LosesBackslash`), although `decode_escape` has a case for it.
- README.md of the repository lists `-t` for `--timings`; there is only the long flag. It says, as does
  doc/main.tex:190-192, that a dump executes nothing unless `debug` or `debug-ast` is given; main.cpp:162-163 asks for `debug` or
  `debug-vm`. `RunsWhenAsked` says nothing of whether the program runs on the command lines where this differs (`DisputedExit`).

Oddities that nothing contradicts: a pass of the optimizer that only shortens jumps is thrown
away, since only the length of the code counts; a file that does not exist reads as empty
and is a syntax error; flags set by a group of letters are lost when a later letter is unknown.

## 7. What is not modelled

- Floats and the 64-bit width of integers. Floats are IEEE arithmetic, which has no
  counterpart in TLC; an overflow would need numbers TLC does not have.
- The lexer and the parser: grammars for generators (flex, bison). The trees of Sources and
  MCPipeline are what they build; the constructors of the tree that decide something
  (`with_if`, `add_comparison`, `String`) are in Syntax.
- Printers and debug output (`ast_printer`, `dot_printer`, `bytecode.cpp`, `formatting`
  except what `println` and `str` show), the wording of errors, the layout of the help,
  timings, and source locations except the ones of stack traces: they decide nothing.
- Blocks of more than one object, which the allocator passes to `operator new`;
  the links of the cell lists (`sweep_marked_forward_list` is a step of HeapGc).
- The chance that the interpreter's own C++ stack overflows.

## 8. Plan

Done: the collector, the allocator, the interpreter, the compiler and the optimizer, each by
itself; the rest of the builtins; the pipeline from tree to output against a reference
semantics; the command line and `main`.

The VM has its theorems, `Safe` and what follows from it, for all well-formed programs; that
programs stay well formed through the optimizer is proved from the soundness of its windows; and the
command line has all of its own.

Left:
1. *Prove more.* For the compiler the lemmas about scopes
   that do not need recursion (`EndScope`, `AddUpvalue`); for the VM, `NoDangling` of programs whose
   closures refer to nothing that only they keep.
2. *Extend.* MarkedListSweep for the list of cells with its links, between HeapGc and the
   allocator; a width for integers as a parameter, with overflow as undefined behaviour.
