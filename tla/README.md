# A TLA+ model of the Baa compiler

Baa compiles an Arabic-syntax language through its own IR and register allocator to x86-64 assembly,
which `gcc` or the project's own assembler, Nazm, turns into an executable. This directory holds TLA+
modules for the parts of the compiler whose mistakes are hard to find by tests, the TLC configurations
that check them, and the theorems that TLAPS proves about them.

To check a configuration: `tlc -config MCx.cfg MCx.tla`; for the configurations without a module of
their own name, the module is named in the tables below. To check a proof: `tlapm XProofs.tla`.

## 1. Inventory

Source paths are under `src/src/`. A compilation goes through the components in this order.

| Component | State it keeps | Operations | Interacts with | What is hard about it | What makes it correct |
|---|---|---|---|---|---|
| Command line (`driver/driver_cli*`) | configuration | parse options | driver | nothing: sequential | - |
| Driver (`driver/main.c`, `driver_pipeline.c`, `driver_nazm.c`, `driver_startup.c`, `driver_toolchain.c`) | list of units and objects, registry of definitions, files on disk | compile a unit, assemble, record, build the startup object, link, write the manifest, clean up | every later component by call; the assembler and linker as processes; other compilers through the directory | each phase may fail after others succeeded; several compilers share a directory | exit status, outputs and leftovers agree; processes do not disturb each other |
| Build cache (`driver/driver_build.c`) | object and metadata of each slot | look up, validate, reuse, record dependencies, update | files the user edits; other compilers | no locks, no atomic writes; hashes taken at another time than the text | a reused object is the one a compilation would give |
| Lexer and preprocessor (`frontend/lexer*`) | stack of files, of open conditionals, macros, dependencies | next token, include, define, conditional | parser pulls tokens; cache reads the dependencies | nesting of includes against nesting of conditionals; include cycles; fixed limits | the parser gets the tokens the text stands for, and an end; every file read is recorded |
| Parser (`frontend/parser*`) | current and next token, error and panic flags, aliases | read a declaration, statement, expression; recover from an error | lexer; analysis through the tree | precedence by ten levels of functions, folding on the way, recovery in three modes | a program reads as it is written; every text comes to an end |
| Semantic analysis (`frontend/analysis*`) | symbol tables, stack of scopes, types, errors and warnings | declare, look up, enter and leave a scope, infer and check a type | parser and lowering through the tree | limits and conversion rules that the lowering repeats | what it accepts can be lowered; what it does not warn of loses nothing |
| Lowering to IR (`middleend/ir_lower*`) | bindings, targets of break and continue, current block | lower a statement, expression or declaration | IR builder, verifier | types of both sides of an operator, addresses, jumps out of nested loops, runtime checks | the IR is well typed and does what the program means |
| SSA construction (`ir_mem2reg.c`) | definitions per block | place phis, rename | dominators | joins, loops, variables not set on some path | the promoted function behaves as before |
| Optimiser (`ir_optimizer.c` and one file per pass) | the IR of a function, the iteration | one operation per pass, verify, repeat | passes see what earlier ones left | phis against changed edges; dominance; passes that undo each other | behaviour and SSA form after every pass; it settles |
| Out-of-SSA (`ir_outssa.c`) | IR; list of pending copies of an edge | split an edge, emit copies, break a cycle, remove phis | IR analysis | copies that overwrite each other's sources; critical edges; the graph changes while it is walked | the function without phis behaves as the one with them |
| Instruction selection and emission (`backend/isel_*`, `emit*`) | operands of each instruction | lower an operation, rewrite for spills, emit | register allocation between the two | combinations of spilled operands, wide immediates and scratch registers | what is emitted exists and computes the operation |
| Register allocation (`backend/regalloc*`) | liveness, intervals, active list, registers, slots | number, liveness, intervals, scan, rewrite | selection before, emission after | loops, calls, spilling a register in use | every read sees the value it would without allocation |
| Nazm emitter (`backend/emit_nazm*`) | names, data, source map | emit a function, data | driver | same operations, other assembler | same as for GAS |
| Processes (`runtime/process_runtime.c`, `driver/process.c`) | handles of child processes | start, redirect, poll, wait, cancel, release | operating system | a child that ends between two calls; process numbers used again; two outputs to one file | answers are true, children are collected once, output is whole |
| Runtime helpers (`runtime/*`) | none | strings, hash, arguments | generated code | - | - |
| Tool queries, formatter, IR text, updater | none to speak of | print, read | - | - | - |

`PROJECT.json` lists the components with every source file and says which are modelled; its `hazards`
list names the lines where each of the difficulties bites, and the property about each.

## 2. Modules

| Module | Component | Extends or instantiates |
|---|---|---|
| `Expansion` | the one text that a unit stands for, and the reading of it (abstract) | |
| `Preprocessor` | the lexer's directives and files; implements `Expansion` | `Expansion` |
| `AST`, `Words` | the syntax tree and types; machine integers of scaled widths | |
| `Parser` | `parse` and all it calls, as functions from tokens to trees | `AST`, `Words` |
| `Types`, `Analysis` | `analyze`: types, conversions, constants, layouts; symbols, scopes, inference, statements | `AST`, `Words`; `Types` |
| `TypedIR` | the IR with its types, its verifier and its execution | `Words` |
| `Lower`, `LowerStmt` | the lowering of expressions; of statements, functions, programs | `AST`, `TypedIR`; `Lower` |
| `Writing`, `Meaning` | references the front end is checked against: how a program is written, what it means | `AST`, `Words`; `Types` |
| `Unlowered` | the constructs that are accepted and not lowered, and those lowered to something else than they mean | `AST` |
| `Frontend` | one unit through parser, analysis, lowering and verifier, the stages as parameters | `MCFrontend` gives it `Parser`, `Analysis`, `LowerStmt`, `Writing`, `Meaning`, `Unlowered` |
| `IR` | the SSA form, its execution and `ir_func_verify_ssa` | |
| `Passes` | ten optimisation passes as functions on `IR` | `IR` |
| `Dominators` | `ir_func_compute_dominators`: the iterative algorithm, and frontiers | `IR` |
| `Mem2Reg` | promotion of stack variables, `ir_mem2reg_func` | `Passes`, `Dominators` |
| `Optimizer` | the loop over the passes, `ir_optimizer_run` | `Mem2Reg` |
| `ParallelCopy` | emission of the copies of one edge (`ir_emit_parallel_copies`) | |
| `OutSSA` | the pass `ir_outssa_func` over a function | `ParallelCopy` |
| `Liveness` | `regalloc_compute_liveness`, `regalloc_build_intervals` | |
| `LinearScan` | `regalloc_linear_scan` | |
| `RegAlloc` | `regalloc_func_ex`: the composition, with rewriting and execution | `Liveness`, `LinearScan` |
| `CodeEmit` | selection, rewriting and emission of one operation | |
| `BuildCache` | the incremental object cache | |
| `Driver` | the driver's phases for several processes | |
| `ChildProcess` | what a program is promised of its children (abstract) | |
| `Process` | handles of child processes and the driver's commands; implements `ChildProcess` | `ChildProcess` |
| `OutSSAProofs` (with `ParallelCopy`), `LinearScanProofs`, `RegAllocProofs`, `BuildCacheProofs`, `ProcessProofs`, `DriverProofs`, `PreprocessorProofs` | theorems | their module, `TLAPS`; `RegAllocProofs` also `LinearScanProofs` |
| `MC*` | instances for TLC | their module |

A definition whose comment begins with "A slip", or that stands next to the one it varies and is used
nowhere, is a plausible mistake in the code; `PROJECT.json` ("mutants") names the property that finds it.

### How state and actions correspond to the code

**Preprocessor.** One step is one turn of the loop in `lexer_next_token`: a name taken or skipped, a
directive, or the end of a file. `state` and `stack` are the lexer's, `ifs` and `skipping` its conditional
stack and the flag derived from it, `deps` the recorded dependencies.
`Expansion` has no stacks: it has one text, into which an include puts the file in place of the
directive, with a mark at its end, and two lists of conditions, those that are read and those passed over.
*Refinement:* `DeliversTheText` is `Expansion!Spec` with the text left of the present file, and then of each
that includes it after a mark (`From`, `Beyond`), for `rest`, and with the conditions before and after the first
that fails (`Open`, `Over`) for the two lists. `Resolve`, where a file is looked for, is the same in both.
`Expansion` is the language of LANGUAGE.md 2: a directive nobody knows means nothing in text that is passed over, and
a name that is withdrawn is defined no more, however often it was. The lexer does otherwise in both cases. Those two steps
are `Departs`, and the refinement is for every other step, also of a unit that has taken one of the two.

**Parser.** Each function takes the parser's state (position, `err`, `panic`, aliases) and gives the state
after, with the node read in `node`; NULL is the node `Nothing`. One operator per C function, or per branch
of `parse_statement` and `parse_declaration`. The ten levels of expression functions, which differ only in
their operators, are `Climb` over the table `Levels`. `Synchronize` is `synchronize_mode` with its three modes.
A loop that comes back to the token it left with nothing changed sets `broken`: the C loop would never end.
`AliasWord` (`نوع`) is a name to the lexer and is told by its text, as `parser_current_is_type_alias_keyword` does.

**Types, Analysis.** `Analyze...` and `Infer...` are the cases of `analyze_node` and `infer_type_internal`; `g`
carries the symbol tables, the scope stack, the function being analysed, whether there was an error, and
the warnings. They give the annotated tree that the lowering reads. `EvalConst`, `FitsIn`, `MayLoseData` are the
constants and conversions; `Layout` is `struct_compute_layout`.

**Lower, LowerStmt.** `g` is `IRLowerCtx` with the builder: blocks built so far, the current one, bindings
with scope starts, the stack of loop targets, the module's globals and signatures, and the runtime checks.
One operator per lowering function. `PassOrExit` and its users are the runtime checks an option asks for.

**TypedIR.** `WellTyped` and `VerifyFunc` are the verifier's rules, `RunModule` executes a module: memory is a
map from addresses to bytes, so that overlapping fields, wrong sizes and wrong offsets show.

**Frontend.** `Write` puts a program down as text, with a slip or without. Then there is one action per phase of
`compile_one_ir`: `Parse`, `Analyze`, `Lower`, `Verify`, with the phases at
which a unit stops. The stages are constant operators; `MCFrontend` instantiates the modules above and the
configurations give each constant its operator, so that what is checked is the composition. `Writing` gives the text of a program, by the language's table of precedence
(LANGUAGE.md 8.7), with as few parentheses as it allows; a *slip* leaves a token out, repeats it, or puts
another in its place. `Meaning` runs the program as the language defines it, without registers, blocks or bytes.
`Unlowered` says on the annotated tree what the analysis accepts and a later stage turns down (`TurnedDown`), and what
is lowered to something else than it means (`LosesMeaning`): the conditions of `AcceptedLowers`, which is an equivalence, and
of `SameMeaning` and `ChecksStop`. The three are references: they model no code and are not in the map.

**Process.** `handle` is `BaaRuntimeProcess`, `call` the call under way and the point it has reached, `procs` the
kernel's table. A call is begun by `Call`, `Fork` or `StartFails`, and goes on by `Try` (one `waitpid`), `Kill`
and `WaitReturns`; children set up (`ChildSetup`: redirect, chdir, exec), write, and end in between, and
processes of others take the numbers that come free. *Refinement:* `AnswersAreTrue` is `ChildProcess!Spec`.

**ParallelCopy.** `copies` is the array of `EdgeCopy`, `done` its flags, `scan` the index of the inner
loop and `progress` its flag, `nextReg` is `func->next_reg`, `code` the instructions appended so far
and `env` the registers after them. One action per branch of the loop: `SkipDone`, `SkipBlocked`,
`EmitSafeCopy`, and, at the end of a sweep, `Rescan` or `BreakCycle`.

**OutSSA.** The functions are given block by block; the walk visits blocks in layout order and, for each
predecessor, chooses the place of its copies (`StartEdge`: end of the predecessor or a new block on the
edge), emits them with the actions of `ParallelCopy`, and removes the phis at the end. The
phase `run` then walks any path through the original function and the new one side by side.

**Liveness, LinearScan, RegAlloc.** `VisitBlock` is one turn of the inner loop of the fixpoint (in the order of
`VisitAt`, last block first), `EndPass` the end of an outer one. `FewPasses` compares the number of passes with the
retreating edges on the way from a block to a use (`Tours`, `Retreats`). `LinearScan` has one action for each way an interval is served:
`AssignFree`, `SpillActive`, `SpillCurrent`; expiry is part of each of them, as it is in the code.
`RegAlloc` runs the three in turn on a machine function, and then executes the function with virtual
registers beside the rewritten one; a call destroys every register the ABI does not preserve.

**CodeEmit.** A run takes one operation with its operands (registers, immediates of two sizes),
places of the virtual registers after allocation, lowers, rewrites and emits it, and then executes what
was emitted on symbolic values. An emission is a sequence of instructions of which each is checked to
exist in x86-64 (`HasEncoding`), or to be one of the five that the code prints as they are though they do not
(`PrintedAsIs`). `SameEffect` is about the emissions that exist.

**IR, Dominators, Passes, Mem2Reg, Optimizer.** A function maps blocks to instructions and a terminator; phis map
predecessors to values. Every pass is a function from IR to IR with the flag it reports. `Optimizer`
applies the passes in the code's order (`RunPass`), and ends an iteration as the code does:
`VerifierStops`, `FixedPoint`, `NextIteration` or `IterationCap`. `Outcome` executes a function.
Calls are events of the outside world, as a call to another unit is, so `ir_inline_run`, which comes
before the loop and works on calls within the module, would find nothing to do. `IR` defines dominance
by paths, and the passes use that; `Dominators` has the algorithm, and `DominatorsCorrect` compares
the two on every graph the passes make. Memory is one global cell and one cell per stack variable,
which holds garbage at first, so that a promotion that should not have happened shows.

**BuildCache.** Each read or write of a file is one step of a build: lookup, validation of one
dependency after the other, reading, compiling, recording, and the writes of the object and of the
metadata, each of which truncates first. `Edit` changes, creates or removes a file, `Crash` ends a process anywhere.
An included name is looked for in several places, of which the first that has the file is taken (`Places`,
`Found`, as `lex_resolve_and_read_include` does); the places depend on the options, which are in the slot key, and on the
environment (`$BAA_HOME`, `$BAA_STDLIB`), which is not. The history variable `at` says where each name was found, and
an object carries it. A slot says nothing of the places where a name was *not* found; hence the condition of `HitIsFresh`
(`SamePlaces`). Headers that include headers themselves are not modelled: a second level is resolved, opened and recorded
by the same code as the first.

**Driver.** A process goes through `Begin`, the phases of each unit, the startup object, the link and
the clean-up, each with its failures. Files are named as the code names them, so that two processes
meet on a name exactly when the strings are equal. A file has a part of a unit (`UnitPart`) or the startup
code (`StartupPart`) in it, and an executable the sequence of them. A unit is told by its place on the command line, since two
may ask for one file: `-c a.baa a.نظم` names `a.o` twice. `Delivered` and `NothingLeft` are about
a process with a file for each unit (`OneEach`) of which none is another's to write as well (`OwnOutput`); `PrivateArtifacts` tells
for two processes what they share: nothing if they were told to write different files, and
nothing but what they were both told to write, with the startup files and objects named after it, if not.

## 3. Runs

Properties are stated and explained at their definitions. All runs of this table pass.

| Run | Module and configuration | Instance | Shows |
|---|---|---|---|
| `out_ssa` | `MCOutSSA` | an edge with every list of up to 4 copies over 4 registers and a constant, up to renaming; six shapes of graph (self loop, join with critical edge, equal targets, while, irreducible loop, missing entry) with all choices of phi values | the sequence has the effect of the parallel assignment (`CopiesAreParallel`) and at each moment nothing needed is lost (`ParallelValues`); same values along every path (`SameBehaviour`); the pass ends |
| `linear_scan` | `MCLinearScan` | all sorted lists of up to 5 intervals in positions 0..4, a call at any position, 3 allocatable registers | no register shared (`NoConflict`), calls survived (`CallSafe`), distinct slots under the locals (`OneHome`, `FrameContract`) |
| `reg_alloc` | `MCRegAlloc` | a loop over 3 virtual registers with two arbitrary body instructions, one loop and two nested ones laid out as the lowering does, 2 registers to allocate | the fixpoint is the true liveness and takes no more passes than the depth of the loops asks for (`FewPasses`), intervals cover it, and every read of the allocated function gets the value it should (`ReadsAgree`) |
| `code_emit` | `MCCodeEmit` | every operation, operands equal or distinct, any names spilled, immediates of two sizes | what is emitted has an encoding, but for five forms that are printed as they are (`Encodable`), and what has one computes the operation (`SameEffect`) |
| `optimizer` | `MCOptimizer` | 173 functions of eight shapes, some with stack variables that are initialised or not, levels 1 and 2, with and without the gate | after every pass: same stores, calls and result (`SameBehaviour`), strict SSA form, complete phis, right dominators; at the end nothing left to do (`Settled`) |
| `build_cache` | `MCBuildCache` | 3 builds, 2 option sets, 2 environments, with -Werror or not, 2 headers that come and go, one of them with two names, 2 versions, an edit, crashes | of builds one after the other, a reused object is what compiling would give, unless a name is now found in another place (`HitIsFresh`), and nothing is compiled twice (`NoSpuriousMiss`, `SlotsConsistent`); builds in any order never get objects of other options |
| `driver` | `MCDriver` | 2 processes, every mode and both assemblers for one; a link or `-c` of one or two units for the other; two units that ask for one object; any phase failing | status 0 means the output, made of the right objects in order, and nothing else (`Delivered`, `NothingLeft`); duplicate definitions stop before the link; processes keep to their own files |
| `frontend` | `MCFrontend` | 782 programs (every two types under every operator, every two operators, literals, nesting and names up to the limits, every way out of every loop, arrays, structures, pointers, statics, aliases, 18 mistakes, and the constructs of `Unlowered`), with and without the four runtime checks; and three of them with each token left out, repeated or replaced | a program reads as it is written and no accepted text has a token passed over (`ReadsAsWritten`); the parser ends (`RecoveryEnds`); what the analysis accepts is lowered and verified if and only if it has no construct of `TurnedDown` (`AcceptedLowers`); unless it has one of `LosesMeaning`, the IR prints and returns what the program means (`SameMeaning`), and a check stops what would go wrong and nothing else (`ChecksStop`); without a warning no implicit conversion changes a value, but for assignments through a pointer (`NoSilentLoss`) |
| `preprocessor` | `MCPreprocessor` | every main text of up to 4 items, of up to 3 with a header, longer ones at each limit, cycles, and eight places to look for a file | `Expansion` is implemented but for the two steps of `Departs` (`DeliversTheText`), every file read is recorded (`DependenciesAreFilesRead`), the lexer ends (`ReadingEnds`) |
| `process` | `MCProcess` | 2 children, 2 process numbers, ten ways to start, files empty or with an old text, SIGCHLD ignored or not | `ChildProcess` is implemented (`AnswersAreTrue`), only the handle's own child is signalled and none is left (`ChildrenAreOwned`), outputs are whole (`NothingWrittenOver`), only waiting may block (`OnlyWaitBlocks`) |

Runs that find a disagreement; section 6 lists those that conditions of the properties above leave out:

| Run | Module and configuration | What TLC finds |
|---|---|---|
| `sccp_self_loop` | `MCOptimizer`, `SccpSelfLoop.cfg` | `while (x++ < n) { }` at -O1: after the empty body is removed the loop is one block that follows itself. SCCP clears the feasible edges of a block before it evaluates its phis, so the back edge is never seen, the phi becomes the initial value, and the loop never ends |
| `eager_logic` | `MCFrontend`, `EagerLogic.cfg` | `خطأ && ف()`: both sides are lowered into one block and joined by one instruction, so the call is made although the left side is false (`AlwaysSameMeaning`, which is `SameMeaning` without its condition); LANGUAGE.md:1272 says that it stops |

### Bounds, and why they are enough

* *Edges of OutSSA*: four registers hold every kind of mix of chains, fans, a cycle with a chain
  attached and two cycles; a fifth repeats one of them. The order in which the destinations come is fixed:
  another order is a renaming of the registers. Every register holds a value of its own.
* *Graphs of OutSSA*: a decision about an edge depends on its two ends and on the kind of the terminator;
  the six shapes have every combination, and three registers give cycles of length two and three.
* *LinearScan*: four intervals over three registers force a spill, and a fifth meets a register freed
  by one. Positions matter by their order only. `MCSpec` leaves out inputs with more than one call.
* *RegAlloc*: three live values in two registers spill in a loop; both layouts of the exit block are
  there since an interval is a range of the layout. `MaxIterations` has the code's value, 100, which no function
of this size comes near; on what the cap depends, `FewPasses` says: on a way from a block to a use, one pass for each edge
that the walk meets in the wrong order, and two more, however long the function is. In loops laid out as
`lower_for_stmt` lays them out there are two such edges for each loop.
* *Optimizer*: `Width = 2` makes every arithmetic overflow happen with inputs -2, 0 and 1;
  `Fuel = 12` blocks lets each of the instance's loops end. The code's cap is 10 iterations; here it
  is 4, and `Settled` shows that stopping there changes nothing. Because SCCP reports a change
  whenever it learns a value, nearly all functions go on to the cap: `FixedPoint` is reached only by
  functions with nothing left to evaluate. *The passing run has no function in which a block becomes
  its own successor*; there the code is wrong, as `sccp_self_loop` shows. With the gate on some of
  its functions stop in "failed" (section 6, SCCP's stale phis).
* *BuildCache*: three builds are the least in which one writes a slot, one changes it and one reads
  it; `MaxDisturbed` bounds the builds that begin while another runs or after one was killed. One name is found
  beside the source or, in one environment, under `$BAA_HOME`, the other leads to the second place directly: so a header
  appears before another, goes away and leaves it to the next, or is reached by two names.
* *Frontend*: 8, 32 and 64 bits are 3, 5 and 8 bits wide, so that every wrap-around, promotion, sign
  extension and shift beyond a width happens among the numbers used; comparisons of widths keep their
  order. The limits of scopes, symbols, locals and loops (64, 100, 256, 64) are 7, 6, 9 and 7, and the
  programs reach and pass each. `Fuel` ends a loop that does not end, in the program and in its meaning alike.
  A text with a slip is followed through the parser only; a slip leaves the definitions of aliases alone, which change
  how all the rest is written.
* *Preprocessor*: limits 2, 3 and 3 for 10, 32 and 100; four items open, turn, close and use a condition, and define a
  name twice before it is withdrawn. Unknown directives are in text that is read and in text that is passed over.
* *Process*: two numbers let a child's number go to another process while its handle is still held. Each stream
  writes once to a file, which is enough to write over what the other wrote or over the old text.
* *Driver*: two processes; the inputs have a Baa unit with a Nazm one, of another base name or of the same, two units that
  define the same name, and a single one; the second process has another output, or the same, or with `-c` one unit of the
  first's. A third process would do to the second what the first does; the theorems hold for any number.

`CHECK_DEADLOCK FALSE` is used where a run really comes to an end: a compilation stops.

### Fairness

`ParallelCopy`, `OutSSA`, `LinearScan` and `RegAlloc` are single-threaded passes with nothing to wait
for: while one has a step to take the process takes it, hence weak fairness of the pass's own steps
and of nothing else. `Preprocessor` likewise: the parser asks for tokens until the end. In `Process` a
call under way goes on (`Library`), and a process told to end by SIGTERM does in time, which holds of children
that do not ignore it; nothing makes a child that was not told to end do so. The steps of the execution that follow a pass in `OutSSA` and `RegAlloc` have no
fairness, since the compiled program need not run. The other modules state no liveness and assume none.

## 4. Proofs

Proved for all values of the constants that satisfy the named assumptions:

| Module | Theorem | Statement |
|---|---|---|
| `OutSSAProofs` | `TypeCorrect` | `PCSpec => []PCTypeOK` |
| | `NoLostCopy` | `PCSpec => []ParallelValues` |
| | `ParallelCopyCorrect` | `PCSpec => []CopiesAreParallel` |
| | `OutSSACorrect` | `Spec => []SameBehaviour` |
| `LinearScanProofs` | `ScanNoConflict` | `LSSpec => []NoConflict` |
| | `ScanCallSafe` | `LSSpec => []CallSafe` |
| | `ScanOneHome` | `LSSpec => []OneHome` |
| | `ScanFrameContract` | `LSSpec => []FrameContract` |
| `RegAllocProofs` | `LivenessIsExact` | `Spec => [](FixpointBeforeCap => LivenessCorrect)` |
| | `IntervalsCover` | `Spec => [](FixpointBeforeCap => IntervalsCoverLiveness)` |
| | `AllocationPreservesReads` | `Spec => [](FixpointBeforeCap => ReadsAgree)` |
| | `CapSuffices` | `FunctionsWithinCap => (Spec => []FixpointBeforeCap)` |
| | `AllocationWithinCap` | `FunctionsWithinCap => (Spec => [](LivenessCorrect /\ IntervalsCoverLiveness /\ ReadsAgree))` |
| `BuildCacheProofs` | `CacheRespectsOptions` | `Spec => []OptionsRespected` |
| | `SlotsStayConsistent` | `Spec => []SlotsConsistent` |
| | `MissesAreNecessary` | `Spec => []NoSpuriousMiss` |
| | `HitsAreFresh` | `Spec => HitIsFresh` (an action property) |
| `ProcessProofs` | `HandlesOwnChildren` | `Spec => []ChildrenAreOwned` |
| | `AnswersAreProved` | `Spec => AnswersAreTrue` (the refinement of `ChildProcess`) |
| | `NothingIsLost` | `Spec => []NothingWrittenOver` |
| `PreprocessorProofs` | `TextIsDelivered` | `Spec => DeliversTheText` (the refinement of `Expansion`) |
| | `DependenciesAreListed` | `Spec => []DependenciesAreFilesRead` |
| `DriverProofs` | `DuplicatesNeverLink` | `Spec => []DuplicatesStopped` |
| | `SuccessDelivers` | `Spec => []Delivered` |
| | `SuccessCleans` | `Spec => []NothingLeft` |
| | `ArtifactsPrivate` | `Spec => PrivateArtifacts` (an action property) |

*ParallelCopy* (assumptions `RegsAssumption`, `ValAssumption`: a number of registers, of copies, and a
set of values). The type invariant `PCTypeOK` is proved, and no run repeats it.
`CopiesAreParallel` says something about the end only, so it is not inductive. `PCInv`
adds `ParallelValues`, which holds all along: doing the pending copies at once from the present registers
gives what the parallel assignment gives from the first ones. For that to survive an emitted copy, the
destinations must be distinct (`DistinctDests`) and registers no copy has written must still have their
first value (`Untouched`). There is one lemma for the steps that move the scan only, one for
`EmitSafeCopy`, where the guard says that no pending copy reads the destination, and one for
`BreakCycle`, where reads of the saved register are redirected to a fresh one.

*OutSSA* (`FunctionsAssumption`: what the verifier lets through. A function is a nonempty sequence of blocks, a
terminator has at most two targets, the phis of a block write different registers and read registers of the function
or constants.) `PCInv` is about one run of the emission, from one register file; the code placed on an edge is run
later, from any. `CodeInv` therefore says of the emitted code what `PCInv` says of `env`, for every register file
that has the function's registers, whatever the temporaries hold in it (`RunAppend`: what one copy more does). `Done` is
how far the pass has come: the edges into earlier blocks, and those into the present one whose predecessor has been
passed. An edge leads to its block directly, or through a block of its own that no other edge enters (`Direct`,
`Bridged`); what runs on a done edge does what the phis of its target do (`Correct`), and nothing runs yet before the
terminator of a predecessor with an edge that is not done. That the place of the copies is empty when they are put there is
where the predecessor lists matter (`PredsRight`, from the order of the edges in `Ranks`): a predecessor with one
successor is listed once (`PlaceIsEmpty`), one whose two targets are equal twice, and then the block of the second
pass is entered by no edge. When the pass has ended every edge is done, so each step of the execution keeps the two
register files in agreement (`BranchInv`).

*LinearScan* (`ScanAssumption`: registers are names other than "none"; the bounds are naturals).
`NoConflict` speaks of all intervals scanned, while the code looks at the active ones. `LSInv` adds what
joins the two: an active interval holds its register and the register is not free (`ActiveHold`), a
scanned interval with a register that is not active has ended before the present start (`Expired`), intervals
are sorted and well formed, those not yet scanned have no register. `AfterExpiry` and `GiveRegister` are
the lemmas that each of the three actions uses. For `OneHome` and `FrameContract`, `HomeInv` says what each
index has: one scanned and unspilled a register and no slot, one spilled a slot between the locals and the last
slot given and no register, two spilled ones different slots. `FreshSlot` is the lemma on the next slot, which
lies below every one given; `RecordedUse` that a callee-saved register is recorded where it is assigned.

*RegAlloc* (`LivenessAssumption`: finitely many virtual registers, a positive cap. `FunctionsAssumption`: the scratch
register is not allocatable; a function is a nonempty sequence of blocks whose successors are blocks of it; an
instruction writes at most one register, as a `MachineInst` has one `dst`; a block begins with its label and ends with
a jump or return, so neither its first nor its last instruction is a call.) `LVInv` is about the fixpoint: only what is
live is in the sets (`Sound`), and in a pass that has changed nothing so far the equations hold for the blocks it has
visited (`Settling`). At the end of such a pass they hold for all of them, so the blocks with v in their `liveIn` are
closed under the rule that defines liveness, and contain the least such set (`Fixpoint`). `LiveWithin`: what is live at
an instruction is recorded at or before it and at or after it, hence within its interval; `LiveAcross`: strictly, if
it is live on both sides of an instruction inside a block, which is what makes the interval of such a value cross a
call. `RAInv` adds that the intervals are those of the recorded registers, each once (`Listed`), that the scan keeps
`HomeInv`, and that during execution each value still needed is in its home (`Agrees`). An instruction disturbs
no other value that is needed: two registers within their intervals at one position are not in one place
(`HomesApart`, from `NoConflict` and `OneHome`), and a call leaves callee-saved registers alone (`CallSafe`). At a jump
the equations carry the values into the successor. `ReadsAgree` is one instance of `Agrees`.

The code stops the iteration after 100 passes whatever has changed, and then liveness may be too small; the
theorems therefore have `FixpointBeforeCap` as their condition. `CapSuffices` discharges it for functions with fewer
possible memberships of the sets than the cap has passes: every pass but the last adds one (`PassesCounted`). For larger
functions the number of passes is a matter of the depth of loops, which `FewPasses` says and TLC checks; where
they are nested too deep the condition is false (section 6).

*BuildCache* (`CacheAssumption`: there is an environment with options to build in, each name has a list of headers for
places in each of them, a header is not the source, bounds are naturals).
Two invariants. `OptionInv` makes no assumption on how builds, edits and crashes interleave: a slot has
objects of its own key only, or none, or a truncated one, and what a build is about to write has its own key
(`OwnSlot`). `CacheInv` is about calm histories, where builds follow one another: at most one build runs, every
build that runs knows the disk as it is (`Knows`, by the point it has reached) and has read what the places ask for in which
it found the names (`ReadFor`), every slot that parses has the object of its metadata, made from the names its source
includes and from the headers it lists (`Consistent`), and what was compiled since the last edit is in a slot that would be
reused (`Current`). That the names would be found in those places now follows from nothing the code looks at, and is
the condition of `HitsAreFresh`; from it the theorem concludes that compiling now gives the same object (`Compiled`). An edit and a second build each end the calm or leave what is known true, which is why the
same invariant serves `SlotsConsistent`, `NoSpuriousMiss` and the step property `HitIsFresh`.

*Process* (`ProcessAssumption`: exit codes are bytes, others own no handle, being alive is no way to end, a program
starts children by its handles).
Everything depends on a number being one child's for as long as its handle has not collected it. `ChildInv`:
unless SIGCHLD is ignored, a process that is a child belongs to the live handle that names it, and only one whose
end is not known (`Bound`); the system's record of an end and the handle's are how the child really ended
(`Told`); a call is about a live handle, and one that is about to signal has seen the child not ended
(`CallOnLive`); who was told to end is its own (`OnlyOwnTold`). From it every step of `Process` is a step of
`ChildProcess` under the mapping of the module, or a stutter: the steps of the system map to the end of a
child (`EndsAsPromised`), those of the library to an answer (`LibraryAsPromised`).
`NothingWrittenOver` needs another invariant, `WriteInv`, which holds whoever collects the children. A handle has one
child at most, and no process before it is started (`OneChild`), so nobody opens its files twice; until they are
open nothing is written (`Unopened`); and from then on a file holds what was written to it and a stream that may still
write to it is at its end (`Written`). For two streams of one file the last is true only because they share
one open file: `Faithful` says of a stream that has written already that it is at the end if they do (`SameFile`).

*Preprocessor* (`PreprocessorAssumption`: the limits are naturals; a unit has the file it begins with, paths are
sequences of names and texts of items). Nothing bounds the files, the texts or the depth. Four groups of lemmas lead from
the lexer's state to that of `Expansion`. Definitions: the lexer withdraws one, the language all of a name; they are the
same where the name is not defined twice (`KeepsOthers`, `OthersAre`), which is where `Departs` does not hold.
Conditions: `ReadUpTo` says that those up to some depth hold and no other, which
`Nest` keeps, since a condition inside one that fails does not hold either; `Opened`, `Turned` and `Closed` are what the
three directives do to the two lists. The text: `StepRest`, `PushRest` and `PopRest` are what an item, an include and the
end of a file do to it. `Beyond` is a recursive function over the stack; that it exists and what it is for one file
more (`BeyondMore`) follows from the least depth at which it could fail, since induction cannot be cited. Files:
`Chain`, in the same way. The invariant `Reads` adds to these that the flag is that of the stack of conditions
(`Nested`), that the definitions are a list of names with values, that an open file exists and that it is recorded
(`Opens`), for which `ResolveIs` says that a file found exists. There is one lemma per action, `SkipStep` to `EndStep`: it keeps `Reads` and is a step of `Expansion`, or of `Departs`.

*Driver* (`JobsAssumption`: what a command line is). Theorems about any number of compilers, any
inputs, any phase failing. The invariant `DriverInv` has five parts for each compiler. `Shape`: at
which phases which modes and inputs can be. `Objs`: the list of objects has one name for each unit finished, the
name the code gives it (`ObjectOf`), distinct in a link, with the startup object last. `Files`: what is in the
objects, the sources and the executable at each phase, if no other is told to write them and no two inputs ask for one
(`OneEach`; then units with the same object are the same, `SameObject`). `Left`: a file of this
compiler is one asked for, or one it still needs. `Registry`: the names of the units compiled are in the
registry, each once. The argument that joins compilers is in `StepTouches` and `NamesApart`: a step touches
only files that are `Named` after its compiler (by its process number, or by an output of its own), and names of
two compilers with different outputs are apart; hence others' files stay, `Files` and `Left` survive the steps of
others, and `ArtifactsPrivate` is the same fact read as a property of steps. That a `.نظم` unit's object has
a name of its own is counting: the number of such inputs up to an index grows with it (`DirectCounts`).

Model-checked only, and why:

* `PassTerminates`, `OnlyWaitBlocks` and `ReadingEnds` are liveness, or say that something is enabled.
* `IR`, `Dominators`, `Passes`, `Mem2Reg`, `Optimizer` and the modules of the front end use recursive operators, which
  the prover does not accept; what a recursive definition computes for every input needs induction over data.
* `FewPasses`: an argument on the tours of a graph, with `FunctionsWithinCap` for what is proved instead.
* `Encodable` and `SameEffect` of `CodeEmit`. Its constant is a finite set of operations, of which `code_emit` takes all,
  with all subsets of the names spilled and both sizes of immediates: the run leaves out no value of it.

## 5. Not modelled, and why

* Command line, tool queries, formatter, IR text: functions from text to text, with no state that later
  steps rely on.
* In the lexer: the scanning of characters into names, numbers and strings, and UTF-8.
* In the front end: strings, floating point, function pointers, variadic functions, inline assembly and the
  library calls that the lowering turns into calls of the C library or the runtime (vectors, string builders,
  paths, formats). They would each need a heap or a text in the model; what they share with the rest
  (conversions, control flow, addresses) is there.
* In `BuildCache`: headers that include headers, failing reads and writes, collisions of hashes.
* Inlining and unrolling; argument passing and the frame; the Nazm emitter; the runtime's string and hash
  helpers.
* In `Passes`: floating point, conversions, bit operations, types of different width and failing
  allocations; in `CodeEmit`: inline assembly, `select` and the peephole pass; in `Driver`: the shadow
  comparison and the probe of the Nazm executable; in `Process`: Windows, directories, interrupted calls.
* The updater drives a Windows installer.

## 6. Disagreements known without a run of their own

Each was met while modelling. Those of the first list belong to a property that is checked; the definition named first or
second sets the case apart, so that the property says what holds of all others. All but the cap on the passes of liveness happen
in the passing runs:

* `HitIsFresh`, `SamePlaces`: places where an include was looked for in vain are not recorded as dependencies, and
  `$BAA_HOME` and `$BAA_STDLIB` are not in the slot key (`lexer.c:437`, `driver_build.c:148`, `:286`). With builds one
  after the other, a header created in an earlier place, or another environment, gives a stale hit;
  TOOLING_CONTRACTS.md:31 says "reuse cached object files when safe".
* `HitIsFresh`, `NoSpuriousMiss`, `calm`: source and dependencies are hashed after the compilation
  (`driver_build.c:568`), so a file edited meanwhile is recorded with its new hash and the object of the old text, which the
  next build reuses. A build killed between the writes of a slot, or two builds of one unit at once, can leave a slot
  whose object is cut short and that is reused later.
* `BuildCache.Compiled` is about the object: a source with a warning that was compiled incrementally and is then compiled with
  `-Werror` is a hit and succeeds, as the slot key (`build_slot_hex`) has no warning options and a hit skips the analysis.
  USER_GUIDE.md:241 says that -Werror makes such a compilation fail.
* `Delivered`, `OneEach`: in `-c a.baa a.نظم` both ask for `a.o`; the second overwrites the first, and the status is 0.
* `Delivered`, `NothingLeft`, `OwnOutput`: the startup source and object are named from the output alone, so two builds of
  one output delete them under each other.
* `Encodable`, `PrintedAsIs`: `IMUL` and `CVTTSD2SI` are printed with a destination in memory if it was spilled
  (`emit_inst_body_a.inc:185`, `:308`), `AND`, `OR` and `XOR` with two operands in memory (`emit_inst_body_b.inc:409`),
  `IMUL` with an immediate of more than 32 bits, and the widening of a constant at -O0 as `movsbq` with an immediate. No
  assembler takes these. INTERNALS.md:2237 says that spilling by rewriting "works because x86-64 allows one memory operand per
  instruction".
* `DeliversTheText`, `Departs`: `#خطأ` (LANGUAGE.md:139-151) is a directive the lexer does not know, and an unknown one is
  fatal in skipped text too, so that the document's own example stops the unit. A second definition of a name leaves the first
  in the list, and `#الغاء_تعريف` (LANGUAGE.md:124-137) takes away one of the two.
* `AcceptedLowers`, `TurnedDown`: accepted by the analysis, and then refused by the lowering or the verifier: `س++.` as a
  statement (BAA_BOOK_AR.md:433 shows it; `ir_lower_cf_stmt.c:404`); an expression in the head of a `for`, which is not analysed;
  ordering of pointers; comparison of results of functions without one; `&` and `++` of what has no place; an element of an
  array of structures as a value; a switch over anything but 64-bit integers, or with a letter as label; reading into a
  global, a static or an array; a structure of no size; an array of structures with values; code after a jump; and a function
  that ends in an `إذا` of which both branches return. (`p[i] = v` is refused by the analysis itself, with an error.)
* `SameMeaning`, `LosesMeaning`: `&&` and `||` evaluate both sides (the run `eager_logic`), and a variable's initialiser sees
  the variable in the lowering, the outer one of its name in the analysis.
* `NoSilentLoss`: `*p = v` gives no narrowing warning (`analysis_visit.c:530`); USER_GUIDE.md:246 promises one for implicit
  conversions.
* `FewPasses`: the code stops after 100 passes (`regalloc_liveness.c:38`), which `regalloc.h:253` does not say ("until
  they are stable"). At -O0 n loops `لكل` in one another take 2n + 1 passes; the front end admits 62 of them (`analysis.c:26`,
  `ir_lower.h:59`), and from the fiftieth on the sets of the innermost blocks are cut short and registers still needed are
  given away. At -O1 the blocks are merged, which leaves one edge for each loop against the walk, and the cap is enough.
* `PhisComplete` lets an entry of an edge that is gone stay: SCCP turns a conditional branch into a jump and leaves the
  dropped edge in the phis of its target (`ir_sccp.c:440`); the verification gate then refuses the function
  (BOOTSTRAP_CONTRACT.md:215).

The instances do not reach these, or no property is about them:

* A unit that comes from the cache, or from a `.نظم` file, is not in the registry of definitions, so two
  definitions of a name reach the linker (status 4, not 1), against `ROADMAP.md:1626`; `DuplicatesStopped` is about the
  units compiled.
* After a failing unit the objects of earlier units stay on disk.
* A call that goes on as an expression (`f(1) + 1.`) is taken apart as the call it is not
  (`parser_stmt.c:961`): the arguments are read from another node, or from NULL.
* `+=`, `-=` and their like (LANGUAGE.md 8.5) are neither tokens nor parsed.
* Folding two literals of which one needs 64 bits changes the type of the result.
* Unnamed parameters are read, and then refused by the analysis, in prototypes too.
* Conditions may be opened in one file and closed in another, of which LANGUAGE.md says nothing; `Expansion` lets them.
* Fields of other types than int, bool, enum, string, pointer or aggregate get size 0 (`analysis_types.c:144`).
* `&x + 1` is scaled twice.
* Constants are computed in 64 bits where the program wraps at 32; int to bool truncates; ++ and -- apply to
  constants; an integer initialises a pointer; initialisers of statics that
  the analysis accepts are lowered to 0 or untruncated; elements of arrays
  of enumerations are not compared by name; characters are stored unconverted in arrays and structures.

Processes:
* With SIGCHLD ignored the answers are -1, and cancelling may signal a number used again: `AnswersAreTrue` and
  `ChildrenAreOwned` say so in their condition.
* With an environment of its own the search for the program stops at the first file it may not run, without
  one it goes on. One file named by two spellings is opened twice. A child that ignores SIGTERM blocks the release
  of its handle.

## 7. Plan

Done: `ParallelCopy`, `OutSSA`, `LinearScan`, `Liveness`, `RegAlloc`, `CodeEmit`, `BuildCache`, `Driver`, `IR`, `Passes`,
`Dominators`, `Mem2Reg`, `Optimizer`, `Preprocessor`, `Parser`, `Types`, `Analysis`, `Lower`, `LowerStmt`, `Frontend`,
`Process`; the theorems of section 4.

Left, in order of importance:

1. A theorem: a bound of the passes of liveness by the depth of the loops.
2. `Inline` and `Unroll`, as passes on `IR` with several functions.
3. `CallFrame`: argument passing, stack arguments, tail calls, prologue and epilogue for both ABIs; composes
   with `RegAlloc` (`FrameContract` is its assumption). `NazmEmit` after `CodeEmit`.
4. `Vector` and `StringBuilder`: the containers the compiler generates code for, with their capacity.
