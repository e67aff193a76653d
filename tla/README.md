# Verification of OhaLLVM

OhaLLVM implements *optimistic hybrid analysis* (OHA) as LLVM passes and
runtime libraries. A program is profiled; what the profile never saw is assumed
never to happen; a points-to analysis and a static slicer run under those
assumptions and are more precise for it; and the assumptions are checked while
the instrumented program runs.

This directory is the verification development kept beside that code: TLA+
modules for its components, TLC configurations that check them on small
instances, and theorems proved with TLAPS. `PROJECT.json` is the index: the
source lines each definition models, the runs, the mutants each property must
catch, the hazards, and the findings.

Contents: 1 inventory of the system; 2 the modules and how they correspond to
the code; 3 the runs, their bounds and fairness; 4 what is proved; 5 where the
code and its documents disagree; 6 what is only model-checked, and what is not
modelled; 7 the plan; 8 how to run everything.

Paths are relative to `src/`. (The repository has a directory `src` of its
own: `src/src/Solve.cpp` in `PROJECT.json` is `src/Solve.cpp` here.)

## 1. Inventory

### How a program flows through the system

    bitcode --> profiling passes --> program + profiling runtimes --> logs --> merge tools
                                                                                 |
    bitcode --> Cg (constraints) --> CgOptimize --> AndersGraph, solve <-- loaders
                                                      |
                        SpecAnders / SpecAndersCS (alias queries), StaticSlice
                                                      |
                     Assumptions --> InsertSpecAssumptions --> program + check runtimes

The components meet at four interfaces: **log files** (a runtime writes, a
merge tool combines, a loader pass reads); **numberings** shared by the
profiling build and the analysis build (`CsCFG` ids, `BBNumber`, `ValueMap` ids:
a mismatch would silently attach facts to the wrong code); **hooks**
(`__DynPtsto_do_*`, `__DynContext_do_*`, ...) whose placement relative to the
instrumented instruction is part of their contract; and the **constraint
program**, which `Cg` produces, `CgOptimize` rewrites and the solvers consume.

### Components

| component | state it keeps | operations | what makes it correct |
|---|---|---|---|
| **Constraint generation** `src/Cg.cpp`, `ConstraintPass.cpp`, `ExtInfo.cpp`, `CallInfo.cpp` | constraint list, indirect calls, per-function call records | one visitor per IR instruction; effect of each library function; linking of direct calls | a solution of the constraints contains every address a variable can hold |
| **Value numbering** `src/ValueMap.cpp` | value/object ids, representatives after optimisation, field objects | create, find, merge, lower | ids of distinct objects stay distinct; fields lie next to their object |
| **Offline optimiser** `src/CgOptimize.cpp` (HVN, HU, HR, HCD; `RunTarjans.h`) | offline graph, labels, HCD table | Tarjan, relabel, merge, rewrite constraints | the least solution is unchanged for every value |
| **Online solver** `src/Solve.cpp`, `AndersGraph.cpp`, `SolveHelpers.h` | union-find of nodes; per node points-to set and the part already propagated, constraints, copy and field edges, indirect calls; two-heap worklist with priorities; lazy-cycle-detection candidates | pop, update set, process constraints, field edges, calls, copies, collapse cycles | ends; sound; invents nothing; merging only ever merges nodes with equal solutions |
| **Context-sensitive solver** `src/CsSolve.cpp`, `SpecAndersCS.cpp` | the same, with HCD merging in the loop and functions cloned per call path | as above; `mapIn`, `addIndirectCall` | as above |
| **Points-to sets** `SolveHelpers.h`, `lib/BddSet.h` | BDDs with a vector cache | union, intersect, field shift | a set behaves like a set; the cache is never stale |
| **Alias interface** `SpecAnders.cpp`, `ModuleAAResults.cpp` | none | `alias`, `getModRefInfo` | NoAlias only for values that never meet |
| **Control-flow graphs over calls** `lib/CsCFG.cpp`, `SpecCsCFG.cpp`, `FcnCFG.cpp`, `BasicFcnCFG.cpp` | call-site graph, merged SCCs | build once; `findPath` | same ids in both builds; a cycle of calls is one node |
| **Call-context profiler** `lib/Instrument/CallContextPass.cpp`, `StaticLibs/DynCallStackLib.cpp`, `tools/merge_callstacks.cpp` | per thread a stack of ids, a `pushed` flag, jmp_buf table; a global set of stacks | call, return, setjmp, longjmp, finish; merge; load; lookup | the stack is the chain of live calls; no context that occurred is missing; none is invented |
| **Points-to profiler** `lib/Instrument/DynPtsto.cpp`, `StaticLibs/DynPtstoLib.cpp`, `tools/merge_logfiles.cpp` | a map of address ranges to object ids, pieces per base, per-thread allocation frames and jmp_bufs, ids per value | main, call, alloca, return, malloc, free, realloc, gep, visit, setjmp, longjmp, finish; load; `noAlias` | the map is the live memory; every pointee a variable had is logged |
| **Edge profiler and signal shims** `EdgeCountPass.cpp`, `StaticLibs/DynEdgeCountLib.cpp`, `SignalHandler.cpp`, `lib/ExitInst.cpp` | counters and their lock; the kernel's signal table, shimmed handlers | visit, finish, exit shim, sigaction shim, handlers | however the program ends the counts are written; the program's own signal handling is unchanged |
| **Indirect-call profiler** `IndirFcnTarget.cpp`, `StaticLibs/IndirFcnTargetLib.cpp` | a set of targets per call site | visit, finish, load | every target called is logged |
| **Alias profiler** `DynAlias.cpp`, `StaticLibs/DynAliasLib.cpp` | last accesses per address range | load, store, malloc, free, finish | every pair that met is logged |
| **Points-to check runtime** `DynPtstoCheck.cpp`, `StaticLibs/DynPtstoCheckLib*.cpp` | the same map as the profiler | the same hooks; visit asserts | a pointer outside its profiled set is reported |
| **Speculative checks** `Assumptions.cpp`, `InsertSpecAssumptions.cpp`, `StaticLibs/SpecSFSCheckLib.cpp`, `BloomHash.h` | assumption set; at run time a stack of ids and a map of addresses to object ids | choose and insert checks; push, pop, check, alloca, ret, alloc, free, set check | an assumption that fails is noticed before the analysis result is relied on; one that holds never raises an alarm |
| **Calling contexts and slicer** `src/ContextInfo.cpp`, `lib/StaticSlice.cpp` | a cache of call stacks keyed by BDD; work list of (instruction, context) | push, pop, all contexts, prior contexts; slice | the slice contains everything the criterion depends on in a valid context |
| **Small passes** (`BBNumber`, `StoreNumber`, `PtsNumberPass`, `ProfDisabler`, `CallDests`, `UnusedFunctions`, counters, printers, test passes) | one counter or table | one pass | numbering is the same in every build |
| **Legacy analysis** (`IdentifyObjects.cpp`, `ObjectMap.h`, `DUG.h`, ...) | | not built by `CMakeLists.txt` | |

### The hard behaviours

* **Worklist algorithms with in-place merging.** The solver skips stale entries,
  propagates only differences, and merges nodes while visiting them. Each of
  these is a way to lose an update that no small test shows.
* **Shadow state that must track a program it only sees through hooks**: the
  call stack and the memory map, across long jumps, recursion, failing reallocs,
  field accesses that split entries, and two threads between a real allocation
  and its hook.
* **Ends of a process**: exits, signals at any instruction, two threads that end
  the program at once, a lock held by the interrupted thread, log files written
  in pieces and merged without locks.
* **Numeric edges**: `size() - 1` of an empty vector, ids with reserved values,
  fixed-size signal tables.
* **Speculation**: facts the profile did not see are dropped from the analysis,
  so a lost profile entry, or an assumption nobody checks, is an unsound answer.
* **Numbers that stand for things and are moved**: value ids are remapped by import,
  lowering and merging, tables of them grow while the solver runs, and caches are
  keyed by numbers that may come to mean something else.

The 40 hazards of `PROJECT.json` list these at the line where they bite, with the
properties that would notice and what those except.

## 2. Modules

| module | models |
|---|---|
| `AndersConstraints` | the solvers' input and what it is for an assignment to satisfy it (`Cg.h`, `AndersGraph::addConstraint`, `SolveHelpers.h`) |
| `AndersSolve` | `solve` of `Solve.cpp` and `CsSolve.cpp`, `AndersGraph`, `Worklist` |
| `AndersSolveInv` | type invariant, safety properties, inductive invariant |
| `AndersRefines` | what makes the solver an implementation of `PointsTo` |
| `AndersSolveProofs` | theorems about all of these |
| `OfflineOpt` | `CgOptimize.cpp`, `CgOpt.h`, `RunTarjans.h`, the union-find of `util.h` |
| `LeastSolution`, `PointsTo` | the reference answer; the abstract specification of an analysis |
| `CallStackLib` | `DynCallStackLib.cpp`, the hooks of `CallContextPass.cpp`, the ids of `CsCFG.cpp` |
| `CallStackProofs` | theorems about it |
| `CallContexts` | `merge_callstacks.cpp`, `CallContextLoader`, the lookup of a context in `CallContextPass.h` |
| `DynPtstoLib` | `DynPtstoLib.cpp` and the hooks of `DynPtsto.cpp` |
| `DynPtstoProofs` | theorems about it |
| `PtstoProfile` | `__DynPtsto_do_finish`, `merge_logfiles.cpp`, `DynPtstoLoader`, `noAlias` |
| `PtstoProfileProofs` | theorems about it |
| `EdgeProfile` | `DynEdgeCountLib.cpp`, `SignalHandler.cpp`, `ExitInst.cpp` |
| `EdgeProfileProofs` | theorems about it |
| `DynAliasLib` | `DynAliasLib.cpp`, the hooks and the loader of `DynAlias.cpp`, `DynAlias.h` |
| `DynAliasProofs` | theorems about it |
| `IndirTargets` | `IndirFcnTargetLib.cpp`, `IndirFcnTarget.cpp`, `IndirFcnTarget.h` |
| `ModInfo`, `ExtInfo`, `ConstraintGen` | sizes and offsets of types; the table of library functions; the generation of constraints (`ModInfo.h`, `ExtInfo.cpp`, `Cg.cpp`, `CallInfo.cpp`) |
| `IRMachine` | the programs themselves, run: what the constraints must cover; `SpecAnders.cpp`'s alias query |
| `IRMachineInv` | the programs its theorems are about; the inductive invariant |
| `IRMachineProofs` | theorems about it and about `LeastSolution` |
| `SpecContexts` | calls linked by profiled context, functions cloned per path (`Cg.cpp`) |
| `SpecChecks` | `InsertSpecAssumptions.cpp`, `Assumptions.cpp`, `SpecSFSCheckLib.cpp`, and the run of the program that carries the checks |
| `SpecChecksProofs` | theorems about it and about `SpecContexts` |
| `SliceContexts` | `ContextInfo.cpp` and the graphs under it: `CsCFG`, `FcnCFG`, `CallDests`, `BBNumber` |
| `StaticSlice` | `StaticSlice.cpp` |
| `SliceRuns` | the sliced program, run: what a slice must contain |
| `ValueMap` | `ValueMap.cpp`, and the union-find and remap tables of `util.h` |
| `GraphValues` | `Cg::mapIn`, `lowerAllocs`, `addExternalCall`, `BddPtstoSet::updateGeps`: ids from generation to solver |
| `PtstoSet` | `BddPtstoSet` and its vector cache, over a BDD library that collects garbage |
| `MC*` | constants for TLC, and two or three components side by side in one run |

A definition whose name ends in a suffix and whose comment starts with
"(wrong: ...)" is not part of a model: it is the definition below it with a
plausible bug, and a property must fail when it is used instead (`mutants` in
`PROJECT.json`). Nothing else refers to it.

### AndersSolve

One visit of a node is a sequence of steps named by `pc`: *pop* (with the
staleness test, the HCD merge of `CsSolve.cpp` and `getUpdateSet`), *cons* (all
Load and Store constraints), *succ* (each field edge; then each indirect call;
then all copy edges) and *lcd* (collapse cycles once enough candidates are
noted). Steps are as fine as the order can matter: the loops over constraints
and over copy edges add only what they would add in any order, so each is one
step; the loops over field edges and calls may change the visited node itself, so
each iteration is a step.

| TLA+ | code |
|---|---|
| `rep` | `AndersGraph::reps_`, with the paths compressed |
| `ptsto`, `old` | `AndersNode::ptsto_`, `oldPtsto_`: what a node holds, what it has propagated |
| `copy`, `gep`, `cons`, `seen` | its edges, constraints and, for each indirect call, the pointees already linked |
| `heap`, `nextHeap`, `prio`, `vtime` | `Worklist`, `priority`, `vtime` |
| `lcdNodes`, `lcdEdges` | the cycle-detection candidates |
| `upd`, `gepTodo`, `callTodo` | `update_set` and what is left of the two loops |

Abstractions: which node survives a merge is a choice (union by rank decides, and
the properties must not depend on it); the order in which cycles are found is
open; all nodes exist from the start; worklist entries form a set; points-to
sets are sets. The constants `GepTab`, `ExtCons`, `Skipped` stand for the field
objects, what `ExtInfo` adds for a library function, and the functions the
profile never saw. `hcd` pairs come with the program, as the offline pass
leaves them.

### OfflineOpt

`pass` is the pass `optimize` is in: HVN, HU (again while a pass removes more than
`MinRemoved` constraints), HCD. Each pass is *Start* (build the graph), Tarjan's
algorithm one predecessor at a time (*VisitRoot*, *VisitPred*, *Leave*, *TarjanDone*),
*MergeLabels* or *NotePairs*, and *UpdateConstraints*. `visits` is the C++ recursion of
`tarjan_visit`; `g` is the `OptGraph` or `HCDGraph`, with `uf` its union-find, whose
ranks are kept because the one that survives a merge matters here; `vals` is
`ValueMap::reps_`. The order of the predecessors is open.

Abstractions: the labels (`PE` numbers) are structured values, equal exactly when the
numbers are; constraint vectors are sets; the ref nodes ascend with the pointers
they stand for, where the code numbers them in the order it meets them; the
universal and the aggregate value, and the third id of a Store, are left out.
`misplaced` is a history variable: it notes the one case in which `Graph::merge`
moves the contents to the wrong node (section 5).

Its input and its output are constraint programs, the input of `AndersSolve`:
`SolutionKept` compares the least solutions
(`LeastSolution`) of the two, and the solver is proved sound for every program.

### CallStackLib and CallContexts

The state of the hooks (`stack`, `pushed`, `addr_to_frame`, `all_stacks`) is
driven by an instrumented program whose real chain of calls, `frames`, the
hooks never see. A program (`prog`) says in which function each call site lies,
what it calls, and whether through a pointer. Ids are those `CsCFG` gives: the
representative of the call site's cycle, over direct calls only. Reading
`back()` of an empty vector is undefined, so its outcome is open: any id, or the
program breaks. The log then passes through the merge tool and the loader,
`CallContexts`, whose lookup is a binary search in a sorted vector of stacks.

### DynPtstoLib and PtstoProfile

`prog` is the program the hooks are called from: its threads, globals, fields,
sizes of allocations and the memory it may use; it is chosen at the start and never
changes. `mem` is the memory the program really has and `truth` what its pointers
really pointed to; `addr_to_objid`, `base_locs`, `stack_allocs`, `stack_longjmps`,
`longjmps` and `valid_to_objids` are the runtime's. Each hook runs where
`DynPtsto.cpp` puts it: free before the real free, malloc after the real malloc
(two steps, between which other threads run), realloc as a free hook, the call
and a malloc hook. `SameKey` is the comparison of `AddrRange`: ranges that
overlap are one key of the map. Addresses are words. The merge loop of
`do_malloc` is written in closed form.

`PtstoProfile` starts where a process has its sets in memory. At the end it reads the
log that is there (*FinishRead*), opens it for writing, which empties it
(*FinishOpen*), and writes through a buffer (*FinishHalf*, *FinishEnd*), all with no
lock; it may be killed at any point (*Kill*). What can be read of a file meanwhile is
`Partial`: some of its pairs, and one that comes of a line cut in two (`TornIds`: 210
cut to 21 or 2 is an id nobody saw). The history variable `spoilt` has the files that
two processes finished with at once, or whose writer was killed; what is in such a
file is any such part of what both wrote. A process that cannot read a torn line
(`stoi` throws) dies, so *Kill* stands for that too. The merge tool unions files, once
the processes are gone; the loader drops what it must and `noAlias` answers from what
is left. `DynPtstoAA::alias` is the same code.

### ConstraintGen, ExtInfo and IRMachine

A program is a record: its instructions, each with its block, operation, operands and
types; the global names it has; the blocks the profile saw (`used`) and, if it was
profiled for them, the call targets seen. `ConstraintGen` has one operator per
`id...Inst` function of `Cg.cpp`, the depth-first scan that stops at blocks that
never ran, `traceInt`, the constants and initialisers, and the linking of direct and
indirect calls. `ExtInfo` is the table of some 1100 names with the constraints, the
allocations and the frees of each kind.

`IRMachine` runs the same program, one instruction a step, on memory made of fields
of objects: what LLVM's semantics and the C library (`Real`) say, not what the
analysis believes. `sol` is the least solution of the generated constraints, fixed
before the run. `known` is what the profiler has been told of the heap. A run that
reaches a block, or calls a target, that the profile never saw stops as `left`.

### SpecContexts and SpecChecks

`SpecContexts` computes, for a program and the chains of calls its profiled runs
made, which calls are linked, clone by clone, and which stacks were left out. `ran`
holds the chains with their prefixes; the search for a prefix is what `CallContexts`
checks. `SpecChecks` derives the plan (`plan`: which calls push, which check, what is
registered) and runs the program: *Visit* of a block that never ran, *Call*, *Return*,
*Setjmp*, *Longjmp*. A hash is the sequence of what was mixed into it. `ProfileOK`
(assumed of all inputs by `InputsOK`) says what a profile is: chains of calls the
program can make from main, with their prefixes.

### DynAliasLib and IndirTargets

The shadow map (`map`: the last store to each address, in pages made on first use),
the frames and jmp_bufs of each thread, and `allocs`, which remembers the size of
each address ever allocated, are driven by a program as in `DynPtstoLib`; `last` and
`truth` are the real last store of each word and the pairs that really met, over all
words of an access; `first` has those of its first word, the only one `do_load` asks
for. `inexact` notes that an address was allocated with two sizes.

The program is free of data races, so the effect of a hook comes with its access in
one step. The library is not: all its locks are commented out. So a thread stays in
its hook beyond that step, `hook[t]` says what it has in hand, and while two threads
are in hooks a step of its own (*Loses*) takes back what one of them did to something
both change:

| what is shared | what two hooks at once do | lines of `DynAliasLib.cpp` |
|---|---|---|
| the pages of the map, made by a store or a release | one page replaces the other: what was set in it is 0 (*RemakesPage*) | 96, 353 |
| `allocs`, grown by allocations and searched by releases | a new entry is gone, an old one is entered twice (*LosesEntry*); an entry is not found, and the assertion at 350 fails (*MissesEntry*) | 329, 348, 543 |
| the set of a load, and the table of these sets | an id, or a first set, is gone (*LosesInsert*) | 562 |
| that table, while `do_finish` walks it | a load is not written (*DoFinish*) | 260 |

`raced` notes that this happened. Hooks that overlap and lose nothing go on as any
others do; once something is lost the program's further steps are left out, only hooks
end and the log is written and loaded, for what comes later is excepted by every
property. A page of the model stands for a page of any level of the map.

`IndirTargets` numbers calls and functions in both builds, inserts the targets in
two unlocked steps, and reads the log back.

### SliceContexts, StaticSlice and SliceRuns

An id of `CsCFG` is the set of calls of its cycle; main's own node holds none. What
`CsCFG`, `FcnCFG` and `CallDests` compute once is kept with the program (`Loaded`).
`Visit` is one iteration of the slicer's worklist, `NextSlice` the loop over
criteria: the memo of `ContextInfo` (`asked`) outlives a slice. `SliceRuns` then runs
the program, each value carrying the instructions it was computed from; `truth` is
what the sliced instruction was computed from. `dropped` and `stale` note, for the
properties, the two ways a slice by context loses values (section 6).

### ValueMap, GraphValues and PtstoSet

A map is a record and its operations (`createAlloc`, `getDef`, `getConst`, `import`,
`lowerAllocs`, ...) return the record they leave. `GraphValues` builds the graphs of
two functions, maps one into the other (`Link`), lowers objects below the reserve
(`Lower`), sets up the table of offsets, optimises, and lets the solver map in more.
`means` keeps what each id was made for, `truth` the constraints in those terms.
`PtstoSet` has two sets and every operation on them; `number` is the node number
BuDDy has given a diagram, and *Collect* lets it give numbers of unreferenced
diagrams to others.

### EdgeProfile

A visit is two steps under `count_lock`; `do_finish` opens (and so empties) the
file, locks, writes in pieces, unlocks, and the process exits. Signals arrive
at any step of any thread, in `do_visit` and in `do_finish` too, unless the thread is
in a handler of that signal (`masked`). There are three classes: `Term`, those that
`signal_is_term` lists, which have `term_handler` to start with; `Bare`, whose default
action ends the program as well but which have none (SIGTRAP, which the list has as
FALSE, and SIGKILL, which no handler can have); and `Other`. `term_handler` begins
`do_finish` in its thread anew, whatever the thread was doing; a handler of the
program's visits, and so waits for `count_lock`: for good, if its own thread has it
(`stuck`). `action` is the kernel's table; `asked` what the program believes is in it;
`killer` the signal that killed it. All counters are one; a handler that need not wait
is one step; the 32-entry tables, real-time signals and `sigaction` with a null action
are not modelled.


## 3. Runs, bounds, fairness

Each run asks one question, or, where components stand side by side, the questions of
one stage of the system: `callstack`, `ptsto`, `contexts`, `hooks` and `values` have a
variable (`part`, `profiler`) that says which of two or three components moves while
the others stay where they began. All finish in under five minutes; the number of
distinct states is of the order given.

| run | question | instance | states |
|---|---|---|---|
| `solve` | does the solver lose work, end unsound, invent a pointee, or not end? | all programs of at most six constraints over two pointers, an object and its field (few calls), and of up to seven constraints around indirect, external and never-run callees, integer arguments and HCD pairs; the LCD threshold is 0, so every chance to collapse a cycle is taken | 29 000 |
| `calls_lost` | are calls settled after their pointer node is merged away? (no) | cycles of copies through a function pointer | |
| `gen` | does a running program ever hold a pointer its points-to set lacks; is every way out of the analysed code recorded; is the profiler told of the heap? | some 600 programs: all pairs and triples of instructions that move pointers, structs, calls of each kind under several profiles, and every pointer-moving library function of the table | 30 000 |
| `values` | optimiser: is the solution kept? numbers: do ids keep their meaning and offsets lead to fields? sets: does a loop find the members? | all programs of at most five constraints from fourteen over three values and an object with a field, and from eight around an indirect call; pairs of functions of up to two or three instructions, two imports; two sets over two ids and three BDD numbers | 495 000 |
| `opt_merge` | does no program lose a pointee? (one does) | the programs of the optimiser | |
| `callstack` | is the profiled stack the chain of calls; is a context lost or invented; does what is saved of a program that recurs still lie within a chain of calls; does the loader answer exactly what ran? | all programs of three call sites in three functions, direct or by pointer, with and without recursion, direct and through a pointer; one jmp_buf; two threads, or one if the program recurs; four frames; all pairs of logs of at most three stacks over four ids | 1 160 000 |
| `contexts` | speculation: is what ran linked, is what was left out checked, do checks stop only what they should? slicer: does a slice have what a run computes from; are contexts those of runs? | seven shapes of call graph with every profile of one or two chains, four frames; nine programs with one or two levels of calls, two slices, five frames, twelve blocks | 48 000 |
| `misspeculation` | is a run in a context that was left out stopped? (no) | two ways to one function | |
| `ptsto` | is the table the live memory, across calls, allocas, returns and long jumps, malloc, free, realloc and fields; is what is logged what was pointed to; does it reach the loader? | three programs: one thread, three frames, two jmp_bufs, three words of stack, two globals, one inside the other; two threads, four heap words, flat structs with two fields, sizes 0 and 4; and a global struct whose fields are taken; two processes, two files, two values, ids of every class, one torn | 590 000 |
| `hooks` | does the shadow map follow the memory, as long as no unlocked update is lost; is every pair of load and store that met loaded, and none reported that did not; are the targets of calls? | two programs that call, jump and allocate on the stack, with blocks of one size and of two; two with two threads on the heap, in one page of the shadow map and across two; for the other profiler, two threads and modules with two functions at one address, an inline assembly and a call of what is no function | 1 730 000 |
| `edge` | is the log written, the signal handling unchanged, the end reached but for handlers that wait for their own thread's lock? | two threads, a visit each, one signal of each class at any step, six calls of `sigaction` | 690 000 |
| `edge_in_visit` | does a program that has begun to end always end? (no: a signal in `do_visit` or `do_finish`) | the same | |

*Why these bounds are enough to be interesting.* Six constraints over four names
give every shape of two-node cycle, field edge to itself, load and store through
a field, and merge of the node under visit; the programs with calls exercise each
kind of callee. Three call sites are needed for a cycle with an entry and an
exit; four frames enter it twice. In `ptsto`, two threads and four words allow
every overlap of two ranges and reuse of an address between the real free and
the next hook. Two processes and two files show every race on a log. In `gen`,
two instructions after the one that makes a pointer are enough for a store through
an alias to be read back. Two imports let a graph be mapped in after an import has
been merged. Three BDD numbers for four sets force their reuse.

*Bounds and their names.* `MaxCons`, `MaxExtras` (constraints of a program);
`MaxDepth`, `MaxStack` (frames, entries of a profiled stack); `prog.stack`,
`prog.heap`, `prog.depth`, `prog.sizes` (words of stack, heap addresses, frames and
sizes of allocations, in `hooks` of accesses too, of a program of `ptsto` and `hooks`);
`prog.reads` (ids recorded for a load); `Points`, `TornIds` (where the values of
`PtstoProfile` may point, and what a torn line is read as); `MaxVisits`, and `Asks`
(what the program asks `sigaction` for); `Pieces` of the edge log; `MaxSlices`, `MaxFrames`, `MaxBlocks`
(slices, frames and blocks of a run that is sliced); `MaxImports`, `MaxOffs`,
`AllocReserveCount` (10 million in the code, 8 here); `MaxVecCacheSize`; `PageSize`
of the shadow map. `EmptySetjmp` and
`AgainSetjmp` are FALSE: they would allow a setjmp before the first alloca of its
frame and a second use of a jmp_buf, for which assertions of the runtime fail
(hazards at the lines of `DynPtstoLib.cpp`). `Caller` is the thread that calls in a program that
recurs. `MinRemoved` is 100 in the code and 0 here, so that HU repeats on small
programs. `NothingInvented`, a part of `SolutionKept`, speaks of programs whose loads and stores go through
pointers that point to something: the optimiser treats a cycle through `*p` as one
even where `p` points to nothing, which is sound and unavoidable offline.

*Symmetry* is not used.

*Fairness.* `WF(Next)` for the solver: one thread, nothing blocks it.
`WF(VisitEnd(t))` and `WF(Finish(t))` for the edge profiler: a thread inside the
runtime that can go on is eventually scheduled; one that waits for a lock its own
thread holds cannot, and fairness asks nothing of it. Nothing else is fair: programs
need not call, return, exit or receive signals. The remaining specifications
state safety only.

*Deadlock.* Every cfg switches the check off: solver, loaders and programs end.
That the end is the right one is what `Refines`, `FinishEnds` and the invariants
say.

*Properties that are conjunctions.* `CoveredOrRecorded`, `CallsLinked`, `ChecksExact`,
`SliceExact`, `ContextsFound`, `SavedAreContexts`, `FramesInStep`, `OwnersAreLogged`,
`MapInStep`, `AliasesExact`, `TargetsExact`, `SolutionKept`, `MeaningKept` and
`FieldsFound` join invariants that belong together; each part is stated, with its
exceptions, by the name and comment it has in its component's module.

*Mutants.* For every property of every passing run, `PROJECT.json` names a
definition and a wrong form of it under which that property, in that run, fails.

## 4. What is proved

Every theorem holds for all values of the constants, under the assumptions its
module states about them. `PROJECT.json` lists them under `theorems`.

### The solver (`AndersSolveProofs`)

For all programs, sets of ids, LCD thresholds, HCD tables and merge orders, from
`ConstantsOK` (the tables are functions over their domains; external functions add
well-formed constraints) and `ProgramsOK`:

* `TypeCorrect`: `TypeOK` is inductive.
* `Nothing_Forgotten`: `NothingForgotten` is inductive with `TypeOK`. Soundness is
  a statement about the end only; to reach it every intermediate state must say
  where the missing work is recorded. `NothingForgotten` says it by kind of
  work: a constraint of the program is in the graph (`Filled`); the constraints
  of a node have been applied to what it has propagated, except the part under
  way (`ConsDone`); the same for field edges, calls, and what calls added
  (`GepsDone`, `CallsDone`, `LinksDone`); a node whose copy edges or new
  pointees are still to be propagated is `Pending`, i.e. the worklist holds an
  entry that the staleness test will not skip (`CopiesDone`, `NewsPending`); and
  representatives are representatives (`RepsOK`). The step lemmas
  (`VisitForgetsNothing`, `CollapseForgetsNothing`, ...) rest on `MergeKeeps`: a
  merge keeps every edge up to representatives, and clears `old` so that every
  pointee is new again.
* `Sound`, `CallsSound`: with an empty worklist nothing is pending, so the
  representatives satisfy every constraint on objects, and every call whose
  pointer was not merged away is linked. The two restrictions are the solver's
  own: see section 5.
* `NothingInvented`: the solver stays within every assignment `M` that satisfies the
  program, so within the least one. The invariant `TrueOf(M)` says of everything in the
  graph that it is true of `M`: pointees, copy and field edges, stored constraints,
  and that collapsed nodes have equal answers. A collapse of a cycle keeps it because
  a set of nodes each of which reaches all others by copy edges has one answer
  (`CycleTrue`: the nodes whose answer is below a given one form a cut that no edge
  leaves). A merge of an HCD pair is not justified by the graph, so `Explains` asks
  that the pairs hold of `M` (`PairsTrue`): that is what the offline pass promises.
* `NothingTakenBack` (`OnlyAdds`, an action property): no step takes a pointee from
  a value.
* `Implements`: with both, and with soundness, each step of the solver is a step of
  `PointsTo` or a stutter, where `Answer[p]` is the least assignment for `p` (a
  hypothesis; that there is one is `LeastSatisfies` and `LeastIsLeast` below; what
  remains to suppose is that HCD pairs have equal answers in it). The
  step that empties the worklist finds nothing (`EndsQuietly`), and then nothing is
  missing (`CompleteAtEnd`). The condition `PointersKept` is the defect of the run
  `calls_lost`. Left to the run is `<>done`.

### The call-context profiler (`CallStackProofs`)

For any number of threads, call sites, functions and jmp_bufs. Of programs without
recursion:

* `ChainCorrect`: `StackIsChain`. It is not inductive: a return pops only when
  ids agree, and a long jump truncates to a recorded size. `IInv` adds that each
  frame's call site lies in the function below it (`FramesOK`), that the stack is
  the ids of the frames (`StacksOK`), and that a live jmp_buf recorded the size
  of its frame (`JumpsOK`). The heart is `IdsDiffer`: a call and the call that
  reached it never share an id, for a shared id would close a cycle of direct
  calls; it follows from facts about `Below`, the least closed set of call sites.
* `ContextsNotLost`: `ContextsKept`, with the invariant `CInv` on top of `IInv`:
  a context is covered by a saved stack, or by the live one while `pushed` is
  set.

Of every program:

* `SavedWereContexts`: `SavedAreContexts`. With recursion a cycle of calls is one
  entry of the stack, and a long jump into the cycle leaves the stack shorter or
  longer than the chain, so no equality holds. What does hold is that the stack
  *fits into* the chain in its order (`Fits`), in each place to which a live
  jmp_buf may return too; and that between two equal ids of a stack there was a way
  back through a function pointer (`SameIdBetween`), which is why `NoRepeats` has
  to except `PointerCycle`.
* `TypeCorrect`: `TypeOK`, with bounds on what the jmp_bufs recorded (`TInv`).

### The edge profiler (`EdgeProfileProofs`)

For any number of threads, signals of each class and visits; a signal may arrive at any
step of any thread:

* `LogIsWritten`: `LogWritten`. Who visits or writes holds the lock (`LockOK`), so
  `counts` is the number of completed visits (`CountsOK`), and each piece of the log
  is that count (`LogOK`), if one thread alone ends the program. A signal that begins
  `do_finish` anew within one empties the file: the count of pieces written starts again
  with it, and whoever had the lock never gets to write (`LogOK`, `LockOK`). `EndOK`
  says what may kill the program: a signal that was let go, or one that never had a
  handler, SIGTRAP among them. The log of a program killed so is lost, and the
  theorem does not say otherwise.
* `SignalsAreTransparent`: `Transparent`. `Agrees` lists, per signal, the ways in which
  the kernel's table and what the program asked for may differ (`ActionsOK`).
* `TypeCorrect`: `TypeOK`.

### The alias profiler (`DynAliasProofs`)

For any number of threads, every program and every size of page:

All six are about runs, or the part of a run, in which no unlocked update is lost
(`~raced`): the library promises nothing else. That two hooks overlap is no
exception, only that one of them loses something. Each invariant `I` is therefore
proved of the steps that lose nothing (`Quiet`), and `raced \/ I` of all
(`QuietUnlessRaced`, `RacedStays`); the ends of hooks, `do_finish` and the loader are
steps aside, which change none of what the invariants speak of (`AsideLeaves`).

* `StoresSeen`: `LoadsSeeStores`; with `PairsLoaded`, that the loader
  answers so. What each hook does to the map falls in two kinds: it only clears
  (`FreeClears`), or it is a store. Clearing loses nothing, for `InvalidValue` stands
  for any store; so `LastShown` wants each stored address to lie in a page that is
  there. Nothing is needed of the hooks of stack and heap beyond this: the theorem holds
  however wrong their sizes are. What it says is of the first word of each load
  (`Behind`): a store seen only behind it is lost, and no invariant could say otherwise.
* `NothingFails` (`NoFailure`): no assertion of the runtime fails and no iterator
  is erased twice. Two layers: `MemInv`, that blocks are apart and none lies across a
  place to which a frame or a jmp_buf will cut the stack; on it `HookInv`, that the
  runtime's lists are at the level of the frame they belong to, whatever unhooked
  frames lie between, and each jmp_buf is once in them.
* `MapFollows` (`MapInStep`) and `AliasesTrue` (`AliasesExact`): on
  both layers, while each address is allocated with one size only, the lists hold
  exactly the blocks of the stack (`ListsExact`), and what is behind a frame's or a
  jmp_buf's position in them is what the program releases (`FramesCut`, `JumpsCut`).
  Then the map is the memory (`MapExact`) and each reported pair was seen (`SeenExact`).
* `TypeCorrect`: `TypeOK`.

### The points-to profiler (`DynPtstoProofs`)

For any number of threads, jmp_bufs and values, and every program that
`ProgramsAssumption` admits: globals, heap and stacks are apart, and no global lies
across two that are apart (`do_malloc` gives the merged entry the ids of the last one
it met: a hazard, at `DynPtstoLib.cpp:344`). The theorems are about programs that
are `Disciplined`, that is, `EmptySetjmp` and `AgainSetjmp` are FALSE: of others they
are wrong (section 3).

* `TableFollowsMemory`: `TableIsMemory`. No size, layout or order is fixed: two
  threads allocate, free, realloc and cut blocks into fields while others call and jump.
* `FramesFollowProgram`: `FramesInStep`.
* `LogFollowsMemory`: `OwnersAreLogged`, of programs that are `Flat` as well: the fields
  whose address is taken are apart, lie behind the beginning of their object and are
  reached from there, and a global that overlaps another has none. The programs of
  `MCDynPtstoLib` are. Of a struct within a struct it is false (section 5).
* `TypeCorrect`: `TypeOK`.

The invariant has four layers, and a fifth for the log. `MemInv` and `HookInv` are as in the alias profiler: what
is on a stack is whole above any mark, and lists are at the level of their frame.
`ListsExact`: the lists have exactly the blocks of the stack, in order; what lies
above a frame or a jmp_buf on the stack is what lies behind it in the lists
(`FramesCut`, `JumpsCut`), so a return or a long jump frees what the program releases
(`RetEntries`, `LongjmpEntries`). `TableInv`: the table is `Good` for the blocks that are
tracked, those that no thread is allocating or freeing and no failed realloc has lost.
`Good` says that entries share no address, that each address of a block has one, that
an entry which is no global's is part of one block, and that `base_locs` has exactly
these. What each hook makes of a `Good` table is a lemma about the table alone:
`GoodAdd`, `GoodFree` (every piece of a block goes, and none is missing, which is what
the assertions ask), and `GoodGep`, by way of `Cuts`: `do_gep` only cuts entries in
two, at places it records. Until main runs, `BootOK` keeps the table `Merged`: globals
that overlap share one entry, which is what they cover together. `RuntimeInv` is the
four together; none is inductive without those before it, and no return finds its
blocks without the table.

The fifth layer, `IdsInv`, says whose ids an entry has (`CellsOK`): one of a block that
overlaps no other lies in one of the fields taken of it and has its id (`InField`), or
keeps out of them all and has the block's (`Plain`); one that globals share has the ids
of these. A field that is taken again then finds only entries that were shifted, and the
table stays (`GepTakenAgain`); one that is taken now finds only plain entries, and each
piece that comes of them is in it or out of it (`GepShape`, `GepTakenNow`). While main
records the globals, `ChunksOK` keeps apart those that do not overlap. What a visit logs
is read off this (`VisitLogs`); a block that a failed realloc lost has no entry
(`LostFree`), so of it the universal id is logged.

### The points-to log (`PtstoProfileProofs`)

For any number of processes, files, values and ids:

* `LogsComplete`: `LogComplete`, of each file that nobody is writing and that is not
  `spoilt`: no two processes finished with it at once, and none was killed with the file
  open. `ReadersOK` says what a process has that has read the file and not yet written it
  whole: all that the finished ones saw, and what it saw itself; and that two that
  finish with one file have spoilt it.
* `LogsTyped`, and `MetAreNotSeparated` (`AliasesFound`), the latter where the ids of null
  and of the universal value are those of no object. It holds of spoilt files too, as
  long as each pair of the finished processes is still there: a torn line may add ids,
  which separates nothing, unless the id is the universal one and the loader forgets the
  value.

### The generated constraints (`IRMachineProofs`)

That what `Cg` generates covers what programs do: the claim every client of the
points-to analysis relies on. It holds for all tables of types, functions, calls,
offsets and library effects, and for every program that is `Admitted` and whose
initializers are covered (`InitsCovered`), both in `IRMachineInv`.

* `PointersCovered`: `CoveredOrRecorded`. `AliasesAdmitted`: `EqualMayAlias`.
* `LeastSatisfies`: the reference answer of `LeastSolution` satisfies all constraints
  and all calls, for every input of the solvers. `LeastIsLeast`: nothing is in it that
  is not in every assignment that does, whether that is asked of objects or of all ids.

What `Admitted` asks is what no analysis of this kind can do without, and some things
the code does not do: operands have the types LLVM wants; `getGEPOffs` finds the field
that an instruction means and the table of offsets has it; the library does what the
table of `ExtInfo` says; a block that is entered was seen, with the function it calls,
by the profile; nothing becomes a pointer that was an integer (`traceInt` is a guess);
and a call left to the solver passes no pointer behind the dots, which the solver does
not link (section 5). Programs that are not admitted are only checked, by `gen`.
That programs of every family of `gen` are admitted is an assumption of `MCIRMachine`
(`SamplesAdmitted`), which TLC evaluates.

The argument has three parts.

1. *The limit.* `Least` is what a recursion over assignments arrives at when a round adds
   nothing. It is no induction over data that is needed but that the recursion is well
   founded: a round that changes something leaves fewer pairs out (`LeftOut`), of which
   there are finitely many, so a minimal counterexample has no next round
   (`LimitFinal`). At the limit nothing is missing, so all is satisfied. And a round that
   starts below an assignment that satisfies everything ends below it (`RoundStaysBelow`),
   so the limit of the rounds from the empty one does.
2. *The effect of one instruction.* For each operation a lemma says which of the
   constraints that `Cg` generates makes the set of the result contain what the
   instruction puts there: loads and stores through any cell, fields of fields, what a
   `phi` merges, arguments to formals through direct calls, resolved calls, calls left to
   the solver and threads, results to callers, and each kind of library function.
3. *The invariant.* `PointeesCovered` and `MemoryCovered` are not inductive: a value that
   is universal is excused there, but what is loaded through it is not; an aggregate is
   covered as a whole; a result flows to the caller only if each call on the stack is one
   from which the scan reached the callee. `CoverInv` says the exact sets instead
   (`EnvOK`, `MemOK`), that execution is where the scan has been (`WhereScanned`), and that
   the result of each function on the stack flows to its call (`ResultsFlow`).

### The speculative checks (`SpecChecksProofs`)

For all sets of call sites, functions and jmp_bufs, any depth of calls, and every
program and profile that is `ProfileOK`. What is excepted, recursion above all, is
excepted in the properties themselves (section 3).

* `StopsExact`: `TypeOK` and `ChecksExact`. Without recursion `CsCFG` gives each call
  site an id of its own (`Acyclic`, `IdsAreIdentity`). `CheckInv` adds to the types that
  the plan is that of the profile, that `frames` is a chain of calls, that `stack` shows
  those of them that push, one entry each with its hash (`Shows`), and that each usable
  jmp_buf has the height of the calls it will return to (`Exact`); and, of any program,
  that calls under way have passed the check of their target (`CheckedOK`) and what
  stopped a stopped run (`StoppedOK`). A pop compares ids, and a long jump cuts at a
  recorded size: both are right only on that stack (`PopIsCut`, `CutOK`). That no stack
  check stops a profiled call needs one thing more: the ids that push are closed under
  callers (`PushesClosed`), so of a run that was stopped all calls are on the stack
  (`AllPush`), what was found is the whole context, and no profile has one that was
  left out (`ForbiddenIsInvalid`).
* `LinksOrRecords`: `CallsLinked`. The clones are followed along a chain of calls. Without
  recursion the clone of a chain's last function holds the context of the chain and
  nothing else, as long as a profile has it (`CloneMade`; that cloning goes as deep as
  the chain is a pigeonhole argument, `DepthBound`). The first context that no profile
  has is recorded where the call would have been linked (`LinkedOrLeftOut`), so a run
  that is beyond the links has passed it. With self-recursion the calls of a function
  to itself share one id, and others keep their own (`SelfIds`, `IdsApart`); the clone
  then holds the contexts with and without that id (`SelfStacks`), which is why such
  calls must be linked before those that leave the function, and each chain of the
  profile finds its own (`RanIsLinked`).

Contexts and clones are recursive functions; that they are what their equations say is
shown by a least counterexample, not by the library's induction (`ContextIs`,
`ClonesAre`).

## 5. Where the code and its documents disagree

Found while modelling; each is a run that TLC must refute.

1. `AndersNode::merge` leaves `indirCalls_` behind (`calls_lost`), against the
   comment at `AndersGraph.h:273`.
2. `Graph::merge` compares the survivor with its argument instead of the argument's
   representative. HU calls it with nodes that are no representatives (members of a
   component `v = *p; *p = v` whose representative is the ref node of `p`); then the
   contents move to the node that disappears, the class counts as a non-pointer,
   and all its constraints are dropped (`opt_merge`): in
   `w = v; v = &o; p = *w; v = *p; *p = v` the value `v` no longer points to `o`.
   `CgOptimize.cpp:198` calls what is dropped "non-ptrs".
3. A signal during `do_visit`, or during `do_finish`, deadlocks the end of the program
   (`edge_in_visit`), against `EdgeCountPass.cpp:176`: `term_handler` empties the log
   and then waits for the lock its own thread holds.
4. The hashes of left-out stacks that are compiled into the program are never those
   the runtime computes, so its filter lets every stack pass and the check behind it
   is not reached (`misspeculation`).

Met on the way, and kept out of the checked instances or excepted by name:

* The points-to runtime logs id 3 for unknown memory; the loader drops id 2
  (`DynPtsto.cpp:1064`, against its comment at 1072).
* The result of an unknown library function is taken for a fresh object, where the
  comment says universal value (`ExtInfo.cpp:896`); `ArgOrStatic` announces its two
  cases the wrong way round (`ExtInfo.cpp:797`, against 732).
* A call that `Cg` leaves to the solver links formals only (`addIndirEdges`,
  `Solve.cpp:706`): a pointer passed behind the dots of a variadic function reaches its
  `va_arg` value when the call is direct (`Cg.cpp:298`) and not when it is made through a
  pointer. `LinkedBySolver` excepts such calls, and no program of `gen` makes one.
* `traceInt` looks at the first two operands of a select, so at its condition.
* Recursion through a function pointer is no cycle for `CsCFG`, so one saved stack
  can repeat an id, at which the loader stops (`CallContextPass.cpp:296`);
  `PointerCycle` says of which programs.
* `getAllContexts(prefix)` returns the prefix alone (`CallContextPass.h:87`,
  against 116).
* HCD records each ref node as the ref of its own graph id (`CgOptimize.cpp:44`), so
  its pairs never name a pointer of the program: the collapsing that `CsSolve.cpp`
  prepares for does not happen, or hits an unrelated value created later.
* `loadStoreAlias` says "assume an alias" of a value it does not know and returns
  false (`DynAlias.h:103`).
* A slice by context follows a value in the first context it is met in only
  (`StaticSlice.cpp:712`), and the memo of blocks before a block answers for the
  whole function (`ContextInfo.cpp:175`).
* `addExternalCall` does not update the table of offsets (`AndersGraph.cpp:314`).
* With a struct within a struct, `do_gep` shifts an entry that needs no cut from the id
  it has, where an entry that is cut restarts from that of base
  (`DynPtstoLib.cpp:440`), so what a pointer logs depends on the order of accesses.
* `signal_is_term` has SIGTRAP as FALSE (`SignalHandler.cpp:21`), so a SIGTRAP kills the
  program by default and no counts are written.
* The log of the points-to profiler is read, emptied and written with no lock
  (`DynPtstoLib.cpp:228`): of two processes that end at once one may lose what the other
  added, and read half a line of it as an id.
* Every lock of the alias profiler is commented out (`DynAliasLib.cpp`, 537 and others), so
  what two threads do to its pages, its table of sizes or its sets may be lost.
* `do_load` ignores the size of the load (`DynAliasLib.cpp:550`): a store to a later word
  of it is not recorded.
* `vecCache_` keeps the vector of a set under a node number without keeping the node
  (`SolveHelpers.h:505`).

## 6. Only model-checked; not modelled

Only model-checked: that the solver and the edge profiler's end terminate (liveness
and fairness are outside the prover's reach); `ValidIffRan` and `TargetsExact`, which rest on sorting, filtering and flattening
sequences, all defined by recursion; and everything about the
components that section 4 does not name: the slicer, the optimiser, numbering
and points-to sets. Of constraint generation it is what `Admitted` excepts (integers made
pointers, and `traceInt` that follows them); the initializers of globals, which are a
recursion over nested parts (`InitsCovered` is a hypothesis of the theorems); and
`HeapKnown`.

The optimiser drops special values that reach a value no object reaches, so its
properties, like the solver's soundness, speak of objects.

Abstracted in the solver: special values in the soundness theorem
(`addIndirEdges` pushes the caller's argument instead of the formal,
`Solve.cpp:742`, so the claim is false for them); growth of the node vector;
`dynPtsto` masks, which nothing sets; union by rank; `LCD_PERIOD` is `INT32_MAX`
in the code and any number here.

Left out of the programs of `gen`, because the analysis says nothing of them or the
wrong thing: pointers carried as integers through memory across blocks or calls, or
through arithmetic of two converted pointers; struct copies through byte pointers;
structs nested three deep; null initialisers of arrays of structs; library functions
listed as no-ops that move a pointer (`strtod`, `bsearch`, `signal`, ...); directory
and password functions. Struct loads and stores are reported and ignored by the code.

Of linking by context: `mergeCalls` drops the stacks of a cycle before its calls add
theirs, which `ProfiledLinked` excludes; the closure of instrumented ids has no edges
for indirect calls. Of the checks: `AllocInst`, `FreeInst` and `AssignmentInst`, which
nothing generates, and the sizes of registered memory.

Of the slicer: control dependence is approximated by the terminator of the immediate
dominator, indices of a field address and conditions of a select are no sources, the
arguments of a thread's start function have no callers; `SliceExact` follows the code
in what counts as a source of what. The sets of stores kept beside the blocks, random
choice of criteria, and the counter are not modelled; nor is `CsFcnCFG`.

Of points-to sets: the expansion of a diagram into numbers, and the Bloom, sparse and
shared sets.

Of the call-context profiler: setjmp before any profiled call reads the back of an empty
vector (`DynCallStackLib.cpp:164`): a choice of outcomes here. No property says when the
assertion at 140 fails, which recursion and two long jumps can make it do: the model goes
on as a build without assertions does, and `SavedAreContexts` bounds what is then saved.

Of the points-to profiler: a field access that cuts more than 16 entries
(`DynPtstoLib.cpp:367` asserts that none does), and calls of `_setjmp`, which has no
hook. `__DynPtsto_do_finish` takes no lock, so a thread that still runs may visit while
the sets are written; the threads of the model are done by then.

Of the sliced programs: none calls a library function or an intrinsic that writes memory
(`memcpy`), so what `SliceExact` says of a slice without contexts is said of programs
that write memory by stores only.

Of signals: the tables have 32 entries and are read beyond that for signals up to 64, and
`sigaction` with a null action is dereferenced (`SignalHandler.cpp:152`); a handler of the
program's returns (it does not exit or jump), and blocks no other signal (`sa_mask`).

Of the alias profiler's races: updates that are lost, entries that are not found and
pages that are replaced. That an unlocked container may break altogether, and what a
program does after a loss, is left out. `IndirTargets` has the same race, in two steps.

Each hazard of `PROJECT.json` has a property that some run checks; what the property
excepts is said in its `note`.

Not modelled at all: the points-to check runtime, whose pass the build does not
contain; passes that count, number or print; tests and scripts; and the legacy
analysis, which the build does not contain either. Reasons are in `PROJECT.json`.

## 7. The plan

Modelled: the online solver and the call-context profiler; the logs; the
points-to, edge, alias and indirect-call profilers; constraint generation with the
library functions, against a running program; linking by context and its checks; the
slicer, against a running program; the offline optimiser; numbering and points-to
sets.

Proved: what section 4 lists.

Left, by importance, to prove:

1. `ObjectsApart` and the type invariant of `OfflineOpt`; `MembersFound` of `PtstoSet`;
2. that one visit of the slicer keeps what waits among what has been met.

And to model: `CsFcnCFG`, and the solver composed with `GraphValues` (the context-
sensitive solver maps in callees while it runs; here each has its own model).

## 8. How to run everything

In this directory, with the TLA+ tools and the community modules on their path:

    tlasany OfflineOpt.tla                                  # parse a module
    tlc -workers 2 -config MCValues.cfg MCValues            # a run of PROJECT.json
    tlapm AndersSolveProofs.tla                             # the proofs of a module
    tlapm CallStackProofs.tla
    tlapm EdgeProfileProofs.tla
    tlapm DynAliasProofs.tla
    tlapm DynPtstoProofs.tla
    tlapm PtstoProfileProofs.tla
    tlapm IRMachineProofs.tla
    tlapm SpecChecksProofs.tla

Each run of `PROJECT.json` names its module and cfg. Those marked `violation` must
end with the named property violated. To try a mutant, replace the body of the
definition `of` by a use of `as` and run its cfg: the property must fail.
