# A verification development for mumak and vardalith

The repository holds two tools for programs that keep data in persistent memory (PM):

- **mumak** finds crash-consistency bugs.  It traces stores, flushes and fences of a target
  under PIN and reports stores that are not persisted (`ofta` + `mumak_oftp`, or `onta`
  online), and it crashes the target at every failure point and runs its recovery (`bfi`).
- **vardalith** finds races on PM.  A static analysis (`palantir`) places calls in the binary,
  `patcher` inserts them, and a runtime library keeps the open regions of each thread and
  reports overlaps of a read and a write by two threads.

TLA+ modules here model their core; TLC checks the models on small instances, TLAPS proves
the theorems of the `*_proofs` modules for every value of the constants.

## Inventory

| Component | State | Operations | Depends on | What makes it correct |
|---|---|---|---|---|
| PM trace processor, `utils/tracing.hpp` | maps `flush_pending`, `fence_pending`; `unordered_flushes` | ProcessStore, ProcessFlush, ProcessFence, CheckRemainder | called by `mumak_oftp`, `onta`, `collect_cfg` | agrees with the machine on every word; no store lost, kept twice or reported wrongly |
| `mumak_oftp` | its Processer, `bug-ids.txt` | loop over `pm-trace.txt` | trace of `ofta` | final report names what was not persisted |
| `ofta` PIN tool | instruction id, trace, next bug, mapped addresses | trace, merge bugs with a second execution, record addresses | `pin_utils`, `bug-ids.txt` | ids agree between executions; every bug gets its backtrace |
| `onta` PIN tool | Processer, `recorded_ops` | handlers of each instruction | `pin_utils` | a bug about a store finds the store's backtrace |
| `bfi` PIN tool | failure point tree, `current_fp`, a flag for stores since the last one | handlers, count, inject, finish | tree, allocator, script | no store goes from its failure point to its fence unexposed; each failure point is crashed at once |
| failure point tree, allocator | nodes, `visited`; offsets | InsertFPTrace, InjectFP, Serialize, DeSerialize | `tree.bin` | back-propagation exact; what is written is read back and fits |
| `mumak` script | files in `$RAMDISK` | count_fps, fi_loop, fi_iter, recover | starts the PIN tools | every failure point gets its iteration, a timeout costs one |
| PIN utilities | PM mappings, `found_alloc` | SysBefore/SysAfter, IsPMAddress, ReportBug | shared by all PIN tools | a mapping gets its own address; no bug deduplicated wrongly |
| race detection runtime, `runtime/runtime.cpp` | `threads`, bug hashes, delay schedule | start_pifr, end_pifrs, flush | patched program's threads | reports are real; an open region is seen |
| region store, `runtime/tbb_backend.cpp` | multimap of regions, iterators to close | find_overlaps, open_region, flush, end_regions | runtime, `pifr_oftp` | regions live from open to close, erased once |
| mmap wrapper | table of PM mappings | mmap, munmap, is_pmem_addr | runtime | accepts exactly the mapped addresses |
| offline race analysis, `pifr_oftrace`, `pifr_oftp` | trace, last acquire of each thread, regions | trace, move accesses to acquires, consume | region store | the pairs whose windows overlap |
| static analysis, `analysis/` | CFG, dominators, paths back from an access | BuildCFG, ComputeDominators, DefineLoops, FindPossiblePIFRStart/Ends | disassembler | every PM access lies in a region for its address, closed again |
| binary patching | patch points, trampolines | patch_wrapper.py, e9patch plugin | palantir's output | the call gets the address the analysis meant |
| vardalith command line (Rust) | files of a run, child processes | run, report, trace, results | runtime, patched programs | a run ends; files and races are those of their experiment |
| CFG collection, `collect_cfg` | trace, graph, nodes to take out | record, LoadTrace, GetCFGforRTN, reduce | PIN utilities, trace processor | what ran is a path of the reduced graph |
| persistent maps, `docker/agamotto/drivers/custom` | a B-tree, a red-black tree, a hash map on PM | create, insert, remove, get, foreach, lookup, is_empty, clear, destroy, recovery | libpmemobj; run under the tools | after any crash, a map of what the client put in |

Hard behaviours: threads interleave inside the runtime (three lock sections per access, sleeps
with regions open, unsynchronised counters); processes are killed by `timeout -s SIGKILL`
while they hold the only record of what was tested, or with reports in their buffers; two
executions of a target are joined by instruction ids; the trace processor keeps two ordered
maps through long sequences of overlapping stores and flushes; the placement of regions walks
backwards over loops and merges paths by dominance; the hash map recovers from a crash
between any two persists.  `PROJECT.json` lists the hazards with the lines they bite at.

## Modules

### Trace processing

`Processer` is the class of that name, driven by the loop of `mumak_oftp`.  A `std::map` is a
function; its domain is the set of keys.  `Insert` keeps the old value of a taken key, as
`map::insert` does.  `CoveredKeys` is what an iteration from `lower_bound` to `upper_bound`
visits; when the map has nothing there the code reads `begin->first` at `end()`, which is
undefined, but the loop behind the test is then empty whatever it reads.  A locked
read-modify-write is one action: fence, then store, as in the `RMW` case of the loop.

`PersistentMemory` is the machine, which the repository does not contain: a word is
`persisted`, `dirty` or `flushing`.  `TracedMemory` composes the two: every instruction is
traced (`ofta`'s ids) and executed, so that the processor's beliefs are compared with what
happened.  `ProcesserRefinement` maps the processor's state to the memory's and states that
the processor implements it.

`Onta` is the online tool: the same processor, and the map `recorded_ops` from ids to where
the instruction ran, which each handler fills and each bug is looked up in.

### Trace analysis pipelines

`Ofta` is `mumak_dofta` and `mumak_ndofta` around the analyzer: the first execution (`Trace`,
`Fini`), the analyzer and the script's `sort` (`Analyze`, which finds any bugs), the start of
the second execution (`Open`, in `main`), then for dofta `CollectBacktrace` at every traced
instruction, with the merge of `bug-ids.txt` in `SetNextBugId`, and for ndofta
`ReportAllBugs`, a line at a time.  A backtrace is a model value; two bugs with the same one
are one to `ReportBug`, which leaves the type out of its hash (a `FIXME` in `pin_utils.hpp`
says so).  `Map` is the mapped file of addresses: its length and the two counters that decide
when it grows.  The model keeps the length of the mapping, not where it was before.

### Fault injection

`FPTree` has the tree's operators.  A node is its path of addresses; the children of a node
keep their order, because the loop of `InsertFPTrace` goes on after a match with the children
of the matched node and the same index (`Matched` follows it).  Memory is counted in bytes of
the allocator.  `FaultInjection` runs a campaign: the counting execution, then the iterations
of `fi_loop`, each of which reads `tree.bin`, walks the execution, crashes, serializes and
recovers, or is killed.  `FailurePoints` is what feeds it: the handlers of `bfi.cpp` for every
value of `-target`, which decide in the counting execution whether an instruction is a failure
point.  The target is deterministic and has one thread, so the injecting executions meet the
same ones.  `FailurePointCampaign` is the abstract specification: a queue of untested failure
points and the turns left.

`KillDuringSerialize` is whether a process may be killed while it writes `tree.bin`; the
configurations say FALSE.  With TRUE, `AllFoundInFirstPhase` fails on trees without recursion
too: the file is truncated first, and is the only record of what was tested.

### Race detection

`PIFRRuntime` cuts a call where the code leaves a lock or touches what other threads touch:
start, find (read lock), report, open (read lock), push.  `sleeping` is loaded and stored in
separate steps, and is a `size_t` of `SizeMax` values.  The remainder of a signed short is
between -99 and 99.  `RaceDetection` adds what the threads did (ghost variables) and the
properties.  Tracing mode is off; addresses are those `is_pmem_addr` accepts.

`OfflineRaces` is the same detection offline: `pifr_oftrace` writes lines in any interleaving
of the threads, `mapping` moves each access back to the last acquire of its thread, and the
trace is consumed into an instance of the runtime's region store (`Backend`).  The iterator of
an access is its place in the mapped trace.

### Static analysis and patching

A function is a sequence of instructions; calls, flushes, acquires and releases are opcodes.
Which instructions matter is what `pifr_trace` saw: `InstrumentCollectTrace` is the line an
instruction leaves, `relevant_insts` what `CreateContext` makes of it, and
`annotate_relevant_insts` adds the calls known by name; the trace has every instruction of the
function, as that of an execution that ran them all on persistent memory has.
`ControlFlow` builds its blocks and edges, and runs the worklists of `ComputeDominators` a
block at a time.  `RegionPlacement` walks back from an access: `UpdateTarget` rewrites the
operand through moves, loads and stores, `ProcessStep` extends the paths over predecessors and
loops, `Prune` compares pairs of paths and starts over after every change, in the
order the paths were found (`discarded` remembers those erased, for the exceptions of two
properties).  It then collects the starts, and the ends
by releases or by what `FindPIFRsWithEnds` says; `mode` is the option `palantir` was given.
With `--minimal` there is no walk: a region starts at its access (`FindMinimalWindows`).  `PatchedFunction` executes the result on a
machine whose values are the history of how they were computed, so that two addresses are equal
exactly when they are for every memory without aliases.  Its properties compare what the
patched program does with what the region is for.

### Mappings and CFG collection

`PmMappings` runs the two tables of persistent mappings side by side under the calls of several
threads: that of `pin_utils.hpp`, kept between the entry and the exit of a system call, and that
of `mmap_wrapper.c`.  `CfgCollection` follows with `collect_cfg`: a traced execution of one
routine, `LoadTrace`, which replays it through the overloads of the trace processor, the graph,
and its reduction a node at a time, in the order of addresses.

### Persistent maps

`BTreeMap` and `RBTreeMap` are the operations of the two trees as operators on a tree (a nested
record) and on a heap (a function from nodes); one operation is one transaction of libpmemobj,
which either happens or not.  `HashmapAtomic` has no transactions: every persist is a step, a
crash may come between any two, and `hm_atomic_init` recovers.  `PersistentMaps` is a program
that uses one of them as `data_store*.c` do, inside outer transactions or not, and crashes.  It
has the tables of `map_*.c` (`btree_map_ops` and so on, through `map_ops`), with their null
entries, at which `map.c` ends the program; `map` is the pointer to the map, empty while it is
null, so that `MapDestroy` can be followed by `MapCreate`.  An operation that follows a null
pointer kills the program and takes its transaction back (`Died`, `Becomes`).
`MapSpec` is the abstract specification: a bag of keys, and the bag a crash goes back to.

### Command line

`Vardalith` runs the experiments of a configuration: settings, the child process and its pipe,
the timeout, the stdio buffers of the runtime, the files of fixed names on the RAM disk and
their way into the results directory, a failure of any copy, and the report command on what is
there.

## Runs

| Run | Instance | Shows |
|---|---|---|
| `traced_memory` | two lines of two words, four nested store shapes, five instructions | BeliefsExact: what the processor believes of a word is what the memory did, no store silently lost and none reported that was persisted; FinalReport: the same at the end; StoreAccounted, PendingDisjoint: no store lost or kept twice in the maps; UnorderedFlushesBounded: a fence answers only for its own epoch |
| `straddling_stores` | stores across the two lines | FirstLineExact: what is still right about them |
| `implements_memory` | three disjoint stores | BugsLocated: `onta` reports a bug where the instruction ran that it is about; ImplementsMemory: the processor refines `PersistentMemory`; RedundantExact: redundant flushes and fences are exactly those that change nothing |
| `ofta` | five instructions with two backtraces, up to four bugs, segments of two records | EveryBugLocated: the merge by instruction id neither loses nor misplaces a bug; RecordsMapped: records lie in the file and its mapping |
| `fault_injection` | four backtraces, executions of up to five failure points, 400 bytes of tree; `-F` absent or 0 to 3; `-target` all, allrmw, store, sfence, movnt | StoresExposed: a store is crashed at before its fence; VisitedExact, TreeFits; ImplementsCampaign: refinement of `FailurePointCampaign` (without `-F`); TargetIsIteration: `-F n` means iteration n |
| `race_detection` | two threads, one address, one read and one write instruction, three regions, delays decaying by 50, every second region sampled; or a trace of five lines | CloseListsExact, OpenUntilClosed, RaceSound, NoMissedRace online; OfflineExact: the offline analysis reports exactly the pairs whose windows overlap |
| `static_analysis` | functions of four to nine instructions in thirteen shapes of control flow, and nine of five to seventeen that placement gets wrong; two registers, executions of ten instructions | GraphsExact: dominators, immediate ones included, postdominators and loops are those of the definitions over paths; RightAddress, Covered: a patched execution finds the region of an access open, and for its address, but for the exceptions named in them; ClosedAtExit: and closed when it leaves; AnalysisEnds |
| `cfg_collection` | two threads, two regions, up to four calls; routines of three to seven instructions, executions of six | TablesExact: both tables hold what is mapped; DependenciesOrdered: an edge from a flush to a store is one of the execution; ReducedExact: the reduction keeps connections; ExecutionInCFG |
| `persistent_maps` | a B-tree of order 4 with 8 keys, a red-black tree with 5 keys and a duplicate, a hash map with 4 keys and 2 buckets to begin with; every operation of `map.c`; two crashes of it; transactions of one operation | TreesInShape, HashExact; ImplementsMap: refinement of `MapSpec`; OperationsEnd |
| `vardalith` | two configurations of two experiments, two invocations, a pipe of one line, one race each | BugsAttributed, FilesCollected, RacesReported; InvocationsEnd |

The bounds.  The words of a line are 2 because the tests of `tracing.hpp` compare only ends of
stores and lines: two words give inside, at the end, across and beyond.  The tree of 400 bytes
is one that some executions fill, so exhaustion happens; four backtraces share prefixes of one
and two frames.  `MaxOpens` bounds regions over the whole behaviour: three are enough for two
threads to hold conflicting regions while one is reopened; a trace of five lines has room for
an acquire, an access and a release of one thread and an access and an acquire of the other,
in any order.  `Slices` is 2 where the code has 10, so that short traces are consumed and
shorter ones still divide by zero.  Four bugs and five instructions give several bugs of one
instruction, instructions without one, and two growths of the file.  The functions have slots in
straight code, a diamond, a branch, loops with the access inside, behind, at the latch, at the
header and nested, endless loops, a loop at the entry, a tail call, dead code and an end without
return.  `Slots` has a move, a 32-bit move, loads of the base through another register and
through itself, an operation on it, a store of a register and one of an immediate to the word
that the first load reads, a call, an acquire, a release and a flush: with a load and a store in
front of the access every case of `UpdateTarget` is taken.  Two slots of each shape take all of
these, but for the first of a nested loop (`Heads`); a third takes fewer (`Marks`), which end a
region or change the base for the next iteration.  None of the exceptions `SurvivorsKept`,
`NoStartPassed`, `LoopsPassedKeep`, `Reducible` and `OneName` applies to a function of these
shapes that `Placed`, `OnePointer` and `WholeMoves` leave, where RightAddress and Covered hold without them; nine functions are added to which they
do.  Eight keys make
a B-tree of three levels with merges at each; `MaxTx` is 1 because a crash takes back a whole
transaction, whatever its length.  Four keys rebuild the hash map to more buckets and back;
its coefficients are 1, 0 and 97, so that a key goes to the bucket of its remainder.
`PipeSize` 1 is a pipe that can be full.  Threads and addresses of the race detector are
symmetric, and no property there is temporal.

Deadlock is not checked: programs end, traces have a bound, and a target may stop at any time.

### Fairness

Three specifications assume weak fairness, of the program's own steps only.  `static_analysis`:
the analysis is one sequential program that runs on (`PFNext`); what it shows is that the
worklists and the pruning terminate.  `persistent_maps`: an operation or a recovery begun goes
on (`HashProceed`); a crash is never fair, and `MaxCrashes` bounds how often one interrupts a
recovery.  `vardalith`: its own steps, the timeout it polls for included; the programs it starts
have none, they may hang, and `InvocationsEnd` is claimed for experiments that have a timeout.
Nothing else waits for another part except through locks whose sections are single steps here.

### Disagreements

Runs that show a disagreement between the code and what a comment says of it:

| Run | The comment | What the code does |
|---|---|---|
| `flushed_store_moves` | `tracing.hpp:107` | the lower bound of the iteration skips stores that begin before the line |
| `recursive_backtraces` | `fp_tree.cpp:117` | no `break` after a match: recursion is inserted too deep |

Met while modelling and not given a run; where a property has an exception for one of these,
the exception is a definition of its own, named below.

- Traces.  A store that overlaps an earlier one without nesting, or begins inside it, is not
  reported (against `tracing.hpp:194`).  CLFLUSHed stores wait for a fence (against
  `tracing.hpp:75`).  A first bug at instruction 1 is reported with an empty backtrace, because
  `next_bug` starts with that id (`Mislaid`).  `sort` names `/mnt/ramdisk` whatever `-d` says
  (`mumak:310` against `MUMAK.md:45`): with `default_ramdisk` FALSE the merge loses bugs.  The
  first growth of the mapping frees one segment more than is mapped (`ofta.cpp:255`).  `onta`
  reports UNORDERED_FLUSHES at a locked instruction on volatile memory from an entry nothing
  initialised (`Garbage`).
- Failure points.  One whose backtrace is a prefix of another's makes an iteration inject
  nothing (against `bfi.cpp:54`).  Non-temporal and locked stores never set
  `performed_store_since_last_fp`: an epoch of nothing else has no failure point.  `mfence` is
  not instrumented.  A locked instruction resets the flag before anything is instrumented.
- Runtime.  `dirty` is false from birth (against `backend.hpp:14`).  The delay probability has
  no floor.  `sleeping` loses updates and wraps (`runtime.cpp:246`).  The destructor divides by
  the number of regions, which may be zero (`runtime.cpp:374`).  With PIFR_MINIMAL,
  `find_overlaps` gets `is_dirty` for `is_write` (`runtime.cpp:222`) and finds no read and write
  overlapping; `run.rs:248` sets PIFR_MINIMAL_REGIONS while the runtime reads PIFR_MINIMAL
  (`constants.h:5`).
- Offline races.  A trace of less than ten lines divides by zero (`pifr_oftp.cpp:126`).  An
  access after a release is moved before it.  An acquire is traced before the lock is got, so
  that accesses under one lock may be reported.  `pifr_oftrace` skips non-temporal stores and
  all images but the main one.
- Static analysis.  When the entry block is the target of a jump the dominator sets stay full
  (`cfg.cpp:218`, `EntryIsTarget`).  In a function that cannot return from the access paths are
  popped until they are empty, and `back()` is undefined (`statica.cpp:455`).  `BlockInPath`
  compares a block with itself (`statica.cpp:513`).  A 32-bit move into the base is ignored
  (`statica.cpp:226`, `WholeMoves`), a second indirection overwrites `post_displacement`
  (`statica.cpp:242`, `OnePointer`), and `same_mem_access` does not look at `indirect`
  (`x86.cpp:15`).  `WalkCFG` is given whether the access is the same for whether it changed
  (`statica.cpp:305`, `283`).  Starts are patched after their instruction
  (`patch_wrapper.py:86`, `Placed`).  A release before the access whose block dominates the
  return leaves the region open there (`ClosedAtExit` says when).  `GetCFGEnds` takes the last
  instruction of an empty block (`statica.cpp:568`).  `patcher.c:189` tests AX twice, so a
  mask of AL is never applied.

  The placement of starts goes wrong in five ways, each an exception by name of `RightAddress` or
  `Covered`, with the functions of `MCPrograms` that need it (F is a flush, addresses count from 1).
  A property without one of its exceptions is violated in these functions.

  | Exception | What goes wrong | Function |
  |---|---|---|
  | `SurvivorsKept`, of Covered | Paths that end at one instruction with one operand are taken for duplicates (`statica.cpp:466`), though they left the access by different ways.  If the survivor is shortened later, the way of the other is left without a start: control that goes by 13 reaches the store with no region open | `F; jcc 13; F; jcc 7; F; jmp 16; F; jmp 9; F; jmp 11; mov 2,1; jmp 16; F; jmp 15; F; store [2]; ret` |
  | `NoStartPassed`, of RightAddress | A start kept for one way lies on another, in front of a change of the base, or is in a loop and still holds in its next iteration, which goes another way | `F; jcc 7; F; jcc 9; F; jmp 10; F; jmp 10; mov 2,1; store [2]; ret`, `load 2,[1]; F; jcc 6; alu 2; jcc 7; mov 2,1; store [2]; ret`, `F; mov 1,2; jcc 5; call; store [1]; jcc 2; ret` |
  | `LoopsPassedKeep`, of RightAddress | A loop that the path goes through at its header changes the base in the rest of its body, or a loop around the access stores to the word the base is loaded from | `acquire; jmp 4; alu 2; jcc 3; store [2]; ret`, `acquire; jcc 5; alu 2; jmp 2; store [2]; ret`, `F; F; load 2,[1]; store [1]; store [2]; jcc 2; ret` |
  | `Reducible`, of RightAddress | A cycle entered at two blocks has no backedge, so that it is no loop, and the walk goes once through it | `F; jcc 4; F; store [2]; alu 2; jcc 3; ret` |
  | `OneName`, of RightAddress | `UpdateTarget` compares operands by their registers: a store through a copy of the pointer is not seen to change the word the address is loaded from | `mov 1,2; store [1]; load 1,[2]; store [1]; ret` |
- Mappings and CFG collection.  PIN's table never forgets a mapping, and pairs the exit of a
  system call with the last entry of any thread (`Interleaved`).  The wrapper's vector has no
  lock, and its `munmap` goes by the start address whatever the length.  `LoadTrace` never reads
  a size; indirect targets are recorded as addresses of the process, which match no node of the
  image; nodes without predecessors leave edges behind; an edge from a flush overwrites the type
  of a fallthrough; library instructions share relative addresses with the program's.
- Persistent maps.  After a removal only the leaf's parent is repaired (`btree_map.c:487`):
  inner nodes fall below BTREE_MIN, which `TreesInShape` therefore does not ask for, until one
  has an only child, which is merged with a null sibling when it runs empty
  (`btree_map.c:434`): the program dies and its transaction is taken back (`Died`), so that
  this key cannot be removed.  `btree_map_clear_node` follows null slots;
  `rbtree_map_is_empty` compares with null where the sentinel is (`rbtree_map.c:502`) and is
  never true; `rbtree_map_clear` leaves a null root and no sentinel (`Cleared`), so that the next
  insertion, removal or walk dies.  `hm_atomic_create` publishes the buckets before the
  coefficients are persisted, and `data_store_hash.c` recovers a null map after a crash before
  that.  `hm_atomic_remove` reads an entry it has freed (`hashmap_atomic.c:341`);
  `hm_atomic_insert` may return -1 with `count_dirty` set.  `src/drivers/data_store.c` never
  calls `map_init`.
- Command line.  `results.rs:82` subtracts 7 from a number of lines that may be smaller.  A
  `bugs.bin` cut off within a record loses all its reports (`report.rs:43`).  A file left on the
  RAM disk by an invocation that failed goes to the next experiment that writes none
  (`run.rs:336`).

## Proofs

Every safety property the runs check of the trace processing, the pipelines, fault injection,
race detection at run time and offline, CFG collection, the command line and the hash map is a
theorem for every value of the constants, and so are two refinements and one action property.
Of the static analysis, the graph algorithms and the ends of regions are, for every function;
the starts of regions are under a hypothesis, that they lie in the block of the access.  Each theorem has an
inductive invariant, and a lemma for each action that keeps it; lemmas say what the operators
return, and are cited instead of the definitions.  A lemma whose conclusion is long is stated through a
predicate (`StoreLoaded`, `FlushLoaded`, `Inserted`), so that a step can use it unexpanded.

### The argument of each

`Processer_proofs` (`TypeCorrect`, `MapsDisjoint`).  Neither invariant is inductive alone: that
`ProcessFlush` keeps the types needs the entries' ids below the next id and the state of each
map's entries, and that it keeps the maps disjoint needs that the keys moved are removed
(`IInv` is their conjunction).  The lemmas about lines (`LineUnique`, `FlushTakesLine`) and
`InShape`, entries are stores of the program, are for the two modules below.

`PersistentMemory_proofs`, of the memory behind a trace.
- `EveryStoreAccounted`: `Accounted` adds to `IInv` that ids are distinct within each map and
  across all four fates, for the erasures and insertions.
- `BeliefsAlwaysExact`: `Believed` adds `Shaped` (entries are stores of the program, of which a
  line has all the words or none, and no writer has the id of the next store).  The proof goes
  word by word (`Believes`): a store, a flush or a fence moves the entry of a word and its status
  together.
- `FinalReportComplete`: with `Remaindered`, that the last step reports all that waits.
- `UnorderedFlushesAlwaysBounded`: `FlushesCounted` bounds the counter by the *ids* that wait or
  were overwritten since the fence.  The bound of the property counts bugs, among which a store
  that moves from one map to the other would be lost.
- `FirstLineAlwaysExact`: about one word at a time (`FirstWord`).

`Onta_proofs`.
- `OnlineBugsLocated`: `Located` adds that what waits has its record, filled in, and that a
  record never filled in is that of an instruction already past, so that none turns into the
  other.
- `OntaImplementsMemory` and `OntaRedundantExact`: with `Mapped` before a step, every handler of
  `onta` maps to the step of `PersistentMemory` of the same name or to a stutter.

`FaultInjection_proofs`, about `FaultInjection` and `FailurePoints`.
- `StoresAlwaysExposed`: `Exposing` adds `Remembered`: while a store has met neither failure point
  nor fence, the flag says that there is one.
- `VisitedAlwaysExact`: that a node is ticked off when all under it was says nothing of what is
  under it.  `Ticked` has the tree and `tree.bin` each be the empty tree or one `Grown` from the
  whole execution: linked, its nodes those of the backtraces, ticked off exactly (`Full`,
  `Exact`).  `Inserted` and `MarkedExact` say what InsertFPTrace and back-propagation return.
- `TargetAlwaysIteration`: `Aimed`: `current_fp` is the number of first hits that were passed.
- `EveryFailurePointTested`: `Turning`: there are never more turns left than untested failure
  points, so no iteration runs to the end of the target.  That is what is lost when `tree.bin` is.
- `TreeAlwaysFits`: `Fits`: while the tree is built `idx` is at least 1 + 48 bytes a node, and a
  tree read back takes 48 a node less 7.
- `TypesCorrect`: `Typed`, on top of `Ticked` and `Fits`.

`Instrumentation_proofs`, of the offline trace analysis.
- `RecordsStayMapped`: that there is room for the next record while the segment counter is below
  its limit needs the equation between the trace, the file and the counter (`FileTight`).
- `BugsAlwaysLocated`: `Locating`: the second execution keeps pace with the sorted list, nothing
  that is pending was passed, and the next bug is the first that will be met.

`RaceDetection_proofs`: first, of the runtime, four theorems over three inductive layers, each on
top of the last; `WatchedIsRuntime` carries them over to `WatchedSpec`, which the run checks.
`IInv` ties, for each thread, the iterators it keeps to the regions in the multimap and to what
it opened, with the region of an unfinished `open_region` apart (`Pushing`); it gives `IteratorsValid` and
`RegionsStayOpen`, and needs that no region is ever dirty, so that `flush` closes nothing
early.  `SoundInv` adds that a region and a call stand for an access that is open, and that
two conflicting open accesses are in `overlapped`; it gives `NoFalseRace`.  `MissInv` adds
that what an access is owed is still open, so `find_overlaps` returns it; it gives
`AccessesInOrderReported`.  In each layer a lemma disposes of the steps that leave it alone
(`Quiet`, `Aside`, `Onward`).
Then `OfflineAlwaysExact`, of the offline analysis.  What `mapping` returns is said by a *row* for
each mapped line: the line of the trace it was made of and the accesses that were moved there
(`Upto`), with, for each thread, the row its next access goes to (`NextRow`); one lemma for each
kind of line takes it from n lines to n + 1.  `Consumed` says that the store is the regions that
are before the current place and were not ended (`Live`), and that the reports are what each
access found live (`Found`).  `LiveMeets` reads it back in the trace: the region of one access is
live at another exactly when their windows meet.

`Vardalith_proofs`.
- `ResultsAlwaysAttributed`: `Attributed`: what is on the RAM disk is of the experiment that runs,
  from the start of its program on, or of an invocation that failed.
- `FilesAlwaysCollected`: `Collected` follows the files of each finished program, from the RAM
  disk (`Current`) to the results (`Past`).
- `RacesAlwaysReported`: `InTime` (no file is of an experiment yet to come) and `AllWhole` (the
  reports of a program that ended by itself are whole wherever its name is), and what
  `FlattenSeq` and `filter_unique_pifr_pairs` return.

`Instrumentation_proofs`, of CFG collection.
- `TablesAlwaysExact`: `MappingsInv`: until two threads are in a call at once, each table has the
  mappings of the system, but for the one that the single open call is at (`Tabled`, `Traced`).
- `ReductionAlwaysExact`, `ExecutionAlwaysInCFG`: `Reducing`: of the nodes that are left, both
  maps of edges have exactly the pairs connected through the nodes taken out.  Nodes can be taken
  out in any order because taking out one and then another commutes (`ViaCommutes`,
  `JoinsAny`); `Stepping` says that each transfer of control is an edge or an indirect jump.
- `DependenciesAlwaysOrdered`: `Prefix`, by lines of the trace: what waits in `flush_pending` is a
  store that no flush of its line followed, what waits in `fence_pending` a flush since the last
  fence, and each store waits, or an earlier one to its address does, or it was given an edge.

`PersistentMemory_proofs`, of the hash map (`HashAlwaysExact`).  That the number and the lists are right says nothing
of the states a crash leaves in between.  `HashInv` says, by the persist that comes next, which
arrays there are (`One`, `Moving`, `Unpublished`, `Published`; after a crash any of them, which
are the cases `hm_atomic_init` tells apart), that they are `Sound` (every key in the list it
hashes to, once) and share no key, and how the count relates to what they hold: it is right
but between the change of a list and its own, where `count_dirty` is set, and in a recovery.
`ListChanged` and `FlattenExact` carry the lists; the theorem is about `HashSpec`, any client of
the map.  Every step of `PersistentMaps` is one of `HashNext` or leaves the map's variables alone,
so that it holds of the run's `Spec` too; this last argument is by reading, because that module
reaches the RECURSIVE operators of the trees.

`StaticAnalysis_proofs`.  First, what `BuildCFG` returns: some blocks, of which the first is the
entry, with successors and predecessors among them that agree with each other (`IsGraph`); the
worklists and the loops only use that, the ends also that control follows them
(`FlowOfControl`).
- `GraphsAlwaysExact`.  `TrulyDominates` says that a block is not reached by a way around another.  `DomState`:
  no set has lost a block that dominates, and a reachable block whose set is not yet what its
  neighbours' sets share (`Meet`) waits in the worklist; when that is empty the sets are a fixed point,
  and a fixed point has no more than the dominators, along any path from the entry.  The same
  for postdominators, with all the exits in the first worklist.  The dominators of a block lie on one
  path, so there is one immediate dominator (`DominatorsOnOnePath`).  `Closure` stops growing
  within as many rounds as there are blocks (`ClosureLeast`), so `LoopBody` is closed under
  predecessors up to its header (`LoopBodyClosed`), and every loop is that of a backedge.
- `RegionsAlwaysClosed`.  `Walking`: every step of every path, whatever was walked, cut or
  pruned, lies in a block that leads to the access; so starts do (`StartsLead`).  `EndsPlaced`:
  the last instruction of each exit is an end, or an end dominates an instruction on the way from
  the access to it.  `Running`: while the region is open, no end of the exit control is in was
  passed.  An exit dominates only itself, so the end that dominates is a release before the
  access (`LeftWithRelease`).
- `RightWithinBlock`, `CoveredWithinBlock`: `Walked(k)` is what `WalkBlock` carries back to
  instruction k of the block of the access.  Control that is behind the start in this block has
  come through the start, falling from one instruction to the next (`ComesFromAbove`); each
  instruction moves the address as `UpdateTarget` says it does (`AddressKept`, by cases of the
  instruction and of the operand); so the region's address stays that of `Walked(pc)`
  (`Tracking`), which at the access is the operand.  `Placed` follows for the rest: the paths
  all end in this block, however they were merged.  So the theorems need none of the exceptions
  `SurvivorsKept`, `NoStartPassed`, `LoopsPassedKeep`, `Reducible` and `OneName`.

### Hypotheses

Constants have the assumptions their modules name: sizes of lines, stores, regions and segments
are positive and addresses natural numbers; a backtrace holds at least the traced instruction
(`BacktracesAssumption`); `run` makes an experiment of defaults when it is given none
(`ExperimentsAssumption`); the kernel maps nothing of no length (`RegionsAssumption`); the last
instruction of a routine leaves it and its direct jumps stay inside (`CasesAssumption`); a hash map
has buckets, and a modulus that is not zero (`BucketsAssumption`, `HashAssumption`; the code's
product wraps at 2^64, and the proof needs only that it is an integer); a function has an
instruction and its jumps have targets (`ProgramsAssumption`), and its operands are registers
(`RegistersAssumption`).  The rest are hypotheses of the theorems that need them, because the code does without:

| Hypothesis | Theorems | Why, and what happens without |
|---|---|---|
| `StoresInLine`, `FlushesLineStarts` | BeliefsAlwaysExact, FinalReportComplete, UnorderedFlushesAlwaysBounded, and the refinement | the programs `tracing.hpp` is written for; `flushed_store_moves` shows a store that is not in line |
| `UniformShapes` | the refinement, RedundantExact | stores equal or disjoint; an abstract memory has no word for a store overwritten in part |
| `StoresAtMostALine`, `FlushesLineStarts` | FirstLineAlwaysExact | what is left of BeliefsExact for stores across lines |
| `ProperBacktraces` | those of fault injection but the first and TreeAlwaysFits | none is the beginning of another: the last address is an access, those before are calls; and no address is followed by itself (`NoRecursion`, also of TreeAlwaysFits), where `recursive_backtraces` shows insertion misplacing one |
| `KillDuringSerialize = FALSE` | the same but TargetAlwaysIteration | `tree.bin` is truncated before it is written |
| `current_size > 49` | TreeAlwaysFits, TypesCorrect | the allocator exits at the root otherwise |
| `default_ramdisk` | BugsAlwaysLocated | `sort` sorts another file otherwise |
| `~EntryIsTarget` (in `ClosedAtExit`) | RegionsAlwaysClosed | every block seems to dominate an entry that is jumped to, and ends are left out |
| `OpensInBlock` | RightWithinBlock (but for `--minimal`), CoveredWithinBlock | no start lies in front of the block of the access, as when the base changes in it, or an acquire or a call is met; otherwise paths merge, and what holds then is only model-checked |
| `Unaliased` | RightWithinBlock | no store between start and access through another register than the one the address is loaded through; see above |
| `~minimal_regions` | AccessesInOrderReported | `find_overlaps` is given the wrong flag otherwise (see above) |

The instances TLC runs satisfy them, but for those of the two runs that expect a violation.

### Recursion

The library's induction theorems take a predicate as a parameter, which no backend instantiates.
Its theorem on least elements takes a *set*: `LeastElement` (from `WFMin` and
`NatLessThanWellFounded`) gives `InductionUpTo`, `UpFromZero` and `SubsetInduction`, induction over
a set of numbers or of subsets.  With these a recursive function is first shown to exist, which
its definition by CHOOSE does not say, then unfolded a step, then proved about: `InsertFPTrace`,
`Firsts`, `FlattenSeq`, `Closure`, `WalkBlock`, `EndsAfter`; and the folds of the community modules: `ReadBackSize` and `Connected`
(FoldSet, `ThroughSteps`), `LoadTrace`, `mapping` and the filter of reports (FoldLeft, `LoadSteps`, `MappedSoFar`).

### Only model-checked

- TreesInShape and ImplementsMap, the refinement of `MapSpec`: the trees have RECURSIVE operators,
  with which the prover loses its SMT backend.
- RightAddress and Covered for regions opened in front of the block of the access: that the
  exceptions they name are all there are is shown for the functions of the run only.
- AnalysisEnds, OperationsEnd and InvocationsEnd: liveness under fairness is out of its reach.

## Not modelled

- Threads in the targets of `bfi`, `ofta` and `onta`.  `bfi` drops the client lock between
  ticking a failure point off and exiting; the other two have no lock around their counters.
  Both are data races on plain variables in tools made for deterministic executions.
- `bfi`'s mode by basic blocks, which `mumak` never asks for, and interception of routines.
- The runtime's tracing mode, whose records nothing reads, and its profiling.
- In the static analysis: the call graph, and flushes and releases in callees (`cfg.cpp:341`,
  whose caches are filled during a recursion); index registers; `IdentifyFlowControlRW`, which
  `main` does not call.  Decoding is done by libraries.
- In the CFG collection: conditions, stubs of the linkage table, synchronisation calls.
- In the persistent maps: values, `HASHMAP_CMD_DEBUG`, which prints, and the creation of a hash
  map under a crash.
- The loading of the e9patch trampolines; the vendored `stdlib.c` and `cvector.h`.
- `vardalith`'s `trace`, `results`, `patch` and `extras`, which start one program or format text.
- Drivers' workloads, container images, plots and scripts around the tools.
