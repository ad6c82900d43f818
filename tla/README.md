# TLA+ models of Miden VM

Miden VM runs a program once, fast and sequentially, and proves the run afterwards. The centre of
this project is what lies between the two: the processor that executes a program, the tracer that
cuts the run into fragments and records what their replay needs, the workers that replay the
fragments independently, and the code that joins their rows into one core trace. The prover only
accepts a trace that is right in every cell, so an error in any of these parts shows up far from its
cause. Around it stand the parts of the repository whose correctness depends on an order of events
that no test fixes: the threads that build a trace while the program still executes, the locks of
builds without `std`, the advice provider with its byte budget, the package registry that several
processes share on disk, and the forest of Merkle trees that keeps the past of each tree.

Paths below are relative to `src/`. `PROJECT.json` maps every definition to its source lines.

## 1. Inventory

### The system

| part | state | operations | interacts with |
|---|---|---|---|
| operand stack buffer (`processor/src/fast/{mod,operation}.rs`) | one flat buffer, top and bottom index, saved overflow per suspended context | push, drop, set, swap, rotate, grow, move, start/restore context | every operation |
| execution loop (`processor/src/execution/`) | continuation stack, current forest | start/finish of join, split, loop, call, syscall, dyn, dyncall, external, basic block; breaks to the host | processor, tracer, stopper (it is generic over all three) |
| `FastProcessor` (`processor/src/fast/`) | clock, context, caller hash, memory, advice, saved calls, limits | execute, step, load forest, handle event | host, loop |
| `ExecutionTracer` (`processor/src/trace/execution_tracer.rs`) | snapshot, replay queues, block stack, overflow table, sparse forests | callbacks at the start and the end of a cycle, and at each read | loop, replay |
| replay (`processor/src/trace/parallel/`) | a fragment's snapshot and queues, rows | replay a fragment, fix up first rows, HALT row | sparse forests, queues |
| streamed hasher builder (`processor/src/fast/execution_api.rs`, `air/src/memory.rs`) | channel, Rayon scope, row caps, memory budget | execute and hash in two threads | tracer, chiplets |
| chiplets, range checker (`processor/src/trace/{chiplets,range}`) | request tables | build a trace from recorded requests | tracer |
| advice provider (`processor/src/host/advice`) | advice stack, map, Merkle store, byte totals | pop, push, insert, merge, update, apply a list of mutations, change the limit | processor, host |
| host (`processor/src/host`) | libraries, handlers | resolve, handle events | processor |
| `core` | MAST forests, operations, programs, deferred state | build, merge, serialise | all |
| `crates/utils-sync` | atomics | racy lazy initialisation, spinning read-write lock | all `no_std` users |
| forest with history (`crates/crypto/src/merkle/smt/large_forest`) | backend, deltas per lineage, prepared mutation sets | add, update, prepare, apply, truncate, query at a version | clients of the crate |
| other Merkle structures of `crates/crypto` | MMR, partial trees, large trees | append, open, update | advice provider |
| `crates/package-registry-local` | index and artifacts on disk, sidecar lock | load, publish, cache, repair | CLI |
| assembler, linker, packages, project files | syntax trees, call graph | parse, link, compile | CLI |
| `air`, `prover`, `verifier`, `lifted-stark`, precompile prover | traces, polynomials | evaluate, commit, prove, verify | trace |

The hard behaviours are these. The stack buffer reads its top without bounds checks and obtains its
zeros from cells nobody may have touched. A fragment may begin at any clock cycle, and the worker
that replays it has no overflow table, memory or advice provider. Columns are written one row late,
so a fragment's first row is finished with the last columns of its predecessor. The loop can be
stopped after every cycle, and what then remains to be done must be on the continuation stack alone.
The caller of a streamed build waits for a task that waits for the caller's channel to close. A
writer that waits for the spinning lock relies on a counter that somebody else must bump. A publish
replaces two files, one after the other, while other processes publish and the power may go. The
past of a tree is known only as differences to a present that moves.

### What is modelled

| module | models |
|---|---|
| `OperandStack` | abstract: the stack a program sees |
| `StackBuffer` | the buffer that implements it |
| `MastForest` | forests, operations, continuations |
| `Execution` | the handlers of the execution loop, generic over processor, tracer and stopper |
| `ExecutionLoop` | the loop itself: which handler runs next |
| `FastProcessor` | the processor a program is run by, its host, both stoppers |
| `ExecutionTracer` | the tracer that records fragments |
| `ReplayProcessor`, `CoreTraceGenerationTracer` | the processor and the tracer of a fragment's replay |
| `FastExecution`, `StepExecution`, `ReplayExecution` | the three instances of the handlers, and of the loop |
| `TraceGeneration` | composition: execute, replay every fragment, build the trace |
| `Stepping` | composition: `execute_by_step` beside an uninterrupted execution |
| `CoreTraceReference` | reference semantics, by recursion over the MAST |
| `SamplePrograms` | the programs the composed models run |
| `TraceBudget` | row caps and memory budget of trace building |
| `StreamedHasher` | caller, channel, builder task and worker pool of `execute_and_build_trace_sync` |
| `AdviceProvider` | advice stack, map, Merkle store and their byte budget |
| `Spinlock` | `RwLock` of `utils-sync`, one step per atomic access |
| `RacyLock` | `RacyLock` of `utils-sync`, one step per atomic access |
| `LocalRegistry` | processes that share a registry on disk, and what may fail |
| `SnapshotForest` | abstract: whole trees, kept under their versions |
| `LargeForest` | the forest with history that implements it |
| `StackBufferProofs`, `StepExecutionProofs`, `SteppingProofs`, `StreamedHasherProofs`, `AdviceProviderProofs`, `LockProofs`, `LocalRegistryProofs`, `LargeForestProofs` | theorems |
| `MCStackBuffer`, `MCTraceGeneration`, `MCStepping`, `MCStreamedHasher`, `MCAdviceProvider`, `MCSpinlock`, `MCLocalRegistry`, `MCLargeForest` | instances for TLC |

## 2. The models and the code

**`StackBuffer`.** Variables are the fields of `FastProcessor` that hold the stack. `stack` is the
buffer, `stack_top_idx` and `stack_bot_idx` the two indices, `stack_overflow_save_stack` and
`saved_overflow_len` the suspended contexts. There is one action per method of the code's
`StackInterface`; where a method has cases (`increment_size`, `decrement_size`,
`restore_context`), each case is an action: `PushInPlace`, `PushGrow`, `PushOverLimit`,
`DropInPlace`, `DropReset`, `RestoreInPlace`, `RestoreReset`, `RestoreGrow`, `RestoreTooDeep`. A
push is `increment_size` and the write of the new top, which always follows it.

**`Execution`, `ExecutionLoop`.** As in the code there is one loop. The traits `Processor`, `Tracer`
and `Stopper` are constant operators, and an instance of `Execution` supplies their implementations.
The loop's state is one record: processor `p`, tracer `t`, stopper, continuation stack `cs`, current
forest, the position `cursor` inside a basic block (locals of two nested `for` loops in the code),
`brk` (the `InternalBreakReason` the loop returned with) and `status`. The handlers of `Execution`
are operators from state to state. In `ExecutionLoop`, whose only variable is that state, each arm
of the `match` in `execute_impl` is an action, as is each break the caller handles. The stopper is
part of the state, so that one set of handlers serves both loops of `Stepping`. One action is one
clock cycle or less, except that nothing observes a state inside a cycle but the host, and breaks to
the host are steps of their own. Each `finalize` runs tracer, clock and stopper in the code's order.

**`FastProcessor`.** The stack is the sequence of `OperandStack`; that the buffer implements it is
what `StackBuffer` shows. Limits on depth, cycles, continuations, memory and advice are those of
`ExecutionOptions`, with their errors. Libraries are a function from digests to forests and event
handlers one from events to advice.

**`ExecutionTracer`, `ReplayProcessor`, `CoreTraceGenerationTracer`.** Queues are sequences; the
recording operator appends, the replaying one takes the head or fails with `Internal`. Sparse
forests contain the visited nodes and the digests of their children. A row has opcode, address, the
two halves of the hasher state, system columns (clk, ctx, fn_hash) and stack columns (top, depth,
overflow address).

**`TraceGeneration`.** `Execute` runs the program. `StartFragment`, `ReplayFragment` and
`FinishFragment` are a worker; `BuildTrace` is the fix-up and the HALT row. The code replays
fragments in parallel, but a worker owns its context and its slice of the trace, and the sparse
forests all share are never written, so one order of the fragments stands for every interleaving.

**`Stepping`.** `RunStep` is the inside of a call of `step`, `Resume` the next call of it. `CatchUp`
moves the uninterrupted execution to the clock where the stepped one stopped.

**`StreamedHasher`, `TraceBudget`.** The caller's program counter follows
`execute_and_build_trace_sync`: choose the streamed or the buffered path, execute (one `Record` per
hasher request), end the stream, wait for the scope. `StartBuilder`, `Build` and `StreamEnds` are
the Rayon task; a caller that is itself a worker runs the task only while it waits, and other
workers may be busy with foreign tasks. An execution is reduced to the rows of its hasher requests,
its other row counts and how it ends (result, error, panic). `TraceBudget` has the arithmetic both
paths share: the peak-memory model with the column counts of the three AIRs, the cap derived from
the budget, and the checks of `build_trace_inner` in their order, saturation included.

**`AdviceProvider`.** Every public method that changes the provider is an operator from provider to
provider and outcome, and an action that calls it. `apply_mutations` is validation of the whole list
followed by application one by one, each of which may fail on its own, as in the code. The charge for
an entry of the map is computed as in the code, from its values and its key, while the recount
(`compute_advice_size_bytes`) goes over the elements of the whole map. A position in a tree is a
number whose bits, from the highest, are the turns of its path; one with more bits than the depth is
an error.

**`Spinlock`, `RacyLock`.** Program counters name the next atomic access; each load,
compare-exchange, fetch-add and store is a step. A weak exchange that fails without cause is a
retry. `Call` begins an operation and counts it against `Rounds`. `s` and `w` are the locals of
`lock_exclusive`. In `RacyLock` the allocator may hand a freed cell out again, and the initialiser
may panic.

**`LocalRegistry`.** A process loads the index (`LoadLock`, `LoadIndex`), registers a package in
memory (`Publish`, `Cache`, `CacheAgain`) and then goes through `save_with_locked_operation`:
`TakeLock`, `ValidateChecksum`, `Operate` (write, check or repair the artifact), `SyncArtifactDir`,
`WriteIndex`, `SyncIndexDir`. Each error path is `Abort`, which takes the registration back. Each
file has two values, the visible one and the one on the platter; a power loss may undo any rename
that has not been synced, each file for itself.

**`LargeForest`.** `backend`, `lineage_data` and `non_empty_histories` are the fields of
`LargeSmtForest`; `prepared` holds the mutation sets callers have computed and not applied. A delta
has the fields the code keeps for it (root, version, entry count, nodes, changed keys). The single
and the batch form of a method share an action, as they share their code. Queries (`root_info`,
`get`, `entry_count`, `entries`, `open`) are operators over the state, translated from the code that
merges a delta with the latest tree. An expectation of the code that fails sets `panicked`.

### Abstractions

- A word of four elements is one number: an operation on words differs from the one on elements
  only in the queue that replays it. Field elements are small integers. Digests are numbers.
- Operations are represented by one for each effect on depth, memory, advice, registers and host:
  noop, push, dup, sdepth, clk, caller, drop, add, swap, assert, mstore, mload, advpop, emit.
- The groups of a batch are the position they are a function of: block digest, batch, operation.
- Left out of the tracer: requests for chiplets and range checker, debug source metadata, the
  op-group counter of a block, helper columns and the inversion column h0.
- Left out of the host that `FastProcessor` sees: advice map and Merkle store, system events,
  handlers that touch them. `AdviceProvider` models map and store by themselves.
- Left out of `build_trace`: padding and chiplet traces.
- Hashing is symbolic. In `AdviceProvider` the hash of two words is their pair; in `LargeForest` the
  hash of a node is the entries below it. Both take collisions to be impossible. A leaf is a set of
  entries: the order inside a leaf, which the code sorts, is left out.
- Values on the advice stack are reduced to their number, as budgets and failures depend on nothing
  else.
- Atomics are sequentially consistent. The orderings that `rw_lock.rs` and `racy_lock.rs` choose are
  not examined.
- The registry's index file is the set of its records, and its checksum that set: two contents have
  the same checksum only if they are equal. The directory syncs succeed; the code ignores their
  errors.
- In the forest a write that the backend refuses is `Discard`, and a crash at any point of an update
  is that update, or none, followed by `Restart`. This is the contract of a backend that applies a
  set as a whole, as the in-memory one does.

## 3. Runs

| run | module, configuration | result |
|---|---|---|
| `stack_buffer` | `MCStackBuffer`, `MCStackBuffer.cfg` | passes, 54,320 states |
| `trace_generation` | `MCTraceGeneration`, `MCTraceGeneration.cfg` | passes, 59,483 states |
| `stepping` | `MCStepping`, `MCStepping.cfg` | passes, 19,867 states |
| `streamed_hasher` | `MCStreamedHasher`, `MCStreamedHasher.cfg` | passes, 3,652 states |
| `advice_provider` | `MCAdviceProvider`, `MCAdviceProvider.cfg` | passes, 18,750 states |
| `spinlock` | `MCSpinlock`, `MCSpinlock.cfg` | passes, 29,723 states |
| `racy_lock` | `RacyLock`, `MCRacyLock.cfg` | passes, 13,556 states |
| `local_registry` | `MCLocalRegistry`, `MCLocalRegistry.cfg` | passes, 337,796 states |
| `forest_history` | `MCLargeForest`, `MCLargeForest.cfg` | passes, 44,309 states |
| `external_entry` | `MCTraceGeneration`, `MCExternalEntry.cfg` | `TraceMatchesReference` violated |
| `caller_outside_syscall` | `MCTraceGeneration`, `MCCaller.cfg` | `CallerIsZeroOutsideSyscall` violated |
| `spinlock_writers` | `MCSpinlock`, `MCSpinlockWriters.cfg` | `EveryCallReturns` violated |

**`stack_buffer`** checks that the live stack stays in the allocation (`LiveStackInBuffer`), that
below it there are zeros only (`BelowBottomIsZero`), that active and suspended depth together
respect the limit and the running total is exact (`AggregateDepthBounded`), that growth is capped
(`AllocationCapped`), that context switches conserve elements (`SwitchConservesDepth`) and that the
buffer implements `OperandStack` (`ImplementsOperandStack`). Deadlock is not checked: an error ends
execution.

**`trace_generation`** runs every sample program with every fragment size and compares outputs,
error and trace with the reference (`ExecutionMatchesReference`, `TraceMatchesReference`). It also
checks that each replay uses up exactly its own records (`RecordsConsumed`), that the four places
which record suspended contexts agree (`SavedContextsAgree`) and that the tracer's block stack
follows the continuation stack (`BlockStackMatchesContinuations`).

**`stepping`** checks that every stop leaves the machine and the remaining work of the uninterrupted
execution (`StopEncodesNextStep`), that both end alike (`SteppingEndsLikeExecution`), that a call is
one cycle (`OneCyclePerStep`), that a resume context names the forest of the next node, as every
state inside the call does (`ResumeContextIsCurrent`), that in both loops a call or dyncall enters a
context that was not used before (`ContextsAreFresh`), and that stepping terminates
(`SteppingTerminates`).

**`streamed_hasher`** checks that the channel holds the requests sent and not yet built, in order,
and that the builder has the rows of all the others (`StreamIsComplete`), that the streamed and the buffered path end alike (`SameAsBuffered`), that the
permissive cap on a single AIR turns nothing away that the exact budget accepts
(`TierOneIsPermissive`) and that the caller always returns (`CallReturns`), in whatever way the
execution or the builder ends and however busy the pool is. Only the cap that a
`TraceLenExceeded` names may differ between the two paths. Deadlock is not checked: a call returns
once.

**`advice_provider`** checks that the running totals are what a recount gives and stay within the
limit (`BudgetHolds`), that a failing call changes nothing, lists of mutations included
(`FailedCallsChangeNothing`), that no entry is replaced and no tree forgotten (`EntriesAreKept`) and
that an update makes a tree that differs in one node (`UpdateReplacesOneNode`). At depth zero the
code returns the zero word as the new root, where its comment
(`processor/src/host/advice/mod.rs:618`) announces an error; the last property leaves that case out.

**`spinlock`** checks that a writer holds the lock alone (`Exclusion`), that the atomic counts the
holders (`StateCountsHolders`), that a writer waits at its counter only while somebody will bump it
(`ParkedWriterIsWoken`) and that every call returns (`EveryCallReturns`), for one writer and readers
that keep coming. With a second writer the last property fails: `spinlock_writers`.

**`racy_lock`** checks that every reference handed out is to the one published value and that this
value is allocated (`BorrowsAreTheValue`), that nothing leaks and nothing is freed twice
(`OwnedOnce`) and that a call returns even if every other thread stops (`ForceReturns`).

**`local_registry`** checks that every indexed package loads (`IndexedIsLoadable`), that nothing
acknowledged is lost (`NothingLost`), that a version has one record (`OneRecordPerVersion`), that
the dependencies of a published package are indexed (`DependenciesIndexed`) and that an indexed
version never loads as another package later (`ArtifactsAreImmutable`), with failing writes, dying
processes, power loss and damaged artifacts at any point.

**`forest_history`** checks that the forest implements `SnapshotForest` (`ImplementsSnapshots`), that
every query at every version is answered from the snapshot of that version and exactly the covered
versions are answered (`QueriesAreExact`), and that the forest agrees with its backend and no
expectation fails (`ForestAgreesWithBackend`), while sets prepared earlier are overtaken by others.

**Bounds.** The buffer has `MIN_STACK_DEPTH` 3, 4 cells to the initial top, 6 in all, a depth limit
of 6 and two nested contexts over two field elements. That is the smallest geometry in which the
stack slides to cell 0, is reset, grows in a push and in a return, and overflows its limit with one
and with two suspended contexts; every action fires. `MaxContexts` bounds the nesting; the code's
bound is the continuation limit. Execution runs a grid of 343 programs: seven prefixes (grow the
stack, shrink it, read advice, store one of four callees for dyn and dyncall) times 49 bodies (every
kind of node, alone, in loops, in calls and in each other, in three forests). Fragment sizes 1, 2
and 5 put a boundary at every cycle, inside every construct and across several. The limits (stack
depth 6, 60 cycles, 3 memory words, 7 advice elements, in `stepping` 6 continuations) are low enough
for some programs to run into each of them and high enough for most to end. Covered errors:
`StackDepthLimitExceeded`, `InvalidStackDepthOnReturn`, `CycleLimitExceeded`,
`ContinuationStackTooLarge`, `MemoryElementLimitExceeded`, `SizeBudgetExceeded`, `EventError`,
`ProcedureNotFound`, `MalformedMastForestInHost`, `CircularExternalNode`,
`SyscallTargetNotInKernel`, `NotBinaryValue`, `FailedAssertion`, `AdviceStackReadFailed`,
`OutputStackOverflow`.

The streamed hasher has two workers, of which the caller is one, so the pools are the caller alone,
the other one alone and both. Its executions fall on either side of every cap, and `UsizeMax`,
`U64Max` and the trace lengths are scaled down together. The advice provider has a store with empty
subtrees of height 1 (255 in the code) and limits that leave room for a few nodes, entries and
elements; lists have up to two mutations, which repeat and contradict each other, and inputs add
three at once. Trees are asked for depths up to 2 (`MaxDepth`) and positions up to 4
(`MaxPosition`), so there are invalid positions at every depth. Three threads call the spinning lock
twice each over a counter of four bits, wide enough for three readers. Three threads are the fewest
for a freed cell to be handed out again while a call is under way, and three cells let all of them
allocate at once. The registry has two processes, four packages (a library, the same with other
debug sections, another build of the same version, and a dependent), an artifact in the legacy place
and two faults. The forest has two lineages, four keys (two in one leaf, one in the sibling
leaf, one in the other half of a tree of depth 2), four versions, two kept in the past, and one set
prepared at a time; four batches insert, replace and remove, repeat a key, change nothing in one of
two lineages and change both.

**Fairness.** `SteppingTerminates` assumes weak fairness of the whole next-state relation: the loop
is a single thread with nothing to wait for, the host's handlers return, and the caller of `step`
keeps calling it, as `execute_by_step` does. Termination then rests on the cycle limit, which is
what the property is about. `CallReturns` assumes weak fairness of the caller and of each worker: a
worker that is idle looks for tasks, and tasks of others end. `EveryCallReturns` assumes weak
fairness of each thread, which is what the scheduler of a spinning lock has to give; guards are
dropped in time, since holding one is a state whose next step is the release. `ForceReturns` assumes
it only of the calling thread, inside the property: that is what makes it a statement about not
waiting. The number of calls is bounded (`Rounds`, `Calls`), so that the starvation of a thread by an
endless stream of others is not examined.

**Mutants.** Each property has a definition that a plausible error in the code would turn into a
violation; these stand before the definition they vary and are marked `Mutant` in the modules.

### Findings

1. *External entrypoint* (`processor/src/trace/execution_tracer.rs:678`). A program's entrypoint may
   be an external node. Its resolution is recorded before the first snapshot, and the queues are
   emptied only when a snapshot exists, so fragment 0 starts with a record nobody asks for. If the
   resolved procedure itself resolves a procedure in that fragment, replay takes the wrong record
   and the trace cannot be built. The grid of `trace_generation` has no external entrypoint.
2. *CALLER* (`processor/src/execution/operations/sys_ops/mod.rs:46`). The comment promises ZERO
   outside a syscall. In a call or dyncall context the register holds the hash of the running
   procedure, as the user documentation of the instruction says.
3. *Two writers* (`crates/utils-sync/src/rw_lock.rs:198`). A writer that finds another writer in the
   lock takes no exclusive bit. It then reads the wake counter after the other writer's last
   increment and loads a state of 2, because a reader has come in meanwhile. It waits for the
   counter, but the reader finds no exclusive bit when it leaves and bumps nothing. Unless somebody
   else uses the lock, the writer waits for ever on a lock that is free.

## 4. Proofs

The theorems hold for every value of the constants that satisfies the named assumptions. Each
module has an inductive invariant, a lemma for each action that can disturb it, and theorems that
follow from it.

**`StackBufferProofs`.** For every set of field elements, every minimum
depth, buffer geometry and depth limit, from these assumptions (all named in `StackBuffer`): the
minimum depth is positive, the initial top is above it, the buffer is longer than the initial top,
the depth limit is at least the minimum depth. The code's constants (16, 250, 6850) satisfy them.
The inductive invariant `IInv` is `TypeOK`, `LiveStackInBuffer`, `ZeroBelow`,
`AggregateDepthBounded` and `AllocationCapped`. None is inductive alone. In-bounds indices after a
growth need the depth limit, as the growth is capped by it. That the overflow fits after a
`RestoreGrow` needs the aggregate bound, since only the sum of the active and the suspended depth
is limited. That sum is tied to the saved segments by `SavedLenIsTotal`, which states a total by the
existence of its partial sums and so needs no induction over sequences. `ZeroBelow` states
`BelowBottomIsZero` for cells instead of positions. `Implements` shows that `StackBuffer` implements
`OperandStack` under the mapping that reads the live cells as the abstract stack: growing and moving
the buffer is invisible, a drop at the minimum depth pulls in a zero because of `ZeroBelow`, a
return finds the caller's overflow again. `SwitchConserves` follows from the same invariant.

**`StepExecutionProofs`, `SteppingProofs`.** The safety properties of `stepping` for every
program, forest, library, kernel, event handler and limit; nothing is assumed of the constants. The
two loops run the same handlers on states that differ in two ways: the stopper, and the position
inside a basic block, which the stepped loop finds on its continuation stack and the other one in
its locals. `StepExecutionProofs` shows handler by handler that from corresponding states (`Twin`)
both end alike (`HandlerEnd`): in the same failure; in the same break to the host; or at the end of
a clock cycle, where one stops and the other goes on. `HandlersCorrespond` and `LoadsCorrespond` put
the handlers together. The two loops do not move in step, however: the model lets a call of `step`
run to its end before the other loop catches up. The inductive invariant therefore says that there
is a path of steps inside the current call, from a state that corresponds to the uninterrupted
loop's to the state the stepped loop is in. A step of the stepped loop makes the path longer at one
end, a step of the other one shorter at the other end. A new call begins in a state that has left
finished forests which the other loop has yet to leave (`Trails`). The invariant quantifies over
paths, so TLC cannot evaluate it; TLC checks the four invariants it implies.

`ContextsAreFresh` needs an invariant of its own, `Bounded`: every context that the processor is in,
will return to or has memory of has an id up to the clock. The id of a new context is one more than
the clock, hence new, and by the end of the cycle the clock has caught up with it. The exception is
a dyncall whose callee must be loaded: it returns to the host from inside the new context, before
the clock moves, so that one more id is allowed until the load is finished (`Horizon`). No context
can be entered in between. Each handler is shown to keep the bound (`Outcome`), under either
stopper.

**`StreamedHasherProofs`.** `StreamIsComplete`, `SameAsBuffered` and `TierOneIsPermissive` for any
executions, budgets, pools and AIR geometry, from the assumptions named in `TraceBudget` and
`StreamedHasher` (sizes are numbers, `usize` is no narrower than a trace is long, names of workers
are not names of states). The invariant `IInv` ties the channel, the number of requests sent and the
builder's rows together, says which states of caller, builder and stream go together, and that a
builder which gave up did so for rows that the buffered path would have turned away too. The last
part needs that rows only grow (`HasherRowsGrow`): the streamed builder compares after every request,
the buffered path after all. `TierOneIsPermissive` needs that the cap is the largest height that
fits, which is what the binary search computes (`LargestHeight`, from `BisectSearch`), and that
memory grows with height (`FitsMonotone`). The binary search, the running totals and the powers of
two are recursive functions. The library's induction theorems cannot be used here, as they take an
operator; `SetInduction` (a set of numbers with 0 that is closed under successor has them all)
and `Recursion` (a function that satisfies its equation exists) say the same about sets and functions,
from the well-foundedness of the natural numbers.

**`AdviceProviderProofs`.** All four properties of `advice_provider` for any inputs, mutations, limits,
lists of mutations, depths and positions. Assumed are that sizes are numbers, that maps and sets of
nodes are finite and that no empty subtree hashes to the empty word (`EmptyLeafAssumption`). The
inductive invariant `Exact` is `BudgetHolds` with the types; every call is shown to be `Proper`: it
keeps `Exact`, changes nothing if it fails, and keeps all entries and nodes. The hard case is a list
of mutations. Validation adds up what the list will cost before any of it is applied, from the
provider as it is plus what the list has already brought (`Tally`); application charges each mutation
against the provider as it has become. `TallyStep` shows by induction along the list that after each
prefix the two agree: the provider's map and store are the old ones with the tallied entries and
nodes merged in, and its size is the old one plus the tally (`Tallied`). So once the whole list fits,
each mutation does. `UpdateReplacesOneNode` is inductive by itself. Its core is `UpdatedTree`: down
any path, old and new tree agree or the path is still the one to the changed position, where the new
tree has the new node; two valid positions whose paths take the same turns are equal (`SameTurns`).
The recursive definitions of the model (tallies, results, paths, shifts, empty subtrees) exist by one
lemma, `RoundsExist`, and induction is over sets of numbers (`NatSetInduction`).

**`LockProofs`.** Of the reader-writer lock: `Exclusion` and `StateCountsHolders` for any finite set
of threads, calling any of the four operations any number of times, as long as `usize` can count
them. The two together, with the types, are inductive: a step that enters looks at the state word
only, and the word is what it claims because it counts the holders. `ParkedWriterIsWoken` is proved
for any number of threads of which one at most takes the lock exclusively; with two such threads it
does not hold. Its invariant (`WriterInv`) says that the exclusive bit is set exactly while the
writer is past taking it (`BitIsWriters`), and that the wake counter has moved since the writer read
it at most once for every reader that has left (`BumpsAreFew`), so that it cannot come round to the
value read before. Of the racy lock: `BorrowsAreTheValue`, `OwnedOnce` and `PublishedOnce` (the first
write wins), for any number of callers and cells, of which the null pointer is none. The invariant
adds that a caller which lost the race has the published pointer in hand and that nothing runs after
the drop. The module extends both locks, which share no names; the theorems about one say nothing of
the other's variables.

**`LocalRegistryProofs`.** All five properties of `local_registry` for any number of processes,
packages and faults, if an artifact in the legacy place is stored under its digest and no two of
them claim one version. The invariant has three parts. `MemoryInv`: a process in the middle of a call
holds what it loaded plus one record, whose version was not there before (or is there, for a
repair). `IndexInv`: behind the lock and the checksum, the file is what the process loaded, and what
is on the platter never lags behind what was acknowledged. `ArtifactInv`: an indexed artifact that
is not damaged loads, and would load as the same package after a power loss. The last part is why
the artifact's directory is synced before the index is written.

**`LargeForestProofs`.** `ForestIsConsistent`, `ForestRefinesSnapshots` and
`QueriesAnswerFromSnapshots`: the three properties of `forest_history` for any lineages, keys,
depth, batches, positive history length and number of prepared sets. The invariant says of each lineage that
its history is bounded and strictly increasing, that all of it is older than the latest tree, and
that each delta is exact (`DeltaExact`): laid over the latest tree it gives a tree that has the
delta's root and entry count, and the delta's nodes are the nodes of that tree, with every inner
node above a changed key among them. Of each prepared set it says that it is what would be
computed from some tree with the recorded root, so that validation by version and root is enough to
apply it: equal roots mean equal trees (`RootInjective`). Exactness survives an update because the new delta undoes it (`ReversalUndoes`) and an
older one, extended by the new one where it has no value of its own, undoes both
(`ExtensionUndoes`). The refinement maps a lineage to the latest tree preceded by each delta laid
over it. Queries follow from exactness, for each of the ways a query merges a delta with the latest
tree.

Where an argument needs the first or last element with some property, it is taken from the
well-foundedness of the natural numbers (`LeastExists`, `GreatestExists`).

Only model-checked: tracing and replay (`trace_generation`), whose reference semantics is recursive
and which relates a finished run to all fragments of it; and liveness, which is out of the prover's
reach: that stepping terminates and that calls of the locks and the streamed build return.

## 5. Not modelled, and plan

With nothing a model checker or this prover could say about them: field arithmetic, hashes,
signatures, AIR constraints, the STARK library, precompile evaluation, parsing, formatting,
serialisation, code generation, the command line.

Left out although they have state, and what they would need:

1. `Mmr` and `PartialMmr`: peaks, openings and partial views against a reference definition over a
   symbolic hash, as bounded algorithms.
2. The memory chiplet: order, deltas and range checks of the memory trace against the execution.
   The other chiplets are tables built in one pass.
3. Linker: topological order and cycle detection against their definitions on bounded graphs.
4. Deferred state of `core`: a growing graph of statements and its truncation.
5. The persistent backend of the forest: its storage layout, and which writes of RocksDB survive a
   power loss. Its read-only snapshots and the limit on entries per leaf.
6. The orderings of the atomics: a weak memory model instead of sequential consistency.
7. Proofs about tracing: agreement of saved contexts, block stack against continuation stack.
