--------------------------- MODULE TraceGeneration --------------------------
(***************************************************************************)
(* From a program to its core trace: FastProcessor executes the program    *)
(* under ExecutionTracer, the fragments it recorded are replayed, each by  *)
(* a ReplayProcessor of its own, and the pieces are put together.          *)
(*                                                                         *)
(* The code replays the fragments in parallel.  A worker owns its fragment *)
(* context and its slice of the trace and shares only the sparse forests,  *)
(* which nobody writes, so one order of the fragments stands for all.      *)
(***************************************************************************)
EXTENDS MastForest, SequencesExt

CONSTANTS
    Programs,           \* sequence of [forest, entry, inputs, advice]
    FragmentSizes,      \* core_trace_fragment_size
    Forests, kernel, Library, EventAdvice,
    MIN_STACK_DEPTH, MaxStackDepth, MaxCycles, MaxContinuations, MaxMemory, MaxAdvice

VARIABLES
    prog,               \* the program, an index of Programs
    exec,               \* the loop over FastProcessor
    replay,             \* the loop over the ReplayProcessor of the current fragment
    results,            \* final states of the fragments replayed so far
    trace               \* the core trace once it is built

vars == <<prog, exec, replay, results, trace>>

Fast == INSTANCE FastExecution WITH s <- exec

Replay == INSTANCE ReplayExecution WITH s <- replay

Ref == INSTANCE CoreTraceReference

Idle == [status |-> "idle"]

NoTrace == [rows |-> <<>>, err |-> "unbuilt"]

-----------------------------------------------------------------------------
(* Execution.                                                              *)

execute_for_proving(p, fragment_size) ==
    Fast!initial_state(Fast!new_processor(p.inputs, p.advice), Fast!new_tracer(fragment_size),
                       "NeverStopper", <<StartNode(p.entry)>>, p.forest)

Execute == Fast!Next /\ UNCHANGED <<prog, replay, results, trace>>

-----------------------------------------------------------------------------
(* Replay, once the program has run to its end.                            *)

Recorded == Fast!into_trace_replay(exec.t)

split_trace_fragment_context(context) ==
    Replay!initial_state(
        Replay!new_replay_processor(context, Recorded.mast_forest_store, exec.t.fragment_size),
        Replay!new_trace_tracer(context), "ReplayStopper", context.snapshot.continuation,
        context.snapshot.forest)

\* What a fragment's worker returns: its rows and last columns, or an error.
into_final_state(r) ==
    [rows |-> r.t.rows, last_system_cols |-> r.t.system_cols, last_stack_cols |-> r.t.stack_cols,
     err |-> IF r.status \notin {"stopped", "ended"} THEN r.status ELSE r.t.error_encountered]

StartFragment ==
    /\ exec.status = "ended"
    /\ replay.status = "idle"
    /\ Len(results) < Len(Recorded.core_trace_contexts)
    /\ replay' = split_trace_fragment_context(Recorded.core_trace_contexts[Len(results) + 1])
    /\ UNCHANGED <<prog, exec, results, trace>>

ReplayFragment ==
    /\ replay.status # "idle"
    /\ Replay!Next
    /\ UNCHANGED <<prog, exec, results, trace>>

FinishFragment ==
    /\ replay.status \notin {"idle", "running"}
    /\ results' = Append(results, into_final_state(replay))
    /\ replay' = Idle
    /\ UNCHANGED <<prog, exec, trace>>

-----------------------------------------------------------------------------
(* Putting the fragments together.                                         *)

\* Mutant: a fragment's first row gets its own last columns.
fixup_from_same_fragment(rows, k) ==
    IF k = 1
      THEN [rows EXCEPT ![1].stack =
              [top |-> Recorded.core_trace_contexts[1].snapshot.stack_top,
               b0 |-> MIN_STACK_DEPTH, b1 |-> ZERO]]
      ELSE [rows EXCEPT ![1].system = results[k].last_system_cols,
                        ![1].stack = results[k].last_stack_cols]

\* The first row of a fragment gets the columns its predecessor ended with,
\* the first row of the trace the initial stack.
fixup_stack_and_system_rows(rows, k) ==
    IF k = 1
      THEN [rows EXCEPT ![1].stack =
              [top |-> Recorded.core_trace_contexts[1].snapshot.stack_top,
               b0 |-> MIN_STACK_DEPTH, b1 |-> ZERO]]
      ELSE [rows EXCEPT ![1].system = results[k - 1].last_system_cols,
                        ![1].stack = results[k - 1].last_stack_cols]

push_halt_opcode_row(rows) ==
    Append(rows, [opcode |-> "halt", addr |-> ZERO,
                  hasher |-> <<Last(rows).hasher[1], <<ZERO, ZERO, ZERO, ZERO>>>>,
                  system |-> Last(results).last_system_cols,
                  stack  |-> Last(results).last_stack_cols])

generate_core_trace_row_major ==
    LET failed == {k \in DOMAIN results : results[k].err # "none"}
        fixed  == [k \in DOMAIN results |-> fixup_stack_and_system_rows(results[k].rows, k)]
    IN  IF failed # {} THEN [rows |-> <<>>, err |-> results[Min(failed)].err]
        ELSE [rows |-> push_halt_opcode_row(FlattenSeq(fixed)), err |-> "none"]

BuildTrace ==
    /\ exec.status = "ended"
    /\ trace = NoTrace
    /\ Len(results) = Len(Recorded.core_trace_contexts)
    /\ trace' = generate_core_trace_row_major
    /\ UNCHANGED <<prog, exec, replay, results>>

Failed == exec.status \notin {"running", "ended"}

Built == trace # NoTrace

\* The program failed, or its trace is built: nothing is left to do.
Done == (Failed \/ Built) /\ UNCHANGED vars

Init ==
    /\ prog \in DOMAIN Programs
    /\ \E size \in FragmentSizes : exec = execute_for_proving(Programs[prog], size)
    /\ replay = Idle
    /\ results = <<>>
    /\ trace = NoTrace

Next == Execute \/ StartFragment \/ ReplayFragment \/ FinishFragment \/ BuildTrace \/ Done

Spec == Init /\ [][Next]_vars

-----------------------------------------------------------------------------
(* Properties.                                                             *)

\* What every program must do, computed without any of the machinery above.
Reference == [i \in DOMAIN Programs |-> Ref!RunProgram(Programs[i])]

\* execute_impl, with its continuation stack, saved call states and forest
\* switches, computes what the program means: its output stack, memory and
\* unread advice after as many cycles, or its error.
ExecutionMatchesReference ==
    LET ref == Reference[prog]
    IN  /\ Failed => exec.status = ref.err
        /\ exec.status = "ended" =>
             /\ ref.err = "none"
             /\ <<exec.p.stk, exec.p.mem, exec.p.advice, exec.p.clk>>
                  = <<ref.top, ref.mem, ref.advice, ref.clk>>

\* Whatever the fragment size, the core trace that build_trace puts together
\* from independently replayed fragments is, column by column, the one the
\* execution determines, and replay of a recorded execution never fails.
TraceMatchesReference ==
    Built => trace = [rows |-> Reference[prog].rows, err |-> "none"]

\* A fragment's replay uses up what was recorded for it and nothing that was
\* recorded for another.  Only the resolution of an external node that comes
\* right after the last cycle may be left: no replay asks for it.
RecordsConsumed ==
    replay.status \in {"stopped", "ended"} =>
        /\ \A queue \in {"overflow_values", "restore_context_info", "execution_context",
                        "read_elements", "read_words", "advice"} :
             replay.p.replay[queue] = <<>>
        /\ replay.t.block_address = <<>>
        /\ replay.t.node_start_parent_addr = <<>>
        /\ replay.t.node_end = <<>>
        /\ Len(replay.p.replay.mast_forest_resolution) <= 1

\* The four records of the suspended contexts agree: the processor's saved
\* call states and stacks, and the tracer's overflow table and block stack.
SavedContextsAgree ==
    exec.status = "running" =>
        LET p == exec.p
            saved == SelectSeq(exec.t.block_stack, LAMBDA b : b.ctx_info.some)
            values(entries) == [i \in DOMAIN entries |-> entries[i].value]
        IN  /\ Len(p.hidden) = Len(p.calls) /\ Len(saved) = Len(p.calls)
            /\ [k \in DOMAIN exec.t.overflow_table |-> values(exec.t.overflow_table[k])]
                 = Append(p.hidden, Fast!Overflow(p))
            /\ \A k \in DOMAIN saved :
                 /\ saved[k].ctx_info.parent_ctx = p.calls[k].ctx
                 /\ saved[k].ctx_info.parent_fn_hash = p.calls[k].caller_hash
                 /\ saved[k].ctx_info.parent_stack_depth
                      = MIN_STACK_DEPTH + Len(p.hidden[k])

\* The tracer's block stack has an entry for every node that the continuation
\* stack, or the loop inside a basic block, still has to end, and each entry's
\* parent is the entry below it.
BlockStackMatchesContinuations ==
    exec.status = "running" =>
        LET blocks == exec.t.block_stack
            open   == SelectSeq(exec.cs, LAMBDA c : c.kind \notin {"StartNode", "EnterForest"})
            inside == IF exec.cursor # NoContinuation \/ exec.brk.kind = "Emit" THEN 1 ELSE 0
        IN  /\ Len(blocks) = Len(open) + inside
            /\ \A k \in DOMAIN blocks :
                 blocks[k].parent_addr = IF k = 1 THEN 0 ELSE blocks[k - 1].addr

\* op_caller's comment: CALLER reads "the hash of the procedure that initiated
\* the most recent SYSCALL, or ZERO if not in a syscall context".  Saved call
\* states in the root context are what a syscall is serviced with.
CallerIsZeroOutsideSyscall ==
    LET node == Fast!get_node_by_id(exec.p, exec.forest, exec.cursor.node)
    IN  /\ exec.status = "running"
        /\ exec.cursor.kind = "ResumeBasicBlock"
        /\ node.batches[exec.cursor.batch][exec.cursor.op].name = "caller"
        /\ ~(exec.p.ctx = 0 /\ exec.p.calls # <<>>)
        => exec.p.caller_hash = ZERO
=============================================================================
