--------------------------- MODULE ExecutionTracer --------------------------
(***************************************************************************)
(* ExecutionTracer, which watches FastProcessor run and cuts the run into  *)
(* fragments of fragment_size cycles.  For each fragment it keeps a        *)
(* snapshot of the state at its first cycle and queues of everything the   *)
(* replay of the fragment cannot compute by itself.                        *)
(*                                                                         *)
(* The requests recorded for the chiplets (hasher, memory writes, bitwise, *)
(* range checks, kernel, ACE) are not part of the core trace and are left  *)
(* out; the hasher is present as the addresses it hands out to blocks.     *)
(***************************************************************************)
EXTENDS FastProcessor, SequencesExt

\* Hasher rows per permutation: what a control block, or one batch, takes.
CONTROLLER_ROWS_PER_PERM == 2

\* ExecutionReplay: one queue per kind of recorded datum.
EmptyReplay ==
    [block_address |-> <<>>, node_start_parent_addr |-> <<>>, node_end |-> <<>>,
     execution_context |-> <<>>, overflow_values |-> <<>>, restore_context_info |-> <<>>,
     read_elements |-> <<>>, read_words |-> <<>>, advice |-> <<>>,
     mast_forest_resolution |-> <<>>]

NoSnapshot == [some |-> FALSE]

new_tracer(fragment_size) ==
    [fragment_size |-> fragment_size, state_snapshot |-> NoSnapshot,
     overflow_table |-> << <<>> >>, block_stack |-> <<>>, addr |-> 1,
     replay |-> EmptyReplay, fragment_contexts |-> <<>>, mast_forest_builders |-> <<>>,
     pending_restore_context |-> FALSE, err |-> "none"]

record(t, queue, datum) == [t EXCEPT !.replay[queue] = Append(@, datum)]

-----------------------------------------------------------------------------
(* The sparse forests: which nodes of which forest execution went through. *)

BuilderOf(t, forest) == {i \in DOMAIN t.mast_forest_builders :
                           t.mast_forest_builders[i].source = forest}

\* The tracer once forest has a builder; its id is the builder's position.
with_forest(t, forest) ==
    IF BuilderOf(t, forest) # {} THEN t
    ELSE [t EXCEPT !.mast_forest_builders =
            Append(@, [source |-> forest, full_visits |-> {}, digest_only_visits |-> {}])]

forest_id(t, forest) == CHOOSE i \in BuilderOf(t, forest) : TRUE

\* The builder of forest, which t has, with the node and its children in it.
visit(t, forest, id) ==
    LET i    == forest_id(t, forest)
        kids == Forests[forest].nodes[id].kids
    IN  [t EXCEPT !.mast_forest_builders[i].full_visits = @ \cup {id},
                  !.mast_forest_builders[i].digest_only_visits = @ \cup ToSet(kids)]

record_visit(t, forest, id) == visit(with_forest(t, forest), forest, id)

-----------------------------------------------------------------------------
(* The overflow table: one stack of [value, clk] entries per context.      *)

CurrentOverflow(t) == Last(t.overflow_table)

last_update_clk_in_current_ctx(t) ==
    IF CurrentOverflow(t) = <<>> THEN ZERO ELSE Last(CurrentOverflow(t)).clk

clk_after_pop_in_current_ctx(t) ==
    LET entries == CurrentOverflow(t)
    IN  IF Len(entries) < 2 THEN ZERO ELSE entries[Len(entries) - 1].clk

SetCurrentOverflow(t, entries) ==
    [t EXCEPT !.overflow_table = Append(Front(@), entries)]

\* Mutant: the wrong stack position is saved.
increment_stack_size_early(t, p) ==
    SetCurrentOverflow(t, Append(CurrentOverflow(t),
                                 [value |-> get(p, MIN_STACK_DEPTH - 2), clk |-> p.clk]))

\* Before the processor grows its stack: the element about to overflow.
increment_stack_size(t, p) ==
    SetCurrentOverflow(t, Append(CurrentOverflow(t),
                                 [value |-> get(p, MIN_STACK_DEPTH - 1), clk |-> p.clk]))

decrement_stack_size(t) ==
    IF CurrentOverflow(t) = <<>> THEN t
    ELSE record(SetCurrentOverflow(t, Front(CurrentOverflow(t))), "overflow_values",
                [value |-> Last(CurrentOverflow(t)).value,
                 addr  |-> clk_after_pop_in_current_ctx(t)])

start_overflow_context(t) == [t EXCEPT !.overflow_table = Append(@, <<>>)]

-----------------------------------------------------------------------------
(* Fragments.                                                              *)

\* Mutant: one queue is not emptied.
finish_fragment_keep_overflow(t) ==
    IF ~t.state_snapshot.some THEN t
    ELSE [t EXCEPT !.fragment_contexts = Append(@, [snapshot |-> t.state_snapshot,
                                                    replay   |-> t.replay]),
                   !.state_snapshot = NoSnapshot,
                   !.replay = [EmptyReplay EXCEPT !.overflow_values = t.replay.overflow_values]]

\* Close the fragment being recorded, if there is one, and empty its queues.
finish_current_fragment_context(t) ==
    IF ~t.state_snapshot.some THEN t
    ELSE [t EXCEPT !.fragment_contexts = Append(@, [snapshot |-> t.state_snapshot,
                                                    replay   |-> t.replay]),
                   !.state_snapshot = NoSnapshot, !.replay = EmptyReplay]

translate_continuation_stack(t, cs) ==
    [i \in DOMAIN cs |-> IF cs[i].kind = "EnterForest"
                           THEN [cs[i] EXCEPT !.forest = forest_id(t, cs[i].forest)]
                           ELSE cs[i]]

\* Mutant: the outermost block is taken for the current one.
BlockBottom(t) == IF t.block_stack = <<>> THEN [addr |-> ZERO, parent_addr |-> ZERO]
                  ELSE [addr |-> Head(t.block_stack).addr,
                        parent_addr |-> Head(t.block_stack).parent_addr]

BlockTop(t) == IF t.block_stack = <<>> THEN [addr |-> ZERO, parent_addr |-> ZERO]
               ELSE [addr |-> Last(t.block_stack).addr,
                     parent_addr |-> Last(t.block_stack).parent_addr]

\* The state from which the fragment that begins here can be replayed.
snapshot(t, p, stack, forest) ==
    [some          |-> TRUE,
     system        |-> [clk |-> p.clk, ctx |-> p.ctx, caller_hash |-> p.caller_hash],
     decoder       |-> BlockTop(t),
     stack_top     |-> Top(p),
     stack_depth   |-> MIN_STACK_DEPTH + Len(CurrentOverflow(t)),
     overflow_addr |-> last_update_clk_in_current_ctx(t),
     continuation  |-> translate_continuation_stack(t, stack),
     forest        |-> forest_id(t, forest)]

take_snapshot(t, p, stack, forest) ==
    [t EXCEPT !.state_snapshot = snapshot(t, p, stack, forest)]

\* The current forest and those execution will go back to have builders.
with_forests(t, stack, forest) ==
    FoldLeft(LAMBDA u, c : IF c.kind = "EnterForest" THEN with_forest(u, c.forest) ELSE u,
             with_forest(t, forest), stack)

start_new_fragment_context(t, p, cont, cs, forest) ==
    LET stack == Append(cs, cont)
    IN  take_snapshot(with_forests(finish_current_fragment_context(t), stack, forest),
                      p, stack, forest)

into_trace_replay(t) ==
    LET closed == finish_current_fragment_context(t)
    IN  [core_trace_contexts |-> closed.fragment_contexts,
         mast_forest_store   |-> closed.mast_forest_builders]

-----------------------------------------------------------------------------
(* The block stack, one entry per node being executed.                     *)

NoContext == [some |-> FALSE]

ContextInfo(p, parent_depth, overflow_addr) ==
    [some |-> TRUE, parent_ctx |-> p.ctx, parent_fn_hash |-> p.caller_hash,
     parent_stack_depth |-> parent_depth, parent_next_overflow_addr |-> overflow_addr]

\* What the END of the node will need to go back to the caller's context.
context_info(t, p, node) ==
    CASE node.kind \in {"call", "syscall"} ->
           ContextInfo(p, depth(p), last_update_clk_in_current_ctx(t))
      [] node.kind = "dyncall" ->       \* as it is once the address is dropped
           IF depth(p) > MIN_STACK_DEPTH
             THEN ContextInfo(p, depth(p) - 1, clk_after_pop_in_current_ctx(t))
             ELSE ContextInfo(p, depth(p), ZERO)
      [] OTHER -> NoContext

\* A node starts: the hasher gives it rows addresses, the block stack an entry.
push_block(t, rows, ctx_info) ==
    LET parent == BlockTop(t).addr
        block  == [addr |-> t.addr, parent_addr |-> parent, ctx_info |-> ctx_info]
    IN  [t EXCEPT !.addr = @ + rows, !.block_stack = Append(@, block),
                  !.replay.block_address = Append(@, t.addr),
                  !.replay.node_start_parent_addr = Append(@, parent)]

record_control_node_start(t, p, node) ==
    push_block(t, CONTROLLER_ROWS_PER_PERM, context_info(t, p, node))

record_basic_block_start(t, node) ==
    push_block(t, CONTROLLER_ROWS_PER_PERM * Len(node.batches), NoContext)

\* A node ends: where the decoder goes back to, and for a call the context.
record_block_end(t, block) ==
    LET ended == record(t, "node_end", [ended_node_addr  |-> block.addr,
                                        prev_addr        |-> BlockTop(t).addr,
                                        prev_parent_addr |-> BlockTop(t).parent_addr])
        info  == block.ctx_info
    IN  IF ~info.some THEN ended
        ELSE [record(ended, "execution_context", [parent_ctx     |-> info.parent_ctx,
                                                  parent_fn_hash |-> info.parent_fn_hash])
                EXCEPT !.pending_restore_context = TRUE]

record_node_end(t) ==
    record_block_end([t EXCEPT !.block_stack = Front(@)], Last(t.block_stack))

-----------------------------------------------------------------------------
(* The Tracer interface.                                                   *)

\* What the start of a control node does to the overflow table.
control_node_started(t, kind) ==
    CASE kind \in {"join", "loop"}    -> t
      [] kind \in {"split", "dyn"}    -> decrement_stack_size(t)
      [] kind \in {"call", "syscall"} -> start_overflow_context(t)
      [] kind = "dyncall"             -> start_overflow_context(decrement_stack_size(t))

node_started(t, p, node) ==
    IF node.kind = "block" THEN record_basic_block_start(t, node)
    ELSE control_node_started(record_control_node_start(t, p, node), node.kind)

op_started(t, p, op) ==
    IF increments_stack_size(op) THEN increment_stack_size(t, p)
    ELSE IF decrements_stack_size(op) THEN decrement_stack_size(t)
    ELSE t

continuation_started(t, p, cont, node) ==
    CASE cont.kind = "StartNode" -> node_started(t, p, node)
      [] cont.kind = "ResumeBasicBlock" -> op_started(t, p, node.batches[cont.batch][cont.op])
      [] cont.kind = "Respan" ->
           [t EXCEPT !.block_stack[Len(t.block_stack)].addr = @ + CONTROLLER_ROWS_PER_PERM]
      [] cont.kind = "FinishLoop" ->
           IF get(p, 0) = ONE THEN decrement_stack_size(t)
           ELSE record_node_end(decrement_stack_size(t))
      [] OTHER -> record_node_end(t)

start_clock_cycle(t, p, cont, cs, forest) ==
    LET current == IF p.clk % t.fragment_size = 0
                     THEN start_new_fragment_context(t, p, cont, cs, forest) ELSE t
    IN  continuation_started(record_visit(current, forest, cont.node), p, cont,
                             Forests[forest].nodes[cont.node])

\* The END of a call restores the overflow table only now, once the
\* processor has accepted the return.
record_restore_context(t) ==
    record(t, "restore_context_info", [depth |-> MIN_STACK_DEPTH + Len(CurrentOverflow(t)),
                                       addr  |-> last_update_clk_in_current_ctx(t)])

finalize_clock_cycle(t, p, forest) ==
    IF ~t.pending_restore_context THEN t
    ELSE IF Len(t.overflow_table) <= 1 \/ CurrentOverflow(t) # <<>>
      THEN [t EXCEPT !.err = "Internal"]
    ELSE record_restore_context([t EXCEPT !.overflow_table = Front(@),
                                          !.pending_restore_context = FALSE])

record_memory_read_element(t, value) == record(t, "read_elements", value)

record_memory_read_word(t, value) == record(t, "read_words", value)

record_advice_pop_stack(t, value) == record(t, "advice", value)

record_resolution(t, root, forest) ==
    record(t, "mast_forest_resolution", [root |-> root, forest |-> forest_id(t, forest)])

record_mast_forest_resolution(t, root, forest) ==
    record_resolution(with_forest(t, forest), root, forest)

record_external_node_entered(t, id, forest) == record_visit(t, forest, id)
=============================================================================
