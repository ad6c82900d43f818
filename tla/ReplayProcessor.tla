--------------------------- MODULE ReplayProcessor --------------------------
(***************************************************************************)
(* ReplayProcessor, which runs one fragment again from its snapshot.  It   *)
(* has the top of the stack but no overflow table, no memory and no advice *)
(* provider: what it cannot compute it takes from the head of a queue that *)
(* ExecutionTracer filled.                                                 *)
(***************************************************************************)
EXTENDS MastForest, SequencesExt

CONSTANTS
    Forests,            \* the forests that the sparse forests are cut from
    MIN_STACK_DEPTH,
    MaxStackDepth

SENTINEL_VALUE == -2

\* context is a fragment context and store the sparse forests of the run.
new_replay_processor(context, store, num_clocks_to_execute) ==
    LET snapshot == context.snapshot
    IN  [clk |-> snapshot.system.clk, ctx |-> snapshot.system.ctx,
         caller_hash |-> snapshot.system.caller_hash, stack_top |-> snapshot.stack_top,
         stack_depth |-> snapshot.stack_depth, overflow_addr |-> snapshot.overflow_addr,
         replay |-> context.replay, mast_forest_store |-> store,
         maximum_clock |-> snapshot.system.clk + num_clocks_to_execute, err |-> "none"]

\* Take the head of a queue; an empty queue is an error.
replay_next(p, queue, default) ==
    IF p.replay[queue] = <<>> THEN [p |-> [p EXCEPT !.err = "Internal"], value |-> default]
    ELSE [p |-> [p EXCEPT !.replay[queue] = Tail(@)], value |-> Head(p.replay[queue])]

-----------------------------------------------------------------------------
(* The stack.                                                              *)

get(p, idx) == p.stack_top[MIN_STACK_DEPTH - idx]

set(p, idx, value) == [p EXCEPT !.stack_top[MIN_STACK_DEPTH - idx] = value]

depth(p) == p.stack_depth

increment_size(p) ==
    IF depth(p) + 1 > MaxStackDepth THEN [p EXCEPT !.err = "StackDepthLimitExceeded"]
    ELSE [p EXCEPT !.stack_depth = @ + 1, !.overflow_addr = p.clk,
                   !.stack_top = Append(Tail(@), SENTINEL_VALUE)]

pop_overflow(p) ==
    LET popped == replay_next(p, "overflow_values", [value |-> ZERO, addr |-> ZERO])
    IN  IF p.stack_depth > MIN_STACK_DEPTH
          THEN [p |-> [popped.p EXCEPT !.stack_depth = @ - 1,
                                       !.overflow_addr = popped.value.addr],
                value |-> popped.value.value]
          ELSE [p |-> [p EXCEPT !.overflow_addr = ZERO], value |-> ZERO]

decrement_size(p) ==
    LET popped == pop_overflow(p)
    IN  [popped.p EXCEPT !.stack_top = <<popped.value>> \o Front(@)]

start_context(p) == [p EXCEPT !.stack_depth = MIN_STACK_DEPTH, !.overflow_addr = ZERO]

restore_context(p) ==
    LET info == replay_next(p, "restore_context_info", [depth |-> MIN_STACK_DEPTH, addr |-> ZERO])
    IN  [info.p EXCEPT !.stack_depth = info.value.depth, !.overflow_addr = info.value.addr]

-----------------------------------------------------------------------------
(* System registers, memory and advice.                                    *)

save_call_state(p) == p

restore_call_state(p) ==
    LET info == replay_next(p, "execution_context", [parent_ctx |-> 0, parent_fn_hash |-> ZERO])
    IN  [info.p EXCEPT !.ctx = info.value.parent_ctx, !.caller_hash = info.value.parent_fn_hash]

read_element(p, ctx, addr) == replay_next(p, "read_elements", ZERO)

read_word(p, ctx, addr) == replay_next(p, "read_words", ZERO)

write_element(p, ctx, addr, value) == p

pop_stack(p) == replay_next(p, "advice", ZERO)

-----------------------------------------------------------------------------
(* Sparse forests: forest is a position in the store.                      *)

Source(p, forest) == Forests[p.mast_forest_store[forest].source]

get_node_by_id(p, forest, id) ==
    IF id \in p.mast_forest_store[forest].full_visits
      THEN Source(p, forest).nodes[id] ELSE NoNode

get_digest_by_id(p, forest, id) ==
    IF id \in p.mast_forest_store[forest].full_visits
               \cup p.mast_forest_store[forest].digest_only_visits
      THEN Source(p, forest).nodes[id].digest ELSE NoDigest

find_procedure_root(p, forest, digest) ==
    FirstRoot(Source(p, forest), digest, p.mast_forest_store[forest].full_visits)

\* Replay emits nothing and asks no host: the recorded resolution is next.
handle_emit(p) == p

load_mast_forest(p, digest) ==
    LET resolution == replay_next(p, "mast_forest_resolution", [root |-> 0, forest |-> 0])
    IN  [p |-> resolution.p, root |-> resolution.value.root, forest |-> resolution.value.forest]

check_outputs(p) == p

\* ReplayStopper: the end of the fragment.
should_stop(stopper, p, cs) == IF p.clk >= p.maximum_clock THEN "stopped" ELSE "continue"
=============================================================================
