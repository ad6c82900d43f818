---------------------- MODULE CoreTraceGenerationTracer ---------------------
(***************************************************************************)
(* CoreTraceGenerationTracer, which watches ReplayProcessor run a fragment *)
(* and writes one row of the core trace per clock cycle.                   *)
(*                                                                         *)
(* A row has the decoder's columns (opcode, addr and the two halves of the *)
(* hasher state) and the system and stack columns.  The latter two hold    *)
(* the state at the start of the cycle, so a cycle's result is buffered in *)
(* system_cols and stack_cols and written with the next row.  The groups   *)
(* of a batch appear as the position <<block digest, batch, operation>>    *)
(* they are a function of.                                                 *)
(***************************************************************************)
EXTENDS ReplayProcessor

CONTROLLER_ROWS_PER_PERM == 2

NoFlags == <<ZERO, ZERO, ZERO, ZERO>>

EmptySystemCols == [clk |-> ZERO, ctx |-> ZERO, fn_hash |-> ZERO]

EmptyStackCols == [top |-> [i \in 1..MIN_STACK_DEPTH |-> ZERO], b0 |-> ZERO, b1 |-> ZERO]

new_trace_tracer(context) ==
    [rows |-> <<>>, current_addr |-> context.snapshot.decoder.addr,
     parent_addr |-> context.snapshot.decoder.parent_addr,
     block_address |-> context.replay.block_address,
     node_start_parent_addr |-> context.replay.node_start_parent_addr,
     node_end |-> context.replay.node_end,
     system_cols |-> EmptySystemCols, stack_cols |-> EmptyStackCols,
     ctx_info |-> <<ZERO, ZERO>>, finish_loop_condition |-> FALSE, dyn_callee_hash |-> ZERO,
     continuation |-> NoContinuation, is_loop_body |-> FALSE,
     error_encountered |-> "none", err |-> "none"]

TraceError(t) == [t EXCEPT !.error_encountered = "Internal"]

-----------------------------------------------------------------------------
(* Rows.                                                                   *)

build_system_cols(p) == [clk |-> p.clk + 1, ctx |-> p.ctx, fn_hash |-> p.caller_hash]

build_stack_cols(p) == [top |-> p.stack_top, b0 |-> p.stack_depth, b1 |-> p.overflow_addr]

fill_trace_row(t, p, opcode, addr, first, second) ==
    [t EXCEPT !.rows = Append(@, [opcode |-> opcode, addr |-> addr, hasher |-> <<first, second>>,
                                  system |-> t.system_cols, stack |-> t.stack_cols]),
              !.system_cols = build_system_cols(p), !.stack_cols = build_stack_cols(p)]

\* The decoder moves to the node that starts.
replay_node_start(t) ==
    IF t.block_address = <<>> \/ t.node_start_parent_addr = <<>> THEN TraceError(t)
    ELSE [t EXCEPT !.current_addr = Head(t.block_address),
                   !.parent_addr = Head(t.node_start_parent_addr),
                   !.block_address = Tail(@), !.node_start_parent_addr = Tail(@)]

fill_start_row(t, p, node, forest) ==
    LET digests == [i \in DOMAIN node.kids |-> get_digest_by_id(p, forest, node.kids[i])]
        row(opcode, first, second) == fill_trace_row(t, p, opcode, t.parent_addr, first, second)
    IN  IF NoDigest \in ToSet(digests) THEN TraceError(t)
        ELSE CASE node.kind = "block"   -> row("span", <<node.digest, 1>>, NoFlags)
               [] node.kind = "dyn"     -> row("dyn", <<t.dyn_callee_hash>>, NoFlags)
               [] node.kind = "dyncall" ->
                    row("dyncall", <<t.dyn_callee_hash>>, t.ctx_info \o <<ZERO, ZERO>>)
               [] OTHER ->              \* join, split, loop, call, syscall
                    row(node.kind, <<Head(digests)>>,
                        IF Len(digests) = 2 THEN <<digests[2]>> ELSE NoFlags)

compute_node_flags(t, kind, node) ==
    LET flag(b) == IF b THEN ONE ELSE ZERO
    IN  <<flag(t.is_loop_body), flag(kind = "FinishLoop"),
          flag(node.kind \in {"call", "dyncall"}), flag(node.kind = "syscall")>>

\* END of a node: the decoder goes back to the enclosing node.
fill_end_trace_row(t, p, kind, node) ==
    LET end  == Head(t.node_end)
        back == [t EXCEPT !.current_addr = end.prev_addr,
                          !.parent_addr = end.prev_parent_addr, !.node_end = Tail(@)]
    IN  IF t.node_end = <<>> THEN TraceError(t)
        ELSE fill_trace_row(back, p, "end", end.ended_node_addr, <<node.digest>>,
                            compute_node_flags(t, kind, node))

fill_loop_repeat_trace_row(t, p, node, forest) ==
    LET body_hash == get_digest_by_id(p, forest, node.kids[1])
    IN  IF body_hash = NoDigest THEN TraceError(t)
        ELSE fill_trace_row(t, p, "repeat", t.current_addr, <<body_hash>>,
                            <<ONE, ZERO, ZERO, ZERO>>)

fill_respan_trace_row(t, p, node, batch) ==
    [fill_trace_row(t, p, "respan", t.current_addr, <<node.digest, batch>>, NoFlags)
       EXCEPT !.current_addr = @ + CONTROLLER_ROWS_PER_PERM]

fill_operation_trace_row(t, p, node, batch, op) ==
    fill_trace_row(t, p, node.batches[batch][op].name, t.current_addr,
                   <<node.digest, batch, op>>, <<t.parent_addr>>)

-----------------------------------------------------------------------------
(* The Tracer interface.  After an error every call does nothing.          *)

\* The depth and overflow address that a DYNCALL leaves behind, or <<>> when
\* the stack is deep and no pop is recorded.
get_execution_context_for_dyncall(p) ==
    IF p.stack_depth <= MIN_STACK_DEPTH THEN <<p.stack_depth, ZERO>>
    ELSE IF p.replay.overflow_values = <<>> THEN <<>>
    ELSE <<p.stack_depth - 1, Head(p.replay.overflow_values).addr>>

start_clock_cycle(t, p, cont, cs, forest) ==
    LET node     == get_node_by_id(p, forest, cont.node)
        starts   == cont.kind = "StartNode"
        dyncall  == starts /\ node.kind = "dyncall"
        dyn      == starts /\ node.kind \in {"dyn", "dyncall"}
        ctx_info == IF dyncall THEN get_execution_context_for_dyncall(p) ELSE <<ZERO, ZERO>>
    IN  IF t.error_encountered # "none" THEN t
        ELSE IF \/ starts /\ node.kind = "none"
                \/ ctx_info = <<>>
                \/ dyn /\ p.replay.read_words = <<>> THEN TraceError(t)
        ELSE [t EXCEPT !.ctx_info = ctx_info,
                       !.finish_loop_condition = cont.kind = "FinishLoop" /\ get(p, 0) = ONE,
                       !.dyn_callee_hash = IF dyn THEN Head(p.replay.read_words) ELSE ZERO,
                       !.is_loop_body = continuation_for_next_clock(cs).kind = "FinishLoop",
                       !.continuation = cont]

finalize_clock_cycle(t, p, forest) ==
    LET cont    == t.continuation
        node    == get_node_by_id(p, forest, cont.node)
        started == replay_node_start(t)
    IN  IF t.error_encountered # "none" THEN t
        ELSE IF node.kind = "none" THEN TraceError(t)
        ELSE CASE cont.kind = "StartNode" ->
                    IF started.error_encountered # "none" THEN started
                    ELSE fill_start_row(started, p, node, forest)
               [] cont.kind = "FinishLoop" /\ t.finish_loop_condition ->
                    fill_loop_repeat_trace_row(t, p, node, forest)
               [] cont.kind = "ResumeBasicBlock" ->
                    fill_operation_trace_row(t, p, node, cont.batch, cont.op)
               [] cont.kind = "Respan" -> fill_respan_trace_row(t, p, node, cont.batch)
               [] OTHER -> fill_end_trace_row(t, p, cont.kind, node)

\* The records of a first run have no meaning in a replay.
record_memory_read_element(t, value) == t

record_memory_read_word(t, value) == t

record_advice_pop_stack(t, value) == t

record_mast_forest_resolution(t, root, forest) == t

record_external_node_entered(t, id, forest) == t
=============================================================================
