----------------------------- MODULE Execution ------------------------------
(***************************************************************************)
(* The handlers of the execution loop, one per node kind and operation.    *)
(* As in the code, one loop serves every processor: the handlers are       *)
(* generic over the processor, the tracer and the stopper whose methods    *)
(* are the constant operators below.  FastExecution, StepExecution and     *)
(* ReplayExecution instantiate them, ExecutionLoop runs them.              *)
(*                                                                         *)
(* st is the loop's state: the processor p, the tracer t, the stopper, the *)
(* continuation stack cs, the current forest, the position cursor inside   *)
(* the basic block being executed (a local of the loop in the code), the   *)
(* reason brk for which the loop returned to its caller, and status.  A    *)
(* method that fails leaves the error in p.err or t.err, and the loop      *)
(* stops with it.                                                          *)
(***************************************************************************)
EXTENDS MastForest

CONSTANTS
    kernel,                         \* digests of the kernel procedures
    \* the processor: system, stack, memory, advice and forests
    get(_, _), set(_, _, _), depth(_), increment_size(_), decrement_size(_),
    start_context(_), restore_context(_), save_call_state(_), restore_call_state(_),
    read_element(_, _, _), read_word(_, _, _), write_element(_, _, _, _), pop_stack(_),
    get_node_by_id(_, _, _), get_digest_by_id(_, _, _), find_procedure_root(_, _, _),
    \* the tracer
    start_clock_cycle(_, _, _, _, _), finalize_clock_cycle(_, _, _),
    record_memory_read_element(_, _), record_memory_read_word(_, _),
    record_advice_pop_stack(_, _),
    record_mast_forest_resolution(_, _, _), record_external_node_entered(_, _, _),
    \* the stopper
    should_stop(_, _, _)

NoBreak == [kind |-> "none", node |-> 0, digest |-> ZERO, cont |-> NoContinuation]

initial_state(p, t, stopper, cs, forest) ==
    [p |-> p, t |-> t, stopper |-> stopper, cs |-> cs, forest |-> forest,
     cursor |-> NoContinuation, brk |-> NoBreak, status |-> "running"]

-----------------------------------------------------------------------------
(* The clock cycle.                                                        *)

start_cycle(st, cont) ==
    [st EXCEPT !.t = start_clock_cycle(@, st.p, cont, st.cs, st.forest)]

\* The stopper's verdict at the end of a cycle.  cont is what must run next if
\* it stops here and cs does not say so.
stop_or_go(st, cont) ==
    LET verdict == should_stop(st.stopper, st.p, st.cs)
    IN  [st EXCEPT !.cs = IF verdict = "stopped" /\ cont # NoContinuation
                            THEN Append(@, cont) ELSE @,
                   !.status = IF verdict = "continue" THEN "running" ELSE verdict]

\* The tracer has finalized the cycle: the clock is next, then the stopper.
increment_clk(st, cont) ==
    IF st.t.err # "none" THEN [st EXCEPT !.status = st.t.err]
    ELSE stop_or_go([st EXCEPT !.p.clk = @ + 1], cont)

finalize(st, forest, cont) ==
    IF st.p.err # "none" THEN [st EXCEPT !.status = st.p.err]
    ELSE increment_clk([st EXCEPT !.t = finalize_clock_cycle(@, st.p, forest)], cont)

push(st, conts) == [st EXCEPT !.cs = @ \o conts]

\* What follows the end of a cycle, unless it ended in a stop or an error.
IfRunning(st, next(_)) == IF st.status = "running" THEN next(st) ELSE st

\* The loop inside a basic block goes on at cont unless the stopper stopped it.
go_on(st, cont) == IfRunning(st, LAMBDA ended : [ended EXCEPT !.cursor = cont])

\* A step that follows one that may fail.
OnSuccess(p, next(_)) == IF p.err = "none" THEN next(p) ELSE p

\* Mutant: contexts numbered by nesting depth.
nested_ctx_id(p) == p.ctx + 1

get_next_ctx_id(p) == p.clk + 1

-----------------------------------------------------------------------------
(* Join, split and loop nodes.                                             *)

start_join_node(st, id) ==
    LET node == get_node_by_id(st.p, st.forest, id)
    IN  finalize(push(start_cycle(st, StartNode(id)),
                      <<Continuation("FinishJoin", id), StartNode(node.kids[2]),
                        StartNode(node.kids[1])>>),
                 st.forest, NoContinuation)

\* END of a join or split node, or of a basic block.
finish_node(st, cont) == finalize(start_cycle(st, cont), st.forest, NoContinuation)

\* The condition is dropped, and only then looked at.
take_branch(st, id, condition) ==
    LET node   == get_node_by_id(st.p, st.forest, id)
        branch == IF condition = ONE THEN node.kids[1] ELSE node.kids[2]
    IN  IF st.p.err = "none" /\ condition \notin {ZERO, ONE}
          THEN [st EXCEPT !.status = "NotBinaryValue"]
          ELSE finalize(push(st, <<Continuation("FinishSplit", id), StartNode(branch)>>),
                        st.forest, NoContinuation)

start_split_node(st, id) ==
    take_branch([start_cycle(st, StartNode(id)) EXCEPT !.p = decrement_size(@)],
                id, get(st.p, 0))

start_loop_node(st, id) ==
    LET node == get_node_by_id(st.p, st.forest, id)
    IN  finalize(push(start_cycle(st, StartNode(id)),
                      <<Continuation("FinishLoop", id), StartNode(node.kids[1])>>),
                 st.forest, NoContinuation)

\* REPEAT while the body leaves ONE, END once it leaves ZERO.
finish_loop_node(st, id) ==
    LET body      == get_node_by_id(st.p, st.forest, id).kids[1]
        condition == get(st.p, 0)
        started   == start_cycle(st, Continuation("FinishLoop", id))
        next      == IF condition = ONE THEN <<Continuation("FinishLoop", id), StartNode(body)>>
                     ELSE <<>>
    IN  IF condition \notin {ZERO, ONE}
          THEN [st EXCEPT !.status = "NotBinaryValue"]
          ELSE finalize(push([started EXCEPT !.p = decrement_size(@)], next),
                        st.forest, NoContinuation)

-----------------------------------------------------------------------------
(* Call and syscall nodes.                                                 *)

\* Mutant: the caller hash is left as it was.
enter_context_keep_hash(p, callee) ==
    LET ctx == get_next_ctx_id(p)
    IN  write_element([p EXCEPT !.ctx = ctx], ctx, FMP_ADDR, FMP_INIT_VALUE)

enter_context(p, callee) ==
    LET ctx == get_next_ctx_id(p)
    IN  write_element([p EXCEPT !.ctx = ctx, !.caller_hash = callee],
                      ctx, FMP_ADDR, FMP_INIT_VALUE)

\* A syscall is serviced in the root context and leaves the caller's hash.
call_callee(st, id, node, callee) ==
    LET saved   == save_call_state(start_context(st.p))
        entered == IF node.kind = "syscall" THEN [saved EXCEPT !.ctx = 0]
                   ELSE enter_context(saved, callee)
    IN  IF callee = NoDigest THEN [st EXCEPT !.status = "Internal"]
        ELSE IF node.kind = "syscall" /\ callee \notin kernel
          THEN [st EXCEPT !.status = "SyscallTargetNotInKernel"]
          ELSE finalize(push([st EXCEPT !.p = entered],
                             <<Continuation("FinishCall", id), StartNode(node.kids[1])>>),
                        st.forest, NoContinuation)

start_call_node(st, id) ==
    LET node == get_node_by_id(st.p, st.forest, id)
    IN  call_callee(start_cycle(st, StartNode(id)), id, node,
                    get_digest_by_id(st.p, st.forest, node.kids[1]))

leave_context(p) == OnSuccess(restore_context(p), restore_call_state)

finish_call_node(st, id) ==
    LET started == start_cycle(st, Continuation("FinishCall", id))
    IN  finalize([started EXCEPT !.p = leave_context(@)], st.forest, NoContinuation)

-----------------------------------------------------------------------------
(* Dyn and dyncall nodes.  A callee that the current forest does not have  *)
(* makes the loop return to its caller, which loads the forest.            *)

enter_dyncall(p, callee) == enter_context(save_call_state(start_context(p)), callee)

\* The processor has dropped the address and entered the callee's context.
call_dynamic(st, callee) ==
    LET root == find_procedure_root(st.p, st.forest, callee)
    IN  IF st.p.err # "none" THEN [st EXCEPT !.status = st.p.err]
        ELSE IF root # 0
          THEN finalize(push(st, <<StartNode(root)>>), st.forest, NoContinuation)
          ELSE [st EXCEPT !.brk = [NoBreak EXCEPT !.kind = "LoadFromDyn", !.digest = callee]]

start_dyn_node(st, id) ==
    LET node    == get_node_by_id(st.p, st.forest, id)
        read    == read_word(st.p, st.p.ctx, get(st.p, 0))
        entered == IF node.kind = "dyncall"
                     THEN enter_dyncall(decrement_size(read.p), read.value)
                     ELSE decrement_size(read.p)
    IN  call_dynamic(push([start_cycle(st, StartNode(id))
                             EXCEPT !.p = entered,
                                    !.t = record_memory_read_word(@, read.value)],
                          <<Continuation("FinishDyn", id)>>),
                     read.value)

\* The DYN cycle ends in the forest it started in; the resolution is recorded
\* after it, and only if the stopper lets execution go on.
finish_load_mast_forest_from_dyn_start(st, loaded) ==
    LET entered == push([st EXCEPT !.p = loaded.p, !.forest = loaded.forest, !.brk = NoBreak],
                        <<EnterForest(st.forest), StartNode(loaded.root)>>)
    IN  IfRunning(finalize(entered, st.forest, NoContinuation),
                  LAMBDA ended : [ended EXCEPT !.t =
                      record_mast_forest_resolution(@, loaded.root, loaded.forest)])

finish_dyn_node(st, id) ==
    LET node    == get_node_by_id(st.p, st.forest, id)
        started == start_cycle(st, Continuation("FinishDyn", id))
    IN  finalize([started EXCEPT !.p = IF node.kind = "dyncall" THEN leave_context(@) ELSE @],
                 st.forest, NoContinuation)

-----------------------------------------------------------------------------
(* External nodes take no clock cycle.                                     *)

execute_external_node(st, id) ==
    LET node == get_node_by_id(st.p, st.forest, id)
    IN  [st EXCEPT !.t = record_external_node_entered(@, id, st.forest),
                   !.brk = [NoBreak EXCEPT !.kind = "LoadFromExternal", !.node = id,
                                           !.digest = node.digest]]

finish_load_mast_forest_from_external(st, loaded) ==
    LET resolved == get_node_by_id(st.p, loaded.forest, loaded.root)
    IN  IF resolved.kind = "none"
          THEN [st EXCEPT !.status = "Internal"]
        ELSE IF resolved.kind = "external"
          THEN [st EXCEPT !.status = "CircularExternalNode"]
        ELSE push([st EXCEPT !.p = loaded.p, !.forest = loaded.forest, !.brk = NoBreak,
                     !.t = record_mast_forest_resolution(@, loaded.root, loaded.forest)],
                  <<EnterForest(st.forest), StartNode(loaded.root)>>)

-----------------------------------------------------------------------------
(* Operations, as far as the loop, the stack, the memory and the advice    *)
(* provider can tell them apart.  Each returns the processor after it; a   *)
(* method that fails has left its error there.                             *)

\* PUSH, DUP0, SDEPTH, CLK: the stack grows by one and value becomes its top.
push_value(p, value) == OnSuccess(increment_size(p), LAMBDA q : set(q, 0, value))

op_add(p) == set(decrement_size(p), 0, get(p, 1) + get(p, 0))

op_swap(p) == set(set(p, 0, get(p, 1)), 1, get(p, 0))

op_assert(p) ==
    IF get(p, 0) # ONE THEN [p EXCEPT !.err = "FailedAssertion"] ELSE decrement_size(p)

op_mstore(p) == write_element(decrement_size(p), p.ctx, get(p, 0), get(p, 1))

op_mload(st) ==
    LET read == read_element(st.p, st.p.ctx, get(st.p, 0))
    IN  [st EXCEPT !.p = set(read.p, 0, read.value),
                   !.t = record_memory_read_element(@, read.value)]

op_advpop(st) ==
    LET popped == pop_stack(st.p)
    IN  [st EXCEPT !.p = OnSuccess(popped.p, LAMBDA q : push_value(q, popped.value)),
                   !.t = record_advice_pop_stack(@, popped.value)]

execute_op(st, op) ==
    LET p == st.p
    IN  CASE op.name = "mload"  -> op_mload(st)
          [] op.name = "advpop" -> op_advpop(st)
          [] OTHER -> [st EXCEPT !.p =
               CASE op.name = "push"   -> push_value(p, op.imm)
                 [] op.name = "dup"    -> push_value(p, get(p, 0))
                 [] op.name = "sdepth" -> push_value(p, depth(p))
                 [] op.name = "clk"    -> push_value(p, p.clk)
                 [] op.name = "caller" -> set(p, 0, p.caller_hash)
                 [] op.name = "drop"   -> decrement_size(p)
                 [] op.name = "add"    -> op_add(p)
                 [] op.name = "swap"   -> op_swap(p)
                 [] op.name = "assert" -> op_assert(p)
                 [] op.name = "mstore" -> op_mstore(p)
                 [] OTHER -> p]        \* NOOP

-----------------------------------------------------------------------------
(* Basic blocks: SPAN, the operations of each batch, a RESPAN before every *)
(* batch but the first, END.                                               *)

\* Where the loops over batches and operations go after operation op.
next_in_block(node, id, batch, op) ==
    IF op < Len(node.batches[batch]) THEN ResumeBasicBlock(id, batch, op + 1)
    ELSE IF batch < Len(node.batches) THEN Respan(id, batch + 1)
    ELSE FinishBasicBlock(id)

\* Mutant: the RESPAN of the next batch is skipped.
continuation_without_respan(node, id, batch, op) ==
    IF op < Len(node.batches[batch]) THEN ResumeBasicBlock(id, batch, op + 1)
    ELSE IF batch < Len(node.batches) THEN ResumeBasicBlock(id, batch + 1, 1)
    ELSE FinishBasicBlock(id)

\* Where a stop after operation op says that execution resumes.
get_continuation_after_executing_operation(node, id, batch, op) ==
    IF op < Len(node.batches[batch]) THEN ResumeBasicBlock(id, batch, op + 1)
    ELSE IF batch < Len(node.batches) THEN Respan(id, batch + 1)
    ELSE FinishBasicBlock(id)

start_basic_block(st, id) ==
    LET first == ResumeBasicBlock(id, 1, 1)
    IN  go_on(finalize(start_cycle(st, StartNode(id)), st.forest, first), first)

respan(st, id, batch) ==
    LET first == ResumeBasicBlock(id, batch, 1)
    IN  go_on(finalize(start_cycle(st, Respan(id, batch)), st.forest, first), first)

\* EMIT returns to the caller of the loop, every other operation runs at once.
execute_operation(st, id, batch, op) ==
    LET node    == get_node_by_id(st.p, st.forest, id)
        code    == node.batches[batch][op]
        started == start_cycle(st, ResumeBasicBlock(id, batch, op))
        after   == get_continuation_after_executing_operation(node, id, batch, op)
    IN  IF code.name = "emit"
          THEN [started EXCEPT !.brk = [NoBreak EXCEPT !.kind = "Emit", !.cont = after]]
          ELSE go_on(finalize(execute_op(started, code), st.forest, after),
                     next_in_block(node, id, batch, op))

\* Mutant: a stop at an EMIT is not passed on.
finish_emit_without_stop(st, p) ==
    LET ended == finalize([st EXCEPT !.p = p, !.brk = NoBreak], st.forest, st.brk.cont)
    IN  IF ended.status \in {"running", "stopped"}
          THEN [ended EXCEPT !.cs = Append(st.cs, st.brk.cont), !.status = "running"]
          ELSE ended

\* Only if the stopper did not stop is the continuation pushed here: a stop
\* has already pushed it.
finish_emit_op_execution(st, p) ==
    IfRunning(finalize([st EXCEPT !.p = p, !.brk = NoBreak], st.forest, st.brk.cont),
              LAMBDA ended : push(ended, <<st.brk.cont>>))
=============================================================================
