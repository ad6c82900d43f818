---------------------------- MODULE ExecutionLoop ---------------------------
(***************************************************************************)
(* execute_impl: the loop that pops a continuation and runs its handler,   *)
(* with one action per continuation it pops and per reason for which it    *)
(* returned to its caller.  The handlers are those of Execution, s is the  *)
(* state they work on.                                                     *)
(***************************************************************************)
CONSTANTS
    peek(_), pop(_), NoContinuation,   \* of MastForest
    \* the handlers
    start_join_node(_, _), start_split_node(_, _), start_loop_node(_, _),
    start_call_node(_, _), start_dyn_node(_, _), execute_external_node(_, _),
    start_basic_block(_, _), respan(_, _, _), execute_operation(_, _, _, _),
    finish_node(_, _), finish_loop_node(_, _), finish_call_node(_, _), finish_dyn_node(_, _),
    finish_emit_op_execution(_, _), finish_load_mast_forest_from_dyn_start(_, _),
    finish_load_mast_forest_from_external(_, _),
    \* the processor and its host
    get_node_by_id(_, _, _), handle_emit(_), load_mast_forest(_, _), check_outputs(_)

VARIABLE s

Running == s.status = "running" /\ s.brk.kind = "none"

InBlock == s.cursor # NoContinuation

Pending == InBlock \/ s.cs # <<>>

Current == IF InBlock THEN s.cursor ELSE peek(s.cs)

\* The state once the current continuation is popped, or the cursor read.
Popped == [s EXCEPT !.cursor = NoContinuation, !.cs = IF InBlock THEN @ ELSE pop(@)]

At(kind) == Running /\ Pending /\ Current.kind = kind

AtNode(kinds) ==
    /\ At("StartNode")
    /\ get_node_by_id(s.p, s.forest, Current.node).kind \in kinds

StartJoin == AtNode({"join"}) /\ s' = start_join_node(Popped, Current.node)

StartSplit == AtNode({"split"}) /\ s' = start_split_node(Popped, Current.node)

StartLoop == AtNode({"loop"}) /\ s' = start_loop_node(Popped, Current.node)

StartCall == AtNode({"call", "syscall"}) /\ s' = start_call_node(Popped, Current.node)

StartDyn == AtNode({"dyn", "dyncall"}) /\ s' = start_dyn_node(Popped, Current.node)

EnterExternal == AtNode({"external"}) /\ s' = execute_external_node(Popped, Current.node)

StartBasicBlock == AtNode({"block"}) /\ s' = start_basic_block(Popped, Current.node)

FinishNode ==
    \E kind \in {"FinishJoin", "FinishSplit", "FinishBasicBlock"} :
        At(kind) /\ s' = finish_node(Popped, Current)

FinishLoop == At("FinishLoop") /\ s' = finish_loop_node(Popped, Current.node)

FinishCall == At("FinishCall") /\ s' = finish_call_node(Popped, Current.node)

FinishDyn == At("FinishDyn") /\ s' = finish_dyn_node(Popped, Current.node)

ExecuteOp ==
    /\ At("ResumeBasicBlock")
    /\ s' = execute_operation(Popped, Current.node, Current.batch, Current.op)

StartBatch == At("Respan") /\ s' = respan(Popped, Current.node, Current.batch)

\* Mutant: the continuation is looked at and not popped.
LeaveForestPeek == At("EnterForest") /\ s' = [s EXCEPT !.forest = Current.forest]

LeaveForest == At("EnterForest") /\ s' = [Popped EXCEPT !.forest = Current.forest]

Broken(kind) == s.status = "running" /\ s.brk.kind = kind

HandleEmit == Broken("Emit") /\ s' = finish_emit_op_execution(s, handle_emit(s.p))

\* A forest that cannot be loaded ends execution with the error.
LoadFrom(kind, finish(_, _)) ==
    LET loaded == load_mast_forest(s.p, s.brk.digest)
    IN  /\ Broken(kind)
        /\ s' = IF loaded.p.err # "none" THEN [s EXCEPT !.status = loaded.p.err]
                ELSE finish(s, loaded)

LoadFromDyn == LoadFrom("LoadFromDyn", finish_load_mast_forest_from_dyn_start)

LoadFromExternal == LoadFrom("LoadFromExternal", finish_load_mast_forest_from_external)

\* The continuation stack is empty: the program has ended.
Return ==
    /\ Running
    /\ ~Pending
    /\ LET p == check_outputs(s.p)
       IN  s' = [s EXCEPT !.status = IF p.err = "none" THEN "ended" ELSE p.err]

Next ==
    \/ StartJoin \/ StartSplit \/ StartLoop \/ StartCall \/ StartDyn
    \/ EnterExternal \/ StartBasicBlock
    \/ FinishNode \/ FinishLoop \/ FinishCall \/ FinishDyn
    \/ ExecuteOp \/ StartBatch \/ LeaveForest
    \/ HandleEmit \/ LoadFromDyn \/ LoadFromExternal
    \/ Return
=============================================================================
