---------------------------- MODULE FastProcessor ---------------------------
(***************************************************************************)
(* FastProcessor, which runs a program: system registers, operand stack,   *)
(* memory, advice stack and saved call states, and its two stoppers.       *)
(*                                                                         *)
(* The operand stack is the sequence OperandStack specifies, bottom first: *)
(* module StackBuffer shows that the code's buffer implements it.  hidden  *)
(* holds the overflow of every suspended context.                          *)
(***************************************************************************)
EXTENDS MastForest, Functions

CONSTANTS
    Forests,            \* the forests of the program and of the host's libraries
    MIN_STACK_DEPTH,
    MaxStackDepth,      \* ExecutionOptions: max_stack_depth
    MaxCycles,          \* ExecutionOptions: max_cycles
    MaxContinuations,   \* ExecutionOptions: max_num_continuations
    MaxMemory,          \* most memory words that may be written, in all contexts
    MaxAdvice,          \* advice budget, in elements of the advice stack
    Library,            \* the host's libraries: digest -> id of a forest
    EventAdvice         \* the host's event handlers: event -> advice it pushes

new_processor(inputs, advice) ==
    [clk |-> 0, ctx |-> 0, caller_hash |-> ZERO, stk |-> inputs, hidden |-> <<>>,
     calls |-> <<>>, mem |-> <<>>, advice |-> advice, err |-> "none"]

Overflow(p) == SubSeq(p.stk, 1, Len(p.stk) - MIN_STACK_DEPTH)

Top(p) == SubSeq(p.stk, Len(p.stk) - MIN_STACK_DEPTH + 1, Len(p.stk))

-----------------------------------------------------------------------------
(* The stack.                                                              *)

get(p, idx) == p.stk[Len(p.stk) - idx]

set(p, idx, value) == [p EXCEPT !.stk[Len(p.stk) - idx] = value]

depth(p) == Len(p.stk)

SavedDepth(p) == FoldFunction(LAMBDA saved, sum : Len(saved) + sum, 0, p.hidden)

increment_size(p) ==
    IF depth(p) + SavedDepth(p) + 1 > MaxStackDepth
      THEN [p EXCEPT !.err = "StackDepthLimitExceeded"]
      ELSE [p EXCEPT !.stk = Append(@, ZERO)]       \* the caller sets the new top

decrement_size(p) ==
    [p EXCEPT !.stk = IF Len(@) > MIN_STACK_DEPTH THEN pop(@) ELSE <<ZERO>> \o pop(@)]

start_context(p) ==
    [p EXCEPT !.hidden = Append(@, Overflow(p)), !.stk = Top(p)]

restore_context(p) ==
    IF depth(p) > MIN_STACK_DEPTH THEN [p EXCEPT !.err = "InvalidStackDepthOnReturn"]
    ELSE [p EXCEPT !.stk = peek(p.hidden) \o @, !.hidden = pop(@)]

-----------------------------------------------------------------------------
(* System registers, memory and advice.                                    *)

save_call_state(p) ==
    [p EXCEPT !.calls = Append(@, [ctx |-> p.ctx, caller_hash |-> p.caller_hash])]

restore_call_state(p) ==
    IF p.calls = <<>> THEN [p EXCEPT !.err = "Internal"]
    ELSE [p EXCEPT !.ctx = peek(p.calls).ctx, !.caller_hash = peek(p.calls).caller_hash,
                   !.calls = pop(@)]

\* Memory is zero until written, and each context has its own.
read_element(p, ctx, addr) ==
    [p |-> p, value |-> IF <<ctx, addr>> \in DOMAIN p.mem THEN p.mem[<<ctx, addr>>] ELSE ZERO]

read_word(p, ctx, addr) == read_element(p, ctx, addr)

write_element(p, ctx, addr, value) ==
    IF <<ctx, addr>> \notin DOMAIN p.mem /\ Cardinality(DOMAIN p.mem) >= MaxMemory
    THEN [p EXCEPT !.err = "MemoryElementLimitExceeded"]
    ELSE [p EXCEPT !.mem = [loc \in DOMAIN p.mem \cup {<<ctx, addr>>} |->
                              IF loc = <<ctx, addr>> THEN value ELSE p.mem[loc]]]

pop_stack(p) ==
    IF p.advice = <<>> THEN [p |-> [p EXCEPT !.err = "AdviceStackReadFailed"], value |-> ZERO]
    ELSE [p |-> [p EXCEPT !.advice = Tail(@)], value |-> Head(p.advice)]

-----------------------------------------------------------------------------
(* Forests and the host.                                                   *)

get_node_by_id(p, forest, id) ==
    IF id \in DOMAIN Forests[forest].nodes THEN Forests[forest].nodes[id] ELSE NoNode

get_digest_by_id(p, forest, id) == Forests[forest].nodes[id].digest

find_procedure_root(p, forest, digest) ==
    FirstRoot(Forests[forest], digest, DOMAIN Forests[forest].nodes)

\* The host's handler of the event on top of the stack pushes its advice.
handle_emit(p) ==
    LET event == get(p, 0)
    IN  IF event \notin DOMAIN EventAdvice THEN [p EXCEPT !.err = "EventError"]
        ELSE IF Len(EventAdvice[event]) + Len(p.advice) > MaxAdvice
          THEN [p EXCEPT !.err = "SizeBudgetExceeded"]
        ELSE [p EXCEPT !.advice = EventAdvice[event] \o @]

load_mast_forest(p, digest) ==
    LET forest == IF digest \in DOMAIN Library THEN Library[digest] ELSE 0
        root   == IF forest = 0 THEN 0 ELSE find_procedure_root(p, forest, digest)
        err    == IF forest = 0 THEN "ProcedureNotFound"
                  ELSE IF root = 0 THEN "MalformedMastForestInHost" ELSE "none"
    IN  [p |-> [p EXCEPT !.err = err], root |-> root, forest |-> forest]

check_outputs(p) ==
    IF depth(p) > MIN_STACK_DEPTH THEN [p EXCEPT !.err = "OutputStackOverflow"] ELSE p

\* Mutant: the limits do not hold while stepping.
should_stop_unlimited(stopper, p, cs) ==
    IF stopper = "StepStopper" THEN "stopped"
    ELSE IF p.clk > MaxCycles THEN "CycleLimitExceeded"
    ELSE IF Len(cs) > MaxContinuations THEN "ContinuationStackTooLarge"
    ELSE "continue"

\* NeverStopper and StepStopper: both stop at a limit, one also after a cycle.
should_stop(stopper, p, cs) ==
    IF p.clk > MaxCycles THEN "CycleLimitExceeded"
    ELSE IF Len(cs) > MaxContinuations THEN "ContinuationStackTooLarge"
    ELSE IF stopper = "StepStopper" THEN "stopped" ELSE "continue"
=============================================================================
