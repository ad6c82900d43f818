------------------------- MODULE StepExecutionProofs ------------------------
(***************************************************************************)
(* What the handlers of the execution loop do to the loop's state when     *)
(* StepStopper runs them, compared with what they do under NeverStopper:   *)
(* the lemmas module SteppingProofs rests on.  And which contexts they     *)
(* enter, under either stopper.                                            *)
(***************************************************************************)
EXTENDS StepExecution, TLAPS

\* What execution may fail with.
Errors ==
    {"StackDepthLimitExceeded", "InvalidStackDepthOnReturn", "Internal",
     "MemoryElementLimitExceeded", "AdviceStackReadFailed", "EventError", "SizeBudgetExceeded",
     "ProcedureNotFound", "MalformedMastForestInHost", "OutputStackOverflow",
     "CycleLimitExceeded", "ContinuationStackTooLarge", "NotBinaryValue",
     "SyscallTargetNotInKernel", "CircularExternalNode", "FailedAssertion"}

\* A processor between two methods.
IsProcessor(p) ==
    /\ DOMAIN p = {"clk", "ctx", "caller_hash", "stk", "hidden", "calls", "mem", "advice", "err"}
    /\ p.clk \in Nat
    /\ p.err \in Errors \cup {"none"}

\* q is the processor after a method of p that is no end of a clock cycle.
Kept(p, q) == IsProcessor(q) /\ q.clk = p.clk

Fields == {"p", "t", "stopper", "cs", "forest", "cursor", "brk", "status"}

\* A sequence, whatever its elements.
IsSeq(seq) == \E S : seq \in Seq(S)

\* A state of the loop, under the tracer that records nothing.
IsState(st) ==
    /\ st = [x \in Fields |-> st[x]]
    /\ IsProcessor(st.p)
    /\ st.t = NoopTracer
    /\ IsSeq(st.cs)

----------------------------------------------------------------------------
(* The processor                                                           *)

\* No method of the processor moves the clock.
LEMMA SetKept ==
    ASSUME NEW p, IsProcessor(p), NEW i, NEW v
    PROVE  Kept(p, set(p, i, v))
BY DEF Kept, IsProcessor, set

\* decrement_size drops a cell and keeps the clock.
LEMMA DecrementKept ==
    ASSUME NEW p, IsProcessor(p)
    PROVE  Kept(p, decrement_size(p))
BY DEF Kept, IsProcessor, decrement_size

\* increment_size adds a cell, or fails at the depth limit, and keeps the clock.
LEMMA IncrementKept ==
    ASSUME NEW p, IsProcessor(p)
    PROVE  Kept(p, increment_size(p))
BY DEF Kept, IsProcessor, increment_size, Errors

\* A write to memory, or its failure at the element limit, keeps the clock.
LEMMA WriteKept ==
    ASSUME NEW p, IsProcessor(p), NEW ctx, NEW addr, NEW v
    PROVE  Kept(p, write_element(p, ctx, addr, v))
BY DEF Kept, IsProcessor, write_element, Errors

\* A read from memory keeps the clock.
LEMMA ReadKept ==
    ASSUME NEW p, IsProcessor(p), NEW ctx, NEW addr
    PROVE  Kept(p, read_element(p, ctx, addr).p) /\ Kept(p, read_word(p, ctx, addr).p)
BY DEF Kept, read_element, read_word

\* Popping the advice stack, or finding it empty, keeps the clock.
LEMMA PopKept ==
    ASSUME NEW p, IsProcessor(p)
    PROVE  Kept(p, pop_stack(p).p)
BY DEF Kept, IsProcessor, pop_stack, Errors

\* start_context keeps the clock.
LEMMA StartContextKept ==
    ASSUME NEW p, IsProcessor(p)
    PROVE  Kept(p, start_context(p))
BY DEF Kept, IsProcessor, start_context

\* restore_context, or its failure on a wrong depth, keeps the clock.
LEMMA RestoreContextKept ==
    ASSUME NEW p, IsProcessor(p)
    PROVE  Kept(p, restore_context(p))
BY DEF Kept, IsProcessor, restore_context, Errors

\* save_call_state keeps the clock.
LEMMA SaveCallKept ==
    ASSUME NEW p, IsProcessor(p)
    PROVE  Kept(p, save_call_state(p))
BY DEF Kept, IsProcessor, save_call_state

\* restore_call_state, or its failure without a saved call, keeps the clock.
LEMMA RestoreCallKept ==
    ASSUME NEW p, IsProcessor(p)
    PROVE  Kept(p, restore_call_state(p))
BY DEF Kept, IsProcessor, restore_call_state, Errors

\* An event handler of the host keeps the clock, whether it succeeds or fails.
LEMMA EmitKept ==
    ASSUME NEW p, IsProcessor(p)
    PROVE  Kept(p, handle_emit(p))
BY DEF Kept, IsProcessor, handle_emit, Errors

\* Loading a forest from the host keeps the clock, whether it succeeds or fails.
LEMMA LoadKept ==
    ASSUME NEW p, IsProcessor(p), NEW digest
    PROVE  Kept(p, load_mast_forest(p, digest).p)
BY DEF Kept, IsProcessor, load_mast_forest, Errors

\* The check of the output stack keeps the clock.
LEMMA OutputsKept ==
    ASSUME NEW p, IsProcessor(p)
    PROVE  Kept(p, check_outputs(p))
BY DEF Kept, IsProcessor, check_outputs, Errors

\* Two methods in a row keep the clock.
LEMMA KeptTransitive ==
    ASSUME NEW p, NEW q, NEW r, Kept(p, q), Kept(q, r)
    PROVE  Kept(p, r)
BY DEF Kept

\* enter_context keeps the clock.
LEMMA EnterContextKept ==
    ASSUME NEW p, IsProcessor(p), NEW callee
    PROVE  Kept(p, enter_context(p, callee))
<1> DEFINE ctx == get_next_ctx_id(p)
           q == [p EXCEPT !.ctx = ctx, !.caller_hash = callee]
<1>1. Kept(p, q)
  BY DEF Kept, IsProcessor
<1> HIDE DEF q, ctx
<1>2. Kept(q, write_element(q, ctx, FMP_ADDR, FMP_INIT_VALUE))
  BY <1>1, WriteKept DEF Kept
<1> QED
  BY <1>1, <1>2, KeptTransitive DEF enter_context, q, ctx

\* leave_context keeps the clock.
LEMMA LeaveContextKept ==
    ASSUME NEW p, IsProcessor(p)
    PROVE  Kept(p, leave_context(p))
<1> DEFINE q == restore_context(p)
<1>1. Kept(p, q)
  BY RestoreContextKept
<1> HIDE DEF q
<1>2. Kept(p, restore_call_state(q))
  BY <1>1, RestoreCallKept, KeptTransitive DEF Kept
<1> QED
  BY <1>1, <1>2 DEF leave_context, OnSuccess, q

\* Pushing a value keeps the clock.
LEMMA PushValueKept ==
    ASSUME NEW p, IsProcessor(p), NEW value
    PROVE  Kept(p, push_value(p, value))
<1> DEFINE q == increment_size(p)
<1>1. Kept(p, q)
  BY IncrementKept
<1> HIDE DEF q
<1>2. Kept(p, set(q, 0, value))
  BY <1>1, SetKept, KeptTransitive DEF Kept
<1> QED
  BY <1>1, <1>2 DEF push_value, OnSuccess, q

-----------------------------------------------------------------------------
(* The clock cycle                                                         *)

\* The same state under NeverStopper.
Never(st) == [st EXCEPT !.stopper = "NeverStopper"]

\* The loop after a method of the processor.
WithP(st, p) == [st EXCEPT !.p = p]

\* The loop has popped a continuation, or read its cursor, and runs a handler.
Ready(st) ==
    /\ IsState(st)
    /\ st.stopper = "StepStopper"
    /\ st.status = "running"
    /\ st.cursor = NoContinuation

\* Two states of the loop with the same fields are the same state.
LEMMA StateExtensional ==
    ASSUME NEW a, NEW b, a = [x \in Fields |-> a[x]], b = [x \in Fields |-> b[x]],
           a.p = b.p, a.t = b.t, a.stopper = b.stopper, a.cs = b.cs, a.forest = b.forest,
           a.cursor = b.cursor, a.brk = b.brk, a.status = b.status
    PROVE  a = b
BY DEF Fields

\* Only the stopper differs between a state and its twin under NeverStopper.
LEMMA NeverState ==
    ASSUME NEW st, IsState(st)
    PROVE  /\ IsState(Never(st))
           /\ Never(st).p = st.p /\ Never(st).t = st.t /\ Never(st).cs = st.cs
           /\ Never(st).forest = st.forest /\ Never(st).cursor = st.cursor
           /\ Never(st).brk = st.brk /\ Never(st).status = st.status
           /\ Never(st).stopper = "NeverStopper"
BY DEF IsState, Fields, Never

\* Starting a clock cycle does nothing under the tracer that records nothing.
LEMMA StartCycle ==
    ASSUME NEW st, IsState(st), NEW cont
    PROVE  start_cycle(st, cont) = st
BY DEF start_cycle, start_clock_cycle, IsState, Fields

\* A method of the processor leaves the loop ready to go on with its handler.
LEMMA SetProcessor ==
    ASSUME NEW st, Ready(st), NEW p, Kept(st.p, p)
    PROVE  /\ Ready(WithP(st, p)) /\ WithP(st, p).p = p /\ WithP(st, p).brk = st.brk
           /\ WithP(st, p).forest = st.forest /\ WithP(st, p).cs = st.cs
           /\ WithP(Never(st), p) = Never(WithP(st, p))
BY Zenon DEF Ready, WithP, Never, IsState, Fields, Kept

\* Concatenating sequences gives a sequence.
LEMMA SeqConcat ==
    ASSUME NEW a, NEW b, IsSeq(a), IsSeq(b)
    PROVE  IsSeq(a \o b)
<1>1. PICK S, T : a \in Seq(S) /\ b \in Seq(T)
  BY DEF IsSeq
<1>2. a \in Seq(S \cup T) /\ b \in Seq(S \cup T)
  BY <1>1
<1> QED
  BY <1>2 DEF IsSeq

\* Appending to a sequence gives a sequence, the concatenation with one element.
LEMMA SeqAppend ==
    ASSUME NEW a, NEW c, IsSeq(a)
    PROVE  IsSeq(Append(a, c)) /\ a \o <<c>> = Append(a, c)
<1>1. PICK S : a \in Seq(S)
  BY DEF IsSeq
<1>2. a \in Seq(S \cup {c})
  BY <1>1
<1> QED
  BY <1>2 DEF IsSeq

\* Pushing continuations changes nothing but the continuation stack.
LEMMA PushState ==
    ASSUME NEW st, Ready(st), NEW conts, IsSeq(conts)
    PROVE  /\ Ready(push(st, conts)) /\ push(st, conts).p = st.p
           /\ push(st, conts).brk = st.brk /\ push(st, conts).forest = st.forest
           /\ push(st, conts).cs = st.cs \o conts
           /\ push(Never(st), conts) = Never(push(st, conts))
BY SeqConcat, Zenon DEF Ready, push, Never, IsState, Fields

\* The methods behind the operations of a basic block keep the clock.
LEMMA OpMethodKept ==
    ASSUME NEW p, IsProcessor(p), NEW op
    PROVE  /\ Kept(p, push_value(p, op.imm)) /\ Kept(p, push_value(p, get(p, 0)))
           /\ Kept(p, push_value(p, depth(p))) /\ Kept(p, push_value(p, p.clk))
           /\ Kept(p, set(p, 0, p.caller_hash)) /\ Kept(p, decrement_size(p))
           /\ Kept(p, op_add(p)) /\ Kept(p, op_swap(p)) /\ Kept(p, op_assert(p))
           /\ Kept(p, op_mstore(p)) /\ Kept(p, p)
<1>1. Kept(p, decrement_size(p)) /\ IsProcessor(decrement_size(p))
  BY DecrementKept DEF Kept
<1>2. Kept(p, op_add(p))
  BY <1>1, SetKept, KeptTransitive DEF op_add
<1>3. Kept(p, set(p, 0, get(p, 1))) /\ IsProcessor(set(p, 0, get(p, 1)))
  BY SetKept DEF Kept
<1>4. Kept(p, op_swap(p))
  BY <1>3, SetKept, KeptTransitive DEF op_swap
<1>5. Kept(p, [p EXCEPT !.err = "FailedAssertion"])
  BY DEF Kept, IsProcessor, Errors
<1>6. Kept(p, op_assert(p))
  BY <1>1, <1>5 DEF op_assert
<1>7. Kept(p, op_mstore(p))
  BY <1>1, WriteKept, KeptTransitive DEF op_mstore
<1>8. Kept(p, p)
  BY DEF Kept
<1> QED
  BY <1>1, <1>2, <1>4, <1>6, <1>7, <1>8, PushValueKept, SetKept

\* An operation changes nothing but the processor, and not its clock; the
\* stopper has no part in it.
LEMMA OpState ==
    ASSUME NEW st, Ready(st), NEW op
    PROVE  /\ Ready(execute_op(st, op)) /\ Kept(st.p, execute_op(st, op).p)
           /\ execute_op(st, op).brk = st.brk /\ execute_op(st, op).forest = st.forest
           /\ execute_op(st, op).cs = st.cs
           /\ execute_op(Never(st), op) = Never(execute_op(st, op))
<1>0. /\ IsProcessor(st.p) /\ IsState(st) /\ IsState(Never(st)) /\ Never(st).p = st.p
  BY NeverState DEF Ready, IsState
<1> DEFINE Result(p) == /\ Kept(st.p, p)
                        /\ execute_op(st, op) = WithP(st, p)
                        /\ execute_op(Never(st), op) = WithP(Never(st), p)
<1>1. ASSUME op.name = "mload"
      PROVE  \E p : Result(p)
  <2> DEFINE read == read_element(st.p, st.p.ctx, get(st.p, 0))
             q    == set(read.p, 0, read.value)
  <2>1. Kept(st.p, read.p)
    BY <1>0, ReadKept
  <2>2. Kept(st.p, q)
    BY <2>1, SetKept, KeptTransitive DEF Kept
  <2>3. op_mload(st) = WithP(st, q) /\ op_mload(Never(st)) = WithP(Never(st), q)
    BY <1>0, Zenon DEF op_mload, WithP, IsState, Fields, record_memory_read_element
  <2>4. execute_op(st, op) = op_mload(st) /\ execute_op(Never(st), op) = op_mload(Never(st))
    BY <1>1 DEF execute_op
  <2> QED
    BY <2>2, <2>3, <2>4
<1>2. ASSUME op.name = "advpop"
      PROVE  \E p : Result(p)
  <2> DEFINE popped == pop_stack(st.p)
             pushed == push_value(popped.p, popped.value)
             q == IF popped.p.err = "none" THEN pushed ELSE popped.p
  <2>1. Kept(st.p, popped.p)
    BY <1>0, PopKept
  <2>2. Kept(st.p, pushed)
    BY <2>1, PushValueKept, KeptTransitive DEF Kept
  <2>3. op_advpop(st) = WithP(st, q) /\ op_advpop(Never(st)) = WithP(Never(st), q)
    BY <1>0, Zenon DEF op_advpop, WithP, IsState, Fields, record_advice_pop_stack, OnSuccess
  <2>4. execute_op(st, op) = op_advpop(st) /\ execute_op(Never(st), op) = op_advpop(Never(st))
    BY <1>2 DEF execute_op
  <2> QED
    BY <2>1, <2>2, <2>3, <2>4
<1>3. ASSUME op.name # "mload", op.name # "advpop"
      PROVE  \E p : Result(p)
  <2> DEFINE M(p) == CASE op.name = "push"   -> push_value(p, op.imm)
                       [] op.name = "dup"    -> push_value(p, get(p, 0))
                       [] op.name = "sdepth" -> push_value(p, depth(p))
                       [] op.name = "clk"    -> push_value(p, p.clk)
                       [] op.name = "caller" -> set(p, 0, p.caller_hash)
                       [] op.name = "drop"   -> decrement_size(p)
                       [] op.name = "add"    -> op_add(p)
                       [] op.name = "swap"   -> op_swap(p)
                       [] op.name = "assert" -> op_assert(p)
                       [] op.name = "mstore" -> op_mstore(p)
                       [] OTHER -> p
  <2>1. execute_op(st, op) = WithP(st, M(st.p))
        /\ execute_op(Never(st), op) = WithP(Never(st), M(Never(st).p))
    BY <1>3 DEF execute_op, WithP
  <2>2. Kept(st.p, M(st.p))
    BY <1>0, OpMethodKept
  <2> QED
    BY <1>0, <2>1, <2>2
<1>4. PICK p : Result(p)
  BY <1>1, <1>2, <1>3
<1> QED
  BY <1>4, SetProcessor

\* The processor one clock cycle later.
Tick(p) == [p EXCEPT !.clk = @ + 1]

\* What the end of a cycle that began to end in st leaves: r under StepStopper
\* and q under NeverStopper.  They fail alike, or one stops, with cont on its
\* continuation stack, where the other goes on.
CycleEnd(st, cont, r, q) ==
    \/ IsState(r) /\ r.status \in Errors /\ q = Never(r)
    \/ /\ IsState(r) /\ r.status = "stopped" /\ r.stopper = "StepStopper"
       /\ r.cursor = NoContinuation /\ r.brk = st.brk /\ r.forest = st.forest
       /\ r.p = Tick(st.p)
       /\ r.cs = IF cont = NoContinuation THEN st.cs ELSE Append(st.cs, cont)
       /\ IsState(q) /\ q.status = "running" /\ q.stopper = "NeverStopper"
       /\ q.cursor = NoContinuation /\ q.brk = st.brk /\ q.forest = st.forest
       /\ q.p = Tick(st.p)
       /\ q.cs = st.cs

\* A failing handler leaves the two loops alike.
LEMMA Failed ==
    ASSUME NEW st, IsState(st), NEW error, error \in Errors
    PROVE  /\ IsState([st EXCEPT !.status = error])
           /\ [st EXCEPT !.status = error].status = error
           /\ [Never(st) EXCEPT !.status = error] = Never([st EXCEPT !.status = error])
BY Zenon DEF IsState, Fields, Never

\* At the end of a clock cycle StepStopper stops where NeverStopper goes on.
LEMMA StopOrGo ==
    ASSUME NEW st, Ready(st), NEW cont
    PROVE  LET r == stop_or_go(st, cont)
               q == stop_or_go(Never(st), cont)
           IN  \/ IsState(r) /\ r.status \in Errors /\ q = Never(r)
               \/ /\ IsState(r) /\ r.status = "stopped" /\ r.stopper = "StepStopper"
                  /\ r.cursor = NoContinuation /\ r.brk = st.brk /\ r.forest = st.forest
                  /\ r.p = st.p
                  /\ r.cs = IF cont = NoContinuation THEN st.cs ELSE Append(st.cs, cont)
                  /\ IsState(q) /\ q.status = "running" /\ q.stopper = "NeverStopper"
                  /\ q.cursor = NoContinuation /\ q.brk = st.brk /\ q.forest = st.forest
                  /\ q.p = st.p
                  /\ q.cs = st.cs
<1> DEFINE r == stop_or_go(st, cont)
           q == stop_or_go(Never(st), cont)
           v == should_stop("StepStopper", st.p, st.cs)
<1>0. /\ IsState(st) /\ IsState(Never(st)) /\ st.stopper = "StepStopper" 
      /\ st.cursor = NoContinuation
      /\ Never(st).p = st.p /\ Never(st).t = st.t /\ Never(st).cs = st.cs
      /\ Never(st).forest = st.forest /\ Never(st).cursor = st.cursor
      /\ Never(st).brk = st.brk /\ Never(st).status = st.status
      /\ Never(st).stopper = "NeverStopper"
  BY NeverState DEF Ready
<1>1. ASSUME v # "stopped"
      PROVE  IsState(r) /\ r.status \in Errors /\ q = Never(r)
  <2>1. v \in Errors /\ v # "continue" /\ should_stop("NeverStopper", st.p, st.cs) = v
    BY <1>1 DEF should_stop, Errors
  <2>2. r = [st EXCEPT !.status = v] /\ q = [Never(st) EXCEPT !.status = v]
    BY <1>0, <1>1, <2>1, Zenon DEF stop_or_go, IsState, Fields
  <2> QED
    BY <1>0, <2>1, <2>2, Failed
<1>2. ASSUME v = "stopped"
      PROVE  /\ IsState(r) /\ r.status = "stopped" /\ r.stopper = "StepStopper"
             /\ r.cursor = NoContinuation /\ r.brk = st.brk /\ r.forest = st.forest
             /\ r.p = st.p
             /\ r.cs = IF cont = NoContinuation THEN st.cs ELSE Append(st.cs, cont)
  <2> DEFINE cs == IF cont = NoContinuation THEN st.cs ELSE Append(st.cs, cont)
  <2>1. IsSeq(cs)
    BY <1>0, SeqAppend DEF IsState
  <2>2. r = [st EXCEPT !.cs = cs, !.status = "stopped"]
    BY <1>0, <1>2, Zenon DEF stop_or_go, IsState, Fields
  <2> HIDE DEF cs, r
  <2>3. IsState(r) /\ r.cs = cs /\ r.status = "stopped" /\ r.stopper = st.stopper 
        /\ r.cursor = st.cursor /\ r.brk = st.brk /\ r.forest = st.forest /\ r.p = st.p
    BY <1>0, <2>1, <2>2, Zenon DEF IsState, Fields
  <2> QED
    BY <1>0, <2>3 DEF cs
<1>3. ASSUME v = "stopped"
      PROVE  /\ IsState(q) /\ q.status = "running" /\ q.stopper = "NeverStopper"
             /\ q.cursor = NoContinuation /\ q.brk = st.brk /\ q.forest = st.forest
             /\ q.p = st.p
             /\ q.cs = st.cs
  <2>1. should_stop("NeverStopper", st.p, st.cs) = "continue"
    BY <1>3 DEF should_stop
  <2>2. q = [Never(st) EXCEPT !.cs = st.cs, !.status = "running"]
    BY <1>0, <2>1, Zenon DEF stop_or_go, IsState, Fields
  <2> HIDE DEF q
  <2> QED
    BY <1>0, <2>2, Zenon DEF IsState, Fields
<1> HIDE DEF r, q, v
<1>4. CASE v = "stopped"
  BY <1>2, <1>3, <1>4 DEF r, q
<1>5. CASE v # "stopped"
  BY <1>1, <1>5 DEF r, q
<1> QED
  BY <1>4, <1>5

\* finalize ends a cycle alike for both stoppers, but for the stop.
LEMMA Finalize ==
    ASSUME NEW st, Ready(st), NEW forest, NEW cont
    PROVE  CycleEnd(st, cont, finalize(st, forest, cont), finalize(Never(st), forest, cont))
<1>0. /\ IsState(st) /\ IsState(Never(st)) /\ IsProcessor(st.p) /\ Never(st).p = st.p
      /\ st.t = NoopTracer /\ Never(st).t = NoopTracer
  BY NeverState DEF Ready, IsState
<1>1. CASE st.p.err # "none"
  <2>1. st.p.err \in Errors
    BY <1>0, <1>1 DEF IsProcessor
  <2>2. /\ finalize(st, forest, cont) = [st EXCEPT !.status = st.p.err]
        /\ finalize(Never(st), forest, cont) = [Never(st) EXCEPT !.status = st.p.err]
    BY <1>0, <1>1 DEF finalize
  <2> QED
    BY <1>0, <2>1, <2>2, Failed DEF CycleEnd
<1>2. CASE st.p.err = "none"
  <2> DEFINE ticked == WithP(st, Tick(st.p))
  <2>1. /\ [st EXCEPT !.t = finalize_clock_cycle(@, st.p, forest)] = st
        /\ [Never(st) EXCEPT !.t = finalize_clock_cycle(@, Never(st).p, forest)] = Never(st)
    BY <1>0 DEF IsState, Fields, finalize_clock_cycle
  <2>2. /\ finalize(st, forest, cont) = increment_clk(st, cont)
        /\ finalize(Never(st), forest, cont) = increment_clk(Never(st), cont)
    BY <1>0, <1>2, <2>1 DEF finalize
  <2>3. /\ [st EXCEPT !.p.clk = @ + 1] = ticked
        /\ [Never(st) EXCEPT !.p.clk = @ + 1] = WithP(Never(st), Tick(st.p))
    BY <1>0 DEF WithP, Tick, IsState, Fields
  <2>4. IsProcessor(Tick(st.p))
    BY <1>0 DEF Tick, IsProcessor
  <2>5. Ready(ticked) /\ WithP(Never(st), Tick(st.p)) = Never(ticked)
    BY <2>4, Zenon DEF Ready, WithP, Never, IsState, Fields
  <2>6. /\ ticked.p = Tick(st.p) /\ ticked.forest = st.forest /\ ticked.brk = st.brk
        /\ ticked.cs = st.cs
    BY <1>0 DEF WithP, IsState, Fields
  <2> HIDE DEF ticked
  <2>7. /\ increment_clk(st, cont) = stop_or_go(ticked, cont)
        /\ increment_clk(Never(st), cont) = stop_or_go(Never(ticked), cont)
    BY <1>0, <2>3, <2>5 DEF increment_clk, NoopTracer
  <2> QED
    BY <2>2, <2>5, <2>6, <2>7, StopOrGo DEF CycleEnd
<1> QED
  BY <1>1, <1>2

-----------------------------------------------------------------------------
(* The handlers                                                            *)

\* The states r and q that a handler leaves under StepStopper and under
\* NeverStopper, when it ran at clock clk.  They fail alike; or no cycle has
\* ended and they are the same; or one cycle has ended and StepStopper stopped
\* with all that is left to do on its continuation stack.
HandlerEnd(clk, r, q) ==
    \/ IsState(r) /\ r.status \in Errors \cup {"ended"} /\ q = Never(r)
    \/ /\ IsState(r) /\ r.status = "running" /\ r.stopper = "StepStopper"
       /\ r.cursor = NoContinuation /\ r.p.clk = clk
       /\ r.brk.kind = "none" =>
            r.brk = NoBreak /\ r.cs # <<>> /\ peek(r.cs).kind # "EnterForest"
       /\ r.brk.kind = "Emit" => r.brk.cont # NoContinuation
       /\ q = Never(r)
    \/ /\ IsState(r) /\ r.status = "stopped" /\ r.cursor = NoContinuation
       /\ r.stopper = "StepStopper" /\ r.brk = NoBreak /\ r.p.clk = clk + 1
       /\ IsState(q) /\ q.status = "running" /\ q.stopper = "NeverStopper"
       /\ q.brk = NoBreak /\ q.forest = r.forest /\ q.p = r.p
       /\ r.cs = IF q.cursor = NoContinuation THEN q.cs ELSE Append(q.cs, q.cursor)

\* A handler that fails before its cycle ends.
LEMMA FailedHandler ==
    ASSUME NEW st, Ready(st), NEW error, error \in Errors, NEW clk
    PROVE  HandlerEnd(clk, [st EXCEPT !.status = error], [Never(st) EXCEPT !.status = error])
BY Failed DEF HandlerEnd, Ready

\* A cycle after which the loop pops the continuation stack.
LEMMA PlainHandler ==
    ASSUME NEW st, Ready(st), st.brk = NoBreak, NEW forest
    PROVE  HandlerEnd(st.p.clk, finalize(st, forest, NoContinuation),
                      finalize(Never(st), forest, NoContinuation))
<1>1. Tick(st.p).clk = st.p.clk + 1
  BY DEF Ready, IsState, IsProcessor, Tick
<1> QED
  BY <1>1, Finalize DEF CycleEnd, HandlerEnd

\* A cycle after which the loop goes on inside a basic block.
LEMMA BlockHandler ==
    ASSUME NEW st, Ready(st), st.brk = NoBreak, NEW forest, NEW cont, cont # NoContinuation
    PROVE  HandlerEnd(st.p.clk, go_on(finalize(st, forest, cont), cont),
                      go_on(finalize(Never(st), forest, cont), cont))
<1> DEFINE r == finalize(st, forest, cont)
           q == finalize(Never(st), forest, cont)
           e == [q EXCEPT !.cursor = cont]
<1>1. Tick(st.p).clk = st.p.clk + 1
  BY DEF Ready, IsState, IsProcessor, Tick
<1>2. CycleEnd(st, cont, r, q)
  BY Finalize
<1> HIDE DEF r, q
<1>3. CASE IsState(r) /\ r.status \in Errors /\ q = Never(r)
  <2>1. r.status # "running" /\ q.status # "running"
    BY <1>3, NeverState DEF Errors
  <2>2. go_on(r, cont) = r /\ go_on(q, cont) = q
    BY <2>1 DEF go_on, IfRunning
  <2> QED
    BY <1>3, <2>2 DEF HandlerEnd, r, q
<1>4. CASE r.status = "stopped" /\ q.status = "running" /\ ~(r.status \in Errors)
  <2>1. go_on(r, cont) = r /\ go_on(q, cont) = e
    BY <1>4 DEF go_on, IfRunning
  <2>2. IsState(q)
    BY <1>2, <1>4 DEF CycleEnd
  <2>3. /\ IsState(e) /\ e.status = q.status /\ e.stopper = q.stopper /\ e.brk = q.brk
        /\ e.forest = q.forest /\ e.p = q.p /\ e.cs = q.cs /\ e.cursor = cont
    BY <2>2 DEF IsState, Fields
  <2> HIDE DEF e
  <2>4. HandlerEnd(st.p.clk, r, e)
    BY <1>1, <1>2, <1>4, <2>3 DEF CycleEnd, HandlerEnd
  <2> QED
    BY <2>1, <2>4 DEF r, q
<1> QED
  BY <1>2, <1>3, <1>4 DEF CycleEnd, Errors

\* The lists of continuations that handlers push are sequences.
LEMMA PairIsSeq ==
    ASSUME NEW a, NEW b, NEW c
    PROVE  IsSeq(<<a>>) /\ IsSeq(<<a, b>>) /\ IsSeq(<<a, b, c>>) /\ IsSeq(<<>>)
<1>1. <<a>> \in Seq({a}) /\ <<a, b>> \in Seq({a, b}) /\ <<a, b, c>> \in Seq({a, b, c})
      /\ <<>> \in Seq({})
  OBVIOUS
<1> QED
  BY <1>1, Zenon DEF IsSeq

\* A handler that changes the processor, pushes continuations and ends its cycle.
LEMMA PushHandler ==
    ASSUME NEW st, Ready(st), st.brk = NoBreak, NEW p, Kept(st.p, p), NEW conts, IsSeq(conts),
           NEW forest
    PROVE  HandlerEnd(st.p.clk, finalize(push(WithP(st, p), conts), forest, NoContinuation),
                      finalize(push(WithP(Never(st), p), conts), forest, NoContinuation))
<1> DEFINE a == WithP(st, p)
           b == push(a, conts)
<1>1. Ready(a) /\ a.brk = NoBreak /\ a.p.clk = st.p.clk /\ WithP(Never(st), p) = Never(a)
  BY SetProcessor DEF Kept
<1> HIDE DEF a
<1>2. Ready(b) /\ b.brk = NoBreak /\ b.p.clk = st.p.clk /\ push(Never(a), conts) = Never(b)
  BY <1>1, PushState
<1> HIDE DEF b
<1>3. HandlerEnd(st.p.clk, finalize(b, forest, NoContinuation),
                 finalize(Never(b), forest, NoContinuation))
  BY <1>2, PlainHandler
<1> QED
  BY <1>1, <1>2, <1>3 DEF a, b

\* Setting the processor to itself changes nothing.
LEMMA SameProcessor ==
    ASSUME NEW st, IsState(st)
    PROVE  WithP(st, st.p) = st /\ Kept(st.p, st.p)
BY DEF WithP, Kept, IsState, Fields

\* What a ready loop and its twin have in common.
LEMMA ReadyState ==
    ASSUME NEW st, Ready(st)
    PROVE  /\ IsState(st) /\ IsState(Never(st)) /\ IsProcessor(st.p)
           /\ Never(st).p = st.p /\ Never(st).forest = st.forest /\ Never(st).brk = st.brk
BY NeverState DEF Ready, IsState

\* start_join_node ends alike in both loops.
LEMMA JoinHandler ==
    ASSUME NEW st, Ready(st), st.brk = NoBreak, NEW id
    PROVE  HandlerEnd(st.p.clk, start_join_node(st, id), start_join_node(Never(st), id))
<1> DEFINE node  == get_node_by_id(st.p, st.forest, id)
           conts == <<Continuation("FinishJoin", id), StartNode(node.kids[2]),
                      StartNode(node.kids[1])>>
<1>1. IsSeq(conts)
  BY PairIsSeq, Zenon
<1>2. /\ start_join_node(st, id) = finalize(push(st, conts), st.forest, NoContinuation)
      /\ start_join_node(Never(st), id)
           = finalize(push(Never(st), conts), st.forest, NoContinuation)
  BY ReadyState, StartCycle DEF start_join_node
<1> HIDE DEF conts
<1> QED
  BY <1>1, <1>2, PushHandler, SameProcessor, ReadyState

\* start_loop_node ends alike in both loops.
LEMMA LoopHandler ==
    ASSUME NEW st, Ready(st), st.brk = NoBreak, NEW id
    PROVE  HandlerEnd(st.p.clk, start_loop_node(st, id), start_loop_node(Never(st), id))
<1> DEFINE node  == get_node_by_id(st.p, st.forest, id)
           conts == <<Continuation("FinishLoop", id), StartNode(node.kids[1])>>
<1>1. IsSeq(conts)
  BY PairIsSeq, Zenon
<1>2. /\ start_loop_node(st, id) = finalize(push(st, conts), st.forest, NoContinuation)
      /\ start_loop_node(Never(st), id)
           = finalize(push(Never(st), conts), st.forest, NoContinuation)
  BY ReadyState, StartCycle DEF start_loop_node
<1> HIDE DEF conts
<1> QED
  BY <1>1, <1>2, PushHandler, SameProcessor, ReadyState

\* The END of a join, split or basic block ends alike in both loops.
LEMMA FinishNodeHandler ==
    ASSUME NEW st, Ready(st), st.brk = NoBreak, NEW cont
    PROVE  HandlerEnd(st.p.clk, finish_node(st, cont), finish_node(Never(st), cont))
BY PlainHandler, ReadyState, StartCycle DEF finish_node

\* start_split_node ends alike in both loops, on either branch or in its failure.
LEMMA SplitHandler ==
    ASSUME NEW st, Ready(st), st.brk = NoBreak, NEW id
    PROVE  HandlerEnd(st.p.clk, start_split_node(st, id), start_split_node(Never(st), id))
<1> DEFINE p  == decrement_size(st.p)
           a  == WithP(st, p)
           condition == get(st.p, 0)
           node   == get_node_by_id(p, st.forest, id)
           branch == IF condition = ONE THEN node.kids[1] ELSE node.kids[2]
           conts  == <<Continuation("FinishSplit", id), StartNode(branch)>>
<1>1. Kept(st.p, p)
  BY DecrementKept, ReadyState
<1>2. /\ start_split_node(st, id) = take_branch(a, id, condition)
      /\ start_split_node(Never(st), id) = take_branch(WithP(Never(st), p), id, condition)
  BY ReadyState, StartCycle DEF start_split_node, WithP
<1> HIDE DEF p
<1>3. /\ Ready(a) /\ a.brk = NoBreak /\ a.p = p /\ a.forest = st.forest
      /\ WithP(Never(st), p) = Never(a)
  BY <1>1, SetProcessor
<1>4. /\ Never(a).p = p /\ Never(a).forest = st.forest
  BY <1>3, ReadyState
<1>5. IsSeq(conts)
  BY PairIsSeq, Zenon
<1> HIDE DEF a, condition
<1>6. CASE p.err = "none" /\ condition \notin {ZERO, ONE}
  <2>1. /\ take_branch(a, id, condition) = [a EXCEPT !.status = "NotBinaryValue"]
        /\ take_branch(Never(a), id, condition) = [Never(a) EXCEPT !.status = "NotBinaryValue"]
    BY <1>3, <1>4, <1>6 DEF take_branch
  <2>2. "NotBinaryValue" \in Errors
    BY DEF Errors
  <2> QED
    BY <1>2, <1>3, <2>1, <2>2, FailedHandler
<1>7. CASE ~(p.err = "none" /\ condition \notin {ZERO, ONE})
  <2>1. /\ take_branch(a, id, condition) = finalize(push(a, conts), st.forest, NoContinuation)
        /\ take_branch(Never(a), id, condition)
             = finalize(push(Never(a), conts), st.forest, NoContinuation)
    BY <1>3, <1>4, <1>7 DEF take_branch
  <2> HIDE DEF conts
  <2>2. HandlerEnd(st.p.clk, finalize(push(a, conts), st.forest, NoContinuation),
                   finalize(push(Never(a), conts), st.forest, NoContinuation))
    BY <1>1, <1>3, <1>5, PushHandler DEF a
  <2> QED
    BY <1>2, <1>3, <2>1, <2>2
<1> QED
  BY <1>6, <1>7

\* finish_loop_node ends alike in both loops, repeating, leaving or failing.
LEMMA FinishLoopHandler ==
    ASSUME NEW st, Ready(st), st.brk = NoBreak, NEW id
    PROVE  HandlerEnd(st.p.clk, finish_loop_node(st, id), finish_loop_node(Never(st), id))
<1> DEFINE p  == decrement_size(st.p)
           condition == get(st.p, 0)
           body  == get_node_by_id(st.p, st.forest, id).kids[1]
           conts == IF condition = ONE THEN <<Continuation("FinishLoop", id), StartNode(body)>>
                    ELSE <<>>
<1>1. Kept(st.p, p)
  BY DecrementKept, ReadyState
<1>2. IsSeq(conts)
  BY PairIsSeq, Zenon
<1>3. CASE condition \notin {ZERO, ONE}
  <2>1. /\ finish_loop_node(st, id) = [st EXCEPT !.status = "NotBinaryValue"]
        /\ finish_loop_node(Never(st), id) = [Never(st) EXCEPT !.status = "NotBinaryValue"]
    BY <1>3, ReadyState DEF finish_loop_node
  <2>2. "NotBinaryValue" \in Errors
    BY DEF Errors
  <2> QED
    BY <2>1, <2>2, FailedHandler
<1>4. CASE condition \in {ZERO, ONE}
  <2>1. /\ finish_loop_node(st, id)
             = finalize(push(WithP(st, p), conts), st.forest, NoContinuation)
        /\ finish_loop_node(Never(st), id)
             = finalize(push(WithP(Never(st), p), conts), st.forest, NoContinuation)
    BY <1>4, ReadyState, StartCycle DEF finish_loop_node, WithP
  <2> HIDE DEF conts, p
  <2> QED
    BY <1>1, <1>2, <2>1, PushHandler
<1> QED
  BY <1>3, <1>4

\* start_call_node, call or syscall, ends alike in both loops.
LEMMA CallHandler ==
    ASSUME NEW st, Ready(st), st.brk = NoBreak, NEW id
    PROVE  HandlerEnd(st.p.clk, start_call_node(st, id), start_call_node(Never(st), id))
<1> DEFINE node    == get_node_by_id(st.p, st.forest, id)
           callee  == get_digest_by_id(st.p, st.forest, node.kids[1])
           saved   == save_call_state(start_context(st.p))
           entered == IF node.kind = "syscall" THEN [saved EXCEPT !.ctx = 0]
                      ELSE enter_context(saved, callee)
           conts   == <<Continuation("FinishCall", id), StartNode(node.kids[1])>>
<1>1. /\ start_call_node(st, id) = call_callee(st, id, node, callee)
      /\ start_call_node(Never(st), id) = call_callee(Never(st), id, node, callee)
  BY ReadyState, StartCycle DEF start_call_node
<1>2. Kept(st.p, saved)
  BY ReadyState, StartContextKept, SaveCallKept, KeptTransitive DEF Kept
<1> HIDE DEF node, callee
<1>3. Kept(st.p, entered)
  <2> HIDE DEF saved
  <2>1. Kept(saved, [saved EXCEPT !.ctx = 0])
    BY <1>2 DEF Kept, IsProcessor
  <2>2. Kept(saved, enter_context(saved, callee))
    BY <1>2, EnterContextKept DEF Kept
  <2> QED
    BY <1>2, <2>1, <2>2, KeptTransitive
<1>4. IsSeq(conts)
  BY PairIsSeq, Zenon
<1>5. CASE callee = NoDigest
  <2>1. /\ call_callee(st, id, node, callee) = [st EXCEPT !.status = "Internal"]
        /\ call_callee(Never(st), id, node, callee) = [Never(st) EXCEPT !.status = "Internal"]
    BY <1>5 DEF call_callee
  <2>2. "Internal" \in Errors
    BY DEF Errors
  <2> QED
    BY <1>1, <2>1, <2>2, FailedHandler
<1>6. CASE callee # NoDigest /\ node.kind = "syscall" /\ callee \notin kernel
  <2>1. /\ call_callee(st, id, node, callee) = [st EXCEPT !.status = "SyscallTargetNotInKernel"]
        /\ call_callee(Never(st), id, node, callee)
             = [Never(st) EXCEPT !.status = "SyscallTargetNotInKernel"]
    BY <1>6 DEF call_callee
  <2>2. "SyscallTargetNotInKernel" \in Errors
    BY DEF Errors
  <2> QED
    BY <1>1, <2>1, <2>2, FailedHandler
<1>7. CASE callee # NoDigest /\ ~(node.kind = "syscall" /\ callee \notin kernel)
  <2>1. /\ call_callee(st, id, node, callee)
             = finalize(push(WithP(st, entered), conts), st.forest, NoContinuation)
        /\ call_callee(Never(st), id, node, callee)
             = finalize(push(WithP(Never(st), entered), conts), st.forest, NoContinuation)
    BY <1>7, ReadyState DEF call_callee, WithP
  <2> HIDE DEF conts, entered
  <2> QED
    BY <1>1, <1>3, <1>4, <2>1, PushHandler
<1> QED
  BY <1>5, <1>6, <1>7

\* A handler that changes the processor and ends its cycle.
LEMMA ProcessorHandler ==
    ASSUME NEW st, Ready(st), st.brk = NoBreak, NEW p, Kept(st.p, p), NEW forest
    PROVE  HandlerEnd(st.p.clk, finalize(WithP(st, p), forest, NoContinuation),
                      finalize(WithP(Never(st), p), forest, NoContinuation))
<1>1. /\ Ready(WithP(st, p)) /\ WithP(st, p).brk = NoBreak /\ WithP(st, p).p.clk = st.p.clk
      /\ WithP(Never(st), p) = Never(WithP(st, p))
  BY SetProcessor DEF Kept
<1> QED
  BY <1>1, PlainHandler

\* finish_call_node ends alike in both loops.
LEMMA FinishCallHandler ==
    ASSUME NEW st, Ready(st), st.brk = NoBreak, NEW id
    PROVE  HandlerEnd(st.p.clk, finish_call_node(st, id), finish_call_node(Never(st), id))
<1> DEFINE p == leave_context(st.p)
<1>1. Kept(st.p, p)
  BY LeaveContextKept, ReadyState
<1>2. /\ finish_call_node(st, id) = finalize(WithP(st, p), st.forest, NoContinuation)
      /\ finish_call_node(Never(st), id) = finalize(WithP(Never(st), p), st.forest, NoContinuation)
  BY ReadyState, StartCycle DEF finish_call_node, WithP
<1> HIDE DEF p
<1> QED
  BY <1>1, <1>2, ProcessorHandler

\* finish_dyn_node ends alike in both loops.
LEMMA FinishDynHandler ==
    ASSUME NEW st, Ready(st), st.brk = NoBreak, NEW id
    PROVE  HandlerEnd(st.p.clk, finish_dyn_node(st, id), finish_dyn_node(Never(st), id))
<1> DEFINE node == get_node_by_id(st.p, st.forest, id)
           p == IF node.kind = "dyncall" THEN leave_context(st.p) ELSE st.p
<1>1. Kept(st.p, p)
  BY LeaveContextKept, ReadyState, SameProcessor
<1>2. /\ finish_dyn_node(st, id) = finalize(WithP(st, p), st.forest, NoContinuation)
      /\ finish_dyn_node(Never(st), id) = finalize(WithP(Never(st), p), st.forest, NoContinuation)
  BY ReadyState, StartCycle DEF finish_dyn_node, WithP
<1> HIDE DEF p
<1> QED
  BY <1>1, <1>2, ProcessorHandler

\* start_dyn_node ends alike in both loops: in a callee of the same forest, in a
\* break to load one, or in a failure.
LEMMA DynHandler ==
    ASSUME NEW st, Ready(st), st.brk = NoBreak, NEW id
    PROVE  HandlerEnd(st.p.clk, start_dyn_node(st, id), start_dyn_node(Never(st), id))
<1> DEFINE node    == get_node_by_id(st.p, st.forest, id)
           read    == read_word(st.p, st.p.ctx, get(st.p, 0))
           callee  == read.value
           dropped == decrement_size(read.p)
           saved   == save_call_state(start_context(dropped))
           entered == IF node.kind = "dyncall" THEN enter_dyncall(dropped, callee) ELSE dropped
           a       == WithP(st, entered)
           b       == push(a, <<Continuation("FinishDyn", id)>>)
           root    == find_procedure_root(entered, st.forest, callee)
           brk     == [NoBreak EXCEPT !.kind = "LoadFromDyn", !.digest = callee]
           r       == [b EXCEPT !.brk = brk]
<1>1. Kept(st.p, dropped)
  <2>1. Kept(st.p, read.p)
    BY ReadyState, ReadKept
  <2> HIDE DEF read
  <2> QED
    BY <2>1, DecrementKept, KeptTransitive DEF Kept
<1>2. Kept(st.p, entered)
  <2> HIDE DEF dropped, callee, node
  <2>1. Kept(dropped, saved)
    BY <1>1, StartContextKept, SaveCallKept, KeptTransitive DEF Kept
  <2>2. Kept(st.p, saved)
    BY <1>1, <2>1, KeptTransitive
  <2> HIDE DEF saved
  <2>3. Kept(st.p, enter_context(saved, callee))
    BY <2>2, EnterContextKept, KeptTransitive DEF Kept
  <2> QED
    BY <1>1, <2>3 DEF enter_dyncall, saved
<1>3. /\ [st EXCEPT !.p = entered, !.t = record_memory_read_word(@, callee)] = a
      /\ [Never(st) EXCEPT !.p = entered, !.t = record_memory_read_word(@, callee)]
           = WithP(Never(st), entered)
  <2> HIDE DEF entered, callee
  <2> QED
    BY ReadyState, Zenon DEF record_memory_read_word, WithP, IsState, Fields
<1>4. /\ start_dyn_node(st, id) = call_dynamic(b, callee)
      /\ start_dyn_node(Never(st), id)
           = call_dynamic(push(WithP(Never(st), entered), <<Continuation("FinishDyn", id)>>),
                          callee)
  <2>1. /\ start_cycle(st, StartNode(id)) = st
        /\ start_cycle(Never(st), StartNode(id)) = Never(st)
    BY ReadyState, StartCycle
  <2>2. Never(st).p = st.p /\ Never(st).forest = st.forest
    BY ReadyState
  <2>3. start_dyn_node(st, id)
          = call_dynamic(push([st EXCEPT !.p = entered,
                                         !.t = record_memory_read_word(@, callee)],
                              <<Continuation("FinishDyn", id)>>), callee)
    BY <2>1 DEF start_dyn_node
  <2>4. start_dyn_node(Never(st), id)
          = call_dynamic(push([Never(st) EXCEPT !.p = entered,
                                                !.t = record_memory_read_word(@, callee)],
                              <<Continuation("FinishDyn", id)>>), callee)
    BY <2>1, <2>2 DEF start_dyn_node
  <2> QED
    BY <1>3, <2>3, <2>4, Zenon
<1> HIDE DEF entered, callee
<1>5. /\ Ready(a) /\ a.brk = NoBreak /\ a.p = entered /\ a.forest = st.forest
      /\ WithP(Never(st), entered) = Never(a)
  BY <1>2, SetProcessor
<1> HIDE DEF a
<1>6. /\ Ready(b) /\ b.brk = NoBreak /\ b.p = entered /\ b.forest = st.forest
      /\ push(Never(a), <<Continuation("FinishDyn", id)>>) = Never(b)
  BY <1>5, PushState, PairIsSeq, Zenon
<1> HIDE DEF b
<1>7. Never(b).p = entered /\ Never(b).forest = st.forest
  BY <1>6, ReadyState
<1>8. SUFFICES HandlerEnd(st.p.clk, call_dynamic(b, callee), call_dynamic(Never(b), callee))
  BY <1>4, <1>5, <1>6
<1>9. entered.clk = st.p.clk /\ entered.err \in Errors \cup {"none"}
  BY <1>2 DEF Kept, IsProcessor
<1>10. CASE entered.err # "none"
  <2>1. /\ call_dynamic(b, callee) = [b EXCEPT !.status = entered.err]
        /\ call_dynamic(Never(b), callee) = [Never(b) EXCEPT !.status = entered.err]
    BY <1>6, <1>7, <1>10 DEF call_dynamic
  <2> QED
    BY <1>6, <1>9, <1>10, <2>1, FailedHandler
<1>11. CASE entered.err = "none" /\ root # 0
  <2>1. /\ call_dynamic(b, callee)
             = finalize(push(b, <<StartNode(root)>>), st.forest, NoContinuation)
        /\ call_dynamic(Never(b), callee)
             = finalize(push(Never(b), <<StartNode(root)>>), st.forest, NoContinuation)
    BY <1>6, <1>7, <1>11 DEF call_dynamic
  <2>2. IsSeq(<<StartNode(root)>>)
    BY PairIsSeq, Zenon
  <2> HIDE DEF root
  <2>3. HandlerEnd(st.p.clk, finalize(push(b, <<StartNode(root)>>), st.forest, NoContinuation),
                   finalize(push(Never(b), <<StartNode(root)>>), st.forest, NoContinuation))
    BY <1>6, <1>9, <2>2, PushHandler, SameProcessor, ReadyState
  <2> QED
    BY <2>1, <2>3
<1>12. CASE entered.err = "none" /\ root = 0
  <2>1. call_dynamic(b, callee) = r /\ call_dynamic(Never(b), callee) = [Never(b) EXCEPT !.brk = brk]
    BY <1>6, <1>7, <1>12 DEF call_dynamic
  <2>2. brk.kind = "LoadFromDyn"
    BY DEF NoBreak
  <2> HIDE DEF brk
  <2>3. /\ IsState(r) /\ r.status = "running" /\ r.stopper = "StepStopper"
        /\ r.cursor = NoContinuation /\ r.p = entered /\ r.brk = brk
        /\ [Never(b) EXCEPT !.brk = brk] = Never(r)
    BY <1>6, Zenon DEF Ready, IsState, Fields, Never
  <2> HIDE DEF r
  <2> QED
    BY <1>9, <2>1, <2>2, <2>3 DEF HandlerEnd
<1> QED
  BY <1>10, <1>11, <1>12

\* execute_external_node ends alike in both loops, found here or to be loaded.
LEMMA ExternalHandler ==
    ASSUME NEW st, Ready(st), st.brk = NoBreak, NEW id
    PROVE  HandlerEnd(st.p.clk, execute_external_node(st, id),
                      execute_external_node(Never(st), id))
<1> DEFINE node == get_node_by_id(st.p, st.forest, id)
           brk  == [NoBreak EXCEPT !.kind = "LoadFromExternal", !.node = id,
                                   !.digest = node.digest]
           r    == [st EXCEPT !.brk = brk]
<1>1. brk.kind = "LoadFromExternal"
  BY DEF NoBreak
<1>2. /\ execute_external_node(st, id)
           = [st EXCEPT !.t = record_external_node_entered(@, id, st.forest), !.brk = brk]
      /\ execute_external_node(Never(st), id)
           = [Never(st) EXCEPT !.t = record_external_node_entered(@, id, st.forest), !.brk = brk]
  BY ReadyState, Zenon DEF execute_external_node
<1> HIDE DEF brk
<1>3. /\ execute_external_node(st, id) = r
      /\ execute_external_node(Never(st), id) = [Never(st) EXCEPT !.brk = brk]
  BY <1>2, ReadyState, Zenon DEF record_external_node_entered, IsState, Fields
<1>4. /\ IsState(r) /\ r.status = "running" /\ r.stopper = "StepStopper"
      /\ r.cursor = NoContinuation /\ r.p = st.p /\ r.brk = brk
      /\ [Never(st) EXCEPT !.brk = brk] = Never(r)
  BY Zenon DEF Ready, IsState, Fields, Never
<1> HIDE DEF r
<1> QED
  BY <1>1, <1>3, <1>4 DEF HandlerEnd

\* start_basic_block_node ends alike in both loops.
LEMMA StartBlockHandler ==
    ASSUME NEW st, Ready(st), st.brk = NoBreak, NEW id
    PROVE  HandlerEnd(st.p.clk, start_basic_block(st, id), start_basic_block(Never(st), id))
<1> DEFINE first == ResumeBasicBlock(id, 1, 1)
<1>1. first # NoContinuation
  BY Zenon DEF ResumeBasicBlock, NoContinuation, Continuation
<1>2. /\ start_basic_block(st, id) = go_on(finalize(st, st.forest, first), first)
      /\ start_basic_block(Never(st), id) = go_on(finalize(Never(st), st.forest, first), first)
  BY ReadyState, StartCycle DEF start_basic_block
<1> HIDE DEF first
<1> QED
  BY <1>1, <1>2, BlockHandler

\* The RESPAN between two batches ends alike in both loops.
LEMMA RespanHandler ==
    ASSUME NEW st, Ready(st), st.brk = NoBreak, NEW id, NEW batch
    PROVE  HandlerEnd(st.p.clk, respan(st, id, batch), respan(Never(st), id, batch))
<1> DEFINE first == ResumeBasicBlock(id, batch, 1)
<1>1. first # NoContinuation
  BY Zenon DEF ResumeBasicBlock, NoContinuation, Continuation
<1>2. /\ respan(st, id, batch) = go_on(finalize(st, st.forest, first), first)
      /\ respan(Never(st), id, batch) = go_on(finalize(Never(st), st.forest, first), first)
  BY ReadyState, StartCycle DEF respan
<1> HIDE DEF first
<1> QED
  BY <1>1, <1>2, BlockHandler

\* An operation of a basic block ends alike in both loops, where one keeps its
\* position on the continuation stack and the other in its cursor.
LEMMA OperationHandler ==
    ASSUME NEW st, Ready(st), st.brk = NoBreak, NEW id, NEW batch, NEW op
    PROVE  HandlerEnd(st.p.clk, execute_operation(st, id, batch, op),
                      execute_operation(Never(st), id, batch, op))
<1> DEFINE node  == get_node_by_id(st.p, st.forest, id)
           code  == node.batches[batch][op]
           after == get_continuation_after_executing_operation(node, id, batch, op)
           brk   == [NoBreak EXCEPT !.kind = "Emit", !.cont = after]
           r     == [st EXCEPT !.brk = brk]
           a     == execute_op(st, code)
<1>1. after # NoContinuation /\ next_in_block(node, id, batch, op) = after
  BY Zenon DEF get_continuation_after_executing_operation, next_in_block, ResumeBasicBlock, Respan,
         FinishBasicBlock, NoContinuation, Continuation
<1>2. CASE code.name = "emit"
  <2>1. /\ execute_operation(st, id, batch, op) = r
        /\ execute_operation(Never(st), id, batch, op) = [Never(st) EXCEPT !.brk = brk]
    BY <1>2, ReadyState, StartCycle, Zenon DEF execute_operation
  <2>2. brk.kind = "Emit" /\ brk.cont = after
    BY DEF NoBreak
  <2> HIDE DEF brk, after
  <2>3. /\ IsState(r) /\ r.status = "running" /\ r.stopper = "StepStopper"
        /\ r.cursor = NoContinuation /\ r.p = st.p /\ r.brk = brk
        /\ [Never(st) EXCEPT !.brk = brk] = Never(r)
    BY Zenon DEF Ready, IsState, Fields, Never
  <2> HIDE DEF r
  <2> QED
    BY <1>1, <2>1, <2>2, <2>3 DEF HandlerEnd
<1>3. CASE code.name # "emit"
  <2>1. /\ execute_operation(st, id, batch, op) = go_on(finalize(a, st.forest, after), after)
        /\ execute_operation(Never(st), id, batch, op)
             = go_on(finalize(execute_op(Never(st), code), st.forest, after), after)
    BY <1>1, <1>3, ReadyState, StartCycle DEF execute_operation
  <2> HIDE DEF code, after
  <2>2. /\ Ready(a) /\ a.brk = NoBreak /\ a.p.clk = st.p.clk
        /\ execute_op(Never(st), code) = Never(a)
    BY OpState DEF Kept
  <2> HIDE DEF a
  <2>3. HandlerEnd(st.p.clk, go_on(finalize(a, st.forest, after), after),
                   go_on(finalize(Never(a), st.forest, after), after))
    BY <1>1, <2>2, BlockHandler
  <2> QED
    BY <2>1, <2>2, <2>3
<1> QED
  BY <1>2, <1>3

-----------------------------------------------------------------------------
(* What the loop's caller does before it enters the loop again             *)

\* NoBreak is the absence of a break.
LEMMA NoBreakKind == NoBreak.kind = "none"
BY DEF NoBreak

\* The loop once the break is dealt with.
Unbroken(st, p, forest) == [st EXCEPT !.p = p, !.forest = forest, !.brk = NoBreak]

\* The break is over: the processor and the forest may have changed.
LEMMA Continued ==
    ASSUME NEW st, Ready(st), NEW p, Kept(st.p, p), NEW forest
    PROVE  /\ Ready(Unbroken(st, p, forest)) /\ Unbroken(st, p, forest).brk = NoBreak
           /\ Unbroken(st, p, forest).p = p /\ Unbroken(st, p, forest).forest = forest
           /\ Unbroken(st, p, forest).cs = st.cs
           /\ Unbroken(Never(st), p, forest) = Never(Unbroken(st, p, forest))
BY Zenon DEF Ready, Never, IsState, Fields, Kept, Unbroken

\* finish_emit_op_execution ends alike in both loops.
LEMMA EmitHandler ==
    ASSUME NEW st, Ready(st), st.brk.cont # NoContinuation
    PROVE  HandlerEnd(st.p.clk, finish_emit_op_execution(st, handle_emit(st.p)),
                      finish_emit_op_execution(Never(st), handle_emit(Never(st).p)))
<1> DEFINE p    == handle_emit(st.p)
           cont == st.brk.cont
           a    == Unbroken(st, p, st.forest)
           r    == finalize(a, st.forest, cont)
           q    == finalize(Never(a), st.forest, cont)
           e    == push(q, <<cont>>)
<1>1. Kept(st.p, p)
  BY EmitKept, ReadyState
<1>2. [st EXCEPT !.p = p, !.brk = NoBreak] = a
  <2> HIDE DEF p
  <2> QED
    BY ReadyState, Zenon DEF IsState, Fields, Unbroken
<1>3. [Never(st) EXCEPT !.p = p, !.brk = NoBreak]
        = Unbroken(Never(st), p, st.forest)
  <2> HIDE DEF p
  <2> QED
    BY ReadyState, Zenon DEF IsState, Fields, Unbroken
<1>4. /\ Ready(a) /\ a.brk = NoBreak /\ a.p.clk = st.p.clk
      /\ Unbroken(Never(st), p, st.forest) = Never(a)
  BY <1>1, Continued DEF Kept
<1> HIDE DEF a, p
<1>5. /\ finish_emit_op_execution(st, p) = IF r.status = "running" THEN push(r, <<cont>>) ELSE r
      /\ finish_emit_op_execution(Never(st), p) = IF q.status = "running" THEN e ELSE q
  <2>1. Never(st).forest = st.forest /\ Never(st).brk = st.brk
    BY ReadyState
  <2> QED
    BY <1>2, <1>3, <1>4, <2>1 DEF finish_emit_op_execution, IfRunning
<1>6. CycleEnd(a, cont, r, q)
  BY <1>4, Finalize
<1> HIDE DEF r, q
<1>7. Tick(a.p).clk = st.p.clk + 1
  BY <1>4 DEF Ready, IsState, IsProcessor, Tick
<1>8. SUFFICES HandlerEnd(st.p.clk, finish_emit_op_execution(st, p),
                          finish_emit_op_execution(Never(st), p))
  BY ReadyState DEF p
<1>9. CASE IsState(r) /\ r.status \in Errors /\ q = Never(r)
  <2>1. r.status # "running" /\ q.status # "running"
    BY <1>9, NeverState DEF Errors
  <2>2. finish_emit_op_execution(st, p) = r /\ finish_emit_op_execution(Never(st), p) = q
    BY <1>5, <2>1
  <2> QED
    BY <1>9, <2>2 DEF HandlerEnd
<1>10. CASE r.status = "stopped" /\ q.status = "running" /\ ~(r.status \in Errors)
  <2>1. finish_emit_op_execution(st, p) = r /\ finish_emit_op_execution(Never(st), p) = e
    BY <1>5, <1>10
  <2>2. IsState(q) /\ IsSeq(q.cs)
    BY <1>6, <1>10 DEF CycleEnd, IsState
  <2>3. q.cs \o <<cont>> = Append(q.cs, cont) /\ IsSeq(Append(q.cs, cont))
    BY <2>2, SeqAppend
  <2>4. /\ IsState(e) /\ e.status = q.status /\ e.stopper = q.stopper /\ e.brk = q.brk
        /\ e.forest = q.forest /\ e.p = q.p /\ e.cs = Append(q.cs, cont) /\ e.cursor = q.cursor
    BY <2>2, <2>3, Zenon DEF push, IsState, Fields
  <2> HIDE DEF e
  <2>5. HandlerEnd(st.p.clk, r, e)
    <3>1. /\ IsState(r) /\ r.stopper = "StepStopper" /\ r.cursor = NoContinuation
          /\ r.brk = NoBreak /\ r.forest = a.forest /\ r.p = Tick(a.p)
          /\ r.cs = Append(a.cs, cont)
      BY <1>4, <1>6, <1>10 DEF CycleEnd
    <3>2. /\ q.stopper = "NeverStopper" /\ q.cursor = NoContinuation /\ q.brk = NoBreak
          /\ q.forest = a.forest /\ q.p = Tick(a.p) /\ q.cs = a.cs
      BY <1>4, <1>6, <1>10 DEF CycleEnd
    <3> QED
      BY <1>10, <1>7, <2>4, <3>1, <3>2 DEF HandlerEnd
  <2> QED
    BY <2>1, <2>5
<1> QED
  BY <1>6, <1>9, <1>10 DEF CycleEnd, Errors

\* finish_load_mast_forest_from_dyn_start ends alike in both loops.
LEMMA LoadDynHandler ==
    ASSUME NEW st, Ready(st), NEW loaded, Kept(st.p, loaded.p)
    PROVE  HandlerEnd(st.p.clk, finish_load_mast_forest_from_dyn_start(st, loaded),
                      finish_load_mast_forest_from_dyn_start(Never(st), loaded))
<1> DEFINE conts == <<EnterForest(st.forest), StartNode(loaded.root)>>
           a == Unbroken(st, loaded.p, loaded.forest)
           b == push(a, conts)
           r == finalize(b, st.forest, NoContinuation)
           q == finalize(Never(b), st.forest, NoContinuation)
           Record(x) == [x EXCEPT !.t = record_mast_forest_resolution(@, loaded.root,
                                                                      loaded.forest)]
<1>1. /\ Ready(a) /\ a.brk = NoBreak /\ a.p.clk = st.p.clk
      /\ Unbroken(Never(st), loaded.p, loaded.forest) = Never(a)
  BY Continued DEF Kept
<1>2. IsSeq(conts)
  BY PairIsSeq, Zenon
<1> HIDE DEF a
<1>3. /\ finish_load_mast_forest_from_dyn_start(st, loaded)
           = IF r.status = "running" THEN Record(r) ELSE r
      /\ finish_load_mast_forest_from_dyn_start(Never(st), loaded)
           = LET x == finalize(push(Never(a), conts), st.forest, NoContinuation)
             IN  IF x.status = "running" THEN Record(x) ELSE x
  <2>1. Never(st).forest = st.forest
    BY ReadyState
  <2> QED
    BY <1>1, <2>1 DEF finish_load_mast_forest_from_dyn_start, IfRunning, a, Unbroken
<1> HIDE DEF conts
<1>4. /\ Ready(b) /\ b.brk = NoBreak /\ b.p.clk = st.p.clk /\ push(Never(a), conts) = Never(b)
  BY <1>1, <1>2, PushState
<1> HIDE DEF b
<1>5. HandlerEnd(st.p.clk, r, q)
  BY <1>4, PlainHandler
<1>6. finish_load_mast_forest_from_dyn_start(Never(st), loaded)
        = IF q.status = "running" THEN Record(q) ELSE q
  BY <1>3, <1>4
<1> HIDE DEF r, q
<1>7. IsState(r) /\ IsState(q)
  BY <1>5, NeverState DEF HandlerEnd
<1>8. Record(r) = r /\ Record(q) = q
  BY <1>7, Zenon DEF record_mast_forest_resolution, IsState, Fields
<1> HIDE DEF Record
<1> QED
  BY <1>3, <1>5, <1>6, <1>8

\* The last of two pushed continuations is on top.
LEMMA LastOfPair ==
    ASSUME NEW seq, IsSeq(seq), NEW a, NEW b
    PROVE  seq \o <<a, b>> # <<>> /\ peek(seq \o <<a, b>>) = b
<1>1. PICK S : seq \in Seq(S)
  BY DEF IsSeq
<1>2. seq \in Seq(S \cup {a, b}) /\ <<a, b>> \in Seq(S \cup {a, b})
  BY <1>1
<1>3. Len(seq \o <<a, b>>) = Len(seq) + 2 /\ Len(seq) \in Nat
  BY <1>2
<1>4. (seq \o <<a, b>>)[Len(seq) + 2] = b
  BY <1>2, <1>3
<1> QED
  BY <1>3, <1>4 DEF peek

\* finish_load_mast_forest_from_external ends alike in both loops.
LEMMA LoadExternalHandler ==
    ASSUME NEW st, Ready(st), NEW loaded, Kept(st.p, loaded.p)
    PROVE  HandlerEnd(st.p.clk, finish_load_mast_forest_from_external(st, loaded),
                      finish_load_mast_forest_from_external(Never(st), loaded))
<1> DEFINE conts == <<EnterForest(st.forest), StartNode(loaded.root)>>
           a == Unbroken(st, loaded.p, loaded.forest)
           b == push(a, conts)
           kind == get_node_by_id(st.p, loaded.forest, loaded.root).kind
<1>1. CASE kind = "none"
  <2>1. /\ finish_load_mast_forest_from_external(st, loaded) = [st EXCEPT !.status = "Internal"]
        /\ finish_load_mast_forest_from_external(Never(st), loaded)
             = [Never(st) EXCEPT !.status = "Internal"]
    BY <1>1, ReadyState DEF finish_load_mast_forest_from_external
  <2>2. "Internal" \in Errors
    BY DEF Errors
  <2> QED
    BY <2>1, <2>2, FailedHandler
<1>2. CASE kind = "external"
  <2>1. /\ finish_load_mast_forest_from_external(st, loaded)
             = [st EXCEPT !.status = "CircularExternalNode"]
        /\ finish_load_mast_forest_from_external(Never(st), loaded)
             = [Never(st) EXCEPT !.status = "CircularExternalNode"]
    BY <1>2, ReadyState DEF finish_load_mast_forest_from_external
  <2>2. "CircularExternalNode" \in Errors
    BY DEF Errors
  <2> QED
    BY <2>1, <2>2, FailedHandler
<1>3. CASE kind \notin {"none", "external"}
  <2> DEFINE Entered(x) == [x EXCEPT !.p = loaded.p, !.forest = loaded.forest, !.brk = NoBreak,
                              !.t = record_mast_forest_resolution(@, loaded.root, loaded.forest)]
  <2>1. /\ finish_load_mast_forest_from_external(st, loaded) = push(Entered(st), conts)
        /\ finish_load_mast_forest_from_external(Never(st), loaded)
             = push(Entered(Never(st)), conts)
    BY <1>3, ReadyState DEF finish_load_mast_forest_from_external
  <2>2. /\ Ready(a) /\ a.brk = NoBreak /\ a.p.clk = st.p.clk /\ a.cs = st.cs
        /\ Unbroken(Never(st), loaded.p, loaded.forest) = Never(a)
    BY Continued DEF Kept
  <2>3. /\ Entered(st) = a
        /\ Entered(Never(st))
             = Unbroken(Never(st), loaded.p, loaded.forest)
    BY ReadyState, Zenon DEF record_mast_forest_resolution, IsState, Fields, Unbroken
  <2>4. IsSeq(conts)
    BY PairIsSeq, Zenon
  <2>5. st.cs \o conts # <<>> /\ peek(st.cs \o conts) = StartNode(loaded.root)
    <3>1. IsSeq(st.cs)
      BY ReadyState DEF IsState
    <3> QED
      BY <3>1, LastOfPair
  <2> HIDE DEF a, conts
  <2>6. /\ Ready(b) /\ b.brk = NoBreak /\ b.p.clk = st.p.clk /\ b.cs = st.cs \o conts
        /\ push(Never(a), conts) = Never(b)
    BY <2>2, <2>4, PushState, Zenon
  <2> HIDE DEF b
  <2>7. StartNode(loaded.root).kind = "StartNode"
    BY DEF StartNode, Continuation
  <2>8. HandlerEnd(st.p.clk, b, Never(b))
    BY <2>5, <2>6, <2>7, NoBreakKind DEF HandlerEnd, Ready
  <2> QED
    BY <2>1, <2>2, <2>3, <2>6, <2>8 DEF b
<1> QED
  BY <1>1, <1>2, <1>3

return_outputs(st) ==
    [st EXCEPT !.status = IF check_outputs(st.p).err = "none" THEN "ended"
                          ELSE check_outputs(st.p).err]

\* Returning the outputs ends alike in both loops.
LEMMA ReturnHandler ==
    ASSUME NEW st, Ready(st)
    PROVE  HandlerEnd(st.p.clk, return_outputs(st), return_outputs(Never(st)))
<1> DEFINE p == check_outputs(st.p)
           status == IF p.err = "none" THEN "ended" ELSE p.err
           r == [st EXCEPT !.status = status]
<1>1. status \in Errors \cup {"ended"}
  BY OutputsKept, ReadyState DEF Kept, IsProcessor
<1>2. return_outputs(st) = r /\ return_outputs(Never(st)) = [Never(st) EXCEPT !.status = status]
  BY ReadyState DEF return_outputs
<1> HIDE DEF status
<1>3. IsState(r) /\ r.status = status
  BY ReadyState DEF IsState, Fields
<1>4. [Never(st) EXCEPT !.status = status] = Never(r)
  BY ReadyState, Zenon DEF IsState, Fields, Never
<1> HIDE DEF r
<1> QED
  BY <1>1, <1>2, <1>3, <1>4 DEF HandlerEnd

-----------------------------------------------------------------------------
(* One step of the loop, as a function of its state                        *)

\* What is left to do, the position inside a basic block included.
Agenda(st) == IF st.cursor = NoContinuation THEN st.cs ELSE Append(st.cs, st.cursor)

\* The continuation the loop takes next, and the loop once it has taken it.
NextUp(st) == IF st.cursor # NoContinuation THEN st.cursor ELSE peek(st.cs)

Taken(st) ==
    [st EXCEPT !.cursor = NoContinuation,
               !.cs = IF st.cursor # NoContinuation THEN @ ELSE pop(@)]

NodeKinds == {"join", "split", "loop", "call", "syscall", "dyn", "dyncall", "external", "block"}

EndKinds == {"FinishJoin", "FinishSplit", "FinishBasicBlock"}

OtherKinds == {"FinishLoop", "FinishCall", "FinishDyn", "ResumeBasicBlock", "Respan"}

\* The handler that starts a node.
StartHandler(st, kind, id) ==
    CASE kind = "join" -> start_join_node(st, id)
      [] kind = "split" -> start_split_node(st, id)
      [] kind = "loop" -> start_loop_node(st, id)
      [] kind \in {"call", "syscall"} -> start_call_node(st, id)
      [] kind \in {"dyn", "dyncall"} -> start_dyn_node(st, id)
      [] kind = "external" -> execute_external_node(st, id)
      [] kind = "block" -> start_basic_block(st, id)

\* The handler of a continuation.
Handler(st, cont) ==
    CASE cont.kind = "StartNode" ->
           StartHandler(st, get_node_by_id(st.p, st.forest, cont.node).kind, cont.node)
      [] cont.kind \in EndKinds -> finish_node(st, cont)
      [] cont.kind = "FinishLoop" -> finish_loop_node(st, cont.node)
      [] cont.kind = "FinishCall" -> finish_call_node(st, cont.node)
      [] cont.kind = "FinishDyn" -> finish_dyn_node(st, cont.node)
      [] cont.kind = "ResumeBasicBlock" -> execute_operation(st, cont.node, cont.batch, cont.op)
      [] cont.kind = "Respan" -> respan(st, cont.node, cont.batch)

\* A continuation that calls for one of the handlers.
Handled(st, cont) ==
    \/ cont.kind = "StartNode" /\ get_node_by_id(st.p, st.forest, cont.node).kind \in NodeKinds
    \/ cont.kind \in EndKinds \cup OtherKinds

\* Whatever continuation is next, its handler ends alike in both loops.
LEMMA HandlersCorrespond ==
    ASSUME NEW st, Ready(st), st.brk = NoBreak, NEW cont, Handled(st, cont)
    PROVE  HandlerEnd(st.p.clk, Handler(st, cont), Handler(Never(st), cont))
<1> DEFINE kind == get_node_by_id(st.p, st.forest, cont.node).kind
<1>1. ASSUME cont.kind = "StartNode", kind \in NodeKinds
      PROVE  HandlerEnd(st.p.clk, Handler(st, cont), Handler(Never(st), cont))
  <2>1. /\ Handler(st, cont) = StartHandler(st, kind, cont.node)
        /\ Handler(Never(st), cont) = StartHandler(Never(st), kind, cont.node)
    BY <1>1, ReadyState DEF Handler, EndKinds
  <2> HIDE DEF kind
  <2>2. HandlerEnd(st.p.clk, StartHandler(st, kind, cont.node),
                   StartHandler(Never(st), kind, cont.node))
    <3>1. CASE kind = "join"
      <4>1. /\ StartHandler(st, kind, cont.node) = start_join_node(st, cont.node)
            /\ StartHandler(Never(st), kind, cont.node) = start_join_node(Never(st), cont.node)
        BY <3>1 DEF StartHandler
      <4> QED
        BY <4>1, JoinHandler
    <3>2. CASE kind = "split"
      <4>1. /\ StartHandler(st, kind, cont.node) = start_split_node(st, cont.node)
            /\ StartHandler(Never(st), kind, cont.node) = start_split_node(Never(st), cont.node)
        BY <3>2 DEF StartHandler
      <4> QED
        BY <4>1, SplitHandler
    <3>3. CASE kind = "loop"
      <4>1. /\ StartHandler(st, kind, cont.node) = start_loop_node(st, cont.node)
            /\ StartHandler(Never(st), kind, cont.node) = start_loop_node(Never(st), cont.node)
        BY <3>3 DEF StartHandler
      <4> QED
        BY <4>1, LoopHandler
    <3>4. CASE kind \in {"call", "syscall"}
      <4>1. /\ StartHandler(st, kind, cont.node) = start_call_node(st, cont.node)
            /\ StartHandler(Never(st), kind, cont.node) = start_call_node(Never(st), cont.node)
        BY <3>4 DEF StartHandler
      <4> QED
        BY <4>1, CallHandler
    <3>5. CASE kind \in {"dyn", "dyncall"}
      <4>1. /\ StartHandler(st, kind, cont.node) = start_dyn_node(st, cont.node)
            /\ StartHandler(Never(st), kind, cont.node) = start_dyn_node(Never(st), cont.node)
        BY <3>5 DEF StartHandler
      <4> QED
        BY <4>1, DynHandler
    <3>6. CASE kind = "external"
      <4>1. /\ StartHandler(st, kind, cont.node) = execute_external_node(st, cont.node)
            /\ StartHandler(Never(st), kind, cont.node) = execute_external_node(Never(st), cont.node)
        BY <3>6 DEF StartHandler
      <4> QED
        BY <4>1, ExternalHandler
    <3>7. CASE kind = "block"
      <4>1. /\ StartHandler(st, kind, cont.node) = start_basic_block(st, cont.node)
            /\ StartHandler(Never(st), kind, cont.node) = start_basic_block(Never(st), cont.node)
        BY <3>7 DEF StartHandler
      <4> QED
        BY <4>1, StartBlockHandler
    <3> QED
      BY <1>1, <3>1, <3>2, <3>3, <3>4, <3>5, <3>6, <3>7 DEF NodeKinds
  <2> QED
    BY <2>1, <2>2
<1>2. ASSUME cont.kind \in EndKinds
      PROVE  HandlerEnd(st.p.clk, Handler(st, cont), Handler(Never(st), cont))
  BY <1>2, FinishNodeHandler DEF Handler, EndKinds
<1>3. ASSUME cont.kind \in OtherKinds
      PROVE  HandlerEnd(st.p.clk, Handler(st, cont), Handler(Never(st), cont))
  BY <1>3, FinishLoopHandler, FinishCallHandler, FinishDynHandler, OperationHandler,
     RespanHandler DEF Handler, EndKinds, OtherKinds
<1> QED
  BY <1>1, <1>2, <1>3 DEF Handled

\* What the loop does next from st: the break it returned with is dealt with,
\* the outputs are returned, or the handler of the next continuation is run.
Load(st, finish(_, _)) ==
    LET loaded == load_mast_forest(st.p, st.brk.digest)
    IN  IF loaded.p.err # "none" THEN [st EXCEPT !.status = loaded.p.err]
        ELSE finish(st, loaded)

Advance(st) ==
    CASE st.brk.kind = "Emit" -> finish_emit_op_execution(st, handle_emit(st.p))
      [] st.brk.kind = "LoadFromDyn" -> Load(st, finish_load_mast_forest_from_dyn_start)
      [] st.brk.kind = "LoadFromExternal" -> Load(st, finish_load_mast_forest_from_external)
      [] st.brk.kind = "none" ->
           IF Agenda(st) = <<>> THEN return_outputs(st)
           ELSE Handler(Taken(st), NextUp(st))

\* One of the cases of Advance applies: implied by every step of the loop but
\* the one that leaves a forest.
CanAdvance(st) ==
    \/ st.brk.kind \in {"Emit", "LoadFromDyn", "LoadFromExternal"}
    \/ /\ st.brk.kind = "none"
       /\ Agenda(st) = <<>> \/ Handled(st, NextUp(st))

\* A running loop under StepStopper, between two steps.
Between(st) ==
    /\ Ready(st)
    /\ st.brk.kind = "none" =>
         st.brk = NoBreak /\ (st.cs # <<>> => peek(st.cs).kind # "EnterForest")
    /\ st.brk.kind = "Emit" => st.brk.cont # NoContinuation

\* b is in the state a is in, but for its stopper and for where the position
\* in a basic block is kept.
Twin(a, b) ==
    /\ IsState(b) /\ b.stopper = "NeverStopper" /\ b.status = "running"
    /\ b.p = a.p /\ b.brk = a.brk
    /\ Agenda(b) = a.cs /\ b.forest = a.forest
    /\ a.brk.kind # "none" => b = Never(a)

\* What was appended is on top, and below it is what was there before.
LEMMA SeqLast ==
    ASSUME NEW seq, IsSeq(seq), NEW c
    PROVE  /\ Append(seq, c) # <<>> /\ peek(Append(seq, c)) = c /\ pop(Append(seq, c)) = seq
<1>1. PICK S : seq \in Seq(S)
  BY DEF IsSeq
<1>2. seq \in Seq(S \cup {c}) /\ c \in S \cup {c}
  BY <1>1
<1>3. Append(seq, c) \in Seq(S \cup {c}) /\ Len(Append(seq, c)) = Len(seq) + 1 /\ Len(seq) \in Nat
      /\ \A i \in 1..Len(seq) : Append(seq, c)[i] = seq[i]
      /\ Append(seq, c)[Len(seq) + 1] = c
  BY <1>2
<1>4. Append(seq, c) # <<>>
  BY <1>3
<1>5. peek(Append(seq, c)) = c
  BY <1>3 DEF peek
<1>6. pop(Append(seq, c)) = seq
  <2>1. pop(Append(seq, c)) = SubSeq(Append(seq, c), 1, Len(seq))
    BY <1>3 DEF pop
  <2>2. SubSeq(Append(seq, c), 1, Len(seq)) = seq
    BY <1>2, <1>3
  <2> QED
    BY <2>1, <2>2
<1> QED
  BY <1>4, <1>5, <1>6

\* Popping leaves a sequence.
LEMMA SeqFront ==
    ASSUME NEW seq, IsSeq(seq), seq # <<>>
    PROVE  IsSeq(pop(seq))
<1>1. PICK S : seq \in Seq(S)
  BY DEF IsSeq
<1>2. pop(seq) \in Seq(S)
  BY <1>1 DEF pop
<1> QED
  BY <1>2 DEF IsSeq

\* Taking the next continuation leaves the loop ready to run its handler.
LEMMA TakenState ==
    ASSUME NEW st, Ready(st), st.cs # <<>>
    PROVE  /\ Ready(Taken(st)) /\ Taken(st).p = st.p /\ Taken(st).brk = st.brk
           /\ Taken(st).forest = st.forest /\ Taken(st).cs = pop(st.cs)
           /\ NextUp(st) = peek(st.cs)
<1>1. IsSeq(pop(st.cs))
  BY SeqFront DEF Ready, IsState
<1> QED
  BY <1>1, Zenon DEF Ready, IsState, Fields, Taken, NextUp

\* Twins take the same continuation and are left in the same state, but for the
\* stopper.
LEMMA TakenTwin ==
    ASSUME NEW a, NEW b, Ready(a), Twin(a, b), a.brk = NoBreak, a.cs # <<>>
    PROVE  Taken(b) = Never(Taken(a)) /\ NextUp(b) = NextUp(a)
<1> DEFINE x == Taken(b)
           y == Taken(a)
           z == Never(y)
<1>1. IsState(b) /\ IsSeq(b.cs) /\ b.t = a.t
  BY DEF Twin, IsState, Ready
<1>2. /\ Ready(y) /\ y.p = a.p /\ y.brk = a.brk /\ y.forest = a.forest /\ y.cs = pop(a.cs)
      /\ NextUp(a) = peek(a.cs)
  BY TakenState
<1>3. /\ (IF b.cursor # NoContinuation THEN b.cs ELSE pop(b.cs)) = pop(a.cs)
      /\ NextUp(b) = peek(a.cs)
  BY <1>1, SeqLast DEF Twin, Agenda, NextUp
<1>4. /\ x = [f \in Fields |-> x[f]] /\ x.p = b.p /\ x.t = b.t /\ x.stopper = b.stopper
      /\ x.forest = b.forest /\ x.cursor = NoContinuation /\ x.brk = b.brk
      /\ x.status = b.status /\ x.cs = pop(a.cs)
  BY <1>1, <1>3, Zenon DEF Taken, IsState, Fields
<1> HIDE DEF x, y
<1>5. /\ IsState(z) /\ z.p = y.p /\ z.t = y.t /\ z.cs = y.cs /\ z.forest = y.forest
      /\ z.cursor = y.cursor /\ z.brk = y.brk /\ z.status = y.status
      /\ z.stopper = "NeverStopper"
  BY <1>2, NeverState DEF Ready
<1>6. y.t = a.t /\ y.cursor = NoContinuation /\ y.status = "running" /\ a.t = NoopTracer
  BY <1>2 DEF Ready, IsState
<1> HIDE DEF z
<1>7. /\ x.p = z.p /\ x.t = z.t /\ x.stopper = z.stopper /\ x.cs = z.cs /\ x.forest = z.forest
      /\ x.cursor = z.cursor /\ x.brk = z.brk /\ x.status = z.status
  BY <1>1, <1>2, <1>4, <1>5, <1>6 DEF Twin
<1>8. x = z
  BY <1>4, <1>5, <1>7, StateExtensional DEF IsState
<1> QED
  BY <1>2, <1>3, <1>8 DEF x, y, z

\* A forest load after a break ends alike in both loops, failed loads included.
LEMMA LoadsCorrespond ==
    ASSUME NEW st, Ready(st)
    PROVE  /\ HandlerEnd(st.p.clk, Load(st, finish_load_mast_forest_from_dyn_start),
                         Load(Never(st), finish_load_mast_forest_from_dyn_start))
           /\ HandlerEnd(st.p.clk, Load(st, finish_load_mast_forest_from_external),
                         Load(Never(st), finish_load_mast_forest_from_external))
<1> DEFINE loaded == load_mast_forest(st.p, st.brk.digest)
<1>1. Kept(st.p, loaded.p) /\ loaded = load_mast_forest(Never(st).p, Never(st).brk.digest)
  BY LoadKept, ReadyState
<1> HIDE DEF loaded
<1>2. CASE loaded.p.err # "none"
  <2>1. loaded.p.err \in Errors
    BY <1>1, <1>2 DEF Kept, IsProcessor
  <2>2. /\ Load(st, finish_load_mast_forest_from_dyn_start) = [st EXCEPT !.status = loaded.p.err]
        /\ Load(Never(st), finish_load_mast_forest_from_dyn_start)
             = [Never(st) EXCEPT !.status = loaded.p.err]
    BY <1>1, <1>2 DEF Load, loaded
  <2>3. /\ Load(st, finish_load_mast_forest_from_external) = [st EXCEPT !.status = loaded.p.err]
        /\ Load(Never(st), finish_load_mast_forest_from_external)
             = [Never(st) EXCEPT !.status = loaded.p.err]
    BY <1>1, <1>2 DEF Load, loaded
  <2> QED
    BY <2>1, <2>2, <2>3, FailedHandler
<1>3. CASE loaded.p.err = "none"
  <2>1. /\ Load(st, finish_load_mast_forest_from_dyn_start)
             = finish_load_mast_forest_from_dyn_start(st, loaded)
        /\ Load(Never(st), finish_load_mast_forest_from_dyn_start)
             = finish_load_mast_forest_from_dyn_start(Never(st), loaded)
    BY <1>1, <1>3 DEF Load, loaded
  <2>2. /\ Load(st, finish_load_mast_forest_from_external)
             = finish_load_mast_forest_from_external(st, loaded)
        /\ Load(Never(st), finish_load_mast_forest_from_external)
             = finish_load_mast_forest_from_external(Never(st), loaded)
    BY <1>1, <1>3 DEF Load, loaded
  <2> QED
    BY <1>1, <2>1, <2>2, LoadDynHandler, LoadExternalHandler
<1> QED
  BY <1>2, <1>3

\* With nothing left to do, twins differ in their stopper only.
LEMMA TwinAtEnd ==
    ASSUME NEW a, NEW b, Ready(a), Twin(a, b), a.cs = <<>>
    PROVE  b = Never(a) /\ Agenda(b) = <<>>
<1>1. IsState(b) /\ IsSeq(b.cs) /\ b.t = a.t /\ IsState(a)
  BY DEF Twin, IsState, Ready
<1>2. b.cursor = NoContinuation /\ b.cs = <<>>
  BY <1>1, SeqLast DEF Twin, Agenda
<1>3. /\ IsState(Never(a)) /\ Never(a).p = a.p /\ Never(a).t = a.t /\ Never(a).cs = a.cs
      /\ Never(a).forest = a.forest /\ Never(a).cursor = NoContinuation
      /\ Never(a).brk = a.brk /\ Never(a).status = "running"
      /\ Never(a).stopper = "NeverStopper"
  BY <1>1, NeverState DEF Ready
<1>4. /\ b.p = a.p /\ b.forest = a.forest /\ b.brk = a.brk /\ b.status = "running"
      /\ b.stopper = "NeverStopper" /\ Agenda(b) = <<>>
  BY DEF Twin
<1>5. b = [x \in Fields |-> b[x]] /\ Never(a) = [x \in Fields |-> Never(a)[x]]
  BY <1>1, <1>3 DEF IsState
<1> QED
  BY <1>1, <1>2, <1>3, <1>4, <1>5, StateExtensional

\* Two loops in the same state, one stepped and one not, take corresponding
\* steps: whatever the next continuation or the break is.
LEMMA AdvanceCorresponds ==
    ASSUME NEW a, NEW b, Between(a), Twin(a, b), CanAdvance(a)
    PROVE  HandlerEnd(a.p.clk, Advance(a), Advance(b))
<1>0. Ready(a) /\ Never(a).brk = a.brk /\ Agenda(a) = a.cs
  BY ReadyState DEF Between, Ready, Agenda
<1>1. CASE a.brk.kind = "Emit"
  <2>1. b = Never(a) /\ a.brk.cont # NoContinuation
    BY <1>1 DEF Twin, Between
  <2>2. /\ Advance(a) = finish_emit_op_execution(a, handle_emit(a.p))
        /\ Advance(b) = finish_emit_op_execution(Never(a), handle_emit(Never(a).p))
    BY <1>0, <1>1, <2>1 DEF Advance
  <2> QED
    BY <1>0, <2>1, <2>2, EmitHandler
<1>2. CASE a.brk.kind = "LoadFromDyn"
  <2>1. b = Never(a)
    BY <1>2 DEF Twin
  <2>2. /\ Advance(a) = Load(a, finish_load_mast_forest_from_dyn_start)
        /\ Advance(b) = Load(Never(a), finish_load_mast_forest_from_dyn_start)
    BY <1>0, <1>2, <2>1 DEF Advance
  <2> QED
    BY <1>0, <2>2, LoadsCorrespond
<1>3. CASE a.brk.kind = "LoadFromExternal"
  <2>1. b = Never(a)
    BY <1>3 DEF Twin
  <2>2. /\ Advance(a) = Load(a, finish_load_mast_forest_from_external)
        /\ Advance(b) = Load(Never(a), finish_load_mast_forest_from_external)
    BY <1>0, <1>3, <2>1 DEF Advance
  <2> QED
    BY <1>0, <2>2, LoadsCorrespond
<1>4. CASE a.brk.kind = "none" /\ a.cs = <<>>
  <2>1. b = Never(a) /\ Agenda(b) = <<>>
    BY <1>0, <1>4, TwinAtEnd
  <2>2. Advance(a) = return_outputs(a) /\ Advance(b) = return_outputs(Never(a))
    BY <1>0, <1>4, <2>1 DEF Advance
  <2> QED
    BY <1>0, <2>2, ReturnHandler
<1>5. CASE a.brk.kind = "none" /\ a.cs # <<>>
  <2> DEFINE st == Taken(a)
             cont == NextUp(a)
  <2>1. /\ Ready(st) /\ st.brk = NoBreak /\ st.p = a.p /\ st.forest = a.forest
    BY <1>0, <1>5, TakenState DEF Between
  <2>2. Taken(b) = Never(st) /\ NextUp(b) = cont
    BY <1>0, <1>5, TakenTwin DEF Between
  <2>3. Agenda(b) # <<>> /\ b.brk.kind = "none"
    BY <1>5 DEF Twin
  <2>4. Advance(a) = Handler(st, cont) /\ Advance(b) = Handler(Never(st), cont)
    BY <1>0, <1>5, <2>2, <2>3 DEF Advance
  <2>5. Handled(st, cont)
    <3>1. Handled(a, cont)
      BY <1>0, <1>5 DEF CanAdvance
    <3> QED
      BY <2>1, <3>1 DEF Handled
  <2> HIDE DEF st, cont
  <2> QED
    BY <2>1, <2>4, <2>5, HandlersCorrespond
<1> QED
  BY <1>1, <1>2, <1>3, <1>4, <1>5 DEF CanAdvance

----------------------------------------------------------------------------
(* Context ids                                                             *)

\* Every context that the processor knows of has an id up to n.
Below(p, n) ==
    /\ IsSeq(p.calls)
    /\ p.ctx \in 0 .. n
    /\ \A k \in DOMAIN p.calls : p.calls[k].ctx \in 0 .. n
    /\ \A loc \in DOMAIN p.mem : loc[1] \in 0 .. n

\* q is the processor after a method of p that works in the current context.
Within(p, q) ==
    /\ Kept(p, q)
    /\ q.ctx = p.ctx /\ q.calls = p.calls
    /\ DOMAIN p.mem \subseteq DOMAIN q.mem
    /\ \A loc \in DOMAIN q.mem : loc \in DOMAIN p.mem \/ loc[1] = p.ctx

\* q is the processor after a handler's work on p, before the clock moves.
Worked(p, q) ==
    /\ Kept(p, q)
    /\ FreshContext(p, q)
    /\ Below(q, p.clk + 1)

\* A wider bound holds as well.
LEMMA BelowNext ==
    ASSUME NEW p, NEW n \in Nat, Below(p, n)
    PROVE  Below(p, n + 1)
<1>1. 0 .. n \subseteq 0 .. n + 1
  OBVIOUS
<1> QED
  BY <1>1 DEF Below

\* Work in the current context keeps the bound and enters no context.
LEMMA WithinBelow ==
    ASSUME NEW p, NEW q, NEW n, Within(p, q), Below(p, n)
    PROVE  Below(q, n) /\ FreshContext(p, q)
<1>1. Below(q, n)
  BY DEF Within, Below
<1>2. Len(p.calls) \in Nat /\ q.calls = p.calls
  <2>1. PICK S : p.calls \in Seq(S)
    BY DEF Below, IsSeq
  <2> QED
    BY <2>1 DEF Within
<1> QED
  BY <1>1, <1>2 DEF FreshContext

\* Work in the current context is a handler's work.
LEMMA WithinWorked ==
    ASSUME NEW p, NEW q, Within(p, q), Below(p, p.clk + 1)
    PROVE  Worked(p, q)
BY WithinBelow DEF Worked, Within

\* The bound of a processor between two cycles will do.
LEMMA WithinAtClock ==
    ASSUME NEW p, NEW q, Within(p, q), IsProcessor(p), Below(p, p.clk)
    PROVE  Worked(p, q)
BY BelowNext, WithinWorked DEF IsProcessor

\* The processor after work in the current context.
LEMMA WithinProcessor ==
    ASSUME NEW p, NEW q, Within(p, q)
    PROVE  IsProcessor(q) /\ q.clk = p.clk /\ q.ctx = p.ctx
BY DEF Within, Kept

\* A processor that stays the same enters no context.
LEMMA StillFresh ==
    ASSUME NEW p
    PROVE  FreshContext(p, p)
BY DEF FreshContext

\* Two methods in a row.
LEMMA WithinTransitive ==
    ASSUME NEW p, NEW q, NEW r, Within(p, q), Within(q, r)
    PROVE  Within(p, r)
BY DEF Within, Kept

\* A handler's work may begin with a method that works in the current context.
LEMMA WithinThenWorked ==
    ASSUME NEW p, NEW q, NEW r, Within(p, q), Worked(q, r)
    PROVE  Worked(p, r)
<1>1. Kept(p, r) /\ Below(r, p.clk + 1)
  BY DEF Within, Worked, Kept
<1>2. FreshContext(p, r)
  BY DEF Within, Worked, FreshContext, KnownContexts
<1> QED
  BY <1>1, <1>2 DEF Worked

\* A method that touches neither registers, nor saved calls, nor memory.
LEMMA FieldsWithin ==
    ASSUME NEW p, NEW q, Kept(p, q), q.ctx = p.ctx, q.calls = p.calls, q.mem = p.mem
    PROVE  Within(p, q)
BY DEF Within

\* Setting a stack element stays in the current context.
LEMMA SetWithin ==
    ASSUME NEW p, IsProcessor(p), NEW i, NEW v
    PROVE  Within(p, set(p, i, v))
<1> DEFINE q == set(p, i, v)
<1>1. q.ctx = p.ctx /\ q.calls = p.calls /\ q.mem = p.mem
  BY DEF IsProcessor, set
<1>2. Kept(p, q)
  BY SetKept
<1> HIDE DEF q
<1>3. Within(p, q)
  BY <1>1, <1>2, FieldsWithin
<1> QED
  BY <1>3 DEF q

\* decrement_size stays in the current context.
LEMMA DecrementWithin ==
    ASSUME NEW p, IsProcessor(p)
    PROVE  Within(p, decrement_size(p))
<1> DEFINE q == decrement_size(p)
<1>1. q.ctx = p.ctx /\ q.calls = p.calls /\ q.mem = p.mem
  BY DEF IsProcessor, decrement_size
<1>2. Kept(p, q)
  BY DecrementKept
<1> HIDE DEF q
<1>3. Within(p, q)
  BY <1>1, <1>2, FieldsWithin
<1> QED
  BY <1>3 DEF q

\* increment_size, or its failure, stays in the current context.
LEMMA IncrementWithin ==
    ASSUME NEW p, IsProcessor(p)
    PROVE  Within(p, increment_size(p))
<1> DEFINE q == increment_size(p)
<1>1. q.ctx = p.ctx /\ q.calls = p.calls /\ q.mem = p.mem
  BY DEF IsProcessor, increment_size
<1>2. Kept(p, q)
  BY IncrementKept
<1> HIDE DEF q
<1>3. Within(p, q)
  BY <1>1, <1>2, FieldsWithin
<1> QED
  BY <1>3 DEF q

\* Popping the advice stack stays in the current context.
LEMMA PopWithin ==
    ASSUME NEW p, IsProcessor(p)
    PROVE  Within(p, pop_stack(p).p)
<1> DEFINE q == pop_stack(p).p
<1>1. q.ctx = p.ctx /\ q.calls = p.calls /\ q.mem = p.mem
  BY DEF IsProcessor, pop_stack
<1>2. Kept(p, q)
  BY PopKept
<1> HIDE DEF q
<1>3. Within(p, q)
  BY <1>1, <1>2, FieldsWithin
<1> QED
  BY <1>3 DEF q

\* restore_context brings back the stack of the caller, not yet its context.
LEMMA RestoreContextWithin ==
    ASSUME NEW p, IsProcessor(p)
    PROVE  Within(p, restore_context(p))
<1> DEFINE q == restore_context(p)
<1>1. q.ctx = p.ctx /\ q.calls = p.calls /\ q.mem = p.mem
  BY DEF IsProcessor, restore_context
<1>2. Kept(p, q)
  BY RestoreContextKept
<1> HIDE DEF q
<1>3. Within(p, q)
  BY <1>1, <1>2, FieldsWithin
<1> QED
  BY <1>3 DEF q

\* An event handler of the host does not change the context.
LEMMA EmitWithin ==
    ASSUME NEW p, IsProcessor(p)
    PROVE  Within(p, handle_emit(p))
<1> DEFINE q == handle_emit(p)
<1>1. q.ctx = p.ctx /\ q.calls = p.calls /\ q.mem = p.mem
  BY DEF IsProcessor, handle_emit
<1>2. Kept(p, q)
  BY EmitKept
<1> HIDE DEF q
<1>3. Within(p, q)
  BY <1>1, <1>2, FieldsWithin
<1> QED
  BY <1>3 DEF q

\* Neither does loading a forest from the host.
LEMMA LoadWithin ==
    ASSUME NEW p, IsProcessor(p), NEW digest
    PROVE  Within(p, load_mast_forest(p, digest).p)
<1> DEFINE q == load_mast_forest(p, digest).p
<1>1. q.ctx = p.ctx /\ q.calls = p.calls /\ q.mem = p.mem
  BY DEF IsProcessor, load_mast_forest
<1>2. Kept(p, q)
  BY LoadKept
<1> HIDE DEF q
<1>3. Within(p, q)
  BY <1>1, <1>2, FieldsWithin
<1> QED
  BY <1>3 DEF q

\* A write to the memory of the current context stays in it.
LEMMA WriteWithin ==
    ASSUME NEW p, IsProcessor(p), NEW addr, NEW v
    PROVE  Within(p, write_element(p, p.ctx, addr, v))
<1> DEFINE q == write_element(p, p.ctx, addr, v)
<1>1. /\ q.ctx = p.ctx /\ q.calls = p.calls
      /\ DOMAIN q.mem = DOMAIN p.mem \/ DOMAIN q.mem = DOMAIN p.mem \cup {<<p.ctx, addr>>}
  BY DEF IsProcessor, write_element
<1>2. Kept(p, q)
  BY WriteKept
<1> HIDE DEF q
<1>3. Within(p, q)
  BY <1>1, <1>2 DEF Within
<1> QED
  BY <1>3 DEF q

\* A handler that leaves the processor alone.
LEMMA IdleWorked ==
    ASSUME NEW p, IsProcessor(p), Below(p, p.clk)
    PROVE  Within(p, p) /\ Worked(p, p)
<1>1. Within(p, p)
  BY DEF Within, Kept
<1> QED
  BY <1>1, WithinAtClock

\* Saving the call state appends the current context.
LEMMA SavedCall ==
    ASSUME NEW p, IsProcessor(p), Below(p, p.clk), NEW q, q = save_call_state(start_context(p))
    PROVE  /\ IsProcessor(q) /\ q.clk = p.clk /\ q.ctx = p.ctx /\ q.mem = p.mem
           /\ IsSeq(q.calls) /\ Len(q.calls) = Len(p.calls) + 1
           /\ \A k \in DOMAIN q.calls : q.calls[k].ctx \in 0 .. p.clk
<1> DEFINE r == start_context(p)
           call == [ctx |-> r.ctx, caller_hash |-> r.caller_hash]
<1>1. Kept(p, r) /\ r.ctx = p.ctx /\ r.calls = p.calls /\ r.mem = p.mem
  BY StartContextKept DEF start_context, IsProcessor
<1>0. q = save_call_state(r)
  OBVIOUS
<1> HIDE DEF r
<1>2. /\ Kept(r, q) /\ q.ctx = r.ctx /\ q.mem = r.mem /\ q.calls = Append(r.calls, call)
  BY <1>0, <1>1, SaveCallKept DEF save_call_state, IsProcessor, Kept
<1>3. PICK S : p.calls \in Seq(S)
  BY DEF Below, IsSeq
<1>4. call.ctx = p.ctx
  BY <1>1
<1> HIDE DEF call
<1>5. p.calls \in Seq(S \cup {call})
  BY <1>3
<1>6. /\ Append(p.calls, call) \in Seq(S \cup {call})
      /\ Len(Append(p.calls, call)) = Len(p.calls) + 1
      /\ \A k \in DOMAIN Append(p.calls, call) :
           Append(p.calls, call)[k] = call \/ (k \in DOMAIN p.calls /\ Append(p.calls, call)[k] = p.calls[k])
  BY <1>5
<1>7. \A k \in DOMAIN q.calls : q.calls[k].ctx \in 0 .. p.clk
  BY <1>1, <1>2, <1>4, <1>6 DEF Below
<1>8. IsSeq(q.calls) /\ Len(q.calls) = Len(p.calls) + 1
  BY <1>1, <1>2, <1>6 DEF IsSeq
<1>9. IsProcessor(q) /\ q.clk = p.clk /\ q.ctx = p.ctx /\ q.mem = p.mem
  BY <1>1, <1>2 DEF Kept
<1> QED
  BY <1>7, <1>8, <1>9, Zenon

\* Entering a context of its own: the id is one more than the clock, which no
\* context before it can have.
LEMMA EnterWorked ==
    ASSUME NEW p, IsProcessor(p), Below(p, p.clk), NEW callee
    PROVE  Worked(p, enter_context(save_call_state(start_context(p)), callee))
<1> DEFINE q == save_call_state(start_context(p))
           r == enter_context(q, callee)
<1>1. /\ IsProcessor(q) /\ q.clk = p.clk /\ q.ctx = p.ctx /\ q.mem = p.mem
      /\ IsSeq(q.calls) /\ Len(q.calls) = Len(p.calls) + 1
      /\ \A k \in DOMAIN q.calls : q.calls[k].ctx \in 0 .. p.clk
  BY SavedCall
<1> HIDE DEF q
<1>2. p.clk \in Nat /\ 0 .. p.clk \subseteq 0 .. p.clk + 1 /\ p.clk + 1 \notin 0 .. p.clk
      /\ p.clk + 1 \in 0 .. p.clk + 1
  BY DEF IsProcessor
<1>3. Kept(p, r)
  BY <1>1, EnterContextKept DEF Kept
<1>4. /\ r.ctx = p.clk + 1 /\ r.calls = q.calls
      /\ \A loc \in DOMAIN r.mem : loc \in DOMAIN p.mem \/ loc[1] = p.clk + 1
  BY <1>1 DEF enter_context, get_next_ctx_id, write_element, IsProcessor
<1> HIDE DEF r
<1>5. Below(r, p.clk + 1)
  BY <1>1, <1>2, <1>4 DEF Below
<1>6. FreshContext(p, r)
  BY <1>2, <1>4 DEF FreshContext, KnownContexts, Below
<1> QED
  BY <1>3, <1>5, <1>6 DEF Worked, r, q

\* A syscall goes back to the root context.
LEMMA SyscallWorked ==
    ASSUME NEW p, IsProcessor(p), Below(p, p.clk)
    PROVE  Worked(p, [save_call_state(start_context(p)) EXCEPT !.ctx = 0])
<1> DEFINE q == save_call_state(start_context(p))
           r == [q EXCEPT !.ctx = 0]
<1>1. /\ IsProcessor(q) /\ q.clk = p.clk /\ q.ctx = p.ctx /\ q.mem = p.mem
      /\ IsSeq(q.calls) /\ Len(q.calls) = Len(p.calls) + 1
      /\ \A k \in DOMAIN q.calls : q.calls[k].ctx \in 0 .. p.clk
  BY SavedCall
<1> HIDE DEF q
<1>2. p.clk \in Nat /\ 0 .. p.clk \subseteq 0 .. p.clk + 1 /\ 0 \in 0 .. p.clk + 1
  BY DEF IsProcessor
<1>3. Kept(p, r) /\ r.ctx = 0 /\ r.calls = q.calls /\ r.mem = p.mem
  BY <1>1 DEF Kept, IsProcessor
<1> HIDE DEF r
<1> QED
  BY <1>1, <1>2, <1>3 DEF Worked, Below, FreshContext, r, q

\* A return goes back to a context that was saved.
LEMMA LeaveWorked ==
    ASSUME NEW p, IsProcessor(p), Below(p, p.clk)
    PROVE  Worked(p, leave_context(p))
<1> DEFINE q == restore_context(p)
           r == restore_call_state(q)
<1>1. Within(p, q)
  BY RestoreContextWithin
<1>2. p.clk \in Nat /\ Below(p, p.clk + 1)
  BY BelowNext DEF IsProcessor
<1> HIDE DEF q
<1>3. IsProcessor(q) /\ q.clk = p.clk /\ q.calls = p.calls /\ Below(q, q.clk + 1)
  BY <1>1, <1>2, WithinBelow DEF Within, Kept
<1>4. Worked(q, r)
  <2>1. Kept(q, r)
    BY <1>3, RestoreCallKept
  <2>2. CASE q.calls = <<>>
    <3>1. Within(q, r)
      BY <1>3, <2>1, <2>2 DEF Within, restore_call_state, IsProcessor
    <3> QED
      BY <1>3, <3>1, WithinWorked
  <2>3. CASE q.calls # <<>>
    <3>1. r.ctx = peek(q.calls).ctx /\ r.calls = pop(q.calls) /\ r.mem = q.mem
      BY <1>3, <2>3 DEF restore_call_state, IsProcessor
    <3>2. PICK S : q.calls \in Seq(S)
      BY <1>3 DEF Below, IsSeq
    <3>3. Len(q.calls) \in DOMAIN q.calls
      BY <2>3, <3>2
    <3>4. /\ pop(q.calls) \in Seq(S) /\ Len(pop(q.calls)) < Len(q.calls)
          /\ \A k \in DOMAIN pop(q.calls) : k \in DOMAIN q.calls /\ pop(q.calls)[k] = q.calls[k]
      BY <2>3, <3>2 DEF pop
    <3>5. Below(r, q.clk + 1)
      BY <1>3, <3>1, <3>3, <3>4 DEF Below, IsSeq, peek
    <3>6. FreshContext(q, r)
      <4>1. Len(q.calls) \in Nat /\ Len(r.calls) \in Nat /\ ~(Len(r.calls) > Len(q.calls))
        BY <3>1, <3>2, <3>4
      <4> QED
        BY <4>1 DEF FreshContext
    <3> QED
      BY <2>1, <3>5, <3>6 DEF Worked
  <2> QED
    BY <2>2, <2>3
<1> HIDE DEF r
<1>5. Worked(p, r)
  BY <1>1, <1>4, WithinThenWorked
<1>6. Worked(p, q)
  BY <1>1, <1>2, WithinWorked
<1> QED
  BY <1>5, <1>6 DEF leave_context, OnSuccess, q, r

\* Pushing a value works in the current context.
LEMMA PushValueWithin ==
    ASSUME NEW p, IsProcessor(p), NEW value
    PROVE  Within(p, push_value(p, value))
<1> DEFINE q == increment_size(p)
<1>1. Within(p, q) /\ IsProcessor(q)
  BY IncrementWithin, WithinProcessor
<1> HIDE DEF q
<1>2. Within(q, set(q, 0, value))
  BY <1>1, SetWithin
<1>3. Within(p, set(q, 0, value))
  BY <1>1, <1>2, WithinTransitive
<1> QED
  BY <1>1, <1>3 DEF push_value, OnSuccess, q

\* ADD, SWAP, ASSERT and MSTORE work in the current context.
LEMMA OpMethodWithin ==
    ASSUME NEW p, IsProcessor(p)
    PROVE  /\ Within(p, op_add(p)) /\ Within(p, op_swap(p)) /\ Within(p, op_assert(p))
           /\ Within(p, op_mstore(p))
<1> DEFINE q == decrement_size(p)
           r == set(p, 0, get(p, 1))
<1>1. Within(p, q) /\ IsProcessor(q) /\ q.ctx = p.ctx
  BY DecrementWithin, WithinProcessor
<1>2. Within(p, r) /\ IsProcessor(r)
  BY SetWithin, WithinProcessor
<1>3. Within(p, [p EXCEPT !.err = "FailedAssertion"])
  BY DEF Within, Kept, IsProcessor, Errors
<1> HIDE DEF q, r
<1>4. Within(q, set(q, 0, get(p, 1) + get(p, 0)))
  BY <1>1, SetWithin
<1>5. Within(r, set(r, 1, get(p, 0)))
  BY <1>2, SetWithin
<1>6. Within(q, write_element(q, q.ctx, get(p, 0), get(p, 1)))
  BY <1>1, WriteWithin
<1>7. Within(p, op_add(p))
  BY <1>1, <1>4, WithinTransitive DEF op_add, q
<1>8. Within(p, op_swap(p))
  BY <1>2, <1>5, WithinTransitive DEF op_swap, r
<1>9. Within(p, op_assert(p))
  BY <1>1, <1>3 DEF op_assert, q
<1>10. Within(p, op_mstore(p))
  BY <1>1, <1>6, WithinTransitive DEF op_mstore, q
<1> QED
  BY <1>7, <1>8, <1>9, <1>10, Zenon

----------------------------------------------------------------------------
(* Context ids in the loop                                                 *)

\* The loop while it runs a handler, whatever the stopper.
InHandler(st) ==
    /\ st = [x \in Fields |-> st[x]]
    /\ st.t = NoopTracer
    /\ st.status = "running"
    /\ st.brk.kind # "LoadFromDyn"

\* The greatest context id there can be: a loop that returned for the callee of
\* a dyncall is already in the callee's context, and its clock has not moved.
Horizon(st) == IF st.brk.kind = "LoadFromDyn" THEN st.p.clk + 1 ELSE st.p.clk

\* A loop that is not at its end knows of contexts up to its horizon.
Bounded(st) == st.status \in {"running", "stopped"} => Below(st.p, Horizon(st))

\* What a handler of processor p leaves in r.
Outcome(p, r) ==
    /\ r = [x \in Fields |-> r[x]]
    /\ FreshContext(p, r.p)
    /\ Bounded(r)

\* A handler goes on with another processor, or with more continuations.
LEMMA InHandlerState ==
    ASSUME NEW st, InHandler(st), NEW p, NEW conts, NEW cont
    PROVE  /\ InHandler(WithP(st, p)) /\ WithP(st, p).p = p /\ WithP(st, p).forest = st.forest
           /\ InHandler(push(st, conts)) /\ push(st, conts).p = st.p
           /\ push(st, conts).forest = st.forest
           /\ start_cycle(st, cont) = st
<1>1. InHandler(WithP(st, p)) /\ WithP(st, p).p = p /\ WithP(st, p).forest = st.forest
  BY Zenon DEF InHandler, WithP, Fields
<1>2. InHandler(push(st, conts)) /\ push(st, conts).p = st.p
      /\ push(st, conts).forest = st.forest
  BY Zenon DEF InHandler, push, Fields
<1>3. start_cycle(st, cont) = st
  BY DEF InHandler, Fields, start_cycle, start_clock_cycle
<1> QED
  BY <1>1, <1>2, <1>3

\* A handler that fails.
LEMMA FailedOutcome ==
    ASSUME NEW st, st = [x \in Fields |-> st[x]], NEW p, FreshContext(p, st.p),
           NEW error, error \in Errors
    PROVE  Outcome(p, [st EXCEPT !.status = error])
<1> DEFINE r == [st EXCEPT !.status = error]
<1>1. r = [x \in Fields |-> r[x]] /\ r.p = st.p /\ r.status = error
  BY Zenon DEF Fields
<1> HIDE DEF r
<1>2. error \notin {"running", "stopped"}
  BY DEF Errors
<1> QED
  BY <1>1, <1>2 DEF Outcome, Bounded, r

\* The end of a cycle moves the clock up to the greatest context id.
LEMMA CycleOutcome ==
    ASSUME NEW st, InHandler(st), NEW p, IsProcessor(p), Worked(p, st.p), NEW forest, NEW cont
    PROVE  Outcome(p, finalize(st, forest, cont))
<1>0. IsProcessor(st.p) /\ st.p.clk = p.clk /\ FreshContext(p, st.p) /\ Below(st.p, p.clk + 1)
  BY DEF Worked, Kept
<1>1. CASE st.p.err # "none"
  <2>1. st.p.err \in Errors /\ finalize(st, forest, cont) = [st EXCEPT !.status = st.p.err]
    BY <1>0, <1>1 DEF IsProcessor, finalize
  <2> QED
    BY <1>0, <2>1, FailedOutcome DEF InHandler
<1>2. CASE st.p.err = "none"
  <2> DEFINE ticked == WithP(st, Tick(st.p))
             r == stop_or_go(ticked, cont)
  <2>1. [st EXCEPT !.t = finalize_clock_cycle(@, st.p, forest)] = st
    BY DEF InHandler, Fields, finalize_clock_cycle
  <2>2. [st EXCEPT !.p.clk = @ + 1] = ticked
    BY DEF InHandler, Fields, WithP, Tick
  <2>3. finalize(st, forest, cont) = r
    <3>1. finalize(st, forest, cont) = increment_clk(st, cont)
      BY <1>2, <2>1 DEF finalize
    <3>2. st.t.err = "none"
      BY DEF InHandler, NoopTracer
    <3> QED
      BY <2>2, <3>1, <3>2 DEF increment_clk
  <2>4. InHandler(ticked) /\ ticked.p = Tick(st.p)
    BY InHandlerState
  <2> HIDE DEF ticked
  <2>5. r = [x \in Fields |-> r[x]] /\ r.p = Tick(st.p) /\ r.brk = ticked.brk
    BY <2>4, Zenon DEF stop_or_go, InHandler, Fields
  <2> HIDE DEF r
  <2>6. /\ Tick(st.p).clk = p.clk + 1 /\ Tick(st.p).ctx = st.p.ctx
        /\ Tick(st.p).calls = st.p.calls /\ Tick(st.p).mem = st.p.mem
    BY <1>0 DEF Tick, IsProcessor
  <2>7. Below(r.p, r.p.clk) /\ FreshContext(p, r.p)
    BY <1>0, <2>5, <2>6 DEF Below, FreshContext
  <2>8. Horizon(r) = r.p.clk
    BY <2>4, <2>5 DEF Horizon, InHandler
  <2> QED
    BY <2>3, <2>5, <2>7, <2>8 DEF Outcome, Bounded
<1> QED
  BY <1>1, <1>2

\* Going on inside a basic block changes the cursor only.
LEMMA GoOnOutcome ==
    ASSUME NEW p, NEW r, Outcome(p, r), NEW cont
    PROVE  Outcome(p, go_on(r, cont))
<1> DEFINE e == [r EXCEPT !.cursor = cont]
<1>1. e = [x \in Fields |-> e[x]] /\ e.p = r.p /\ e.status = r.status /\ e.brk = r.brk
  BY Zenon DEF Outcome, Fields
<1> HIDE DEF e
<1>2. Outcome(p, e)
  BY <1>1 DEF Outcome, Bounded, Horizon
<1> QED
  BY <1>2 DEF go_on, IfRunning, e

\* A handler that works on the processor, pushes continuations and ends its cycle.
LEMMA PushOutcome ==
    ASSUME NEW st, InHandler(st), IsProcessor(st.p), NEW p, Worked(st.p, p), NEW conts,
           NEW forest, NEW cont
    PROVE  /\ Outcome(st.p, finalize(push(WithP(st, p), conts), forest, cont))
           /\ Outcome(st.p, finalize(WithP(st, p), forest, cont))
<1>1. InHandler(WithP(st, p)) /\ WithP(st, p).p = p
  BY InHandlerState
<1>2. InHandler(push(WithP(st, p), conts)) /\ push(WithP(st, p), conts).p = p
  BY <1>1, InHandlerState
<1> QED
  BY <1>1, <1>2, CycleOutcome

\* A handler that leaves the processor to the end of its cycle.
LEMMA PlainOutcome ==
    ASSUME NEW st, InHandler(st), IsProcessor(st.p), Below(st.p, st.p.clk), NEW conts,
           NEW forest, NEW cont
    PROVE  /\ Outcome(st.p, finalize(push(st, conts), forest, cont))
           /\ Outcome(st.p, finalize(st, forest, cont))
<1>1. Worked(st.p, st.p)
  BY IdleWorked
<1>2. InHandler(push(st, conts)) /\ push(st, conts).p = st.p
  BY InHandlerState
<1> QED
  BY <1>1, <1>2, CycleOutcome

\* An operation of a basic block works in the current context.
LEMMA OpWithin ==
    ASSUME NEW st, InHandler(st), IsProcessor(st.p), NEW op
    PROVE  InHandler(execute_op(st, op)) /\ Within(st.p, execute_op(st, op).p)
<1> DEFINE Result(p) == Within(st.p, p) /\ execute_op(st, op) = WithP(st, p)
<1>1. ASSUME op.name = "mload"
      PROVE  \E p : Result(p)
  <2> DEFINE read == read_element(st.p, st.p.ctx, get(st.p, 0))
             q    == set(read.p, 0, read.value)
  <2>1. read.p = st.p
    BY DEF read_element
  <2>2. Within(st.p, q)
    BY <2>1, SetWithin
  <2>3. op_mload(st) = WithP(st, q)
    BY Zenon DEF op_mload, WithP, InHandler, Fields, record_memory_read_element
  <2>4. execute_op(st, op) = op_mload(st)
    BY <1>1 DEF execute_op
  <2> HIDE DEF q
  <2> QED
    BY <2>2, <2>3, <2>4, Zenon
<1>2. ASSUME op.name = "advpop"
      PROVE  \E p : Result(p)
  <2> DEFINE popped == pop_stack(st.p)
             pushed == push_value(popped.p, popped.value)
             q == IF popped.p.err = "none" THEN pushed ELSE popped.p
  <2>1. Within(st.p, popped.p) /\ IsProcessor(popped.p)
    BY PopWithin, WithinProcessor
  <2>2. Within(st.p, pushed)
    BY <2>1, PushValueWithin, WithinTransitive
  <2>3. op_advpop(st) = WithP(st, q)
    BY Zenon DEF op_advpop, WithP, InHandler, Fields, record_advice_pop_stack, OnSuccess
  <2>4. execute_op(st, op) = op_advpop(st)
    BY <1>2 DEF execute_op
  <2>5. Within(st.p, q)
    BY <2>1, <2>2
  <2> HIDE DEF q
  <2> QED
    BY <2>3, <2>4, <2>5, Zenon
<1>3. ASSUME op.name # "mload", op.name # "advpop"
      PROVE  \E p : Result(p)
  <2> DEFINE p == st.p
             q == CASE op.name = "push"   -> push_value(p, op.imm)
                    [] op.name = "dup"    -> push_value(p, get(p, 0))
                    [] op.name = "sdepth" -> push_value(p, depth(p))
                    [] op.name = "clk"    -> push_value(p, p.clk)
                    [] op.name = "caller" -> set(p, 0, p.caller_hash)
                    [] op.name = "drop"   -> decrement_size(p)
                    [] op.name = "add"    -> op_add(p)
                    [] op.name = "swap"   -> op_swap(p)
                    [] op.name = "assert" -> op_assert(p)
                    [] op.name = "mstore" -> op_mstore(p)
                    [] OTHER -> p
  <2>1. execute_op(st, op) = WithP(st, q)
    BY <1>3 DEF execute_op, WithP
  <2>2. /\ Within(p, push_value(p, op.imm)) /\ Within(p, push_value(p, get(p, 0)))
        /\ Within(p, push_value(p, depth(p))) /\ Within(p, push_value(p, p.clk))
    BY PushValueWithin
  <2>3. Within(p, set(p, 0, p.caller_hash)) /\ Within(p, decrement_size(p))
    BY SetWithin, DecrementWithin
  <2>4. Within(p, p)
    BY DEF Within, Kept
  <2>5. Within(p, q)
    BY <2>2, <2>3, <2>4, OpMethodWithin
  <2> HIDE DEF q
  <2> QED
    BY <2>1, <2>5
<1>4. PICK p : Result(p)
  BY <1>1, <1>2, <1>3
<1> QED
  BY <1>4, InHandlerState

----------------------------------------------------------------------------
(* The handlers and context ids                                            *)

\* The loop has taken a continuation and calls its handler.
Called(st) ==
    /\ InHandler(st)
    /\ IsProcessor(st.p)
    /\ Below(st.p, st.p.clk)

\* Work in the current context, then the end of the cycle.
LEMMA WithinOutcome ==
    ASSUME NEW st, Called(st), NEW p, Within(st.p, p), NEW conts, NEW forest, NEW cont
    PROVE  /\ Outcome(st.p, finalize(push(WithP(st, p), conts), forest, cont))
           /\ Outcome(st.p, finalize(WithP(st, p), forest, cont))
<1>1. Worked(st.p, p)
  BY WithinAtClock DEF Called
<1> QED
  BY <1>1, PushOutcome DEF Called

\* A handler that fails before it has worked on the processor.
LEMMA RefusedOutcome ==
    ASSUME NEW st, Called(st), NEW error, error \in Errors
    PROVE  Outcome(st.p, [st EXCEPT !.status = error])
<1>1. FreshContext(st.p, st.p)
  BY StillFresh
<1> QED
  BY <1>1, FailedOutcome DEF Called, InHandler

\* Join, loop and basic block nodes stay in the current context.
LEMMA StartOutcome ==
    ASSUME NEW st, Called(st), NEW id, NEW batch
    PROVE  /\ Outcome(st.p, start_join_node(st, id))
           /\ Outcome(st.p, start_loop_node(st, id))
           /\ Outcome(st.p, start_basic_block(st, id))
           /\ Outcome(st.p, respan(st, id, batch))
           /\ \A cont : Outcome(st.p, finish_node(st, cont))
<1>0. InHandler(st) /\ IsProcessor(st.p) /\ Below(st.p, st.p.clk)
      /\ \A cont : start_cycle(st, cont) = st
  BY InHandlerState DEF Called
<1>1. Outcome(st.p, start_join_node(st, id)) /\ Outcome(st.p, start_loop_node(st, id))
  BY <1>0, PlainOutcome DEF start_join_node, start_loop_node
<1>2. Outcome(st.p, start_basic_block(st, id)) /\ Outcome(st.p, respan(st, id, batch))
  BY <1>0, PlainOutcome, GoOnOutcome DEF start_basic_block, respan
<1>3. ASSUME NEW cont PROVE Outcome(st.p, finish_node(st, cont))
  BY <1>0, PlainOutcome DEF finish_node
<1> QED
  BY <1>1, <1>2, <1>3

\* A split node drops its condition in the current context.
LEMMA SplitOutcome ==
    ASSUME NEW st, Called(st), NEW id
    PROVE  Outcome(st.p, start_split_node(st, id))
<1> DEFINE p == decrement_size(st.p)
           dropped == WithP(st, p)
<1>1. Within(st.p, p) /\ InHandler(st) /\ start_cycle(st, StartNode(id)) = st
  BY DecrementWithin, InHandlerState DEF Called
<1>2. start_split_node(st, id) = take_branch(dropped, id, get(st.p, 0))
  BY <1>1 DEF start_split_node, WithP
<1>3. InHandler(dropped) /\ dropped.p = p
  BY <1>1, InHandlerState
<1>4. FreshContext(st.p, dropped.p)
  BY <1>1, <1>3, WithinBelow DEF Called
<1>5. Outcome(st.p, [dropped EXCEPT !.status = "NotBinaryValue"])
  BY <1>3, <1>4, FailedOutcome DEF InHandler, Errors
<1>6. \A conts, forest : Outcome(st.p, finalize(push(dropped, conts), forest, NoContinuation))
  BY <1>1, WithinOutcome
<1> HIDE DEF dropped
<1> QED
  BY <1>2, <1>5, <1>6, Zenon DEF take_branch

\* The end of a loop's body drops the condition in the current context.
LEMMA FinishLoopOutcome ==
    ASSUME NEW st, Called(st), NEW id
    PROVE  Outcome(st.p, finish_loop_node(st, id))
<1> DEFINE p == decrement_size(st.p)
<1>1. Within(st.p, p) /\ start_cycle(st, Continuation("FinishLoop", id)) = st
  BY DecrementWithin, InHandlerState DEF Called
<1>2. Outcome(st.p, [st EXCEPT !.status = "NotBinaryValue"])
  BY RefusedOutcome DEF Errors
<1>3. \A conts, forest : Outcome(st.p, finalize(push(WithP(st, p), conts), forest, NoContinuation))
  BY <1>1, WithinOutcome
<1> QED
  BY <1>1, <1>2, <1>3, Zenon DEF finish_loop_node, WithP

\* A call enters a fresh context, a syscall the root context.
LEMMA CallOutcome ==
    ASSUME NEW st, Called(st), NEW id
    PROVE  Outcome(st.p, start_call_node(st, id))
<1> DEFINE node   == get_node_by_id(st.p, st.forest, id)
           callee == get_digest_by_id(st.p, st.forest, node.kids[1])
           saved  == save_call_state(start_context(st.p))
           entered == IF node.kind = "syscall" THEN [saved EXCEPT !.ctx = 0]
                      ELSE enter_context(saved, callee)
<1>1. start_call_node(st, id) = call_callee(st, id, node, callee)
  BY InHandlerState DEF start_call_node, Called
<1> HIDE DEF node, callee
<1>2. Worked(st.p, entered)
  BY EnterWorked, SyscallWorked DEF Called
<1> HIDE DEF entered
<1>3. \A conts, forest :
        Outcome(st.p, finalize(push(WithP(st, entered), conts), forest, NoContinuation))
  BY <1>2, PushOutcome DEF Called
<1>4. /\ Outcome(st.p, [st EXCEPT !.status = "Internal"])
      /\ Outcome(st.p, [st EXCEPT !.status = "SyscallTargetNotInKernel"])
  BY RefusedOutcome DEF Errors
<1> QED
  BY <1>1, <1>3, <1>4, Zenon DEF call_callee, WithP, entered

\* A return leaves the context, alike for calls and dyncalls.
LEMMA ReturnOutcome ==
    ASSUME NEW st, Called(st), NEW id
    PROVE  Outcome(st.p, finish_call_node(st, id)) /\ Outcome(st.p, finish_dyn_node(st, id))
<1> DEFINE node == get_node_by_id(st.p, st.forest, id)
           left == leave_context(st.p)
           p == IF node.kind = "dyncall" THEN left ELSE st.p
<1>0. \A cont : start_cycle(st, cont) = st
  BY InHandlerState DEF Called
<1>1. Worked(st.p, left)
  BY LeaveWorked DEF Called
<1>2. Worked(st.p, st.p)
  BY IdleWorked, Zenon DEF Called
<1>3. Worked(st.p, p)
  BY <1>1, <1>2
<1>4. finish_call_node(st, id) = finalize(WithP(st, left), st.forest, NoContinuation)
  BY <1>0 DEF finish_call_node, WithP
<1>5. finish_dyn_node(st, id) = finalize(WithP(st, p), st.forest, NoContinuation)
  BY <1>0, Zenon DEF finish_dyn_node, WithP
<1> HIDE DEF left, p
<1> QED
  BY <1>1, <1>3, <1>4, <1>5, PushOutcome DEF Called

\* A dyncall enters a fresh context before its callee is found or loaded.
LEMMA DynOutcome ==
    ASSUME NEW st, Called(st), NEW id
    PROVE  Outcome(st.p, start_dyn_node(st, id))
<1> DEFINE node == get_node_by_id(st.p, st.forest, id)
           read == read_word(st.p, st.p.ctx, get(st.p, 0))
           p    == decrement_size(st.p)
           entered == IF node.kind = "dyncall" THEN enter_dyncall(p, read.value) ELSE p
           conts == <<Continuation("FinishDyn", id)>>
           x    == push(WithP(st, entered), conts)
<1>1. Within(st.p, p) /\ read.p = st.p /\ start_cycle(st, StartNode(id)) = st
  BY DecrementWithin, InHandlerState DEF Called, read_word, read_element
<1>2. IsProcessor(p) /\ Below(p, p.clk)
  BY <1>1, WithinBelow DEF Called, Within, Kept
<1> HIDE DEF p, node, conts
<1>3. Worked(st.p, entered)
  <2>1. Worked(p, enter_dyncall(p, read.value))
    BY <1>2, EnterWorked DEF enter_dyncall
  <2>2. Worked(st.p, enter_dyncall(p, read.value))
    BY <1>1, <2>1, WithinThenWorked
  <2>3. Worked(st.p, p)
    BY <1>1, WithinAtClock DEF Called
  <2> QED
    BY <2>2, <2>3
<1>4. start_dyn_node(st, id) = call_dynamic(x, read.value)
  <2>1. [st EXCEPT !.p = entered, !.t = record_memory_read_word(@, read.value)] = WithP(st, entered)
    BY Zenon DEF Called, InHandler, Fields, WithP, record_memory_read_word
  <2> QED
    BY <1>1, <2>1 DEF start_dyn_node, p, node, conts
<1> HIDE DEF entered, read
<1>5. InHandler(x) /\ x.p = entered
  BY InHandlerState DEF Called
<1> HIDE DEF x
<1>6. IsProcessor(entered) /\ entered.clk = st.p.clk /\ FreshContext(st.p, entered)
      /\ Below(entered, st.p.clk + 1)
  BY <1>3 DEF Worked, Kept
<1>7. ASSUME x.p.err # "none"
      PROVE  Outcome(st.p, [x EXCEPT !.status = x.p.err])
  BY <1>5, <1>6, <1>7, FailedOutcome DEF InHandler, IsProcessor
<1>8. \A cs, forest : Outcome(st.p, finalize(push(x, cs), forest, NoContinuation))
  <2>1. SUFFICES ASSUME NEW cs, NEW forest
                 PROVE  Outcome(st.p, finalize(push(x, cs), forest, NoContinuation))
    OBVIOUS
  <2>2. InHandler(push(x, cs)) /\ push(x, cs).p = entered
    BY <1>5, InHandlerState
  <2> QED
    BY <1>3, <2>2, CycleOutcome DEF Called
<1>9. ASSUME NEW digest
      PROVE  Outcome(st.p, [x EXCEPT !.brk = [NoBreak EXCEPT !.kind = "LoadFromDyn",
                                                            !.digest = digest]])
  <2> DEFINE brk == [NoBreak EXCEPT !.kind = "LoadFromDyn", !.digest = digest]
             r   == [x EXCEPT !.brk = brk]
  <2>1. brk.kind = "LoadFromDyn"
    BY DEF NoBreak
  <2> HIDE DEF brk
  <2>2. r = [f \in Fields |-> r[f]] /\ r.p = entered /\ r.brk = brk
    BY <1>5, Zenon DEF InHandler, Fields
  <2> HIDE DEF r
  <2>3. Outcome(st.p, r)
    BY <1>6, <2>1, <2>2 DEF Outcome, Bounded, Horizon
  <2> QED
    BY <2>3 DEF r, brk
<1> QED
  BY <1>4, <1>7, <1>8, <1>9 DEF call_dynamic

\* An external node leaves the processor alone.
LEMMA ExternalOutcome ==
    ASSUME NEW st, Called(st), NEW id
    PROVE  Outcome(st.p, execute_external_node(st, id))
<1> DEFINE digest == get_node_by_id(st.p, st.forest, id).digest
           brk == [NoBreak EXCEPT !.kind = "LoadFromExternal", !.node = id, !.digest = digest]
           r   == [st EXCEPT !.brk = brk]
<1>1. brk.kind = "LoadFromExternal"
  BY DEF NoBreak
<1>2. execute_external_node(st, id) = r
  BY DEF execute_external_node, record_external_node_entered, Called, InHandler, Fields
<1> HIDE DEF brk
<1>3. r = [x \in Fields |-> r[x]] /\ r.p = st.p /\ r.brk = brk
  BY Zenon DEF Called, InHandler, Fields
<1> HIDE DEF r
<1>4. FreshContext(st.p, st.p)
  BY StillFresh
<1> QED
  BY <1>1, <1>2, <1>3, <1>4 DEF Outcome, Bounded, Horizon, Called

\* An operation works in the current context; EMIT leaves that to the caller of
\* the loop.
LEMMA OperationOutcome ==
    ASSUME NEW st, Called(st), NEW id, NEW batch, NEW op
    PROVE  Outcome(st.p, execute_operation(st, id, batch, op))
<1> DEFINE node  == get_node_by_id(st.p, st.forest, id)
           code  == node.batches[batch][op]
           after == get_continuation_after_executing_operation(node, id, batch, op)
           brk   == [NoBreak EXCEPT !.kind = "Emit", !.cont = after]
           r     == [st EXCEPT !.brk = brk]
           e     == execute_op(st, code)
<1>0. start_cycle(st, ResumeBasicBlock(id, batch, op)) = st
  BY InHandlerState DEF Called
<1>1. brk.kind = "Emit"
  BY DEF NoBreak
<1>2. execute_operation(st, id, batch, op)
        = IF code.name = "emit" THEN r
          ELSE go_on(finalize(e, st.forest, after), next_in_block(node, id, batch, op))
  BY <1>0 DEF execute_operation
<1> HIDE DEF brk, code, after, node
<1>3. Outcome(st.p, r)
  <2>1. r = [x \in Fields |-> r[x]] /\ r.p = st.p /\ r.brk = brk
    BY Zenon DEF Called, InHandler, Fields
  <2> HIDE DEF r
  <2>2. FreshContext(st.p, st.p)
    BY StillFresh
  <2> QED
    BY <1>1, <2>1, <2>2 DEF Outcome, Bounded, Horizon, Called
<1> HIDE DEF r
<1>4. Outcome(st.p, go_on(finalize(e, st.forest, after), next_in_block(node, id, batch, op)))
  <2>1. InHandler(e) /\ Within(st.p, e.p)
    BY OpWithin DEF Called
  <2>2. Worked(st.p, e.p)
    BY <2>1, WithinAtClock DEF Called
  <2> HIDE DEF e
  <2>3. Outcome(st.p, finalize(e, st.forest, after))
    BY <2>1, <2>2, CycleOutcome DEF Called
  <2> QED
    BY <2>3, GoOnOutcome
<1> QED
  BY <1>2, <1>3, <1>4

\* Whatever continuation is next, its handler enters no context that was used.
LEMMA HandlerOutcome ==
    ASSUME NEW st, Called(st), NEW cont, Handled(st, cont)
    PROVE  Outcome(st.p, Handler(st, cont))
<1> DEFINE kind == get_node_by_id(st.p, st.forest, cont.node).kind
<1>1. ASSUME cont.kind = "StartNode", kind \in NodeKinds
      PROVE  Outcome(st.p, Handler(st, cont))
  <2>1. Handler(st, cont) = StartHandler(st, kind, cont.node)
    BY <1>1 DEF Handler, EndKinds
  <2> HIDE DEF kind
  <2>2. /\ Outcome(st.p, start_join_node(st, cont.node))
        /\ Outcome(st.p, start_split_node(st, cont.node))
        /\ Outcome(st.p, start_loop_node(st, cont.node))
        /\ Outcome(st.p, start_call_node(st, cont.node))
        /\ Outcome(st.p, start_dyn_node(st, cont.node))
        /\ Outcome(st.p, execute_external_node(st, cont.node))
        /\ Outcome(st.p, start_basic_block(st, cont.node))
    BY StartOutcome, SplitOutcome, CallOutcome, DynOutcome, ExternalOutcome
  <2>3. Outcome(st.p, StartHandler(st, kind, cont.node))
    BY <1>1, <2>2 DEF StartHandler, NodeKinds
  <2> QED
    BY <2>1, <2>3
<1>2. ASSUME cont.kind \in EndKinds
      PROVE  Outcome(st.p, Handler(st, cont))
  BY <1>2, StartOutcome DEF Handler, EndKinds
<1>3. ASSUME cont.kind \in OtherKinds
      PROVE  Outcome(st.p, Handler(st, cont))
  <2>1. /\ Outcome(st.p, finish_loop_node(st, cont.node))
        /\ Outcome(st.p, finish_call_node(st, cont.node))
        /\ Outcome(st.p, finish_dyn_node(st, cont.node))
        /\ Outcome(st.p, execute_operation(st, cont.node, cont.batch, cont.op))
        /\ Outcome(st.p, respan(st, cont.node, cont.batch))
    BY FinishLoopOutcome, ReturnOutcome, OperationOutcome, StartOutcome
  <2> QED
    BY <1>3, <2>1 DEF Handler, EndKinds, OtherKinds
<1> QED
  BY <1>1, <1>2, <1>3 DEF Handled

\* An EMIT is finished by the host's handler, in the current context.
LEMMA EmitOutcome ==
    ASSUME NEW st, IsState(st), st.status = "running", Below(st.p, st.p.clk)
    PROVE  Outcome(st.p, finish_emit_op_execution(st, handle_emit(st.p)))
<1> DEFINE p == handle_emit(st.p)
           x == [st EXCEPT !.p = p, !.brk = NoBreak]
           r == finalize(x, st.forest, st.brk.cont)
           e == push(r, <<st.brk.cont>>)
<1>1. Worked(st.p, p)
  BY EmitWithin, WithinAtClock DEF IsState
<1> HIDE DEF p
<1>2. InHandler(x) /\ x.p = p
  BY Zenon, NoBreakKind DEF IsState, Fields, InHandler
<1> HIDE DEF x
<1>3. Outcome(st.p, r)
  BY <1>1, <1>2, CycleOutcome DEF IsState
<1>4. finish_emit_op_execution(st, p) = IF r.status = "running" THEN e ELSE r
  BY DEF finish_emit_op_execution, IfRunning, x
<1> HIDE DEF r
<1>5. e = [f \in Fields |-> e[f]] /\ e.p = r.p /\ e.status = r.status /\ e.brk = r.brk
  BY <1>3, Zenon DEF Outcome, Fields, push
<1> HIDE DEF e
<1>6. Outcome(st.p, e)
  BY <1>3, <1>5 DEF Outcome, Bounded, Horizon
<1> QED
  BY <1>3, <1>4, <1>6 DEF p

\* A dyncall whose callee had to be loaded ends its cycle in the context that it
\* entered before the load.
LEMMA LoadDynOutcome ==
    ASSUME NEW st, IsState(st), st.status = "running", Below(st.p, st.p.clk + 1)
    PROVE  Outcome(st.p, Load(st, finish_load_mast_forest_from_dyn_start))
<1> DEFINE loaded == load_mast_forest(st.p, st.brk.digest)
           conts == <<EnterForest(st.forest), StartNode(loaded.root)>>
           x == [st EXCEPT !.p = loaded.p, !.forest = loaded.forest, !.brk = NoBreak]
           r == finalize(push(x, conts), st.forest, NoContinuation)
           e == [r EXCEPT !.t = record_mast_forest_resolution(@, loaded.root, loaded.forest)]
<1>1. Within(st.p, loaded.p)
  BY LoadWithin DEF IsState
<1>2. IsProcessor(loaded.p) /\ Worked(st.p, loaded.p)
  BY <1>1, WithinWorked DEF Within, Kept
<1>3. Load(st, finish_load_mast_forest_from_dyn_start)
        = IF loaded.p.err # "none" THEN [st EXCEPT !.status = loaded.p.err]
          ELSE IF r.status = "running" THEN e ELSE r
  BY DEF Load, finish_load_mast_forest_from_dyn_start, IfRunning
<1> HIDE DEF loaded, conts
<1>4. CASE loaded.p.err # "none"
  <2>1. loaded.p.err \in Errors
    BY <1>2, <1>4 DEF IsProcessor
  <2>2. FreshContext(st.p, st.p)
    BY StillFresh
  <2> QED
    BY <1>3, <1>4, <2>1, <2>2, FailedOutcome DEF IsState
<1>5. CASE loaded.p.err = "none"
  <2>1. InHandler(x) /\ x.p = loaded.p
    BY Zenon, NoBreakKind DEF IsState, Fields, InHandler
  <2> HIDE DEF x
  <2>2. InHandler(push(x, conts)) /\ push(x, conts).p = loaded.p
    BY <2>1, InHandlerState
  <2>3. Outcome(st.p, r)
    BY <1>2, <2>2, CycleOutcome DEF IsState
  <2> HIDE DEF r
  <2>4. e = [f \in Fields |-> e[f]] /\ e.p = r.p /\ e.status = r.status /\ e.brk = r.brk
    BY <2>3, Zenon DEF Outcome, Fields
  <2> HIDE DEF e
  <2>5. Outcome(st.p, e)
    BY <2>3, <2>4 DEF Outcome, Bounded, Horizon
  <2> QED
    BY <1>3, <1>5, <2>3, <2>5
<1> QED
  BY <1>4, <1>5

\* The forest of an external node is entered in the current context.
LEMMA LoadExternalOutcome ==
    ASSUME NEW st, IsState(st), st.status = "running", Below(st.p, st.p.clk)
    PROVE  Outcome(st.p, Load(st, finish_load_mast_forest_from_external))
<1> DEFINE loaded == load_mast_forest(st.p, st.brk.digest)
           kind == get_node_by_id(st.p, loaded.forest, loaded.root).kind
           conts == <<EnterForest(st.forest), StartNode(loaded.root)>>
           x == [st EXCEPT !.p = loaded.p, !.forest = loaded.forest, !.brk = NoBreak,
                   !.t = record_mast_forest_resolution(@, loaded.root, loaded.forest)]
           r == push(x, conts)
<1>1. Within(st.p, loaded.p)
  BY LoadWithin DEF IsState
<1>2. /\ IsProcessor(loaded.p) /\ loaded.p.clk = st.p.clk
      /\ Below(loaded.p, st.p.clk) /\ FreshContext(st.p, loaded.p)
  BY <1>1, WithinBelow DEF Within, Kept
<1>3. Load(st, finish_load_mast_forest_from_external)
        = IF loaded.p.err # "none" THEN [st EXCEPT !.status = loaded.p.err]
          ELSE IF kind = "none" THEN [st EXCEPT !.status = "Internal"]
          ELSE IF kind = "external" THEN [st EXCEPT !.status = "CircularExternalNode"]
          ELSE r
  BY DEF Load, finish_load_mast_forest_from_external
<1> HIDE DEF loaded, conts, kind
<1>4. FreshContext(st.p, st.p)
  BY StillFresh
<1>5. /\ loaded.p.err # "none" => Outcome(st.p, [st EXCEPT !.status = loaded.p.err])
      /\ Outcome(st.p, [st EXCEPT !.status = "Internal"])
      /\ Outcome(st.p, [st EXCEPT !.status = "CircularExternalNode"])
  BY <1>2, <1>4, FailedOutcome DEF IsState, IsProcessor, Errors
<1>6. x = [f \in Fields |-> x[f]] /\ x.p = loaded.p /\ x.brk = NoBreak
  BY Zenon DEF IsState, Fields
<1> HIDE DEF x
<1>7. r = [f \in Fields |-> r[f]] /\ r.p = loaded.p /\ r.brk = NoBreak
  BY <1>6, Zenon DEF push, Fields
<1> HIDE DEF r
<1>8. Outcome(st.p, r)
  BY <1>2, <1>7, NoBreakKind DEF Outcome, Bounded, Horizon
<1> QED
  BY <1>3, <1>5, <1>8

\* One step of the loop enters no context that was used, and keeps the bound.
LEMMA AdvanceFresh ==
    ASSUME NEW st, IsState(st), st.status = "running", Bounded(st), CanAdvance(st)
    PROVE  FreshContext(st.p, Advance(st).p) /\ Bounded(Advance(st))
<1> DEFINE next  == Advance(st)
           taken == Taken(st)
<1>0. Below(st.p, Horizon(st)) /\ st = [x \in Fields |-> st[x]] /\ IsProcessor(st.p)
      /\ st.t = NoopTracer
  BY DEF Bounded, IsState
<1>1. FreshContext(st.p, st.p)
  BY StillFresh
<1>2. CASE st.brk.kind = "Emit"
  <2>1. next = finish_emit_op_execution(st, handle_emit(st.p)) /\ Below(st.p, st.p.clk)
    BY <1>0, <1>2 DEF Advance, Horizon
  <2> QED
    BY <2>1, EmitOutcome DEF Outcome
<1>3. CASE st.brk.kind = "LoadFromDyn"
  <2>1. /\ next = Load(st, finish_load_mast_forest_from_dyn_start)
        /\ Below(st.p, st.p.clk + 1)
    BY <1>0, <1>3 DEF Advance, Horizon
  <2> QED
    BY <2>1, LoadDynOutcome DEF Outcome
<1>4. CASE st.brk.kind = "LoadFromExternal"
  <2>1. next = Load(st, finish_load_mast_forest_from_external) /\ Below(st.p, st.p.clk)
    BY <1>0, <1>4 DEF Advance, Horizon
  <2> QED
    BY <2>1, LoadExternalOutcome DEF Outcome
<1>5. CASE st.brk.kind = "none" /\ Agenda(st) = <<>>
  <2>1. next = return_outputs(st)
    BY <1>5 DEF Advance
  <2>2. check_outputs(st.p).err \in Errors \cup {"none"}
    BY <1>0, OutputsKept DEF Kept, IsProcessor
  <2>3. next.p = st.p /\ next.status \notin {"running", "stopped"}
    BY <1>0, <2>1, <2>2 DEF return_outputs, Fields, Errors
  <2> HIDE DEF next
  <2> QED
    BY <1>1, <2>3 DEF Bounded, next
<1>6. CASE st.brk.kind = "none" /\ Agenda(st) # <<>>
  <2>1. /\ taken = [x \in Fields |-> taken[x]] /\ taken.p = st.p /\ taken.brk = st.brk
        /\ taken.status = "running" /\ taken.t = st.t /\ taken.forest = st.forest
    BY <1>0, Zenon DEF Taken, Fields
  <2>2. next = Handler(taken, NextUp(st))
    BY <1>6 DEF Advance
  <2> HIDE DEF taken, next
  <2>3. Handled(taken, NextUp(st))
    BY <1>6, <2>1 DEF CanAdvance, Handled
  <2>4. Called(taken)
    BY <1>0, <1>6, <2>1 DEF Called, InHandler, Horizon
  <2>5. Outcome(taken.p, next)
    BY <2>2, <2>3, <2>4, HandlerOutcome
  <2> QED
    BY <2>1, <2>5 DEF Outcome, next
<1> QED
  BY <1>2, <1>3, <1>4, <1>5, <1>6 DEF CanAdvance
=============================================================================
