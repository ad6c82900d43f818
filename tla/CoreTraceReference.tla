------------------------- MODULE CoreTraceReference -------------------------
(***************************************************************************)
(* What a program means, written without continuations, buffers, fragments *)
(* or queues: Run executes a node by recursion over the MAST and returns   *)
(* the machine with the core trace rows the execution must have.  A row's  *)
(* system and stack columns are the machine's state when its cycle starts. *)
(*                                                                         *)
(* The machine m is the clock, the context, the caller's hash, the top of  *)
(* the stack and its overflow (entries [value, clk], clk being the cycle   *)
(* that pushed them), the number hidden of elements in suspended contexts, *)
(* memory, advice, the address of the next hasher row, rows and err.       *)
(***************************************************************************)
EXTENDS MastForest, SequencesExt

CONSTANTS Forests, MIN_STACK_DEPTH, MaxStackDepth, MaxCycles, MaxMemory, MaxAdvice,
          Library, EventAdvice, kernel

Machine(inputs, advice) ==
    [clk |-> 0, ctx |-> 0, fn |-> ZERO, top |-> inputs, over |-> <<>>, hidden |-> 0,
     mem |-> <<>>, advice |-> advice, addr |-> 1, rows |-> <<>>, err |-> "none"]

Failed(m, err) == [m EXCEPT !.err = err]

Depth(m) == MIN_STACK_DEPTH + Len(m.over)

OverflowAddr(over) == IF over = <<>> THEN ZERO ELSE Last(over).clk

Nth(m, n) == m.top[MIN_STACK_DEPTH - n]

WithNth(m, n, value) == [m EXCEPT !.top[MIN_STACK_DEPTH - n] = value]

Grow(m, value) ==
    IF Depth(m) + m.hidden >= MaxStackDepth THEN Failed(m, "StackDepthLimitExceeded")
    ELSE [m EXCEPT !.over = Append(@, [value |-> Head(m.top), clk |-> m.clk]),
                   !.top = Append(Tail(@), value)]

Shrink(m) ==
    IF m.over = <<>> THEN [m EXCEPT !.top = <<ZERO>> \o Front(@)]
    ELSE [m EXCEPT !.top = <<Last(m.over).value>> \o Front(@), !.over = Front(@)]

At(m, ctx, loc) == IF <<ctx, loc>> \in DOMAIN m.mem THEN m.mem[<<ctx, loc>>] ELSE ZERO

Write(m, ctx, loc, value) ==
    LET locs == DOMAIN m.mem \cup {<<ctx, loc>>}
    IN  IF Cardinality(locs) > MaxMemory THEN Failed(m, "MemoryElementLimitExceeded")
        ELSE [m EXCEPT !.mem = [l \in locs |-> IF l = <<ctx, loc>> THEN value ELSE m.mem[l]]]

SystemOf(m) == [clk |-> m.clk, ctx |-> m.ctx, fn_hash |-> m.fn]

StackOf(m) == [top |-> m.top, b0 |-> Depth(m), b1 |-> OverflowAddr(m.over)]

Row(m, opcode, addr, first, second) ==
    [opcode |-> opcode, addr |-> addr, hasher |-> <<first, second>>,
     system |-> SystemOf(m), stack |-> StackOf(m)]

\* One cycle: the row of the state before it, then what the cycle does.
Cycle(before, row, after) ==
    IF before.err # "none" THEN before
    ELSE IF after.err # "none" THEN after
    ELSE IF before.clk + 1 > MaxCycles THEN Failed(before, "CycleLimitExceeded")
    ELSE [after EXCEPT !.rows = Append(@, row), !.clk = before.clk + 1]

-----------------------------------------------------------------------------
Zeros == <<ZERO, ZERO, ZERO, ZERO>>

Bit(b) == IF b THEN ONE ELSE ZERO

Digest(forest, id) == Forests[forest].nodes[id].digest

Operate(m, op) ==
    CASE op.name = "noop"   -> m
      [] op.name = "push"   -> Grow(m, op.imm)
      [] op.name = "dup"    -> Grow(m, Nth(m, 0))
      [] op.name = "sdepth" -> Grow(m, Depth(m))
      [] op.name = "clk"    -> Grow(m, m.clk)
      [] op.name = "caller" -> WithNth(m, 0, m.fn)
      [] op.name = "drop"   -> Shrink(m)
      [] op.name = "add"    -> WithNth(Shrink(m), 0, Nth(m, 0) + Nth(m, 1))
      [] op.name = "swap"   -> WithNth(WithNth(m, 0, Nth(m, 1)), 1, Nth(m, 0))
      [] op.name = "assert" -> IF Nth(m, 0) = ONE THEN Shrink(m) ELSE Failed(m, "FailedAssertion")
      [] op.name = "mload"  -> WithNth(m, 0, At(m, m.ctx, Nth(m, 0)))
      [] op.name = "mstore" -> Write(Shrink(m), m.ctx, Nth(m, 0), Nth(m, 1))
      [] op.name = "advpop" -> IF m.advice = <<>> THEN Failed(m, "AdviceStackReadFailed")
                               ELSE Grow([m EXCEPT !.advice = Tail(@)], Head(m.advice))
      [] op.name = "emit"   -> IF Nth(m, 0) \notin DOMAIN EventAdvice THEN Failed(m, "EventError")
                               ELSE IF Len(m.advice) + Len(EventAdvice[Nth(m, 0)]) > MaxAdvice
                                 THEN Failed(m, "SizeBudgetExceeded")
                               ELSE [m EXCEPT !.advice = EventAdvice[Nth(m, 0)] \o @]

\* Batch b of a block whose first batch has hasher address addr.
Batch(m, node, addr, parent, b) ==
    LET here  == addr + 2 * (b - 1)
        entry == IF b = 1 THEN m
                 ELSE Cycle(m, Row(m, "respan", here - 2, <<node.digest, b>>, Zeros), m)
        step(u, i) ==
            LET op == node.batches[b][i]
            IN  IF u.err # "none" THEN u
                ELSE Cycle(u, Row(u, op.name, here, <<node.digest, b, i>>, <<parent>>),
                           Operate(u, op))
    IN  FoldLeft(step, entry, [i \in DOMAIN node.batches[b] |-> i])

RunBlock(m, node, parent, in_loop) ==
    LET n      == Len(node.batches)
        start  == Cycle(m, Row(m, "span", parent, <<node.digest, 1>>, Zeros),
                        [m EXCEPT !.addr = @ + 2 * n])
        end(u) == Cycle(u, Row(u, "end", m.addr + 2 * (n - 1), <<node.digest>>,
                               <<Bit(in_loop), ZERO, ZERO, ZERO>>), u)
    IN  end(FoldLeft(LAMBDA u, b : Batch(u, node, m.addr, parent, b), start,
                     [b \in 1..n |-> b]))

\* Where the host's libraries have a procedure: <<forest, node>>, or <<>>.
Find(forest, digest) ==
    LET has(f)  == FirstRoot(Forests[f], digest, DOMAIN Forests[f].nodes)
        library == IF digest \in DOMAIN Library THEN Library[digest] ELSE 0
    IN  IF forest # 0 /\ has(forest) # 0 THEN <<forest, has(forest)>>
        ELSE IF library # 0 /\ has(library) # 0 THEN <<library, has(library)>>
        ELSE <<>>

Missing(digest) ==
    IF digest \in DOMAIN Library THEN "MalformedMastForestInHost" ELSE "ProcedureNotFound"

Enter(m, callee) ==
    Write([m EXCEPT !.ctx = m.clk + 1, !.fn = callee, !.hidden = @ + Len(m.over), !.over = <<>>],
          m.clk + 1, FMP_ADDR, FMP_INIT_VALUE)

\* Back in the context that caller was in.
Leave(m, caller) ==
    IF m.over # <<>> THEN Failed(m, "InvalidStackDepthOnReturn")
    ELSE [m EXCEPT !.ctx = caller.ctx, !.fn = caller.fn, !.over = caller.over,
                   !.hidden = caller.hidden]

RECURSIVE Run(_, _, _, _, _), Repeat(_, _, _, _, _)

\* Repeat takes a loop on from where its body has left ran.
Repeat(ran, forest, node, mine, in_loop) ==
    CASE ran.err # "none" -> ran
      [] ran.err = "none" /\ Nth(ran, 0) = ONE ->
           LET again == Cycle(ran, Row(ran, "repeat", mine, <<Digest(forest, node.kids[1])>>,
                                       <<ONE, ZERO, ZERO, ZERO>>), Shrink(ran))
           IN  Repeat(Run(again, forest, node.kids[1], mine, TRUE), forest, node, mine, in_loop)
      [] ran.err = "none" /\ Nth(ran, 0) = ZERO ->
           Cycle(ran, Row(ran, "end", mine, <<node.digest>>,
                          <<Bit(in_loop), ONE, ZERO, ZERO>>), Shrink(ran))
      [] ran.err = "none" /\ Nth(ran, 0) \notin {ZERO, ONE} -> Failed(ran, "NotBinaryValue")

Run(m, forest, id, parent, in_loop) ==
    LET node   == Forests[forest].nodes[id]
        kids   == [i \in DOMAIN node.kids |-> Digest(forest, node.kids[i])]
        mine   == m.addr
        start(first, second, after) ==
            Cycle(m, Row(m, node.kind, parent, first, second), [after EXCEPT !.addr = @ + 2])
        end(u, caller, is_call, is_syscall) ==
            Cycle(u, Row(u, "end", mine, <<node.digest>>,
                         <<Bit(in_loop), ZERO, Bit(is_call), Bit(is_syscall)>>),
                  IF is_call \/ is_syscall THEN Leave(u, caller) ELSE u)
        kid(u, i) == Run(u, forest, node.kids[i], mine, FALSE)
        call(entered) == end(kid(start(<<kids[1]>>, Zeros, entered), 1), m,
                             node.kind = "call", node.kind = "syscall")
        dynamic(popped, entered, callee, found) ==
            IF entered.err # "none" THEN entered
            ELSE IF found = <<>> THEN Failed(m, Missing(callee))
            ELSE end(Run(start(<<callee>>,
                               IF node.kind = "dyn" THEN Zeros
                               ELSE <<Depth(popped), OverflowAddr(popped.over), 0, 0>>, entered),
                         found[1], found[2], mine, FALSE),
                     popped, node.kind = "dyncall", FALSE)
        go_to(popped, callee) ==
            dynamic(popped, IF node.kind = "dyncall" THEN Enter(popped, callee) ELSE popped,
                    callee, Find(forest, callee))
        outside(found) ==
            IF found = <<>> THEN Failed(m, Missing(node.digest))
            ELSE IF Forests[found[1]].nodes[found[2]].kind = "external"
              THEN Failed(m, "CircularExternalNode")
            ELSE Run(m, found[1], found[2], parent, in_loop)
    IN  IF m.err # "none" THEN m
        ELSE CASE node.kind = "block" -> RunBlock(m, node, parent, in_loop)
               [] node.kind = "join" ->
                    end(kid(kid(start(<<kids[1]>>, <<kids[2]>>, m), 1), 2), m, FALSE, FALSE)
               [] node.kind = "split" ->
                    IF Nth(m, 0) \notin {ZERO, ONE} THEN Failed(m, "NotBinaryValue")
                    ELSE end(kid(start(<<kids[1]>>, <<kids[2]>>, Shrink(m)), 2 - Nth(m, 0)),
                             m, FALSE, FALSE)
               [] node.kind = "loop" ->
                    Repeat(Run(start(<<kids[1]>>, Zeros, m), forest, node.kids[1], mine, TRUE),
                           forest, node, mine, in_loop)
               [] node.kind = "call" -> call(Enter(m, kids[1]))
               [] node.kind = "syscall" ->
                    IF kids[1] \notin kernel THEN Failed(m, "SyscallTargetNotInKernel")
                    ELSE call([m EXCEPT !.ctx = 0, !.hidden = @ + Len(m.over), !.over = <<>>])
               [] node.kind \in {"dyn", "dyncall"} -> go_to(Shrink(m), At(m, m.ctx, Nth(m, 0)))
               [] node.kind = "external" -> outside(Find(0, node.digest))

\* The program has ended in m: a HALT row says in what state.
Halt(m, prog) ==
    IF m.err # "none" THEN m
    ELSE IF m.over # <<>> THEN Failed(m, "OutputStackOverflow")
    ELSE [m EXCEPT !.rows = Append(@, Row(m, "halt", 0, <<Digest(prog.forest, prog.entry)>>,
                                          Zeros))]

RunProgram(prog) ==
    Halt(Run(Machine(prog.inputs, prog.advice), prog.forest, prog.entry, 0, FALSE), prog)
=============================================================================
