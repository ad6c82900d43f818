----------------------------- MODULE MastForest -----------------------------
(***************************************************************************)
(* MAST forests, operations and continuations: the data the execution loop *)
(* works on.                                                               *)
(*                                                                         *)
(* A forest is [nodes, roots]: a sequence of nodes, whose indices are the  *)
(* node ids, and the ids of the procedure roots in order.  A node is       *)
(* [kind, digest, kids, batches].  kids lists the ids of its children and  *)
(* batches the operation batches of a basic block.  Digests are numbers: a *)
(* word of four field elements is one stack or memory element here, so an  *)
(* operation on a word and the same operation on an element differ only in *)
(* the queue that replays them.                                            *)
(***************************************************************************)
EXTENDS Integers, Sequences, FiniteSets

ZERO == 0
ONE == 1

\* A Vec used as a stack: its last element, and what is left without it.
peek(stack) == stack[Len(stack)]

pop(stack) == SubSeq(stack, 1, Len(stack) - 1)

\* Frame pointer slot that CALL and DYNCALL initialise in a fresh context.
FMP_ADDR == 7
FMP_INIT_VALUE == 4

Node(kind, digest, kids) ==
    [kind |-> kind, digest |-> digest, kids |-> kids, batches |-> <<>>]

Block(digest, batches) ==
    [kind |-> "block", digest |-> digest, kids |-> <<>>, batches |-> batches]

NoNode == Node("none", ZERO, <<>>)

NoDigest == -1

Op(name) == [name |-> name, imm |-> ZERO]

PushOp(value) == [name |-> "push", imm |-> value]

\* Operations that move the sixteenth stack element to the overflow table.
increments_stack_size(op) ==
    op.name \in {"push", "dup", "sdepth", "clk", "advpop"}

\* Operations that pull an element back from the overflow table.
decrements_stack_size(op) ==
    op.name \in {"drop", "assert", "add", "mstore"}

\* First root of the forest that has the digest, or 0.
FirstRoot(forest, digest, visited) ==
    LET hits == {i \in DOMAIN forest.roots :
                   /\ forest.roots[i] \in visited
                   /\ forest.nodes[forest.roots[i]].digest = digest}
        first == CHOOSE i \in hits : \A j \in hits : i <= j
    IN  IF hits = {} THEN 0 ELSE forest.roots[first]

-----------------------------------------------------------------------------
(* Continuations.  forest is the forest that an EnterForest goes back to.  *)

Continuation(kind, node) ==
    [kind |-> kind, node |-> node, batch |-> 0, op |-> 0, forest |-> 0]

StartNode(node) == Continuation("StartNode", node)

ResumeBasicBlock(node, batch, op) ==
    [Continuation("ResumeBasicBlock", node) EXCEPT !.batch = batch, !.op = op]

Respan(node, batch) == [Continuation("Respan", node) EXCEPT !.batch = batch]

FinishBasicBlock(node) == Continuation("FinishBasicBlock", node)

EnterForest(forest) == [Continuation("EnterForest", 0) EXCEPT !.forest = forest]

NoContinuation == Continuation("none", 0)

increments_clk(cont) == cont.kind # "EnterForest"

\* The last continuation that iter_continuations_for_next_clock yields: the
\* topmost one that takes a clock cycle, when there is one.
continuation_for_next_clock(stack) ==
    LET ticking == {i \in DOMAIN stack : increments_clk(stack[i])}
        topmost == CHOOSE i \in ticking : \A j \in ticking : i >= j
    IN  IF ticking = {} THEN NoContinuation ELSE stack[topmost]
=============================================================================
