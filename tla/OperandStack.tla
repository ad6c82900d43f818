---------------------------- MODULE OperandStack ----------------------------
(***************************************************************************)
(* What the operand stack of the Miden VM promises to the program, without *)
(* the buffer that FastProcessor keeps it in.  The stack of the current    *)
(* context never holds fewer than MIN_STACK_DEPTH elements: a drop at the  *)
(* minimum depth pulls a zero in from below.  A call, dyncall or syscall   *)
(* hides everything under the top MIN_STACK_DEPTH elements until the       *)
(* matching return.                                                        *)
(*                                                                         *)
(* stk lists the stack of the current context from its bottom to its top,  *)
(* hidden the overflow of each suspended context, the innermost one last.  *)
(***************************************************************************)
EXTENDS Integers, Sequences

CONSTANTS Felt, Zero, MIN_STACK_DEPTH, MaxStackDepth

VARIABLES
    stk,            \* the stack of the current context, bottom first
    hidden,         \* the overflow of every suspended context
    hiddenLen,      \* how many elements hidden holds in all
    error           \* the error that stopped execution, or "none"

vars == <<stk, hidden, hiddenLen, error>>

Depth == Len(stk)

\* Position idx counted from the top of the stack, as operations count it.
Pos(idx) == Len(stk) - idx

Init ==
    /\ stk \in [1..MIN_STACK_DEPTH -> Felt]
    /\ hidden = <<>>
    /\ hiddenLen = 0
    /\ error = "none"

Push(v) ==
    /\ error = "none"
    /\ Depth + hiddenLen + 1 <= MaxStackDepth
    /\ stk' = Append(stk, v)
    /\ UNCHANGED <<hidden, hiddenLen, error>>

PushOverLimit ==
    /\ error = "none"
    /\ Depth + hiddenLen + 1 > MaxStackDepth
    /\ error' = "StackDepthLimitExceeded"
    /\ UNCHANGED <<stk, hidden, hiddenLen>>

Drop ==
    /\ error = "none"
    /\ stk' = IF Depth > MIN_STACK_DEPTH
                THEN [i \in 1..(Depth - 1) |-> stk[i]]
                ELSE [i \in 1..Depth |-> IF i = 1 THEN Zero ELSE stk[i - 1]]
    /\ UNCHANGED <<hidden, hiddenLen, error>>

Set(idx, v) ==
    /\ error = "none"
    /\ stk' = [stk EXCEPT ![Pos(idx)] = v]
    /\ UNCHANGED <<hidden, hiddenLen, error>>

Swap(idx1, idx2) ==
    /\ error = "none"
    /\ stk' = [stk EXCEPT ![Pos(idx1)] = stk[Pos(idx2)], ![Pos(idx2)] = stk[Pos(idx1)]]
    /\ UNCHANGED <<hidden, hiddenLen, error>>

\* The n-th element from the top moves to the top, those above it move down.
RotateLeft(n) ==
    /\ error = "none"
    /\ stk' = [i \in 1..Depth |->
                 IF i = Depth THEN stk[Pos(n - 1)]
                 ELSE IF i >= Pos(n - 1) THEN stk[i + 1]
                 ELSE stk[i]]
    /\ UNCHANGED <<hidden, hiddenLen, error>>

\* The top element moves n - 1 places down, those it passes move up.
RotateRight(n) ==
    /\ error = "none"
    /\ stk' = [i \in 1..Depth |->
                 IF i = Pos(n - 1) THEN stk[Depth]
                 ELSE IF i > Pos(n - 1) THEN stk[i - 1]
                 ELSE stk[i]]
    /\ UNCHANGED <<hidden, hiddenLen, error>>

StartContext ==
    LET over == Depth - MIN_STACK_DEPTH
    IN  /\ error = "none"
        /\ stk' = [i \in 1..MIN_STACK_DEPTH |-> stk[over + i]]
        /\ hidden' = Append(hidden, [i \in 1..over |-> stk[i]])
        /\ hiddenLen' = hiddenLen + over
        /\ UNCHANGED error

RestoreContext ==
    LET saved == hidden[Len(hidden)]
        over  == Len(saved)
    IN  /\ error = "none"
        /\ hidden # <<>>
        /\ Depth = MIN_STACK_DEPTH
        /\ stk' = [i \in 1..(over + MIN_STACK_DEPTH) |->
                     IF i <= over THEN saved[i] ELSE stk[i - over]]
        /\ hidden' = [i \in 1..(Len(hidden) - 1) |-> hidden[i]]
        /\ hiddenLen' = hiddenLen - over
        /\ UNCHANGED error

RestoreTooDeep ==
    /\ error = "none"
    /\ hidden # <<>>
    /\ Depth > MIN_STACK_DEPTH
    /\ error' = "InvalidStackDepthOnReturn"
    /\ UNCHANGED <<stk, hidden, hiddenLen>>

Next ==
    \/ \E v \in Felt : Push(v)
    \/ PushOverLimit
    \/ Drop
    \/ \E idx \in 0..(MIN_STACK_DEPTH - 1), v \in Felt : Set(idx, v)
    \/ \E i, j \in 0..(MIN_STACK_DEPTH - 1) : Swap(i, j)
    \/ \E n \in 1..MIN_STACK_DEPTH : RotateLeft(n) \/ RotateRight(n)
    \/ StartContext
    \/ RestoreContext
    \/ RestoreTooDeep

Spec == Init /\ [][Next]_vars
=============================================================================
